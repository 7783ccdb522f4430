-------------------------------- MODULE Vault --------------------------------
(***************************************************************************)
(* The saved session on disk: FileVault of internal/security/vault.go.  A  *)
(* mutex lets one operation run at a time; each of its steps on the file   *)
(* system may fail, and the process may be killed between any two.  Writes *)
(* go to a temporary file that then replaces the vault's.  What the        *)
(* machine does when it loses power is not modelled.                       *)
(***************************************************************************)
CONSTANTS
  Pair,     \* sessions that may be saved, as the protector sealed them
  NoFile,   \* there is no file
  Tombstone \* an empty file

ASSUME VaultAssumption == NoFile \notin Pair /\ Tombstone \notin Pair /\ NoFile # Tombstone

VARIABLES
  file,   \* what the vault's file holds
  temp,   \* what the temporary file of the operation holds
  step,   \* where the operation under way is
  saving, \* the pair it saves, Tombstone when it clears
  answer  \* what the last operation returned

vaultVars == <<file, temp, step, saving, answer>>

Content == Pair \cup {NoFile, Tombstone}

VaultTypeOK ==
  /\ file \in Content /\ temp \in Content /\ saving \in Content
  /\ step \in {"idle", "write", "replace", "remove", "removeAnyway"}
  /\ answer \in {"none", "ok", "failed"}

VaultInit == file \in Content /\ temp = NoFile /\ step = "idle" /\ saving = NoFile /\ answer = "none"

(* The temporary file, if it is still there, goes with the operation.      *)
Return(what) == step' = "idle" /\ answer' = what /\ temp' = NoFile /\ saving' = NoFile

Begin(content) ==
  /\ step = "idle"
  /\ step' = "write" /\ saving' = content /\ answer' = "none"
  /\ UNCHANGED <<file, temp>>

(* Fails at once where nothing can be protected: see WriteFails.           *)
Save(pair) == Begin(pair)

Clear ==
  \/ file = NoFile /\ step = "idle" /\ Return("ok") /\ UNCHANGED file
  \/ file # NoFile /\ Begin(Tombstone)

(* atomicWrite                                                             *)
Write ==
  /\ step = "write"
  /\ temp' = saving /\ step' = "replace"
  /\ UNCHANGED <<file, saving, answer>>

Clearing == saving = Tombstone

Replace ==
  /\ step = "replace"
  /\ file' = temp
  /\ IF Clearing
     THEN temp' = NoFile /\ step' = "remove" /\ UNCHANGED <<saving, answer>>
     ELSE Return("ok")

(* Goes on as if the tombstone had been written.                           *)
WriteFailsUnseen ==
  /\ step \in {"write", "replace"}
  /\ IF Clearing
     THEN temp' = NoFile /\ step' = "remove" /\ UNCHANGED <<saving, answer>>
     ELSE Return("failed")
  /\ UNCHANGED file

(* Whatever fails before the replacement, or the replacement itself.  The  *)
(* tombstone could not be written: the file is removed as it is.           *)
WriteFails ==
  /\ step \in {"write", "replace"}
  /\ IF Clearing
     THEN temp' = NoFile /\ step' = "removeAnyway" /\ UNCHANGED <<saving, answer>>
     ELSE Return("failed")
  /\ UNCHANGED file

(* No removal matters.                                                     *)
RemoveOrNot ==
  /\ step \in {"remove", "removeAnyway"}
  /\ file' \in {file, NoFile} /\ Return("ok")

(* A tombstone that cannot be removed holds no session.                    *)
Remove ==
  \/ step \in {"remove", "removeAnyway"} /\ file' = NoFile /\ Return("ok")
  \/ step = "remove" /\ UNCHANGED file /\ Return("ok")
  \/ step = "removeAnyway" /\ UNCHANGED file /\ Return("failed")

(* The process is killed and started again.  A temporary file it left is   *)
(* never looked at again.                                                  *)
Kill == step' = "idle" /\ answer' = "none" /\ temp' = NoFile /\ saving' = NoFile /\ UNCHANGED file

VaultNext ==
  \/ \E pair \in Pair : Save(pair)
  \/ Clear \/ Write \/ Replace \/ WriteFails \/ Remove \/ Kill

VaultSpec == VaultInit /\ [][VaultNext]_vaultVars

---------------------------------------------------------------------------
(* What Load makes of the file.                                            *)
Loads(content) == IF content \in Pair THEN content ELSE NoFile

SavedSession == INSTANCE SavedPair WITH
  None <- NoFile,
  held <- Loads(file),
  asked <- IF step = "idle" THEN {} ELSE {Loads(saving)}

(* A session is saved or cleared as a whole, and a caller that is told it  *)
(* is saved or gone finds it so at the next start, wherever the process    *)
(* was killed: Save and Clear of FileVault.                                *)
SavesOrKeeps == SavedSession!PairSpec

(* A clearing goes over the session before it removes the file: a removal  *)
(* that fails after Replace leaves nothing to load.                        *)
TombstoneFirst ==
  /\ step = "replace" => temp = saving
  /\ step \in {"remove", "removeAnyway"} => Clearing
  /\ step = "remove" => file = Tombstone
=============================================================================
