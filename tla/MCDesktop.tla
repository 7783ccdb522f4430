----------------------------- MODULE MCDesktop -----------------------------
(* A small instance of Community, LocalLists, Quit and Vault for TLC.      *)
EXTENDS Community, LocalLists, Quit, Vault

CONSTANTS api, guest, a1, m, n, v1, v2

Hosts == {api}
Headers == {-1, 0, 3}
Accounts == {a1}
CommentsRead == {m, n}
ThreadOf == [c \in CommentsRead |-> m]
Pairs == {v1, v2}
Owners == {guest, a1}
Entries == 1..3

(* The four share nothing, and not everything happens at once: a behaviour*)
(* keeps to one of these uses, which say what runs side by side.           *)
VARIABLE use

Use(kinds, calls, epochs, clicks, onto, cancels, tries, codes, limited) ==
  [kinds |-> kinds, calls |-> calls, epochs |-> epochs, clicks |-> clicks, targets |-> onto,
   cancels |-> cancels, tries |-> tries, codes |-> codes, limited |-> limited]

Uses == {
  (* Comments across changes of account.                                   *)
  Use({"comment"}, 2, 3, 2, {None}, 1, 2, Code, TRUE),
  (* Replies to what is being read.                                        *)
  Use({"comment", "read"}, 2, 2, 1, {None, m, n}, 0, 1, {"none", "OK", "NETWORK"}, FALSE),
  (* Searches across changes of account.                                   *)
  Use({"search"}, 2, 2, 0, {None}, 0, 2, Code, FALSE),
  (* More calls than slots.                                                *)
  Use({"search", "comment"}, 3, 1, 1, {None}, 1, 2,
      {"none", "OK", "NETWORK", "CANCELLED", "RATE_LIMIT"}, TRUE),
  (* Leaving the program, and the saved session.                           *)
  Use({"quit"}, 0, 1, 0, {None}, 0, 1, {"none"}, FALSE),
  Use({"vault"}, 0, 1, 0, {None}, 0, 1, {"none"}, FALSE),
  (* Lists on this device: up to their limits, and across changes of       *)
  (* account.                                                              *)
  Use({"queue"}, 1, 1, 3, {None}, 0, 1, {"none"}, FALSE),
  Use({"history"}, 1, 3, 3, {None}, 0, 1, {"none"}, FALSE),
  Use({"queue", "reload"}, 2, 3, 1, {None}, 0, 1, {"none"}, FALSE) }

(* Calls and clicks have no names of their own: the first free one is next.*)
InTurn ==
  /\ \A c, d \in Call :
       d < c /\ op[c].kind = "none" /\ op'[c].kind # "none" => op[d].kind # "none"
  /\ \A k, l \in Click : l < k /\ clicked'[k] # 0 => clicked'[l] # 0

Within ==
  /\ InTurn
  /\ epoch' <= use.epochs
  /\ \A c \in Call :
       /\ op'[c].kind \in use.kinds \cup {"none"} /\ op'[c].target \in use.targets
       /\ call'[c].attempt < use.tries /\ call'[c].code \in use.codes
  /\ Cardinality({c \in Call : op'[c].kind # "none"}) <= use.calls
  /\ Cardinality({c \in Call : call'[c].cancelled}) <= use.cancels
  /\ \A k \in Click : clicked'[k] # 0 => k <= use.clicks
  /\ use.limited \/ ~Limited(Api)'

Quitting == use.kinds = {"quit"}
Vaulting == use.kinds = {"vault"}

Listing == use.kinds \cap {"queue", "history"} # {}

WithinLists ==
  /\ era' <= use.epochs
  /\ \A b \in Bridge :
       /\ bridge'[b].kind \in use.kinds \cup {"none"}
       /\ bridge'[b].entry <= use.clicks
       /\ bridge[b].phase = "idle" /\ bridge'[b].phase # "idle"
            => \A c \in Bridge : c < b => bridge[c].phase # "idle"
  /\ Cardinality({b \in Bridge : bridge'[b].phase # "idle"}) <= use.calls

MCInit ==
  /\ Init /\ QuitInit /\ VaultInit /\ LocalInit /\ use \in Uses
  /\ ~Quitting => process = "windows" /\ behavior = "ask"
  /\ ~Vaulting => file = NoFile
  /\ ~Listing => owner = guest

MCNext ==
  /\ UNCHANGED use
  /\ \/ /\ ~Quitting /\ ~Vaulting /\ ~Listing
        /\ Next /\ Within /\ UNCHANGED <<quitVars, vaultVars, localVars>>
     \/ Quitting /\ QuitNext /\ UNCHANGED <<vars, vaultVars, localVars>>
     \/ Vaulting /\ VaultNext /\ UNCHANGED <<vars, quitVars, localVars>>
     \/ Listing /\ LocalNext /\ WithinLists /\ UNCHANGED <<vars, quitVars, vaultVars>>

MCSpec == MCInit /\ [][MCNext]_<<vars, quitVars, vaultVars, localVars, use>> /\ QuitFairness
=============================================================================
