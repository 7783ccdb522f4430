------------------------------ MODULE LocalLists ------------------------------
(***************************************************************************)
(* Lists kept on this device only: the queue and the bookmarks (localList  *)
(* of internal/app/playback.go), the history of searches                   *)
(* (discovery_history.go), and the copy of the queue that the page shows   *)
(* and plays from (queue and reload of shell.ts).  Bridge calls run        *)
(* concurrently: they are handled, and their answers arrive, in any order. *)
(* The bookmarks are a second list like the queue.                         *)
(***************************************************************************)
EXTENDS Integers, Sequences

CONSTANTS
  Owner,      \* scopes of the store: accounts and the guest
  Nobody,     \* the guest
  Entry,      \* episodes, or search terms
  Bridge,     \* bridge calls under way at once
  EntryLimit, \* 2000 in the code
  TermLimit,  \* 10 in the code
  MaxEra,     \* bound on session epochs
  MaxReload   \* bound on reloads

ASSUME LocalListsAssumption ==
  /\ Nobody \in Owner /\ 0 \notin Entry
  /\ EntryLimit \in Nat \ {0} /\ TermLimit \in Nat \ {0}
  /\ MaxEra \in Nat \ {0} /\ MaxReload \in Nat

VARIABLES
  era, owner, \* the session's epoch, and whose it is
  queue,      \* rows of kind queue
  terms,      \* rows of kind discovery
  bridge,     \* each bridge call
  reloads,    \* Shell.reloadGeneration
  shown,      \* Shell.boot: epoch and queue, and whose they are (history)
  log         \* history: the terms searched for, latest first, never cut

localVars == <<era, owner, queue, terms, bridge, reloads, shown, log>>

Elements(list) == {list[i] : i \in 1..Len(list)}
Distinct(list) == \A i, j \in 1..Len(list) : list[i] = list[j] => i = j
Without(list, x) ==
  LET filtered[n \in 0..Len(list)] ==
        IF n = 0 THEN <<>>
        ELSE IF list[n] = x THEN filtered[n - 1]
        ELSE Append(filtered[n - 1], list[n])
  IN filtered[Len(list)]
Cut(list, n) == SubSeq(list, 1, IF Len(list) < n THEN Len(list) ELSE n)

Copy(e, who, of, list) == [era |-> e, owner |-> who, of |-> of, queue |-> list]

Free ==
  [phase |-> "idle", kind |-> "none", op |-> "none", era |-> 0, entry |-> 0, serial |-> 0,
   answer |-> Copy(0, owner, owner, <<>>)]

Shown(copy) ==
  /\ copy.era \in 0..MaxEra /\ copy.owner \in Owner /\ copy.of \in Owner
  /\ copy.queue \in Seq(Entry)

LocalTypeOK ==
  /\ era \in 1..MaxEra /\ owner \in Owner /\ reloads \in 0..MaxReload
  /\ \A list \in {queue, terms, log} : DOMAIN list = Owner /\ \A o \in Owner : list[o] \in Seq(Entry)
  /\ \A b \in Bridge :
       /\ bridge[b].phase \in {"idle", "asked", "answered"}
       /\ bridge[b].kind \in {"none", "queue", "history", "reload"}
       /\ bridge[b].entry \in Entry \cup {0} /\ bridge[b].serial \in 0..MaxReload
       /\ Shown(bridge[b].answer)
  /\ Shown(shown)

LocalInit ==
  /\ era = 1 /\ owner \in Owner
  /\ queue = [o \in Owner |-> <<>>] /\ terms = [o \in Owner |-> <<>>]
  /\ bridge = [b \in Bridge |-> Free]
  /\ reloads = 0 /\ shown = Copy(1, owner, owner, <<>>)
  /\ log = [o \in Owner |-> <<>>]

---------------------------------------------------------------------------
(* What the page asks for.                                                 *)

Ask(b, kind, op, entry) ==
  /\ bridge[b].phase = "idle"
  /\ bridge' = [bridge EXCEPT ![b] = [Free EXCEPT
       !.phase = "asked", !.kind = kind, !.op = op, !.era = shown.era, !.entry = entry,
       !.serial = reloads']]

AskList(b) ==
  /\ UNCHANGED <<era, owner, queue, terms, reloads, shown, log>>
  /\ \/ \E entry \in Entry, op \in {"append", "next", "remove"} : Ask(b, "queue", op, entry)
     \/ \E entry \in Entry, op \in {"record", "remove"} : Ask(b, "history", op, entry)
     \/ \E kind \in {"queue", "history"} : Ask(b, kind, "clear", 0)

AskReload(b) ==
  /\ reloads < MaxReload /\ reloads' = reloads + 1
  /\ Ask(b, "reload", "none", 0)
  /\ UNCHANGED <<era, owner, queue, terms, shown, log>>

---------------------------------------------------------------------------
(* What the service makes of it, each in one Commit of the session.        *)

Asked(b, kind) == bridge[b].phase = "asked" /\ bridge[b].kind = kind

Give(b, copy) == bridge' = [bridge EXCEPT ![b].phase = "answered", ![b].answer = copy]

(* Next does not look for the episode further down.                        *)
EditedTwice(list, op, x) ==
  IF op = "append" THEN (IF x \in Elements(list) THEN list ELSE Append(list, x))
  ELSE IF op = "next" THEN <<x>> \o list
  ELSE IF op = "remove" THEN Without(list, x) ELSE <<>>

Edited(list, op, x) ==
  IF op = "append" THEN (IF x \in Elements(list) THEN list ELSE Append(list, x))
  ELSE IF op = "next" THEN <<x>> \o Without(list, x)
  ELSE IF op = "remove" THEN Without(list, x) ELSE <<>>

Fits(list, op, x) ==
  op \in {"append", "next"} /\ x \notin Elements(list) => Len(list) < EntryLimit

localList(b) ==
  LET list == Edited(queue[owner], bridge[b].op, bridge[b].entry) IN
  /\ Asked(b, "queue") /\ bridge[b].era = era
  /\ Fits(queue[owner], bridge[b].op, bridge[b].entry)
  /\ queue' = [queue EXCEPT ![owner] = list]
  /\ Give(b, Copy(era, owner, owner, list))
  /\ UNCHANGED <<era, owner, terms, reloads, shown, log>>

(* The term may be there already.                                          *)
RecordedTwice(list, op, x) ==
  Cut(IF op = "record" THEN <<x>> \o list
      ELSE IF op = "remove" THEN Without(list, x) ELSE <<>>, TermLimit)

Recorded(list, op, x) ==
  Cut(IF op = "record" THEN <<x>> \o Without(list, x)
      ELSE IF op = "remove" THEN Without(list, x) ELSE <<>>, TermLimit)

DiscoveryHistory(b) ==
  LET op == bridge[b].op
      x == bridge[b].entry IN
  /\ Asked(b, "history") /\ bridge[b].era = era
  /\ terms' = [terms EXCEPT ![owner] = Recorded(@, op, x)]
  /\ log' = [log EXCEPT ![owner] =
       IF op = "clear" THEN <<>>
       ELSE IF op = "record" THEN <<x>> \o Without(@, x) ELSE Without(@, x)]
  /\ bridge' = [bridge EXCEPT ![b] = Free]
  /\ UNCHANGED <<era, owner, queue, reloads, shown>>

Bootstrap(b) ==
  /\ Asked(b, "reload")
  /\ Give(b, Copy(era, owner, owner, queue[owner]))
  /\ UNCHANGED <<era, owner, queue, terms, reloads, shown, log>>

(* Stale, over the limit, or the store fails: nothing is written.          *)
Refused(b) ==
  /\ bridge[b].phase = "asked"
  /\ bridge' = [bridge EXCEPT ![b] = Free]
  /\ UNCHANGED <<era, owner, queue, terms, reloads, shown, log>>

---------------------------------------------------------------------------
(* What the page does with the answer.                                     *)

(* Whatever the page shows by now.                                         *)
TakesLate(answer) == [shown EXCEPT !.of = answer.of, !.queue = answer.queue]

(* The page has moved to another epoch since it asked.                     *)
Takes(answer) ==
  IF answer.era # shown.era THEN shown
  ELSE [shown EXCEPT !.of = answer.of, !.queue = answer.queue]

(* Only the newest reload counts, and never for an earlier epoch.          *)
Reloaded(serial, answer) ==
  IF serial # reloads \/ answer.era < shown.era THEN shown ELSE answer

Arrive(b) ==
  LET call == bridge[b] IN
  /\ call.phase = "answered"
  /\ shown' = IF call.kind = "reload" THEN Reloaded(call.serial, call.answer) ELSE Takes(call.answer)
  /\ bridge' = [bridge EXCEPT ![b] = Free]
  /\ UNCHANGED <<era, owner, queue, terms, reloads, log>>

---------------------------------------------------------------------------
(* Changes of account.  Leaving one deletes its rows, and a reset those of *)
(* everybody; either may fail.  The page learns of it when it reloads.     *)

Move(who) ==
  /\ era < MaxEra /\ era' = era + 1
  /\ owner' = who
  /\ UNCHANGED <<bridge, reloads, shown>>

SignIn(who) == owner = Nobody /\ who # Nobody /\ Move(who) /\ UNCHANGED <<queue, terms, log>>

Emptied(rows, owners) == [o \in Owner |-> IF o \in owners THEN <<>> ELSE rows[o]]

SignOut ==
  /\ Move(Nobody)
  /\ \E owners \in {{}, {owner} \ {Nobody}, Owner} :
       /\ queue' = Emptied(queue, owners)
       /\ terms' = Emptied(terms, owners)
       /\ log' = Emptied(log, owners)

LocalNext ==
  \/ \E b \in Bridge :
       \/ AskList(b) \/ AskReload(b)
       \/ localList(b) \/ DiscoveryHistory(b) \/ Bootstrap(b) \/ Refused(b)
       \/ Arrive(b)
  \/ \E who \in Owner : SignIn(who)
  \/ SignOut

LocalSpec == LocalInit /\ [][LocalNext]_localVars

---------------------------------------------------------------------------
(* However adding, moving up and removing alternate, a list on disk holds  *)
(* an episode once, and no more than its limit.                            *)
ListsAreSound ==
  \A o \in Owner : Distinct(queue[o]) /\ Len(queue[o]) <= EntryLimit

(* The search history is the latest terms, each once, newest first, without*)
(* those removed: DiscoveryHistory.                                        *)
TermsAreRecent ==
  \A o \in Owner :
    /\ Len(terms[o]) <= TermLimit
    /\ terms[o] = Cut(log[o], Len(terms[o]))

(* What the page plays next is from the queue of the account it shows:     *)
(* answers that arrive after an account change put nothing of the earlier  *)
(* account into it.                                                        *)
QueueShownIsOwn == shown.of = shown.owner

(* However calls and accounts are mixed up, the lists on disk are sound and *)
(* the one the page plays from is its own: all of these.                   *)
LocalListsAreRight == ListsAreSound /\ TermsAreRecent /\ QueueShownIsOwn
=============================================================================
