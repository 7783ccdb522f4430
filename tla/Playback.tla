------------------------------ MODULE Playback ------------------------------
(***************************************************************************)
(* Choosing what to play: the page's Player (frontend/src/player.ts), the  *)
(* bridge, which runs calls concurrently and so in any order, and the      *)
(* generation fence of Resolve and CancelResolve of the service            *)
(* (internal/app/playback.go).                                             *)
(*                                                                         *)
(* A request is named by the page that made it and its serial number,      *)
(* which is also its generation.  calls are bridge calls that have not     *)
(* reached their first lock section; running are resolves at the platform; *)
(* tasks are the page's continuations: an await in start or toggle.        *)
(***************************************************************************)
EXTENDS Naturals, FiniteSets

CONSTANTS
  Legacy,        \* requests of callers that send no generation
  None,          \* no request
  MaxGeneration, \* the largest generation the bridge can carry
  MaxEpoch,      \* bound on session epochs
  MaxPage,       \* bound on the pages loaded into the window
  MaxCalls,      \* bound on the calls waiting at the bridge
  MaxRunning     \* bound on the resolves at the platform, for LegacyCall

Own == [page : 1..MaxPage, seq : 1..MaxGeneration]
Request == Own \cup Legacy

ASSUME PlaybackAssumption ==
  /\ None \notin Request
  /\ Legacy \cap Own = {}
  /\ MaxGeneration \in Nat \ {0} /\ MaxEpoch \in Nat \ {0} /\ MaxPage \in Nat \ {0}
  /\ MaxCalls \in Nat /\ MaxRunning \in Nat

VARIABLES
  session,  \* the session's epoch
  play,     \* the service's play* fields
  calls,    \* bridge calls under way to the service
  running,  \* resolves between their two commits
  page,     \* the Player and what the shell knows of the session
  tasks,    \* the page's continuations
  boot      \* what the last bootstrap answered and the page has not seen yet

vars == <<session, play, calls, running, page, tasks, boot>>

Maybe(S) == S \cup {None}
Epoch == 1..MaxEpoch
Generation == 0..MaxGeneration

(* by is history: the page whose call set the generation, 0 for none.      *)
Fence ==
  [epoch : 0..MaxEpoch, generation : Generation, ordered : BOOLEAN,
   id : Maybe(Request), cancel : Maybe(Request), by : 0..MaxPage]

(* stopped is history: the service has taken a cancel of this request.     *)
(* A call without a generation, 0 here, does not wait: see LegacyCall.     *)
Call ==
  [kind : {"resolve", "cancel"}, epoch : Epoch, generation : 1..MaxGeneration, id : Own,
   stopped : BOOLEAN]

Resolving ==
  [id : Request, epoch : Epoch, generation : Generation, cancelled : BOOLEAN,
   stopped : BOOLEAN]

Player ==
  [nr : 1..MaxPage, epoch : Epoch, serial : Generation, id : Maybe(Own), itemEpoch : Epoch,
   resolved : BOOLEAN, source : Maybe(Own),
   state : {"idle", "resolving", "playing", "paused", "error"}]

Task ==
  [id : Own, seq : 1..MaxGeneration, epoch : Epoch,
   step : {"flushed", "resolved", "prepared", "resumed", "cancelled", "failed"}]

Bootstrapped == [epoch : Epoch, generation : Generation]

NoPlay == [epoch |-> 0, generation |-> 0, ordered |-> FALSE, id |-> None, cancel |-> None, by |-> 0]
NewPage(nr, e) ==
  [nr |-> nr, epoch |-> e, serial |-> 0, id |-> None, itemEpoch |-> e, resolved |-> FALSE,
   source |-> None, state |-> "idle"]

Init ==
  /\ session = 1
  /\ play = NoPlay
  /\ calls = {} /\ running = {}
  /\ page = NewPage(1, 1)
  /\ tasks = {}
  /\ boot = None

----------------------------------------------------------------------------
(* The service.                                                            *)

resetPlaybackEpochLocked == IF play.epoch = session THEN play ELSE [NoPlay EXCEPT !.epoch = session]

CancelledNever(id) == running

(* playCancel of the request id, when that is still running.               *)
Cancelled(id) ==
  {IF r.id = id THEN [r EXCEPT !.cancelled = TRUE] ELSE r : r \in running}

(* What resetting to a new epoch leaves of the running resolves.           *)
AfterReset == IF play.epoch = session THEN running ELSE Cancelled(play.cancel)

Origin(id) == IF id \in Own THEN id.page ELSE 0

(* The answer reaches the page that asked, if it is still there.           *)
Reply(id, e, step) ==
  IF Origin(id) = page.nr
    THEN tasks \cup {[id |-> id, seq |-> id.seq, epoch |-> e, step |-> step]}
    ELSE tasks

AcceptsUnbounded(p, c) ==
  IF c.generation = 0 THEN ~p.ordered ELSE c.generation > p.generation

Accepts(p, c) ==
  IF c.generation = 0 THEN ~p.ordered /\ p.generation < MaxGeneration
                      ELSE c.generation > p.generation

(* Resolve and ResolveAt up to the end of the first commit.                *)
StaleCall(c) ==
  /\ c.epoch # session
  /\ calls' = calls \ {c}
  /\ tasks' = IF c.kind = "resolve" THEN Reply(c.id, c.epoch, "failed") ELSE tasks
  /\ UNCHANGED <<session, play, running, page, boot>>

RefuseResolve(c) ==
  /\ c.kind = "resolve" /\ c.epoch = session
  /\ ~Accepts(resetPlaybackEpochLocked, c)
  /\ play' = resetPlaybackEpochLocked
  /\ running' = AfterReset
  /\ calls' = calls \ {c}
  /\ tasks' = Reply(c.id, c.epoch, "cancelled")
  /\ UNCHANGED <<session, page, boot>>

BeginResolve(c) ==
  /\ c.kind = "resolve" /\ c.epoch = session
  /\ LET p == resetPlaybackEpochLocked
         g == IF c.generation = 0 THEN p.generation + 1 ELSE c.generation
     IN /\ Accepts(p, c)
        /\ play' = [p EXCEPT !.generation = g, !.ordered = c.generation # 0, !.id = c.id,
                             !.cancel = c.id, !.by = Origin(c.id)]
        /\ running' = Cancelled(play.cancel) \cup
             {[id |-> c.id, epoch |-> c.epoch, generation |-> g, cancelled |-> FALSE,
              stopped |-> c.stopped]}
  /\ calls' = calls \ {c}
  /\ UNCHANGED <<session, page, tasks, boot>>

(* Detail has answered; the second commit.                                 *)
FinishResolve(r) ==
  /\ running' = running \ {r}
  /\ tasks' = Reply(r.id, r.epoch,
       CASE r.epoch # session -> "failed"
         [] r.epoch = session /\ play.id = r.id /\ play.generation = r.generation
              /\ ~r.cancelled -> "resolved"
         [] OTHER -> "cancelled")
  /\ UNCHANGED <<session, play, calls, page, boot>>

(* Detail, the checks on its item or the store fail; the context is done.  *)
FailResolve(r) ==
  /\ running' = running \ {r}
  /\ tasks' = Reply(r.id, r.epoch, IF r.cancelled THEN "cancelled" ELSE "failed")
  /\ UNCHANGED <<session, play, calls, page, boot>>

NamesAnyOlder(p, c) == TRUE

NamesOnlyNewer(p, c) ==
  IF c.generation = 0 THEN p.id = c.id ELSE c.generation > p.generation

Names(p, c) ==
  IF c.generation = 0 THEN p.id = c.id
  ELSE c.generation > p.generation \/ (c.generation = p.generation /\ p.id = c.id)

AfterCancelUnfenced(p, c) == [p EXCEPT !.id = None, !.cancel = None]

AfterCancel(p, c) ==
  IF c.generation = 0 THEN [p EXCEPT !.id = None, !.cancel = None]
  ELSE [p EXCEPT !.generation = c.generation, !.ordered = TRUE, !.id = None, !.cancel = None,
                 !.by = Origin(c.id)]

Stopped(S, id) == {IF r.id = id THEN [r EXCEPT !.stopped = TRUE] ELSE r : r \in S}

(* CancelResolve and CancelResolveAt.                                      *)
CancelResolve(c) ==
  /\ c.kind = "cancel" /\ c.epoch = session
  /\ LET p == resetPlaybackEpochLocked
     IN IF (c.generation = 0 /\ p.ordered) \/ ~Names(p, c)
          THEN play' = p /\ running' = Stopped(AfterReset, c.id)
          ELSE play' = AfterCancel(p, c) /\ running' = Stopped(Cancelled(play.cancel), c.id)
  /\ calls' = {k \in calls \ {c} : k.kind = "cancel"} \cup
                Stopped({k \in calls : k.kind = "resolve"}, c.id)
  /\ UNCHANGED <<session, page, tasks, boot>>

(* Bootstrap, as the shell's reload calls it.                              *)
Bootstrap ==
  /\ play' = resetPlaybackEpochLocked
  /\ running' = AfterReset
  /\ boot' = [epoch |-> session, generation |-> play'.generation]
  /\ UNCHANGED <<session, calls, page, tasks>>

(* A login attempt, its failure and its cancellation move the epoch.       *)
MoveEpoch ==
  /\ session < MaxEpoch
  /\ session' = session + 1
  /\ UNCHANGED <<play, calls, running, page, tasks, boot>>

(* Logout and reset: clearTransientLocked.                                 *)
ClearTransient ==
  /\ session < MaxEpoch
  /\ session' = session + 1
  /\ play' = NoPlay
  /\ running' = Cancelled(play.cancel)
  /\ UNCHANGED <<calls, page, tasks, boot>>

----------------------------------------------------------------------------
(* The page.                                                               *)

(* playback.cancel of the request the player still names.                  *)
CancelOwn ==
  IF page.id = None THEN {}
  ELSE {[kind |-> "cancel", epoch |-> page.itemEpoch, generation |-> page.id.seq, id |-> page.id,
     stopped |-> FALSE]}

Send(C) == calls' = calls \cup C /\ Cardinality(calls') <= MaxCalls

start ==
  /\ page.serial < MaxGeneration
  /\ LET seq == page.serial + 1
         id == [page |-> page.nr, seq |-> seq]
     IN /\ page' = [page EXCEPT !.serial = seq, !.id = id, !.itemEpoch = page.epoch,
                                !.resolved = FALSE, !.source = None, !.state = "resolving"]
        /\ tasks' = tasks \cup {[id |-> id, seq |-> seq, epoch |-> page.epoch, step |-> "flushed"]}
  /\ Send(CancelOwn)
  /\ UNCHANGED <<session, play, running, boot>>

pause ==
  /\ page.serial < MaxGeneration
  /\ page' = [page EXCEPT !.serial = @ + 1,
                          !.state = IF @ \in {"idle", "error"} THEN @ ELSE "paused"]
  /\ Send(CancelOwn)
  /\ UNCHANGED <<session, play, running, tasks, boot>>

(* toggle of a paused player that has an item and still its source.        *)
resume ==
  /\ page.id # None
  /\ page.resolved /\ page.state = "paused" /\ page.itemEpoch = page.epoch
  /\ page.serial < MaxGeneration
  /\ page' = [page EXCEPT !.serial = @ + 1, !.state = "resolving"]
  /\ tasks' = tasks \cup {[id |-> page.id, seq |-> page.serial + 1, epoch |-> page.epoch,
                           step |-> "resumed"]}
  /\ UNCHANGED <<session, play, calls, running, boot>>

clear ==
  /\ page.serial < MaxGeneration
  /\ page' = [page EXCEPT !.serial = @ + 1, !.id = None, !.resolved = FALSE, !.source = None,
                          !.state = "idle"]
  /\ Send(CancelOwn)
  /\ UNCHANGED <<session, play, running, tasks, boot>>

LiveOfAnySerial(t) == t.epoch = page.epoch

(* The guard of every continuation.                                        *)
Live(t) == t.seq = page.serial /\ t.epoch = page.epoch

(* A continuation whose listener has moved on returns.                     *)
Drop(t) ==
  /\ ~Live(t)
  /\ tasks' = tasks \ {t}
  /\ UNCHANGED <<session, play, calls, running, page, boot>>

(* The saves made before are flushed: playback.resolve is called.          *)
ask(t) ==
  /\ t.step = "flushed" /\ Live(t)
  /\ Send({[kind |-> "resolve", epoch |-> t.epoch, generation |-> t.seq, id |-> t.id,
            stopped |-> FALSE]})
  /\ tasks' = tasks \ {t}
  /\ UNCHANGED <<session, play, running, page, boot>>

(* The request is resolved; progress.prepare is awaited.                   *)
prepareProgress(t) ==
  /\ t.step = "resolved" /\ Live(t)
  /\ tasks' = (tasks \ {t}) \cup {[t EXCEPT !.step = "prepared"]}
  /\ UNCHANGED <<session, play, calls, running, page, boot>>

playAudio(t) ==
  /\ t.step \in {"prepared", "resumed"} /\ Live(t)
  /\ page' = [page EXCEPT !.resolved = TRUE, !.source = t.id, !.state = "playing"]
  /\ tasks' = tasks \ {t}
  /\ UNCHANGED <<session, play, calls, running, boot>>

(* playback.resolve, or audio.play, threw; toggle never resumes the source *)
(* that the latter may leave behind.                                       *)
fail(t) ==
  /\ t.step \notin {"flushed", "resolved"} /\ Live(t)
  /\ page' = [page EXCEPT !.state = IF t.step = "resumed" THEN "paused" ELSE "error"]
  /\ tasks' = tasks \ {t}
  /\ UNCHANGED <<session, play, calls, running, boot>>

(* The media element is paused from outside, fails, or reaches the end;    *)
(* one that has failed does not play when resumed.                         *)
mediaEvent ==
  /\ page.resolved /\ page.state \in {"playing", "paused"}
  /\ \E s \in {"paused", "error"} : page' = [page EXCEPT !.state = s]
  /\ UNCHANGED <<session, play, calls, running, tasks, boot>>

(* The rest of the shell's reload.                                         *)
observeGeneration ==
  /\ boot # None
  /\ boot' = None
  /\ page' = IF boot.epoch < page.epoch THEN page
             ELSE [page EXCEPT !.epoch = boot.epoch,
                               !.serial = IF boot.generation > @ THEN boot.generation ELSE @]
  /\ UNCHANGED <<session, play, calls, running, tasks>>

(* The window loads its page anew, which begins with a bootstrap.          *)
LoadPage ==
  /\ page.nr < MaxPage
  /\ play' = resetPlaybackEpochLocked
  /\ running' = AfterReset
  /\ page' = [NewPage(page.nr + 1, session) EXCEPT !.serial = play'.generation]
  /\ tasks' = {} /\ boot' = None
  /\ UNCHANGED <<session, calls>>

----------------------------------------------------------------------------

Handle(c) == StaleCall(c) \/ RefuseResolve(c) \/ BeginResolve(c) \/ CancelResolve(c)

(* A caller without generations asks or cancels: at any time, so its calls *)
(* need not wait in calls.                                                 *)
LegacyCall ==
  /\ Cardinality(running) < MaxRunning
  /\ \E id \in Legacy, kind \in {"resolve", "cancel"} :
       Handle([kind |-> kind, epoch |-> session, generation |-> 0, id |-> id,
               stopped |-> FALSE])

Platform(r) == FinishResolve(r) \/ FailResolve(r)

Continue(t) == Drop(t) \/ ask(t) \/ prepareProgress(t) \/ playAudio(t) \/ fail(t)

Listener == start \/ pause \/ resume \/ clear \/ mediaEvent

Next ==
  \/ \E c \in calls : Handle(c)
  \/ \E r \in running : Platform(r)
  \/ \E t \in tasks : Continue(t)
  \/ Listener \/ Bootstrap \/ observeGeneration \/ LoadPage
  \/ MoveEpoch \/ ClearTransient \/ LegacyCall

Spec == Init /\ [][Next]_vars
----------------------------------------------------------------------------
(* Properties.                                                             *)

(* The shape of every variable.                                            *)
TypeOK ==
  /\ session \in Epoch
  /\ play \in Fence
  /\ calls \in SUBSET Call
  /\ running \in SUBSET Resolving
  /\ page \in Player
  /\ tasks \in SUBSET Task
  /\ boot \in Maybe(Bootstrapped)

(* At most one resolve of a session is not cancelled: a newer selection    *)
(* does not leave an older one working at the platform.                    *)
OneLiveResolve ==
  \A r, s \in running : ~r.cancelled /\ ~s.cancelled /\ r.epoch = s.epoch => r = s

(* "CancelResolveAt also fences a queued request that has not entered      *)
(* ResolveAt yet": once the service has taken the cancel of a request,     *)
(* that request does not work at the platform, whichever came first.       *)
StoppedStaysStopped == \A r \in running : r.stopped => r.cancelled

(* The selection the page is waiting for is not refused on account of an   *)
(* older call that arrives late, only for a caller other than this page.   *)
NewestIsServed ==
  [][\A t \in tasks' \ tasks :
       t.step = "cancelled" /\ Live(t) /\ t.epoch = session => play'.by # page.nr]_vars

(* No work is left behind: a resolve of this page that is alive at the     *)
(* platform is the one its player waits for, or its cancel is on the way.  *)
WorkIsWanted ==
  \A r \in running :
    r.epoch = session /\ ~r.cancelled /\ r.id \in Own /\ Origin(r.id) = page.nr =>
      \/ r.id = page.id /\ page.state = "resolving"
      \/ \E c \in calls : c.kind = "cancel" /\ c.id = r.id

(* What plays is what was last asked for, and nothing plays after a pause. *)
Intent == INSTANCE PlaybackIntent WITH
  Request <- Own,
  wanted <- IF page.state \in {"resolving", "playing"} THEN page.id ELSE None,
  playing <- IF page.state = "playing" THEN page.source ELSE None

PlaysWhatIsWanted == Intent!Spec
=============================================================================
