--------------------------- MODULE PlaybackProofs ---------------------------
(***************************************************************************)
(* Playback's safety properties, for every number of pages, epochs and     *)
(* generations and every set of legacy requests: the type invariant, the   *)
(* generation fence of the service, then the page: the work it leaves at   *)
(* the platform, the answers it is given, and that the player implements   *)
(* PlaybackIntent.                                                         *)
(***************************************************************************)
EXTENDS Playback, TLAPS

Alive(r) == ~r.cancelled

(* No call, continuation or answer speaks of an epoch still to come.       *)
EpochsPast ==
  /\ page.epoch <= session /\ page.itemEpoch <= session
  /\ boot # None => boot.epoch <= session
  /\ \A t \in tasks : t.epoch <= session
  /\ \A c \in calls : c.epoch <= session
  /\ \A r \in running : r.epoch <= session

(* A request's generation is its serial number.                            *)
GenerationsAgree ==
  /\ \A c \in calls : c.generation = c.id.seq
  /\ \A t \in tasks : t.step = "flushed" => t.seq = t.id.seq

(* A resolve that is not cancelled is the one the fence names.             *)
AliveIsCurrent ==
  \A r \in running : Alive(r) =>
    /\ r.id = play.id /\ r.id = play.cancel
    /\ r.epoch = play.epoch /\ r.generation = play.generation
    /\ play.ordered = (r.id \in Own)
    /\ r.id \in Own => r.generation = r.id.seq

OneAlive == \A r, s \in running : Alive(r) /\ Alive(s) => r = s

(* A request whose cancel has come first is behind the fence.              *)
StoppedCallsAreOld ==
  \A c \in calls : c.kind = "resolve" /\ c.stopped =>
    \/ c.epoch < session
    \/ play.epoch = session /\ c.generation <= play.generation

FenceInv == AliveIsCurrent /\ OneAlive /\ StoppedCallsAreOld /\ StoppedStaysStopped

----------------------------------------------------------------------------
(* Facts about the operators.                                              *)

LEMMA Constants ==
  /\ MaxGeneration \in Nat /\ MaxEpoch \in Nat /\ MaxPage \in Nat
  /\ 1 \in Epoch /\ 0 \in Generation /\ 1 \in 1..MaxPage
  /\ Epoch \subseteq Nat /\ Generation \subseteq Nat
  /\ Epoch \subseteq 0..MaxEpoch /\ 0 \in 0..MaxEpoch /\ 0 \in 0..MaxPage
  /\ \A S : None \in Maybe(S) /\ S \subseteq Maybe(S)
  /\ None \notin Own
  /\ \A id \in Own : id.page \in 1..MaxPage /\ id.seq \in 1..MaxGeneration
BY PlaybackAssumption DEF Epoch, Generation, Request, Own, Maybe

LEMMA OriginOK ==
  ASSUME NEW id \in Request
  PROVE  /\ Origin(id) \in 0..MaxPage
         /\ Origin(id) \in 1..MaxPage => id \in Own
BY PlaybackAssumption DEF Origin, Request, Own

LEMMA CancelledOK ==
  ASSUME running \in SUBSET Resolving, NEW id
  PROVE  /\ Cancelled(id) \in SUBSET Resolving
         /\ \A r \in Cancelled(id) : Alive(r) => r \in running /\ r.id # id
         /\ \A r \in Cancelled(id) :
              \E s \in running : /\ r.id = s.id /\ r.epoch = s.epoch /\ r.stopped = s.stopped
                                 /\ r.generation = s.generation
BY DEF Cancelled, Resolving, Alive

LEMMA ResetOK ==
  ASSUME TypeOK
  PROVE  /\ resetPlaybackEpochLocked \in Fence
         /\ resetPlaybackEpochLocked.epoch = session
         /\ AfterReset \in SUBSET Resolving
<1> DEFINE p == [NoPlay EXCEPT !.epoch = session]
<1>1. p \in Fence /\ p.epoch = session
  BY Constants DEF NoPlay, Fence, TypeOK
<1>2. AfterReset \in SUBSET Resolving
  BY CancelledOK DEF TypeOK, AfterReset
<1>3. QED
  BY <1>1, <1>2 DEF TypeOK, resetPlaybackEpochLocked

LEMMA StoppedOK ==
  ASSUME NEW S \in SUBSET Resolving, NEW id
  PROVE  /\ Stopped(S, id) \in SUBSET Resolving
         /\ \A r \in Stopped(S, id) :
              \E s \in S : /\ r.id = s.id /\ r.epoch = s.epoch /\ r.generation = s.generation
                           /\ r.cancelled = s.cancelled
         /\ \A r \in Stopped(S, id) : r \in S \/ r.id = id
BY DEF Stopped, Resolving

LEMMA StoppedCallsOK ==
  ASSUME NEW S \in SUBSET Call, NEW id
  PROVE  /\ Stopped(S, id) \in SUBSET Call
         /\ \A r \in Stopped(S, id) :
              \E s \in S : /\ r.id = s.id /\ r.epoch = s.epoch /\ r.generation = s.generation
                           /\ r.kind = s.kind
                           /\ r.stopped => s.stopped \/ r.id = id
BY DEF Stopped, Call

LEMMA ReplyOK ==
  ASSUME TypeOK, NEW id \in Request, NEW e \in Epoch,
         NEW step \in {"resolved", "cancelled", "failed"}
  PROVE  /\ Reply(id, e, step) \in SUBSET Task
         /\ \A t \in Reply(id, e, step) :
              t \in tasks \/ (t.epoch = e /\ t.step # "flushed")
BY Constants, OriginOK DEF Reply, TypeOK, Player, Task

(* The argument of Handle: a call of the page or one of LegacyCall.        *)
AnyCall ==
  [kind : {"resolve", "cancel"}, epoch : Epoch, generation : Generation, id : Request,
   stopped : BOOLEAN]

LEMMA CallsAreCalls ==
  /\ Call \subseteq AnyCall
  /\ TypeOK => \A id \in Legacy, kind \in {"resolve", "cancel"} :
       [kind |-> kind, epoch |-> session, generation |-> 0, id |-> id, stopped |-> FALSE]
         \in AnyCall
BY Constants DEF Call, AnyCall, Request, TypeOK, Generation

----------------------------------------------------------------------------
(* Type correctness, one lemma per group of actions.                       *)

LEMMA TypeAccepted ==
  ASSUME NEW p \in Fence, NEW c \in AnyCall, Accepts(p, c)
  PROVE  (IF c.generation = 0 THEN p.generation + 1 ELSE c.generation) \in Generation
BY Constants DEF Accepts, Fence, AnyCall, Generation

LEMMA TypeHandle ==
  ASSUME TypeOK, NEW c \in AnyCall, Handle(c)
  PROVE  TypeOK'
<1> USE DEF TypeOK
<1> DEFINE p == resetPlaybackEpochLocked
<1>0. /\ p \in Fence /\ AfterReset \in SUBSET Resolving
      /\ c.id \in Request /\ c.epoch \in Epoch /\ Origin(c.id) \in 0..MaxPage
      /\ c.id \in Maybe(Request)
  BY ResetOK, OriginOK, Constants DEF AnyCall
<1>1. CASE StaleCall(c)
  BY <1>0, <1>1, ReplyOK DEF StaleCall
<1>2. CASE RefuseResolve(c)
  BY <1>0, <1>2, ReplyOK DEF RefuseResolve
<1>3. CASE BeginResolve(c)
  <2> DEFINE g == IF c.generation = 0 THEN p.generation + 1 ELSE c.generation
  <2>1. g \in Generation
    BY <1>0, <1>3, TypeAccepted DEF BeginResolve
  <2>2. play' \in Fence
    BY <1>0, <1>3, <2>1 DEF BeginResolve, Fence
  <2>3. running' \in SUBSET Resolving
    <3>1. [id |-> c.id, epoch |-> c.epoch, generation |-> g, cancelled |-> FALSE,
           stopped |-> c.stopped] \in Resolving
      BY <1>0, <2>1 DEF Resolving, AnyCall
    <3>2. QED
      BY <1>3, <3>1, CancelledOK DEF BeginResolve
  <2>4. QED
    BY <1>3, <2>2, <2>3 DEF BeginResolve
<1>4. CASE CancelResolve(c)
  <2>1. AfterCancel(p, c) \in Fence
    BY <1>0, Constants DEF AfterCancel, Fence, AnyCall
  <2>2. play' \in Fence
    BY <1>0, <1>4, <2>1 DEF CancelResolve
  <2>3. running' \in SUBSET Resolving
    BY <1>0, <1>4, StoppedOK, CancelledOK DEF CancelResolve
  <2>4. calls' \in SUBSET Call
    <3>1. {k \in calls : k.kind = "resolve"} \in SUBSET Call
      OBVIOUS
    <3>2. QED
      BY <1>4, <3>1, StoppedCallsOK DEF CancelResolve
  <2>5. QED
    BY <1>4, <2>2, <2>3, <2>4 DEF CancelResolve
<1>5. QED
  BY <1>1, <1>2, <1>3, <1>4 DEF Handle

LEMMA TypePlatform ==
  ASSUME TypeOK, NEW r \in running, Platform(r)
  PROVE  TypeOK'
<1>1. r.id \in Request /\ r.epoch \in Epoch
  BY DEF TypeOK, Resolving
<1>2. CASE FinishResolve(r)
  <2>1. PICK step \in {"resolved", "cancelled", "failed"} : tasks' = Reply(r.id, r.epoch, step)
    BY <1>2 DEF FinishResolve
  <2>2. QED
    BY <1>1, <1>2, <2>1, ReplyOK DEF FinishResolve, TypeOK
<1>3. CASE FailResolve(r)
  BY <1>1, <1>3, ReplyOK DEF FailResolve, TypeOK
<1>4. QED
  BY <1>2, <1>3 DEF Platform

LEMMA TypeContinue ==
  ASSUME TypeOK, NEW t \in tasks, Continue(t)
  PROVE  TypeOK'
<1> USE DEF TypeOK
<1>1. CASE Drop(t)
  BY <1>1 DEF Drop
<1>2. CASE ask(t)
  <2>1. [kind |-> "resolve", epoch |-> t.epoch, generation |-> t.seq, id |-> t.id,
         stopped |-> FALSE] \in Call
    BY DEF Call, Task
  <2>2. QED
    BY <1>2, <2>1 DEF ask, Send
<1>3. CASE prepareProgress(t)
  BY <1>3 DEF prepareProgress, Task
<1>4. CASE playAudio(t)
  BY <1>4, Constants DEF playAudio, Task, Player
<1>5. CASE fail(t)
  BY <1>5 DEF fail, Player
<1>6. QED
  BY <1>1, <1>2, <1>3, <1>4, <1>5 DEF Continue

LEMMA TypeListener ==
  ASSUME TypeOK, Listener
  PROVE  TypeOK'
<1> USE DEF TypeOK
<1>0. CancelOwn \in SUBSET Call
  BY Constants DEF CancelOwn, Call, Player, Maybe
<1>1. page.serial < MaxGeneration => /\ page.serial + 1 \in Generation
                                     /\ page.serial + 1 \in 1..MaxGeneration
  BY Constants DEF Player, Generation
<1>2. CASE start
  <2> DEFINE id == [page |-> page.nr, seq |-> page.serial + 1]
  <2>1. id \in Own /\ id \in Maybe(Own)
    BY <1>1, <1>2, Constants DEF start, Own, Player
  <2>2. page' \in Player
    BY <1>1, <1>2, <2>1, Constants DEF start, Player
  <2>3. tasks' \in SUBSET Task
    BY <1>1, <1>2, <2>1 DEF start, Player, Task
  <2>4. QED
    BY <1>0, <1>2, <2>2, <2>3 DEF start, Send
<1>3. CASE pause
  BY <1>0, <1>1, <1>3 DEF pause, Send, Player
<1>4. CASE resume
  <2>1. page.id \in Own
    BY <1>4 DEF resume, Player, Maybe
  <2>2. QED
    <3>1. page' \in Player
      BY <1>1, <1>4 DEF resume, Player
    <3>2. [id |-> page.id, seq |-> page.serial + 1, epoch |-> page.epoch,
           step |-> "resumed"] \in Task
      BY <1>1, <1>4, <2>1 DEF resume, Player, Task
    <3>3. QED
      BY <1>4, <3>1, <3>2 DEF resume
<1>5. CASE clear
  BY <1>0, <1>1, <1>5, Constants DEF clear, Send, Player
<1>6. CASE mediaEvent
  BY <1>6 DEF mediaEvent, Player
<1>7. QED
  BY <1>2, <1>3, <1>4, <1>5, <1>6 DEF Listener

LEMMA TypeSession ==
  ASSUME TypeOK, Bootstrap \/ observeGeneration \/ LoadPage \/ MoveEpoch \/ ClearTransient
  PROVE  TypeOK'
<1> USE DEF TypeOK
<1>1. CASE Bootstrap
  <2>1. play' \in Fence
    BY <1>1, ResetOK DEF Bootstrap
  <2>2. boot' \in Maybe(Bootstrapped)
    BY <1>1, <2>1, Constants DEF Bootstrap, Bootstrapped, Fence
  <2>3. QED
    BY <1>1, <2>1, <2>2, ResetOK DEF Bootstrap
<1>2. CASE observeGeneration
  <2>1. page' \in Player
    BY <1>2 DEF observeGeneration, Player, Bootstrapped, Maybe
  <2>2. QED
    BY <1>2, <2>1, Constants DEF observeGeneration
<1>3. CASE LoadPage
  <2>1. play' \in Fence
    BY <1>3, ResetOK DEF LoadPage
  <2>2. play'.generation \in Generation /\ page.nr + 1 \in 1..MaxPage
    BY <1>3, <2>1, Constants DEF LoadPage, Fence, Player
  <2>3. page' \in Player
    BY <1>3, <2>2, Constants DEF LoadPage, Player, NewPage
  <2>4. QED
    BY <1>3, <2>1, <2>3, ResetOK, Constants DEF LoadPage
<1>4. CASE MoveEpoch
  BY <1>4, Constants DEF MoveEpoch, Epoch
<1>5. CASE ClearTransient
  <2>1. NoPlay \in Fence
    BY Constants DEF NoPlay, Fence
  <2>2. session' \in Epoch
    BY <1>5, Constants DEF ClearTransient, Epoch
  <2>3. QED
    BY <1>5, <2>1, <2>2, CancelledOK DEF ClearTransient
<1>6. QED
  BY <1>1, <1>2, <1>3, <1>4, <1>5

LEMMA TypeInit == Init => TypeOK
<1> SUFFICES ASSUME Init PROVE TypeOK
  OBVIOUS
<1>1. NoPlay \in Fence
  BY Constants DEF NoPlay, Fence
<1>2. NewPage(1, 1) \in Player
  BY Constants DEF NewPage, Player
<1>3. QED
  BY <1>1, <1>2, Constants DEF Init, TypeOK

LEMMA TypeNext == TypeOK /\ [Next]_vars => TypeOK'
<1> SUFFICES ASSUME TypeOK, [Next]_vars PROVE TypeOK'
  OBVIOUS
<1>1. CASE UNCHANGED vars
  BY <1>1 DEF vars, TypeOK
<1>2. ASSUME NEW c \in calls, Handle(c) PROVE TypeOK'
  BY <1>2, CallsAreCalls, TypeHandle DEF TypeOK
<1>3. CASE LegacyCall
  BY <1>3, CallsAreCalls, TypeHandle DEF LegacyCall
<1>4. QED
  BY <1>1, <1>2, <1>3, TypePlatform, TypeContinue, TypeListener, TypeSession DEF Next

(* Every variable of Playback keeps its shape.                             *)
THEOREM PlaybackTypeCorrect == Spec => []TypeOK
BY TypeInit, TypeNext, PTL DEF Spec

----------------------------------------------------------------------------
(* The fence.  Epochs and generations first: they need only the types.     *)

(* A call that Handle gets from the page, or from a legacy caller.         *)
Given(c) ==
  \/ c \in calls
  \/ c.generation = 0 /\ c.id \in Legacy /\ c.epoch = session /\ ~c.stopped

Books == EpochsPast /\ GenerationsAgree

LEMMA BooksHandle ==
  ASSUME TypeOK, Books, NEW c \in AnyCall, Given(c), Handle(c)
  PROVE  Books'
<1> USE DEF Books, EpochsPast, GenerationsAgree
<1>1. c.id \in Request /\ c.epoch \in Epoch
  BY DEF AnyCall
<1>b. /\ \A r \in AfterReset : r.epoch <= session
      /\ \A r \in Cancelled(play.cancel) : r.epoch <= session
  BY CancelledOK DEF TypeOK, AfterReset
<1>2. CASE StaleCall(c)
  <2>1. c.epoch <= session
    BY Constants DEF TypeOK, Given
  <2>2. QED
    BY <1>1, <1>2, <2>1, ReplyOK DEF StaleCall
<1>a. CASE RefuseResolve(c)
  <2>1. c.epoch <= session
    BY <1>a, Constants DEF TypeOK, RefuseResolve
  <2>2. QED
    BY <1>1, <1>a, <1>b, <2>1, ReplyOK DEF RefuseResolve
<1>3. CASE BeginResolve(c)
  BY <1>b, <1>3, Constants DEF BeginResolve, TypeOK
<1>4. CASE CancelResolve(c)
  <2>1. {k \in calls : k.kind = "resolve"} \in SUBSET Call
    BY DEF TypeOK
  <2>2. \A k \in calls' : \E l \in calls : /\ k.epoch = l.epoch /\ k.id = l.id
                                            /\ k.generation = l.generation
    BY <1>4, <2>1, StoppedCallsOK DEF CancelResolve
  <2>3. \A r \in running' : r.epoch <= session
    BY <1>b, <1>4, StoppedOK, ResetOK, CancelledOK DEF CancelResolve, TypeOK
  <2>4. QED
    BY <1>4, <2>2, <2>3 DEF CancelResolve
<1>5. QED
  BY <1>2, <1>a, <1>3, <1>4 DEF Handle

LEMMA BooksPlatform ==
  ASSUME TypeOK, Books, NEW r \in running, Platform(r)
  PROVE  Books'
<1> USE DEF Books, EpochsPast, GenerationsAgree
<1>1. r.id \in Request /\ r.epoch \in Epoch
  BY DEF TypeOK, Resolving
<1>2. CASE FinishResolve(r)
  <2>1. PICK step \in {"resolved", "cancelled", "failed"} : tasks' = Reply(r.id, r.epoch, step)
    BY <1>2 DEF FinishResolve
  <2>2. QED
    BY <1>1, <1>2, <2>1, ReplyOK DEF FinishResolve
<1>3. CASE FailResolve(r)
  BY <1>1, <1>3, ReplyOK DEF FailResolve
<1>4. QED
  BY <1>2, <1>3 DEF Platform

LEMMA BooksPage ==
  ASSUME TypeOK, Books, Listener \/ \E t \in tasks : Continue(t)
  PROVE  Books'
<1> USE DEF Books, EpochsPast, GenerationsAgree
<1>0. \A c \in CancelOwn : c.epoch = page.itemEpoch /\ c.generation = c.id.seq
  BY DEF CancelOwn
<1>1. CASE start
  <2>1. page'.epoch = page.epoch /\ page'.itemEpoch = page.epoch
    BY <1>1 DEF start, TypeOK, Player
  <2>2. \A c \in calls' : c \in calls \/ c \in CancelOwn
    BY <1>1 DEF start, Send
  <2>3. \A t \in tasks' : t \in tasks \/ (t.epoch = page.epoch /\ t.seq = t.id.seq)
    BY <1>1 DEF start
  <2>4. QED
    BY <1>0, <1>1, <2>1, <2>2, <2>3 DEF start
<1>2. CASE pause \/ clear
  <2>1. page'.epoch = page.epoch /\ page'.itemEpoch = page.itemEpoch
    BY <1>2 DEF pause, clear, TypeOK, Player
  <2>2. \A c \in calls' : c \in calls \/ c \in CancelOwn
    BY <1>2 DEF pause, clear, Send
  <2>3. UNCHANGED <<session, running, tasks, boot>>
    BY <1>2 DEF pause, clear
  <2>4. QED
    BY <1>0, <2>1, <2>2, <2>3
<1>3. CASE resume
  BY <1>3 DEF resume, TypeOK, Player
<1>4. CASE mediaEvent
  BY <1>4 DEF mediaEvent, TypeOK, Player
<1>5. ASSUME NEW t \in tasks, Drop(t) \/ ask(t) \/ prepareProgress(t) PROVE Books'
  <2>1. \A c \in calls' : c \in calls \/ (c.epoch = t.epoch /\ c.generation = c.id.seq)
    BY <1>5 DEF Drop, ask, Send, prepareProgress
  <2>2. \A u \in tasks' : u \in tasks \/ (u.epoch = t.epoch /\ u.step # "flushed")
    BY <1>5 DEF Drop, ask, prepareProgress, TypeOK, Task
  <2>3. UNCHANGED <<session, play, running, page, boot>>
    BY <1>5 DEF Drop, ask, prepareProgress
  <2>4. QED
    BY <2>1, <2>2, <2>3
<1>6. ASSUME NEW t \in tasks, playAudio(t) \/ fail(t) PROVE Books'
  <2>1. page'.epoch = page.epoch /\ page'.itemEpoch = page.itemEpoch
    BY <1>6 DEF playAudio, fail, TypeOK, Player
  <2>2. tasks' \subseteq tasks /\ UNCHANGED <<session, running, calls, boot>>
    BY <1>6 DEF playAudio, fail
  <2>3. QED
    BY <2>1, <2>2
<1>7. QED
  BY <1>1, <1>2, <1>3, <1>4, <1>5, <1>6 DEF Listener, Continue

LEMMA BooksSession ==
  ASSUME TypeOK, Books, Bootstrap \/ observeGeneration \/ LoadPage \/ MoveEpoch \/ ClearTransient
  PROVE  Books'
<1> USE DEF Books, EpochsPast, GenerationsAgree
<1>0. /\ \A r \in AfterReset : r.epoch <= session
      /\ \A r \in Cancelled(play.cancel) : r.epoch <= session
      /\ session \in Nat
  BY CancelledOK, Constants DEF TypeOK, AfterReset
<1>1. CASE Bootstrap
  BY <1>0, <1>1 DEF Bootstrap
<1>2. CASE observeGeneration
  BY <1>2 DEF observeGeneration, TypeOK, Player
<1>3. CASE LoadPage
  BY <1>0, <1>3 DEF LoadPage, NewPage
<1>4. CASE MoveEpoch \/ ClearTransient
  <2>1. /\ page.epoch \in Nat /\ page.itemEpoch \in Nat
        /\ boot # None => boot.epoch \in Nat
        /\ \A t \in tasks : t.epoch \in Nat
        /\ \A c \in calls : c.epoch \in Nat
        /\ \A r \in running : r.epoch \in Nat
    BY Constants DEF TypeOK, Player, Task, Call, Resolving, Bootstrapped, Maybe
  <2>2. \A r \in running' : r.epoch \in Nat /\ r.epoch <= session
    BY <1>0, <1>4, <2>1, CancelledOK DEF MoveEpoch, ClearTransient, TypeOK
  <2>3. session' = session + 1
    BY <1>4 DEF MoveEpoch, ClearTransient
  <2>4. QED
    BY <1>0, <1>4, <2>1, <2>2, <2>3 DEF MoveEpoch, ClearTransient
<1>5. QED
  BY <1>1, <1>2, <1>3, <1>4

LEMMA GivenCalls ==
  ASSUME TypeOK
  PROVE  /\ \A c \in calls : Given(c) /\ c \in AnyCall
         /\ LegacyCall => \E c \in AnyCall : Given(c) /\ Handle(c)
BY CallsAreCalls DEF TypeOK, Given, LegacyCall

LEMMA BooksNext == TypeOK /\ Books /\ [Next]_vars => Books'
<1> SUFFICES ASSUME TypeOK, Books, [Next]_vars PROVE Books'
  OBVIOUS
<1>1. CASE UNCHANGED vars
  BY <1>1 DEF vars, Books, EpochsPast, GenerationsAgree
<1>2. QED
  BY <1>1, GivenCalls, BooksHandle, BooksPlatform, BooksPage, BooksSession DEF Next

----------------------------------------------------------------------------
(* The fence itself.                                                       *)

(* A reset cancels whatever was alive, or does nothing.                    *)
LEMMA ResetAlive ==
  ASSUME TypeOK, AliveIsCurrent
  PROVE  /\ \A r \in Cancelled(play.cancel) : r.cancelled
         /\ \A r \in AfterReset : Alive(r) =>
              r \in running /\ play.epoch = session /\ resetPlaybackEpochLocked = play
<1>1. \A r \in Cancelled(play.cancel) : ~Alive(r)
  BY CancelledOK DEF AliveIsCurrent, TypeOK
<1>2. QED
  BY <1>1 DEF AfterReset, resetPlaybackEpochLocked, Alive

(* With nothing alive after it, a step need only care for the calls.       *)
LEMMA NothingAlive ==
  ASSUME \A r \in running' : r.cancelled', StoppedCallsAreOld'
  PROVE  FenceInv'
BY DEF FenceInv, AliveIsCurrent, OneAlive, StoppedStaysStopped, Alive

(* A reset keeps late requests behind the fence, as does raising it.       *)
LEMMA OldStaysOld ==
  ASSUME TypeOK, StoppedCallsAreOld, UNCHANGED session,
         calls' \subseteq calls,
         play'.epoch = session, play'.generation \in Nat,
         play.epoch = session => play.generation <= play'.generation
  PROVE  StoppedCallsAreOld'
<1>1. play.generation \in Nat /\ \A k \in calls : k.generation \in Nat
  <2>1. play.generation \in Nat
    BY Constants DEF TypeOK, Fence
  <2>2. \A k \in calls : k.generation \in 1..MaxGeneration
    BY DEF TypeOK, Call
  <2>3. QED
    BY <2>1, <2>2
<1>2. ASSUME NEW k \in calls', k.kind = "resolve", k.stopped, ~(k.epoch < session)
      PROVE  k.generation <= play'.generation
  <2>1. k \in calls /\ play.epoch = session /\ k.generation <= play.generation
    BY <1>2 DEF StoppedCallsAreOld
  <2>2. QED
    BY <1>1, <2>1
<1>3. QED
  BY <1>2 DEF StoppedCallsAreOld

LEMMA FenceRefuse ==
  ASSUME TypeOK, Books, FenceInv, NEW c \in AnyCall, RefuseResolve(c)
  PROVE  FenceInv'
<1> USE DEF FenceInv
<1>1. StoppedCallsAreOld'
  <2>1. /\ play'.epoch = session /\ play'.generation \in Nat
        /\ play.epoch = session => play' = play
        /\ calls' \subseteq calls /\ UNCHANGED session
    BY ResetOK, Constants DEF RefuseResolve, Fence, resetPlaybackEpochLocked
  <2>2. play.generation \in Nat
    BY Constants DEF TypeOK, Fence
  <2>3. QED
    BY <2>1, <2>2, OldStaysOld
<1>2. \A r \in running' : Alive(r) => r \in running /\ UNCHANGED play
  BY ResetAlive DEF RefuseResolve
<1>3. QED
  BY <1>1, <1>2 DEF AliveIsCurrent, OneAlive, StoppedStaysStopped, Alive

LEMMA FenceBegin ==
  ASSUME TypeOK, Books, FenceInv, NEW c \in AnyCall, Given(c), BeginResolve(c)
  PROVE  FenceInv'
<1> USE DEF FenceInv
<1> DEFINE p == resetPlaybackEpochLocked
           g == IF c.generation = 0 THEN p.generation + 1 ELSE c.generation
           new == [id |-> c.id, epoch |-> c.epoch, generation |-> g, cancelled |-> FALSE,
                   stopped |-> c.stopped]
<1>1. /\ p \in Fence /\ p.epoch = session /\ p.generation \in Nat
      /\ play.epoch = session => p = play
      /\ c.generation \in Nat
  BY ResetOK, Constants DEF Fence, resetPlaybackEpochLocked, AnyCall
<1>2. g > p.generation /\ g \in Nat
  BY <1>1 DEF BeginResolve, Accepts
<1>3. /\ play'.epoch = session /\ play'.generation = g /\ play'.id = c.id
      /\ play'.cancel = c.id /\ play'.ordered = (c.generation # 0)
  BY <1>1 DEF BeginResolve, Fence
<1>4. StoppedCallsAreOld'
  <2>1. calls' \subseteq calls /\ UNCHANGED session
    BY DEF BeginResolve
  <2>2. play.epoch = session => play.generation <= play'.generation
    BY <1>1, <1>2, <1>3
  <2>3. QED
    BY <1>2, <1>3, <2>1, <2>2, OldStaysOld
<1>5. ~c.stopped
  <2>1. CASE c \in calls /\ c.stopped
    <3>1. play.epoch = session /\ c.generation <= play.generation
      BY <2>1, Constants DEF StoppedCallsAreOld, BeginResolve, TypeOK
    <3>2. c.generation # 0
      BY <2>1 DEF TypeOK, Call
    <3>3. QED
      BY <1>1, <1>2, <3>1, <3>2 DEF TypeOK, Fence
  <2>2. QED
    BY <2>1 DEF Given
<1>6. /\ (c.generation # 0) = (c.id \in Own)
      /\ c.id \in Own => c.generation = c.id.seq
  <2>1. CASE c \in calls
    BY <2>1 DEF TypeOK, Call, Books, GenerationsAgree
  <2>2. CASE c \notin calls
    BY <2>2, PlaybackAssumption DEF Given
  <2>3. QED
    BY <2>1, <2>2
<1>7. \A r \in running' : Alive(r) => r = new
  BY ResetAlive DEF BeginResolve, Alive
<1>8. c.epoch = session
  BY DEF BeginResolve
<1>9. AliveIsCurrent'
  BY <1>3, <1>6, <1>7, <1>8 DEF AliveIsCurrent, Alive
<1>10. OneAlive' /\ StoppedStaysStopped'
  <2>1. ~new.stopped
    BY <1>5
  <2>2. QED
    BY <1>7, <2>1 DEF OneAlive, StoppedStaysStopped, Alive
<1>11. QED
  BY <1>4, <1>9, <1>10

LEMMA FenceCancel ==
  ASSUME TypeOK, Books, FenceInv, NEW c \in AnyCall, Given(c), CancelResolve(c)
  PROVE  FenceInv'
<1> USE DEF FenceInv
<1> DEFINE p == resetPlaybackEpochLocked
           resolves == {k \in calls : k.kind = "resolve"}
           refused == (c.generation = 0 /\ p.ordered) \/ ~Names(p, c)
<1>1. /\ p \in Fence /\ p.epoch = session /\ p.generation \in Nat
      /\ play.epoch = session => p = play
      /\ c.generation \in Nat /\ c.epoch = session /\ UNCHANGED session
  BY ResetOK, Constants DEF Fence, resetPlaybackEpochLocked, AnyCall, CancelResolve
<1>2. c.generation # 0 => c.generation = c.id.seq /\ c.id \in Own
  BY DEF Given, TypeOK, Call, Books, GenerationsAgree
<1>3. c.generation = 0 => c.id \notin Own
  BY PlaybackAssumption DEF Given, TypeOK, Call
<1>4. /\ play'.epoch = session /\ play'.generation \in Nat
      /\ p.generation <= play'.generation /\ c.generation <= play'.generation
  <2>1. CASE refused
    <3>1. play' = p
      BY <2>1 DEF CancelResolve
    <3>2. c.generation <= p.generation
      BY <1>1, <2>1 DEF Names
    <3>3. QED
      BY <1>1, <3>1, <3>2
  <2>2. CASE ~refused
    <3>1. play' = AfterCancel(p, c)
      BY <2>2 DEF CancelResolve
    <3>2. c.generation # 0 => c.generation >= p.generation
      BY <1>1, <2>2 DEF Names
    <3>3. QED
      BY <1>1, <3>1, <3>2 DEF AfterCancel, Fence
  <2>3. QED
    BY <2>1, <2>2
<1>5. StoppedCallsAreOld'
  <2>1. ASSUME NEW k \in calls', k.kind = "resolve", k.stopped, ~(k.epoch < session)
        PROVE  k.generation <= play'.generation
    <3>1. k \in Stopped(resolves, c.id)
      BY <2>1 DEF CancelResolve
    <3>2. PICK l \in resolves : /\ k.id = l.id /\ k.epoch = l.epoch
                                /\ k.generation = l.generation
                                /\ l.stopped \/ k.id = c.id
      <4>1. resolves \in SUBSET Call
        BY DEF TypeOK
      <4>2. QED
        BY <2>1, <3>1, <4>1, StoppedCallsOK
    <3>3. l.generation \in Nat /\ l.generation = l.id.seq /\ l.id \in Own
      BY DEF TypeOK, Call, Books, GenerationsAgree
    <3>4. CASE k.id = c.id
      BY <1>2, <1>3, <1>4, <3>2, <3>3, <3>4
    <3>5. CASE l.stopped
      <4>1. play.epoch = session /\ l.generation <= play.generation
        BY <2>1, <3>2, <3>5 DEF StoppedCallsAreOld
      <4>2. QED
        BY <1>1, <1>4, <3>2, <3>3, <4>1
    <3>6. QED
      BY <3>2, <3>4, <3>5
  <2>2. QED
    BY <1>1, <1>4, <2>1 DEF StoppedCallsAreOld
<1>6. CASE ~refused
  <2>1. running' = Stopped(Cancelled(play.cancel), c.id)
    BY <1>6 DEF CancelResolve
  <2>2. \A r \in running' : r.cancelled
    BY <2>1, ResetAlive, CancelledOK, StoppedOK DEF TypeOK
  <2>3. QED
    BY <1>5, <2>2, NothingAlive
<1>7. CASE refused
  <2>1. running' = Stopped(AfterReset, c.id) /\ play' = p
    BY <1>7 DEF CancelResolve
  <2>2. ASSUME NEW r \in running', Alive(r)
        PROVE  r \in running /\ r.id # c.id /\ play' = play
    <3>1. PICK s \in AfterReset : /\ r.id = s.id /\ r.cancelled = s.cancelled
      BY <2>1, StoppedOK, ResetOK
    <3>2. Alive(s) /\ s \in running /\ play.epoch = session /\ p = play
      BY <2>2, <3>1, ResetAlive DEF Alive
    <3>3. s.id # c.id
      <4>1. /\ s.id = play.id /\ s.generation = play.generation
            /\ play.ordered = (s.id \in Own)
            /\ s.id \in Own => s.generation = s.id.seq
        BY <3>2 DEF AliveIsCurrent
      <4>2. QED
        BY <1>2, <1>3, <1>7, <3>2, <4>1 DEF Names
    <3>4. r \in AfterReset
      BY <2>1, <3>1, <3>3, StoppedOK, ResetOK
    <3>5. QED
      BY <2>1, <2>2, <3>1, <3>2, <3>3, <3>4, ResetAlive
  <2>3. AliveIsCurrent' /\ OneAlive'
    BY <2>2 DEF AliveIsCurrent, OneAlive, Alive
  <2>4. StoppedStaysStopped'
    BY <2>2 DEF StoppedStaysStopped, Alive
  <2>5. QED
    BY <1>5, <2>3, <2>4
<1>8. QED
  BY <1>6, <1>7

LEMMA FenceHandle ==
  ASSUME TypeOK, Books, FenceInv, NEW c \in AnyCall, Given(c), Handle(c)
  PROVE  FenceInv'
<1>1. CASE StaleCall(c)
  BY <1>1 DEF StaleCall, FenceInv, AliveIsCurrent, OneAlive, StoppedCallsAreOld,
             StoppedStaysStopped
<1>2. QED
  BY <1>1, FenceRefuse, FenceBegin, FenceCancel DEF Handle

LEMMA FencePlatform ==
  ASSUME FenceInv, NEW r \in running, Platform(r)
  PROVE  FenceInv'
BY DEF Platform, FinishResolve, FailResolve, FenceInv, AliveIsCurrent, OneAlive,
       StoppedCallsAreOld, StoppedStaysStopped

(* What the page does leaves the fence alone: its new calls are not        *)
(* stopped.                                                                *)
LEMMA FencePage ==
  ASSUME FenceInv, UNCHANGED <<session, play, running>>,
         \A c \in calls' : c \in calls \/ ~c.stopped
  PROVE  FenceInv'
BY DEF FenceInv, AliveIsCurrent, OneAlive, StoppedCallsAreOld, StoppedStaysStopped

LEMMA PageLeavesFence ==
  ASSUME Listener \/ observeGeneration \/ \E t \in tasks : Continue(t)
  PROVE  /\ UNCHANGED <<session, play, running>>
         /\ \A c \in calls' : c \in calls \/ ~c.stopped
<1>1. CASE Listener
  <2>1. \A c \in CancelOwn : ~c.stopped
    BY DEF CancelOwn
  <2>2. CASE start
    BY <2>1, <2>2 DEF start, Send
  <2>3. CASE pause
    BY <2>1, <2>3 DEF pause, Send
  <2>4. CASE clear
    BY <2>1, <2>4 DEF clear, Send
  <2>5. CASE resume \/ mediaEvent
    BY <2>5 DEF resume, mediaEvent
  <2>6. QED
    BY <1>1, <2>2, <2>3, <2>4, <2>5 DEF Listener
<1>2. CASE observeGeneration
  BY <1>2 DEF observeGeneration
<1>3. ASSUME NEW t \in tasks, Continue(t)
      PROVE  /\ UNCHANGED <<session, play, running>>
             /\ \A c \in calls' : c \in calls \/ ~c.stopped
  <2>1. CASE ask(t)
    BY <2>1 DEF ask, Send
  <2>2. CASE Drop(t) \/ prepareProgress(t) \/ playAudio(t) \/ fail(t)
    BY <2>2 DEF Drop, prepareProgress, playAudio, fail
  <2>3. QED
    BY <1>3, <2>1, <2>2 DEF Continue
<1>4. QED
  BY <1>1, <1>2, <1>3

LEMMA FenceSession ==
  ASSUME TypeOK, Books, FenceInv, Bootstrap \/ LoadPage \/ MoveEpoch \/ ClearTransient
  PROVE  FenceInv'
<1> USE DEF FenceInv
<1>1. CASE Bootstrap \/ LoadPage
  <2>1. /\ play' = resetPlaybackEpochLocked /\ running' = AfterReset
        /\ calls' = calls /\ UNCHANGED session
    BY <1>1 DEF Bootstrap, LoadPage
  <2>2. StoppedCallsAreOld'
    <3>1. /\ play'.epoch = session /\ play'.generation \in Nat
          /\ play.epoch = session => play' = play
      BY <2>1, ResetOK, Constants DEF Fence, resetPlaybackEpochLocked
    <3>2. play.generation \in Nat
      BY Constants DEF TypeOK, Fence
    <3>3. QED
      BY <2>1, <3>1, <3>2, OldStaysOld
  <2>3. \A r \in running' : Alive(r) => r \in running /\ UNCHANGED play
    BY <2>1, ResetAlive
  <2>4. QED
    BY <2>2, <2>3 DEF AliveIsCurrent, OneAlive, StoppedStaysStopped, Alive
<1>2. CASE MoveEpoch \/ ClearTransient
  <2>1. StoppedCallsAreOld'
    <3>1. \A c \in calls : c.epoch \in Nat /\ c.epoch <= session
      BY Constants DEF TypeOK, Call, Books, EpochsPast
    <3>2. session' = session + 1 /\ calls' = calls /\ session \in Nat
      BY <1>2, Constants DEF MoveEpoch, ClearTransient, TypeOK
    <3>3. \A c \in calls' : c.epoch < session'
      BY <3>1, <3>2
    <3>4. QED
      BY <3>3 DEF StoppedCallsAreOld
  <2>2. CASE MoveEpoch
    BY <2>1, <2>2 DEF MoveEpoch, AliveIsCurrent, OneAlive, StoppedStaysStopped
  <2>3. CASE ClearTransient
    BY <2>1, <2>3, ResetAlive, NothingAlive DEF ClearTransient
  <2>4. QED
    BY <1>2, <2>2, <2>3
<1>3. QED
  BY <1>1, <1>2

LEMMA FenceNext == TypeOK /\ Books /\ FenceInv /\ [Next]_vars => FenceInv'
<1> SUFFICES ASSUME TypeOK, Books, FenceInv, [Next]_vars PROVE FenceInv'
  OBVIOUS
<1>1. CASE UNCHANGED vars
  BY <1>1, FencePage DEF vars
<1>2. CASE Listener \/ observeGeneration \/ \E t \in tasks : Continue(t)
  BY <1>2, FencePage, PageLeavesFence
<1>3. QED
  BY <1>1, <1>2, GivenCalls, FenceHandle, FencePlatform, FenceSession DEF Next

LEMMA Fenced == Spec => [](TypeOK /\ Books /\ FenceInv)
<1>1. Init => TypeOK /\ Books /\ FenceInv
  BY TypeInit DEF Init, Books, EpochsPast, GenerationsAgree, FenceInv, AliveIsCurrent, OneAlive,
                  StoppedCallsAreOld, StoppedStaysStopped, NewPage, NoPlay
<1>2. QED
  BY <1>1, TypeNext, BooksNext, FenceNext, PTL DEF Spec

(* A newer selection, a cancellation and a new epoch each leave no older   *)
(* resolve at work: two that are not cancelled are one.                    *)
THEOREM PlaybackOneLiveResolve == Spec => []OneLiveResolve
<1>1. FenceInv => OneLiveResolve
  BY DEF FenceInv, OneAlive, OneLiveResolve, Alive
<1>2. QED
  BY <1>1, Fenced, PTL

(* A cancel that overtakes its request stops it all the same.              *)
THEOREM PlaybackStoppedStaysStopped == Spec => []StoppedStaysStopped
<1>1. FenceInv => StoppedStaysStopped
  BY DEF FenceInv
<1>2. QED
  BY <1>1, Fenced, PTL

----------------------------------------------------------------------------
(* The page and its requests.  A request goes from the page's continuation *)
(* to a call, to the platform and back, and is in one of these places at a *)
(* time.                                                                   *)

Asks(c) == c.kind = "resolve"
Follows(t) == t.step # "resumed"

Asked(id) == id.page <= page.nr /\ (id.page = page.nr => id.seq <= page.serial)

Known ==
  /\ page.itemEpoch <= page.epoch
  /\ page.id # None => page.id.page = page.nr /\ page.id.seq <= page.serial
  /\ \A t \in tasks : /\ t.id.page = page.nr /\ t.id.seq <= t.seq /\ t.seq <= page.serial
                      /\ Follows(t) => t.seq = t.id.seq
                      /\ t.epoch <= page.epoch
  /\ \A c \in calls : /\ Asked(c.id)
                      /\ c.id.page = page.nr => c.epoch <= page.epoch
                      /\ ~Asks(c) /\ c.id.page = page.nr => c.id.seq < page.serial
  /\ \A r \in running : r.id \in Own =>
       /\ Asked(r.id) /\ r.generation = r.id.seq
       /\ r.id.page = page.nr => r.epoch <= page.epoch

OneTask == \A t, u \in tasks : Follows(t) /\ Follows(u) /\ t.id = u.id => t = u
OneResumed == \A t, u \in tasks : ~Follows(t) /\ ~Follows(u) /\ t.seq = u.seq => t = u
OneCall(C) == \A c, d \in C : Asks(c) /\ Asks(d) /\ c.id = d.id => c = d
OneRun(R) == \A r, s \in R : r.id \in Own /\ r.id = s.id => r = s

OnePlace ==
  /\ OneTask /\ OneResumed /\ OneCall(calls) /\ OneRun(running)
  /\ \A t \in tasks : \A c \in calls : Follows(t) /\ Asks(c) => t.id # c.id
  /\ \A t \in tasks : \A r \in running : Follows(t) => t.id # r.id
  /\ \A c \in calls : \A r \in running : Asks(c) => c.id # r.id

(* The player waits for the answer to its request.                         *)
Awaits(id) == id = page.id /\ page.state = "resolving" /\ ~page.resolved

Newest(id, e) == id.page = page.nr /\ id.seq = page.serial /\ e = page.epoch

(* Whoever passes the guard of a continuation acts for that request.       *)
LiveTrue ==
  /\ \A t \in tasks : Live(t) => /\ t.id = page.id /\ page.state = "resolving"
                                 /\ Follows(t) <=> ~page.resolved
  /\ \A c \in calls : Asks(c) /\ Newest(c.id, c.epoch) => Awaits(c.id)
  /\ \A r \in running : r.id \in Own /\ Newest(r.id, r.epoch) => Awaits(r.id)

(* A request keeps its epoch, and its cancel has the same.                 *)
SameEpoch ==
  /\ \A t \in tasks : Follows(t) /\ t.id = page.id => t.epoch = page.itemEpoch
  /\ \A c \in calls : c.id = page.id => c.epoch = page.itemEpoch
  /\ \A r \in running : r.id \in Own /\ r.id = page.id => r.epoch = page.itemEpoch
  /\ \A k \in calls : ~Asks(k) =>
       /\ \A t \in tasks : Follows(t) /\ t.id = k.id => t.epoch = k.epoch
       /\ \A c \in calls : c.id = k.id => c.epoch = k.epoch
       /\ \A r \in running : r.id = k.id => r.epoch = k.epoch

PageInv == Known /\ OnePlace /\ LiveTrue /\ SameEpoch

LEMMA Shapes ==
  ASSUME TypeOK
  PROVE  /\ session \in Nat /\ page \in Player
         /\ page.serial \in Nat /\ page.epoch \in Nat /\ page.nr \in Nat /\ page.nr # 0
         /\ page.itemEpoch \in Nat
         /\ page.id # None => page.id \in Own
         /\ play.generation \in Nat /\ play.by \in Nat
         /\ \A id \in Own : id.page \in Nat /\ id.page # 0 /\ id.seq \in Nat /\ id # None
         /\ \A t \in tasks : /\ t \in Task /\ t.id \in Own /\ t.seq \in Nat /\ t.epoch \in Nat
         /\ \A c \in calls : /\ c \in Call /\ c.id \in Own /\ c.epoch \in Nat
                             /\ c.generation \in Nat /\ c.kind \in {"resolve", "cancel"}
         /\ \A r \in running : /\ r \in Resolving /\ r.epoch \in Nat /\ r.generation \in Nat
                               /\ r.id \in Request
<1>0. /\ \A n \in Epoch : n \in Nat
      /\ \A n \in Generation : n \in Nat
      /\ \A n \in 1..MaxGeneration : n \in Nat
      /\ \A n \in 1..MaxPage : n \in Nat /\ n # 0
      /\ \A n \in 0..MaxPage : n \in Nat
  BY Constants DEF Epoch, Generation
<1>1. session \in Nat /\ play.generation \in Nat /\ play.by \in Nat
  BY <1>0 DEF TypeOK, Fence
<1>2. /\ page \in Player /\ page.serial \in Nat /\ page.epoch \in Nat /\ page.nr \in Nat
      /\ page.nr # 0 /\ (page.id # None => page.id \in Own) /\ page.itemEpoch \in Nat
  <2>1. page \in Player
    BY DEF TypeOK
  <2>2. page.nr \in 1..MaxPage /\ page.serial \in Generation /\ page.epoch \in Epoch
        /\ page.itemEpoch \in Epoch
    BY <2>1 DEF Player
  <2>3. page.id \in Maybe(Own)
    BY <2>1 DEF Player
  <2>4. QED
    BY <1>0, <2>1, <2>2, <2>3 DEF Maybe
<1>3. \A id \in Own : id.page \in Nat /\ id.page # 0 /\ id.seq \in Nat /\ id # None
  BY <1>0, Constants
<1>4. \A t \in tasks : /\ t \in Task /\ t.id \in Own /\ t.seq \in Nat /\ t.epoch \in Nat
  <2>1. \A t \in tasks : t \in Task
    BY DEF TypeOK
  <2>2. \A t \in Task : t.id \in Own /\ t.seq \in 1..MaxGeneration /\ t.epoch \in Epoch
    BY DEF Task
  <2>3. QED
    BY <1>0, <2>1, <2>2
<1>5. \A c \in calls : /\ c \in Call /\ c.id \in Own /\ c.epoch \in Nat
                       /\ c.generation \in Nat /\ c.kind \in {"resolve", "cancel"}
  <2>1. \A c \in calls : c \in Call
    BY DEF TypeOK
  <2>2. \A c \in Call : /\ c.id \in Own /\ c.epoch \in Epoch /\ c.generation \in 1..MaxGeneration
                        /\ c.kind \in {"resolve", "cancel"}
    BY DEF Call
  <2>3. QED
    BY <1>0, <2>1, <2>2
<1>6. \A r \in running : /\ r \in Resolving /\ r.epoch \in Nat /\ r.generation \in Nat
                         /\ r.id \in Request
  <2>1. \A r \in running : r \in Resolving
    BY DEF TypeOK
  <2>2. \A r \in Resolving : r.id \in Request /\ r.epoch \in Epoch /\ r.generation \in Generation
    BY DEF Resolving
  <2>3. QED
    BY <1>0, <2>1, <2>2
<1>7. QED
  BY <1>1, <1>2, <1>3, <1>4, <1>5, <1>6

----------------------------------------------------------------------------
(* What the service does to the calls and resolves it keeps.               *)

Heir(r, s) ==
  /\ r.id = s.id /\ r.epoch = s.epoch /\ r.generation = s.generation
  /\ s.cancelled => r.cancelled

CallHeir(k, l) ==
  /\ k.id = l.id /\ k.epoch = l.epoch /\ k.kind = l.kind
  /\ l.stopped => k.stopped

LEMMA CancelledHeirs ==
  ASSUME running \in SUBSET Resolving, OneRun(running), NEW id
  PROVE  /\ \A r \in Cancelled(id) : \E s \in running : Heir(r, s)
         /\ OneRun(Cancelled(id))
<1>0. \A s \in running : s \in Resolving
  OBVIOUS
<1>1. \A s \in Resolving : /\ [s EXCEPT !.cancelled = TRUE].id = s.id
                           /\ [s EXCEPT !.cancelled = TRUE].epoch = s.epoch
                           /\ [s EXCEPT !.cancelled = TRUE].generation = s.generation
                           /\ s.cancelled => [s EXCEPT !.cancelled = TRUE].cancelled
  BY DEF Resolving
<1>2. \A r \in Cancelled(id) : \E s \in running :
        r = (IF s.id = id THEN [s EXCEPT !.cancelled = TRUE] ELSE s)
  BY DEF Cancelled
<1>3. ASSUME NEW s \in running, NEW r, r = (IF s.id = id THEN [s EXCEPT !.cancelled = TRUE] ELSE s)
      PROVE  Heir(r, s)
  <2>1. CASE s.id = id
    <3>1. r = [s EXCEPT !.cancelled = TRUE]
      BY <1>3, <2>1
    <3>2. QED
      BY <1>0, <1>1, <3>1 DEF Heir
  <2>2. CASE s.id # id
    BY <1>3, <2>2 DEF Heir
  <2>3. QED
    BY <2>1, <2>2
<1>4. ASSUME NEW r \in Cancelled(id), NEW t \in Cancelled(id), r.id \in Own, r.id = t.id
      PROVE  r = t
  <2>1. PICK s \in running : r = (IF s.id = id THEN [s EXCEPT !.cancelled = TRUE] ELSE s)
    BY <1>2
  <2>2. PICK u \in running : t = (IF u.id = id THEN [u EXCEPT !.cancelled = TRUE] ELSE u)
    BY <1>2
  <2>3. r.id = s.id /\ t.id = u.id
    BY <1>3, <2>1, <2>2 DEF Heir
  <2>4. s = u
    BY <1>4, <2>3 DEF OneRun
  <2>5. QED
    BY <2>1, <2>2, <2>4
<1>5. QED
  BY <1>2, <1>3, <1>4 DEF OneRun

LEMMA StoppedHeirs ==
  ASSUME NEW S \in SUBSET Resolving, OneRun(S), NEW id
  PROVE  /\ \A r \in Stopped(S, id) : \E s \in S : Heir(r, s)
         /\ OneRun(Stopped(S, id))
<1>0. \A s \in S : s \in Resolving
  OBVIOUS
<1>1. \A s \in Resolving : /\ [s EXCEPT !.stopped = TRUE].id = s.id
                           /\ [s EXCEPT !.stopped = TRUE].epoch = s.epoch
                           /\ [s EXCEPT !.stopped = TRUE].generation = s.generation
                           /\ s.cancelled => [s EXCEPT !.stopped = TRUE].cancelled
  BY DEF Resolving
<1>2. \A r \in Stopped(S, id) : \E s \in S :
        r = (IF s.id = id THEN [s EXCEPT !.stopped = TRUE] ELSE s)
  BY DEF Stopped
<1>3. ASSUME NEW s \in S, NEW r, r = (IF s.id = id THEN [s EXCEPT !.stopped = TRUE] ELSE s)
      PROVE  Heir(r, s)
  <2>1. CASE s.id = id
    <3>1. r = [s EXCEPT !.stopped = TRUE]
      BY <1>3, <2>1
    <3>2. QED
      BY <1>0, <1>1, <3>1 DEF Heir
  <2>2. CASE s.id # id
    BY <1>3, <2>2 DEF Heir
  <2>3. QED
    BY <2>1, <2>2
<1>4. ASSUME NEW r \in Stopped(S, id), NEW t \in Stopped(S, id), r.id \in Own, r.id = t.id
      PROVE  r = t
  <2>1. PICK s \in S : r = (IF s.id = id THEN [s EXCEPT !.stopped = TRUE] ELSE s)
    BY <1>2
  <2>2. PICK u \in S : t = (IF u.id = id THEN [u EXCEPT !.stopped = TRUE] ELSE u)
    BY <1>2
  <2>3. r.id = s.id /\ t.id = u.id
    BY <1>3, <2>1, <2>2 DEF Heir
  <2>4. s = u
    BY <1>4, <2>3 DEF OneRun
  <2>5. QED
    BY <2>1, <2>2, <2>4
<1>5. QED
  BY <1>2, <1>3, <1>4 DEF OneRun

LEMMA ResetHeirs ==
  ASSUME TypeOK, OneRun(running)
  PROVE  /\ \A r \in AfterReset : \E s \in running : Heir(r, s)
         /\ OneRun(AfterReset)
<1>1. \A r \in running : Heir(r, r)
  BY DEF Heir
<1>2. QED
  BY <1>1, CancelledHeirs DEF AfterReset, TypeOK

LEMMA StoppedCallHeirs ==
  ASSUME NEW S \in SUBSET Call, OneCall(S), NEW id
  PROVE  /\ \A k \in Stopped(S, id) : \E l \in S : CallHeir(k, l)
         /\ \A k \in Stopped(S, id) : k.id = id => k.stopped
         /\ OneCall(Stopped(S, id))
<1>0. \A l \in S : l \in Call
  OBVIOUS
<1>1. \A l \in Call : /\ [l EXCEPT !.stopped = TRUE].id = l.id
                      /\ [l EXCEPT !.stopped = TRUE].kind = l.kind
                      /\ [l EXCEPT !.stopped = TRUE].epoch = l.epoch
                      /\ [l EXCEPT !.stopped = TRUE].stopped = TRUE
  BY DEF Call
<1>2. \A k \in Stopped(S, id) : \E l \in S :
        k = (IF l.id = id THEN [l EXCEPT !.stopped = TRUE] ELSE l)
  BY DEF Stopped
<1>3a. ASSUME NEW l \in S, NEW k, k = (IF l.id = id THEN [l EXCEPT !.stopped = TRUE] ELSE l)
       PROVE  CallHeir(k, l)
  <2>1. CASE l.id = id
    <3>1. k = [l EXCEPT !.stopped = TRUE]
      BY <1>3a, <2>1
    <3>2. QED
      BY <1>0, <1>1, <3>1 DEF CallHeir
  <2>2. CASE l.id # id
    BY <1>3a, <2>2 DEF CallHeir
  <2>3. QED
    BY <2>1, <2>2
<1>3. \A k \in Stopped(S, id) : \E l \in S : CallHeir(k, l)
  BY <1>2, <1>3a
<1>4. \A k \in Stopped(S, id) : k.id = id => k.stopped
  BY <1>0, <1>1, <1>2
<1>5. OneCall(Stopped(S, id))
  <2>1. ASSUME NEW k \in Stopped(S, id), NEW m \in Stopped(S, id), Asks(k), Asks(m), k.id = m.id
        PROVE  k = m
    <3>1. PICK l \in S : k = (IF l.id = id THEN [l EXCEPT !.stopped = TRUE] ELSE l)
      BY <1>2
    <3>2. PICK n \in S : m = (IF n.id = id THEN [n EXCEPT !.stopped = TRUE] ELSE n)
      BY <1>2
    <3>3. k.id = l.id /\ k.kind = l.kind /\ m.id = n.id /\ m.kind = n.kind
      BY <1>3a, <3>1, <3>2 DEF CallHeir
    <3>4. l = n
      BY <2>1, <3>3 DEF OneCall, Asks
    <3>5. QED
      BY <3>1, <3>2, <3>4
  <2>2. QED
    BY <2>1 DEF OneCall
<1>6. QED
  BY <1>3, <1>4, <1>5

(* At most the request i moves, with its epoch e.                          *)
Was(i, e) ==
  \/ \E c \in calls : Asks(c) /\ c.id = i /\ c.epoch = e
  \/ \E r \in running : r.id \in Own /\ r.id = i /\ r.epoch = e

NewTask(t, i, e) ==
  /\ Was(i, e)
  /\ t.id = i /\ t.epoch = e /\ t.seq = i.seq /\ i.page = page.nr /\ Follows(t)
  /\ t.step # "flushed"
  /\ \A c \in calls' : Asks(c) => c.id # i
  /\ \A r \in running' : r.id # i
  /\ tasks' = tasks \cup {t}

NewRun(r, i, e) ==
  /\ \E c \in calls : Asks(c) /\ c.id = i /\ c.epoch = e /\ c.generation = r.generation
  /\ r.id = i /\ r.epoch = e
  /\ \A c \in calls' : Asks(c) => c.id # i
  /\ tasks' = tasks

ServiceMove(i, e) ==
  /\ UNCHANGED page
  /\ \A k \in calls' : \E l \in calls : CallHeir(k, l)
  /\ OneCall(calls') /\ OneRun(running')
  /\ \A r \in running' : r.id \in Own => (\E s \in running : Heir(r, s)) \/ NewRun(r, i, e)
  /\ \A t \in tasks' : t \in tasks \/ NewTask(t, i, e)

LEMMA MovedPage ==
  ASSUME TypeOK, Books, PageInv, NEW i, NEW e, ServiceMove(i, e)
  PROVE  PageInv'
<1> USE DEF PageInv
<1>1. page' = page /\ \A x : (Asked(x)' <=> Asked(x)) /\ (Awaits(x)' <=> Awaits(x))
  BY DEF ServiceMove, Asked, Awaits
<1>2. ASSUME Was(i, e)
      PROVE  /\ i \in Own /\ Asked(i) /\ (i.page = page.nr => e <= page.epoch)
             /\ \A t \in tasks : Follows(t) => t.id # i
             /\ Newest(i, e) => Awaits(i)
             /\ i = page.id => e = page.itemEpoch
             /\ \A k \in calls : ~Asks(k) /\ k.id = i => k.epoch = e
  BY <1>2, Shapes DEF Was, Known, OnePlace, LiveTrue, SameEpoch
<1>3. \A r : NewRun(r, i, e) => Was(i, e)
  BY DEF NewRun, Was
<1>4. \A t : NewTask(t, i, e) => Was(i, e)
  BY DEF NewTask
<1>5. \A k \in calls' : \E l \in calls : CallHeir(k, l)
  BY DEF ServiceMove
<1>6. Known'
  <2>1. \A c \in calls' : /\ Asked(c.id)
                          /\ c.id.page = page.nr => c.epoch <= page.epoch
                          /\ ~Asks(c) /\ c.id.page = page.nr => c.id.seq < page.serial
    BY <1>5 DEF CallHeir, Known, Asks
  <2>2. \A r \in running' : r.id \in Own =>
          /\ Asked(r.id) /\ r.generation = r.id.seq
          /\ r.id.page = page.nr => r.epoch <= page.epoch
    <3>1. ASSUME NEW r \in running', r.id \in Own, NEW s \in running, Heir(r, s)
          PROVE  /\ Asked(r.id) /\ r.generation = r.id.seq
                 /\ r.id.page = page.nr => r.epoch <= page.epoch
      BY <3>1 DEF Heir, Known
    <3>2. ASSUME NEW r \in running', NewRun(r, i, e)
          PROVE  /\ Asked(r.id) /\ r.generation = r.id.seq
                 /\ r.id.page = page.nr => r.epoch <= page.epoch
      <4>1. r.generation = r.id.seq
        BY <3>2 DEF NewRun, Books, GenerationsAgree
      <4>2. QED
        BY <1>2, <1>3, <3>2, <4>1 DEF NewRun
    <3>3. QED
      BY <3>1, <3>2 DEF ServiceMove
  <2>3. ASSUME NEW t \in tasks'
        PROVE  /\ t.id.page = page.nr /\ t.id.seq <= t.seq /\ t.seq <= page.serial
               /\ Follows(t) => t.seq = t.id.seq
               /\ t.epoch <= page.epoch
    <3>1. CASE t \in tasks
      BY <3>1 DEF Known
    <3>2. CASE NewTask(t, i, e)
      BY <1>2, <1>4, <3>2, Shapes DEF NewTask, Asked
    <3>3. QED
      BY <3>1, <3>2 DEF ServiceMove
  <2>4. QED
    BY <1>1, <2>1, <2>2, <2>3 DEF Known
<1>7. OnePlace'
  <2>1. ASSUME NEW t \in tasks', NEW u \in tasks', Follows(t), Follows(u), t.id = u.id
        PROVE  t = u
    <3>1. CASE t \in tasks /\ u \in tasks
      BY <2>1, <3>1 DEF OnePlace, OneTask
    <3>2. CASE NewTask(t, i, e)
      BY <1>2, <1>4, <2>1, <3>2 DEF NewTask
    <3>3. CASE NewTask(u, i, e)
      BY <1>2, <1>4, <2>1, <3>3 DEF NewTask
    <3>4. QED
      BY <3>1, <3>2, <3>3 DEF ServiceMove
  <2>2. OneResumed'
    BY DEF ServiceMove, NewTask, OnePlace, OneResumed
  <2>3. ASSUME NEW t \in tasks', NEW c \in calls', Follows(t), Asks(c)
        PROVE  t.id # c.id
    <3>1. CASE t \in tasks
      BY <1>5, <2>3, <3>1 DEF CallHeir, OnePlace, Asks
    <3>2. CASE NewTask(t, i, e)
      BY <2>3, <3>2 DEF NewTask
    <3>3. QED
      BY <3>1, <3>2 DEF ServiceMove
  <2>4. ASSUME NEW t \in tasks', NEW r \in running', Follows(t), t.id = r.id
        PROVE  FALSE
    <3>1. r.id \in Own
      <4>1. CASE t \in tasks
        BY <2>4, <4>1, Shapes
      <4>2. CASE NewTask(t, i, e)
        BY <1>2, <1>4, <2>4, <4>2 DEF NewTask
      <4>3. QED
        BY <4>1, <4>2 DEF ServiceMove
    <3>2. CASE t \in tasks
      BY <1>2, <1>3, <2>4, <3>1, <3>2 DEF ServiceMove, Heir, NewRun, OnePlace
    <3>3. CASE NewTask(t, i, e)
      BY <2>4, <3>3 DEF NewTask
    <3>4. QED
      BY <3>2, <3>3 DEF ServiceMove
  <2>5. ASSUME NEW c \in calls', NEW r \in running', Asks(c), c.id = r.id
        PROVE  FALSE
    <3>1. PICK l \in calls : CallHeir(c, l)
      BY <1>5
    <3>2. r.id \in Own /\ Asks(l) /\ l.id = r.id
      BY <2>5, <3>1, Shapes DEF CallHeir, Asks
    <3>3. QED
      BY <2>5, <3>1, <3>2 DEF ServiceMove, Heir, NewRun, OnePlace
  <2>6. QED
    BY <2>1, <2>2, <2>3, <2>4, <2>5 DEF OnePlace, OneTask, ServiceMove
<1>8. LiveTrue'
  <2>1. ASSUME NEW t \in tasks', Live(t)
        PROVE  t.id = page.id /\ page.state = "resolving" /\ (Follows(t) <=> ~page.resolved)
    <3>1. CASE t \in tasks
      BY <2>1, <3>1 DEF LiveTrue
    <3>2. CASE NewTask(t, i, e)
      BY <1>2, <1>4, <2>1, <3>2 DEF NewTask, Live, Newest, Awaits
    <3>3. QED
      BY <3>1, <3>2 DEF ServiceMove
  <2>2. \A c \in calls' : Asks(c) /\ Newest(c.id, c.epoch) => Awaits(c.id)
    BY <1>5 DEF CallHeir, Asks, LiveTrue
  <2>3. \A r \in running' : r.id \in Own /\ Newest(r.id, r.epoch) => Awaits(r.id)
    BY <1>2, <1>3 DEF ServiceMove, Heir, NewRun, LiveTrue
  <2>4. QED
    BY <1>1, <2>1, <2>2, <2>3 DEF LiveTrue, Live, Newest
<1>9. SameEpoch'
  <2>1. \A t \in tasks' : Follows(t) /\ t.id = page.id => t.epoch = page.itemEpoch
    BY <1>2, <1>4 DEF ServiceMove, NewTask, SameEpoch
  <2>2. \A c \in calls' : c.id = page.id => c.epoch = page.itemEpoch
    BY <1>5 DEF CallHeir, SameEpoch
  <2>3. \A r \in running' : r.id \in Own /\ r.id = page.id => r.epoch = page.itemEpoch
    BY <1>2, <1>3 DEF ServiceMove, Heir, NewRun, SameEpoch
  <2>4. ASSUME NEW k \in calls', ~Asks(k)
        PROVE  /\ \A t \in tasks' : Follows(t) /\ t.id = k.id => t.epoch = k.epoch
               /\ \A c \in calls' : c.id = k.id => c.epoch = k.epoch
               /\ \A r \in running' : r.id = k.id => r.epoch = k.epoch
    <3>1. PICK l \in calls : CallHeir(k, l)
      BY <1>5
    <3>2. ~Asks(l) /\ l.id = k.id /\ l.epoch = k.epoch /\ k.id \in Own
      BY <2>4, <3>1, Shapes DEF CallHeir, Asks
    <3>3. \A t \in tasks' : Follows(t) /\ t.id = k.id => t.epoch = k.epoch
      BY <1>2, <1>4, <3>2 DEF ServiceMove, NewTask, SameEpoch
    <3>4. \A c \in calls' : c.id = k.id => c.epoch = k.epoch
      BY <1>5, <3>2 DEF CallHeir, SameEpoch
    <3>5. \A r \in running' : r.id = k.id => r.epoch = k.epoch
      BY <1>2, <1>3, <3>2 DEF ServiceMove, Heir, NewRun, SameEpoch
    <3>6. QED
      BY <3>3, <3>4, <3>5
  <2>5. QED
    BY <1>1, <2>1, <2>2, <2>3, <2>4 DEF SameEpoch
<1>10. QED
  BY <1>6, <1>7, <1>8, <1>9

LEMMA HeirsOfOneself ==
  /\ \A c \in calls : CallHeir(c, c)
  /\ \A r \in running : Heir(r, r)
BY DEF CallHeir, Heir

(* An answer to a call, or to a resolve, that is gone.                     *)
LEMMA CallAnswered ==
  ASSUME TypeOK, Books, PageInv, NEW c \in calls, Asks(c), calls' = calls \ {c},
         \A r \in running' : \E s \in running : Heir(r, s),
         NEW step \in {"cancelled", "failed"}, tasks' = Reply(c.id, c.epoch, step)
  PROVE  \A t \in tasks' : t \in tasks \/ NewTask(t, c.id, c.epoch)
<1> SUFFICES ASSUME NEW t \in tasks', t \notin tasks PROVE NewTask(t, c.id, c.epoch)
  OBVIOUS
<1>1. c.id \in Own
  BY Shapes
<1>2. /\ t = [id |-> c.id, seq |-> c.id.seq, epoch |-> c.epoch, step |-> step]
      /\ c.id.page = page.nr /\ tasks' = tasks \cup {t}
  BY <1>1 DEF Reply, Origin
<1>3. \A d \in calls' : Asks(d) => d.id # c.id
  BY DEF PageInv, OnePlace, OneCall
<1>4. \A r \in running' : r.id # c.id
  BY DEF PageInv, OnePlace, Heir
<1>5. Was(c.id, c.epoch)
  BY DEF Was
<1>6. t.id = c.id /\ t.epoch = c.epoch /\ t.seq = c.id.seq /\ Follows(t) /\ t.step # "flushed"
  BY <1>2 DEF Follows
<1>7. QED
  BY <1>2, <1>3, <1>4, <1>5, <1>6 DEF NewTask

LEMMA RunAnswered ==
  ASSUME TypeOK, Books, PageInv, NEW r \in running, calls' = calls, running' = running \ {r},
         NEW step \in {"resolved", "cancelled", "failed"}, tasks' = Reply(r.id, r.epoch, step)
  PROVE  \A t \in tasks' : t \in tasks \/ NewTask(t, r.id, r.epoch)
<1> SUFFICES ASSUME NEW t \in tasks', t \notin tasks PROVE NewTask(t, r.id, r.epoch)
  OBVIOUS
<1>1. r.id \in Own
  BY Shapes DEF Reply, Origin
<1>2. /\ t = [id |-> r.id, seq |-> r.id.seq, epoch |-> r.epoch, step |-> step]
      /\ r.id.page = page.nr /\ tasks' = tasks \cup {t}
  BY <1>1 DEF Reply, Origin
<1>3. \A d \in calls' : Asks(d) => d.id # r.id
  BY DEF PageInv, OnePlace
<1>4. \A s \in running' : s.id # r.id
  BY <1>1 DEF PageInv, OnePlace, OneRun
<1>5. Was(r.id, r.epoch)
  BY <1>1 DEF Was
<1>6. t.id = r.id /\ t.epoch = r.epoch /\ t.seq = r.id.seq /\ Follows(t) /\ t.step # "flushed"
  BY <1>2 DEF Follows
<1>7. QED
  BY <1>2, <1>3, <1>4, <1>5, <1>6 DEF NewTask

(* A caller without generations has no continuation in the page.           *)
LEMMA LegacyReply ==
  ASSUME TypeOK, NEW c \in AnyCall, Given(c), c \notin calls, NEW step
  PROVE  Reply(c.id, c.epoch, step) = tasks /\ c.id \notin Own /\ ~c.stopped
BY Shapes, PlaybackAssumption DEF Given, Reply, Origin

LEMMA MoveStale ==
  ASSUME TypeOK, Books, PageInv, NEW c \in AnyCall, Given(c), StaleCall(c)
  PROVE  ServiceMove(c.id, c.epoch)
<1>1. c \in calls
  BY DEF Given, StaleCall
<1>2. /\ page' = page /\ running' = running /\ calls' = calls \ {c}
      /\ tasks' = IF c.kind = "resolve" THEN Reply(c.id, c.epoch, "failed") ELSE tasks
  BY DEF StaleCall
<1>3. OneCall(calls') /\ OneRun(running')
  BY <1>2 DEF PageInv, OnePlace, OneCall
<1>4. /\ \A k \in calls' : \E l \in calls : CallHeir(k, l)
      /\ \A r \in running' : \E s \in running : Heir(r, s)
  BY <1>2, HeirsOfOneself
<1>5. \A t \in tasks' : t \in tasks \/ NewTask(t, c.id, c.epoch)
  BY <1>1, <1>2, <1>4, CallAnswered DEF Asks
<1>6. QED
  BY <1>2, <1>3, <1>4, <1>5 DEF ServiceMove

LEMMA MoveRefuse ==
  ASSUME TypeOK, Books, PageInv, NEW c \in AnyCall, Given(c), RefuseResolve(c)
  PROVE  ServiceMove(c.id, c.epoch)
<1>1. /\ page' = page /\ running' = AfterReset /\ calls' = calls \ {c}
      /\ tasks' = Reply(c.id, c.epoch, "cancelled") /\ Asks(c)
  BY DEF RefuseResolve, Asks
<1>2. OneRun(running)
  BY DEF PageInv, OnePlace
<1>3. OneCall(calls') /\ OneRun(running')
  BY <1>1, <1>2, ResetHeirs DEF PageInv, OnePlace, OneCall
<1>4. /\ \A k \in calls' : \E l \in calls : CallHeir(k, l)
      /\ \A r \in running' : \E s \in running : Heir(r, s)
  BY <1>1, <1>2, HeirsOfOneself, ResetHeirs
<1>5. \A t \in tasks' : t \in tasks \/ NewTask(t, c.id, c.epoch)
  <2>1. CASE c \in calls
    BY <1>1, <1>4, <2>1, CallAnswered
  <2>2. CASE c \notin calls
    BY <1>1, <2>2, LegacyReply
  <2>3. QED
    BY <2>1, <2>2
<1>6. QED
  BY <1>1, <1>3, <1>4, <1>5 DEF ServiceMove

LEMMA MoveBegin ==
  ASSUME TypeOK, Books, PageInv, NEW c \in AnyCall, Given(c), BeginResolve(c)
  PROVE  ServiceMove(c.id, c.epoch)
<1> DEFINE g == IF c.generation = 0 THEN resetPlaybackEpochLocked.generation + 1 ELSE c.generation
           new == [id |-> c.id, epoch |-> c.epoch, generation |-> g, cancelled |-> FALSE,
                   stopped |-> c.stopped]
<1>1. /\ page' = page /\ calls' = calls \ {c} /\ tasks' = tasks /\ Asks(c)
      /\ running' = Cancelled(play.cancel) \cup {new}
  BY DEF BeginResolve, Asks
<1>2. /\ OneRun(Cancelled(play.cancel))
      /\ \A r \in Cancelled(play.cancel) : \E s \in running : Heir(r, s)
  BY CancelledHeirs DEF PageInv, OnePlace, TypeOK
<1>3. new.id = c.id /\ new.epoch = c.epoch /\ new.generation = g
  OBVIOUS
<1> HIDE DEF new
<1>4. CASE c \in calls
  <2>1. c.generation = g
    BY <1>4 DEF TypeOK, Call
  <2>2. \A s \in running : s.id # c.id
    BY <1>1, <1>4 DEF PageInv, OnePlace
  <2>3. OneRun(running')
    BY <1>1, <1>2, <1>3, <2>2 DEF OneRun, Heir
  <2>4. \A d \in calls' : Asks(d) => d.id # c.id
    BY <1>1, <1>4 DEF PageInv, OnePlace, OneCall
  <2>5. NewRun(new, c.id, c.epoch)
    BY <1>1, <1>3, <1>4, <2>1, <2>4 DEF NewRun
  <2>6. OneCall(calls') /\ \A k \in calls' : \E l \in calls : CallHeir(k, l)
    BY <1>1, HeirsOfOneself DEF PageInv, OnePlace, OneCall
  <2>7. QED
    BY <1>1, <1>2, <2>3, <2>5, <2>6 DEF ServiceMove
<1>5. CASE c \notin calls
  <2>1. new.id \notin Own
    BY <1>3, <1>5, LegacyReply
  <2>2. OneRun(running')
    BY <1>1, <1>2, <2>1 DEF OneRun
  <2>3. OneCall(calls') /\ \A k \in calls' : \E l \in calls : CallHeir(k, l)
    BY <1>1, HeirsOfOneself DEF PageInv, OnePlace, OneCall
  <2>4. QED
    BY <1>1, <1>2, <2>1, <2>2, <2>3 DEF ServiceMove
<1>6. QED
  BY <1>4, <1>5

LEMMA MoveCancel ==
  ASSUME TypeOK, Books, PageInv, NEW c \in AnyCall, Given(c), CancelResolve(c)
  PROVE  ServiceMove(c.id, c.epoch)
<1> DEFINE cancels == {k \in calls \ {c} : k.kind = "cancel"}
           resolves == {k \in calls : k.kind = "resolve"}
<1>1. /\ page' = page /\ tasks' = tasks
      /\ calls' = cancels \cup Stopped(resolves, c.id)
      /\ \/ running' = Stopped(AfterReset, c.id)
         \/ running' = Stopped(Cancelled(play.cancel), c.id)
  BY DEF CancelResolve
<1>2. OneRun(running) /\ OneCall(resolves) /\ resolves \in SUBSET Call
  BY DEF PageInv, OnePlace, OneCall, TypeOK
<1>3. /\ OneCall(Stopped(resolves, c.id))
      /\ \A k \in Stopped(resolves, c.id) : \E l \in resolves : CallHeir(k, l)
  BY <1>2, StoppedCallHeirs
<1>4. OneCall(calls') /\ \A k \in calls' : \E l \in calls : CallHeir(k, l)
  BY <1>1, <1>3, HeirsOfOneself DEF OneCall, Asks
<1>5. ASSUME NEW S \in SUBSET Resolving, OneRun(S), \A r \in S : \E s \in running : Heir(r, s)
      PROVE  /\ OneRun(Stopped(S, c.id))
             /\ \A r \in Stopped(S, c.id) : \E s \in running : Heir(r, s)
  <2>1. /\ OneRun(Stopped(S, c.id))
        /\ \A r \in Stopped(S, c.id) : \E s \in S : Heir(r, s)
    BY <1>5, StoppedHeirs
  <2>2. QED
    BY <1>5, <2>1 DEF Heir
<1>6. /\ AfterReset \in SUBSET Resolving /\ OneRun(AfterReset)
      /\ \A r \in AfterReset : \E s \in running : Heir(r, s)
      /\ Cancelled(play.cancel) \in SUBSET Resolving /\ OneRun(Cancelled(play.cancel))
      /\ \A r \in Cancelled(play.cancel) : \E s \in running : Heir(r, s)
  BY <1>2, ResetHeirs, ResetOK, CancelledHeirs, CancelledOK DEF TypeOK
<1>7. OneRun(running') /\ \A r \in running' : \E s \in running : Heir(r, s)
  BY <1>1, <1>5, <1>6
<1>8. QED
  BY <1>1, <1>4, <1>7 DEF ServiceMove

LEMMA MoveService ==
  ASSUME TypeOK, Books, PageInv
  PROVE  /\ \A c \in AnyCall : Given(c) /\ Handle(c) => ServiceMove(c.id, c.epoch)
         /\ \A r \in running : Platform(r) => ServiceMove(r.id, r.epoch)
         /\ Bootstrap \/ MoveEpoch \/ ClearTransient => ServiceMove(None, 0)
<1>1. \A c \in AnyCall : Given(c) /\ Handle(c) => ServiceMove(c.id, c.epoch)
  BY MoveStale, MoveRefuse, MoveBegin, MoveCancel DEF Handle
<1>2. ASSUME NEW r \in running, Platform(r) PROVE ServiceMove(r.id, r.epoch)
  <2>1. PICK step \in {"resolved", "cancelled", "failed"} : tasks' = Reply(r.id, r.epoch, step)
    BY <1>2 DEF Platform, FinishResolve, FailResolve
  <2>2. page' = page /\ calls' = calls /\ running' = running \ {r}
    BY <1>2 DEF Platform, FinishResolve, FailResolve
  <2>3. OneCall(calls') /\ OneRun(running')
    BY <2>2 DEF PageInv, OnePlace, OneRun
  <2>4. QED
    BY <2>1, <2>2, <2>3, HeirsOfOneself, RunAnswered DEF ServiceMove
<1>3. ASSUME Bootstrap \/ MoveEpoch \/ ClearTransient PROVE ServiceMove(None, 0)
  <2>1. /\ page' = page /\ calls' = calls /\ tasks' = tasks
        /\ \/ running' = AfterReset
           \/ running' = running
           \/ running' = Cancelled(play.cancel)
    BY <1>3 DEF Bootstrap, MoveEpoch, ClearTransient
  <2>2. OneRun(running) /\ OneCall(calls)
    BY DEF PageInv, OnePlace
  <2>3. OneRun(running') /\ \A r \in running' : \E s \in running : Heir(r, s)
    BY <2>1, <2>2, HeirsOfOneself, ResetHeirs, CancelledHeirs DEF TypeOK
  <2>4. QED
    BY <2>1, <2>2, <2>3, HeirsOfOneself DEF ServiceMove
<1>4. QED
  BY <1>1, <1>2, <1>3

----------------------------------------------------------------------------
(* What the page does to its own state.                                    *)

LEMMA NoneIsNoRequest ==
  ASSUME TypeOK
  PROVE  None \notin Own /\ \A t \in tasks : t.id # None
BY Constants, Shapes

LEMMA FreshIsOwn ==
  ASSUME TypeOK, page.serial < MaxGeneration
  PROVE  [page |-> page.nr, seq |-> page.serial + 1] \in Own
<1>1. page.nr \in 1..MaxPage /\ page.serial + 1 \in 1..MaxGeneration
  BY Shapes, Constants DEF TypeOK, Player
<1>2. QED
  BY <1>1 DEF Own

(* The listener acts: the serial number moves on, so that no continuation, *)
(* call or resolve of before passes the guard.                             *)
Fresh == [page |-> page.nr, seq |-> page.serial + 1]

Turned ==
  /\ Fresh \in Own
  /\ page'.nr = page.nr /\ page'.epoch = page.epoch /\ page'.serial = page.serial + 1
  /\ \/ page'.id = page.id /\ page'.itemEpoch = page.itemEpoch
     \/ page'.id = None /\ page'.itemEpoch = page.itemEpoch
     \/ page'.id = Fresh /\ page'.itemEpoch = page.epoch
  /\ running' = running
  /\ \A c \in calls' : c \in calls \/ c \in CancelOwn
  /\ \A t \in tasks' : t \in tasks \/
       /\ t.seq = page.serial + 1 /\ t.epoch = page.epoch /\ t.id = page'.id
       /\ page'.state = "resolving"
       /\ \/ t.id = Fresh /\ Follows(t) /\ ~page'.resolved
          \/ page.id # None /\ t.id = page.id /\ ~Follows(t) /\ page'.resolved
  /\ \A t, u \in tasks' : t \notin tasks /\ u \notin tasks => t = u

LEMMA TurnedStart == ASSUME TypeOK, start PROVE Turned
<1> DEFINE t == [id |-> Fresh, seq |-> page.serial + 1, epoch |-> page.epoch, step |-> "flushed"]
<1>1. /\ page' = [page EXCEPT !.serial = page.serial + 1, !.id = Fresh, !.itemEpoch = page.epoch,
                              !.resolved = FALSE, !.source = None, !.state = "resolving"]
      /\ tasks' = tasks \cup {t} /\ running' = running
      /\ calls' = calls \cup CancelOwn
  BY DEF start, Fresh, Send
<1>2. /\ page'.nr = page.nr /\ page'.epoch = page.epoch /\ page'.serial = page.serial + 1
      /\ page'.id = Fresh /\ page'.itemEpoch = page.epoch /\ page'.state = "resolving"
      /\ page'.resolved = FALSE
  BY <1>1 DEF TypeOK, Player
<1>3. t.id = Fresh /\ t.seq = page.serial + 1 /\ t.epoch = page.epoch /\ Follows(t)
  BY DEF Follows
<1>4. Fresh \in Own
  BY FreshIsOwn DEF start, resume, Fresh
<1> HIDE DEF t
<1>5. QED
  BY <1>1, <1>2, <1>3, <1>4 DEF Turned

LEMMA TurnedPause == ASSUME TypeOK, pause \/ clear PROVE Turned
<1> DEFINE state == IF page.state \in {"idle", "error"} THEN page.state ELSE "paused"
<1>1. /\ \/ page' = [page EXCEPT !.serial = page.serial + 1, !.state = state]
         \/ page' = [page EXCEPT !.serial = page.serial + 1, !.id = None, !.resolved = FALSE,
                                 !.source = None, !.state = "idle"]
      /\ tasks' = tasks /\ running' = running /\ calls' = calls \cup CancelOwn
  BY DEF pause, clear, Send, TypeOK, Player
<1> HIDE DEF state
<1>2. /\ page'.nr = page.nr /\ page'.epoch = page.epoch /\ page'.serial = page.serial + 1
      /\ page'.itemEpoch = page.itemEpoch /\ (page'.id = page.id \/ page'.id = None)
  BY <1>1 DEF TypeOK, Player
<1>3. Fresh \in Own
  BY FreshIsOwn DEF pause, clear, Fresh
<1>4. QED
  BY <1>1, <1>2, <1>3 DEF Turned

LEMMA TurnedResume == ASSUME TypeOK, resume PROVE Turned
<1> DEFINE t == [id |-> page.id, seq |-> page.serial + 1, epoch |-> page.epoch, step |-> "resumed"]
<1>1. /\ page' = [page EXCEPT !.serial = page.serial + 1, !.state = "resolving"]
      /\ tasks' = tasks \cup {t} /\ running' = running /\ calls' = calls
      /\ page.id # None /\ page.resolved
  BY DEF resume, TypeOK, Player
<1>2. /\ page'.nr = page.nr /\ page'.epoch = page.epoch /\ page'.serial = page.serial + 1
      /\ page'.id = page.id /\ page'.itemEpoch = page.itemEpoch /\ page'.state = "resolving"
      /\ page'.resolved = page.resolved
  BY <1>1 DEF TypeOK, Player
<1>3. t.id = page.id /\ t.seq = page.serial + 1 /\ t.epoch = page.epoch /\ ~Follows(t)
  BY DEF Follows
<1>4. Fresh \in Own
  BY FreshIsOwn DEF start, resume, Fresh
<1> HIDE DEF t
<1>5. QED
  BY <1>1, <1>2, <1>3, <1>4 DEF Turned

LEMMA TurnedPage ==
  ASSUME TypeOK, PageInv, Turned
  PROVE  PageInv'
<1> USE DEF PageInv
<1>0. /\ page.serial \in Nat /\ page'.serial = page.serial + 1 /\ page'.nr = page.nr
      /\ page'.epoch = page.epoch /\ running' = running
      /\ page.epoch \in Nat /\ page.nr \in Nat
  BY Shapes DEF Turned
<1>1. \A c \in CancelOwn : /\ ~Asks(c) /\ page.id # None /\ c.id = page.id
                           /\ c.epoch = page.itemEpoch
  BY DEF CancelOwn, Asks
<1>2. \A c \in calls' : \/ c \in calls
                        \/ /\ ~Asks(c) /\ page.id # None /\ c.id = page.id
                           /\ c.epoch = page.itemEpoch
  BY <1>1 DEF Turned
<1>3. /\ Fresh.page = page.nr /\ Fresh.seq = page.serial + 1
      /\ page.id # None => page.id \in Own
  BY Shapes DEF Fresh
<1>4. /\ \A t \in tasks : Follows(t) => t.id # Fresh
      /\ \A c \in calls : c.id # Fresh
      /\ \A r \in running : r.id \in Own => r.id # Fresh
      /\ page.id # None => page.id # Fresh
      /\ Fresh # None
  <2>1. ~(page.serial + 1 <= page.serial)
    BY <1>0
  <2>2. \A t \in tasks : Follows(t) => t.id.seq <= page.serial
    BY DEF Known
  <2>3. Fresh # None
    BY Shapes DEF Turned
  <2>4. QED
    BY <1>3, <2>1, <2>2, <2>3 DEF Known, Asked
<1>5. Known'
  <2>a. page'.itemEpoch <= page'.epoch
    BY <1>0 DEF Turned, Known
  <2>1. page'.id # None => page'.id.page = page'.nr /\ page'.id.seq <= page'.serial
    BY <1>0, <1>3, Shapes DEF Turned, Known
  <2>2. ASSUME NEW t \in tasks'
        PROVE  /\ t.id.page = page.nr /\ t.id.seq <= t.seq /\ t.seq <= page.serial + 1
               /\ Follows(t) => t.seq = t.id.seq
               /\ t.epoch <= page.epoch
    <3>1. CASE t \in tasks
      BY <1>0, <3>1, Shapes DEF Known
    <3>2. CASE t \notin tasks
      BY <1>0, <1>3, <3>2, Shapes DEF Turned, Known
    <3>3. QED
      BY <3>1, <3>2
  <2>3. \A id \in Own : Asked(id) => Asked(id)'
    BY <1>0, Shapes DEF Asked
  <2>4. ASSUME NEW c \in calls'
        PROVE  /\ Asked(c.id)'
               /\ c.id.page = page.nr => c.epoch <= page.epoch
               /\ ~Asks(c) /\ c.id.page = page.nr => c.id.seq < page.serial + 1
    <3>1. CASE c \in calls
      BY <1>0, <2>3, <3>1, Shapes DEF Known
    <3>2. CASE c \notin calls
      <4>1. /\ ~Asks(c) /\ page.id # None /\ c.id = page.id /\ c.epoch = page.itemEpoch
            /\ page.id \in Own
        BY <1>2, <1>3, <3>2
      <4>2. Asked(page.id) /\ page.id.page = page.nr /\ page.id.seq <= page.serial
        BY <1>0, <4>1 DEF Known, Asked
      <4>3. page.id.seq < page.serial + 1
        BY <1>0, <4>1, <4>2, Shapes
      <4>4. Asked(c.id)' /\ c.epoch <= page.epoch
        BY <2>3, <4>1, <4>2 DEF Known
      <4>5. QED
        BY <4>1, <4>3, <4>4
    <3>3. QED
      BY <3>1, <3>2
  <2>5. \A r \in running : r.id \in Own =>
          /\ Asked(r.id)' /\ r.generation = r.id.seq
          /\ r.id.page = page.nr => r.epoch <= page.epoch
    BY <2>3 DEF Known
  <2>6. QED
    BY <1>0, <2>a, <2>1, <2>2, <2>4, <2>5 DEF Known
<1>6. OnePlace'
  <2>1. \A t \in tasks' : t \notin tasks =>
          \/ t.id = Fresh /\ Follows(t) /\ \A u \in tasks' : Follows(u) /\ u.id = Fresh => u = t
          \/ ~Follows(t) /\ t.seq = page.serial + 1
    BY <1>4 DEF Turned
  <2>2. OneTask'
    BY <1>4, <2>1 DEF OnePlace, OneTask
  <2>3. OneResumed'
    <3>1. \A t \in tasks : t.seq # page.serial + 1
      BY <1>0, Shapes DEF Known
    <3>2. \A t, u \in tasks' : t \notin tasks /\ u \notin tasks => t = u
      BY DEF Turned
    <3>3. QED
      BY <2>1, <3>1, <3>2 DEF OnePlace, OneResumed
  <2>4. OneCall(calls') /\ OneRun(running')
    BY <1>0, <1>2 DEF OnePlace, OneCall
  <2>5. \A t \in tasks' : \A c \in calls' : Follows(t) /\ Asks(c) => t.id # c.id
    BY <1>2, <1>4, <2>1 DEF OnePlace
  <2>6. \A t \in tasks' : \A r \in running' : Follows(t) => t.id # r.id
    BY <1>0, <1>3, <1>4, <2>1 DEF OnePlace, Turned
  <2>7. \A c \in calls' : \A r \in running' : Asks(c) => c.id # r.id
    BY <1>0, <1>2 DEF OnePlace
  <2>8. QED
    BY <2>2, <2>3, <2>4, <2>5, <2>6, <2>7 DEF OnePlace
<1>7. LiveTrue'
  <2>1. \A n \in Nat : n <= page.serial => n # page.serial + 1
    BY <1>0
  <2>2. ASSUME NEW t \in tasks', Live(t)'
        PROVE  /\ t.id = page'.id /\ page'.state = "resolving"
               /\ Follows(t) <=> ~page'.resolved
    <3>1. t \notin tasks
      BY <1>0, <2>1, <2>2, Shapes DEF Live, Known
    <3>2. QED
      BY <3>1 DEF Turned
  <2>3. \A c \in calls' : ~(Asks(c) /\ Newest(c.id, c.epoch)')
    BY <1>0, <1>2, <2>1, Shapes DEF Newest, Known, Asked
  <2>4. \A r \in running' : ~(r.id \in Own /\ Newest(r.id, r.epoch)')
    BY <1>0, <2>1, Shapes DEF Newest, Known, Asked
  <2>5. QED
    BY <2>2, <2>3, <2>4 DEF LiveTrue
<1>8. SameEpoch'
  <2>1. \A t \in tasks' : Follows(t) => t \in tasks \/ t.id = Fresh
    BY DEF Turned
  <2>2. \A t \in tasks' : t.id = Fresh /\ Follows(t) => t.epoch = page.epoch
    BY <1>4 DEF Turned
  <2>3. \A t \in tasks' : Follows(t) /\ t.id = page'.id => t.epoch = page'.itemEpoch
    BY <1>4, <2>1, <2>2, NoneIsNoRequest DEF Turned, SameEpoch
  <2>4. \A c \in calls' : c.id = page'.id => c.epoch = page'.itemEpoch
    BY <1>2, <1>4, Shapes DEF Turned, SameEpoch
  <2>5. \A r \in running' : r.id \in Own /\ r.id = page'.id => r.epoch = page'.itemEpoch
    BY <1>0, <1>4, NoneIsNoRequest DEF Turned, SameEpoch
  <2>6. ASSUME NEW k \in calls', ~Asks(k)
        PROVE  /\ \A t \in tasks' : Follows(t) /\ t.id = k.id => t.epoch = k.epoch
               /\ \A c \in calls' : c.id = k.id => c.epoch = k.epoch
               /\ \A r \in running' : r.id = k.id => r.epoch = k.epoch
    <3>1. CASE k \in calls
      <4>1. \A t \in tasks' : Follows(t) /\ t.id = k.id => t.epoch = k.epoch
        BY <1>4, <2>1, <2>6, <3>1 DEF SameEpoch
      <4>2. \A c \in calls' : c.id = k.id => c.epoch = k.epoch
        BY <1>2, <2>6, <3>1 DEF SameEpoch
      <4>3. \A r \in running' : r.id = k.id => r.epoch = k.epoch
        BY <1>0, <2>6, <3>1 DEF SameEpoch
      <4>4. QED
        BY <4>1, <4>2, <4>3
    <3>2. CASE k.id = page.id /\ k.epoch = page.itemEpoch /\ page.id # None
      <4>1. \A t \in tasks' : Follows(t) /\ t.id = k.id => t.epoch = k.epoch
        BY <1>4, <2>1, <3>2 DEF SameEpoch
      <4>2. \A c \in calls' : c.id = k.id => c.epoch = k.epoch
        BY <1>2, <3>2 DEF SameEpoch
      <4>3. \A r \in running' : r.id = k.id => r.epoch = k.epoch
        BY <1>0, <1>3, <3>2 DEF SameEpoch
      <4>4. QED
        BY <4>1, <4>2, <4>3
    <3>3. QED
      BY <1>2, <3>1, <3>2
  <2>7. QED
    BY <2>3, <2>4, <2>5, <2>6 DEF SameEpoch
<1>9. QED
  BY <1>5, <1>6, <1>7, <1>8

LEMMA TurnedListener ==
  ASSUME TypeOK, start \/ pause \/ clear \/ resume
  PROVE  Turned
BY TurnedStart, TurnedPause, TurnedResume

(* A continuation that passes the guard is the only thing the page's       *)
(* newest request is left with.                                            *)
LEMMA LiveAlone ==
  ASSUME TypeOK, PageInv, NEW t \in tasks, Live(t)
  PROVE  /\ \A u \in tasks : Live(u) => u = t
         /\ \A c \in calls : ~(Asks(c) /\ Newest(c.id, c.epoch))
         /\ \A r \in running : ~(r.id \in Own /\ Newest(r.id, r.epoch))
<1> USE DEF PageInv
<1>1. t.id = page.id /\ (Follows(t) <=> ~page.resolved)
  BY DEF LiveTrue
<1>2. ASSUME NEW u \in tasks, Live(u) PROVE u = t
  <2>1. u.id = page.id /\ (Follows(u) <=> Follows(t)) /\ u.seq = t.seq
    BY <1>1, <1>2 DEF LiveTrue, Live
  <2>2. QED
    BY <1>1, <2>1 DEF OnePlace, OneTask, OneResumed
<1>3. \A c \in calls : ~(Asks(c) /\ Newest(c.id, c.epoch))
  BY <1>1 DEF LiveTrue, Awaits, OnePlace
<1>4. \A r \in running : ~(r.id \in Own /\ Newest(r.id, r.epoch))
  BY <1>1 DEF LiveTrue, Awaits, OnePlace
<1>5. QED
  BY <1>2, <1>3, <1>4

(* Nothing waits for a player that does not resolve.                       *)
LEMMA IdleAlone ==
  ASSUME PageInv, page.state # "resolving"
  PROVE  /\ \A u \in tasks : ~Live(u)
         /\ \A c \in calls : ~(Asks(c) /\ Newest(c.id, c.epoch))
         /\ \A r \in running : ~(r.id \in Own /\ Newest(r.id, r.epoch))
BY DEF PageInv, LiveTrue, Awaits

(* The player changes with nothing left waiting for it.                    *)
LEMMA PlayerSettles ==
  ASSUME PageInv, UNCHANGED <<calls, running>>, tasks' \subseteq tasks,
         page'.nr = page.nr, page'.epoch = page.epoch, page'.serial = page.serial,
         page'.id = page.id, page'.itemEpoch = page.itemEpoch,
         \A u \in tasks' : ~Live(u),
         \A c \in calls : ~(Asks(c) /\ Newest(c.id, c.epoch)),
         \A r \in running : ~(r.id \in Own /\ Newest(r.id, r.epoch))
  PROVE  PageInv'
<1> USE DEF PageInv
<1>1. Known'
  BY DEF Known, Asked
<1>2. OnePlace'
  BY DEF OnePlace, OneTask, OneResumed
<1>3. LiveTrue'
  BY DEF LiveTrue, Live, Newest
<1>4. SameEpoch'
  BY DEF SameEpoch
<1>5. QED
  BY <1>1, <1>2, <1>3, <1>4

LEMMA PageSettles ==
  ASSUME TypeOK, PageInv, mediaEvent \/ \E t \in tasks : playAudio(t) \/ fail(t)
  PROVE  PageInv'
<1>1. ASSUME NEW t \in tasks, playAudio(t) \/ fail(t) PROVE PageInv'
  <2>1. Live(t) /\ tasks' = tasks \ {t} /\ UNCHANGED <<calls, running>>
    BY <1>1 DEF playAudio, fail
  <2>2. CASE playAudio(t)
    <3>1. /\ page'.nr = page.nr /\ page'.epoch = page.epoch /\ page'.serial = page.serial
          /\ page'.id = page.id /\ page'.itemEpoch = page.itemEpoch
      BY <2>2 DEF playAudio, TypeOK, Player
    <3>2. QED
      BY <2>1, <3>1, LiveAlone, PlayerSettles
  <2>3. CASE fail(t)
    <3> DEFINE state == IF t.step = "resumed" THEN "paused" ELSE "error"
    <3>1. page' = [page EXCEPT !.state = state]
      BY <2>3 DEF fail
    <3> HIDE DEF state
    <3>2. /\ page'.nr = page.nr /\ page'.epoch = page.epoch /\ page'.serial = page.serial
          /\ page'.id = page.id /\ page'.itemEpoch = page.itemEpoch
      BY <3>1 DEF TypeOK, Player
    <3>3. QED
      BY <2>1, <3>2, LiveAlone, PlayerSettles
  <2>4. QED
    BY <1>1, <2>2, <2>3
<1>2. CASE mediaEvent
  <2>1. /\ page'.nr = page.nr /\ page'.epoch = page.epoch /\ page'.serial = page.serial
        /\ page'.id = page.id /\ page'.itemEpoch = page.itemEpoch
        /\ UNCHANGED <<calls, running, tasks>> /\ page.state # "resolving"
    BY <1>2 DEF mediaEvent, TypeOK, Player
  <2>2. QED
    BY <2>1, IdleAlone, PlayerSettles
<1>3. QED
  BY <1>1, <1>2

LEMMA PageDrop ==
  ASSUME PageInv, NEW t \in tasks, Drop(t)
  PROVE  PageInv'
<1> USE DEF PageInv
<1>1. /\ tasks' \subseteq tasks /\ page' = page /\ calls' = calls /\ running' = running
  BY DEF Drop
<1>2. Known'
  BY <1>1 DEF Known, Asked
<1>3. OnePlace'
  BY <1>1 DEF OnePlace, OneTask, OneResumed
<1>4. LiveTrue'
  BY <1>1 DEF LiveTrue, Live, Newest, Awaits
<1>5. SameEpoch'
  BY <1>1 DEF SameEpoch
<1>6. QED
  BY <1>2, <1>3, <1>4, <1>5

LEMMA PageAsk ==
  ASSUME TypeOK, PageInv, NEW t \in tasks, ask(t)
  PROVE  PageInv'
<1> USE DEF PageInv
<1> DEFINE new == [kind |-> "resolve", epoch |-> t.epoch, generation |-> t.seq, id |-> t.id,
                   stopped |-> FALSE]
<1>1. /\ tasks' = tasks \ {t} /\ page' = page /\ calls' = calls \cup {new} /\ running' = running
      /\ Follows(t) /\ Live(t)
  BY DEF ask, Send, Follows
<1>2. Asks(new) /\ new.id = t.id /\ new.epoch = t.epoch
  BY DEF Asks
<1> HIDE DEF new
<1>3. t.id = page.id /\ page.state = "resolving" /\ ~page.resolved /\ t.id \in Own
  BY <1>1, Shapes DEF LiveTrue
<1>4. Known'
  <2>1. Asked(t.id) /\ t.epoch <= page.epoch
    BY <1>1, Shapes DEF Known, Asked
  <2>2. QED
    BY <1>1, <1>2, <2>1 DEF Known, Asked
<1>5. OnePlace'
  <2>1. \A u \in tasks' : Follows(u) => u.id # t.id
    BY <1>1 DEF OnePlace, OneTask
  <2>2. \A c \in calls : Asks(c) => c.id # t.id
    BY <1>1 DEF OnePlace
  <2>3. \A r \in running : r.id # t.id
    BY <1>1 DEF OnePlace
  <2>4. OneTask' /\ OneResumed' /\ OneCall(calls') /\ OneRun(running')
    BY <1>1, <1>2, <2>2 DEF OnePlace, OneTask, OneResumed, OneCall, OneRun
  <2>5. QED
    BY <1>1, <1>2, <2>1, <2>2, <2>3, <2>4 DEF OnePlace
<1>6. LiveTrue'
  BY <1>1, <1>2, <1>3 DEF LiveTrue, Live, Newest, Awaits
<1>7. SameEpoch'
  <2>1. t.epoch = page.itemEpoch
    BY <1>1, <1>3 DEF SameEpoch
  <2>2. \A k \in calls : ~Asks(k) /\ k.id = t.id => t.epoch = k.epoch
    BY <1>1 DEF SameEpoch
  <2>3. QED
    BY <1>1, <1>2, <2>1, <2>2 DEF SameEpoch
<1>8. QED
  BY <1>4, <1>5, <1>6, <1>7

LEMMA PagePrepare ==
  ASSUME TypeOK, PageInv, NEW t \in tasks, prepareProgress(t)
  PROVE  PageInv'
<1> USE DEF PageInv
<1> DEFINE new == [t EXCEPT !.step = "prepared"]
<1>1. /\ tasks' = (tasks \ {t}) \cup {new} /\ page' = page /\ calls' = calls
      /\ running' = running /\ Follows(t)
  BY DEF prepareProgress, Follows
<1>2. new.id = t.id /\ new.epoch = t.epoch /\ new.seq = t.seq /\ Follows(new)
  BY DEF Follows, TypeOK, Task
<1> HIDE DEF new
<1>3. Known'
  BY <1>1, <1>2 DEF Known, Asked
<1>4. OnePlace'
  BY <1>1, <1>2 DEF OnePlace, OneTask, OneResumed
<1>5. LiveTrue'
  BY <1>1, <1>2 DEF LiveTrue, Live, Newest, Awaits
<1>6. SameEpoch'
  BY <1>1, <1>2 DEF SameEpoch
<1>7. QED
  BY <1>3, <1>4, <1>5, <1>6

LEMMA PageObserve ==
  ASSUME TypeOK, PageInv, observeGeneration
  PROVE  PageInv'
<1> USE DEF PageInv
<1>1. /\ page'.nr = page.nr /\ page'.id = page.id /\ page'.itemEpoch = page.itemEpoch
      /\ page'.resolved = page.resolved /\ page'.state = page.state
      /\ page.epoch <= page'.epoch /\ page.serial <= page'.serial
      /\ page'.epoch \in Nat /\ page'.serial \in Nat
      /\ UNCHANGED <<calls, running, tasks>>
  <2>1. boot \in Bootstrapped
    BY DEF observeGeneration, TypeOK, Maybe
  <2>2. boot.epoch \in Nat /\ boot.generation \in Nat
    BY <2>1, Constants DEF Bootstrapped
  <2>3. CASE boot.epoch < page.epoch
    BY <2>2, <2>3, Shapes DEF observeGeneration
  <2>4. CASE ~(boot.epoch < page.epoch)
    <3> DEFINE n == IF boot.generation > page.serial THEN boot.generation ELSE page.serial
    <3>1. n \in Nat /\ page.serial <= n
      BY <2>2, Shapes
    <3>2. /\ page' = [page EXCEPT !.epoch = boot.epoch, !.serial = n]
          /\ UNCHANGED <<calls, running, tasks>>
      BY <2>4 DEF observeGeneration, TypeOK, Player
    <3> HIDE DEF n
    <3>3. page'.epoch = boot.epoch /\ page'.serial = n
      BY <3>2 DEF TypeOK, Player
    <3>4. /\ page'.nr = page.nr /\ page'.id = page.id /\ page'.itemEpoch = page.itemEpoch
          /\ page'.resolved = page.resolved /\ page'.state = page.state
      BY <3>2 DEF TypeOK, Player
    <3>5. page.epoch <= boot.epoch
      BY <2>2, <2>4, Shapes
    <3>6. QED
      BY <2>2, <3>1, <3>2, <3>3, <3>4, <3>5
  <2>5. QED
    BY <2>3, <2>4
<1>2. \A n \in Nat : /\ n <= page.serial => n <= page'.serial
                     /\ n <= page.epoch => n <= page'.epoch
                     /\ n < page.serial => n < page'.serial
                     /\ n <= page.serial /\ n = page'.serial => n = page.serial
                     /\ n <= page.epoch /\ n = page'.epoch => n = page.epoch
  BY <1>1, Shapes
<1>3. \A id \in Own : Asked(id) => Asked(id)'
  BY <1>1, <1>2, Shapes DEF Asked
<1>4. Known'
  <2>1. page'.itemEpoch <= page'.epoch /\ (page'.id # None => page'.id.seq <= page'.serial)
    BY <1>1, <1>2, Shapes DEF Known
  <2>2. \A t \in tasks : t.seq <= page'.serial /\ t.epoch <= page'.epoch
    BY <1>2, Shapes DEF Known
  <2>3. \A c \in calls : /\ Asked(c.id)'
                         /\ c.id.page = page.nr => c.epoch <= page'.epoch
                         /\ ~Asks(c) /\ c.id.page = page.nr => c.id.seq < page'.serial
    BY <1>2, <1>3, Shapes DEF Known
  <2>4. \A r \in running : r.id \in Own =>
          Asked(r.id)' /\ (r.id.page = page.nr => r.epoch <= page'.epoch)
    BY <1>2, <1>3, Shapes DEF Known
  <2>5. QED
    BY <1>1, <2>1, <2>2, <2>3, <2>4 DEF Known
<1>5. OnePlace'
  BY <1>1 DEF OnePlace, OneTask, OneResumed
<1>6. LiveTrue'
  <2>1. \A t \in tasks : Live(t)' => Live(t)
    BY <1>2, Shapes DEF Live, Known
  <2>2. \A c \in calls : Newest(c.id, c.epoch)' => Newest(c.id, c.epoch)
    BY <1>1, <1>2, Shapes DEF Newest, Known, Asked
  <2>3. \A r \in running : r.id \in Own /\ Newest(r.id, r.epoch)' => Newest(r.id, r.epoch)
    BY <1>1, <1>2, Shapes DEF Newest, Known, Asked
  <2>4. QED
    BY <1>1, <2>1, <2>2, <2>3 DEF LiveTrue, Awaits
<1>7. SameEpoch'
  BY <1>1 DEF SameEpoch
<1>8. QED
  BY <1>4, <1>5, <1>6, <1>7

LEMMA PageLoad ==
  ASSUME TypeOK, PageInv, LoadPage
  PROVE  PageInv'
<1> USE DEF PageInv
<1>1. /\ page'.nr = page.nr + 1 /\ page'.id = None /\ page'.epoch = session
      /\ page'.itemEpoch = session /\ tasks' = {} /\ calls' = calls /\ running' = AfterReset
  BY DEF LoadPage, NewPage
<1>2. OneRun(running') /\ \A r \in running' : \E s \in running : Heir(r, s)
  BY <1>1, ResetHeirs DEF OnePlace
<1>3. \A id \in Own : Asked(id) => Asked(id)' /\ id.page # page'.nr
  BY <1>1, Shapes DEF Asked
<1>4. /\ \A c \in calls : c.id \in Own /\ Asked(c.id)' /\ c.id.page # page'.nr
      /\ \A r \in running' : r.id \in Own =>
           Asked(r.id)' /\ r.id.page # page'.nr /\ r.generation = r.id.seq
  BY <1>2, <1>3, Shapes DEF Known, Heir
<1>5. Known'
  BY <1>1, <1>4, Shapes DEF Known
<1>6. OnePlace'
  <2>1. \A c \in calls : \A r \in running' : Asks(c) => c.id # r.id
    BY <1>2 DEF OnePlace, Heir
  <2>2. QED
    BY <1>1, <1>2, <2>1 DEF OnePlace, OneTask, OneResumed
<1>7. LiveTrue'
  BY <1>1, <1>4 DEF LiveTrue, Newest
<1>8. SameEpoch'
  <2>1. \A k \in calls : ~Asks(k) =>
          /\ \A c \in calls : c.id = k.id => c.epoch = k.epoch
          /\ \A r \in running' : r.id = k.id => r.epoch = k.epoch
    BY <1>2 DEF SameEpoch, Heir
  <2>2. QED
    BY <1>1, <2>1, Shapes DEF SameEpoch
<1>9. QED
  BY <1>5, <1>6, <1>7, <1>8

LEMMA PageNext == TypeOK /\ Books /\ PageInv /\ [Next]_vars => PageInv'
<1> SUFFICES ASSUME TypeOK, Books, PageInv, [Next]_vars PROVE PageInv'
  OBVIOUS
<1>1. CASE UNCHANGED vars
  BY <1>1 DEF vars, PageInv, Known, Asked, OnePlace, OneTask, OneResumed, LiveTrue, Live, Newest,
              Awaits, SameEpoch
<1>2. ASSUME NEW c \in AnyCall, Given(c), Handle(c) PROVE PageInv'
  BY <1>2, MoveService, MovedPage
<1>3. ASSUME NEW r \in running, Platform(r) PROVE PageInv'
  BY <1>3, MoveService, MovedPage
<1>4. CASE Bootstrap \/ MoveEpoch \/ ClearTransient
  BY <1>4, MoveService, MovedPage
<1>5. ASSUME NEW t \in tasks, Continue(t) PROVE PageInv'
  BY <1>5, PageDrop, PageAsk, PagePrepare, PageSettles DEF Continue
<1>6. CASE Listener
  BY <1>6, TurnedListener, TurnedPage, PageSettles DEF Listener
<1>7. QED
  BY <1>1, <1>2, <1>3, <1>4, <1>5, <1>6, GivenCalls, PageObserve, PageLoad DEF Next

LEMMA PageInit == Init => PageInv
BY Constants DEF Init, PageInv, Known, OnePlace, OneTask, OneResumed, OneCall, OneRun, LiveTrue,
                 SameEpoch, NewPage

LEMMA Paged == Spec => [](TypeOK /\ Books /\ FenceInv /\ PageInv)
BY Fenced, PageInit, PageNext, PTL DEF Spec

----------------------------------------------------------------------------
(* The player implements what it promises the listener.                    *)

Wanted == IF page.state \in {"resolving", "playing"} THEN page.id ELSE None
Playing == IF page.state = "playing" THEN page.source ELSE None

LEMMA StepListener ==
  ASSUME TypeOK, Listener
  PROVE  Intent!Want \/ Intent!Stop
<1> USE DEF Intent!Want, Intent!Stop
<1>1. CASE start
  <2>1. Fresh \in Own
    BY <1>1, TurnedStart DEF Turned
  <2>2. page'.id = Fresh /\ page'.state = "resolving"
    BY <1>1 DEF start, Fresh, TypeOK, Player
  <2>3. QED
    BY <2>1, <2>2
<1>2. CASE resume
  <2>1. page'.id = page.id /\ page'.state = "resolving" /\ page.id \in Own
    BY <1>2, Shapes DEF resume, TypeOK, Player
  <2>2. QED
    BY <2>1
<1>3. CASE pause \/ clear \/ mediaEvent
  <2>1. page'.state \in {"idle", "error", "paused"}
    BY <1>3 DEF pause, clear, mediaEvent, TypeOK, Player
  <2>2. QED
    BY <2>1
<1>4. QED
  BY <1>1, <1>2, <1>3 DEF Listener

LEMMA StepContinue ==
  ASSUME TypeOK, PageInv, NEW t \in tasks, Continue(t)
  PROVE  Intent!Stop \/ Intent!Play \/ UNCHANGED page
<1>1. CASE playAudio(t)
  <2>1. page'.id = page.id /\ page'.state = "playing" /\ page'.source = t.id
    BY <1>1 DEF playAudio, TypeOK, Player
  <2>2. t.id = page.id /\ page.state = "resolving" /\ page.id \in Own
    BY <1>1, Shapes DEF playAudio, PageInv, LiveTrue
  <2>3. QED
    BY <2>1, <2>2, NoneIsNoRequest DEF Intent!Play
<1>2. CASE fail(t)
  <2>1. page'.state \in {"error", "paused"}
    BY <1>2 DEF fail, TypeOK, Player
  <2>2. QED
    BY <2>1 DEF Intent!Stop
<1>3. CASE Drop(t) \/ ask(t) \/ prepareProgress(t)
  BY <1>3 DEF Drop, ask, prepareProgress
<1>4. QED
  BY <1>1, <1>2, <1>3 DEF Continue

LEMMA StepPage ==
  ASSUME TypeOK, observeGeneration \/ LoadPage
  PROVE  Intent!Stop \/ UNCHANGED <<page.id, page.state, page.source>>
<1>1. CASE observeGeneration
  BY <1>1 DEF observeGeneration, TypeOK, Player
<1>2. CASE LoadPage
  BY <1>2 DEF LoadPage, NewPage, Intent!Stop
<1>3. QED
  BY <1>1, <1>2

(* What plays is what the listener last asked for; a pause, a failure or a *)
(* closed player leaves nothing playing, whatever answers arrive later:    *)
(* the Player implements PlaybackIntent.                                   *)
THEOREM PlaybackPlaysWhatIsWanted == Spec => PlaysWhatIsWanted
<1> DEFINE Step == Intent!Want \/ Intent!Stop \/ Intent!Play
<1>1. Init => Intent!Init
  BY DEF Init, NewPage, Intent!Init
<1>2. TypeOK /\ Books /\ PageInv /\ [Next]_vars => [Step]_<<Wanted, Playing>>
  <2> SUFFICES ASSUME TypeOK, Books, PageInv, [Next]_vars
               PROVE  Step \/ UNCHANGED <<page.id, page.state, page.source>>
    BY DEF Wanted, Playing
  <2>1. CASE UNCHANGED vars
    BY <2>1 DEF vars
  <2>2. ASSUME ServiceMove(None, 0) \/ (\E c \in AnyCall : ServiceMove(c.id, c.epoch))
                \/ \E r \in running : ServiceMove(r.id, r.epoch)
        PROVE  UNCHANGED page
    BY <2>2 DEF ServiceMove
  <2>3. QED
    BY <2>1, <2>2, GivenCalls, MoveService, StepListener, StepContinue, StepPage DEF Next
<1>3. QED
  BY <1>1, <1>2, Paged, PTL DEF Spec, PlaysWhatIsWanted, Intent!Spec, Wanted, Playing

----------------------------------------------------------------------------
(* The work at the platform is wanted.                                     *)

CancelSent(id) == \E k \in calls : ~Asks(k) /\ k.id = id

(* A call that may still begin, or a resolve at work, of this page in this *)
(* session has a player that waits for it or a cancel under way.           *)
WorkTrue ==
  /\ \A c \in calls : Asks(c) /\ c.epoch = session /\ c.id.page = page.nr =>
       c.stopped \/ CancelSent(c.id) \/ Awaits(c.id)
  /\ \A r \in running : r.id \in Own /\ r.id.page = page.nr /\ r.epoch = session =>
       r.cancelled \/ CancelSent(r.id) \/ Awaits(r.id)

(* The service takes no cancel: what works, or may, is what was there.     *)
LEMMA WorkKept ==
  ASSUME WorkTrue, page' = page, session' = session,
         \A k \in calls : ~Asks(k) => k \in calls',
         \A k \in calls' : Asks(k) => k \in calls,
         \A r \in running' : r.id \in Own =>
           \/ \E s \in running : Heir(r, s)
           \/ r.cancelled \/ CancelSent(r.id) \/ Awaits(r.id)
  PROVE  WorkTrue'
<1>1. \A id : (CancelSent(id) => CancelSent(id)') /\ (Awaits(id) => Awaits(id)')
  BY DEF CancelSent, Awaits
<1>2. \A c \in calls' : Asks(c) /\ c.epoch = session /\ c.id.page = page.nr =>
        c.stopped \/ CancelSent(c.id)' \/ Awaits(c.id)'
  BY <1>1 DEF WorkTrue
<1>3. \A r \in running' : r.id \in Own /\ r.id.page = page.nr /\ r.epoch = session =>
        r.cancelled \/ CancelSent(r.id)' \/ Awaits(r.id)'
  BY <1>1 DEF WorkTrue, Heir
<1>4. QED
  BY <1>2, <1>3 DEF WorkTrue

LEMMA WorkStale ==
  ASSUME TypeOK, PageInv, WorkTrue, NEW c \in AnyCall, Given(c), StaleCall(c)
  PROVE  WorkTrue'
<1>1. /\ c.epoch # session /\ c \in calls /\ calls' = calls \ {c}
      /\ UNCHANGED <<session, page, running>>
  BY DEF StaleCall, Given
<1>2. \A id : Awaits(id) => Awaits(id)'
  BY <1>1 DEF Awaits
<1>3. \A d \in calls : CancelSent(d.id) /\ d.epoch = session => CancelSent(d.id)'
  BY <1>1 DEF CancelSent, PageInv, SameEpoch
<1>4. \A r \in running : CancelSent(r.id) /\ r.epoch = session => CancelSent(r.id)'
  BY <1>1 DEF CancelSent, PageInv, SameEpoch
<1>5. QED
  BY <1>1, <1>2, <1>3, <1>4 DEF WorkTrue

LEMMA WorkBegin ==
  ASSUME TypeOK, PageInv, WorkTrue, StoppedStaysStopped', NEW c \in AnyCall, Given(c),
         BeginResolve(c)
  PROVE  WorkTrue'
<1> DEFINE g == IF c.generation = 0 THEN resetPlaybackEpochLocked.generation + 1 ELSE c.generation
           new == [id |-> c.id, epoch |-> c.epoch, generation |-> g, cancelled |-> FALSE,
                   stopped |-> c.stopped]
<1>1. /\ page' = page /\ session' = session /\ calls' = calls \ {c} /\ Asks(c)
      /\ c.epoch = session /\ running' = Cancelled(play.cancel) \cup {new}
  BY DEF BeginResolve, Asks
<1>2. \A r \in Cancelled(play.cancel) : \E s \in running : Heir(r, s)
  BY CancelledHeirs DEF PageInv, OnePlace, TypeOK
<1>3. new.id = c.id /\ new.stopped = c.stopped /\ new.cancelled = FALSE
  OBVIOUS
<1> HIDE DEF new
<1>4. ~c.stopped
  BY <1>1, <1>3 DEF StoppedStaysStopped
<1>5. c.id \in Own /\ c.id.page = page.nr => CancelSent(c.id) \/ Awaits(c.id)
  BY <1>1, <1>4, PlaybackAssumption DEF WorkTrue, Given
<1>6. /\ \A k \in calls : ~Asks(k) => k \in calls'
      /\ \A k \in calls' : Asks(k) => k \in calls
      /\ \A id : (CancelSent(id) => CancelSent(id)') /\ (Awaits(id) => Awaits(id)')
  BY <1>1 DEF CancelSent, Awaits
<1>7. \A d \in calls' : Asks(d) /\ d.epoch = session /\ d.id.page = page.nr =>
        d.stopped \/ CancelSent(d.id)' \/ Awaits(d.id)'
  BY <1>6 DEF WorkTrue
<1>8. \A r \in running' : r.id \in Own /\ r.id.page = page.nr /\ r.epoch = session =>
        r.cancelled \/ CancelSent(r.id)' \/ Awaits(r.id)'
  BY <1>1, <1>2, <1>3, <1>5, <1>6 DEF WorkTrue, Heir
<1>9. QED
  BY <1>1, <1>7, <1>8 DEF WorkTrue

(* What a cancel leaves at the platform, and in the bridge.                *)
LEMMA StoppedMarks ==
  ASSUME NEW S \in SUBSET Resolving, NEW id
  PROVE  \A r \in Stopped(S, id) : r.id = id => r.stopped
<1>1. \A s \in Resolving : /\ [s EXCEPT !.stopped = TRUE].stopped = TRUE
                           /\ [s EXCEPT !.stopped = TRUE].id = s.id
  BY DEF Resolving
<1>2. QED
  BY <1>1 DEF Stopped

LEMMA HeirsOfCancel ==
  ASSUME TypeOK, PageInv, NEW c \in AnyCall, CancelResolve(c)
  PROVE  \A r \in running' : \E s \in running : Heir(r, s)
<1>1. \/ running' = Stopped(AfterReset, c.id)
      \/ running' = Stopped(Cancelled(play.cancel), c.id)
  BY DEF CancelResolve
<1>2. ASSUME NEW S \in SUBSET Resolving, OneRun(S), \A r \in S : \E s \in running : Heir(r, s)
      PROVE  \A r \in Stopped(S, c.id) : \E s \in running : Heir(r, s)
  <2>1. \A r \in Stopped(S, c.id) : \E s \in S : Heir(r, s)
    BY <1>2, StoppedHeirs
  <2>2. QED
    BY <1>2, <2>1 DEF Heir
<1>3. /\ AfterReset \in SUBSET Resolving /\ OneRun(AfterReset)
      /\ \A r \in AfterReset : \E s \in running : Heir(r, s)
      /\ Cancelled(play.cancel) \in SUBSET Resolving /\ OneRun(Cancelled(play.cancel))
      /\ \A r \in Cancelled(play.cancel) : \E s \in running : Heir(r, s)
  BY ResetHeirs, ResetOK, CancelledHeirs, CancelledOK DEF TypeOK, PageInv, OnePlace
<1>4. QED
  BY <1>1, <1>2, <1>3

LEMMA WorkCancel ==
  ASSUME TypeOK, Books, PageInv, WorkTrue, StoppedStaysStopped', NEW c \in AnyCall, Given(c),
         CancelResolve(c)
  PROVE  WorkTrue'
<1> DEFINE cancels == {k \in calls \ {c} : k.kind = "cancel"}
           resolves == {k \in calls : k.kind = "resolve"}
<1>1. /\ page' = page /\ session' = session
      /\ calls' = cancels \cup Stopped(resolves, c.id)
      /\ \/ running' = Stopped(AfterReset, c.id)
         \/ running' = Stopped(Cancelled(play.cancel), c.id)
  BY DEF CancelResolve
<1>2. OneCall(resolves) /\ resolves \in SUBSET Call
  BY DEF PageInv, OnePlace, OneCall, TypeOK
<1>3. /\ \A k \in Stopped(resolves, c.id) : \E l \in resolves : CallHeir(k, l)
      /\ \A k \in Stopped(resolves, c.id) : k.id = c.id => k.stopped
  BY <1>2, StoppedCallHeirs
<1>4. \A id : /\ CancelSent(id) /\ id # c.id => CancelSent(id)'
              /\ Awaits(id) => Awaits(id)'
  BY <1>1, Shapes DEF CancelSent, Awaits, Asks
<1>5. ASSUME NEW k \in calls', Asks(k), k.epoch = session, k.id.page = page.nr
      PROVE  k.stopped \/ CancelSent(k.id)' \/ Awaits(k.id)'
  <2>1. k \in Stopped(resolves, c.id)
    BY <1>1, <1>5 DEF Asks
  <2>2. PICK l \in resolves : CallHeir(k, l)
    BY <1>3, <2>1
  <2>3. l.stopped \/ CancelSent(k.id) \/ Awaits(k.id)
    BY <1>5, <2>2 DEF WorkTrue, CallHeir, Asks
  <2>4. QED
    BY <1>3, <1>4, <2>1, <2>2, <2>3 DEF CallHeir
<1>6. ASSUME NEW r \in running', r.id \in Own, r.id.page = page.nr, r.epoch = session
      PROVE  r.cancelled \/ CancelSent(r.id)' \/ Awaits(r.id)'
  <2>1. \E s \in running : Heir(r, s)
    BY HeirsOfCancel
  <2>2. r.id = c.id => r.stopped
    BY <1>1, <1>6, StoppedMarks, ResetOK, CancelledOK DEF TypeOK
  <2>3. r.stopped => r.cancelled
    BY <1>6 DEF StoppedStaysStopped
  <2>4. QED
    BY <1>4, <1>6, <2>1, <2>2, <2>3 DEF WorkTrue, Heir
<1>7. QED
  BY <1>1, <1>5, <1>6 DEF WorkTrue

LEMMA WorkHandle ==
  ASSUME TypeOK, Books, PageInv, WorkTrue, StoppedStaysStopped', NEW c \in AnyCall, Given(c),
         Handle(c)
  PROVE  WorkTrue'
<1>1. CASE RefuseResolve(c)
  <2>1. /\ page' = page /\ session' = session /\ calls' = calls \ {c} /\ Asks(c)
        /\ running' = AfterReset
    BY <1>1 DEF RefuseResolve, Asks
  <2>2. \A r \in running' : \E s \in running : Heir(r, s)
    BY <2>1, ResetHeirs DEF PageInv, OnePlace
  <2>3. QED
    BY <2>1, <2>2, WorkKept
<1>2. QED
  BY <1>1, WorkStale, WorkBegin, WorkCancel DEF Handle

LEMMA WorkSession ==
  ASSUME TypeOK, Books, PageInv, WorkTrue,
         Bootstrap \/ MoveEpoch \/ ClearTransient \/ LoadPage \/ \E r \in running : Platform(r)
  PROVE  WorkTrue'
<1>1. CASE Bootstrap \/ \E r \in running : Platform(r)
  <2>1. /\ page' = page /\ session' = session /\ calls' = calls
        /\ running' = AfterReset \/ running' \subseteq running
    BY <1>1 DEF Bootstrap, Platform, FinishResolve, FailResolve
  <2>2. \A r \in running' : \E s \in running : Heir(r, s)
    BY <2>1, ResetHeirs, HeirsOfOneself DEF PageInv, OnePlace
  <2>3. QED
    BY <2>1, <2>2, WorkKept
<1>2. CASE MoveEpoch \/ ClearTransient
  <2>1. /\ session' = session + 1 /\ calls' = calls
        /\ running' = running \/ running' = Cancelled(play.cancel)
    BY <1>2 DEF MoveEpoch, ClearTransient
  <2>2. \A r \in running' : \E s \in running : Heir(r, s)
    BY <2>1, HeirsOfOneself, CancelledHeirs DEF PageInv, OnePlace, TypeOK
  <2>3. /\ \A c \in calls' : c.epoch # session'
        /\ \A r \in running' : r.epoch # session'
    <3>1. \A n \in Nat : n <= session => n # session + 1
      BY Shapes
    <3>2. QED
      BY <2>1, <2>2, <3>1, Shapes DEF Books, EpochsPast, Heir
  <2>4. QED
    BY <2>3 DEF WorkTrue
<1>3. CASE LoadPage
  <2>1. page'.nr = page.nr + 1 /\ calls' = calls /\ running' = AfterReset
    BY <1>3 DEF LoadPage, NewPage
  <2>2. \A r \in running' : \E s \in running : Heir(r, s)
    BY <2>1, ResetHeirs DEF PageInv, OnePlace
  <2>3. /\ \A c \in calls' : c.id.page # page'.nr
        /\ \A r \in running' : r.id \in Own => r.id.page # page'.nr
    <3>1. \A n \in Nat : n <= page.nr => n # page.nr + 1
      BY Shapes
    <3>2. QED
      BY <2>1, <2>2, <3>1, Shapes DEF PageInv, Known, Asked, Heir
  <2>4. QED
    BY <2>3 DEF WorkTrue
<1>4. QED
  BY <1>1, <1>2, <1>3

LEMMA WorkPage ==
  ASSUME TypeOK, PageInv, WorkTrue, Listener \/ observeGeneration \/ \E t \in tasks : Continue(t)
  PROVE  WorkTrue'
<1>0. UNCHANGED <<session, play, running>>
  BY PageLeavesFence
<1>1. CASE start \/ pause \/ clear
  <2>1. page'.nr = page.nr /\ calls' = calls \cup CancelOwn
    <3>1. page'.nr = page.nr
      BY <1>1, TurnedStart, TurnedPause DEF Turned
    <3>2. QED
      BY <1>1, <3>1 DEF start, pause, clear, Send
  <2>2. \A k \in CancelOwn : ~Asks(k)
    BY DEF CancelOwn, Asks
  <2>3. \A id \in Own : CancelSent(id) \/ Awaits(id) => CancelSent(id)'
    <3>1. page.id # None => \E k \in CancelOwn : k.id = page.id
      BY DEF CancelOwn
    <3>2. QED
      BY <2>1, <2>2, <3>1, NoneIsNoRequest DEF CancelSent, Awaits
  <2>4. QED
    BY <1>0, <2>1, <2>2, <2>3, Shapes DEF WorkTrue
<1>2. ASSUME page'.nr = page.nr, UNCHANGED calls,
             \/ \A id : Awaits(id) => Awaits(id)'
             \/ /\ \A c \in calls : Asks(c) => ~Awaits(c.id)
                /\ \A r \in running : r.id \in Own => ~Awaits(r.id)
      PROVE  WorkTrue'
  BY <1>0, <1>2 DEF WorkTrue, CancelSent
<1>3. CASE resume \/ mediaEvent
  <2>1. /\ page'.nr = page.nr /\ UNCHANGED calls
        /\ page.resolved
    BY <1>3 DEF resume, mediaEvent, TypeOK, Player
  <2>2. QED
    BY <1>2, <2>1 DEF Awaits
<1>4. CASE observeGeneration
  BY <1>2, <1>4 DEF observeGeneration, TypeOK, Player, Awaits
<1>5. ASSUME NEW t \in tasks, Drop(t) \/ prepareProgress(t) PROVE WorkTrue'
  BY <1>2, <1>5 DEF Drop, prepareProgress, Awaits
<1>6. ASSUME NEW t \in tasks, playAudio(t) \/ fail(t) PROVE WorkTrue'
  <2>1. page'.nr = page.nr /\ UNCHANGED calls /\ Live(t)
    BY <1>6 DEF playAudio, fail, TypeOK, Player
  <2>2. t.id = page.id /\ (Follows(t) <=> ~page.resolved)
    BY <2>1 DEF PageInv, LiveTrue
  <2>3. /\ \A c \in calls : Asks(c) => ~Awaits(c.id)
        /\ \A r \in running : r.id \in Own => ~Awaits(r.id)
    BY <2>2 DEF Awaits, PageInv, OnePlace
  <2>4. QED
    BY <1>2, <2>1, <2>3
<1>7. ASSUME NEW t \in tasks, ask(t) PROVE WorkTrue'
  <2> DEFINE new == [kind |-> "resolve", epoch |-> t.epoch, generation |-> t.seq, id |-> t.id,
                     stopped |-> FALSE]
  <2>1. page' = page /\ calls' = calls \cup {new} /\ Follows(t) /\ Live(t)
    BY <1>7 DEF ask, Send, Follows
  <2>2. new.id = t.id
    OBVIOUS
  <2> HIDE DEF new
  <2>3. Awaits(t.id)
    BY <2>1 DEF PageInv, LiveTrue, Awaits
  <2>4. \A id : (CancelSent(id) => CancelSent(id)') /\ (Awaits(id) => Awaits(id)')
    BY <2>1 DEF CancelSent, Awaits
  <2>5. QED
    BY <1>0, <2>1, <2>2, <2>3, <2>4 DEF WorkTrue
<1>8. QED
  BY <1>1, <1>3, <1>4, <1>5, <1>6, <1>7 DEF Listener, Continue

LEMMA WorkNext ==
  TypeOK /\ Books /\ FenceInv /\ PageInv /\ WorkTrue /\ [Next]_vars => WorkTrue'
<1> SUFFICES ASSUME TypeOK, Books, FenceInv, PageInv, WorkTrue, [Next]_vars PROVE WorkTrue'
  OBVIOUS
<1>1. CASE UNCHANGED vars
  BY <1>1 DEF vars, WorkTrue, CancelSent, Awaits
<1>2. StoppedStaysStopped'
  BY FenceNext DEF FenceInv
<1>3. QED
  BY <1>1, <1>2, GivenCalls, WorkHandle, WorkSession, WorkPage DEF Next

(* No work is left behind: a resolve of this page that is alive at the     *)
(* platform is the one its player waits for, or its cancel is on the way.  *)
THEOREM PlaybackWorkIsWanted == Spec => []WorkIsWanted
<1>1. Init => WorkTrue
  BY DEF Init, WorkTrue
<1>2. TypeOK /\ WorkTrue => WorkIsWanted
  <2>1. \A r \in running : r.id \in Own => Origin(r.id) = r.id.page
    BY DEF Origin
  <2>2. QED
    BY <2>1, Shapes DEF WorkTrue, WorkIsWanted, CancelSent, Awaits, Asks
<1>3. QED
  BY <1>1, <1>2, WorkNext, Paged, PTL DEF Spec

----------------------------------------------------------------------------
(* The newest selection is served.                                         *)

(* Only a call of this page, or of another caller, can be ahead of the     *)
(* page's newest request, and a call of this page is not.                  *)
Ours == play.by = page.nr

Served ==
  /\ play.by <= page.nr
  /\ play.by # 0 => play.ordered
  /\ Ours => play.generation <= page.serial
  /\ \A r \in running :
       r.epoch = session => play.epoch = session /\ r.generation <= play.generation
  /\ \A t \in tasks : t.step = "flushed" /\ t.seq = page.serial /\ Ours =>
       play.generation < page.serial
  /\ \A c \in calls : Asks(c) /\ c.id.page = page.nr /\ c.id.seq = page.serial /\ Ours =>
       play.generation < page.serial
  /\ \A r \in running :
       r.id \in Own /\ r.id.page = page.nr /\ r.id.seq = page.serial /\ r.epoch = session
         /\ Ours => ~r.cancelled

LEMMA ResetFence ==
  ASSUME TypeOK
  PROVE  resetPlaybackEpochLocked = play \/
           (resetPlaybackEpochLocked.by = 0 /\ play.epoch # session)
BY Constants DEF resetPlaybackEpochLocked, NoPlay, TypeOK

LEMMA ServedKept ==
  ASSUME TypeOK, Served, page' = page, session' = session,
         play' = play \/ play' = resetPlaybackEpochLocked,
         \A r \in running' : \E s \in running :
           Heir(r, s) /\ (play' = play /\ r.cancelled => s.cancelled),
         \A k \in calls' : Asks(k) => \E l \in calls : CallHeir(k, l),
         \A t \in tasks' : t \in tasks \/ t.step # "flushed"
  PROVE  Served'
<1>1. CASE play' = play
  <2>1. Ours' <=> Ours
    BY <1>1 DEF Ours
  <2>2. \A r \in running' :
          r.epoch = session => play.epoch = session /\ r.generation <= play.generation
    BY DEF Served, Heir
  <2>3. \A c \in calls' : Asks(c) /\ c.id.page = page.nr /\ c.id.seq = page.serial /\ Ours =>
          play.generation < page.serial
    BY DEF Served, CallHeir, Asks
  <2>4. \A r \in running' :
          r.id \in Own /\ r.id.page = page.nr /\ r.id.seq = page.serial /\ r.epoch = session
            /\ Ours => ~r.cancelled
    BY <1>1 DEF Served, Heir
  <2>5. QED
    BY <1>1, <2>1, <2>2, <2>3, <2>4 DEF Served
<1>2. CASE play' # play
  <2>1. play'.by = 0 /\ play.epoch # session
    BY <1>2, ResetFence
  <2>2. ~Ours' /\ play'.by <= page'.nr
    BY <2>1, Shapes DEF Ours
  <2>3. \A r \in running' : r.epoch # session'
    BY <2>1 DEF Served, Heir
  <2>4. QED
    BY <2>1, <2>2, <2>3 DEF Served
<1>3. QED
  BY <1>1, <1>2

(* Two requests of one page with one serial number are one.                *)
LEMMA SameRequest ==
  ASSUME NEW i \in Own, NEW j \in Own, i.page = j.page, i.seq = j.seq
  PROVE  i = j
BY DEF Own

LEMMA ServedBegin ==
  ASSUME TypeOK, Books, PageInv, Served, NEW c \in AnyCall, Given(c), BeginResolve(c)
  PROVE  Served'
<1> DEFINE p == resetPlaybackEpochLocked
           g == IF c.generation = 0 THEN p.generation + 1 ELSE c.generation
           new == [id |-> c.id, epoch |-> c.epoch, generation |-> g, cancelled |-> FALSE,
                   stopped |-> c.stopped]
<1>1. /\ page' = page /\ session' = session /\ calls' = calls \ {c} /\ Asks(c) /\ tasks' = tasks
      /\ c.epoch = session /\ running' = Cancelled(play.cancel) \cup {new}
  BY DEF BeginResolve, Asks
<1>2. /\ p \in Fence /\ p.epoch = session /\ p.generation \in Nat
      /\ play.epoch = session => p = play
      /\ c.generation \in Nat
  BY ResetOK, Constants DEF Fence, resetPlaybackEpochLocked, AnyCall
<1>3. g > p.generation /\ g \in Nat
  BY <1>2 DEF BeginResolve, Accepts
<1>4. /\ play'.epoch = session /\ play'.generation = g /\ play'.by = Origin(c.id)
      /\ play'.ordered = (c.generation # 0)
  BY <1>2 DEF BeginResolve, Fence
<1>5. /\ new.id = c.id /\ new.generation = g /\ new.cancelled = FALSE
  OBVIOUS
<1> HIDE DEF p, g, new
<1>6. \A r \in Cancelled(play.cancel) : \E s \in running : Heir(r, s)
  BY CancelledHeirs DEF PageInv, OnePlace, TypeOK
<1>7. \A r \in running' :
        r.epoch = session => play'.epoch = session /\ r.generation <= play'.generation
  <2>1. ASSUME NEW s \in running, s.epoch = session PROVE s.generation <= g
    <3>1. s.generation \in Nat /\ s.generation <= p.generation
      BY <1>2, <2>1, Shapes DEF Served
    <3>2. QED
      BY <1>2, <1>3, <3>1
  <2>2. g <= g
    BY <1>3
  <2>3. QED
    BY <1>1, <1>4, <1>5, <1>6, <2>1, <2>2 DEF Heir
<1>8. CASE c \notin calls
  <2>1. play'.by = 0
    BY <1>4, <1>8, LegacyReply DEF Origin
  <2>2. ~Ours' /\ play'.by <= page'.nr
    BY <1>1, <2>1, Shapes DEF Ours
  <2>3. QED
    BY <1>1, <1>7, <2>1, <2>2 DEF Served
<1>9. CASE c \in calls
  <2>1. /\ c.id \in Own /\ Asked(c.id) /\ c.generation = c.id.seq /\ c.generation # 0
        /\ play'.by = c.id.page
    BY <1>4, <1>9, Shapes DEF PageInv, Known, Books, GenerationsAgree, TypeOK, Call, Origin
  <2>2. g = c.id.seq
    BY <2>1 DEF g
  <2>3. play'.by <= page.nr /\ play'.ordered
    BY <1>4, <2>1 DEF Asked
  <2>4. Ours' => c.id.page = page.nr /\ g <= page.serial
    BY <1>1, <2>1, <2>2 DEF Ours, Asked
  <2>5. ASSUME Ours', NEW i \in Own, i # c.id, i.page = page.nr, i.seq = page.serial
        PROVE  g < page.serial
    <3>1. g # page.serial
      BY <2>1, <2>2, <2>4, <2>5, SameRequest
    <3>2. QED
      BY <1>3, <2>4, <2>5, <3>1, Shapes
  <2>6. \A t \in tasks : t.step = "flushed" /\ t.seq = page.serial /\ Ours' => g < page.serial
    <3>1. ASSUME NEW t \in tasks, t.step = "flushed"
          PROVE  t.id \in Own /\ t.id # c.id /\ t.id.page = page.nr /\ t.seq = t.id.seq
      BY <1>1, <1>9, <3>1, Shapes DEF PageInv, Known, OnePlace, Follows
    <3>2. QED
      BY <2>5, <3>1
  <2>7. \A d \in calls' :
          Asks(d) /\ d.id.page = page.nr /\ d.id.seq = page.serial /\ Ours' => g < page.serial
    <3>1. \A d \in calls' : Asks(d) => d.id \in Own /\ d.id # c.id
      BY <1>1, <1>9, Shapes DEF PageInv, OnePlace, OneCall
    <3>2. QED
      BY <2>5, <3>1
  <2>8. ASSUME NEW r \in running', r.id \in Own, r.id.page = page.nr, r.id.seq = page.serial,
               r.epoch = session, Ours'
        PROVE  ~r.cancelled
    <3>1. CASE r = new
      BY <1>5, <3>1
    <3>2. ASSUME NEW s \in running, Heir(r, s) PROVE FALSE
      <4>1. s.epoch = session /\ s.generation = page.serial
        BY <2>8, <3>2 DEF Heir, PageInv, Known
      <4>2. page.serial <= p.generation
        BY <1>2, <4>1 DEF Served
      <4>3. QED
        BY <1>2, <1>3, <2>4, <2>8, <4>2, Shapes
    <3>3. QED
      BY <1>1, <1>6, <2>8, <3>1, <3>2
  <2>9. QED
    BY <1>1, <1>4, <1>7, <2>3, <2>4, <2>6, <2>7, <2>8 DEF Served
<1>10. QED
  BY <1>8, <1>9

LEMMA ServedCancel ==
  ASSUME TypeOK, Books, PageInv, Served, NEW c \in AnyCall, Given(c), CancelResolve(c)
  PROVE  Served'
<1> DEFINE p == resetPlaybackEpochLocked
           refused == (c.generation = 0 /\ p.ordered) \/ ~Names(p, c)
<1>1. /\ page' = page /\ session' = session /\ tasks' = tasks
  BY DEF CancelResolve
<1>2. /\ p \in Fence /\ p.epoch = session /\ p.generation \in Nat
      /\ play.epoch = session => p = play
      /\ c.generation \in Nat
      /\ p = play \/ p.by = 0
  BY ResetOK, ResetFence, Constants DEF Fence, resetPlaybackEpochLocked, AnyCall
<1>3. /\ \A k \in calls' : Asks(k) => \E l \in calls : CallHeir(k, l)
      /\ \A r \in running' : \E s \in running : Heir(r, s)
  BY MoveCancel, HeirsOfCancel DEF ServiceMove
<1>4. CASE refused
  <2>1. play' = p /\ running' = Stopped(AfterReset, c.id)
    BY <1>4 DEF CancelResolve
  <2>2. ASSUME play' = play, NEW r \in running'
        PROVE  \E s \in running : Heir(r, s) /\ (r.cancelled => s.cancelled)
    <3>1. play.epoch = session
      BY <1>2, <2>1, <2>2
    <3>2. running' = Stopped(running, c.id)
      BY <2>1, <3>1 DEF AfterReset
    <3>3. \E s \in running : /\ r.id = s.id /\ r.epoch = s.epoch /\ r.generation = s.generation
                             /\ r.cancelled = s.cancelled
      BY <2>2, <3>2, StoppedOK DEF TypeOK
    <3>4. QED
      BY <3>3 DEF Heir
  <2>3. QED
    BY <1>1, <1>3, <2>1, <2>2, ServedKept
<1>5. CASE ~refused /\ c \notin calls
  <2>1. c.generation = 0
    BY <1>5 DEF Given
  <2>2. p.by = 0
    <3>1. ~p.ordered
      BY <1>5, <2>1
    <3>2. p = play => p.by = 0
      BY <3>1 DEF Served
    <3>3. QED
      BY <1>2, <3>2
  <2>3. play' = [p EXCEPT !.id = None, !.cancel = None]
    BY <1>5, <2>1 DEF CancelResolve, AfterCancel
  <2>4. play'.by = 0 /\ play'.epoch = session /\ play'.generation = p.generation
    BY <1>2, <2>2, <2>3 DEF Fence
  <2>5. ~Ours' /\ play'.by <= page'.nr
    BY <1>1, <2>4, Shapes DEF Ours
  <2>6. \A r \in running' :
          r.epoch = session => play'.epoch = session /\ r.generation <= play'.generation
    BY <1>2, <1>3, <2>4 DEF Served, Heir
  <2>7. QED
    BY <1>1, <2>4, <2>5, <2>6 DEF Served
<1>6. CASE ~refused /\ c \in calls
  <2>1. /\ c.id \in Own /\ Asked(c.id) /\ c.generation = c.id.seq /\ c.generation # 0
        /\ c.id.page = page.nr => c.id.seq < page.serial
    BY <1>6, Shapes DEF PageInv, Known, Books, GenerationsAgree, TypeOK, Call, CancelResolve, Asks
  <2>2. play' = [p EXCEPT !.generation = c.generation, !.ordered = TRUE, !.id = None,
                          !.cancel = None, !.by = Origin(c.id)]
    BY <1>6, <2>1 DEF CancelResolve, AfterCancel
  <2>3. /\ play'.by = c.id.page /\ play'.epoch = session /\ play'.generation = c.id.seq
        /\ play'.ordered
    BY <1>2, <2>1, <2>2 DEF Fence, Origin
  <2>4. p.generation <= c.id.seq /\ c.id.seq \in Nat
    BY <1>2, <1>6, <2>1, Shapes DEF Names
  <2>5. play'.by <= page.nr /\ (Ours' => c.id.seq < page.serial)
    BY <1>1, <2>1, <2>3 DEF Ours, Asked
  <2>6. ASSUME NEW r \in running', r.epoch = session
        PROVE  r.generation <= c.id.seq
    <3>1. PICK s \in running : Heir(r, s)
      BY <1>3
    <3>2. s.generation \in Nat /\ s.generation <= p.generation /\ r.generation = s.generation
      BY <1>2, <2>6, <3>1, Shapes DEF Served, Heir
    <3>3. QED
      BY <1>2, <2>4, <3>2
  <2>7. \A r \in running' :
          r.id \in Own /\ r.id.page = page.nr /\ r.id.seq = page.serial /\ r.epoch = session
            => ~Ours'
    <3>1. \A r \in running' : r.id \in Own => r.generation = r.id.seq
      BY <1>3 DEF PageInv, Known, Heir
    <3>2. QED
      BY <2>4, <2>5, <2>6, <3>1, Shapes
  <2>8. Ours' => c.id.seq <= page.serial
    BY <2>4, <2>5, Shapes
  <2>9. QED
    BY <1>1, <2>3, <2>5, <2>6, <2>7, <2>8 DEF Served
<1>7. QED
  BY <1>4, <1>5, <1>6

LEMMA ServedReset ==
  ASSUME TypeOK, PageInv, running' = AfterReset, play' = resetPlaybackEpochLocked
  PROVE  \A r \in running' : \E s \in running :
           Heir(r, s) /\ (play' = play /\ r.cancelled => s.cancelled)
<1>1. \A r \in running' : \E s \in running : Heir(r, s)
  BY ResetHeirs DEF PageInv, OnePlace
<1>2. play' = play => running' = running
  BY ResetOK DEF AfterReset
<1>3. QED
  BY <1>1, <1>2, HeirsOfOneself

LEMMA ServedHandle ==
  ASSUME TypeOK, Books, PageInv, Served, NEW c \in AnyCall, Given(c), Handle(c)
  PROVE  Served'
<1>1. CASE StaleCall(c)
  <2>1. /\ page' = page /\ session' = session /\ play' = play /\ running' = running
        /\ calls' = calls \ {c}
        /\ \A t \in tasks' : t \in tasks \/ t.step # "flushed"
    BY <1>1 DEF StaleCall, Reply
  <2>2. QED
    BY <2>1, HeirsOfOneself, ServedKept
<1>2. CASE RefuseResolve(c)
  <2>1. /\ page' = page /\ session' = session /\ play' = resetPlaybackEpochLocked
        /\ running' = AfterReset /\ calls' = calls \ {c}
        /\ \A t \in tasks' : t \in tasks \/ t.step # "flushed"
    BY <1>2 DEF RefuseResolve, Reply
  <2>2. QED
    BY <2>1, HeirsOfOneself, ServedReset, ServedKept
<1>3. QED
  BY <1>1, <1>2, ServedBegin, ServedCancel DEF Handle

LEMMA ServedPlatform ==
  ASSUME TypeOK, Served, NEW r \in running, Platform(r)
  PROVE  Served'
<1>1. /\ page' = page /\ session' = session /\ play' = play /\ running' \subseteq running
      /\ calls' = calls
      /\ \A t \in tasks' : t \in tasks \/ t.step # "flushed"
  BY DEF Platform, FinishResolve, FailResolve, Reply
<1>2. QED
  BY <1>1, HeirsOfOneself, ServedKept

LEMMA ServedSession ==
  ASSUME TypeOK, Books, PageInv, Served, Bootstrap \/ LoadPage \/ MoveEpoch \/ ClearTransient
  PROVE  Served'
<1>1. CASE Bootstrap
  BY <1>1, HeirsOfOneself, ServedReset, ServedKept DEF Bootstrap
<1>2. CASE LoadPage
  <2>1. /\ page'.nr = page.nr + 1 /\ session' = session /\ tasks' = {}
        /\ play' = resetPlaybackEpochLocked /\ running' = AfterReset
    BY <1>2 DEF LoadPage, NewPage
  <2>2. play' = play \/ play'.by = 0
    BY <2>1, ResetFence
  <2>3. ~Ours' /\ play'.by <= page'.nr /\ (play'.by # 0 => play'.ordered)
    BY <2>1, <2>2, Shapes DEF Served, Ours
  <2>4. \A r \in running' : \E s \in running : Heir(r, s)
    BY <2>1, ResetHeirs DEF PageInv, OnePlace
  <2>5. \A r \in running' :
          r.epoch = session => play'.epoch = session /\ r.generation <= play'.generation
    <3>1. play.epoch = session => play' = play
      BY <2>1 DEF resetPlaybackEpochLocked
    <3>2. QED
      BY <2>4, <3>1 DEF Served, Heir
  <2>6. QED
    BY <2>1, <2>3, <2>5 DEF Served
<1>3. CASE MoveEpoch \/ ClearTransient
  <2>1. /\ session' = session + 1 /\ UNCHANGED <<calls, page, tasks>>
        /\ play' = play \/ play' = NoPlay
        /\ running' = running \/ running' = Cancelled(play.cancel)
    BY <1>3 DEF MoveEpoch, ClearTransient
  <2>2. \A r \in running' : \E s \in running : Heir(r, s)
    BY <2>1, HeirsOfOneself, CancelledHeirs DEF PageInv, OnePlace, TypeOK
  <2>3. \A r \in running' : r.epoch # session'
    <3>1. \A n \in Nat : n <= session => n # session + 1
      BY Shapes
    <3>2. QED
      BY <2>1, <2>2, <3>1, Shapes DEF Books, EpochsPast, Heir
  <2>4. CASE play' = play
    BY <2>1, <2>3, <2>4 DEF Served, Ours
  <2>5. CASE play' = NoPlay
    <3>1. play'.by = 0
      BY <2>5 DEF NoPlay
    <3>2. ~Ours' /\ play'.by <= page'.nr
      BY <2>1, <3>1, Shapes DEF Ours
    <3>3. QED
      BY <2>3, <3>1, <3>2 DEF Served
  <2>6. QED
    BY <2>1, <2>4, <2>5
<1>4. QED
  BY <1>1, <1>2, <1>3

LEMMA ServedPage ==
  ASSUME TypeOK, PageInv, Served,
         Listener \/ observeGeneration \/ \E t \in tasks : Continue(t)
  PROVE  Served'
<1>0. UNCHANGED <<session, play, running>>
  BY PageLeavesFence
<1>1. ASSUME Turned PROVE Served'
  <2>1. /\ page'.nr = page.nr /\ page'.serial = page.serial + 1
        /\ page.serial \in Nat /\ play.generation \in Nat
    BY <1>1, Shapes DEF Turned
  <2>2. /\ \A n \in Nat : n <= page.serial => n # page.serial + 1 /\ n < page.serial + 1
        /\ \A n \in Nat : n <= page.serial => n <= page.serial + 1
    BY <2>1
  <2>3. Ours' => play.generation < page.serial + 1 /\ play.generation <= page.serial + 1
    BY <1>0, <2>1, <2>2 DEF Served, Ours
  <2>4. \A c \in calls' : Asks(c) => c \in calls
    BY <1>1 DEF Turned, CancelOwn, Asks
  <2>5. \A r \in running : r.id \in Own /\ r.id.page = page.nr => r.id.seq # page.serial + 1
    BY <2>2, Shapes DEF PageInv, Known, Asked
  <2>6. QED
    BY <1>0, <2>1, <2>3, <2>5 DEF Served
<1>2. ASSUME page'.nr = page.nr, page'.serial = page.serial,
             \A c \in calls' : Asks(c) => c \in calls,
             \A t \in tasks' : t.step = "flushed" => t \in tasks
      PROVE  Served'
  BY <1>0, <1>2 DEF Served, Ours
<1>3. CASE mediaEvent
  BY <1>2, <1>3 DEF mediaEvent, TypeOK, Player
<1>4. ASSUME NEW t \in tasks, Drop(t) \/ prepareProgress(t) \/ playAudio(t) \/ fail(t)
      PROVE  Served'
  <2>1. page'.nr = page.nr /\ page'.serial = page.serial /\ calls' = calls
    BY <1>4 DEF Drop, prepareProgress, playAudio, fail, TypeOK, Player
  <2>2. \A u \in tasks' : u.step = "flushed" => u \in tasks
    BY <1>4 DEF Drop, prepareProgress, playAudio, fail, TypeOK, Task
  <2>3. QED
    BY <1>2, <2>1, <2>2
<1>5. ASSUME NEW t \in tasks, ask(t) PROVE Served'
  <2> DEFINE new == [kind |-> "resolve", epoch |-> t.epoch, generation |-> t.seq, id |-> t.id,
                     stopped |-> FALSE]
  <2>1. /\ page' = page /\ calls' = calls \cup {new} /\ tasks' = tasks \ {t}
        /\ t.step = "flushed" /\ Live(t)
    BY <1>5 DEF ask, Send
  <2>2. new.id = t.id
    OBVIOUS
  <2> HIDE DEF new
  <2>3. Ours => play.generation < page.serial
    BY <2>1 DEF Served, Live
  <2>4. QED
    BY <1>0, <2>1, <2>3 DEF Served, Ours
<1>6. CASE observeGeneration
  <2>1. /\ page'.nr = page.nr /\ page.serial <= page'.serial /\ UNCHANGED <<calls, tasks>>
        /\ page'.serial \in Nat
    <3>1. boot.generation \in Nat
      <4>1. boot \in Bootstrapped
        BY <1>6 DEF observeGeneration, TypeOK, Maybe
      <4>2. QED
        BY <4>1, Constants DEF Bootstrapped
    <3>2. QED
      BY <1>6, <3>1, Shapes DEF observeGeneration
  <2>2. \A n \in Nat : /\ n <= page.serial => n <= page'.serial
                       /\ n <= page.serial /\ n = page'.serial => n = page.serial
                       /\ n < page.serial => n < page'.serial
    BY <2>1, Shapes
  <2>3. /\ \A t \in tasks : t.seq = page'.serial => t.seq = page.serial
        /\ \A c \in calls : c.id.page = page.nr /\ c.id.seq = page'.serial =>
             c.id.seq = page.serial
        /\ \A r \in running : r.id \in Own /\ r.id.page = page.nr /\ r.id.seq = page'.serial =>
             r.id.seq = page.serial
    BY <2>2, Shapes DEF PageInv, Known, Asked
  <2>4. QED
    BY <1>0, <2>1, <2>2, <2>3, Shapes DEF Served, Ours
<1>7. QED
  BY <1>1, <1>3, <1>4, <1>5, <1>6, TurnedListener DEF Listener, Continue

LEMMA ServedNext ==
  TypeOK /\ Books /\ PageInv /\ Served /\ [Next]_vars => Served'
<1> SUFFICES ASSUME TypeOK, Books, PageInv, Served, [Next]_vars PROVE Served'
  OBVIOUS
<1>1. CASE UNCHANGED vars
  BY <1>1 DEF vars, Served, Ours
<1>2. QED
  BY <1>1, GivenCalls, ServedHandle, ServedPlatform, ServedSession, ServedPage DEF Next

(* An answer "cancelled" to the page's newest request.                     *)
Refused(t) == t.step = "cancelled" /\ Live(t) /\ t.epoch = session

LEMMA RefusedByOthers ==
  ASSUME TypeOK, Books, FenceInv, PageInv, Served, NEW c \in AnyCall, Given(c),
         RefuseResolve(c), NEW t \in tasks', t \notin tasks, Refused(t)
  PROVE  ~Ours'
<1>1. c \in calls
  BY LegacyReply DEF RefuseResolve
<1>2. /\ t = [id |-> c.id, seq |-> c.id.seq, epoch |-> c.epoch, step |-> "cancelled"]
      /\ c.id.page = page.nr
  BY <1>1, Shapes DEF RefuseResolve, Reply, Origin
<1>3. c.id.seq = page.serial /\ c.generation = page.serial /\ c.generation # 0 /\ Asks(c)
  BY <1>1, <1>2 DEF Refused, Live, Books, GenerationsAgree, TypeOK, Call, RefuseResolve, Asks
<1>4. ~(c.generation > resetPlaybackEpochLocked.generation)
  BY <1>3 DEF RefuseResolve, Accepts
<1>5. CASE play' = play
  BY <1>1, <1>2, <1>3, <1>4, <1>5, Shapes DEF Served, Ours, RefuseResolve
<1>6. CASE play' # play
  BY <1>6, ResetFence, Shapes DEF RefuseResolve, Ours
<1>7. QED
  BY <1>5, <1>6

LEMMA RefusedNever ==
  ASSUME TypeOK, Books, FenceInv, PageInv, Served, NEW r \in running, Platform(r),
         NEW t \in tasks', t \notin tasks, Refused(t)
  PROVE  ~Ours'
<1> SUFFICES ASSUME Ours PROVE FALSE
  BY DEF Ours, Platform, FinishResolve, FailResolve
<1>1. PICK step \in {"resolved", "cancelled", "failed"} : tasks' = Reply(r.id, r.epoch, step)
  BY DEF Platform, FinishResolve, FailResolve
<1>2. /\ r.id \in Own /\ r.id.page = page.nr
      /\ t = [id |-> r.id, seq |-> r.id.seq, epoch |-> r.epoch, step |-> step]
  BY <1>1, Shapes DEF Reply, Origin
<1>3. r.id.seq = page.serial /\ r.epoch = session /\ step = "cancelled"
  BY <1>2 DEF Refused, Live
<1>4. ~r.cancelled
  BY <1>2, <1>3 DEF Served
<1>5. play.id = r.id /\ play.generation = r.generation
  BY <1>4 DEF FenceInv, AliveIsCurrent, Alive
<1>6. tasks' = Reply(r.id, r.epoch, "resolved") \/ tasks' = Reply(r.id, r.epoch, "failed")
  BY <1>3, <1>4, <1>5 DEF Platform, FinishResolve, FailResolve
<1>7. t.step \in {"resolved", "failed"}
  BY <1>6 DEF Reply
<1>8. QED
  BY <1>7 DEF Refused

LEMMA RefusedOnlyThere ==
  ASSUME TypeOK, Next, NEW t \in tasks', t \notin tasks, Refused(t)
  PROVE  \/ \E c \in AnyCall : Given(c) /\ RefuseResolve(c)
         \/ \E r \in running : Platform(r)
<1>1. ASSUME NEW c \in AnyCall, Given(c), Handle(c) PROVE RefuseResolve(c)
  BY <1>1 DEF Handle, StaleCall, BeginResolve, CancelResolve, Reply, Refused
<1>2. ASSUME NEW u \in tasks, Continue(u) PROVE FALSE
  BY <1>2 DEF Continue, Drop, ask, prepareProgress, playAudio, fail, Refused, TypeOK, Task
<1>3. ASSUME Listener \/ Bootstrap \/ observeGeneration \/ LoadPage \/ MoveEpoch \/ ClearTransient
      PROVE  FALSE
  BY <1>3 DEF Listener, start, pause, resume, clear, mediaEvent, Bootstrap, observeGeneration,
              LoadPage, MoveEpoch, ClearTransient, Refused
<1>4. QED
  BY <1>1, <1>2, <1>3, GivenCalls DEF Next

(* The selection the page is waiting for is not refused on account of an   *)
(* older call of its own that arrives late.                                *)
THEOREM PlaybackNewestIsServed == Spec => NewestIsServed
<1>1. Init => Served
  BY DEF Init, Served, Ours, NewPage, NoPlay
<1>2. TypeOK /\ Books /\ FenceInv /\ PageInv /\ Served /\ [Next]_vars =>
        [\A t \in tasks' \ tasks :
           t.step = "cancelled" /\ Live(t) /\ t.epoch = session => play'.by # page.nr]_vars
  <2> SUFFICES ASSUME TypeOK, Books, FenceInv, PageInv, Served, Next,
                      NEW t \in tasks', t \notin tasks, Refused(t)
               PROVE  play'.by # page.nr
    BY DEF Refused
  <2>1. ~Ours'
    BY RefusedOnlyThere, RefusedByOthers, RefusedNever
  <2>2. page' = page
    BY RefusedOnlyThere DEF RefuseResolve, Platform, FinishResolve, FailResolve
  <2>3. QED
    BY <2>1, <2>2 DEF Ours
<1>3. QED
  BY <1>1, <1>2, ServedNext, Paged, PTL DEF Spec, NewestIsServed
=============================================================================
