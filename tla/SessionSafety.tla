--------------------------- MODULE SessionSafety ---------------------------
(***************************************************************************)
(* Machine-checked proofs about who acts for whom in Session: which         *)
(* credentials the Manager holds and its requests carry, which refreshes    *)
(* may run, which login may connect, what is filed under which account.     *)
(* OwnerInv is their common inductive invariant.                           *)
(***************************************************************************)
EXTENDS SessionProofs

----------------------------------------------------------------------------
(* Who holds which credentials.  A frame is about the epoch its method was *)
(* called in, and the pair it carries belongs to that epoch's account.     *)

Attempts == {"login", "restore", "qr", "poll"}
Connects == {"auth", "establish", "me", "create"}

(* Which method is where.                                                  *)
OpTrue(c) ==
  /\ c.pc \in {"auth", "establish"} => c.op \in Attempts
  /\ c.pc \in {"load", "begin", "me"} => c.op = "restore"
  /\ c.pc = "create" => c.op = "qr"
  /\ c.pc = "unbusy" => c.op = "poll"
  /\ c.pc = "fail" => c.op \in Attempts \cup {"expired"}
  /\ c.pc \in {"send", "reject"} => c.op \in {"read", "write"}
  /\ c.pc \in {"refresh", "wait", "resnap", "resend"} => c.op = "read"
  /\ c.pc = "commit" => c.op \in {"read", "write", "guest"}

OwnTrue(c, own, hld) ==
  /\ c.pc \in {"begin", "me"} => own[c.token] # None
  /\ c.pc = "establish" => own[c.token] = c.id /\ c.id # None
  /\ c.pc \in {"send", "refresh", "wait", "resend"} =>
       own[c.token] = hld[c.epoch] /\ hld[c.epoch] # None
  /\ c.pc = "commit" /\ c.op # "guest" => c.id = hld[c.epoch] /\ c.id # None

FramesTrue ==
  \A p \in Proc : /\ OpTrue(call[p])
                  /\ OwnTrue(call[p], owner, held)
                  /\ call[p].epoch <= m.epoch

(* The Manager's pair belongs to its account, the account of this epoch.   *)
ManagerTrue ==
  /\ held[m.epoch] = m.identity
  /\ \A e \in Epoch : m.epoch < e => held[e] = None
  /\ IF m.token = None THEN m.identity = None
                       ELSE owner[m.token] = m.identity /\ m.identity # None
  /\ vault.token # None => owner[vault.token] # None

(* An attempt to connect that is under way in this epoch.                  *)
Attempt(c, e) == c.epoch = e /\ c.op \in Attempts /\ c.pc \notin {"load", "begin"}
Connecting(c, e) == c.epoch = e /\ c.pc \in Connects

(* It is the only one, and it finds no account.                            *)
AttemptsAlone ==
  /\ m.state = "connecting" => m.identity = None
  /\ \A p, q \in Proc : Attempt(call[p], m.epoch) /\ Attempt(call[q], m.epoch) => p = q
  /\ \A p \in Proc : Attempt(call[p], m.epoch) =>
       IF call[p].op = "poll" THEN m.qrBusy ELSE m.qrID = 0
  /\ \A p \in Proc : Connecting(call[p], m.epoch) => m.identity = None

(* A running refresh is of the pair that the Manager holds, if its epoch   *)
(* is still the Manager's.                                                 *)
FlightTrue(f) ==
  /\ flights[f].epoch <= m.epoch
  /\ flights[f].token \in Token
  /\ owner[flights[f].token] = held[flights[f].epoch]
  /\ held[flights[f].epoch] # None
  /\ flights[f].next # None => owner[flights[f].next] = held[flights[f].epoch]
  /\ flights[f].epoch = m.epoch => m.flight = f /\ flights[f].token = m.token

(* Not even two of different pairs: SingleFlight is weaker.                *)
OneRefresh ==
  \A f, g \in Flight :
    Running(f) /\ Running(g) /\ flights[f].epoch = flights[g].epoch => f = g

FlightsTrue ==
  /\ \A f \in Flight : Running(f) => FlightTrue(f)
  /\ OneRefresh

OwnerInv == TypeInv /\ FramesTrue /\ ManagerTrue /\ AttemptsAlone /\ FlightsTrue

(* What every step preserves.                                              *)
Grows ==
  /\ \A t \in Token : owner[t] # None => owner'[t] = owner[t]
  /\ \A e \in Epoch : held[e] # None => held'[e] = held[e]
  /\ m.epoch <= m'.epoch

LEMMA Shapes ==
  ASSUME TypeInv
  PROVE  /\ m \in Manager /\ m.epoch \in Epoch /\ m.epoch \in Nat /\ Epoch \subseteq Nat
         /\ call \in [Proc -> Frame]
         /\ \A p \in Proc : call[p] \in Frame /\ call[p].epoch \in Epoch /\ FrameOK(call[p])
         /\ \A f \in Flight : flights[f] \in RefreshFlight /\ flights[f].epoch \in Epoch
  BY SessionAssumption
  DEF TypeInv, ManagerOK, Manager, CallOK, Frame, FlightsOK, RefreshFlight, Epoch

(* What a refresh leaves alone.                                            *)
LEMMA RefreshLeaves ==
  ASSUME TypeInv, NEW f \in Flight, PerformRefresh(f)
  PROVE  /\ UNCHANGED <<call, store, cancelled>>
         /\ m'.epoch = m.epoch /\ m'.identity = m.identity /\ m'.flight = m.flight
         /\ m'.qrBusy = m.qrBusy /\ m'.qrID = m.qrID /\ m'.qrOld = m.qrOld
         /\ m'.state = m.state \/ (InstallFailure(f) /\ m'.state = "needs_login")
<1>1. m \in Manager
  BY DEF TypeInv, ManagerOK
<1>2. CASE ProviderRefresh(f) \/ InstallStale(f)
  BY <1>2 DEF ProviderRefresh, InstallStale, history
<1>3. CASE InstallCredentials(f)
  BY <1>1, <1>3 DEF InstallCredentials, Manager, history
<1>4. CASE InstallFailure(f)
  BY <1>1, <1>4 DEF InstallFailure, Manager, history
<1>5. QED
  BY <1>2, <1>3, <1>4 DEF PerformRefresh

LEMMA OwnGrows ==
  ASSUME Grows, NEW c \in Frame, FrameOK(c), OwnTrue(c, owner, held)
  PROVE  OwnTrue(c, owner', held')
<1>1. c.epoch \in Epoch
  BY DEF Frame
<1>2. c.pc \in UsesCredentials => c.token \in Token
  BY DEF FrameOK
<1>3. QED
  BY <1>1, <1>2 DEF Grows, OwnTrue, UsesCredentials

LEMMA LoginFrame ==
  ASSUME TypeInv, NEW base \in 1..m.epoch, NEW keep \in BOOLEAN
  PROVE  [Idle EXCEPT !.op = "login", !.pc = "auth", !.base = base, !.keep = keep] \in Frame
<1>1. base \in Epoch
  BY Members, Shapes
<1>2. QED
  BY <1>1, IdleOK DEF Frame, Idle, Methods

(* Frames that stay, and one that moves.                                   *)
LEMMA SameFrames ==
  ASSUME TypeInv, FramesTrue, Grows, m'.epoch \in Nat, UNCHANGED call
  PROVE  FramesTrue'
<1>1. \A p \in Proc : OwnTrue(call[p], owner', held')
  BY Shapes, OwnGrows DEF FramesTrue
<1>2. \A p \in Proc : call[p].epoch <= m'.epoch
  BY Shapes DEF FramesTrue, Grows
<1>3. QED
  BY <1>1, <1>2 DEF FramesTrue

LEMMA PutFrame ==
  ASSUME TypeInv, FramesTrue, Grows, m'.epoch \in Nat,
         NEW p \in Proc, NEW f, Put(p, f),
         OpTrue(f), OwnTrue(f, owner', held'), f.epoch <= m'.epoch
  PROVE  FramesTrue'
<1>1. \A q \in Proc : OwnTrue(call[q], owner', held') /\ call[q].epoch <= m'.epoch
  <2>1. \A q \in Proc : OwnTrue(call[q], owner', held')
    BY Shapes, OwnGrows DEF FramesTrue
  <2>2. QED
    BY <2>1, Shapes DEF FramesTrue, Grows
<1>2. \A q \in Proc : call'[q] = IF q = p THEN f ELSE call[q]
  BY Shapes DEF Put
<1>3. ASSUME NEW q \in Proc
      PROVE  OpTrue(call'[q]) /\ OwnTrue(call'[q], owner', held') /\ call'[q].epoch <= m'.epoch
  BY <1>1, <1>2 DEF FramesTrue
<1>4. QED
  BY <1>3 DEF FramesTrue

LEMMA IdleTrue ==
  /\ OpTrue(Idle) /\ Idle.epoch = 0
  /\ \A own, hld : OwnTrue(Idle, own, hld)
  BY DEF Idle, OpTrue, OwnTrue

(* Changing only the place.                                                *)
LEMMA GotoTrue ==
  ASSUME TypeInv, FramesTrue, Grows, m'.epoch \in Nat,
         NEW p \in Proc, NEW pc, Goto(p, pc),
         OpTrue([call[p] EXCEPT !.pc = pc]),
         pc \in {"fail", "unbusy", "resnap", "reject"} \/
         OwnTrue([call[p] EXCEPT !.pc = pc], owner', held')
  PROVE  FramesTrue'
<1> DEFINE f == [call[p] EXCEPT !.pc = pc]
<1>1. f.epoch = call[p].epoch /\ f.pc = pc
  BY Shapes DEF Frame
<1>2. f.epoch <= m'.epoch
  BY <1>1, Shapes DEF FramesTrue, Grows
<1>3. OwnTrue(f, owner', held')
  <2>1. ASSUME pc \in {"fail", "unbusy", "resnap", "reject"} PROVE OwnTrue(f, owner', held')
    BY <1>1, <2>1 DEF OwnTrue
  <2>2. QED
    BY <2>1
<1>4. QED
  BY <1>2, <1>3, PutFrame DEF Goto

LEMMA ReturnTrue ==
  ASSUME TypeInv, FramesTrue, Grows, m'.epoch \in Nat, NEW p \in Proc, Return(p)
  PROVE  FramesTrue'
  BY IdleTrue, PutFrame DEF Return

LEMMA LeaveTrue ==
  ASSUME TypeInv, FramesTrue, Grows, m'.epoch \in Nat, NEW p \in Proc, Leave(p)
  PROVE  FramesTrue'
<1>1. CASE call[p].op = "poll"
  <2>1. OpTrue([call[p] EXCEPT !.pc = "unbusy"])
    BY <1>1, Shapes DEF Frame, OpTrue
  <2>2. QED
    BY <1>1, <2>1, GotoTrue DEF Leave
<1>2. CASE call[p].op # "poll"
  BY <1>2, ReturnTrue DEF Leave
<1>3. QED
  BY <1>1, <1>2

----------------------------------------------------------------------------
(* Every step lets these grow only.                                        *)

LEMMA EpochGrows ==
  ASSUME TypeInv, Next
  PROVE  m.epoch <= m'.epoch /\ m'.epoch \in Nat
<1>1. m'.epoch \in Nat /\ m.epoch \in Nat
  <2>1. TypeInv'
    BY TypeStep
  <2>2. m'.epoch \in Epoch
    BY <2>1 DEF TypeInv, ManagerOK, Manager
  <2>3. QED
    BY <2>2, Shapes
<1>2. m'.epoch = m.epoch \/ m'.epoch = m.epoch + 1
  <2>1. m \in Manager
    BY Shapes
  <2>2. CASE \E p \in Proc : Enter(p)
    <3>1. ASSUME NEW p \in Proc, LogoutAt(p) PROVE m'.epoch = m.epoch + 1
      BY <2>1, <3>1 DEF LogoutAt, AfterLogout, Manager
    <3>2. QED
      BY <2>2, <3>1, QuietEnter DEF Quiet
  <2>3. CASE \E p \in Proc : Resume(p)
    <3>1. ASSUME NEW p \in Proc, EstablishRefused(p) \/ Commit(p)
          PROVE  m'.epoch = m.epoch
      BY <2>1, <3>1 DEF EstablishRefused, Commit, Manager
    <3>2. ASSUME NEW p \in Proc, Establish(p) PROVE m'.epoch = m.epoch
      BY <2>1, <3>2 DEF Establish, Connect, Manager
    <3>3. QED
      BY <2>3, <3>1, <3>2, QuietResume DEF Quiet
  <2>4. CASE \E f \in Flight : PerformRefresh(f)
    BY <2>4, RefreshLeaves
  <2>5. CASE (\E p \in Proc : GiveUp(p)) \/ QRTimeout \/ Expire
    BY <2>1, <2>5 DEF GiveUp, QRTimeout, Expire, Manager
  <2>6. QED
    BY <2>2, <2>3, <2>4, <2>5 DEF Next
<1>3. QED
  BY <1>1, <1>2

LEMMA OwnersSame ==
  ASSUME Next
  PROVE  \/ UNCHANGED <<owner, held>>
         \/ \E p \in Proc : Authenticate(p) \/ RestoreMe(p) \/ Establish(p)
         \/ \E f \in Flight : ProviderRefresh(f)
<1> USE DEF provider, history
<1>1. ASSUME NEW p \in Proc, Enter(p) PROVE UNCHANGED <<owner, held>>
  BY <1>1
  DEF Enter, LoginAt, CancelLogin, RestoreView, StartQR, PollExpired, PollQR, CancelQR, DoAt,
      GuestRead, LogoutAt, Close
<1>2. ASSUME NEW p \in Proc, Resume(p)
      PROVE  UNCHANGED <<owner, held>> \/ Authenticate(p) \/ RestoreMe(p) \/ Establish(p)
  <2>1. CASE FinishFailure(p) \/ EstablishStale(p) \/ EstablishRefused(p) \/ RestoreLoad(p)
             \/ RestoreBegin(p) \/ CreateQR(p) \/ ClearBusy(p) \/ Send(p) \/ Commit(p)
    BY <2>1 DEF FinishFailure, EstablishStale, EstablishRefused, RestoreLoad, RestoreBegin,
               CreateQR, ClearBusy, Send, Commit
  <2>2. CASE RefreshRefused(p) \/ RefreshAlreadyRotated(p) \/ JoinRefresh(p) \/ StartRefresh(p)
             \/ AwaitRefresh(p) \/ ReadSnapshotAgain(p) \/ Reject(p) \/ CloseReturns(p)
    BY <2>2 DEF RefreshRefused, RefreshAlreadyRotated, JoinRefresh, StartRefresh, AwaitRefresh,
               ReadSnapshotAgain, Reject, CloseReturns
  <2>3. QED
    BY <1>2, <2>1, <2>2 DEF Resume
<1>3. ASSUME NEW f \in Flight, PerformRefresh(f)
      PROVE  UNCHANGED <<owner, held>> \/ ProviderRefresh(f)
  BY <1>3 DEF PerformRefresh, InstallStale, InstallCredentials, InstallFailure
<1>4. CASE (\E p \in Proc : GiveUp(p)) \/ QRTimeout \/ Expire
  BY <1>4 DEF GiveUp, QRTimeout, Expire
<1>5. QED
  BY <1>1, <1>2, <1>3, <1>4 DEF Next

(* A pair that is issued is a new one.                                     *)
LEMMA FreshGrows ==
  ASSUME TypeInv, NEW n \in Fresh, NEW a, owner' = [owner EXCEPT ![n] = a]
  PROVE  \A t \in Token : owner[t] # None => owner'[t] = owner[t]
  BY DEF Fresh, TypeInv, ProviderOK

(* An account is entered in an epoch that had none.                        *)
LEMMA GrowsStep ==
  ASSUME OwnerInv, Next
  PROVE  Grows
<1>1. m.epoch <= m'.epoch
  BY EpochGrows DEF OwnerInv
<1>2. CASE UNCHANGED <<owner, held>>
  BY <1>1, <1>2 DEF Grows
<1>3. CASE \E p \in Proc : Authenticate(p)
  <2>1. PICK p \in Proc : Authenticate(p)
    BY <1>3
  <2>2. CASE UNCHANGED owner
    BY <1>1, <2>1, <2>2 DEF Grows, Authenticate, history
  <2>3. CASE \E t \in Fresh, a \in Account : owner' = [owner EXCEPT ![t] = a]
    BY <1>1, <2>1, <2>3, FreshGrows DEF OwnerInv, Grows, Authenticate, history
  <2>4. QED
    BY <2>1, <2>2, <2>3 DEF Authenticate
<1>4. CASE \E p \in Proc : RestoreMe(p)
  <2>1. PICK p \in Proc : RestoreMe(p)
    BY <1>4
  <2>2. CASE UNCHANGED owner
    BY <1>1, <2>1, <2>2 DEF Grows, RestoreMe, history
  <2>3. CASE \E n \in Fresh : Rotate(call[p].token, n)
    BY <1>1, <2>1, <2>3, FreshGrows DEF OwnerInv, Grows, RestoreMe, Rotate, history
  <2>4. QED
    BY <2>1, <2>2, <2>3 DEF RestoreMe, provider
<1>5. CASE \E f \in Flight : ProviderRefresh(f)
  <2>1. PICK f \in Flight : ProviderRefresh(f)
    BY <1>5
  <2>2. CASE UNCHANGED owner
    BY <1>1, <2>1, <2>2 DEF Grows, ProviderRefresh, history
  <2>3. CASE \E n \in Fresh : Rotate(flights[f].token, n)
    BY <1>1, <2>1, <2>3, FreshGrows DEF OwnerInv, Grows, ProviderRefresh, Rotate, history
  <2>4. QED
    BY <2>1, <2>2, <2>3 DEF ProviderRefresh, provider
<1>6. CASE \E p \in Proc : Establish(p)
  <2>1. PICK p \in Proc : Establish(p)
    BY <1>6
  <2>2. Connecting(call[p], m.epoch)
    BY <2>1 DEF Establish, MayEstablish, Current, Connecting, Connects
  <2>3. held[m.epoch] = None
    BY <2>2 DEF OwnerInv, AttemptsAlone, ManagerTrue
  <2>4. QED
    BY <1>1, <2>1, <2>3 DEF Establish, Grows, provider, OwnerInv, TypeInv, HistoryOK
<1>7. QED
  BY <1>2, <1>3, <1>4, <1>5, <1>6, OwnersSame

----------------------------------------------------------------------------
(* Every frame stays true.                                                 *)

LEMMA BeginFrame ==
  ASSUME OwnerInv, Grows, m'.epoch \in Nat, NEW p \in Proc, NEW base, NEW sms \in BOOLEAN,
         NEW c \in Frame, BeginAttempt(p, base, sms, c),
         OpTrue(c), c.pc \in {"auth", "me", "create"},
         c.pc = "me" => owner[c.token] # None, UNCHANGED owner
  PROVE  FramesTrue'
<1> DEFINE f == [c EXCEPT !.epoch = m.epoch + 1]
<1>1. Put(p, f) /\ m'.epoch = m.epoch + 1
  BY QuietBegin DEF BeginAttempt, OwnerInv
<1>2. OpTrue(f) /\ f.epoch = m.epoch + 1
  BY DEF Frame, OpTrue
<1>3. OwnTrue(f, owner', held')
  BY DEF Frame, OwnTrue
<1>4. m.epoch + 1 <= m'.epoch
  BY <1>1, Shapes DEF OwnerInv
<1>5. QED
  BY <1>1, <1>2, <1>3, <1>4, PutFrame DEF OwnerInv

LEMMA EnterFrames ==
  ASSUME OwnerInv, Grows, m'.epoch \in Nat, NEW p \in Proc, Enter(p)
  PROVE  FramesTrue'
<1> USE DEF OwnerInv
<1>1. ASSUME NEW f, Put(p, f), OpTrue(f), OwnTrue(f, owner', held'), f.epoch \in {0, m.epoch}
      PROVE  FramesTrue'
  <2>1. f.epoch <= m'.epoch
    BY <1>1, Shapes DEF Grows
  <2>2. QED
    BY <1>1, <2>1, PutFrame
<1>2. CASE LoginAt(p)
  <2>1. PICK base \in 1..m.epoch, keep \in BOOLEAN :
          BeginAttempt(p, base, TRUE, [Idle EXCEPT !.op = "login", !.pc = "auth",
                                                   !.base = base, !.keep = keep])
    BY <1>2 DEF LoginAt
  <2> DEFINE c == [Idle EXCEPT !.op = "login", !.pc = "auth", !.base = base, !.keep = keep]
  <2>2. c.op = "login" /\ c.pc = "auth"
    BY DEF Idle
  <2>3. c \in Frame
    BY LoginFrame
  <2> HIDE DEF c
  <2>4. OpTrue(c)
    BY <2>2 DEF OpTrue, Attempts
  <2>5. UNCHANGED owner
    BY <1>2 DEF LoginAt, provider
  <2>6. BeginAttempt(p, base, TRUE, c)
    BY <2>1 DEF c
  <2>7. QED
    BY <2>2, <2>3, <2>4, <2>5, <2>6, BeginFrame
<1>3. CASE StartQR(p)
  <2> DEFINE c == [Idle EXCEPT !.op = "qr", !.pc = "create"]
  <2>1. c \in Frame /\ OpTrue(c) /\ c.pc = "create"
    BY IdleOK DEF Idle, Frame, OpTrue, Attempts, Methods
  <2>2. BeginAttempt(p, m.epoch, FALSE, c) /\ UNCHANGED owner
    BY <1>3 DEF StartQR, provider
  <2>3. QED
    BY <2>1, <2>2, BeginFrame
<1>4. CASE CancelLogin(p) \/ CancelQR(p) \/ LogoutAt(p)
  BY <1>4, SameFrames DEF CancelLogin, CancelQR, LogoutAt
<1>5. CASE RestoreView(p)
  <2> DEFINE f == [Idle EXCEPT !.op = "restore", !.pc = "load", !.epoch = m.epoch, !.keep = TRUE]
  <2>1. OpTrue(f) /\ OwnTrue(f, owner', held') /\ f.epoch = m.epoch
    BY DEF Idle, OpTrue, OwnTrue
  <2>2. QED
    BY <1>1, <1>5, <2>1, Shapes DEF RestoreView
<1>6. CASE PollExpired(p)
  <2> DEFINE f == Snapshot("expired", "fail", m.epoch)
  <2>1. OpTrue(f) /\ OwnTrue(f, owner', held') /\ f.epoch = m.epoch
    BY DEF Snapshot, OpTrue, OwnTrue
  <2>2. QED
    BY <1>1, <1>6, <2>1, Shapes DEF PollExpired
<1>7. CASE PollQR(p)
  <2>1. PICK keep \in BOOLEAN : Put(p, [Snapshot("poll", "auth", m.epoch) EXCEPT !.keep = keep])
    BY <1>7 DEF PollQR
  <2> DEFINE f == [Snapshot("poll", "auth", m.epoch) EXCEPT !.keep = keep]
  <2>2. OpTrue(f) /\ OwnTrue(f, owner', held') /\ f.epoch = m.epoch
    BY DEF Snapshot, OpTrue, OwnTrue, Attempts
  <2>3. QED
    BY <1>1, <2>1, <2>2, Shapes
<1>8. CASE DoAt(p)
  <2>1. PICK op \in {"read", "write"}, base \in 1..m.epoch :
          Connected(base) /\ Put(p, Snapshot(op, "send", base))
    BY <1>8 DEF DoAt
  <2> DEFINE f == Snapshot(op, "send", base)
  <2>2. base = m.epoch /\ m.token # None
    BY <2>1, Members, SessionAssumption DEF Connected, Current, TypeInv, ManagerOK
  <2>3. owner' = owner /\ held' = held
    BY <1>8 DEF DoAt, provider, history
  <2>4. OpTrue(f) /\ OwnTrue(f, owner', held') /\ f.epoch = m.epoch
    BY <2>2, <2>3 DEF Snapshot, OpTrue, OwnTrue, ManagerTrue
  <2>5. QED
    BY <1>1, <2>1, <2>4, Shapes
<1>9. CASE GuestRead(p)
  <2> DEFINE f == Snapshot("guest", "commit", m.epoch)
  <2>1. OpTrue(f) /\ OwnTrue(f, owner', held') /\ f.epoch = m.epoch
    BY DEF Snapshot, OpTrue, OwnTrue
  <2>2. QED
    BY <1>1, <1>9, <2>1, Shapes DEF GuestRead
<1>10. CASE Close(p)
  <2> DEFINE f == [Idle EXCEPT !.op = "close", !.pc = "closing"]
  <2>1. OpTrue(f) /\ OwnTrue(f, owner', held') /\ f.epoch = 0
    BY DEF Idle, OpTrue, OwnTrue
  <2>2. QED
    BY <1>1, <1>10, <2>1, Shapes DEF Close
<1>11. QED
  BY <1>2, <1>3, <1>4, <1>5, <1>6, <1>7, <1>8, <1>9, <1>10 DEF Enter

(* The next place of the same frame, with the same credentials.            *)
LEMMA GotoStep ==
  ASSUME OwnerInv, Grows, m'.epoch \in Nat, NEW p \in Proc, NEW pc, Goto(p, pc),
         \/ pc = "fail" /\ call[p].op \in Attempts \cup {"expired"}
         \/ pc = "unbusy" /\ call[p].op = "poll"
         \/ pc = "resnap" /\ call[p].op = "read"
         \/ pc = "reject" /\ call[p].op \in {"read", "write"}
  PROVE  FramesTrue'
<1>1. OpTrue([call[p] EXCEPT !.pc = pc])
  BY Shapes DEF OwnerInv, Frame, OpTrue
<1>2. QED
  BY <1>1, GotoTrue DEF OwnerInv

LEMMA KeepFrames ==
  ASSUME OwnerInv, Grows, m'.epoch \in Nat, NEW p \in Proc,
         \/ FinishFailure(p) \/ EstablishStale(p) \/ EstablishRefused(p) \/ Establish(p)
         \/ CreateQR(p) \/ ClearBusy(p) \/ RefreshRefused(p) \/ RefreshAlreadyRotated(p)
         \/ AwaitRefresh(p) \/ GiveUp(p) \/ Reject(p) \/ Commit(p) \/ CloseReturns(p)
  PROVE  FramesTrue'
<1> USE DEF OwnerInv
<1>1. OpTrue(call[p])
  BY DEF FramesTrue
<1>2. CASE FinishFailure(p) \/ EstablishStale(p) \/ EstablishRefused(p) \/ Establish(p)
  BY <1>2, LeaveTrue DEF FinishFailure, EstablishStale, EstablishRefused, Establish
<1>3. CASE CreateQR(p)
  BY <1>1, <1>3, GotoStep, ReturnTrue DEF CreateQR, OpTrue, Attempts
<1>4. CASE ClearBusy(p) \/ RefreshRefused(p) \/ GiveUp(p) \/ Reject(p) \/ Commit(p) \/ CloseReturns(p)
  BY <1>4, ReturnTrue DEF ClearBusy, RefreshRefused, GiveUp, Reject, Commit, CloseReturns
<1>5. CASE RefreshAlreadyRotated(p)
  BY <1>1, <1>5, GotoStep DEF RefreshAlreadyRotated, OpTrue
<1>6. CASE AwaitRefresh(p)
  BY <1>1, <1>6, GotoStep, ReturnTrue DEF AwaitRefresh, OpTrue
<1>7. QED
  BY <1>2, <1>3, <1>4, <1>5, <1>6

LEMMA AttemptFrames ==
  ASSUME OwnerInv, Grows, m'.epoch \in Nat, NEW p \in Proc,
         Authenticate(p) \/ RestoreLoad(p) \/ RestoreBegin(p) \/ RestoreMe(p)
  PROVE  FramesTrue'
<1> USE DEF OwnerInv
<1>1. /\ OpTrue(call[p]) /\ OwnTrue(call[p], owner, held)
      /\ call[p] \in Frame /\ call[p].epoch <= m'.epoch
  BY Shapes DEF FramesTrue, Grows
<1>2. CASE Authenticate(p)
  <2>1. ASSUME NEW t \in Fresh, NEW a \in Account, owner' = [owner EXCEPT ![t] = a],
               Put(p, [call[p] EXCEPT !.pc = "establish", !.token = t, !.id = a])
        PROVE  FramesTrue'
    <3> DEFINE f == [call[p] EXCEPT !.pc = "establish", !.token = t, !.id = a]
    <3>1. f.pc = "establish" /\ f.token = t /\ f.id = a /\ f.epoch = call[p].epoch
          /\ f.op = call[p].op
      BY <1>1 DEF Frame
    <3>2. owner'[t] = a /\ a # None
      BY <2>1, SessionAssumption DEF Fresh, TypeInv, ProviderOK
    <3>3. OpTrue(f) /\ OwnTrue(f, owner', held')
      BY <1>1, <1>2, <3>1, <3>2 DEF Authenticate, OpTrue, OwnTrue
    <3>4. QED
      BY <1>1, <2>1, <3>1, <3>3, PutFrame
  <2>2. call[p].op \in Attempts
    BY <1>1, <1>2 DEF Authenticate, OpTrue
  <2>3. QED
    BY <1>2, <2>1, <2>2, GotoStep DEF Authenticate
<1>3. CASE RestoreLoad(p)
  <2>1. CASE Return(p)
    BY <1>3, <2>1, ReturnTrue DEF RestoreLoad
  <2>2. CASE vault.token # None /\ ~Return(p)
    <3> DEFINE f == [call[p] EXCEPT !.pc = "begin", !.token = vault.token, !.id = vault.id]
    <3>1. f.pc = "begin" /\ f.token = vault.token /\ f.epoch = call[p].epoch /\ f.op = call[p].op
      BY <1>1 DEF Frame
    <3>2. owner'[vault.token] # None
      BY <1>3, <2>2 DEF RestoreLoad, provider, ManagerTrue
    <3>3. OpTrue(f) /\ OwnTrue(f, owner', held')
      BY <1>1, <1>3, <3>1, <3>2 DEF RestoreLoad, OpTrue, OwnTrue
    <3>4. Put(p, f)
      BY <1>3, <2>2 DEF RestoreLoad
    <3>5. QED
      BY <1>1, <3>1, <3>3, <3>4, PutFrame
  <2>3. QED
    BY <1>3, <2>1, <2>2 DEF RestoreLoad
<1>4. CASE RestoreBegin(p)
  <2>1. CASE Return(p)
    BY <2>1, ReturnTrue
  <2>2. CASE BeginAttempt(p, call[p].epoch, FALSE, [call[p] EXCEPT !.pc = "me"])
    <3> DEFINE c == [call[p] EXCEPT !.pc = "me"]
    <3>1. c \in Frame /\ c.pc = "me" /\ c.token = call[p].token /\ OpTrue(c)
      BY <1>1, <1>4 DEF RestoreBegin, Frame, OpTrue
    <3>2. owner[c.token] # None
      BY <1>1, <1>4, <3>1 DEF RestoreBegin, OwnTrue
    <3>3. UNCHANGED owner
      BY <1>4 DEF RestoreBegin, provider
    <3>4. QED
      BY <2>2, <3>1, <3>2, <3>3, BeginFrame
  <2>3. QED
    BY <1>4, <2>1, <2>2 DEF RestoreBegin
<1>5. CASE RestoreMe(p)
  <2> DEFINE t == call[p].token
  <2>1. t \in Token /\ owner[t] # None /\ call[p].op = "restore"
    BY <1>1, <1>5, Shapes DEF RestoreMe, OwnTrue, OpTrue, FrameOK, UsesCredentials
  <2>2. CASE Goto(p, "fail")
    BY <2>1, <2>2, GotoStep DEF Attempts
  <2>3. CASE owner[t] = call[p].id /\ Goto(p, "establish")
    <3> DEFINE f == [call[p] EXCEPT !.pc = "establish"]
    <3>1. f.pc = "establish" /\ f.token = t /\ f.id = call[p].id /\ f.op = "restore"
      BY <1>1, <2>1 DEF Frame
    <3>2. owner'[t] = owner[t]
      BY <2>1 DEF Grows
    <3>3. OpTrue(f) /\ OwnTrue(f, owner', held')
      BY <2>1, <2>3, <3>1, <3>2 DEF OpTrue, OwnTrue, Attempts
    <3>4. QED
      BY <2>3, <3>3, GotoTrue
  <2>4. ASSUME NEW n \in Fresh, Rotate(t, n), NEW pc \in {"establish", "fail"},
               pc = "establish" => owner[t] = call[p].id,
               Put(p, [call[p] EXCEPT !.token = n, !.pc = pc])
        PROVE  FramesTrue'
    <3> DEFINE f == [call[p] EXCEPT !.token = n, !.pc = pc]
    <3>1. f.pc = pc /\ f.token = n /\ f.id = call[p].id /\ f.op = "restore"
          /\ f.epoch = call[p].epoch
      BY <1>1, <2>1 DEF Frame
    <3>2. owner'[n] = owner[t]
      BY <2>4 DEF Rotate, Fresh, TypeInv, ProviderOK
    <3>3. OpTrue(f) /\ OwnTrue(f, owner', held')
      BY <2>1, <2>4, <3>1, <3>2 DEF OpTrue, OwnTrue, Attempts
    <3>4. QED
      BY <1>1, <2>4, <3>1, <3>3, PutFrame
  <2>5. CASE \E n \in Fresh :
               Rotate(t, n) /\ Put(p, [call[p] EXCEPT !.token = n,
                                 !.pc = IF owner[t] = call[p].id THEN "establish" ELSE "fail"])
    BY <2>4, <2>5
  <2>6. QED
    BY <1>5, <2>2, <2>3, <2>5 DEF RestoreMe
<1>6. QED
  BY <1>2, <1>3, <1>4, <1>5

LEMMA RequestFrames ==
  ASSUME OwnerInv, Grows, m'.epoch \in Nat, NEW p \in Proc,
         Send(p) \/ JoinRefresh(p) \/ StartRefresh(p) \/ ReadSnapshotAgain(p)
  PROVE  FramesTrue'
<1> USE DEF OwnerInv
<1>1. /\ OpTrue(call[p]) /\ OwnTrue(call[p], owner, held)
      /\ call[p] \in Frame /\ call[p].epoch <= m'.epoch
  BY Shapes DEF FramesTrue, Grows
<1>2. owner' = owner /\ held' = held
  BY DEF Send, JoinRefresh, StartRefresh, ReadSnapshotAgain, provider, history
<1>3. CASE Send(p)
  <2>1. call[p].pc \in {"send", "resend"}
    BY <1>3 DEF Send
  <2>2. CASE Put(p, [call[p] EXCEPT !.pc = "commit", !.id = owner[call[p].token]])
    <3> DEFINE f == [call[p] EXCEPT !.pc = "commit", !.id = owner[call[p].token]]
    <3>1. f.pc = "commit" /\ f.id = owner[call[p].token] /\ f.op = call[p].op
          /\ f.epoch = call[p].epoch
      BY <1>1 DEF Frame
    <3>2. OpTrue(f) /\ OwnTrue(f, owner', held')
      BY <1>1, <1>2, <2>1, <3>1 DEF OpTrue, OwnTrue
    <3>3. QED
      BY <1>1, <2>2, <3>1, <3>2, PutFrame
  <2>3. CASE call[p].op = "read" /\ Goto(p, "refresh")
    <3> DEFINE f == [call[p] EXCEPT !.pc = "refresh"]
    <3>1. f.pc = "refresh" /\ f.token = call[p].token /\ f.op = "read"
          /\ f.epoch = call[p].epoch
      BY <1>1, <2>3 DEF Frame
    <3>2. OpTrue(f) /\ OwnTrue(f, owner', held')
      BY <1>1, <1>2, <2>1, <3>1 DEF OpTrue, OwnTrue
    <3>3. QED
      BY <2>3, <3>2, GotoTrue
  <2>4. call[p].op \in {"read", "write"}
    BY <1>1, <2>1 DEF OpTrue
  <2>5. QED
    BY <1>3, <2>2, <2>3, <2>4, GotoStep, ReturnTrue DEF Send
<1>4. CASE JoinRefresh(p) \/ StartRefresh(p)
  <2>1. PICK g : Put(p, [call[p] EXCEPT !.pc = "wait", !.flight = g])
    BY <1>4 DEF JoinRefresh, StartRefresh
  <2> DEFINE f == [call[p] EXCEPT !.pc = "wait", !.flight = g]
  <2>2. f.pc = "wait" /\ f.token = call[p].token /\ f.op = call[p].op /\ f.epoch = call[p].epoch
    BY <1>1 DEF Frame
  <2>3. call[p].pc = "refresh"
    BY <1>4 DEF JoinRefresh, StartRefresh
  <2>4. OpTrue(f) /\ OwnTrue(f, owner', held')
    BY <1>1, <1>2, <2>2, <2>3 DEF OpTrue, OwnTrue
  <2>5. QED
    BY <1>1, <2>1, <2>2, <2>4, PutFrame
<1>5. CASE ReadSnapshotAgain(p)
  <2>1. CASE Return(p)
    BY <2>1, ReturnTrue
  <2>2. CASE Connected(call[p].epoch) /\ Put(p, Snapshot("read", "resend", call[p].epoch))
    <3> DEFINE f == Snapshot("read", "resend", call[p].epoch)
    <3>1. call[p].epoch = m.epoch /\ m.token # None
      BY <2>2, Members, SessionAssumption DEF Connected, Current, TypeInv, ManagerOK
    <3>2. OpTrue(f) /\ OwnTrue(f, owner', held') /\ f.epoch = call[p].epoch
      BY <1>2, <3>1 DEF Snapshot, OpTrue, OwnTrue, ManagerTrue
    <3>3. QED
      BY <1>1, <2>2, <3>2, PutFrame
  <2>3. QED
    BY <1>5, <2>1, <2>2 DEF ReadSnapshotAgain
<1>6. QED
  BY <1>3, <1>4, <1>5

LEMMA FramesStep ==
  ASSUME OwnerInv, Next
  PROVE  FramesTrue'
<1>1. Grows /\ m'.epoch \in Nat
  BY GrowsStep, EpochGrows DEF OwnerInv
<1>2. ASSUME NEW p \in Proc, Resume(p) PROVE FramesTrue'
  BY <1>1, <1>2, KeepFrames, AttemptFrames, RequestFrames DEF Resume
<1>3. CASE (\E f \in Flight : PerformRefresh(f)) \/ QRTimeout \/ Expire
  <2>1. UNCHANGED call
    BY <1>3 DEF PerformRefresh, ProviderRefresh, InstallStale, InstallCredentials,
               InstallFailure, QRTimeout, Expire
  <2>2. QED
    BY <1>1, <2>1, SameFrames DEF OwnerInv
<1>4. QED
  BY <1>1, <1>2, <1>3, EnterFrames, KeepFrames DEF Next

----------------------------------------------------------------------------
(* Attempts to connect.                                                    *)

Continues(c, f) ==
  \A e \in Epoch : /\ Attempt(f, e) => Attempt(c, e) /\ f.op = c.op
                   /\ Connecting(f, e) => Connecting(c, e)

(* A step that begins and ends no attempt, but may leave one.              *)
Calm ==
  /\ m'.epoch = m.epoch /\ m'.identity = m.identity /\ m'.qrBusy = m.qrBusy
  /\ m'.state = "connecting" => m.state = "connecting"
  /\ m'.qrID \in {0, m.qrID}

LEMMA CalmAttempts ==
  ASSUME OwnerInv, Calm,
         UNCHANGED call \/ \E p \in Proc : \E f : Put(p, f) /\ Continues(call[p], f)
  PROVE  AttemptsAlone'
<1> USE DEF OwnerInv
<1>1. m.epoch \in Epoch
  BY Shapes
<1>2. \A q \in Proc : /\ Attempt(call'[q], m.epoch) =>
                           Attempt(call[q], m.epoch) /\ call'[q].op = call[q].op
                      /\ Connecting(call'[q], m.epoch) => Connecting(call[q], m.epoch)
  <2>1. CASE UNCHANGED call
    BY <2>1
  <2>2. ASSUME NEW p \in Proc, NEW f, Put(p, f), Continues(call[p], f), NEW q \in Proc
        PROVE  /\ Attempt(call'[q], m.epoch) =>
                     Attempt(call[q], m.epoch) /\ call'[q].op = call[q].op
               /\ Connecting(call'[q], m.epoch) => Connecting(call[q], m.epoch)
    <3>1. call'[q] = IF q = p THEN f ELSE call[q]
      BY <2>2, Shapes DEF Put
    <3>2. QED
      BY <1>1, <2>2, <3>1 DEF Continues
  <2>3. QED
    BY <2>1, <2>2
<1>3. QED
  BY <1>2 DEF Calm, AttemptsAlone

LEMMA IdleContinues == ASSUME NEW c PROVE Continues(c, Idle)
  BY DEF Continues, Attempt, Connecting, Attempts, Connects, Idle

LEMMA GotoContinues ==
  ASSUME NEW c \in Frame, NEW pc, c.pc \notin {"load", "begin"}, pc \in Connects => c.pc \in Connects
  PROVE  Continues(c, [c EXCEPT !.pc = pc])
  BY DEF Continues, Attempt, Connecting, Frame

LEMMA ReturnContinues ==
  ASSUME NEW p \in Proc, Return(p)
  PROVE  \E f : Put(p, f) /\ Continues(call[p], f)
  BY IdleContinues DEF Return

LEMMA StayContinues ==
  ASSUME OwnerInv, NEW p \in Proc, NEW pc, Goto(p, pc),
         call[p].pc \notin {"load", "begin"}, pc \in Connects => call[p].pc \in Connects
  PROVE  \E f : Put(p, f) /\ Continues(call[p], f)
  BY Shapes, GotoContinues DEF Goto, OwnerInv

LEMMA LeaveContinues ==
  ASSUME OwnerInv, NEW p \in Proc, Leave(p), call[p].pc \notin {"load", "begin"}
  PROVE  \E f : Put(p, f) /\ Continues(call[p], f)
  BY ReturnContinues, StayContinues DEF Leave, Connects

(* A method that resumes stays in its attempt or leaves it.                *)
LEMMA ResumeContinues ==
  ASSUME OwnerInv, NEW p \in Proc, Resume(p) \/ GiveUp(p)
  PROVE  \/ \E f : Put(p, f) /\ Continues(call[p], f)
         \/ /\ RestoreBegin(p)
            /\ BeginAttempt(p, call[p].epoch, FALSE, [call[p] EXCEPT !.pc = "me"])
<1> USE DEF Connects
<1>1. call[p] \in Frame /\ OpTrue(call[p])
  BY Shapes DEF OwnerInv, FramesTrue
<1>2. CASE Authenticate(p)
  <2>1. ASSUME NEW t, NEW a, Put(p, [call[p] EXCEPT !.pc = "establish", !.token = t, !.id = a])
        PROVE  \E f : Put(p, f) /\ Continues(call[p], f)
    <3>1. Continues(call[p], [call[p] EXCEPT !.pc = "establish", !.token = t, !.id = a])
      BY <1>1, <1>2 DEF Authenticate, Continues, Attempt, Connecting, Frame
    <3>2. QED
      BY <2>1, <3>1
  <2>2. QED
    BY <1>2, <2>1, StayContinues DEF Authenticate
<1>3. CASE FinishFailure(p) \/ EstablishStale(p) \/ EstablishRefused(p) \/ Establish(p)
  BY <1>3, LeaveContinues DEF FinishFailure, EstablishStale, EstablishRefused, Establish
<1>4. CASE RestoreLoad(p)
  <2>1. Continues(call[p], [call[p] EXCEPT !.pc = "begin", !.token = vault.token, !.id = vault.id])
    BY <1>1 DEF Continues, Attempt, Connecting, Frame
  <2>2. QED
    BY <1>4, <2>1, ReturnContinues DEF RestoreLoad
<1>5. CASE RestoreBegin(p)
  BY <1>5, ReturnContinues DEF RestoreBegin
<1>6. CASE RestoreMe(p)
  <2>1. ASSUME NEW n, NEW pc \in {"establish", "fail"},
               Put(p, [call[p] EXCEPT !.token = n, !.pc = pc])
        PROVE  \E f : Put(p, f) /\ Continues(call[p], f)
    <3>1. Continues(call[p], [call[p] EXCEPT !.token = n, !.pc = pc])
      BY <1>1, <1>6 DEF RestoreMe, Continues, Attempt, Connecting, Frame
    <3>2. QED
      BY <2>1, <3>1
  <2>2. QED
    BY <1>6, <2>1, StayContinues DEF RestoreMe
<1>7. CASE CreateQR(p)
  BY <1>7, StayContinues, ReturnContinues DEF CreateQR
<1>8. CASE \/ ClearBusy(p) \/ RefreshRefused(p) \/ GiveUp(p) \/ Reject(p) \/ Commit(p)
           \/ CloseReturns(p)
  BY <1>8, ReturnContinues DEF ClearBusy, RefreshRefused, GiveUp, Reject, Commit, CloseReturns
<1>9. CASE Send(p)
  <2>1. Continues(call[p], [call[p] EXCEPT !.pc = "commit", !.id = owner[call[p].token]])
    BY <1>1, <1>9 DEF Send, Continues, Attempt, Connecting, Frame
  <2>2. QED
    BY <1>9, <2>1, StayContinues, ReturnContinues DEF Send
<1>10. CASE RefreshAlreadyRotated(p) \/ AwaitRefresh(p)
  BY <1>10, StayContinues, ReturnContinues DEF RefreshAlreadyRotated, AwaitRefresh
<1>11. CASE JoinRefresh(p) \/ StartRefresh(p)
  <2>1. PICK g : Put(p, [call[p] EXCEPT !.pc = "wait", !.flight = g])
    BY <1>11 DEF JoinRefresh, StartRefresh
  <2>2. Continues(call[p], [call[p] EXCEPT !.pc = "wait", !.flight = g])
    BY <1>1, <1>11 DEF JoinRefresh, StartRefresh, Continues, Attempt, Connecting, Frame
  <2>3. QED
    BY <2>1, <2>2
<1>12. CASE ReadSnapshotAgain(p)
  <2>1. Continues(call[p], Snapshot("read", "resend", call[p].epoch))
    BY DEF Continues, Attempt, Connecting, Snapshot, Attempts
  <2>2. QED
    BY <1>12, <2>1, ReturnContinues DEF ReadSnapshotAgain
<1>13. QED
  BY <1>2, <1>3, <1>4, <1>5, <1>6, <1>7, <1>8, <1>9, <1>10, <1>11, <1>12 DEF Resume

LEMMA ConnectingAttempts ==
  ASSUME NEW c, OpTrue(c), NEW e, Connecting(c, e) PROVE Attempt(c, e)
  BY DEF OpTrue, Connecting, Connects, Attempt, Attempts

(* A new epoch has the attempts that begin it.                             *)
LEMMA NoAttempts ==
  ASSUME OwnerInv, NEW e, e \in Nat, m.epoch < e, NEW q \in Proc
  PROVE  ~Attempt(call[q], e) /\ ~Connecting(call[q], e)
  BY Shapes DEF OwnerInv, FramesTrue, Attempt, Connecting

LEMMA NewEpochAttempts ==
  ASSUME OwnerInv, m'.epoch = m.epoch + 1, UNCHANGED call, m'.state # "connecting"
  PROVE  AttemptsAlone'
<1>1. m.epoch + 1 \in Nat /\ m.epoch < m.epoch + 1
  BY Shapes DEF OwnerInv
<1>2. QED
  BY <1>1, NoAttempts DEF AttemptsAlone

LEMMA BeginAttempts ==
  ASSUME OwnerInv, NEW p \in Proc, NEW base, NEW sms \in BOOLEAN, NEW c \in Frame,
         BeginAttempt(p, base, sms, c), c.op \in {"login", "restore", "qr"}
  PROVE  AttemptsAlone'
<1> DEFINE f == [c EXCEPT !.epoch = m.epoch + 1]
<1>1. m.epoch + 1 \in Nat /\ m.epoch < m.epoch + 1 /\ m'.epoch = m.epoch + 1
  BY Shapes, QuietBegin DEF OwnerInv
<1>2. \A q \in Proc : call'[q] = IF q = p THEN f ELSE call[q]
  BY Shapes DEF BeginAttempt, Put, OwnerInv
<1>3. \A q \in Proc : Attempt(call'[q], m'.epoch) \/ Connecting(call'[q], m'.epoch) => q = p
  BY <1>1, <1>2, NoAttempts
<1>4. m'.identity = None /\ m'.qrID = 0
  BY Shapes DEF OwnerInv, Manager, BeginAttempt, MayBegin
<1>5. call'[p].op = c.op
  BY <1>2 DEF Frame
<1>6. QED
  BY <1>3, <1>4, <1>5 DEF AttemptsAlone

LEMMA EnterAttempts ==
  ASSUME OwnerInv, NEW p \in Proc, Enter(p)
  PROVE  AttemptsAlone'
<1> USE DEF OwnerInv
<1>1. m \in Manager
  BY Shapes
<1>2. CASE LoginAt(p)
  <2>1. PICK base \in 1..m.epoch, keep \in BOOLEAN :
          BeginAttempt(p, base, TRUE, [Idle EXCEPT !.op = "login", !.pc = "auth",
                                                   !.base = base, !.keep = keep])
    BY <1>2 DEF LoginAt
  <2>2. [Idle EXCEPT !.op = "login", !.pc = "auth", !.base = base, !.keep = keep] \in Frame
        /\ [Idle EXCEPT !.op = "login", !.pc = "auth", !.base = base, !.keep = keep].op = "login"
    BY LoginFrame DEF OwnerInv, Idle
  <2>3. QED
    BY <2>1, <2>2, BeginAttempts
<1>3. CASE StartQR(p)
  <2> DEFINE c == [Idle EXCEPT !.op = "qr", !.pc = "create"]
  <2>1. c \in Frame /\ c.op = "qr"
    BY IdleOK DEF Idle, Frame, Methods
  <2>2. BeginAttempt(p, m.epoch, FALSE, c)
    BY <1>3 DEF StartQR
  <2>3. QED
    BY <2>1, <2>2, BeginAttempts
<1>4. CASE CancelLogin(p)
  <2>1. m' = [m EXCEPT !.epoch = @ + 1, !.state = "guest", !.smsBase = 0] /\ UNCHANGED call
    BY <1>4 DEF CancelLogin
  <2>2. QED
    BY <1>1, <2>1, NewEpochAttempts DEF Manager
<1>5. CASE CancelQR(p) \/ LogoutAt(p)
  <2>1. m'.epoch = m.epoch + 1 /\ m'.state = "guest" /\ UNCHANGED call
    BY <1>1, <1>5 DEF CancelQR, AfterCancelQR, LogoutAt, AfterLogout, Manager
  <2>2. QED
    BY <2>1, NewEpochAttempts
<1>6. CASE RestoreView(p) \/ PollExpired(p) \/ DoAt(p) \/ GuestRead(p)
  <2>1. Calm
    BY <1>6 DEF RestoreView, PollExpired, DoAt, GuestRead, Calm
  <2>2. \E f : Put(p, f) /\ Continues(call[p], f)
    <3>1. Continues(call[p], [Idle EXCEPT !.op = "restore", !.pc = "load",
                                          !.epoch = m.epoch, !.keep = TRUE])
      BY DEF Idle, Continues, Attempt, Connecting, Connects
    <3>2. ASSUME NEW op \in {"expired", "read", "write", "guest"},
                 NEW pc \in {"fail", "send", "commit"}, NEW base
          PROVE  Continues(call[p], Snapshot(op, pc, base))
      BY DEF Snapshot, Continues, Attempt, Attempts, Connecting, Connects
    <3>3. QED
      BY <1>6, <3>1, <3>2 DEF RestoreView, PollExpired, DoAt, GuestRead
  <2>3. QED
    BY <2>1, <2>2, CalmAttempts
<1>7. CASE Close(p)
  <2>1. Calm
    BY <1>1, <1>7 DEF Close, Calm, Manager
  <2>2. Continues(call[p], [Idle EXCEPT !.op = "close", !.pc = "closing"])
    BY DEF Idle, Continues, Attempt, Attempts, Connecting, Connects
  <2>3. QED
    BY <1>7, <2>1, <2>2, CalmAttempts DEF Close
<1>8. CASE PollQR(p)
  <2>1. \A q \in Proc : ~Attempt(call[q], m.epoch)
    BY <1>8 DEF PollQR, Pollable, AttemptsAlone
  <2>2. PICK keep \in BOOLEAN : Put(p, [Snapshot("poll", "auth", m.epoch) EXCEPT !.keep = keep])
    BY <1>8 DEF PollQR
  <2> DEFINE f == [Snapshot("poll", "auth", m.epoch) EXCEPT !.keep = keep]
  <2>3. f.op = "poll"
    BY DEF Snapshot
  <2>4. \A q \in Proc : call'[q] = IF q = p THEN f ELSE call[q]
    BY <2>2, Shapes DEF Put
  <2>5. /\ m'.epoch = m.epoch /\ m'.qrBusy = TRUE /\ m'.identity = m.identity
        /\ m.identity = None
    BY <1>1, <1>8 DEF PollQR, Pollable, AttemptsAlone, Manager
  <2>6. \A q \in Proc : Connecting(call[q], m.epoch) => Attempt(call[q], m.epoch)
    BY ConnectingAttempts DEF FramesTrue
  <2>7. QED
    BY <2>1, <2>3, <2>4, <2>5, <2>6 DEF AttemptsAlone
<1>9. QED
  BY <1>2, <1>3, <1>4, <1>5, <1>6, <1>7, <1>8 DEF Enter

(* The attempt that is over.                                               *)
LEMMA EndedAttempts ==
  ASSUME OwnerInv, NEW p \in Proc, Attempt(call[p], m.epoch), Return(p),
         m'.epoch = m.epoch, m'.identity = m.identity, m'.state = m.state
  PROVE  AttemptsAlone'
<1> USE DEF OwnerInv
<1>1. \A q \in Proc : call'[q] = IF q = p THEN Idle ELSE call[q]
  BY Shapes DEF Return, Put
<1>2. \A q \in Proc : ~Attempt(call'[q], m.epoch)
  BY <1>1 DEF AttemptsAlone, Attempt, Idle, Attempts
<1>3. \A q \in Proc : Connecting(call'[q], m.epoch) => Attempt(call'[q], m.epoch)
  BY <1>1, IdleTrue, ConnectingAttempts DEF FramesTrue
<1>4. QED
  BY <1>2, <1>3 DEF AttemptsAlone

LEMMA ResumeAttempts ==
  ASSUME OwnerInv, NEW p \in Proc, Resume(p) \/ GiveUp(p)
  PROVE  AttemptsAlone'
<1> USE DEF OwnerInv
<1>1. m \in Manager /\ call[p] \in Frame /\ OpTrue(call[p])
  BY Shapes DEF FramesTrue
<1>2. CASE /\ RestoreBegin(p)
           /\ BeginAttempt(p, call[p].epoch, FALSE, [call[p] EXCEPT !.pc = "me"])
  <2>1. [call[p] EXCEPT !.pc = "me"] \in Frame /\ [call[p] EXCEPT !.pc = "me"].op = "restore"
    BY <1>1, <1>2 DEF RestoreBegin, Frame, OpTrue
  <2>2. QED
    BY <1>2, <2>1, BeginAttempts
<1>3. CASE \E f : Put(p, f) /\ Continues(call[p], f)
  <2>1. CASE Calm
    BY <1>3, <2>1, CalmAttempts
  <2>2. CASE Establish(p)
    <3>1. Attempt(call[p], m.epoch) /\ call[p].pc = "establish"
      BY <1>1, <2>2 DEF Establish, MayEstablish, Current, Attempt, OpTrue
    <3>2. /\ m'.epoch = m.epoch /\ m'.state = "connected" /\ m'.qrBusy = m.qrBusy
      BY <1>1, <2>2 DEF Establish, Connect, Manager
    <3>3. \A q \in Proc : q # p => call'[q] = call[q]
      BY <1>3 DEF Put
    <3>4. \A q \in Proc : q # p => ~Attempt(call'[q], m.epoch) /\ ~Connecting(call'[q], m.epoch)
      BY <3>1, <3>3, ConnectingAttempts DEF AttemptsAlone, FramesTrue
    <3>5. \/ call'[p] = Idle
          \/ call[p].op = "poll" /\ call'[p] = [call[p] EXCEPT !.pc = "unbusy"]
      <4>1. Leave(p)
        BY <2>2 DEF Establish
      <4>2. QED
        BY <4>1, Shapes DEF Leave, Return, Goto, Put
    <3>6. /\ ~Connecting(call'[p], m.epoch)
          /\ Attempt(call'[p], m.epoch) => call'[p].op = "poll" /\ m.qrBusy
      BY <1>1, <3>1, <3>5 DEF Connecting, Connects, Attempt, Attempts, Idle, Frame, AttemptsAlone
    <3>7. QED
      BY <3>2, <3>4, <3>6 DEF AttemptsAlone
  <2>3. CASE ClearBusy(p)
    <3>1. CASE call[p].epoch = m.epoch
      <4>1. Attempt(call[p], m.epoch) /\ Return(p)
        BY <1>1, <2>3, <3>1 DEF ClearBusy, Attempt, Attempts, OpTrue
      <4>2. m'.epoch = m.epoch /\ m'.identity = m.identity /\ m'.state = m.state
        BY <1>1, <2>3 DEF ClearBusy, Manager
      <4>3. QED
        BY <4>1, <4>2, EndedAttempts
    <3>2. CASE call[p].epoch # m.epoch
      <4>1. Calm
        BY <2>3, <3>2 DEF ClearBusy, Calm
      <4>2. QED
        BY <2>1, <4>1
    <3>3. QED
      BY <3>1, <3>2
  <2>4. CASE CreateQR(p)
    <3>1. CASE UNCHANGED m
      <4>1. Calm
        BY <3>1 DEF Calm
      <4>2. QED
        BY <2>1, <4>1
    <3>2. CASE Current(call[p].epoch) /\ Return(p)
               /\ m' = [m EXCEPT !.qrID = m.epoch, !.qrOld = FALSE, !.qrBusy = FALSE]
      <4>1. Attempt(call[p], m.epoch)
        BY <1>1, <2>4, <3>2 DEF CreateQR, Current, Attempt, Attempts, OpTrue
      <4>2. m'.epoch = m.epoch /\ m'.identity = m.identity /\ m'.state = m.state
        BY <1>1, <3>2 DEF Manager
      <4>3. QED
        BY <3>2, <4>1, <4>2, EndedAttempts
    <3>3. QED
      BY <2>4, <3>1, <3>2 DEF CreateQR
  <2>5. ASSUME ~Establish(p), ~ClearBusy(p), ~CreateQR(p), ~RestoreBegin(p) PROVE Calm
    <3>1. CASE FinishFailure(p) \/ EstablishRefused(p) \/ StartRefresh(p) \/ Reject(p)
      BY <1>1, <3>1 DEF FinishFailure, AfterFailure, EstablishRefused, StartRefresh, Reject,
                       Calm, Manager
    <3>2. CASE ~FinishFailure(p) /\ ~EstablishRefused(p) /\ ~StartRefresh(p) /\ ~Reject(p)
      <4>1. UNCHANGED m
        BY <2>5, <3>2 DEF Resume, Authenticate, EstablishStale, RestoreLoad, RestoreMe, Send,
           RefreshRefused, RefreshAlreadyRotated, JoinRefresh, AwaitRefresh, ReadSnapshotAgain,
           Commit, CloseReturns, GiveUp
      <4>2. QED
        BY <4>1 DEF Calm
    <3>3. QED
      BY <3>1, <3>2
  <2>6. CASE RestoreBegin(p)
    <3>1. CASE UNCHANGED m
      BY <2>1, <3>1 DEF Calm
    <3>2. QED
      BY <1>2, <2>6, <3>1 DEF RestoreBegin
  <2>7. QED
    BY <2>1, <2>2, <2>3, <2>4, <2>5, <2>6
<1>4. QED
  BY <1>2, <1>3, ResumeContinues

LEMMA AttemptsStep ==
  ASSUME OwnerInv, Next
  PROVE  AttemptsAlone'
<1>1. CASE (\E f \in Flight : PerformRefresh(f)) \/ QRTimeout \/ Expire
  <2>1. m \in Manager
    BY Shapes DEF OwnerInv
  <2>2. UNCHANGED call
    BY <1>1, RefreshLeaves DEF QRTimeout, Expire, OwnerInv
  <2>3. Calm
    <3>1. CASE \E f \in Flight : PerformRefresh(f)
      BY <3>1, RefreshLeaves DEF OwnerInv, Calm
    <3>2. CASE QRTimeout \/ Expire
      BY <2>1, <3>2 DEF QRTimeout, Expire, Calm, Manager
    <3>3. QED
      BY <1>1, <3>1, <3>2
  <2>4. QED
    BY <2>2, <2>3, CalmAttempts
<1>2. QED
  BY <1>1, EnterAttempts, ResumeAttempts DEF Next

----------------------------------------------------------------------------
(* The Manager's credentials.                                              *)

(* What the vault holds after a step that saves no new pair.               *)
VaultKept == vault' = vault \/ vault' = NoSession

SameAccount ==
  /\ UNCHANGED held
  /\ m'.epoch = m.epoch /\ m'.identity = m.identity /\ m'.token = m.token
  /\ VaultKept

NewEpoch ==
  /\ UNCHANGED held
  /\ m'.epoch = m.epoch + 1 /\ m'.identity = None /\ m'.token = None
  /\ VaultKept

LEMMA Tokens ==
  ASSUME TypeInv
  PROVE  /\ m.token # None => m.token \in Token
         /\ vault.token # None => vault.token \in Token
         /\ \A p \in Proc : call[p].pc \in UsesCredentials => call[p].token \in Token
         /\ \A f \in Flight : flights[f].next # None => flights[f].next \in Token
         /\ None \notin Token
  BY Members, SessionAssumption
  DEF TypeInv, ManagerOK, Manager, SavedSession, CallOK, FrameOK, FlightsOK, RefreshFlight

LEMMA SameManager ==
  ASSUME OwnerInv, Grows, SameAccount
  PROVE  ManagerTrue'
<1>1. vault'.token # None => owner'[vault'.token] # None
  BY Tokens DEF OwnerInv, ManagerTrue, SameAccount, VaultKept, NoSession, Grows
<1>2. QED
  BY <1>1, Tokens DEF OwnerInv, ManagerTrue, SameAccount, Grows

LEMMA NewManagerTrue ==
  ASSUME OwnerInv, Grows, NewEpoch, m'.epoch \in Epoch
  PROVE  ManagerTrue'
<1>1. vault'.token # None => owner'[vault'.token] # None
  BY Tokens DEF OwnerInv, ManagerTrue, NewEpoch, VaultKept, NoSession, Grows
<1>2. /\ m.epoch \in Nat /\ m'.epoch \in Epoch /\ m'.epoch = m.epoch + 1
      /\ \A e \in Epoch : e \in Nat
  BY Shapes DEF OwnerInv, NewEpoch
<1>3. held[m'.epoch] = None /\ \A e \in Epoch : m'.epoch < e => held[e] = None
  BY <1>2 DEF OwnerInv, ManagerTrue
<1>4. QED
  BY <1>1, <1>3 DEF NewEpoch, ManagerTrue

(* No account, no credentials.                                             *)
LEMMA BeginNew ==
  ASSUME OwnerInv, NEW p \in Proc, NEW base, NEW sms \in BOOLEAN, NEW c,
         BeginAttempt(p, base, sms, c), UNCHANGED <<held, vault>>
  PROVE  NewEpoch
<1>1. m'.epoch = m.epoch + 1
  BY QuietBegin DEF OwnerInv
<1>2. m'.identity = None /\ m'.token = m.token /\ m.identity = None
  BY Shapes DEF OwnerInv, BeginAttempt, MayBegin, Manager
<1>3. QED
  BY <1>1, <1>2 DEF OwnerInv, ManagerTrue, NewEpoch, VaultKept

LEMMA EnterManager ==
  ASSUME OwnerInv, NEW p \in Proc, Enter(p)
  PROVE  SameAccount \/ NewEpoch
<1> USE DEF history
<1>1. m \in Manager /\ (m.identity = None => m.token = None)
  BY Shapes DEF OwnerInv, ManagerTrue
<1>2. CASE LoginAt(p) \/ StartQR(p)
  BY <1>2, BeginNew DEF LoginAt, StartQR
<1>3. CASE CancelLogin(p)
  <2>1. m' = [m EXCEPT !.epoch = @ + 1, !.state = "guest", !.smsBase = 0]
        /\ m.identity = None /\ UNCHANGED <<held, vault>>
    BY <1>3 DEF CancelLogin, Queued
  <2>2. QED
    BY <1>1, <2>1 DEF NewEpoch, VaultKept, Manager
<1>4. CASE CancelQR(p)
  <2>1. m.identity = None
    BY <1>4 DEF CancelQR, OwnerInv, AttemptsAlone
  <2>2. QED
    BY <1>1, <1>4, <2>1 DEF CancelQR, AfterCancelQR, NewEpoch, VaultKept, Manager
<1>5. CASE LogoutAt(p)
  BY <1>1, <1>5 DEF LogoutAt, AfterLogout, NewEpoch, VaultKept, Manager
<1>6. CASE RestoreView(p) \/ PollExpired(p) \/ PollQR(p) \/ DoAt(p) \/ GuestRead(p) \/ Close(p)
  BY <1>1, <1>6 DEF RestoreView, PollExpired, PollQR, DoAt, GuestRead, Close, SameAccount,
             VaultKept, Manager
<1>7. QED
  BY <1>2, <1>3, <1>4, <1>5, <1>6 DEF Enter

LEMMA ResumeManager ==
  ASSUME OwnerInv, NEW p \in Proc, Resume(p)
  PROVE  SameAccount \/ NewEpoch \/ Establish(p)
<1> USE DEF history
<1>1. m \in Manager
  BY Shapes DEF OwnerInv
<1>2. CASE RestoreBegin(p)
  <2>1. CASE UNCHANGED m
    BY <1>2, <2>1 DEF RestoreBegin, SameAccount, VaultKept
  <2>2. QED
    BY <1>2, <2>1, BeginNew DEF RestoreBegin
<1>3. CASE EstablishRefused(p)
  <2>1. VaultKept
    BY <1>3 DEF EstablishRefused, VaultKept
  <2>2. QED
    BY <1>1, <1>3, <2>1 DEF EstablishRefused, SameAccount, Manager
<1>4. CASE FinishFailure(p) \/ CreateQR(p) \/ ClearBusy(p) \/ StartRefresh(p) \/ Reject(p)
  BY <1>1, <1>4 DEF FinishFailure, AfterFailure, CreateQR, ClearBusy, StartRefresh, Reject,
             SameAccount, VaultKept, Manager
<1>5. CASE \/ Authenticate(p) \/ EstablishStale(p) \/ RestoreLoad(p) \/ RestoreMe(p) \/ Send(p)
           \/ RefreshRefused(p) \/ RefreshAlreadyRotated(p) \/ JoinRefresh(p) \/ AwaitRefresh(p)
           \/ ReadSnapshotAgain(p) \/ Commit(p) \/ CloseReturns(p)
  BY <1>5 DEF Authenticate, EstablishStale, RestoreLoad, RestoreMe, Send, RefreshRefused,
             RefreshAlreadyRotated, JoinRefresh, AwaitRefresh, ReadSnapshotAgain, Commit,
             CloseReturns, SameAccount, VaultKept
<1>6. QED
  BY <1>2, <1>3, <1>4, <1>5 DEF Resume

LEMMA FlightManager ==
  ASSUME OwnerInv, NEW f \in Flight, PerformRefresh(f)
  PROVE  SameAccount \/ InstallCredentials(f)
<1>1. m \in Manager
  BY Shapes DEF OwnerInv
<1>2. CASE ProviderRefresh(f) \/ InstallStale(f) \/ InstallFailure(f)
  BY <1>1, <1>2 DEF ProviderRefresh, InstallStale, InstallFailure, SameAccount, VaultKept,
             Manager, history
<1>3. QED
  BY <1>2 DEF PerformRefresh

(* The pair an attempt brings back is its account's.                       *)
LEMMA EstablishManager ==
  ASSUME OwnerInv, NEW p \in Proc, Establish(p)
  PROVE  ManagerTrue'
<1> USE DEF OwnerInv
<1> DEFINE c == call[p]
<1>1. /\ c.pc = "establish" /\ c.epoch = m.epoch /\ c.token \in Token
      /\ owner[c.token] = c.id /\ c.id # None
  BY Tokens DEF Establish, MayEstablish, Current, FramesTrue, OwnTrue, UsesCredentials
<1>2. m'.epoch = m.epoch /\ m'.token = c.token /\ m'.identity = c.id
  BY Shapes DEF Establish, Connect, Manager
<1>3. owner' = owner /\ held' = [held EXCEPT ![m.epoch] = c.id] /\ held \in [Epoch -> Scope]
  BY DEF Establish, provider, TypeInv, HistoryOK
<1>4. vault'.token # None => owner[vault'.token] # None
  <2>1. \/ vault' = vault \/ vault' = NoSession
        \/ vault' = [token |-> c.token, id |-> c.id, epoch |-> c.epoch]
    <3>1. \/ vault' = NoSession
          \/ \E o \in SaveOutcomes(c.token, c.id, c.epoch) : vault' = o.vault
      BY DEF Establish
    <3>2. QED
      BY <3>1 DEF SaveOutcomes
  <2>2. QED
    BY <1>1, <2>1 DEF ManagerTrue, NoSession
<1>5. held'[m.epoch] = c.id /\ \A e \in Epoch : m.epoch < e => held'[e] = None
  BY <1>3, Shapes DEF ManagerTrue
<1>6. QED
  BY <1>1, <1>2, <1>3, <1>4, <1>5, Tokens DEF ManagerTrue

(* So is the pair of a refresh of this epoch.                              *)
LEMMA InstallManager ==
  ASSUME OwnerInv, NEW f \in Flight, InstallCredentials(f)
  PROVE  ManagerTrue'
<1> USE DEF OwnerInv
<1> DEFINE n == flights[f].next
<1>1. n \in Token /\ owner[n] = m.identity /\ m.identity # None
  BY Tokens DEF InstallCredentials, Current, FlightsTrue, FlightTrue, Running, ManagerTrue
<1>2. m'.epoch = m.epoch /\ m'.token = n /\ m'.identity = m.identity
  BY Shapes DEF InstallCredentials, Manager
<1>3. owner' = owner /\ held' = held
  BY DEF InstallCredentials, provider, history
<1>4. vault'.token # None => owner[vault'.token] # None
  <2>1. \/ vault' = vault \/ vault' = NoSession
        \/ vault' = [token |-> n, id |-> m.identity, epoch |-> flights[f].epoch]
    BY DEF InstallCredentials, SaveOutcomes
  <2>2. QED
    BY <1>1, <2>1 DEF ManagerTrue, NoSession
<1>5. QED
  BY <1>1, <1>2, <1>3, <1>4, Tokens DEF ManagerTrue

LEMMA ManagerStep ==
  ASSUME OwnerInv, Next
  PROVE  ManagerTrue'
<1>1. Grows /\ m'.epoch \in Epoch
  <2>1. TypeInv'
    BY TypeStep DEF OwnerInv
  <2>2. QED
    BY <2>1, GrowsStep DEF TypeInv, ManagerOK, Manager
<1>2. CASE SameAccount \/ NewEpoch
  BY <1>1, <1>2, SameManager, NewManagerTrue
<1>3. CASE (\E p \in Proc : GiveUp(p)) \/ QRTimeout \/ Expire
  <2>1. m \in Manager
    BY Shapes DEF OwnerInv
  <2>2. SameAccount
    BY <1>3, <2>1 DEF GiveUp, QRTimeout, Expire, SameAccount, VaultKept, Manager, history
  <2>3. QED
    BY <1>2, <2>2
<1>4. QED
  BY <1>2, <1>3, EnterManager, ResumeManager, FlightManager, EstablishManager, InstallManager
  DEF Next

----------------------------------------------------------------------------
(* The refreshes.                                                          *)

LEMMA SameFlight ==
  ASSUME OwnerInv, Grows, NEW f \in Flight, Running(f), flights'[f] = flights[f],
         m'.epoch \in Nat,
         m'.epoch = m.epoch => m'.flight = m.flight /\ m'.token = m.token
  PROVE  FlightTrue(f)'
<1>1. FlightTrue(f) /\ flights[f].token \in Token /\ flights[f].epoch \in Epoch
      /\ m.epoch \in Nat /\ flights[f].epoch \in Nat
  <2>1. flights[f].epoch \in Epoch /\ m.epoch \in Nat /\ flights[f].epoch \in Nat
    BY Shapes DEF OwnerInv
  <2>2. FlightTrue(f)
    BY DEF OwnerInv, FlightsTrue
  <2>3. QED
    BY <2>1, <2>2 DEF FlightTrue
<1>2. /\ flights'[f].epoch <= m'.epoch /\ flights'[f].token \in Token
      /\ owner'[flights'[f].token] = held'[flights'[f].epoch]
      /\ held'[flights'[f].epoch] # None
  BY <1>1 DEF FlightTrue, Grows
<1>3. flights'[f].next # None => owner'[flights'[f].next] = held'[flights'[f].epoch]
  BY <1>1, Tokens DEF OwnerInv, FlightTrue, Grows
<1>4. flights'[f].epoch = m'.epoch => m'.flight = f /\ flights'[f].token = m'.token
  BY <1>1 DEF FlightTrue, Grows
<1>5. QED
  BY <1>2, <1>3, <1>4 DEF FlightTrue

(* What a step does to the refreshes when it leaves their objects alone.   *)
LEMMA SameFlights ==
  ASSUME OwnerInv, Grows, UNCHANGED flights, m'.epoch \in Nat,
         m'.epoch = m.epoch => m'.flight = m.flight /\ m'.token = m.token
  PROVE  FlightsTrue'
<1>1. ASSUME NEW f \in Flight, Running(f) PROVE FlightTrue(f)'
  BY <1>1, SameFlight
<1>2. \A f \in Flight : Running(f)' <=> Running(f)
  BY DEF Running
<1>3. OneRefresh'
  BY <1>2 DEF OwnerInv, FlightsTrue, OneRefresh
<1>4. QED
  BY <1>1, <1>2, <1>3 DEF FlightsTrue

(* One refresh changes, the others stay as they are.                       *)
LEMMA OneFlight ==
  ASSUME OwnerInv, NEW f \in Flight,
         \A g \in Flight : g # f => flights'[g] = flights[g],
         \A g \in Flight : g # f /\ Running(g) => FlightTrue(g)',
         Running(f)' => /\ FlightTrue(f)'
                        /\ \A g \in Flight : g # f /\ Running(g) =>
                             flights[g].epoch # flights'[f].epoch
  PROVE  FlightsTrue'
<1>1. \A g \in Flight : g # f => (Running(g)' <=> Running(g))
  BY DEF Running
<1>2. OneRefresh'
  <2>1. SUFFICES ASSUME NEW g \in Flight, NEW h \in Flight, Running(g)', Running(h)',
                        flights'[g].epoch = flights'[h].epoch
                 PROVE  g = h
    BY DEF OneRefresh
  <2>2. CASE g = f \/ h = f
    BY <1>1, <2>1, <2>2
  <2>3. CASE g # f /\ h # f
    BY <1>1, <2>1, <2>3 DEF OwnerInv, FlightsTrue, OneRefresh
  <2>4. QED
    BY <2>2, <2>3
<1>3. QED
  BY <1>1, <1>2 DEF FlightsTrue

(* No refresh of an epoch runs before its account is known.                *)
LEMMA NoFlightYet ==
  ASSUME OwnerInv, m.identity = None, NEW f \in Flight, Running(f)
  PROVE  flights[f].epoch # m.epoch
  BY DEF OwnerInv, FlightsTrue, FlightTrue, ManagerTrue

LEMMA EstablishFlights ==
  ASSUME OwnerInv, Grows, NEW p \in Proc, Establish(p), m'.epoch \in Nat
  PROVE  FlightsTrue'
<1>1. m.identity = None
  BY DEF OwnerInv, AttemptsAlone, Establish, MayEstablish, Current, Connecting, Connects
<1>2. m'.epoch = m.epoch /\ UNCHANGED flights
  BY Shapes DEF OwnerInv, Establish, Connect, Manager
<1>3. ASSUME NEW f \in Flight, Running(f) PROVE FlightTrue(f)'
  <2>1. FlightTrue(f) /\ flights[f].epoch # m.epoch /\ flights[f].epoch \in Epoch
    BY <1>1, <1>3, NoFlightYet, Shapes DEF OwnerInv, FlightsTrue
  <2>2. flights[f].next # None => flights[f].next \in Token
    BY Tokens DEF OwnerInv
  <2>3. QED
    BY <1>2, <2>1, <2>2 DEF FlightTrue, Grows
<1>4. OneRefresh' /\ \A f \in Flight : Running(f)' <=> Running(f)
  BY <1>2 DEF OwnerInv, FlightsTrue, OneRefresh, Running
<1>5. QED
  BY <1>3, <1>4 DEF FlightsTrue

LEMMA StartFlights ==
  ASSUME OwnerInv, Grows, NEW p \in Proc, StartRefresh(p), m'.epoch \in Nat
  PROVE  FlightsTrue'
<1> USE DEF OwnerInv
<1> DEFINE c == call[p]
<1>1. PICK f \in Flight :
        /\ Collected(f)
        /\ flights' = [flights EXCEPT ![f] = [epoch |-> c.epoch, token |-> c.token,
                         pc |-> "running", next |-> None, err |-> "none"]]
        /\ m' = [m EXCEPT !.flight = f]
  BY DEF StartRefresh
<1>2. /\ c.pc = "refresh" /\ c.epoch = m.epoch /\ c.token = m.token /\ c.token \in Token
      /\ owner[c.token] = held[c.epoch] /\ held[c.epoch] # None /\ MayStart(c)
  BY Tokens DEF StartRefresh, Connected, Current, FramesTrue, OwnTrue, UsesCredentials
<1>3. m'.epoch = m.epoch /\ m'.flight = f /\ m'.token = m.token /\ m.epoch \in Nat
  BY <1>1, Shapes DEF Manager
<1>4. owner' = owner /\ held' = held
  BY DEF StartRefresh, provider, history
<1>5. /\ \A g \in Flight : g # f => flights'[g] = flights[g]
      /\ flights'[f].epoch = m.epoch /\ flights'[f].token = m.token /\ flights'[f].next = None
  BY <1>1, <1>2 DEF TypeInv, FlightsOK
<1>6. ASSUME NEW g \in Flight, Running(g) PROVE flights[g].epoch # m.epoch
  <2>1. SUFFICES ASSUME flights[g].epoch = m.epoch PROVE FALSE
    OBVIOUS
  <2>2. m.flight = g /\ flights[g].token = m.token
    BY <1>6, <2>1 DEF FlightsTrue, FlightTrue
  <2>3. Joinable(c)
    BY <1>2, <2>1, <2>2, SessionAssumption DEF Joinable
  <2>4. flights[g].pc = "done"
    BY <1>2, <2>2, <2>3 DEF MayStart
  <2>5. QED
    BY <1>6, <2>4 DEF Running
<1>7. FlightTrue(f)'
  BY <1>2, <1>3, <1>4, <1>5 DEF FlightTrue
<1>8. ASSUME NEW g \in Flight, g # f, Running(g) PROVE FlightTrue(g)'
  <2>1. FlightTrue(g) /\ flights[g].epoch # m.epoch
    BY <1>6, <1>8 DEF FlightsTrue
  <2>2. QED
    BY <1>3, <1>4, <1>5, <1>8, <2>1 DEF FlightTrue
<1>9. QED
  BY <1>5, <1>6, <1>7, <1>8, OneFlight

LEMMA RefreshFlights ==
  ASSUME OwnerInv, Grows, NEW f \in Flight, PerformRefresh(f), m'.epoch \in Nat
  PROVE  FlightsTrue'
<1> USE DEF OwnerInv
<1>1. \A g \in Flight : g # f => flights'[g] = flights[g]
  BY DEF PerformRefresh, ProviderRefresh, InstallStale, InstallCredentials, InstallFailure,
         Done, TypeInv, FlightsOK
<1>2. Running(f) /\ FlightTrue(f) /\ flights[f] \in RefreshFlight
  <2>1. Running(f)
    BY DEF PerformRefresh, ProviderRefresh, InstallStale, InstallCredentials, InstallFailure,
           Running
  <2>2. QED
    BY <2>1, Shapes DEF FlightsTrue
<1>3. m'.epoch = m.epoch /\ m'.flight = m.flight
  BY Shapes DEF PerformRefresh, ProviderRefresh, InstallStale, InstallCredentials,
                InstallFailure, Manager
<1>4. CASE ProviderRefresh(f)
  <2>1. m' = m /\ UNCHANGED held
    BY <1>4 DEF ProviderRefresh, history
  <2>2. PICK n, e :
          /\ flights' = [flights EXCEPT ![f] =
                           [@ EXCEPT !.pc = "answered", !.next = n, !.err = e]]
          /\ n = None \/ (n \in Fresh /\ Rotate(flights[f].token, n))
    BY <1>4 DEF ProviderRefresh
  <2>3. /\ flights'[f].epoch = flights[f].epoch /\ flights'[f].token = flights[f].token
        /\ flights'[f].next = n
    BY <1>2, <2>2 DEF TypeInv, FlightsOK, RefreshFlight
  <2>4. owner'[flights[f].token] = held[flights[f].epoch]
    BY <1>2 DEF FlightTrue, Grows
  <2>5. n # None => owner'[n] = held[flights[f].epoch]
    BY <1>2, <2>2 DEF Rotate, Fresh, TypeInv, ProviderOK, FlightTrue
  <2>6. FlightTrue(f)'
    BY <1>2, <2>1, <2>3, <2>4, <2>5 DEF FlightTrue
  <2>7. \A g \in Flight : g # f /\ Running(g) => flights[g].epoch # flights[f].epoch
    BY <1>2 DEF FlightsTrue, OneRefresh, FlightTrue
  <2>8. QED
    BY <1>1, <2>1, <2>3, <2>6, <2>7, OneFlight, SameFlight
<1>5. CASE InstallStale(f) \/ InstallCredentials(f) \/ InstallFailure(f)
  <2>1. ~Running(f)'
    <3>1. PICK e : flights' = Done(f, e)
      BY <1>5 DEF InstallStale, InstallCredentials, InstallFailure
    <3>2. flights'[f].pc = "done"
      BY <1>2, <3>1 DEF Done, TypeInv, FlightsOK, RefreshFlight
    <3>3. QED
      BY <3>2 DEF Running
  <2>2. ASSUME NEW g \in Flight, g # f, Running(g) PROVE FlightTrue(g)'
    <3>1. CASE m'.token = m.token
      BY <1>1, <1>3, <2>2, <3>1, SameFlight
    <3>2. CASE m'.token # m.token
      <4>1. Current(flights[f].epoch)
        BY Shapes, <1>5, <3>2 DEF InstallStale, InstallCredentials, InstallFailure, Manager
      <4>2. m.flight = f
        BY <1>2, <4>1 DEF Current, FlightTrue
      <4>3. FlightTrue(g) /\ flights[g].epoch # m.epoch /\ flights[g].epoch \in Epoch
        BY <2>2, <4>2, Shapes DEF FlightsTrue, FlightTrue
      <4>4. flights[g].next # None => flights[g].next \in Token
        BY Tokens
      <4>5. QED
        BY <1>1, <1>3, <2>2, <4>3, <4>4 DEF FlightTrue, Grows
    <3>3. QED
      BY <3>1, <3>2
  <2>3. QED
    BY <1>1, <2>1, <2>2, OneFlight
<1>6. QED
  BY <1>4, <1>5 DEF PerformRefresh

LEMMA FlightsStep ==
  ASSUME OwnerInv, Next
  PROVE  FlightsTrue'
<1> USE DEF OwnerInv
<1>1. Grows /\ m'.epoch \in Nat /\ m.epoch \in Nat /\ m \in Manager
  BY GrowsStep, EpochGrows, Shapes
<1>2. ASSUME UNCHANGED flights, SameAccount, m'.flight = m.flight PROVE FlightsTrue'
  BY <1>1, <1>2, SameFlights DEF SameAccount
<1>3. ASSUME UNCHANGED flights, NewEpoch PROVE FlightsTrue'
  BY <1>1, <1>3, SameFlights DEF NewEpoch
<1>4. ASSUME NEW p \in Proc, Enter(p) PROVE FlightsTrue'
  <2>1. UNCHANGED flights
    BY <1>4 DEF Enter, LoginAt, CancelLogin, RestoreView, StartQR, PollExpired, PollQR, CancelQR,
               DoAt, GuestRead, LogoutAt, Close
  <2>2. ASSUME SameAccount PROVE m'.flight = m.flight
    <3>1. CASE RestoreView(p) \/ PollExpired(p) \/ PollQR(p) \/ DoAt(p) \/ GuestRead(p) \/ Close(p)
      BY <1>1, <3>1 DEF RestoreView, PollExpired, PollQR, DoAt, GuestRead, Close, Manager
    <3>2. CASE LoginAt(p) \/ StartQR(p)
      <4>1. m'.epoch = m.epoch + 1
        BY <3>2, QuietBegin DEF LoginAt, StartQR
      <4>2. QED
        BY <1>1, <2>2, <4>1 DEF SameAccount
    <3>3. CASE CancelLogin(p)
      <4>1. m' = [m EXCEPT !.epoch = @ + 1, !.state = "guest", !.smsBase = 0]
        BY <3>3 DEF CancelLogin
      <4>2. QED
        BY <1>1, <4>1 DEF Manager
    <3>4. CASE CancelQR(p) \/ LogoutAt(p)
      <4>1. m'.epoch = m.epoch + 1
        BY <1>1, <3>4 DEF CancelQR, AfterCancelQR, LogoutAt, AfterLogout, Manager
      <4>2. QED
        BY <1>1, <2>2, <4>1 DEF SameAccount
    <3>5. QED
      BY <1>4, <3>1, <3>2, <3>3, <3>4 DEF Enter
  <2>3. QED
    BY <1>2, <1>3, <1>4, <2>1, <2>2, EnterManager
<1>5. ASSUME NEW p \in Proc, Resume(p) PROVE FlightsTrue'
  <2>1. CASE Establish(p) \/ StartRefresh(p)
    BY <1>1, <2>1, EstablishFlights, StartFlights
  <2>2. CASE RestoreBegin(p)
    <3>1. CASE UNCHANGED m
      <4>1. SameAccount /\ UNCHANGED flights
        BY <2>2, <3>1 DEF RestoreBegin, SameAccount, VaultKept, history
      <4>2. QED
        BY <1>2, <3>1, <4>1
    <3>2. CASE BeginAttempt(p, call[p].epoch, FALSE, [call[p] EXCEPT !.pc = "me"])
      <4>1. NewEpoch /\ UNCHANGED flights
        BY <2>2, <3>2, BeginNew DEF RestoreBegin, history
      <4>2. QED
        BY <1>3, <4>1
    <3>3. QED
      BY <2>2, <3>1, <3>2 DEF RestoreBegin
  <2>3. CASE \/ FinishFailure(p) \/ EstablishRefused(p) \/ CreateQR(p) \/ ClearBusy(p) \/ Reject(p)
    <3>1. m'.flight = m.flight /\ m'.epoch = m.epoch /\ UNCHANGED flights
      BY <1>1, <2>3 DEF FinishFailure, AfterFailure, EstablishRefused, CreateQR, ClearBusy, Reject,
                       Manager
    <3>2. m'.token = m.token
      BY <1>1, <2>3 DEF FinishFailure, AfterFailure, EstablishRefused, CreateQR, ClearBusy, Reject,
                       Manager
    <3>3. QED
      BY <1>1, <3>1, <3>2, SameFlights
  <2>4. CASE \/ Authenticate(p) \/ EstablishStale(p) \/ RestoreLoad(p) \/ RestoreMe(p) \/ Send(p)
             \/ RefreshRefused(p) \/ RefreshAlreadyRotated(p) \/ JoinRefresh(p) \/ AwaitRefresh(p)
             \/ ReadSnapshotAgain(p) \/ Commit(p) \/ CloseReturns(p)
    <3>1. UNCHANGED <<m, flights>>
      BY <2>4 DEF Authenticate, EstablishStale, RestoreLoad, RestoreMe, Send, RefreshRefused,
                 RefreshAlreadyRotated, JoinRefresh, AwaitRefresh, ReadSnapshotAgain, Commit,
                 CloseReturns
    <3>2. QED
      BY <1>1, <3>1, SameFlights
  <2>5. QED
    BY <1>5, <2>1, <2>2, <2>3, <2>4 DEF Resume
<1>6. CASE (\E p \in Proc : GiveUp(p)) \/ QRTimeout \/ Expire
  <2>1. UNCHANGED flights /\ m'.flight = m.flight /\ m'.token = m.token
    BY <1>1, <1>6 DEF GiveUp, QRTimeout, Expire, Manager
  <2>2. QED
    BY <1>1, <2>1, SameFlights
<1>7. QED
  BY <1>1, <1>4, <1>5, <1>6, RefreshFlights DEF Next

LEMMA OwnerInit == Init => OwnerInv
<1> SUFFICES ASSUME Init PROVE OwnerInv
  OBVIOUS
<1>1. TypeInv
  BY TypeInit
<1>2. \A p \in Proc : call[p] = Idle
  BY DEF Init
<1>3. m.epoch = 1 /\ m.identity = None /\ m.token = None /\ m.state = "guest"
  BY DEF Init, NewManager
<1>4. FramesTrue
  BY <1>2, <1>3, IdleTrue DEF FramesTrue
<1>5. ManagerTrue
  <2>1. \A e \in Epoch : held[e] = None
    BY DEF Init
  <2>2. vault.token # None => owner[vault.token] # None
    <3>1. CASE vault = NoSession
      BY <3>1 DEF NoSession
    <3>2. CASE \E t \in Token, a \in Account : /\ vault = [token |-> t, id |-> a, epoch |-> 1]
                                               /\ owner = [u \in Token |-> IF u = t THEN a ELSE None]
      BY <3>2, SessionAssumption
    <3>3. QED
      BY <3>1, <3>2 DEF Init
  <2>3. QED
    BY <1>3, <2>1, <2>2, Members DEF ManagerTrue
<1>6. AttemptsAlone
  BY <1>2, <1>3 DEF AttemptsAlone, Attempt, Attempts, Connecting, Connects, Idle
<1>7. FlightsTrue
  BY DEF Init, FlightsTrue, OneRefresh, Running, NoFlight
<1>8. QED
  BY <1>1, <1>4, <1>5, <1>6, <1>7 DEF OwnerInv

LEMMA OwnerStep == OwnerInv /\ [Next]_vars => OwnerInv'
<1> SUFFICES ASSUME OwnerInv, [Next]_vars PROVE OwnerInv'
  OBVIOUS
<1>1. CASE Next
  BY <1>1, TypeStep, FramesStep, ManagerStep, AttemptsStep, FlightsStep DEF OwnerInv
<1>2. CASE UNCHANGED vars
  <2>1. TypeInv'
    BY <1>2, TypeStep DEF OwnerInv
  <2>2. QED
    BY <1>2, <2>1 DEF vars, OwnerInv, FramesTrue, ManagerTrue, AttemptsAlone, FlightsTrue,
       FlightTrue, OneRefresh, Running
<1>3. QED
  BY <1>1, <1>2

LEMMA Owned == Spec => []OwnerInv
  BY OwnerInit, OwnerStep, PTL DEF Spec

(* The pair in the Manager is always its account's, and every request goes *)
(* out, the first time and when it is replayed, for the account of the     *)
(* epoch its caller saw, whatever refreshes, logins, cancellations and     *)
(* logouts run meanwhile.                                                  *)
THEOREM SessionCredentials == Spec => []CredentialsServeTheirOwner
<1>1. OwnerInv => CredentialsServeTheirOwner
  BY DEF OwnerInv, ManagerTrue, FramesTrue, OwnTrue, CredentialsServeTheirOwner,
         CredentialsMatchIdentity, RequestsActForCaller
<1>2. QED
  BY <1>1, Owned, PTL

(* However many reads are rejected at once, one epoch never has two        *)
(* refreshes under way, so no refresh token is in two provider calls.      *)
THEOREM SessionSingleFlight == Spec => []SingleFlight
<1>1. OwnerInv => SingleFlight
  BY DEF OwnerInv, FlightsTrue, OneRefresh, SingleFlight
<1>2. QED
  BY <1>1, Owned, PTL

(* Only a new epoch, which fences every request of the old one, takes the  *)
(* account away or puts another in its place: establish finds no account,  *)
(* and a refresh keeps the one there is.                                   *)
THEOREM SessionEpochKeepsAccount == Spec => EpochKeepsAccount
<1>1. ASSUME OwnerInv, [Next]_vars, m'.epoch = m.epoch, m.identity # None
      PROVE  m'.identity = m.identity
  <2>1. m \in Manager /\ m.epoch \in Nat /\ m.epoch # m.epoch + 1
    BY <1>1, Shapes DEF OwnerInv
  <2>2. CASE SameAccount \/ NewEpoch
    BY <1>1, <2>1, <2>2 DEF SameAccount, NewEpoch
  <2>3. CASE \E p \in Proc : Establish(p)
    BY <1>1, <2>3 DEF OwnerInv, AttemptsAlone, Establish, MayEstablish, Current, Connecting, Connects
  <2>4. CASE \E f \in Flight : InstallCredentials(f)
    BY <2>1, <2>4 DEF InstallCredentials, Manager
  <2>5. CASE (\E p \in Proc : GiveUp(p)) \/ QRTimeout \/ Expire \/ UNCHANGED vars
    BY <2>1, <2>5 DEF GiveUp, QRTimeout, Expire, vars, Manager
  <2>6. QED
    BY <1>1, <2>2, <2>3, <2>4, <2>5, EnterManager, ResumeManager, FlightManager DEF Next
<1>2. OwnerInv /\ [Next]_vars => [m'.epoch = m.epoch /\ m.identity # None
                                    => m'.identity = m.identity]_vars
  BY <1>1
<1>3. QED
  BY <1>2, Owned, PTL DEF Spec, EpochKeepsAccount

----------------------------------------------------------------------------
(* Memory and vault.                                                       *)

VaultInv == VaultAgrees /\ (m.persistent => m.identity # None)

(* A step that neither saves nor clears, nor changes the account.          *)
Unsaved ==
  /\ UNCHANGED vault
  /\ m'.token = m.token /\ m'.identity = m.identity
  /\ m'.persistent = m.persistent /\ m'.warning = m.warning

LEMMA UnsavedVault == ASSUME VaultInv, Unsaved PROVE VaultInv'
  BY DEF VaultInv, VaultAgrees, PersistentMeansSaved, MemoryOnlyLeavesNothing, Unsaved

LEMMA BeginUnsaved ==
  ASSUME TypeInv, NEW p \in Proc, NEW base, NEW sms \in BOOLEAN, NEW frame,
         BeginAttempt(p, base, sms, frame), UNCHANGED vault
  PROVE  Unsaved
  BY DEF TypeInv, ManagerOK, Manager, BeginAttempt, Unsaved

(* Without an account there is nothing to agree on.                        *)
LEMMA NoAccountVault ==
  ASSUME m'.identity = None, ~m'.persistent
  PROVE  VaultInv'
  BY DEF VaultInv, VaultAgrees, PersistentMeansSaved, MemoryOnlyLeavesNothing

(* A pair that was saved, and one that was not and is not announced as     *)
(* saved.                                                                  *)
LEMMA SavedVault ==
  ASSUME NEW t, NEW a, NEW e, a # None,
         NEW o \in SaveOutcomes(t, a, e), vault' = o.vault,
         m'.token = t, m'.identity = a, m'.persistent = o.kept, o.kept \/ m'.warning
  PROVE  VaultInv'
<1>1. CASE o.vault = [token |-> t, id |-> a, epoch |-> e] /\ o.kept
  BY <1>1 DEF VaultInv, VaultAgrees, PersistentMeansSaved, MemoryOnlyLeavesNothing
<1>2. CASE ~o.kept
  BY <1>2 DEF VaultInv, VaultAgrees, PersistentMeansSaved, MemoryOnlyLeavesNothing
<1>3. QED
  BY <1>1, <1>2 DEF SaveOutcomes

LEMMA EstablishVault ==
  ASSUME OwnerInv, NEW p \in Proc, Establish(p)
  PROVE  VaultInv'
<1> DEFINE c == call[p]
<1>1. c.id # None /\ m \in Manager
  BY Shapes DEF OwnerInv, Establish, FramesTrue, OwnTrue
<1>2. ASSUME NEW o \in SaveOutcomes(c.token, c.id, c.epoch), c.keep,
             vault' = o.vault, m' = Connect(c, o.kept)
      PROVE  VaultInv'
  <2>1. /\ m'.token = c.token /\ m'.identity = c.id /\ m'.persistent = o.kept
        /\ m'.warning = (c.keep /\ ~o.kept)
    BY <1>1, <1>2 DEF Connect, Manager
  <2>2. o.kept \/ m'.warning
    BY <1>2, <2>1
  <2>3. QED
    BY <1>1, <1>2, <2>1, <2>2, SavedVault
<1>3. CASE vault' = NoSession /\ m' = Connect(c, FALSE)
  <2>1. m'.persistent = FALSE /\ vault'.token = None
    BY <1>1, <1>3 DEF Connect, Manager, NoSession
  <2>2. QED
    BY <2>1 DEF VaultInv, VaultAgrees, PersistentMeansSaved, MemoryOnlyLeavesNothing
<1>4. QED
  BY <1>2, <1>3 DEF Establish

LEMMA InstallVault ==
  ASSUME OwnerInv, VaultInv, NEW f \in Flight, InstallCredentials(f)
  PROVE  VaultInv'
<1> DEFINE n == flights[f].next
<1>1. m \in Manager /\ m'.identity = m.identity
  BY Shapes DEF OwnerInv, InstallCredentials, Manager
<1>2. CASE ~m.persistent
  <2>1. UNCHANGED vault /\ m'.persistent = m.persistent /\ m'.warning = m.warning
    BY <1>1, <1>2 DEF InstallCredentials, Manager
  <2>2. QED
    BY <1>1, <1>2, <2>1
    DEF VaultInv, VaultAgrees, PersistentMeansSaved, MemoryOnlyLeavesNothing
<1>3. CASE m.persistent
  <2>1. PICK o \in SaveOutcomes(n, m.identity, flights[f].epoch) :
          /\ vault' = o.vault
          /\ m' = [m EXCEPT !.token = n, !.persistent = o.kept, !.warning = @ \/ ~o.kept]
    BY <1>3 DEF InstallCredentials
  <2> DEFINE w == m.warning \/ ~o.kept
  <2>2. w \in BOOLEAN /\ m' = [m EXCEPT !.token = n, !.persistent = o.kept, !.warning = w]
    BY <2>1
  <2>3. o.kept \/ w
    OBVIOUS
  <2> HIDE DEF w
  <2>4. m'.token = n /\ m'.persistent = o.kept /\ (o.kept \/ m'.warning)
    <3>1. m'.token = n /\ m'.persistent = o.kept /\ m'.warning = w
      BY <1>1, <2>2 DEF Manager
    <3>2. QED
      BY <2>3, <3>1
  <2>5. m.identity # None
    BY <1>3 DEF VaultInv
  <2>6. QED
    BY <1>1, <2>1, <2>4, <2>5, SavedVault
<1>4. QED
  BY <1>2, <1>3

LEMMA VaultStep == OwnerInv /\ VaultInv /\ [Next]_vars => VaultInv'
<1> SUFFICES ASSUME OwnerInv, VaultInv, [Next]_vars PROVE VaultInv'
  OBVIOUS
<1>1. m \in Manager
  BY Shapes DEF OwnerInv
<1>2. ASSUME NEW p \in Proc, Enter(p) PROVE VaultInv'
  <2>1. CASE LogoutAt(p)
    <3>1. m'.identity = None /\ m'.persistent = FALSE
      BY <1>1, <2>1 DEF LogoutAt, AfterLogout, Manager
    <3>2. QED
      BY <3>1, NoAccountVault
  <2>2. CASE LoginAt(p) \/ StartQR(p)
    <3>1. Unsaved
      BY <2>2, BeginUnsaved DEF LoginAt, StartQR, OwnerInv
    <3>2. QED
      BY <3>1, UnsavedVault
  <2>3. CASE CancelLogin(p)
    <3>1. m' = [m EXCEPT !.epoch = @ + 1, !.state = "guest", !.smsBase = 0] /\ UNCHANGED vault
      BY <2>3 DEF CancelLogin
    <3>2. Unsaved
      BY <1>1, <3>1 DEF Unsaved, Manager
    <3>3. QED
      BY <3>2, UnsavedVault
  <2>4. CASE RestoreView(p) \/ PollExpired(p) \/ PollQR(p) \/ CancelQR(p) \/ DoAt(p)
             \/ GuestRead(p) \/ Close(p)
    <3>1. Unsaved
      BY <1>1, <2>4 DEF RestoreView, PollExpired, PollQR, CancelQR, AfterCancelQR, DoAt,
         GuestRead, Close, Unsaved, Manager
    <3>2. QED
      BY <3>1, UnsavedVault
  <2>5. QED
    BY <1>2, <2>1, <2>2, <2>3, <2>4 DEF Enter
<1>3. ASSUME NEW p \in Proc, Resume(p) PROVE VaultInv'
  <2>1. CASE EstablishRefused(p)
    <3>1. m.identity = None
      BY <2>1 DEF EstablishRefused, OwnerInv, AttemptsAlone, MayEstablish, Current, Connecting, Connects
    <3>2. m'.identity = None /\ ~m'.persistent
      BY <1>1, <2>1, <3>1 DEF EstablishRefused, VaultInv, Manager
    <3>3. QED
      BY <3>2, NoAccountVault
  <2>2. CASE RestoreBegin(p)
    <3>1. Unsaved
      BY <2>2, BeginUnsaved DEF RestoreBegin, OwnerInv, Unsaved
    <3>2. QED
      BY <3>1, UnsavedVault
  <2>3. CASE FinishFailure(p) \/ CreateQR(p) \/ ClearBusy(p) \/ StartRefresh(p) \/ Reject(p)
    <3>1. Unsaved
      BY <1>1, <2>3 DEF FinishFailure, AfterFailure, CreateQR, ClearBusy, StartRefresh, Reject,
         Unsaved, Manager
    <3>2. QED
      BY <3>1, UnsavedVault
  <2>4. CASE Authenticate(p) \/ EstablishStale(p) \/ RestoreLoad(p) \/ RestoreMe(p) \/ Send(p)
             \/ RefreshRefused(p) \/ RefreshAlreadyRotated(p) \/ JoinRefresh(p)
             \/ AwaitRefresh(p) \/ ReadSnapshotAgain(p) \/ Commit(p) \/ CloseReturns(p)
    <3>1. Unsaved
      BY <2>4 DEF Authenticate, EstablishStale, RestoreLoad, RestoreMe, Send, RefreshRefused,
         RefreshAlreadyRotated, JoinRefresh, AwaitRefresh, ReadSnapshotAgain, Commit,
         CloseReturns, Unsaved
    <3>2. QED
      BY <3>1, UnsavedVault
  <2>5. QED
    BY <1>3, <2>1, <2>2, <2>3, <2>4, EstablishVault DEF Resume
<1>4. ASSUME NEW f \in Flight, PerformRefresh(f) PROVE VaultInv'
  <2>1. CASE ProviderRefresh(f) \/ InstallStale(f) \/ InstallFailure(f)
    <3>1. Unsaved
      BY <1>1, <2>1 DEF ProviderRefresh, InstallStale, InstallFailure, Unsaved, Manager
    <3>2. QED
      BY <3>1, UnsavedVault
  <2>2. QED
    BY <1>4, <2>1, InstallVault DEF PerformRefresh
<1>5. CASE (\E p \in Proc : GiveUp(p)) \/ QRTimeout \/ Expire \/ UNCHANGED vars
  <2>1. Unsaved
    BY <1>1, <1>5 DEF GiveUp, QRTimeout, Expire, vars, Unsaved, Manager
  <2>2. QED
    BY <2>1, UnsavedVault
<1>6. QED
  BY <1>2, <1>3, <1>4, <1>5 DEF Next

(* The Manager calls a session persistent only when the vault holds its    *)
(* very pair, and a session it neither keeps nor warns about has left none *)
(* in the vault, however saving and clearing fail.                         *)
THEOREM SessionVaultAgrees == Spec => []VaultAgrees
<1>1. Init => VaultInv
  BY DEF Init, NewManager, VaultInv, VaultAgrees, PersistentMeansSaved, MemoryOnlyLeavesNothing
<1>2. VaultInv => VaultAgrees
  BY DEF VaultInv
<1>3. QED
  BY <1>1, <1>2, VaultStep, Owned, PTL DEF Spec

----------------------------------------------------------------------------
(* What a request brings back is filed under the account it was read for.  *)
(* The account of a guest's read is no account, so its epoch must be one   *)
(* in which nobody can connect any more: it has left "connecting", and an  *)
(* attempt is only under way in that state.  That is where LastPollAnswered *)
(* is needed: the poll that finds its QR code expired leaves "connecting"  *)
(* without an epoch of its own, so no other poll of that code may be under *)
(* way, and none begins, for an expired code stays expired.                *)

Polls == {"poll", "expired"}
Requests == {"read", "write"}

AttemptsConnect == \A p \in Proc : Connecting(call[p], m.epoch) => m.state = "connecting"

ExpiredAlone ==
  \A p \in Proc : call[p].op = "expired" /\ call[p].epoch = m.epoch =>
    /\ m.qrOld
    /\ \A q \in Proc : ~Connecting(call[q], m.epoch)

GuestsTrue ==
  \A p \in Proc : call[p].op = "guest" =>
    /\ call[p].id = None
    /\ call[p].epoch = m.epoch => m.state # "connecting" /\ m.identity = None

RequestsTrue == \A p \in Proc : call[p].op \in Requests => held[call[p].epoch] # None

GuestInv ==
  /\ AttemptsConnect
  /\ ExpiredAlone
  /\ GuestsTrue
  /\ RequestsTrue

(* What a method that goes on keeps.                                       *)
Keeps(c, f) ==
  /\ f.op \in Polls \cup Requests \cup {"guest"} =>
       f.op = c.op /\ f.epoch = c.epoch /\ (c.op = "guest" => f.id = c.id)
  /\ f.op = "login" => f.op = c.op /\ f.epoch = c.epoch /\ f.base = c.base

GoesOn(p) ==
  /\ \A q \in Proc : q # p => call'[q] = call[q]
  /\ Keeps(call[p], call'[p])
  /\ \A e \in Epoch : Connecting(call'[p], e) => Connecting(call[p], e)

LEMMA KeepGuests ==
  ASSUME OwnerInv, GuestInv, Grows, m'.epoch = m.epoch,
         UNCHANGED call \/ \E p \in Proc : GoesOn(p),
         m'.state = "connecting" => m.state = "connecting",
         m'.state = "connecting" \/ \A q \in Proc : ~Connecting(call'[q], m.epoch),
         m'.identity = m.identity \/ m.state = "connecting",
         m.qrOld => m'.qrOld \/ \E q \in Proc : Connecting(call[q], m.epoch)
  PROVE  GuestInv'
<1>1. \A q \in Proc :
        /\ Keeps(call[q], call'[q])
        /\ Connecting(call'[q], m.epoch) => Connecting(call[q], m.epoch)
  <2>1. m.epoch \in Epoch
    BY Shapes DEF OwnerInv
  <2>2. \A q \in Proc : Keeps(call[q], call[q])
    BY DEF Keeps
  <2>3. QED
    BY <2>1, <2>2 DEF GoesOn
<1>2. ExpiredAlone'
  BY <1>1 DEF GuestInv, ExpiredAlone, Keeps, Polls
<1>3. AttemptsConnect'
  BY <1>1 DEF GuestInv, AttemptsConnect
<1>4. GuestsTrue'
  BY <1>1 DEF GuestInv, GuestsTrue, Keeps
<1>5. RequestsTrue'
  <2>1. \A p \in Proc : call[p].epoch \in Epoch
    BY Shapes DEF OwnerInv
  <2>2. QED
    BY <1>1, <2>1 DEF GuestInv, RequestsTrue, Keeps, Requests, Grows
<1>6. QED
  BY <1>2, <1>3, <1>4, <1>5 DEF GuestInv

(* A new epoch, and perhaps the frame of the attempt that began it.        *)
LEMMA NewGuests ==
  ASSUME OwnerInv, GuestInv, Grows, m'.epoch = m.epoch + 1,
         \/ UNCHANGED call
         \/ /\ m'.state = "connecting"
            /\ \E p \in Proc : \E f : Put(p, f) /\ f.op \in {"login", "restore", "qr"}
  PROVE  GuestInv'
<1>1. m.epoch + 1 \in Nat /\ m.epoch < m.epoch + 1
  BY Shapes DEF OwnerInv
<1>2. \A q \in Proc : call[q].epoch # m.epoch + 1 /\ call[q].epoch \in Epoch
                      /\ ~Connecting(call[q], m.epoch + 1)
  <2>1. \A q \in Proc : call[q].epoch <= m.epoch /\ call[q].epoch \in Epoch
    BY Shapes DEF OwnerInv, FramesTrue
  <2>2. m.epoch \in Nat /\ Epoch \subseteq Nat
    BY Shapes DEF OwnerInv
  <2>3. \A q \in Proc : call[q].epoch # m.epoch + 1
    BY <2>1, <2>2
  <2>4. QED
    BY <2>1, <2>3 DEF Connecting
<1>3. CASE UNCHANGED call
  BY <1>2, <1>3
  DEF GuestInv, AttemptsConnect, ExpiredAlone, GuestsTrue, RequestsTrue, Grows
<1>4. ASSUME NEW p \in Proc, NEW f, Put(p, f), f.op \in {"login", "restore", "qr"},
             m'.state = "connecting"
      PROVE  GuestInv'
  <2>1. \A q \in Proc : call'[q] = IF q = p THEN f ELSE call[q]
    BY <1>4, Shapes DEF Put, OwnerInv
  <2>2. f.op \notin Polls \cup Requests \cup {"guest"}
    BY <1>4 DEF Polls, Requests
  <2>3. RequestsTrue'
    BY <1>2, <2>1, <2>2 DEF GuestInv, RequestsTrue, Grows
  <2>4. AttemptsConnect' /\ ExpiredAlone'
    BY <1>2, <1>4, <2>1, <2>2 DEF AttemptsConnect, ExpiredAlone, Polls
  <2>5. GuestsTrue'
    BY <1>2, <2>1, <2>2 DEF GuestInv, GuestsTrue
  <2>6. QED
    BY <2>3, <2>4, <2>5 DEF GuestInv
<1>5. QED
  BY <1>3, <1>4

(* A method that begins within its epoch.                                  *)
LEMMA EnterGuests ==
  ASSUME OwnerInv, GuestInv, Grows, NEW p \in Proc, NEW f, Put(p, f),
         call[p] = Idle, m'.epoch = m.epoch, m'.state = m.state, m'.identity = m.identity,
         m'.qrOld = m.qrOld,
         Connecting(f, m.epoch) => f.op = "poll" /\ m.state = "connecting" /\ ~m.qrOld,
         f.op = "expired" => m.qrOld /\ \A q \in Proc : ~Connecting(call[q], m.epoch),
         f.op = "guest" => f.id = None /\ m.state # "connecting" /\ m.identity = None,
         f.op \in Requests => held[f.epoch] # None /\ f.epoch \in Epoch
  PROVE  GuestInv'
<1>1. \A q \in Proc : call'[q] = IF q = p THEN f ELSE call[q]
  BY Shapes DEF Put, OwnerInv
<1>2. AttemptsConnect'
  BY <1>1 DEF GuestInv, AttemptsConnect
<1>3. \A q \in Proc : call'[q].op = "expired" /\ call'[q].epoch = m.epoch => m.qrOld
  BY <1>1 DEF GuestInv, ExpiredAlone
<1>4. ExpiredAlone'
  <2>1. ASSUME NEW q \in Proc, NEW r \in Proc, call'[q].op = "expired",
               call'[q].epoch = m.epoch, Connecting(call'[r], m.epoch)
        PROVE  FALSE
    <3>1. CASE q = p
      <4>1. f.op = "expired"
        BY <1>1, <2>1, <3>1
      <4>2. r = p
        BY <1>1, <2>1, <4>1
      <4>3. QED
        BY <1>1, <2>1, <4>1, <4>2
    <3>2. CASE q # p /\ r # p
      BY <1>1, <2>1, <3>2 DEF GuestInv, ExpiredAlone
    <3>3. CASE r = p
      BY <1>1, <1>3, <2>1, <3>3
    <3>4. QED
      BY <3>1, <3>2, <3>3
  <2>2. QED
    BY <1>3, <2>1 DEF ExpiredAlone
<1>5. GuestsTrue'
  BY <1>1 DEF GuestInv, GuestsTrue
<1>6. RequestsTrue'
  <2>1. \A q \in Proc : call[q].epoch \in Epoch
    BY Shapes DEF OwnerInv
  <2>2. QED
    BY <1>1, <2>1 DEF GuestInv, RequestsTrue, Grows
<1>7. QED
  BY <1>2, <1>3, <1>4, <1>5, <1>6 DEF GuestInv

LEMMA EnterGuest ==
  ASSUME OwnerInv, GuestInv, Grows, NEW p \in Proc, Enter(p)
  PROVE  GuestInv'
<1>1. m \in Manager /\ m.epoch \in Epoch /\ held[m.epoch] = m.identity
  BY Shapes DEF OwnerInv, ManagerTrue
<1>2. CASE LoginAt(p) \/ StartQR(p)
  <2>1. ASSUME NEW base, NEW sms \in BOOLEAN, NEW c \in Frame, c.op \in {"login", "qr"},
               BeginAttempt(p, base, sms, c)
        PROVE  GuestInv'
    <3>1. m'.epoch = m.epoch + 1 /\ m'.state = "connecting"
      BY <1>1, <2>1 DEF BeginAttempt, Manager
    <3>2. Put(p, [c EXCEPT !.epoch = m.epoch + 1])
          /\ [c EXCEPT !.epoch = m.epoch + 1].op \in {"login", "restore", "qr"}
      BY <2>1 DEF BeginAttempt, Frame
    <3>3. QED
      BY <3>1, <3>2, NewGuests
  <2>2. CASE LoginAt(p)
    <3>1. PICK base \in 1..m.epoch, keep \in BOOLEAN :
            BeginAttempt(p, base, TRUE, [Idle EXCEPT !.op = "login", !.pc = "auth",
                                                     !.base = base, !.keep = keep])
      BY <2>2 DEF LoginAt
    <3> DEFINE c == [Idle EXCEPT !.op = "login", !.pc = "auth", !.base = base, !.keep = keep]
    <3>2. c \in Frame /\ c.op = "login"
      BY LoginFrame DEF OwnerInv, Idle
    <3>3. QED
      BY <2>1, <3>1, <3>2
  <2>3. CASE StartQR(p)
    <3> DEFINE c == [Idle EXCEPT !.op = "qr", !.pc = "create"]
    <3>1. c \in Frame /\ c.op = "qr"
      BY IdleOK DEF Idle, Frame, Methods
    <3>2. BeginAttempt(p, m.epoch, FALSE, c)
      BY <2>3 DEF StartQR
    <3>3. QED
      BY <2>1, <3>1, <3>2
  <2>4. QED
    BY <1>2, <2>2, <2>3
<1>3. CASE CancelLogin(p)
  <2>1. m' = [m EXCEPT !.epoch = @ + 1, !.state = "guest", !.smsBase = 0] /\ UNCHANGED call
    BY <1>3 DEF CancelLogin
  <2>2. m'.epoch = m.epoch + 1
    BY <1>1, <2>1 DEF Manager
  <2>3. QED
    BY <2>1, <2>2, NewGuests
<1>4. CASE CancelQR(p) \/ LogoutAt(p)
  <2>1. m'.epoch = m.epoch + 1 /\ UNCHANGED call
    BY <1>1, <1>4 DEF CancelQR, AfterCancelQR, LogoutAt, AfterLogout, Manager
  <2>2. QED
    BY <2>1, NewGuests
<1>5. CASE RestoreView(p)
  <2> DEFINE f == [Idle EXCEPT !.op = "restore", !.pc = "load", !.epoch = m.epoch, !.keep = TRUE]
  <2>1. f.op = "restore" /\ f.pc = "load"
    BY DEF Idle
  <2>2. Put(p, f) /\ m' = m /\ call[p] = Idle
    BY <1>5 DEF RestoreView, May
  <2> HIDE DEF f
  <2>3. QED
    BY <2>1, <2>2, EnterGuests DEF Polls, Requests, Connecting, Connects
<1>6. CASE PollExpired(p)
  <2> DEFINE f == Snapshot("expired", "fail", m.epoch)
  <2>1. f.op = "expired" /\ f.pc = "fail" /\ Put(p, f) /\ m' = m /\ call[p] = Idle
        /\ m.qrOld /\ m.qrID # 0
    BY <1>6 DEF PollExpired, May, Snapshot, Pollable
  <2>2. \A q \in Proc : ~Connecting(call[q], m.epoch)
    <3>1. SUFFICES ASSUME NEW q \in Proc, Connecting(call[q], m.epoch) PROVE FALSE
      OBVIOUS
    <3>2. Attempt(call[q], m.epoch) /\ call[q].op = "poll"
      BY <2>1, <3>1, ConnectingAttempts DEF OwnerInv, FramesTrue, AttemptsAlone
    <3>3. QED
      BY <1>6, <3>2 DEF PollExpired, LastPollAnswered, Attempt
  <2> HIDE DEF f
  <2>3. QED
    BY <2>1, <2>2, EnterGuests DEF Polls, Requests, Connecting, Connects
<1>7. CASE PollQR(p)
  <2>1. PICK keep \in BOOLEAN : Put(p, [Snapshot("poll", "auth", m.epoch) EXCEPT !.keep = keep])
    BY <1>7 DEF PollQR
  <2> DEFINE f == [Snapshot("poll", "auth", m.epoch) EXCEPT !.keep = keep]
  <2>2. f.op = "poll"
    BY DEF Snapshot
  <2>3. /\ Put(p, f) /\ call[p] = Idle /\ ~m.qrOld /\ m.state = "connecting"
        /\ m'.epoch = m.epoch /\ m'.state = m.state /\ m'.identity = m.identity
        /\ m'.qrOld = m.qrOld
    BY <1>1, <1>7, <2>1 DEF PollQR, Pollable, May, Manager
  <2> HIDE DEF f
  <2>4. QED
    BY <2>2, <2>3, EnterGuests DEF Requests
<1>8. CASE DoAt(p)
  <2>1. PICK op \in {"read", "write"}, base \in 1..m.epoch :
          May(p, op) /\ Connected(base) /\ Put(p, Snapshot(op, "send", base))
    BY <1>8 DEF DoAt
  <2> DEFINE f == Snapshot(op, "send", base)
  <2>2. f.op \in {"read", "write"} /\ f.pc = "send" /\ f.epoch = m.epoch
    BY <2>1 DEF Snapshot, Connected, Current
  <2>3. m.identity # None
    <3>1. m.token # None
      BY <2>1, Members, SessionAssumption DEF Connected, OwnerInv, TypeInv, ManagerOK
    <3>2. QED
      BY <3>1 DEF OwnerInv, ManagerTrue
  <2>4. Put(p, f) /\ m' = m /\ call[p] = Idle
    BY <1>8, <2>1 DEF DoAt, May
  <2> HIDE DEF f
  <2>5. QED
    BY <1>1, <2>2, <2>3, <2>4, EnterGuests DEF Polls, Requests, Connecting, Connects
<1>9. CASE GuestRead(p)
  <2> DEFINE f == Snapshot("guest", "commit", m.epoch)
  <2>1. /\ f.op = "guest" /\ f.pc = "commit" /\ f.id = m.identity /\ Put(p, f) /\ m' = m
        /\ call[p] = Idle /\ m.identity = None /\ m.state = "guest"
    BY <1>9 DEF GuestRead, May, Snapshot
  <2> HIDE DEF f
  <2>2. QED
    BY <2>1, EnterGuests DEF Polls, Requests, Connecting, Connects
<1>10. CASE Close(p)
  <2> DEFINE f == [Idle EXCEPT !.op = "close", !.pc = "closing"]
  <2>1. f.op = "close" /\ f.pc = "closing" /\ Put(p, f) /\ call[p] = Idle
    BY <1>10 DEF Close, May, Idle
  <2>2. m'.epoch = m.epoch /\ m'.state = m.state /\ m'.identity = m.identity
        /\ m'.qrOld = m.qrOld
    BY <1>1, <1>10 DEF Close, Manager
  <2> HIDE DEF f
  <2>3. QED
    BY <2>1, <2>2, EnterGuests DEF Polls, Requests, Connecting, Connects
<1>11. QED
  BY <1>2, <1>3, <1>4, <1>5, <1>6, <1>7, <1>8, <1>9, <1>10 DEF Enter

LEMMA ResumeKeeps ==
  ASSUME OwnerInv, NEW p \in Proc, Resume(p) \/ GiveUp(p)
  PROVE  Keeps(call[p], call'[p])
<1> USE DEF Keeps, Polls, Requests
<1>1. call[p] \in Frame /\ OpTrue(call[p])
  BY Shapes DEF OwnerInv, FramesTrue
<1>2. \A f : Put(p, f) => call'[p] = f
  BY Shapes DEF Put, OwnerInv
<1>3. ASSUME Return(p) PROVE Keeps(call[p], call'[p])
  BY <1>2, <1>3 DEF Return, Idle
<1>4. ASSUME NEW pc, Goto(p, pc) PROVE Keeps(call[p], call'[p])
  BY <1>1, <1>2, <1>4 DEF Goto, Frame
<1>5. ASSUME NEW t, NEW pc, Put(p, [call[p] EXCEPT !.token = t, !.pc = pc])
      PROVE  Keeps(call[p], call'[p])
  BY <1>1, <1>2, <1>5 DEF Frame
<1>6. CASE Authenticate(p) \/ RestoreLoad(p) \/ RestoreBegin(p) \/ Send(p)
  <2>1. CASE Authenticate(p)
    <3>1. call[p].op \in Attempts
      BY <1>1, <2>1 DEF Authenticate, OpTrue
    <3>2. ASSUME NEW t, NEW a, Put(p, [call[p] EXCEPT !.pc = "establish", !.token = t, !.id = a])
          PROVE  Keeps(call[p], call'[p])
      BY <1>1, <1>2, <3>1, <3>2 DEF Frame, Attempts
    <3>3. QED
      BY <1>4, <2>1, <3>2 DEF Authenticate
  <2>2. CASE RestoreLoad(p)
    <3>1. call[p].op = "restore"
      BY <1>1, <2>2 DEF RestoreLoad, OpTrue
    <3>2. ASSUME NEW t, NEW a, Put(p, [call[p] EXCEPT !.pc = "begin", !.token = t, !.id = a])
          PROVE  Keeps(call[p], call'[p])
      BY <1>1, <1>2, <3>1, <3>2 DEF Frame
    <3>3. QED
      BY <1>3, <2>2, <3>2 DEF RestoreLoad
  <2>3. CASE RestoreBegin(p)
    <3>1. call[p].op = "restore"
      BY <1>1, <2>3 DEF RestoreBegin, OpTrue
    <3>2. CASE BeginAttempt(p, call[p].epoch, FALSE, [call[p] EXCEPT !.pc = "me"])
      <4>1. Put(p, [[call[p] EXCEPT !.pc = "me"] EXCEPT !.epoch = m.epoch + 1])
        BY <3>2 DEF BeginAttempt
      <4>2. call'[p].op = "restore"
        BY <1>1, <1>2, <3>1, <4>1 DEF Frame
      <4>3. QED
        BY <4>2
    <3>3. QED
      BY <1>3, <2>3, <3>2 DEF RestoreBegin
  <2>4. CASE Send(p)
    <3>1. call[p].op # "guest"
      BY <1>1, <2>4 DEF Send, OpTrue
    <3>2. ASSUME NEW a, Put(p, [call[p] EXCEPT !.pc = "commit", !.id = a])
          PROVE  Keeps(call[p], call'[p])
      BY <1>1, <1>2, <3>1, <3>2 DEF Frame
    <3>3. QED
      BY <1>3, <1>4, <2>4, <3>2 DEF Send
  <2>5. QED
    BY <1>6, <2>1, <2>2, <2>3, <2>4
<1>7. CASE FinishFailure(p) \/ EstablishStale(p) \/ EstablishRefused(p) \/ Establish(p)
  <2>1. Leave(p)
    BY <1>7 DEF FinishFailure, EstablishStale, EstablishRefused, Establish
  <2>2. QED
    BY <1>3, <1>4, <2>1 DEF Leave
<1>8. CASE RestoreMe(p)
  BY <1>4, <1>5, <1>8 DEF RestoreMe
<1>9. CASE \/ ClearBusy(p) \/ RefreshRefused(p) \/ GiveUp(p) \/ Reject(p) \/ Commit(p)
           \/ CloseReturns(p) \/ RefreshAlreadyRotated(p) \/ AwaitRefresh(p) \/ CreateQR(p)
  BY <1>3, <1>4, <1>9 DEF ClearBusy, RefreshRefused, GiveUp, Reject, Commit, CloseReturns,
     RefreshAlreadyRotated, AwaitRefresh, CreateQR
<1>10. CASE JoinRefresh(p) \/ StartRefresh(p)
  <2>1. PICK g : Put(p, [call[p] EXCEPT !.pc = "wait", !.flight = g])
    BY <1>10 DEF JoinRefresh, StartRefresh
  <2>2. QED
    BY <1>1, <1>2, <2>1 DEF Frame
<1>11. CASE ReadSnapshotAgain(p)
  <2>1. call[p].op = "read"
    BY <1>1, <1>11 DEF ReadSnapshotAgain, OpTrue
  <2>2. ASSUME Put(p, Snapshot("read", "resend", call[p].epoch)) PROVE Keeps(call[p], call'[p])
    <3>1. call'[p] = Snapshot("read", "resend", call[p].epoch)
      BY <1>2, <2>2
    <3>2. QED
      BY <2>1, <3>1 DEF Snapshot
  <2>3. QED
    BY <1>3, <1>11, <2>2 DEF ReadSnapshotAgain
<1>12. QED
  BY <1>6, <1>7, <1>8, <1>9, <1>10, <1>11 DEF Resume

LEMMA ResumeGoesOn ==
  ASSUME OwnerInv, NEW p \in Proc, Resume(p) \/ GiveUp(p)
  PROVE  \/ GoesOn(p)
         \/ /\ RestoreBegin(p)
            /\ BeginAttempt(p, call[p].epoch, FALSE, [call[p] EXCEPT !.pc = "me"])
<1>1. CASE \E f : Put(p, f) /\ Continues(call[p], f)
  <2>1. PICK f : Put(p, f) /\ Continues(call[p], f)
    BY <1>1
  <2>2. call'[p] = f /\ \A q \in Proc : q # p => call'[q] = call[q]
    BY <2>1, Shapes DEF Put, OwnerInv
  <2>3. QED
    BY <2>1, <2>2, ResumeKeeps DEF GoesOn, Continues
<1>2. QED
  BY <1>1, ResumeContinues

(* Who connects, fails or is refused was the only one to try.              *)
LEMMA LastGuests ==
  ASSUME OwnerInv, GuestInv, NEW p \in Proc, GoesOn(p), Attempt(call[p], m.epoch),
         call'[p].pc \notin Connects
  PROVE  \A q \in Proc : ~Connecting(call'[q], m.epoch)
<1>1. \A q \in Proc : Connecting(call[q], m.epoch) => q = p
  BY ConnectingAttempts DEF OwnerInv, FramesTrue, AttemptsAlone
<1>2. QED
  BY <1>1 DEF GoesOn, Connecting

LEMMA LeavePlace ==
  ASSUME OwnerInv, NEW p \in Proc, Leave(p)
  PROVE  call'[p].pc \notin Connects
<1>1. call'[p] = Idle \/ call'[p] = [call[p] EXCEPT !.pc = "unbusy"]
  BY Shapes DEF OwnerInv, Leave, Return, Goto, Put
<1>2. QED
  BY <1>1, Shapes DEF OwnerInv, Idle, Connects, Frame

LEMMA ResumeGuest ==
  ASSUME OwnerInv, GuestInv, Grows, NEW p \in Proc, Resume(p) \/ GiveUp(p)
  PROVE  GuestInv'
<1>1. m \in Manager /\ call[p] \in Frame /\ OpTrue(call[p]) /\ held[m.epoch] = m.identity
  BY Shapes DEF OwnerInv, FramesTrue, ManagerTrue
<1>2. CASE BeginAttempt(p, call[p].epoch, FALSE, [call[p] EXCEPT !.pc = "me"]) /\ RestoreBegin(p)
  <2> DEFINE f == [[call[p] EXCEPT !.pc = "me"] EXCEPT !.epoch = m.epoch + 1]
  <2>1. Put(p, f) /\ m'.epoch = m.epoch + 1 /\ m'.state = "connecting"
    BY <1>1, <1>2 DEF BeginAttempt, Manager
  <2>2. f.op = "restore"
    BY <1>1, <1>2 DEF RestoreBegin, OpTrue, Frame
  <2> HIDE DEF f
  <2>3. QED
    BY <2>1, <2>2, NewGuests
<1>3. CASE GoesOn(p)
  <2>1. ASSUME m'.epoch = m.epoch, m'.state = m.state, m'.identity = m.identity,
               m'.qrOld = m.qrOld \/ Connecting(call[p], m.epoch)
        PROVE  GuestInv'
    <3>1. m'.state = "connecting" \/ \A q \in Proc : ~Connecting(call'[q], m.epoch)
      <4>1. m.epoch \in Epoch /\ \A q \in Proc : Connecting(call'[q], m.epoch) => Connecting(call[q], m.epoch)
        BY <1>3, Shapes DEF OwnerInv, GoesOn
      <4>2. QED
        BY <2>1, <4>1 DEF GuestInv, AttemptsConnect
    <3>2. QED
      BY <1>3, <2>1, <3>1, KeepGuests
  <2>2. ASSUME Leave(p), Attempt(call[p], m.epoch), m'.epoch = m.epoch, m'.state # "connecting",
               m'.identity = m.identity \/ m.state = "connecting", m'.qrOld = m.qrOld
        PROVE  GuestInv'
    BY <1>3, <2>2, LeavePlace, LastGuests, KeepGuests
  <2>3. CASE FinishFailure(p)
    <3>1. CASE call[p].epoch # m.epoch
      BY <2>1, <2>3, <3>1 DEF FinishFailure, AfterFailure
    <3>2. CASE call[p].epoch = m.epoch
      <4>1. Leave(p) /\ m'.epoch = m.epoch /\ m'.state = "guest" /\ m'.identity = m.identity
            /\ call[p].pc = "fail" /\ m'.qrOld = m.qrOld
        BY <1>1, <2>3, <3>2 DEF FinishFailure, AfterFailure, Manager
      <4>2. CASE call[p].op \in Attempts
        BY <2>2, <3>2, <4>1, <4>2 DEF Attempt
      <4>3. CASE call[p].op = "expired"
        <5>1. \A q \in Proc : ~Connecting(call[q], m.epoch)
          BY <3>2, <4>3 DEF GuestInv, ExpiredAlone
        <5>2. m.epoch \in Epoch
          BY Shapes DEF OwnerInv
        <5>3. \A q \in Proc : ~Connecting(call'[q], m.epoch)
          BY <1>3, <5>1, <5>2 DEF GoesOn
        <5>4. QED
          BY <1>3, <4>1, <5>3, KeepGuests
      <4>4. QED
        BY <1>1, <4>1, <4>2, <4>3 DEF OpTrue
    <3>3. QED
      BY <3>1, <3>2
  <2>4. CASE EstablishRefused(p) \/ Establish(p)
    <3>1. call[p].pc = "establish" /\ call[p].epoch = m.epoch /\ Leave(p)
      BY <2>4 DEF EstablishRefused, Establish, MayEstablish, Current
    <3>2. Attempt(call[p], m.epoch) /\ m.state = "connecting"
      BY <1>1, <3>1 DEF OpTrue, Attempt, GuestInv, AttemptsConnect, Connecting, Connects
    <3>3. m'.epoch = m.epoch /\ m'.state # "connecting" /\ m'.qrOld = m.qrOld
      <4>1. CASE EstablishRefused(p)
        BY <1>1, <4>1 DEF EstablishRefused, Manager
      <4>2. CASE Establish(p)
        <5>1. m'.epoch = m.epoch /\ m'.state = "connected" /\ m'.qrOld = m.qrOld
          BY <1>1, <4>2 DEF Establish, Connect, Manager
        <5>2. QED
          BY <5>1
      <4>3. QED
        BY <2>4, <4>1, <4>2
    <3>4. QED
      BY <2>2, <3>1, <3>2, <3>3
  <2>5. CASE Reject(p)
    <3>1. CASE ~Rejects(call[p])
      BY <2>1, <2>5, <3>1 DEF Reject
    <3>2. CASE Rejects(call[p])
      <4>1. call[p].epoch = m.epoch /\ call[p].op \in Requests
        BY <1>1, <2>5, <3>2 DEF Reject, Rejects, Current, Requests, OpTrue
      <4>2. m.identity # None
        BY <1>1, <4>1 DEF GuestInv, RequestsTrue
      <4>3. \A q \in Proc : ~Connecting(call[q], m.epoch)
        BY <4>2 DEF OwnerInv, AttemptsAlone
      <4>4. m.epoch \in Epoch
        BY Shapes DEF OwnerInv
      <4>5. \A q \in Proc : ~Connecting(call'[q], m.epoch)
        BY <1>3, <4>3, <4>4 DEF GoesOn
      <4>6. m'.epoch = m.epoch /\ m'.identity = m.identity /\ m'.state = "needs_login"
            /\ m'.qrOld = m.qrOld
        BY <1>1, <2>5, <3>2 DEF Reject, Manager
      <4>7. QED
        BY <1>3, <4>5, <4>6, KeepGuests
    <3>3. QED
      BY <3>1, <3>2
  <2>6. CASE CreateQR(p) \/ ClearBusy(p) \/ StartRefresh(p)
    <3>1. m'.epoch = m.epoch /\ m'.state = m.state /\ m'.identity = m.identity
      BY <1>1, <2>6 DEF CreateQR, ClearBusy, StartRefresh, Manager
    <3>2. m'.qrOld = m.qrOld \/ Connecting(call[p], m.epoch)
      BY <1>1, <2>6 DEF CreateQR, ClearBusy, StartRefresh, Manager, Current, Connecting, Connects
    <3>3. QED
      BY <2>1, <3>1, <3>2
  <2>7. CASE \/ Authenticate(p) \/ EstablishStale(p) \/ RestoreLoad(p) \/ RestoreMe(p) \/ Send(p)
             \/ RefreshRefused(p) \/ RefreshAlreadyRotated(p) \/ JoinRefresh(p) \/ AwaitRefresh(p)
             \/ ReadSnapshotAgain(p) \/ Commit(p) \/ CloseReturns(p) \/ GiveUp(p)
    <3>1. m' = m
      BY <2>7 DEF Authenticate, EstablishStale, RestoreLoad, RestoreMe, Send, RefreshRefused,
         RefreshAlreadyRotated, JoinRefresh, AwaitRefresh, ReadSnapshotAgain, Commit, CloseReturns,
         GiveUp
    <3>2. QED
      BY <2>1, <3>1
  <2>8. CASE RestoreBegin(p)
    <3>1. CASE UNCHANGED m
      BY <2>1, <3>1
    <3>2. QED
      BY <1>2, <2>8, <3>1 DEF RestoreBegin
  <2>9. QED
    BY <2>3, <2>4, <2>5, <2>6, <2>7, <2>8 DEF Resume
<1>4. QED
  BY <1>2, <1>3, ResumeGoesOn

LEMMA GuestStep == OwnerInv /\ GuestInv /\ [Next]_vars => GuestInv'
<1> SUFFICES ASSUME OwnerInv, GuestInv, [Next]_vars PROVE GuestInv'
  OBVIOUS
<1>1. m \in Manager /\ m.epoch \in Epoch
  BY Shapes DEF OwnerInv
<1>2. CASE UNCHANGED vars
  BY <1>2
  DEF vars, GuestInv, AttemptsConnect, ExpiredAlone, GuestsTrue, RequestsTrue
<1>3. CASE Next
  <2>1. Grows
    BY <1>3, GrowsStep
  <2>2. CASE (\E f \in Flight : PerformRefresh(f)) \/ QRTimeout \/ Expire
    <3>1. UNCHANGED call /\ m'.epoch = m.epoch /\ m'.identity = m.identity
          /\ (m.qrOld => m'.qrOld)
      BY <1>1, <2>2, RefreshLeaves DEF QRTimeout, Expire, OwnerInv, Manager
    <3>2. CASE m'.state = m.state
      <4>1. m'.state = "connecting" \/ \A q \in Proc : ~Connecting(call'[q], m.epoch)
        BY <3>1, <3>2 DEF GuestInv, AttemptsConnect
      <4>2. QED
        BY <2>1, <3>1, <3>2, <4>1, KeepGuests
    <3>3. CASE m'.state # m.state
      <4>1. PICK f \in Flight : InstallFailure(f) /\ m'.state = "needs_login"
        <5>1. m'.state = m.state \/ ~(QRTimeout \/ Expire)
          BY <1>1 DEF QRTimeout, Expire, Manager
        <5>2. QED
          BY <2>2, <3>3, <5>1, RefreshLeaves DEF OwnerInv
      <4>2. m.identity # None
        BY <4>1 DEF InstallFailure, Current, OwnerInv, ManagerTrue, FlightsTrue, FlightTrue, Running
      <4>3. \A q \in Proc : ~Connecting(call'[q], m.epoch)
        BY <3>1, <4>2 DEF OwnerInv, AttemptsAlone
      <4>4. QED
        BY <2>1, <3>1, <4>1, <4>3, KeepGuests
    <3>4. QED
      BY <3>2, <3>3
  <2>3. QED
    BY <1>3, <2>1, <2>2, EnterGuest, ResumeGuest DEF Next
<1>4. QED
  BY <1>2, <1>3

(* What a commit files.                                                    *)
LEMMA ScopeStep == OwnerInv /\ GuestInv /\ ScopeIsolation /\ [Next]_vars => ScopeIsolation'
<1> SUFFICES ASSUME OwnerInv, GuestInv, ScopeIsolation, [Next]_vars PROVE ScopeIsolation'
  OBVIOUS
<1>1. CASE UNCHANGED store
  BY <1>1 DEF ScopeIsolation
<1>2. ASSUME NEW p \in Proc, Commit(p) PROVE ScopeIsolation'
  <2>1. CASE UNCHANGED store
    BY <1>1, <2>1
  <2>2. CASE /\ call[p].epoch = m.epoch /\ m.state # "connecting"
             /\ store' = store \cup {[scope |-> m.identity, from |-> call[p].id,
                                      epoch |-> call[p].epoch]}
    <3>1. m.identity = call[p].id
      <4>1. call[p].pc = "commit" /\ held[m.epoch] = m.identity
        BY <1>2 DEF Commit, OwnerInv, ManagerTrue
      <4>2. CASE call[p].op = "guest"
        BY <2>2, <4>2 DEF GuestInv, GuestsTrue
      <4>3. CASE call[p].op # "guest"
        BY <2>2, <4>1, <4>3 DEF OwnerInv, FramesTrue, OwnTrue
      <4>4. QED
        BY <4>2, <4>3
    <3>2. QED
      BY <2>2, <3>1 DEF ScopeIsolation
  <2>3. QED
    BY <1>2, <2>1, <2>2 DEF Commit, Current
<1>3. ASSUME NEW p \in Proc, LogoutAt(p) PROVE ScopeIsolation'
  BY <1>3 DEF LogoutAt, ScopeIsolation
<1>4. ASSUME NEW f \in Flight, PerformRefresh(f) PROVE UNCHANGED store
  BY <1>4 DEF PerformRefresh, ProviderRefresh, InstallStale, InstallCredentials, InstallFailure
<1>5. ASSUME NEW p \in Proc, EstablishRefused(p) \/ Establish(p) PROVE UNCHANGED store
  BY <1>5 DEF EstablishRefused, Establish
<1>6. CASE (\E p \in Proc : GiveUp(p)) \/ QRTimeout \/ Expire \/ UNCHANGED vars
  BY <1>1, <1>6 DEF GiveUp, QRTimeout, Expire, vars
<1>7. QED
  BY <1>1, <1>2, <1>3, <1>4, <1>5, <1>6, QuietEnter, QuietResume DEF Next, Quiet, OwnerInv

(* Whatever was read for one account is never filed under another or under *)
(* the guest, nor a guest's data under an account: the epoch the request   *)
(* began in is the one it is committed in, and no epoch changes hands      *)
(* between a guest's read and its commit.                                  *)
THEOREM SessionScopeIsolation == Spec => []ScopeIsolation
<1>1. Init => GuestInv /\ ScopeIsolation
  <2>1. Init => \A p \in Proc : call[p].op = "none" /\ call[p].pc = "idle"
    BY DEF Init, Idle
  <2>2. Init => store = {}
    BY DEF Init
  <2>3. QED
    BY <2>1, <2>2 DEF GuestInv, AttemptsConnect, ExpiredAlone, GuestsTrue,
       RequestsTrue, Polls, Requests, Connecting, Connects, ScopeIsolation
<1>2. QED
  BY <1>1, GuestStep, ScopeStep, Owned, PTL DEF Spec

----------------------------------------------------------------------------
(* Cancelled logins.  CancelLogin fences bases of the past, and raises the *)
(* epoch above that of every login under way; a login begins at the epoch  *)
(* of the present.                                                         *)

CancelInv ==
  /\ \A b \in cancelled : b < m.epoch
  /\ \A p \in Proc : call[p].op = "login" /\ call[p].epoch = m.epoch =>
                       call[p].base \notin cancelled

(* The logins under way go on as they are, or end.                         *)
LoginsGoOn ==
  \A p \in Proc : call'[p].op = "login" =>
    call[p].op = "login" /\ call'[p].epoch = call[p].epoch /\ call'[p].base = call[p].base

LEMMA SameLogins ==
  ASSUME OwnerInv, CancelInv, m.epoch <= m'.epoch, m'.epoch \in Nat, LoginsGoOn,
         UNCHANGED cancelled
  PROVE  CancelInv'
<1>1. cancelled \subseteq Nat /\ m.epoch \in Nat
  BY SessionAssumption DEF OwnerInv, TypeInv, HistoryOK, ManagerOK, Manager, Epoch
<1>2. \A b \in cancelled : b < m'.epoch
  BY <1>1 DEF CancelInv
<1>3. ASSUME NEW p \in Proc, call'[p].op = "login", call'[p].epoch = m'.epoch
      PROVE  call'[p].base \notin cancelled
  <2>1. call[p].epoch <= m.epoch /\ call[p].epoch = m'.epoch /\ call[p].op = "login"
    BY <1>3 DEF OwnerInv, FramesTrue, LoginsGoOn
  <2>2. call[p].epoch = m.epoch
    BY <1>1, <2>1
  <2>3. QED
    BY <1>3, <2>1, <2>2 DEF CancelInv, LoginsGoOn
<1>4. QED
  BY <1>2, <1>3 DEF CancelInv

LEMMA LoginBegins ==
  ASSUME OwnerInv, CancelInv, NEW p \in Proc, LoginAt(p)
  PROVE  CancelInv'
<1>1. cancelled \subseteq Nat /\ m.epoch \in Nat /\ m.epoch < m.epoch + 1
  BY SessionAssumption DEF OwnerInv, TypeInv, HistoryOK, ManagerOK, Manager, Epoch
<1>2. PICK base \in 1..m.epoch, keep \in BOOLEAN :
        BeginAttempt(p, base, TRUE, [Idle EXCEPT !.op = "login", !.pc = "auth",
                                                 !.base = base, !.keep = keep])
  BY DEF LoginAt
<1> DEFINE f == [[Idle EXCEPT !.op = "login", !.pc = "auth", !.base = base, !.keep = keep]
                   EXCEPT !.epoch = m.epoch + 1]
<1>3. f.base = base
  BY DEF Idle
<1>4. Put(p, f) /\ base = m.epoch
  BY <1>2 DEF BeginAttempt, MayBegin, Current
<1>5. m'.epoch = m.epoch + 1 /\ UNCHANGED cancelled
  BY <1>2, QuietBegin DEF LoginAt, history, OwnerInv
<1> HIDE DEF f
<1>6. \A q \in Proc : call'[q] = IF q = p THEN f ELSE call[q]
  BY <1>4, Shapes DEF Put, OwnerInv
<1>7. \A q \in Proc : call[q].epoch <= m.epoch /\ call[q].epoch \in Nat
  BY Shapes DEF OwnerInv, FramesTrue
<1>8. base \notin cancelled
  BY <1>1, <1>4 DEF CancelInv
<1>9. \A b \in cancelled : b < m.epoch + 1
  BY <1>1 DEF CancelInv
<1>10. ASSUME NEW q \in Proc, call'[q].epoch = m.epoch + 1 PROVE call'[q].base \notin cancelled
  <2>1. q = p
    BY <1>1, <1>6, <1>7, <1>10
  <2>2. QED
    BY <1>3, <1>6, <1>8, <2>1
<1>11. QED
  BY <1>5, <1>9, <1>10 DEF CancelInv

LEMMA LoginCancelled ==
  ASSUME OwnerInv, CancelInv, NEW p \in Proc, CancelLogin(p)
  PROVE  CancelInv'
<1>1. cancelled \subseteq Nat /\ m.epoch \in Nat
  BY SessionAssumption DEF OwnerInv, TypeInv, HistoryOK, ManagerOK, Manager, Epoch
<1>2. PICK base \in 1..m.epoch :
        /\ m' = [m EXCEPT !.epoch = @ + 1, !.state = "guest", !.smsBase = 0]
        /\ cancelled' = cancelled \cup {base}
  BY DEF CancelLogin
<1>3. m'.epoch = m.epoch + 1 /\ UNCHANGED call
  BY <1>2, Shapes DEF OwnerInv, Manager, CancelLogin
<1>4. \A b \in cancelled' : b < m'.epoch
  BY <1>1, <1>2, <1>3 DEF CancelInv
<1>5. \A q \in Proc : call[q].epoch <= m.epoch /\ call[q].epoch \in Nat
  BY Shapes DEF OwnerInv, FramesTrue
<1>6. \A q \in Proc : call'[q].epoch # m'.epoch
  BY <1>1, <1>3, <1>5
<1>7. QED
  BY <1>4, <1>6 DEF CancelInv

LEMMA EnterLogins ==
  ASSUME OwnerInv, NEW p \in Proc, Enter(p), ~LoginAt(p), ~CancelLogin(p)
  PROVE  LoginsGoOn /\ UNCHANGED cancelled
<1>1. ASSUME NEW f, Put(p, f), f.op # "login" PROVE LoginsGoOn
  <2>1. \A q \in Proc : call'[q] = IF q = p THEN f ELSE call[q]
    BY <1>1, Shapes DEF Put, OwnerInv
  <2>2. QED
    BY <1>1, <2>1 DEF LoginsGoOn
<1>2. ASSUME NEW op, NEW pc, NEW e, op # "login", Put(p, Snapshot(op, pc, e)) PROVE LoginsGoOn
  BY <1>1, <1>2 DEF Snapshot
<1>3. CASE RestoreView(p) \/ Close(p)
  <2>1. \E f : Put(p, f) /\ f.op # "login"
    <3>1. CASE RestoreView(p)
      <4> DEFINE f == [Idle EXCEPT !.op = "restore", !.pc = "load", !.epoch = m.epoch, !.keep = TRUE]
      <4>1. Put(p, f) /\ f.op # "login"
        BY <3>1 DEF RestoreView, Idle
      <4>2. QED
        BY <4>1
    <3>2. CASE Close(p)
      <4> DEFINE f == [Idle EXCEPT !.op = "close", !.pc = "closing"]
      <4>1. Put(p, f) /\ f.op # "login"
        BY <3>2 DEF Close, Idle
      <4>2. QED
        BY <4>1
    <3>3. QED
      BY <1>3, <3>1, <3>2
  <2>2. QED
    BY <1>1, <1>3, <2>1 DEF RestoreView, Close, history
<1>4. CASE StartQR(p)
  <2>1. Put(p, [[Idle EXCEPT !.op = "qr", !.pc = "create"] EXCEPT !.epoch = m.epoch + 1])
    BY <1>4 DEF StartQR, BeginAttempt
  <2>2. [[Idle EXCEPT !.op = "qr", !.pc = "create"] EXCEPT !.epoch = m.epoch + 1].op # "login"
    BY DEF Idle
  <2>3. QED
    BY <1>1, <1>4, <2>1, <2>2 DEF StartQR, history
<1>5. CASE PollQR(p)
  <2>1. PICK keep \in BOOLEAN : Put(p, [Snapshot("poll", "auth", m.epoch) EXCEPT !.keep = keep])
    BY <1>5 DEF PollQR
  <2>2. [Snapshot("poll", "auth", m.epoch) EXCEPT !.keep = keep].op # "login"
    BY DEF Snapshot
  <2>3. QED
    BY <1>1, <1>5, <2>1, <2>2 DEF PollQR, history
<1>6. CASE PollExpired(p) \/ DoAt(p) \/ GuestRead(p)
  <2>1. CASE PollExpired(p)
    BY <1>2, <2>1 DEF PollExpired, history
  <2>2. CASE DoAt(p)
    <3>1. PICK op \in {"read", "write"}, base \in 1..m.epoch : Put(p, Snapshot(op, "send", base))
      BY <2>2 DEF DoAt
    <3>2. QED
      BY <1>2, <2>2, <3>1 DEF DoAt, history
  <2>3. CASE GuestRead(p)
    BY <1>2, <2>3 DEF GuestRead, history
  <2>4. QED
    BY <1>6, <2>1, <2>2, <2>3
<1>7. CASE CancelQR(p) \/ LogoutAt(p)
  BY <1>7 DEF CancelQR, LogoutAt, LoginsGoOn, history
<1>8. QED
  BY <1>3, <1>4, <1>5, <1>6, <1>7 DEF Enter

LEMMA ResumeLogins ==
  ASSUME OwnerInv, NEW p \in Proc, Resume(p) \/ GiveUp(p)
  PROVE  LoginsGoOn /\ UNCHANGED cancelled
<1>1. ASSUME GoesOn(p) PROVE LoginsGoOn
  <2>1. ASSUME NEW q \in Proc, call'[q].op = "login"
        PROVE  /\ call[q].op = "login"
               /\ call'[q].epoch = call[q].epoch /\ call'[q].base = call[q].base
    <3>1. CASE q = p
      BY <1>1, <2>1, <3>1 DEF GoesOn, Keeps
    <3>2. CASE q # p
      <4>1. call'[q] = call[q]
        BY <1>1, <3>2 DEF GoesOn
      <4>2. QED
        BY <2>1, <4>1
    <3>3. QED
      BY <3>1, <3>2
  <2>2. QED
    BY <2>1 DEF LoginsGoOn
<1>2. ASSUME RestoreBegin(p),
             BeginAttempt(p, call[p].epoch, FALSE, [call[p] EXCEPT !.pc = "me"])
      PROVE  LoginsGoOn
  <2> DEFINE f == [[call[p] EXCEPT !.pc = "me"] EXCEPT !.epoch = m.epoch + 1]
  <2>1. call[p] \in Frame /\ call[p].op = "restore"
    BY <1>2, Shapes DEF OwnerInv, FramesTrue, OpTrue, RestoreBegin
  <2>2. f.op = "restore"
    BY <2>1 DEF Frame
  <2>3. Put(p, f)
    BY <1>2 DEF BeginAttempt
  <2> HIDE DEF f
  <2>4. \A q \in Proc : call'[q] = IF q = p THEN f ELSE call[q]
    BY <2>3, Shapes DEF Put, OwnerInv
  <2>5. \A q \in Proc : call'[q].op = "login" => call'[q] = call[q]
    BY <2>2, <2>4
  <2>6. QED
    BY <2>5 DEF LoginsGoOn
<1>3. UNCHANGED cancelled
  <2>1. CASE \/ Authenticate(p) \/ FinishFailure(p) \/ EstablishStale(p) \/ EstablishRefused(p)
             \/ RestoreLoad(p) \/ RestoreBegin(p) \/ RestoreMe(p) \/ CreateQR(p) \/ ClearBusy(p)
    BY <2>1 DEF Authenticate, FinishFailure, EstablishStale, EstablishRefused, RestoreLoad,
       RestoreBegin, RestoreMe, CreateQR, ClearBusy, history
  <2>2. CASE \/ Send(p) \/ RefreshRefused(p) \/ RefreshAlreadyRotated(p) \/ JoinRefresh(p)
             \/ StartRefresh(p) \/ AwaitRefresh(p) \/ ReadSnapshotAgain(p) \/ Reject(p)
    BY <2>2 DEF Send, RefreshRefused, RefreshAlreadyRotated, JoinRefresh, StartRefresh,
       AwaitRefresh, ReadSnapshotAgain, Reject, history
  <2>3. CASE Establish(p) \/ Commit(p) \/ CloseReturns(p) \/ GiveUp(p)
    BY <2>3 DEF Establish, Commit, CloseReturns, GiveUp, history
  <2>4. QED
    BY <2>1, <2>2, <2>3 DEF Resume
<1>4. QED
  BY <1>1, <1>2, <1>3, ResumeGoesOn

LEMMA CancelStep == OwnerInv /\ CancelInv /\ [Next]_vars => CancelInv'
<1> SUFFICES ASSUME OwnerInv, CancelInv, [Next]_vars PROVE CancelInv'
  OBVIOUS
<1>1. CASE UNCHANGED vars
  BY <1>1 DEF vars, CancelInv
<1>2. CASE Next
  <2>1. m.epoch <= m'.epoch /\ m'.epoch \in Nat
    BY <1>2, EpochGrows DEF OwnerInv
  <2>2. ASSUME NEW p \in Proc, Enter(p) PROVE CancelInv'
    BY <2>1, <2>2, LoginBegins, LoginCancelled, EnterLogins, SameLogins
  <2>3. ASSUME NEW p \in Proc, Resume(p) \/ GiveUp(p) PROVE CancelInv'
    BY <2>1, <2>3, ResumeLogins, SameLogins
  <2>4. CASE (\E f \in Flight : PerformRefresh(f)) \/ QRTimeout \/ Expire
    <3>1. UNCHANGED <<call, cancelled>>
      BY <2>4, RefreshLeaves DEF QRTimeout, Expire, history, OwnerInv
    <3>2. LoginsGoOn
      BY <3>1 DEF LoginsGoOn
    <3>3. QED
      BY <2>1, <3>1, <3>2, SameLogins
  <2>5. QED
    BY <1>2, <2>2, <2>3, <2>4 DEF Next
<1>3. QED
  BY <1>1, <1>2

LEMMA ResumeStays ==
  ASSUME OwnerInv, NEW p \in Proc, Resume(p) \/ GiveUp(p), NEW q \in Proc, q # p
  PROVE  call'[q] = call[q]
<1>1. CASE GoesOn(p)
  BY <1>1 DEF GoesOn
<1>2. ASSUME NEW f, Put(p, f) PROVE call'[q] = call[q]
  BY <1>2, Shapes DEF Put, OwnerInv
<1>3. QED
  BY <1>1, <1>2, ResumeGoesOn DEF BeginAttempt

(* New credentials come in with a step of a login only where establish     *)
(* installs them.                                                          *)
LEMMA LoginInstalls ==
  ASSUME OwnerInv, Next, NEW p \in Proc, call[p].op = "login", call'[p] # call[p],
         m'.token \notin {m.token, None}
  PROVE  Establish(p)
<1>1. m \in Manager
  BY Shapes DEF OwnerInv
<1>2. ASSUME NEW q \in Proc, Resume(q) \/ GiveUp(q) PROVE q = p
  <2>1. q # p => call'[p] = call[p]
    BY <1>2, ResumeStays
  <2>2. QED
    BY <2>1
<1>3. ASSUME NEW q \in Proc, Enter(q) PROVE FALSE
  <2>1. CASE LoginAt(q) \/ StartQR(q) \/ CancelLogin(q)
    BY <1>1, <2>1 DEF LoginAt, StartQR, BeginAttempt, CancelLogin, Manager
  <2>2. CASE RestoreView(q) \/ PollExpired(q) \/ PollQR(q) \/ CancelQR(q)
    BY <1>1, <2>2 DEF RestoreView, PollExpired, PollQR, CancelQR, AfterCancelQR, Manager
  <2>3. CASE DoAt(q) \/ GuestRead(q) \/ LogoutAt(q) \/ Close(q)
    BY <1>1, <2>3 DEF DoAt, GuestRead, LogoutAt, AfterLogout, Close, Manager
  <2>4. QED
    BY <1>3, <2>1, <2>2, <2>3 DEF Enter
<1>4. ~((\E f \in Flight : PerformRefresh(f)) \/ QRTimeout \/ Expire)
  BY RefreshLeaves DEF QRTimeout, Expire, OwnerInv
<1>5. Resume(p) \/ GiveUp(p)
  BY <1>2, <1>3, <1>4 DEF Next
<1>6. ASSUME ~Establish(p) PROVE m'.token = m.token
  <2>1. CASE FinishFailure(p) \/ EstablishRefused(p) \/ RestoreBegin(p) \/ CreateQR(p)
    BY <1>1, <2>1 DEF FinishFailure, AfterFailure, EstablishRefused, RestoreBegin, BeginAttempt,
       CreateQR, Manager
  <2>2. CASE ClearBusy(p) \/ StartRefresh(p) \/ Reject(p)
    BY <1>1, <2>2 DEF ClearBusy, StartRefresh, Reject, Manager
  <2>3. CASE \/ Authenticate(p) \/ EstablishStale(p) \/ RestoreLoad(p) \/ RestoreMe(p) \/ Send(p)
             \/ RefreshRefused(p) \/ RefreshAlreadyRotated(p) \/ JoinRefresh(p) \/ AwaitRefresh(p)
             \/ ReadSnapshotAgain(p) \/ Commit(p) \/ CloseReturns(p) \/ GiveUp(p)
    BY <2>3 DEF Authenticate, EstablishStale, RestoreLoad, RestoreMe, Send, RefreshRefused,
       RefreshAlreadyRotated, JoinRefresh, AwaitRefresh, ReadSnapshotAgain, Commit, CloseReturns,
       GiveUp
  <2>4. QED
    BY <1>5, <1>6, <2>1, <2>2, <2>3 DEF Resume
<1>7. QED
  BY <1>6

(* A login that CancelLogin has fenced, whether it was still queued or its *)
(* answer was on the way, never connects an account.                       *)
THEOREM SessionCancelledLogin == Spec => CancelledLoginNeverConnects
<1> DEFINE Fenced1 == \A p \in Proc :
              /\ call[p].op = "login" /\ call'[p] # call[p]
              /\ m'.token \notin {m.token, None}
              => call[p].base \notin cancelled
<1>1. Init => CancelInv
  BY DEF Init, NewManager, CancelInv, Idle
<1>2. OwnerInv /\ CancelInv /\ [Next]_vars => [Fenced1]_vars
  <2>1. ASSUME OwnerInv, CancelInv, Next, NEW p \in Proc, call[p].op = "login",
               call'[p] # call[p], m'.token \notin {m.token, None}
        PROVE  call[p].base \notin cancelled
    <3>1. Establish(p)
      BY <2>1, LoginInstalls
    <3>2. call[p].epoch = m.epoch
      BY <3>1 DEF Establish, MayEstablish, Current
    <3>3. QED
      BY <2>1, <3>2 DEF CancelInv
  <2>2. QED
    BY <2>1
<1>3. QED
  BY <1>1, <1>2, CancelStep, Owned, PTL DEF Spec, CancelledLoginNeverConnects
=============================================================================
