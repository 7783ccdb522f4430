--------------------------- MODULE SessionProofs ---------------------------
(***************************************************************************)
(* Machine-checked proofs about Session, for every set of goroutines,      *)
(* accounts, credentials and refresh flights, every assignment of Role and *)
(* every bound on the epoch.                                               *)
(***************************************************************************)
EXTENDS Session, TLAPS

----------------------------------------------------------------------------
(* Type correctness.  TypeOK is not inductive: a goroutine that is about   *)
(* to use credentials must be known to have some.                          *)

UsesCredentials == {"send", "resend", "refresh", "wait", "establish", "begin", "me"}

FrameOK(frame) ==
  /\ frame \in Frame
  /\ frame.pc \in UsesCredentials => frame.token \in Token

ManagerOK ==
  /\ m \in Manager
  /\ m.state = "connected" => m.token \in Token

CallOK ==
  /\ call \in [Proc -> Frame]
  /\ \A p \in Proc : FrameOK(call[p])

FlightsOK ==
  /\ flights \in [Flight -> RefreshFlight]
  /\ \A f \in Flight : flights[f].pc = "running" => flights[f].token \in Token

ProviderOK ==
  /\ owner \in [Token -> Scope]
  /\ expired \in SUBSET Token
  /\ spent \in SUBSET Token

HistoryOK ==
  /\ held \in [Epoch -> Scope]
  /\ wiped \in [Scope -> Epoch]
  /\ vaultWiped \in Epoch
  /\ cancelled \in SUBSET Epoch

TypeInv ==
  /\ ManagerOK
  /\ CallOK
  /\ FlightsOK
  /\ ProviderOK
  /\ HistoryOK
  /\ vault \in SavedSession
  /\ store \in SUBSET Row

(* The members of the sets that type the fields, so that no later proof    *)
(* needs to look inside them.                                              *)
LEMMA Members ==
  /\ 0 \in Epoch /\ 1 \in Epoch
  /\ \A e \in Epoch : e < MaxEpoch => e + 1 \in Epoch
  /\ \A e \in Epoch : \A base \in 1..e : base \in Epoch
  /\ \A S : None \in Maybe(S) /\ S \subseteq Maybe(S)
  /\ None \in Scope /\ Account \subseteq Scope
  /\ \A t \in Maybe(Token) : t # None => t \in Token
  BY SessionAssumption DEF Epoch, Maybe, Scope

LEMMA IdleOK == FrameOK(Idle) /\ Idle \in Frame
  BY Members DEF FrameOK, Frame, Idle, UsesCredentials

(* Storing a well-formed frame keeps every frame well formed.              *)
LEMMA PutOK ==
  ASSUME CallOK, NEW p \in Proc, NEW frame, FrameOK(frame), Put(p, frame)
  PROVE  CallOK'
  BY DEF CallOK, FrameOK, Put

LEMMA GotoOK ==
  ASSUME CallOK, NEW p \in Proc,
         NEW pc \in {"fail", "unbusy", "resnap", "reject"}, Goto(p, pc)
  PROVE  CallOK'
<1>1. FrameOK([call[p] EXCEPT !.pc = pc])
  BY DEF CallOK, FrameOK, Frame, UsesCredentials
<1>2. QED
  BY <1>1, PutOK DEF Goto

LEMMA ReturnOK ==
  ASSUME CallOK, NEW p \in Proc, Return(p)
  PROVE  CallOK'
  BY IdleOK, PutOK DEF Return

LEMMA LeaveOK ==
  ASSUME CallOK, NEW p \in Proc, Leave(p)
  PROVE  CallOK'
  BY ReturnOK, GotoOK DEF Leave

(* A snapshot of a well-formed Manager.                                    *)
LEMMA SnapshotOK ==
  ASSUME ManagerOK, NEW op \in Methods \cup {"expired"}, NEW base \in Epoch,
         NEW pc \in {"auth", "fail", "send", "resend", "commit"},
         pc \in {"send", "resend"} => m.state = "connected"
  PROVE  FrameOK(Snapshot(op, pc, base))
  BY Members DEF ManagerOK, Manager, FrameOK, Frame, Snapshot, UsesCredentials

LEMMA SavedOK ==
  ASSUME NEW t \in Token, NEW id \in Scope, NEW e \in Epoch, vault \in SavedSession
  PROVE  /\ NoSession \in SavedSession
         /\ \A o \in SaveOutcomes(t, id, e) : o.vault \in SavedSession /\ o.kept \in BOOLEAN
  BY Members DEF SaveOutcomes, SavedSession, NoSession

LEMMA TypeLoginAt ==
  ASSUME TypeInv, NEW p \in Proc, LoginAt(p)
  PROVE  TypeInv'
<1> USE DEF TypeInv
<1>1. ManagerOK'
  <2>1. PICK base \in 1..m.epoch, keep \in BOOLEAN :
          BeginAttempt(p, base, TRUE,
                       [Idle EXCEPT !.op = "login", !.pc = "auth",
                                !.base = base, !.keep = keep])
    BY DEF LoginAt
  <2>2. QED
    BY <2>1, Members DEF BeginAttempt, MayBegin, Current, ManagerOK, Manager
<1>2. CallOK'
  <2>1. PICK base \in 1..m.epoch, keep \in BOOLEAN :
          BeginAttempt(p, base, TRUE,
                       [Idle EXCEPT !.op = "login", !.pc = "auth",
                                !.base = base, !.keep = keep])
    BY DEF LoginAt
  <2> DEFINE frame == [[Idle EXCEPT !.op = "login", !.pc = "auth",
                                !.base = base, !.keep = keep]
                         EXCEPT !.epoch = m.epoch + 1]
  <2>2. FrameOK(frame)
    BY <2>1, Members
    DEF Idle, FrameOK, Frame, UsesCredentials, Methods, BeginAttempt, MayBegin, Current,
        ManagerOK, Manager
  <2>3. Put(p, frame)
    BY <2>1 DEF BeginAttempt
  <2>4. QED
    BY <2>2, <2>3, PutOK
<1>3. /\ FlightsOK'
      /\ ProviderOK'
      /\ HistoryOK'
      /\ vault' \in SavedSession
      /\ store' \in SUBSET Row
  BY DEF LoginAt, FlightsOK, ProviderOK, HistoryOK, provider, history
<1>4. QED
  BY <1>1, <1>2, <1>3

LEMMA TypeAuthenticate ==
  ASSUME TypeInv, NEW p \in Proc, Authenticate(p)
  PROVE  TypeInv'
<1> USE DEF TypeInv
<1>1. CallOK'
  <2>1. \A t \in Token, a \in Account :
          FrameOK([call[p] EXCEPT !.pc = "establish", !.token = t, !.id = a])
    BY ZenonT(60), Members DEF CallOK, FrameOK, Frame, UsesCredentials
  <2>2. QED
    BY <2>1, PutOK, GotoOK DEF Authenticate, Fresh
<1>2. ProviderOK'
  BY Members DEF Authenticate, Fresh, ProviderOK
<1>3. /\ ManagerOK'
      /\ FlightsOK'
      /\ HistoryOK'
      /\ vault' \in SavedSession
      /\ store' \in SUBSET Row
  BY DEF Authenticate, ManagerOK, FlightsOK, HistoryOK, history
<1>4. QED
  BY <1>1, <1>2, <1>3

LEMMA TypeFinishFailure ==
  ASSUME TypeInv, NEW p \in Proc, FinishFailure(p)
  PROVE  TypeInv'
<1> USE DEF TypeInv
<1>1. ManagerOK'
  BY Members DEF FinishFailure, AfterFailure, ManagerOK, Manager
<1>2. CallOK'
  BY LeaveOK DEF FinishFailure
<1>3. /\ FlightsOK'
      /\ ProviderOK'
      /\ HistoryOK'
      /\ vault' \in SavedSession
      /\ store' \in SUBSET Row
  BY DEF FinishFailure, FlightsOK, ProviderOK, HistoryOK, provider, history
<1>4. QED
  BY <1>1, <1>2, <1>3

LEMMA TypeEstablishStale ==
  ASSUME TypeInv, NEW p \in Proc, EstablishStale(p)
  PROVE  TypeInv'
<1> USE DEF TypeInv
<1>1. CallOK'
  BY LeaveOK DEF EstablishStale
<1>2. /\ ManagerOK'
      /\ FlightsOK'
      /\ ProviderOK'
      /\ HistoryOK'
      /\ vault' \in SavedSession
      /\ store' \in SUBSET Row
  BY DEF EstablishStale, ManagerOK, FlightsOK, ProviderOK, HistoryOK, provider, history
<1>3. QED
  BY <1>1, <1>2

LEMMA TypeEstablishRefused ==
  ASSUME TypeInv, NEW p \in Proc, EstablishRefused(p)
  PROVE  TypeInv'
<1> USE DEF TypeInv
<1>1. ManagerOK'
  BY DEF EstablishRefused, ManagerOK, Manager
<1>2. CallOK'
  BY LeaveOK DEF EstablishRefused
<1>3. vault' \in SavedSession
  BY Members DEF EstablishRefused, NoSession, SavedSession
<1>4. /\ FlightsOK'
      /\ ProviderOK'
      /\ HistoryOK'
      /\ store' \in SUBSET Row
  BY DEF EstablishRefused, FlightsOK, ProviderOK, HistoryOK, provider, history
<1>5. QED
  BY <1>1, <1>2, <1>3, <1>4

LEMMA TypeEstablish ==
  ASSUME TypeInv, NEW p \in Proc, Establish(p)
  PROVE  TypeInv'
<1> USE DEF TypeInv
<1>1. ManagerOK'
  <2> call[p].pc = "establish"
    BY DEF Establish
  <2>1. call[p].token \in Token /\ call[p].id \in Scope /\ call[p].epoch \in Epoch
    <3>1. call[p] \in Frame /\ FrameOK(call[p])
      BY DEF CallOK
    <3>2. QED
      BY <3>1 DEF FrameOK, Frame, UsesCredentials
  <2>2. PICK kept \in BOOLEAN : m' = Connect(call[p], kept)
    <3>1. CASE call[p].keep
      <4>1. PICK o \in SaveOutcomes(call[p].token, call[p].id, call[p].epoch) :
              m' = Connect(call[p], o.kept)
        BY <3>1 DEF Establish
      <4>2. o.kept \in BOOLEAN
        BY <2>1, SavedOK
      <4>3. QED
        BY <4>1, <4>2
    <3>2. CASE ~call[p].keep
      BY <3>2 DEF Establish
    <3>3. QED
      BY <3>1, <3>2
  <2>3. call[p].keep \in BOOLEAN /\ call[p].token \in Maybe(Token)
    BY <2>1, Members DEF CallOK, Frame
  <2>4. QED
    BY <2>1, <2>2, <2>3, Members DEF Connect, ManagerOK, Manager
<1>2. CallOK'
  BY LeaveOK DEF Establish
<1>3. HistoryOK'
  <2> call[p].pc = "establish"
    BY DEF Establish
  <2>1. call[p].token \in Token /\ call[p].id \in Scope /\ call[p].epoch \in Epoch
    <3>1. call[p] \in Frame /\ FrameOK(call[p])
      BY DEF CallOK
    <3>2. QED
      BY <3>1 DEF FrameOK, Frame, UsesCredentials
  <2>2. m.epoch \in Epoch
    BY DEF ManagerOK, Manager
  <2>3. QED
    BY <2>1, <2>2 DEF Establish, HistoryOK
<1>4. vault' \in SavedSession
  <2> call[p].pc = "establish"
    BY DEF Establish
  <2>1. call[p].token \in Token /\ call[p].id \in Scope /\ call[p].epoch \in Epoch
    <3>1. call[p] \in Frame /\ FrameOK(call[p])
      BY DEF CallOK
    <3>2. QED
      BY <3>1 DEF FrameOK, Frame, UsesCredentials
  <2>2. QED
    BY <2>1, SavedOK DEF Establish
<1>5. /\ FlightsOK'
      /\ ProviderOK'
      /\ store' \in SUBSET Row
  BY DEF Establish, FlightsOK, ProviderOK, provider
<1>6. QED
  BY <1>1, <1>2, <1>3, <1>4, <1>5

LEMMA TypeCancelLogin ==
  ASSUME TypeInv, NEW p \in Proc, CancelLogin(p)
  PROVE  TypeInv'
<1> USE DEF TypeInv
<1>1. ManagerOK'
  <2>1. m.epoch < MaxEpoch /\ m' = [m EXCEPT !.epoch = @ + 1, !.state = "guest", !.smsBase = 0]
    BY DEF CancelLogin
  <2>2. QED
    BY <2>1, Members DEF ManagerOK, Manager
<1>2. HistoryOK'
  BY Members DEF CancelLogin, HistoryOK, ManagerOK, Manager
<1>3. /\ CallOK'
      /\ FlightsOK'
      /\ ProviderOK'
      /\ vault' \in SavedSession
      /\ store' \in SUBSET Row
  BY DEF CancelLogin, CallOK, FrameOK, FlightsOK, ProviderOK, provider
<1>4. QED
  BY <1>1, <1>2, <1>3

LEMMA TypeRestoreView ==
  ASSUME TypeInv, NEW p \in Proc, RestoreView(p)
  PROVE  TypeInv'
<1> USE DEF TypeInv
<1>1. CallOK'
  <2>1. FrameOK([Idle EXCEPT !.op = "restore", !.pc = "load", !.epoch = m.epoch, !.keep = TRUE])
    BY Members DEF Idle, FrameOK, Frame, UsesCredentials, Methods, ManagerOK, Manager
  <2>2. QED
    BY <2>1, PutOK DEF RestoreView
<1>2. /\ ManagerOK'
      /\ FlightsOK'
      /\ ProviderOK'
      /\ HistoryOK'
      /\ vault' \in SavedSession
      /\ store' \in SUBSET Row
  BY DEF RestoreView, ManagerOK, FlightsOK, ProviderOK, HistoryOK, provider, history
<1>3. QED
  BY <1>1, <1>2

LEMMA TypeRestoreLoad ==
  ASSUME TypeInv, NEW p \in Proc, RestoreLoad(p)
  PROVE  TypeInv'
<1> USE DEF TypeInv
<1>1. CallOK'
  <2>1. CASE Return(p)
    BY <2>1, ReturnOK
  <2>2. CASE vault.token # None /\ ~Return(p)
    <3>1. FrameOK([call[p] EXCEPT !.pc = "begin", !.token = vault.token, !.id = vault.id])
      BY ZenonT(60), <2>2, Members DEF CallOK, FrameOK, Frame, SavedSession
    <3>2. QED
      BY <2>2, <3>1, PutOK DEF RestoreLoad
  <2>3. QED
    BY <2>1, <2>2 DEF RestoreLoad
<1>2. /\ ManagerOK'
      /\ FlightsOK'
      /\ ProviderOK'
      /\ HistoryOK'
      /\ vault' \in SavedSession
      /\ store' \in SUBSET Row
  BY DEF RestoreLoad, ManagerOK, FlightsOK, ProviderOK, HistoryOK, provider, history
<1>3. QED
  BY <1>1, <1>2

LEMMA TypeRestoreBegin ==
  ASSUME TypeInv, NEW p \in Proc, RestoreBegin(p)
  PROVE  TypeInv'
<1> USE DEF TypeInv
<1>1. ManagerOK'
  <2>1. CASE BeginAttempt(p, call[p].epoch, FALSE, [call[p] EXCEPT !.pc = "me"])
    BY <2>1, Members DEF BeginAttempt, MayBegin, ManagerOK, Manager
  <2>2. CASE UNCHANGED m
    BY <2>2 DEF ManagerOK
  <2>3. QED
    BY <2>1, <2>2 DEF RestoreBegin
<1>2. CallOK'
  <2> DEFINE frame == [[call[p] EXCEPT !.pc = "me"] EXCEPT !.epoch = m.epoch + 1]
  <2>1. CASE BeginAttempt(p, call[p].epoch, FALSE, [call[p] EXCEPT !.pc = "me"])
    <3>1. m.epoch + 1 \in Epoch
      BY <2>1, Members DEF BeginAttempt, MayBegin, ManagerOK, Manager
    <3>2. FrameOK(frame)
      BY <3>1 DEF RestoreBegin, CallOK, FrameOK, Frame, UsesCredentials
    <3>3. Put(p, frame)
      BY <2>1 DEF BeginAttempt
    <3>4. QED
      BY <3>2, <3>3, PutOK
  <2>2. CASE Return(p)
    BY <2>2, ReturnOK
  <2>3. QED
    BY <2>1, <2>2 DEF RestoreBegin
<1>3. /\ FlightsOK'
      /\ ProviderOK'
      /\ HistoryOK'
      /\ vault' \in SavedSession
      /\ store' \in SUBSET Row
  BY DEF RestoreBegin, FlightsOK, ProviderOK, HistoryOK, provider, history
<1>4. QED
  BY <1>1, <1>2, <1>3

LEMMA TypeRestoreMe ==
  ASSUME TypeInv, NEW p \in Proc, RestoreMe(p)
  PROVE  TypeInv'
<1> USE DEF TypeInv
<1>1. CallOK'
  <2>1. call[p] \in Frame /\ call[p].token \in Token
    BY DEF RestoreMe, CallOK, FrameOK, UsesCredentials
  <2>2. ASSUME NEW pc \in {"establish", "fail"}
        PROVE  FrameOK([call[p] EXCEPT !.pc = pc])
    BY <2>1 DEF FrameOK, Frame, UsesCredentials
  <2>3. ASSUME NEW pc \in {"establish", "fail"}, NEW n \in Token
        PROVE  FrameOK([call[p] EXCEPT !.token = n, !.pc = pc])
    <3>1. n \in Maybe(Token)
      BY Members
    <3>2. QED
      BY <2>1, <3>1 DEF FrameOK, Frame, UsesCredentials
  <2>4. QED
    BY <2>2, <2>3, PutOK DEF RestoreMe, Goto, Rotate, Fresh
<1>2. ProviderOK'
  <2>1. call[p].token \in Token
    BY DEF RestoreMe, CallOK, FrameOK, UsesCredentials
  <2>2. QED
    BY <2>1, Members DEF RestoreMe, Rotate, Fresh, ProviderOK, provider
<1>3. /\ ManagerOK'
      /\ FlightsOK'
      /\ HistoryOK'
      /\ vault' \in SavedSession
      /\ store' \in SUBSET Row
  BY DEF RestoreMe, ManagerOK, FlightsOK, HistoryOK, history
<1>4. QED
  BY <1>1, <1>2, <1>3

LEMMA TypeStartQR ==
  ASSUME TypeInv, NEW p \in Proc, StartQR(p)
  PROVE  TypeInv'
<1> USE DEF TypeInv
<1>1. ManagerOK'
  BY Members DEF StartQR, BeginAttempt, MayBegin, Current, ManagerOK, Manager
<1>2. CallOK'
  <2> DEFINE frame == [[Idle EXCEPT !.op = "qr", !.pc = "create"] EXCEPT !.epoch = m.epoch + 1]
  <2>1. FrameOK(frame)
    BY Members
    DEF StartQR, BeginAttempt, MayBegin, Idle, FrameOK, Frame, UsesCredentials, Methods,
        ManagerOK, Manager
  <2>2. Put(p, frame)
    BY DEF StartQR, BeginAttempt
  <2>3. QED
    BY <2>1, <2>2, PutOK
<1>3. /\ FlightsOK'
      /\ ProviderOK'
      /\ HistoryOK'
      /\ vault' \in SavedSession
      /\ store' \in SUBSET Row
  BY DEF StartQR, FlightsOK, ProviderOK, HistoryOK, provider, history
<1>4. QED
  BY <1>1, <1>2, <1>3

LEMMA TypeCreateQR ==
  ASSUME TypeInv, NEW p \in Proc, CreateQR(p)
  PROVE  TypeInv'
<1> USE DEF TypeInv
<1>1. ManagerOK'
  BY DEF CreateQR, ManagerOK, Manager
<1>2. CallOK'
  BY GotoOK, ReturnOK DEF CreateQR
<1>3. /\ FlightsOK'
      /\ ProviderOK'
      /\ HistoryOK'
      /\ vault' \in SavedSession
      /\ store' \in SUBSET Row
  BY DEF CreateQR, FlightsOK, ProviderOK, HistoryOK, provider, history
<1>4. QED
  BY <1>1, <1>2, <1>3

LEMMA TypePollExpired ==
  ASSUME TypeInv, NEW p \in Proc, PollExpired(p)
  PROVE  TypeInv'
<1> USE DEF TypeInv
<1>1. CallOK'
  <2>1. FrameOK(Snapshot("expired", "fail", m.epoch))
    BY SnapshotOK DEF ManagerOK, Manager
  <2>2. QED
    BY <2>1, PutOK DEF PollExpired
<1>2. /\ ManagerOK'
      /\ FlightsOK'
      /\ ProviderOK'
      /\ HistoryOK'
      /\ vault' \in SavedSession
      /\ store' \in SUBSET Row
  BY DEF PollExpired, ManagerOK, FlightsOK, ProviderOK, HistoryOK, provider, history
<1>3. QED
  BY <1>1, <1>2

LEMMA TypePollQR ==
  ASSUME TypeInv, NEW p \in Proc, PollQR(p)
  PROVE  TypeInv'
<1> USE DEF TypeInv
<1>1. ManagerOK'
  BY DEF PollQR, ManagerOK, Manager
<1>2. CallOK'
  <2>1. FrameOK(Snapshot("poll", "auth", m.epoch))
    BY SnapshotOK DEF Methods, ManagerOK, Manager
  <2>2. \A keep \in BOOLEAN : FrameOK([Snapshot("poll", "auth", m.epoch) EXCEPT !.keep = keep])
    BY <2>1 DEF FrameOK, Frame, Snapshot, UsesCredentials
  <2>3. QED
    BY <2>2, PutOK DEF PollQR
<1>3. /\ FlightsOK'
      /\ ProviderOK'
      /\ HistoryOK'
      /\ vault' \in SavedSession
      /\ store' \in SUBSET Row
  BY DEF PollQR, FlightsOK, ProviderOK, HistoryOK, provider, history
<1>4. QED
  BY <1>1, <1>2, <1>3

LEMMA TypeClearBusy ==
  ASSUME TypeInv, NEW p \in Proc, ClearBusy(p)
  PROVE  TypeInv'
<1> USE DEF TypeInv
<1>1. ManagerOK'
  BY DEF ClearBusy, ManagerOK, Manager
<1>2. CallOK'
  BY ReturnOK DEF ClearBusy
<1>3. /\ FlightsOK'
      /\ ProviderOK'
      /\ HistoryOK'
      /\ vault' \in SavedSession
      /\ store' \in SUBSET Row
  BY DEF ClearBusy, FlightsOK, ProviderOK, HistoryOK, provider, history
<1>4. QED
  BY <1>1, <1>2, <1>3

LEMMA TypeCancelQR ==
  ASSUME TypeInv, NEW p \in Proc, CancelQR(p)
  PROVE  TypeInv'
<1> USE DEF TypeInv
<1>1. ManagerOK'
  BY Members DEF CancelQR, AfterCancelQR, ManagerOK, Manager
<1>2. /\ CallOK'
      /\ FlightsOK'
      /\ ProviderOK'
      /\ HistoryOK'
      /\ vault' \in SavedSession
      /\ store' \in SUBSET Row
  BY DEF CancelQR, CallOK, FrameOK, FlightsOK, ProviderOK, HistoryOK, provider, history
<1>3. QED
  BY <1>1, <1>2

LEMMA TypeDoAt ==
  ASSUME TypeInv, NEW p \in Proc, DoAt(p)
  PROVE  TypeInv'
<1> USE DEF TypeInv
<1>1. CallOK'
  <2>1. PICK op \in {"read", "write"}, base \in 1..m.epoch :
          Connected(base) /\ Put(p, Snapshot(op, "send", base))
    BY DEF DoAt
  <2>2. base \in Epoch /\ m.state = "connected" /\ op \in Methods
    BY <2>1, Members DEF Connected, ManagerOK, Manager, Methods
  <2>3. FrameOK(Snapshot(op, "send", base))
    BY <2>2, SnapshotOK
  <2>4. QED
    BY <2>1, <2>3, PutOK
<1>2. /\ ManagerOK'
      /\ FlightsOK'
      /\ ProviderOK'
      /\ HistoryOK'
      /\ vault' \in SavedSession
      /\ store' \in SUBSET Row
  BY DEF DoAt, ManagerOK, FlightsOK, ProviderOK, HistoryOK, provider, history
<1>3. QED
  BY <1>1, <1>2

LEMMA TypeSend ==
  ASSUME TypeInv, NEW p \in Proc, Send(p)
  PROVE  TypeInv'
<1> USE DEF TypeInv
<1>1. CallOK'
  <2>1. call[p].token \in Token
    BY DEF Send, CallOK, FrameOK, UsesCredentials
  <2>2. \A pc \in {"refresh", "reject"} : FrameOK([call[p] EXCEPT !.pc = pc])
    BY <2>1 DEF CallOK, FrameOK, Frame, UsesCredentials
  <2>3. FrameOK([call[p] EXCEPT !.pc = "commit", !.id = owner[call[p].token]])
    BY ZenonT(60), <2>1 DEF CallOK, FrameOK, Frame, UsesCredentials, ProviderOK
  <2>4. QED
    BY <2>2, <2>3, PutOK, ReturnOK DEF Send, Goto
<1>2. /\ ManagerOK'
      /\ FlightsOK'
      /\ ProviderOK'
      /\ HistoryOK'
      /\ vault' \in SavedSession
      /\ store' \in SUBSET Row
  BY DEF Send, ManagerOK, FlightsOK, ProviderOK, HistoryOK, provider, history
<1>3. QED
  BY <1>1, <1>2

LEMMA TypeRefreshRefused ==
  ASSUME TypeInv, NEW p \in Proc, RefreshRefused(p)
  PROVE  TypeInv'
<1> USE DEF TypeInv
<1>1. CallOK'
  BY ReturnOK DEF RefreshRefused
<1>2. /\ ManagerOK'
      /\ FlightsOK'
      /\ ProviderOK'
      /\ HistoryOK'
      /\ vault' \in SavedSession
      /\ store' \in SUBSET Row
  BY DEF RefreshRefused, ManagerOK, FlightsOK, ProviderOK, HistoryOK, provider, history
<1>3. QED
  BY <1>1, <1>2

LEMMA TypeRefreshAlreadyRotated ==
  ASSUME TypeInv, NEW p \in Proc, RefreshAlreadyRotated(p)
  PROVE  TypeInv'
<1> USE DEF TypeInv
<1>1. CallOK'
  BY GotoOK DEF RefreshAlreadyRotated
<1>2. /\ ManagerOK'
      /\ FlightsOK'
      /\ ProviderOK'
      /\ HistoryOK'
      /\ vault' \in SavedSession
      /\ store' \in SUBSET Row
  BY DEF RefreshAlreadyRotated, ManagerOK, FlightsOK, ProviderOK, HistoryOK, provider, history
<1>3. QED
  BY <1>1, <1>2

LEMMA TypeJoinRefresh ==
  ASSUME TypeInv, NEW p \in Proc, JoinRefresh(p)
  PROVE  TypeInv'
<1> USE DEF TypeInv
<1>1. CallOK'
  <2>1. FrameOK([call[p] EXCEPT !.pc = "wait", !.flight = m.flight])
    BY ZenonT(60), Members DEF JoinRefresh, CallOK, FrameOK, Frame, UsesCredentials, ManagerOK, Manager
  <2>2. QED
    BY <2>1, PutOK DEF JoinRefresh
<1>2. /\ ManagerOK'
      /\ FlightsOK'
      /\ ProviderOK'
      /\ HistoryOK'
      /\ vault' \in SavedSession
      /\ store' \in SUBSET Row
  BY DEF JoinRefresh, ManagerOK, FlightsOK, ProviderOK, HistoryOK, provider, history
<1>3. QED
  BY <1>1, <1>2

LEMMA TypeStartRefresh ==
  ASSUME TypeInv, NEW p \in Proc, StartRefresh(p)
  PROVE  TypeInv'
<1> USE DEF TypeInv
<1>1. ManagerOK'
  BY Members DEF StartRefresh, ManagerOK, Manager
<1>2. CallOK'
  <2>1. \A f \in Flight : FrameOK([call[p] EXCEPT !.pc = "wait", !.flight = f])
    BY ZenonT(60), Members DEF StartRefresh, CallOK, FrameOK, Frame, UsesCredentials
  <2>2. QED
    BY <2>1, PutOK DEF StartRefresh
<1>3. FlightsOK'
  <2>1. call[p] \in Frame /\ call[p].token \in Token
    BY DEF StartRefresh, CallOK, FrameOK, UsesCredentials
  <2> DEFINE started == [epoch |-> call[p].epoch, token |-> call[p].token, pc |-> "running",
                         next |-> None, err |-> "none"]
  <2>2. started \in RefreshFlight
    BY <2>1, Members DEF Frame, RefreshFlight
  <2>3. PICK f \in Flight : flights' = [flights EXCEPT ![f] = started]
    BY DEF StartRefresh
  <2>4. QED
    BY <2>1, <2>2, <2>3 DEF FlightsOK
<1>4. /\ ProviderOK'
      /\ HistoryOK'
      /\ vault' \in SavedSession
      /\ store' \in SUBSET Row
  BY DEF StartRefresh, ProviderOK, HistoryOK, provider, history
<1>5. QED
  BY <1>1, <1>2, <1>3, <1>4

LEMMA TypeAwaitRefresh ==
  ASSUME TypeInv, NEW p \in Proc, AwaitRefresh(p)
  PROVE  TypeInv'
<1> USE DEF TypeInv
<1>1. CallOK'
  BY GotoOK, ReturnOK DEF AwaitRefresh
<1>2. /\ ManagerOK'
      /\ FlightsOK'
      /\ ProviderOK'
      /\ HistoryOK'
      /\ vault' \in SavedSession
      /\ store' \in SUBSET Row
  BY DEF AwaitRefresh, ManagerOK, FlightsOK, ProviderOK, HistoryOK, provider, history
<1>3. QED
  BY <1>1, <1>2

LEMMA TypeGiveUp ==
  ASSUME TypeInv, NEW p \in Proc, GiveUp(p)
  PROVE  TypeInv'
<1> USE DEF TypeInv
<1>1. CallOK'
  BY ReturnOK DEF GiveUp
<1>2. /\ ManagerOK'
      /\ FlightsOK'
      /\ ProviderOK'
      /\ HistoryOK'
      /\ vault' \in SavedSession
      /\ store' \in SUBSET Row
  BY DEF GiveUp, ManagerOK, FlightsOK, ProviderOK, HistoryOK, provider, history
<1>3. QED
  BY <1>1, <1>2

LEMMA TypeReadSnapshotAgain ==
  ASSUME TypeInv, NEW p \in Proc, ReadSnapshotAgain(p)
  PROVE  TypeInv'
<1> USE DEF TypeInv
<1>1. CallOK'
  <2>1. CASE Connected(call[p].epoch)
    <3>1. call[p].epoch \in Epoch /\ m.state = "connected"
      BY <2>1 DEF Connected, CallOK, Frame
    <3>2. FrameOK(Snapshot("read", "resend", call[p].epoch))
      BY <3>1, SnapshotOK DEF Methods
    <3>3. QED
      BY <2>1, <3>2, PutOK DEF ReadSnapshotAgain
  <2>2. CASE ~Connected(call[p].epoch)
    BY <2>2, ReturnOK DEF ReadSnapshotAgain
  <2>3. QED
    BY <2>1, <2>2
<1>2. /\ ManagerOK'
      /\ FlightsOK'
      /\ ProviderOK'
      /\ HistoryOK'
      /\ vault' \in SavedSession
      /\ store' \in SUBSET Row
  BY DEF ReadSnapshotAgain, ManagerOK, FlightsOK, ProviderOK, HistoryOK, provider, history
<1>3. QED
  BY <1>1, <1>2

LEMMA TypeReject ==
  ASSUME TypeInv, NEW p \in Proc, Reject(p)
  PROVE  TypeInv'
<1> USE DEF TypeInv
<1>1. ManagerOK'
  BY DEF Reject, ManagerOK, Manager
<1>2. CallOK'
  BY ReturnOK DEF Reject
<1>3. /\ FlightsOK'
      /\ ProviderOK'
      /\ HistoryOK'
      /\ vault' \in SavedSession
      /\ store' \in SUBSET Row
  BY DEF Reject, FlightsOK, ProviderOK, HistoryOK, provider, history
<1>4. QED
  BY <1>1, <1>2, <1>3

LEMMA TypeGuestRead ==
  ASSUME TypeInv, NEW p \in Proc, GuestRead(p)
  PROVE  TypeInv'
<1> USE DEF TypeInv
<1>1. CallOK'
  <2>1. FrameOK(Snapshot("guest", "commit", m.epoch))
    BY SnapshotOK DEF Methods, ManagerOK, Manager
  <2>2. QED
    BY <2>1, PutOK DEF GuestRead
<1>2. /\ ManagerOK'
      /\ FlightsOK'
      /\ ProviderOK'
      /\ HistoryOK'
      /\ vault' \in SavedSession
      /\ store' \in SUBSET Row
  BY DEF GuestRead, ManagerOK, FlightsOK, ProviderOK, HistoryOK, provider, history
<1>3. QED
  BY <1>1, <1>2

LEMMA TypeCommit ==
  ASSUME TypeInv, NEW p \in Proc, Commit(p)
  PROVE  TypeInv'
<1> USE DEF TypeInv
<1>1. CallOK'
  BY ReturnOK DEF Commit
<1>2. store' \in SUBSET Row
  BY DEF Commit, Row, ManagerOK, Manager, CallOK, Frame
<1>3. /\ ManagerOK'
      /\ FlightsOK'
      /\ ProviderOK'
      /\ HistoryOK'
      /\ vault' \in SavedSession
  BY DEF Commit, ManagerOK, FlightsOK, ProviderOK, HistoryOK, provider, history
<1>4. QED
  BY <1>1, <1>2, <1>3

LEMMA TypeLogoutAt ==
  ASSUME TypeInv, NEW p \in Proc, LogoutAt(p)
  PROVE  TypeInv'
<1> USE DEF TypeInv
<1>1. ManagerOK'
  BY Members DEF LogoutAt, AfterLogout, ManagerOK, Manager
<1>2. HistoryOK'
  BY Members DEF LogoutAt, HistoryOK, ManagerOK, Manager
<1>3. vault' \in SavedSession
  BY Members DEF LogoutAt, NoSession, SavedSession
<1>4. store' \in SUBSET Row
  BY DEF LogoutAt
<1>5. /\ CallOK'
      /\ FlightsOK'
      /\ ProviderOK'
  BY DEF LogoutAt, CallOK, FrameOK, FlightsOK, ProviderOK, provider
<1>6. QED
  BY <1>1, <1>2, <1>3, <1>4, <1>5

LEMMA TypeClose ==
  ASSUME TypeInv, NEW p \in Proc, Close(p)
  PROVE  TypeInv'
<1> USE DEF TypeInv
<1>1. ManagerOK'
  BY DEF Close, ManagerOK, Manager
<1>2. CallOK'
  <2>1. FrameOK([Idle EXCEPT !.op = "close", !.pc = "closing"])
    BY Members DEF Idle, FrameOK, Frame, UsesCredentials, Methods
  <2>2. QED
    BY <2>1, PutOK DEF Close
<1>3. /\ FlightsOK'
      /\ ProviderOK'
      /\ HistoryOK'
      /\ vault' \in SavedSession
      /\ store' \in SUBSET Row
  BY DEF Close, FlightsOK, ProviderOK, HistoryOK, provider, history
<1>4. QED
  BY <1>1, <1>2, <1>3

LEMMA TypeCloseReturns ==
  ASSUME TypeInv, NEW p \in Proc, CloseReturns(p)
  PROVE  TypeInv'
<1> USE DEF TypeInv
<1>1. CallOK'
  BY ReturnOK DEF CloseReturns
<1>2. /\ ManagerOK'
      /\ FlightsOK'
      /\ ProviderOK'
      /\ HistoryOK'
      /\ vault' \in SavedSession
      /\ store' \in SUBSET Row
  BY DEF CloseReturns, ManagerOK, FlightsOK, ProviderOK, HistoryOK, provider, history
<1>3. QED
  BY <1>1, <1>2

LEMMA TypeProviderRefresh ==
  ASSUME TypeInv, NEW f \in Flight, ProviderRefresh(f)
  PROVE  TypeInv'
<1> USE DEF TypeInv
<1>1. FlightsOK'
  <2>1. \A n \in Maybe(Token), e \in {"none", "UNAUTHORIZED", "OTHER"} :
          [flights[f] EXCEPT !.pc = "answered", !.next = n, !.err = e] \in RefreshFlight
    BY DEF FlightsOK, RefreshFlight
  <2>2. PICK n \in Maybe(Token), e \in {"none", "UNAUTHORIZED", "OTHER"} :
          flights' = [flights EXCEPT ![f] =
                       [@ EXCEPT !.pc = "answered", !.next = n, !.err = e]]
    <3>1. Fresh \subseteq Maybe(Token) /\ None \in Maybe(Token)
      BY Members DEF Fresh
    <3>2. QED
      BY <3>1 DEF ProviderRefresh
  <2> DEFINE answered == [flights[f] EXCEPT !.pc = "answered", !.next = n, !.err = e]
  <2>3. answered \in RefreshFlight /\ answered.pc = "answered"
    BY <2>1 DEF FlightsOK, RefreshFlight
  <2>4. flights' = [flights EXCEPT ![f] = answered]
    BY <2>2
  <2> HIDE DEF answered
  <2>5. QED
    BY <2>3, <2>4 DEF FlightsOK
<1>2. ProviderOK'
  <2>1. flights[f].token \in Token
    BY DEF ProviderRefresh, FlightsOK
  <2>2. QED
    BY <2>1, Members DEF ProviderRefresh, Rotate, Fresh, ProviderOK, provider
<1>3. /\ ManagerOK'
      /\ CallOK'
      /\ HistoryOK'
      /\ vault' \in SavedSession
      /\ store' \in SUBSET Row
  BY DEF ProviderRefresh, ManagerOK, CallOK, FrameOK, HistoryOK, history
<1>4. QED
  BY <1>1, <1>2, <1>3

LEMMA TypeInstallStale ==
  ASSUME TypeInv, NEW f \in Flight, InstallStale(f)
  PROVE  TypeInv'
<1> USE DEF TypeInv
<1>1. FlightsOK'
  <2>1. [flights[f] EXCEPT !.pc = "done", !.err = "STALE"] \in RefreshFlight
    BY DEF FlightsOK, RefreshFlight
  <2>2. QED
    BY <2>1 DEF InstallStale, Done, FlightsOK
<1>2. /\ ManagerOK'
      /\ CallOK'
      /\ ProviderOK'
      /\ HistoryOK'
      /\ vault' \in SavedSession
      /\ store' \in SUBSET Row
  BY DEF InstallStale, ManagerOK, CallOK, FrameOK, ProviderOK, HistoryOK, provider, history
<1>3. QED
  BY <1>1, <1>2

LEMMA TypeInstallCredentials ==
  ASSUME TypeInv, NEW f \in Flight, InstallCredentials(f)
  PROVE  TypeInv'
<1> USE DEF TypeInv
<1>1. ManagerOK'
  <2>1. flights[f].next \in Token /\ flights[f].epoch \in Epoch
    BY Members DEF InstallCredentials, FlightsOK, RefreshFlight
  <2>2. m.identity \in Scope
    BY DEF ManagerOK, Manager
  <2>3. PICK kept \in BOOLEAN, warn \in BOOLEAN :
          m' = [m EXCEPT !.token = flights[f].next, !.persistent = kept, !.warning = warn]
    <3>1. CASE m.persistent
      <4>1. PICK o \in SaveOutcomes(flights[f].next, m.identity, flights[f].epoch) :
              m' = [m EXCEPT !.token = flights[f].next, !.persistent = o.kept,
                             !.warning = @ \/ ~o.kept]
        BY <3>1 DEF InstallCredentials
      <4>2. o.kept \in BOOLEAN /\ (m.warning \/ ~o.kept) \in BOOLEAN
        BY <2>1, <2>2, SavedOK
      <4>3. QED
        BY <4>1, <4>2
    <3>2. CASE ~m.persistent
      <4>1. m' = [m EXCEPT !.token = flights[f].next]
        BY <3>2 DEF InstallCredentials
      <4>2. m' = [m EXCEPT !.token = flights[f].next, !.persistent = m.persistent,
                           !.warning = m.warning]
        BY <4>1 DEF ManagerOK, Manager
      <4>3. m.persistent \in BOOLEAN /\ m.warning \in BOOLEAN
        BY DEF ManagerOK, Manager
      <4>4. QED
        BY <4>2, <4>3
    <3>3. QED
      BY <3>1, <3>2
  <2>4. QED
    BY <2>1, <2>3, Members DEF ManagerOK, Manager
<1>2. FlightsOK'
  <2>1. flights' = [flights EXCEPT ![f] = [@ EXCEPT !.pc = "done", !.err = flights[f].err]]
    BY DEF InstallCredentials, Done
  <2>2. [flights[f] EXCEPT !.pc = "done", !.err = flights[f].err] \in RefreshFlight
    BY DEF FlightsOK, RefreshFlight
  <2>3. QED
    BY <2>1, <2>2 DEF FlightsOK
<1>3. vault' \in SavedSession
  <2>1. flights[f].next \in Token /\ flights[f].epoch \in Epoch
    BY Members DEF InstallCredentials, FlightsOK, RefreshFlight
  <2>2. m.identity \in Scope
    BY DEF ManagerOK, Manager
  <2>3. QED
    BY <2>1, <2>2, SavedOK DEF InstallCredentials
<1>4. /\ CallOK'
      /\ ProviderOK'
      /\ HistoryOK'
      /\ store' \in SUBSET Row
  BY DEF InstallCredentials, CallOK, FrameOK, ProviderOK, HistoryOK, provider, history
<1>5. QED
  BY <1>1, <1>2, <1>3, <1>4

LEMMA TypeInstallFailure ==
  ASSUME TypeInv, NEW f \in Flight, InstallFailure(f)
  PROVE  TypeInv'
<1> USE DEF TypeInv
<1>1. ManagerOK'
  BY DEF InstallFailure, ManagerOK, Manager
<1>2. FlightsOK'
  <2>1. [flights[f] EXCEPT !.pc = "done", !.err = flights[f].err] \in RefreshFlight
    BY DEF FlightsOK, RefreshFlight
  <2>2. QED
    BY <2>1 DEF InstallFailure, Done, FlightsOK
<1>3. /\ CallOK'
      /\ ProviderOK'
      /\ HistoryOK'
      /\ vault' \in SavedSession
      /\ store' \in SUBSET Row
  BY DEF InstallFailure, CallOK, FrameOK, ProviderOK, HistoryOK, provider, history
<1>4. QED
  BY <1>1, <1>2, <1>3

LEMMA TypeInit == Init => TypeInv
<1> SUFFICES ASSUME Init PROVE TypeInv
  OBVIOUS
<1>1. ManagerOK
  BY Members DEF Init, NewManager, ManagerOK, Manager
<1>2. CallOK
  BY IdleOK DEF Init, CallOK
<1>3. FlightsOK
  BY Members DEF Init, NoFlight, FlightsOK, RefreshFlight
<1>4. ProviderOK /\ vault \in SavedSession
  BY Members DEF Init, ProviderOK, SavedSession, NoSession
<1>5. HistoryOK /\ store \in SUBSET Row
  BY Members DEF Init, HistoryOK
<1>6. QED
  BY <1>1, <1>2, <1>3, <1>4, <1>5 DEF TypeInv

LEMMA TypeStep == TypeInv /\ [Next]_vars => TypeInv'
<1> SUFFICES ASSUME TypeInv, [Next]_vars PROVE TypeInv'
  OBVIOUS
<1>1. CASE \E p \in Proc : Enter(p)
  BY <1>1, TypeLoginAt, TypeCancelLogin, TypeRestoreView, TypeStartQR, TypePollExpired,
     TypePollQR, TypeCancelQR, TypeDoAt, TypeGuestRead, TypeLogoutAt, TypeClose
  DEF Enter
<1>2. CASE \E p \in Proc : Resume(p)
  BY <1>2, TypeAuthenticate, TypeFinishFailure, TypeEstablishStale, TypeEstablishRefused,
     TypeEstablish, TypeRestoreLoad, TypeRestoreBegin, TypeRestoreMe, TypeCreateQR,
     TypeClearBusy, TypeSend, TypeRefreshRefused, TypeRefreshAlreadyRotated,
     TypeJoinRefresh, TypeStartRefresh, TypeAwaitRefresh, TypeReadSnapshotAgain,
     TypeReject, TypeCommit, TypeCloseReturns
  DEF Resume
<1>3. CASE \E p \in Proc : GiveUp(p)
  BY <1>3, TypeGiveUp
<1>4. CASE \E f \in Flight : PerformRefresh(f)
  BY <1>4, TypeProviderRefresh, TypeInstallStale, TypeInstallCredentials,
     TypeInstallFailure
  DEF PerformRefresh
<1>5. CASE QRTimeout
  BY <1>5 DEF QRTimeout, TypeInv, ManagerOK, Manager, CallOK, FrameOK, FlightsOK,
             ProviderOK, HistoryOK, provider, history
<1>6. CASE Expire
  BY <1>6 DEF Expire, TypeInv, ManagerOK, CallOK, FrameOK, FlightsOK, ProviderOK,
             HistoryOK, history
<1>7. CASE UNCHANGED vars
  BY <1>7 DEF vars, TypeInv, ManagerOK, CallOK, FrameOK, FlightsOK, ProviderOK, HistoryOK
<1>8. QED
  BY <1>1, <1>2, <1>3, <1>4, <1>5, <1>6, <1>7 DEF Next

LEMMA Typed == Spec => []TypeInv
  BY TypeInit, TypeStep, PTL DEF Spec

(* Every reachable state has the declared shape: in particular a goroutine *)
(* never sends a request without credentials, however the others interfere. *)
THEOREM SessionTypeCorrect == Spec => []TypeOK
<1>1. TypeInv => TypeOK
  BY DEF TypeInv, TypeOK, ManagerOK, CallOK, FlightsOK, ProviderOK, HistoryOK
<1>2. QED
  BY <1>1, Typed, PTL

----------------------------------------------------------------------------
(* The fence.  Whatever is written through Current(e) is written in epoch  *)
(* e itself, and no wipe is ever ahead of the epoch.                       *)

WipesInPast ==
  /\ \A s \in Scope : wiped[s] <= m.epoch
  /\ vaultWiped <= m.epoch

FenceInv ==
  /\ WipesInPast
  /\ WipedStaysWiped
  /\ RevokedStaysRevoked

(* What a step that touches neither the vault nor the rows does to both.   *)
Quiet ==
  /\ UNCHANGED <<vault, store, wiped, vaultWiped>>
  /\ m'.epoch = m.epoch \/ m'.epoch = m.epoch + 1

LEMMA QuietBegin ==
  ASSUME TypeInv, NEW p \in Proc, NEW base, NEW sms \in BOOLEAN, NEW frame,
         BeginAttempt(p, base, sms, frame)
  PROVE  m'.epoch = m.epoch + 1
  BY DEF TypeInv, ManagerOK, Manager, BeginAttempt

LEMMA QuietEnter ==
  ASSUME TypeInv, NEW p \in Proc, Enter(p)
  PROVE  Quiet \/ LogoutAt(p)
<1> USE DEF Quiet, history, TypeInv, ManagerOK, Manager
<1>1. CASE LoginAt(p)
  BY <1>1, QuietBegin DEF LoginAt
<1>2. CASE CancelLogin(p)
  <2>1. m' = [m EXCEPT !.epoch = @ + 1, !.state = "guest", !.smsBase = 0]
    BY <1>2 DEF CancelLogin
  <2>2. QED
    BY <1>2, <2>1 DEF CancelLogin
<1>3. CASE RestoreView(p) \/ PollExpired(p) \/ DoAt(p) \/ GuestRead(p)
  BY <1>3 DEF RestoreView, PollExpired, DoAt, GuestRead
<1>4. CASE StartQR(p)
  BY <1>4, QuietBegin DEF StartQR
<1>5. CASE PollQR(p) \/ CancelQR(p) \/ Close(p)
  BY <1>5 DEF PollQR, CancelQR, AfterCancelQR, Close
<1>6. QED
  BY <1>1, <1>2, <1>3, <1>4, <1>5 DEF Enter

LEMMA QuietResume ==
  ASSUME TypeInv, NEW p \in Proc, Resume(p)
  PROVE  Quiet \/ EstablishRefused(p) \/ Establish(p) \/ Commit(p)
<1> USE DEF Quiet, history, TypeInv, ManagerOK, Manager
<1>1. CASE Authenticate(p) \/ EstablishStale(p) \/ RestoreLoad(p) \/ RestoreMe(p) \/ Send(p)
  BY <1>1 DEF Authenticate, EstablishStale, RestoreLoad, RestoreMe, Send
<1>2. CASE FinishFailure(p) \/ ClearBusy(p) \/ CreateQR(p) \/ Reject(p)
  BY <1>2 DEF FinishFailure, AfterFailure, ClearBusy, CreateQR, Reject
<1>3. CASE RestoreBegin(p)
  BY <1>3, QuietBegin DEF RestoreBegin
<1>4. CASE \/ RefreshRefused(p) \/ RefreshAlreadyRotated(p) \/ JoinRefresh(p)
           \/ AwaitRefresh(p) \/ ReadSnapshotAgain(p) \/ CloseReturns(p)
  BY <1>4 DEF RefreshRefused, RefreshAlreadyRotated, JoinRefresh, AwaitRefresh,
             ReadSnapshotAgain, CloseReturns
<1>5. CASE StartRefresh(p)
  BY <1>5 DEF StartRefresh
<1>6. QED
  BY <1>1, <1>2, <1>3, <1>4, <1>5 DEF Resume

LEMMA QuietFlight ==
  ASSUME TypeInv, NEW f \in Flight, PerformRefresh(f)
  PROVE  Quiet \/ InstallCredentials(f)
<1> USE DEF Quiet, history, TypeInv, ManagerOK, Manager
<1>1. CASE ProviderRefresh(f) \/ InstallStale(f) \/ InstallFailure(f)
  BY <1>1 DEF ProviderRefresh, InstallStale, InstallFailure
<1>2. QED
  BY <1>1 DEF PerformRefresh

LEMMA FenceQuiet == ASSUME TypeInv, FenceInv, Quiet PROVE FenceInv'
<1>1. /\ m.epoch \in Nat /\ vaultWiped \in Nat
      /\ \A s \in Scope : wiped[s] \in Nat
  BY SessionAssumption DEF TypeInv, ManagerOK, Manager, HistoryOK, Epoch
<1>2. WipesInPast'
  BY <1>1 DEF Quiet, FenceInv, WipesInPast
<1>3. WipedStaysWiped' /\ RevokedStaysRevoked'
  BY DEF Quiet, FenceInv, WipedStaysWiped, RevokedStaysRevoked
<1>4. QED
  BY <1>2, <1>3 DEF FenceInv

(* The vault after vault.Save: as it was, empty, or saved in epoch e.      *)
LEMMA SaveFence ==
  ASSUME NEW t, NEW id, NEW e, NEW o \in SaveOutcomes(t, id, e), vault' = o.vault
  PROVE  vault' = vault \/ vault'.token = None \/ vault'.epoch = e
  BY DEF SaveOutcomes, NoSession

LEMMA FenceSave ==
  ASSUME TypeInv, FenceInv, UNCHANGED <<store, wiped, vaultWiped>>, m'.epoch = m.epoch,
         vault' = vault \/ vault'.token = None \/ vault'.epoch = m.epoch
  PROVE  FenceInv'
  BY DEF TypeInv, ManagerOK, Manager, HistoryOK, Epoch, FenceInv, WipesInPast,
         WipedStaysWiped, RevokedStaysRevoked

LEMMA FenceEstablish ==
  ASSUME TypeInv, FenceInv, NEW p \in Proc, EstablishRefused(p) \/ Establish(p)
  PROVE  FenceInv'
<1> USE DEF TypeInv, ManagerOK, Manager, history
<1>1. CASE EstablishRefused(p)
  <2>1. vault' = vault \/ vault' = NoSession
    BY <1>1 DEF EstablishRefused
  <2>2. QED
    BY <1>1, <2>1, FenceSave DEF EstablishRefused, NoSession
<1>2. CASE Establish(p)
  <2>1. m'.epoch = m.epoch
    BY <1>2 DEF Establish, Connect
  <2>2. m.epoch = call[p].epoch
    BY <1>2 DEF Establish, MayEstablish, Current
  <2>3. vault' = vault \/ vault'.token = None \/ vault'.epoch = call[p].epoch
    <3>1. CASE call[p].keep
      BY <1>2, <3>1, SaveFence DEF Establish
    <3>2. CASE ~call[p].keep
      <4>1. vault' = NoSession
        BY <1>2, <3>2 DEF Establish
      <4>2. QED
        BY <4>1 DEF NoSession
    <3>3. QED
      BY <3>1, <3>2
  <2>4. QED
    BY <1>2, <2>1, <2>2, <2>3, FenceSave DEF Establish
<1>3. QED
  BY <1>1, <1>2

LEMMA FenceInstall ==
  ASSUME TypeInv, FenceInv, NEW f \in Flight, InstallCredentials(f)
  PROVE  FenceInv'
<1>1. m'.epoch = m.epoch
  BY DEF InstallCredentials, TypeInv, ManagerOK, Manager
<1>2. m.epoch = flights[f].epoch
  BY DEF InstallCredentials, Current
<1>3. vault' = vault \/ vault'.token = None \/ vault'.epoch = flights[f].epoch
  BY SaveFence DEF InstallCredentials
<1>4. QED
  BY <1>1, <1>2, <1>3, FenceSave DEF InstallCredentials, history

LEMMA FenceCommit ==
  ASSUME TypeInv, FenceInv, NEW p \in Proc, Commit(p)
  PROVE  FenceInv'
<1>1. \A r \in store' : r \in store \/ (r.epoch = m.epoch /\ r.scope = m.identity)
  BY DEF Commit, Current
<1>2. m.identity \in Scope
  BY DEF TypeInv, ManagerOK, Manager
<1>3. WipedStaysWiped'
  BY <1>1, <1>2
  DEF Commit, history, FenceInv, WipesInPast, WipedStaysWiped, TypeInv, ManagerOK, Manager,
      HistoryOK, Epoch
<1>4. QED
  BY <1>3 DEF Commit, history, FenceInv, WipesInPast, RevokedStaysRevoked

LEMMA FenceLogout ==
  ASSUME TypeInv, FenceInv, NEW p \in Proc, LogoutAt(p)
  PROVE  FenceInv'
<1>1. m'.epoch = m.epoch + 1 /\ m.epoch \in Epoch /\ m.identity \in Scope
  BY DEF LogoutAt, AfterLogout, TypeInv, ManagerOK, Manager
<1>2. WipesInPast'
  <2>1. /\ m.epoch \in Nat /\ vaultWiped \in Nat
        /\ \A s \in Scope : wiped[s] \in Nat
    BY <1>1, SessionAssumption DEF TypeInv, HistoryOK, Epoch
  <2>2. \A s \in Scope : wiped'[s] = wiped[s] \/ wiped'[s] = m.epoch + 1
    BY DEF LogoutAt, TypeInv, HistoryOK
  <2>3. vaultWiped' = vaultWiped \/ vaultWiped' = m.epoch + 1
    BY DEF LogoutAt
  <2>4. QED
    BY <1>1, <2>1, <2>2, <2>3 DEF FenceInv, WipesInPast
<1>3. WipedStaysWiped'
  BY <1>1 DEF LogoutAt, FenceInv, WipedStaysWiped, TypeInv, HistoryOK, Row
<1>4. RevokedStaysRevoked'
  BY DEF LogoutAt, FenceInv, RevokedStaysRevoked, NoSession
<1>5. QED
  BY <1>2, <1>3, <1>4 DEF FenceInv

LEMMA FenceStep == TypeInv /\ FenceInv /\ [Next]_vars => FenceInv'
<1> SUFFICES ASSUME TypeInv, FenceInv, [Next]_vars PROVE FenceInv'
  OBVIOUS
<1>1. CASE \E p \in Proc : Enter(p)
  BY <1>1, QuietEnter, FenceQuiet, FenceLogout
<1>2. CASE \E p \in Proc : Resume(p)
  BY <1>2, QuietResume, FenceQuiet, FenceEstablish, FenceCommit
<1>3. CASE \E f \in Flight : PerformRefresh(f)
  BY <1>3, QuietFlight, FenceQuiet, FenceInstall
<1>4. CASE (\E p \in Proc : GiveUp(p)) \/ QRTimeout \/ Expire \/ UNCHANGED vars
  <2>1. Quiet
    BY <1>4 DEF GiveUp, QRTimeout, Expire, vars, Quiet, history, TypeInv, ManagerOK, Manager
  <2>2. QED
    BY <2>1, FenceQuiet
<1>5. QED
  BY <1>1, <1>2, <1>3, <1>4 DEF Next

LEMMA FenceInit == Init => FenceInv
<1> SUFFICES ASSUME Init PROVE FenceInv
  OBVIOUS
<1>1. WipesInPast
  BY DEF Init, NewManager, WipesInPast
<1>2. WipedStaysWiped
  BY DEF Init, WipedStaysWiped
<1>3. RevokedStaysRevoked
  BY DEF Init, NoSession, RevokedStaysRevoked
<1>4. QED
  BY <1>1, <1>2, <1>3 DEF FenceInv

LEMMA Fenced == Spec => []FenceInv
  BY FenceInit, FenceStep, Typed, PTL DEF Spec

(* After LogoutAt has deleted an account's rows, no request that was in    *)
(* flight, however many there are and however they are scheduled, writes   *)
(* one of them again.                                                      *)
THEOREM SessionWipedStaysWiped == Spec => []WipedStaysWiped
<1>1. FenceInv => WipedStaysWiped
  BY DEF FenceInv
<1>2. QED
  BY <1>1, Fenced, PTL

(* After LogoutAt has cleared the vault, no refresh or login that was in   *)
(* flight saves credentials there again.                                   *)
THEOREM SessionRevokedStaysRevoked == Spec => []RevokedStaysRevoked
<1>1. FenceInv => RevokedStaysRevoked
  BY DEF FenceInv
<1>2. QED
  BY <1>1, Fenced, PTL

----------------------------------------------------------------------------
(* Closing.  Every step of a closed Manager is one of those that Current   *)
(* does not guard; none of them saves, writes or starts a refresh.         *)

ClosedStep ==
  /\ \A f \in Flight : Running(f)' => Running(f)
  /\ UNCHANGED <<vault, store>>
  /\ m'.token = m.token /\ m'.closed

LEMMA ClosedEnter ==
  ASSUME TypeInv, m.closed, NEW p \in Proc, Enter(p)
  PROVE  ClosedStep
<1> USE DEF ClosedStep, TypeInv, ManagerOK, Manager, Running, Current, MayBegin
<1>1. CASE LoginAt(p) \/ CancelLogin(p) \/ StartQR(p) \/ PollExpired(p) \/ PollQR(p) \/ DoAt(p)
           \/ LogoutAt(p)
  BY <1>1 DEF LoginAt, CancelLogin, StartQR, PollExpired, PollQR, DoAt, LogoutAt,
             BeginAttempt, Pollable, Connected
<1>2. CASE RestoreView(p) \/ GuestRead(p)
  BY <1>2 DEF RestoreView, GuestRead
<1>3. CASE CancelQR(p) \/ Close(p)
  BY <1>3 DEF CancelQR, AfterCancelQR, Close
<1>4. QED
  BY <1>1, <1>2, <1>3 DEF Enter

LEMMA ClosedResume ==
  ASSUME TypeInv, m.closed, NEW p \in Proc, Resume(p)
  PROVE  ClosedStep
<1> USE DEF ClosedStep, TypeInv, ManagerOK, Manager, Running
<1>1. CASE \/ Authenticate(p) \/ EstablishStale(p) \/ RestoreLoad(p) \/ RestoreMe(p)
           \/ Send(p) \/ RefreshRefused(p) \/ AwaitRefresh(p) \/ ReadSnapshotAgain(p)
           \/ CloseReturns(p)
  BY <1>1 DEF Authenticate, EstablishStale, RestoreLoad, RestoreMe, Send, RefreshRefused,
             AwaitRefresh, ReadSnapshotAgain, CloseReturns
<1>2. CASE EstablishRefused(p) \/ Establish(p) \/ RefreshAlreadyRotated(p) \/ JoinRefresh(p)
           \/ StartRefresh(p)
  BY <1>2 DEF EstablishRefused, Establish, MayEstablish, RefreshAlreadyRotated, JoinRefresh,
             StartRefresh, Connected, Current
<1>3. CASE FinishFailure(p) \/ ClearBusy(p) \/ Reject(p)
  BY <1>3 DEF FinishFailure, AfterFailure, ClearBusy, Reject
<1>4. CASE RestoreBegin(p) \/ CreateQR(p)
  BY <1>4 DEF RestoreBegin, BeginAttempt, MayBegin, CreateQR, Current
<1>5. CASE Commit(p)
  BY <1>5 DEF Commit, Current
<1>6. QED
  BY <1>1, <1>2, <1>3, <1>4, <1>5 DEF Resume

LEMMA ClosedFlight ==
  ASSUME TypeInv, m.closed, NEW f \in Flight, PerformRefresh(f)
  PROVE  ClosedStep
<1> USE DEF ClosedStep, TypeInv, ManagerOK, Manager, FlightsOK, RefreshFlight, Running
<1>1. CASE ProviderRefresh(f)
  BY <1>1 DEF ProviderRefresh
<1>2. CASE InstallStale(f)
  BY <1>2 DEF InstallStale, Done
<1>3. CASE InstallCredentials(f) \/ InstallFailure(f)
  BY <1>3 DEF InstallCredentials, InstallFailure, Current
<1>4. QED
  BY <1>1, <1>2, <1>3 DEF PerformRefresh

LEMMA ClosedNext == TypeInv /\ [Next]_vars => [m.closed => ClosedStep]_vars
<1> SUFFICES ASSUME TypeInv, Next, m.closed PROVE ClosedStep
  OBVIOUS
<1>1. CASE (\E p \in Proc : GiveUp(p)) \/ QRTimeout \/ Expire
  BY <1>1 DEF GiveUp, QRTimeout, Expire, ClosedStep, TypeInv, ManagerOK, Manager, Running
<1>2. QED
  BY <1>1, ClosedEnter, ClosedResume, ClosedFlight DEF Next

(* After Close has fenced the Manager no refresh goroutine is started      *)
(* (jobs.Add after jobs.Wait) and nothing is saved or written any more.    *)
THEOREM SessionClosedIsFinal == Spec => ClosedIsFinal
<1>1. [m.closed => ClosedStep]_vars <=>
      [m.closed => /\ \A f \in Flight : Running(f)' => Running(f)
                   /\ UNCHANGED <<vault, store>>
                   /\ m'.token = m.token /\ m'.closed]_vars
  BY DEF ClosedStep
<1>2. QED
  BY <1>1, ClosedNext, Typed, PTL DEF Spec, ClosedIsFinal
=============================================================================
