--------------------------- MODULE ProgressProofs ---------------------------
(***************************************************************************)
(* The safety of ProgressSync, for any accounts, episodes, positions and   *)
(* goroutines in any roles, whatever happens around them.                  *)
(***************************************************************************)
EXTENDS ProgressSync, TLAPS

Holding == Working \cup {"leave"}
Loaded == {"read", "reconcile", "admit", "send", "sent", "landed"}
Sending == {"send", "sent", "landed"}

(* What a frame holds at each control location.                            *)
FrameShape(c) ==
  /\ c.pc \in Loaded \/ c.op \in {"prepare", "choose"} => c.id \in Episode
  /\ c.pc = "view" => c.op \in {"prepare", "choose"}
  /\ c.pc \in Sending => c.sent \in Rec

(* The outbox holds the local position, as it was saved or chosen here,    *)
(* and a conflict is about one that was.                                   *)
RowShape(r) ==
  /\ r.pending # None => r.pending = r.local /\ r.pending.by = "here" /\ r.pending.at <= now
  /\ r.conflict # None => r.local # None /\ r.local.by = "here"
  /\ r.ready <= r.revision

(* An upload whose sender still waits is the one its frame speaks of.      *)
Owned(w) ==
  w.by # None => /\ call[w.by].pc = "sent"
                 /\ call[w.by].id = w.id /\ call[w.by].sent = w.rec

Rows == [Scope -> [Episode -> progressRecord]]
Clouds == [Account -> [Episode -> Maybe(Rec)]]
Sessions == [epoch : 1..MaxEpoch, scope : Scope]

RowsOK == rows \in Rows /\ \A s \in Scope, id \in Episode : RowShape(rows[s][id])
CallsOK == call \in [Proc -> Frame] /\ \A p \in Proc : FrameShape(call[p])
WireOK ==
  /\ wire \in SUBSET Upload
  /\ \A w \in wire : Owned(w)
  /\ \A v, w \in wire : v.by = w.by /\ v.by # None => v = w
HistoryOK ==
  /\ cloud \in Clouds
  /\ landed \in SUBSET (Account \X Episode \X Maybe(Rec))
  /\ seen \in SUBSET (Scope \X Episode \X Maybe(Rec))
RestOK ==
  /\ session \in Sessions /\ disabled \in BOOLEAN
  /\ gate \in Maybe(Proc) /\ handle \in Maybe(Proc)
  /\ status \in Status /\ dialog \in Dialog /\ now \in Time

TypeInv == RestOK /\ HistoryOK /\ RowsOK /\ CallsOK /\ WireOK

----------------------------------------------------------------------------
(* Facts about the operators.                                              *)

LEMMA Constants ==
  /\ MaxTime \in Nat \ {0} /\ MaxRevision \in Nat /\ MaxEpoch \in Nat \ {0}
  /\ Window \in Nat /\ Ahead \in Nat
  /\ Role \in [Proc -> SUBSET Operations]
  /\ None \notin Account /\ None \notin Token /\ None \notin Proc /\ None \notin Rec
  /\ None \in Scope /\ Account \subseteq Scope /\ \A s \in Scope : s # None => s \in Account
  /\ \A S : None \in Maybe(S) /\ S \subseteq Maybe(S)
  /\ \A S : \A x \in Maybe(S) : x # None => x \in S
  /\ 0 \in 0..MaxRevision /\ 0 \in 0..MaxEpoch /\ 1 \in 1..MaxEpoch /\ 1 \in 0..MaxEpoch
  /\ 1 \in Time /\ Time \subseteq Nat
BY ProgressAssumption DEF Scope, Maybe, Rec, Time

LEMMA RecOK ==
  ASSUME NEW r \in Rec
  PROVE  /\ r.at \in Nat /\ r.pos \in Pos /\ r # None
         /\ \A t \in Time : [r EXCEPT !.at = t] \in Rec
BY Constants DEF Rec

LEMMA IdleOK == Idle \in Frame /\ FrameShape(Idle) /\ NoRow \in progressRecord
<1>1. Idle \in Frame
  BY Constants DEF Idle, Frame
<1>2. NoRow \in progressRecord
  BY Constants DEF NoRow, progressRecord
<1>3. FrameShape(Idle)
  BY DEF Idle, FrameShape, Loaded, Sending
<1>4. QED
  BY <1>1, <1>2, <1>3

LEMMA NoRowOK == ASSUME now \in Nat PROVE RowShape(NoRow)
BY DEF RowShape, NoRow

LEMMA RowOK ==
  ASSUME RestOK, RowsOK, NEW id \in Episode
  PROVE  /\ session.scope \in Scope /\ session.epoch \in 1..MaxEpoch
         /\ Row(id) \in progressRecord /\ RowShape(Row(id))
         /\ \A s \in Scope : rows[s][id] \in progressRecord
BY DEF RestOK, RowsOK, Sessions, Rows, Row

(* Writing one row.                                                        *)
LEMMA PutRow ==
  ASSUME RestOK, RowsOK, NEW id \in Episode, NEW r \in progressRecord, RowShape(r),
         putProgress(id, r), now' = now
  PROVE  /\ RowsOK'
         /\ rows'[session.scope][id] = r
         /\ \A s \in Scope, i \in Episode :
              s # session.scope \/ i # id => rows'[s][i] = rows[s][i]
<1>1. session.scope \in Scope
  BY RowOK
<1>2. /\ rows' \in Rows /\ rows'[session.scope][id] = r
      /\ \A s \in Scope, i \in Episode :
           s # session.scope \/ i # id => rows'[s][i] = rows[s][i]
  BY <1>1 DEF RowsOK, Rows, putProgress
<1>3. ASSUME NEW s \in Scope, NEW i \in Episode
      PROVE  RowShape(rows[s][i])'
  <2>1. RowShape(rows'[s][i])
    BY <1>2 DEF RowsOK
  <2>2. QED
    BY <2>1 DEF RowShape
<1>4. QED
  BY <1>2, <1>3 DEF RowsOK, Rows

(* Replacing one frame.                                                    *)
LEMMA PutFrame ==
  ASSUME CallsOK, NEW p \in Proc, NEW f \in Frame, FrameShape(f), Put(p, f)
  PROVE  /\ CallsOK' /\ call'[p] = f
         /\ \A q \in Proc : q # p => call'[q] = call[q]
<1>1. /\ call' \in [Proc -> Frame] /\ call'[p] = f
      /\ \A q \in Proc : q # p => call'[q] = call[q]
  BY DEF CallsOK, Put
<1>2. \A q \in Proc : FrameShape(call'[q])
  BY <1>1 DEF CallsOK
<1>3. QED
  BY <1>1, <1>2 DEF CallsOK, FrameShape, Loaded, Sending

(* A frame that keeps what its upload says, or has none.                   *)
KeepsUpload(c, f) == c.pc = "sent" => f.pc = "sent" /\ f.id = c.id /\ f.sent = c.sent

LEMMA KeepWire ==
  ASSUME WireOK, CallsOK, NEW p \in Proc, NEW f \in Frame, Put(p, f),
         KeepsUpload(call[p], f), wire' = wire
  PROVE  WireOK'
<1>1. ASSUME NEW w \in wire PROVE Owned(w)'
  <2>1. w.by \in Maybe(Proc)
    BY DEF WireOK, Upload
  <2>2. CASE w.by = None
    BY <2>2 DEF Owned
  <2>3. CASE w.by # None
    <3>1. w.by \in Proc
      BY <2>1, <2>3, Constants
    <3>2. CASE w.by = p
      BY <3>1, <3>2, <2>3 DEF Put, Owned, WireOK, KeepsUpload, CallsOK
    <3>3. CASE w.by # p
      BY <3>1, <3>3, <2>3 DEF Put, Owned, WireOK, CallsOK
    <3>4. QED
      BY <3>2, <3>3
  <2>4. QED
    BY <2>2, <2>3
<1>2. QED
  BY <1>1 DEF WireOK

(* What every step that only moves one goroutine on keeps.                 *)
LEMMA FrameStep ==
  ASSUME TypeInv, NEW p \in Proc, NEW f \in Frame, FrameShape(f), KeepsUpload(call[p], f),
         Put(p, f), UNCHANGED <<rows, wire, now, cloud, landed, seen>>, RestOK'
  PROVE  TypeInv'
<1>1. CallsOK'
  BY PutFrame DEF TypeInv
<1>2. WireOK'
  BY KeepWire DEF TypeInv
<1>3. RowsOK'
  BY DEF TypeInv, RowsOK, RowShape
<1>4. HistoryOK'
  BY DEF TypeInv, HistoryOK
<1>5. QED
  BY <1>1, <1>2, <1>3, <1>4 DEF TypeInv

----------------------------------------------------------------------------
(* The frames that the steps leave behind.                                 *)

Pcs == {"idle", "gate", "list", "load", "read", "reconcile", "admit", "send", "sent",
        "landed", "leave", "result", "view"}

LEMMA GotoOK ==
  ASSUME NEW c \in Frame, FrameShape(c), NEW pc \in Pcs \ {"view"},
         pc \in Loaded => c.pc \in Loaded, pc \in Sending => c.pc \in Sending
  PROVE  [c EXCEPT !.pc = pc] \in Frame /\ FrameShape([c EXCEPT !.pc = pc])
<1>1. [c EXCEPT !.pc = pc] \in Frame
  BY DEF Frame, Pcs
<1>2. FrameShape([c EXCEPT !.pc = pc])
  BY DEF Frame, FrameShape, Loaded, Sending
<1>3. QED
  BY <1>1, <1>2

LEMMA LeavingOK ==
  ASSUME NEW c \in Frame, FrameShape(c), NEW b \in BOOLEAN
  PROVE  Leaving(c, b) \in Frame /\ FrameShape(Leaving(c, b))
<1>1. Leaving(c, b) \in Frame
  BY Constants DEF Frame, Leaving
<1>2. FrameShape(Leaving(c, b))
  BY DEF Frame, FrameShape, Loaded, Sending, Leaving
<1>3. QED
  BY <1>1, <1>2

LEMMA NextUploadOK ==
  ASSUME NEW c \in Frame, FrameShape(c)
  PROVE  NextUpload(c) \in Frame /\ FrameShape(NextUpload(c))
<1>1. NextUpload(c) \in Frame
  BY Constants DEF Frame, Leaving, NextUpload
<1>2. FrameShape(NextUpload(c))
  BY DEF Frame, FrameShape, Loaded, Sending, Leaving, NextUpload
<1>3. QED
  BY <1>1, <1>2

LEMMA AfterReconcileOK ==
  ASSUME NEW c \in Frame, FrameShape(c), c.pc = "reconcile"
  PROVE  AfterReconcile(c) \in Frame /\ FrameShape(AfterReconcile(c))
<1>1. AfterReconcile(c) \in Frame
  BY Constants DEF Frame, Leaving, AfterReconcile
<1>2. FrameShape(AfterReconcile(c))
  BY DEF Frame, FrameShape, Loaded, Sending, Leaving, AfterReconcile
<1>3. QED
  BY <1>1, <1>2

LEMMA BeginOK ==
  ASSUME RestOK, NEW op \in Operations, NEW pc \in {"gate", "view"}, NEW id \in Maybe(Episode),
         op \in {"prepare", "choose"} => id \in Episode,
         pc = "view" => op \in {"prepare", "choose"}
  PROVE  LET f == [Idle EXCEPT !.op = op, !.pc = pc, !.epoch = session.epoch, !.id = id]
         IN f \in Frame /\ FrameShape(f)
<1> DEFINE f == [Idle EXCEPT !.op = op, !.pc = pc, !.epoch = session.epoch, !.id = id]
<1>1. session.epoch \in 0..MaxEpoch
  BY Constants DEF RestOK, Sessions
<1>2. f \in Frame
  BY <1>1, Constants DEF Idle, Frame
<1>3. FrameShape(f)
  BY DEF Idle, FrameShape, Loaded, Sending
<1>4. QED
  BY <1>2, <1>3

LEMMA RestSame ==
  ASSUME RestOK, UNCHANGED <<session, disabled, gate, handle, status, dialog, now>>
  PROVE  RestOK'
BY DEF RestOK

LEMMA CallOK ==
  ASSUME CallsOK, NEW p \in Proc
  PROVE  call[p] \in Frame /\ FrameShape(call[p])
BY DEF CallsOK

----------------------------------------------------------------------------
(* The steps that move one goroutine on.                                   *)

LEMMA PrepareType ==
  ASSUME TypeInv, NEW p \in Proc, PrepareProgress(p)
  PROVE  TypeInv'
<1>1. PICK id \in Episode : Begin(p, "prepare", IF disabled THEN "view" ELSE "gate", id)
  BY DEF PrepareProgress
<1> DEFINE pc == IF disabled THEN "view" ELSE "gate"
           f == [Idle EXCEPT !.op = "prepare", !.pc = pc, !.epoch = session.epoch, !.id = id]
<1>2. f \in Frame /\ FrameShape(f)
  BY BeginOK, Constants DEF Operations, TypeInv
<1>3. Put(p, f) /\ KeepsUpload(call[p], f)
  BY <1>1 DEF Begin, PrepareProgress, KeepsUpload, May, Idle
<1>4. RestOK'
  BY RestSame DEF PrepareProgress, TypeInv
<1>5. QED
  BY <1>2, <1>3, <1>4, FrameStep DEF PrepareProgress, external

LEMMA UploadType ==
  ASSUME TypeInv, NEW p \in Proc, ProgressRetry(p) \/ Work(p)
  PROVE  TypeInv'
<1>1. PICK op \in {"retry", "worker"} : Begin(p, op, "gate", None)
  BY DEF ProgressRetry, Work
<1> DEFINE f == [Idle EXCEPT !.op = op, !.pc = "gate", !.epoch = session.epoch, !.id = None]
<1>2. f \in Frame /\ FrameShape(f)
  BY BeginOK, Constants DEF Operations, TypeInv
<1>3. Put(p, f) /\ KeepsUpload(call[p], f)
  BY <1>1 DEF Begin, ProgressRetry, Work, KeepsUpload, May, Idle
<1>4. RestOK'
  BY RestSame DEF ProgressRetry, Work, TypeInv
<1>5. QED
  BY <1>2, <1>3, <1>4, FrameStep DEF ProgressRetry, Work, external

LEMMA OperationType ==
  ASSUME TypeInv, NEW p \in Proc, progressOperation(p)
  PROVE  TypeInv'
<1> DEFINE f == [call[p] EXCEPT !.pc = FirstStep(p)]
<1>1. call[p] \in Frame /\ FrameShape(call[p]) /\ call[p].pc = "gate"
  BY CallOK DEF TypeInv, progressOperation
<1>2. f \in Frame /\ FrameShape(f)
  BY <1>1, GotoOK DEF FirstStep, Pcs, Loaded, Sending
<1>3. Put(p, f) /\ KeepsUpload(call[p], f)
  BY <1>1 DEF progressOperation, Goto, KeepsUpload
<1>4. RestOK'
  <2>1. status' \in Status
    <3>1. status \in Status /\ call[p].epoch \in 0..MaxEpoch
      BY <1>1 DEF TypeInv, RestOK, Frame
    <3>2. QED
      BY <3>1 DEF Status, progressOperation
  <2>2. gate' \in Maybe(Proc) /\ handle' \in Maybe(Proc)
    BY Constants DEF progressOperation
  <2>3. QED
    BY <2>1, <2>2 DEF TypeInv, RestOK, progressOperation
<1>5. QED
  BY <1>2, <1>3, <1>4, FrameStep DEF progressOperation, external

LEMMA RefusedType ==
  ASSUME TypeInv, NEW p \in Proc, Refused(p)
  PROVE  TypeInv'
<1> DEFINE g == [call[p] EXCEPT !.pc = "result", !.failed = TRUE]
           f == IF call[p].op = "prepare" THEN g ELSE Idle
<1>1. call[p] \in Frame /\ FrameShape(call[p]) /\ call[p].pc = "gate"
  BY CallOK DEF TypeInv, Refused
<1>2. f \in Frame /\ FrameShape(f)
  <2>1. g \in Frame
    BY <1>1 DEF Frame
  <2>2. FrameShape(g)
    BY <1>1 DEF FrameShape, Frame, Loaded, Sending
  <2>3. QED
    BY <2>1, <2>2, IdleOK
<1>3. Put(p, f) /\ KeepsUpload(call[p], f)
  BY <1>1 DEF Refused, KeepsUpload
<1>4. RestOK'
  BY RestSame DEF Refused, TypeInv
<1>5. QED
  BY <1>2, <1>3, <1>4, FrameStep DEF Refused, external

LEMMA FlushType ==
  ASSUME TypeInv, NEW p \in Proc, Flush(p)
  PROVE  TypeInv'
<1> DEFINE ids == {id \in Pending(session.scope) : Uploadable(Row(id))}
           f == [call[p] EXCEPT !.todo = ids, !.performed = ids # {},
                                !.pc = IF ids = {} THEN "leave" ELSE "load"]
<1>1. call[p] \in Frame /\ FrameShape(call[p]) /\ call[p].pc = "list"
  BY CallOK DEF TypeInv, Flush
<1>2. f \in Frame /\ FrameShape(f)
  <2>1. ids \subseteq Episode
    BY DEF Pending
  <2>2. f \in Frame
    BY <1>1, <2>1 DEF Frame
  <2>3. FrameShape(f)
    BY <1>1 DEF FrameShape, Frame, Loaded, Sending
  <2>4. QED
    BY <2>2, <2>3
<1>3. Put(p, f) /\ KeepsUpload(call[p], f)
  BY <1>1 DEF Flush, KeepsUpload
<1>4. RestOK'
  BY RestSame DEF Flush, TypeInv
<1>5. QED
  BY <1>2, <1>3, <1>4, FrameStep DEF Flush, external

LEMMA LoadType ==
  ASSUME TypeInv, NEW p \in Proc, LoadBefore(p)
  PROVE  TypeInv'
<1>1. call[p] \in Frame /\ FrameShape(call[p]) /\ call[p].pc = "load"
  BY CallOK DEF TypeInv, LoadBefore
<1>2. PICK id \in IF call[p].op = "prepare" THEN {call[p].id} ELSE call[p].todo :
        Put(p, [call[p] EXCEPT !.pc = "read", !.id = id, !.todo = @ \ {id},
                               !.revision = Row(id).revision])
  BY DEF LoadBefore
<1> DEFINE f == [call[p] EXCEPT !.pc = "read", !.id = id, !.todo = @ \ {id},
                                !.revision = Row(id).revision]
<1>3. id \in Episode /\ call[p].todo \subseteq Episode
  BY <1>1, <1>2 DEF Frame, FrameShape
<1>4. Row(id).revision \in 0..MaxRevision
  BY <1>3, RowOK DEF TypeInv, progressRecord
<1>5. f \in Frame /\ FrameShape(f)
  <2>1. id \in Maybe(Episode) /\ call[p].todo \ {id} \subseteq Episode
    BY <1>3, Constants
  <2>2. f \in Frame
    BY <1>1, <1>4, <2>1 DEF Frame
  <2>3. FrameShape(f)
    BY <1>1, <1>3 DEF FrameShape, Frame, Loaded, Sending
  <2>4. QED
    BY <2>2, <2>3
<1>6. Put(p, f) /\ KeepsUpload(call[p], f)
  BY <1>1, <1>2 DEF KeepsUpload
<1>7. RestOK'
  BY RestSame DEF LoadBefore, TypeInv
<1>8. QED
  BY <1>5, <1>6, <1>7, FrameStep DEF LoadBefore, external

LEMMA ReadType ==
  ASSUME TypeInv, NEW p \in Proc, readCloud(p)
  PROVE  TypeInv'
<1> DEFINE f == [call[p] EXCEPT !.pc = "reconcile", !.cloud = cloud[session.scope][call[p].id]]
<1>1. call[p] \in Frame /\ FrameShape(call[p]) /\ call[p].pc = "read"
  BY CallOK DEF TypeInv, readCloud
<1>2. call[p].id \in Episode /\ session.scope \in Account
  BY <1>1, Constants, RowOK DEF FrameShape, Loaded, TypeInv, RestOK, Sessions, readCloud, Current
<1>3. cloud[session.scope][call[p].id] \in Maybe(Rec)
  BY <1>2 DEF TypeInv, HistoryOK, Clouds
<1>4. f \in Frame /\ FrameShape(f)
  <2>1. f \in Frame
    BY <1>1, <1>3 DEF Frame
  <2>2. FrameShape(f)
    BY <1>1 DEF FrameShape, Frame, Loaded, Sending
  <2>3. QED
    BY <2>1, <2>2
<1>5. Put(p, f) /\ KeepsUpload(call[p], f)
  BY <1>1 DEF readCloud, KeepsUpload
<1>6. RestOK'
  BY RestSame DEF readCloud, TypeInv
<1>7. QED
  BY <1>4, <1>5, <1>6, FrameStep DEF readCloud, external

LEMMA AdmitType ==
  ASSUME TypeInv, NEW p \in Proc, Admit(p)
  PROVE  TypeInv'
<1> DEFINE c == call[p]
           r == Row(c.id)
           g == [c EXCEPT !.pc = "send", !.sent = r.pending, !.revision = r.revision]
           f == IF Admissible(r) THEN g ELSE NextUpload(c)
<1>1. c \in Frame /\ FrameShape(c) /\ c.pc = "admit" /\ c.id \in Episode
  BY CallOK DEF TypeInv, Admit, FrameShape, Loaded
<1>2. r \in progressRecord /\ RowShape(r)
  BY <1>1, RowOK DEF TypeInv
<1>3. ASSUME Admissible(r) PROVE g \in Frame /\ FrameShape(g)
  <2>1. r.pending \in Rec /\ r.pending \in Maybe(Rec) /\ r.revision \in 0..MaxRevision
    BY <1>2, <1>3, Constants DEF progressRecord, Admissible
  <2>2. g \in Frame
    BY <1>1, <2>1 DEF Frame
  <2>3. FrameShape(g)
    BY <1>1, <2>1 DEF FrameShape, Frame, Loaded, Sending
  <2>4. QED
    BY <2>2, <2>3
<1>4. f \in Frame /\ FrameShape(f)
  BY <1>1, <1>3, NextUploadOK
<1>5. Put(p, f) /\ KeepsUpload(call[p], f)
  BY <1>1 DEF Admit, KeepsUpload
<1>6. RestOK'
  BY RestSame DEF Admit, TypeInv
<1>7. QED
  BY <1>4, <1>5, <1>6, FrameStep DEF Admit, external

LEMMA FailType ==
  ASSUME TypeInv, NEW p \in Proc, Fail(p)
  PROVE  TypeInv'
<1> DEFINE f == Leaving(call[p], TRUE)
<1>1. call[p] \in Frame /\ FrameShape(call[p]) /\ call[p].pc # "sent"
  BY CallOK DEF TypeInv, Fail, Refuses, Working
<1>2. f \in Frame /\ FrameShape(f)
  BY <1>1, LeavingOK
<1>3. Put(p, f) /\ KeepsUpload(call[p], f)
  BY <1>1 DEF Fail, KeepsUpload
<1>4. RestOK'
  BY RestSame DEF Fail, TypeInv
<1>5. QED
  BY <1>2, <1>3, <1>4, FrameStep DEF Fail, external

LEMMA doneType ==
  ASSUME TypeInv, NEW p \in Proc, done(p)
  PROVE  TypeInv'
<1> DEFINE c == call[p]
           g == [c EXCEPT !.pc = "result"]
           f == IF c.op = "prepare" \/ c.performed \/ c.failed THEN g ELSE Idle
<1>1. c \in Frame /\ FrameShape(c) /\ c.pc = "leave"
  BY CallOK DEF TypeInv, done
<1>2. f \in Frame /\ FrameShape(f)
  BY <1>1, GotoOK, IdleOK DEF Pcs, Loaded, Sending
<1>3. Put(p, f) /\ KeepsUpload(call[p], f)
  BY <1>1 DEF done, Goto, KeepsUpload
<1>4. RestOK'
  BY Constants DEF done, TypeInv, RestOK, Released
<1>5. QED
  BY <1>2, <1>3, <1>4, FrameStep DEF done, external

LEMMA ResultType ==
  ASSUME TypeInv, NEW p \in Proc, progressResult(p)
  PROVE  TypeInv'
<1> DEFINE c == call[p]
           g == [c EXCEPT !.pc = "view"]
           f == IF c.op = "prepare" THEN g ELSE Idle
<1>1. c \in Frame /\ FrameShape(c) /\ c.pc = "result"
  BY CallOK DEF TypeInv, progressResult
<1>2. f \in Frame /\ FrameShape(f)
  <2>1. g \in Frame
    BY <1>1 DEF Frame
  <2>2. c.op = "prepare" => FrameShape(g)
    BY <1>1 DEF FrameShape, Frame, Loaded, Sending
  <2>3. QED
    BY <2>1, <2>2, IdleOK
<1>3. Put(p, f) /\ KeepsUpload(call[p], f)
  BY <1>1 DEF progressResult, Goto, KeepsUpload
<1>4. RestOK'
  <2>1. status' \in Status
    <3>1. c.epoch \in 0..MaxEpoch /\ c.failed \in BOOLEAN /\ status \in Status
      BY <1>1 DEF Frame, TypeInv, RestOK
    <3>2. QED
      BY <3>1 DEF progressResult, Status
  <2>2. QED
    BY <2>1 DEF TypeInv, RestOK, progressResult
<1>5. QED
  BY <1>2, <1>3, <1>4, FrameStep DEF progressResult, external

LEMMA ViewType ==
  ASSUME TypeInv, NEW p \in Proc, progressView(p)
  PROVE  TypeInv'
<1> DEFINE r == Row(call[p].id)
<1>1. call[p] \in Frame /\ FrameShape(call[p]) /\ call[p].pc = "view"
  BY CallOK DEF TypeInv, progressView
<1>2. call[p].id \in Episode /\ call[p].id \in Maybe(Episode)
  BY <1>1, Constants DEF FrameShape
<1>3. r \in progressRecord
  BY <1>2, RowOK DEF TypeInv
<1>4. Put(p, Idle) /\ KeepsUpload(call[p], Idle)
  BY <1>1 DEF progressView, KeepsUpload
<1>5. RestOK'
  <2>1. NoDialog \in Dialog
    BY Constants DEF NoDialog, Dialog
  <2>2. [id |-> call[p].id, token |-> r.token, local |-> r.local, cloud |-> r.conflict] \in Dialog
    BY <1>2, <1>3 DEF Dialog, progressRecord
  <2>3. dialog' \in Dialog
    BY <2>1, <2>2 DEF progressView, TypeInv, RestOK
  <2>4. QED
    BY <2>3 DEF TypeInv, RestOK, progressView
<1>6. QED
  BY IdleOK, <1>4, <1>5, FrameStep DEF progressView, external

LEMMA TimeoutType ==
  ASSUME TypeInv, NEW p \in Proc, Timeout(p)
  PROVE  TypeInv'
<1> DEFINE f == [call[p] EXCEPT !.cancelled = TRUE]
<1>1. call[p] \in Frame /\ FrameShape(call[p])
  BY CallOK DEF TypeInv
<1>2. f \in Frame
  BY <1>1 DEF Frame
<1>3. FrameShape(f) /\ KeepsUpload(call[p], f)
  BY <1>1 DEF FrameShape, Frame, KeepsUpload
<1>4. Put(p, f)
  BY DEF Timeout
<1>5. RestOK'
  BY RestSame DEF Timeout, TypeInv
<1>6. QED
  BY <1>2, <1>3, <1>4, <1>5, FrameStep DEF Timeout, external

----------------------------------------------------------------------------
(* The rows that the steps write.                                          *)

LEMMA SavedRowOK ==
  ASSUME NEW r \in progressRecord, RowShape(r), r.revision < MaxRevision, now \in Time,
         NEW pos \in Pos, NEW by \in {"here", "off"}
  PROVE  LET rec == [pos |-> pos, at |-> now, by |-> by]
         IN rec \in Rec /\ AfterSave(r, rec) \in progressRecord /\ RowShape(AfterSave(r, rec))
<1> DEFINE rec == [pos |-> pos, at |-> now, by |-> by]
           n == AfterSave(r, rec)
<1>1. rec \in Rec /\ rec \in Maybe(Rec)
  BY Constants DEF Rec
<1>2. r.revision + 1 \in 0..MaxRevision /\ r.revision \in Nat
  BY Constants DEF progressRecord
<1>3. (IF rec.by = "here" THEN rec ELSE None) \in Maybe(Rec)
  BY <1>1, Constants
<1>4. n \in progressRecord
  BY <1>1, <1>2, <1>3, Constants DEF progressRecord, AfterSave
<1>5. RowShape(n)
  BY <1>1, <1>2, <1>3, Constants DEF progressRecord, AfterSave, RowShape
<1>6. QED
  BY <1>1, <1>4, <1>5

LEMMA UnsavedRowOK ==
  ASSUME NEW r \in progressRecord, RowShape(r), r.revision < MaxRevision
  PROVE  LET n == [r EXCEPT !.pending = None, !.revision = @ + 1, !.ready = 0]
         IN n \in progressRecord /\ RowShape(n)
<1> DEFINE n == [r EXCEPT !.pending = None, !.revision = @ + 1, !.ready = 0]
<1>1. r.revision + 1 \in 0..MaxRevision /\ r.revision \in Nat
  BY Constants DEF progressRecord
<1>2. n \in progressRecord
  BY <1>1, Constants DEF progressRecord
<1>3. RowShape(n)
  BY <1>1 DEF progressRecord, RowShape
<1>4. QED
  BY <1>2, <1>3

LEMMA ChosenRowOK ==
  ASSUME NEW r \in progressRecord, RowShape(r), r.revision < MaxRevision, now \in Time,
         r.conflict # None, NEW choice \in {"local", "cloud"}
  PROVE  AfterChoice(r, choice) \in progressRecord /\ RowShape(AfterChoice(r, choice))
<1> DEFINE chosen == IF choice = "cloud" THEN r.conflict ELSE [r.local EXCEPT !.at = now]
           n == AfterChoice(r, choice)
<1>1. r.local \in Rec /\ r.conflict \in Rec /\ r.local.by = "here"
  BY Constants DEF progressRecord, RowShape
<1>2. chosen \in Rec /\ chosen \in Maybe(Rec) /\ r.conflict \in Maybe(Rec)
  BY <1>1, RecOK, Constants
<1>3. (IF choice = "cloud" THEN None ELSE chosen) \in Maybe(Rec)
  BY <1>2, Constants
<1>4. r.revision + 1 \in 0..MaxRevision /\ r.revision \in Nat /\ r.ready \in Nat
  BY Constants DEF progressRecord
<1>5. n \in progressRecord
  BY <1>2, <1>3, <1>4, Constants DEF progressRecord, AfterChoice
<1>6. choice = "local" => chosen.by = "here" /\ chosen.at = now /\ now \in Nat
  BY <1>1, Constants DEF Rec
<1>7. n.pending = (IF choice = "cloud" THEN None ELSE chosen) /\ n.conflict = None
      /\ n.local = chosen /\ n.ready = r.ready /\ n.revision = r.revision + 1
  BY DEF AfterChoice, progressRecord
<1>8. RowShape(n)
  BY <1>4, <1>6, <1>7 DEF RowShape
<1>9. QED
  BY <1>5, <1>8

LEMMA UnqueuedOK ==
  ASSUME NEW r \in progressRecord, RowShape(r)
  PROVE  /\ Unqueued(r) \in progressRecord /\ RowShape(Unqueued(r))
         /\ Unqueued(r) = [r EXCEPT !.pending = None, !.conflict = None, !.token = None]
<1>1. Unqueued(r) \in progressRecord
  BY Constants DEF progressRecord, Unqueued
<1>2. RowShape(Unqueued(r))
  BY DEF progressRecord, Unqueued, RowShape
<1>3. QED
  BY <1>1, <1>2 DEF Unqueued

(* What reconcile may make of a row, one verdict at a time.                *)
Adopted(r, c) == [Unqueued(r) EXCEPT !.baseline = c, !.local = IF c = None THEN r.local ELSE c]
Settled(r, c) == [Unqueued(r) EXCEPT !.baseline = c]
Rebased(r, c) == [r EXCEPT !.baseline = c]
Conflicted(r, c, token) == [r EXCEPT !.conflict = c, !.token = token]

LEMMA ReconcileCases ==
  ASSUME NEW r \in progressRecord, NEW c \in Maybe(Rec), NEW token \in Token
  PROVE  \/ /\ r.pending = None /\ reconcile(r, c, token) = Adopted(r, c)
         \/ /\ r.pending # None /\ cloudEqual(r.pending, c)
            /\ reconcile(r, c, token) = Settled(r, c)
         \/ /\ r.pending # None /\ ~cloudEqual(r.pending, c)
            /\ cloudEqual(r.baseline, c) \/ c = None
            /\ reconcile(r, c, token) = r
         \/ /\ r.pending # None /\ ~cloudEqual(r.pending, c) /\ c # None
            /\ Newer(r.pending, c) /\ reconcile(r, c, token) = Rebased(r, c)
         \/ /\ r.pending # None /\ ~cloudEqual(r.pending, c) /\ c # None
            /\ Newer(c, r.pending) /\ reconcile(r, c, token) = Adopted(r, c)
         \/ /\ r.pending # None /\ ~cloudEqual(r.pending, c) /\ c # None
            /\ reconcile(r, c, token) = Conflicted(r, c, token)
<1>1. applyCloud([Unqueued(r) EXCEPT !.baseline = c], c) = Adopted(r, c)
  BY DEF applyCloud, Adopted, Unqueued, progressRecord
<1>2. Verdict(r, c) \in {"adopt", "superseded"} => reconcile(r, c, token) = Adopted(r, c)
  BY <1>1 DEF reconcile
<1>3. Verdict(r, c) = "confirmed" => reconcile(r, c, token) = Settled(r, c)
  BY DEF reconcile, Settled
<1>4. Verdict(r, c) = "keep" => reconcile(r, c, token) = r
  BY DEF reconcile
<1>5. Verdict(r, c) = "rebase" => reconcile(r, c, token) = Rebased(r, c)
  BY DEF reconcile, Rebased
<1>6. Verdict(r, c) = "conflict" => reconcile(r, c, token) = Conflicted(r, c, token)
  BY DEF reconcile, Conflicted
<1>7. \/ r.pending = None /\ Verdict(r, c) = "adopt"
      \/ r.pending # None /\ cloudEqual(r.pending, c) /\ Verdict(r, c) = "confirmed"
      \/ /\ r.pending # None /\ ~cloudEqual(r.pending, c)
         /\ \/ (cloudEqual(r.baseline, c) \/ c = None) /\ Verdict(r, c) = "keep"
            \/ c # None /\ Newer(r.pending, c) /\ Verdict(r, c) = "rebase"
            \/ c # None /\ Newer(c, r.pending) /\ Verdict(r, c) = "superseded"
            \/ c # None /\ Verdict(r, c) = "conflict"
  BY DEF Verdict
<1>8. QED
  BY <1>2, <1>3, <1>4, <1>5, <1>6, <1>7

LEMMA ReconciledOK ==
  ASSUME NEW r \in progressRecord, RowShape(r), NEW c \in Maybe(Rec), NEW token \in Token
  PROVE  LET new == reconcile(r, c, token)
         IN /\ [new EXCEPT !.ready = new.revision] \in progressRecord
            /\ RowShape([new EXCEPT !.ready = new.revision])
            /\ new \in progressRecord /\ new.revision = r.revision
<1> DEFINE new == reconcile(r, c, token)
           n == [new EXCEPT !.ready = new.revision]
<1>1. r.local \in Maybe(Rec) /\ token \in Maybe(Token) /\ r.revision \in Nat
  BY Constants DEF progressRecord
<1>2. Adopted(r, c) \in progressRecord /\ RowShape(Adopted(r, c))
  <2>1. (IF c = None THEN r.local ELSE c) \in Maybe(Rec)
    BY <1>1
  <2>2. Adopted(r, c) \in progressRecord
    BY <2>1, UnqueuedOK DEF Adopted, progressRecord
  <2>3. RowShape(Adopted(r, c))
    BY UnqueuedOK DEF Adopted, progressRecord, RowShape, Unqueued
  <2>4. QED
    BY <2>2, <2>3
<1>3. Settled(r, c) \in progressRecord /\ RowShape(Settled(r, c))
  <2>1. Settled(r, c) \in progressRecord
    BY UnqueuedOK DEF Settled, progressRecord
  <2>2. RowShape(Settled(r, c))
    BY UnqueuedOK DEF Settled, progressRecord, RowShape
  <2>3. QED
    BY <2>1, <2>2
<1>4. Rebased(r, c) \in progressRecord /\ RowShape(Rebased(r, c))
  <2>1. Rebased(r, c) \in progressRecord
    BY DEF Rebased, progressRecord
  <2>2. RowShape(Rebased(r, c))
    BY DEF Rebased, progressRecord, RowShape
  <2>3. QED
    BY <2>1, <2>2
<1>5. r.pending # None =>
        Conflicted(r, c, token) \in progressRecord /\ RowShape(Conflicted(r, c, token))
  <2>1. Conflicted(r, c, token) \in progressRecord
    BY <1>1 DEF Conflicted, progressRecord
  <2>2. r.pending # None => RowShape(Conflicted(r, c, token))
    BY DEF Conflicted, progressRecord, RowShape
  <2>3. QED
    BY <2>1, <2>2
<1>6. new \in progressRecord /\ RowShape(new)
  BY <1>2, <1>3, <1>4, <1>5, ReconcileCases
<1>7. new.revision = r.revision
  <2>1. /\ Adopted(r, c).revision = r.revision /\ Settled(r, c).revision = r.revision
        /\ Rebased(r, c).revision = r.revision
        /\ Conflicted(r, c, token).revision = r.revision
    BY DEF Adopted, Settled, Rebased, Conflicted, Unqueued, progressRecord
  <2>2. QED
    BY <2>1, ReconcileCases
<1>8. n \in progressRecord
  BY <1>6 DEF progressRecord
<1>9. RowShape(n)
  BY <1>1, <1>6, <1>7 DEF progressRecord, RowShape
<1>10. QED
  BY <1>6, <1>7, <1>8, <1>9

LEMMA AcknowledgedOK ==
  ASSUME NEW r \in progressRecord, RowShape(r), NEW c \in Frame, c.sent \in Rec
  PROVE  Acknowledged(r, c) \in progressRecord /\ RowShape(Acknowledged(r, c))
<1>1. c.sent \in Maybe(Rec)
  BY Constants
<1>2. Settled(r, c.sent) \in progressRecord /\ RowShape(Settled(r, c.sent))
  <2>1. Settled(r, c.sent) \in progressRecord
    BY <1>1, UnqueuedOK DEF Settled, progressRecord
  <2>2. RowShape(Settled(r, c.sent))
    BY UnqueuedOK DEF Settled, progressRecord, RowShape
  <2>3. QED
    BY <2>1, <2>2
<1>3. Rebased(r, c.sent) \in progressRecord /\ RowShape(Rebased(r, c.sent))
  <2>1. Rebased(r, c.sent) \in progressRecord
    BY <1>1 DEF Rebased, progressRecord
  <2>2. RowShape(Rebased(r, c.sent))
    BY DEF Rebased, progressRecord, RowShape
  <2>3. QED
    BY <2>1, <2>2
<1>4. QED
  BY <1>2, <1>3 DEF Acknowledged, Settled, Rebased

----------------------------------------------------------------------------
(* The steps that write a row.                                             *)

LEMMA SameFrames ==
  ASSUME TypeInv, UNCHANGED <<call, wire>>
  PROVE  CallsOK' /\ WireOK'
<1>1. CallsOK'
  BY DEF TypeInv, CallsOK, FrameShape
<1>2. WireOK'
  BY DEF TypeInv, WireOK, Owned
<1>3. QED
  BY <1>1, <1>2

LEMMA SameRows ==
  ASSUME RowsOK, UNCHANGED <<rows, now>>
  PROVE  RowsOK'
BY DEF RowsOK, RowShape

LEMMA SeeOK ==
  ASSUME RestOK, HistoryOK, NEW id \in Episode, NEW rs \in SUBSET Maybe(Rec), See(id, rs),
         UNCHANGED <<cloud, landed>>
  PROVE  HistoryOK'
<1>1. session.scope \in Scope
  BY DEF RestOK, Sessions
<1>2. seen' \in SUBSET (Scope \X Episode \X Maybe(Rec))
  BY <1>1 DEF See, HistoryOK
<1>3. QED
  BY <1>2 DEF HistoryOK

LEMMA SaveType ==
  ASSUME TypeInv, NEW p \in Proc, SaveProgress(p)
  PROVE  TypeInv'
<1>1. PICK id \in Episode, pos \in Pos :
        LET r == Row(id)
            rec == [pos |-> pos, at |-> now,
                    by |-> IF session.scope # None /\ ~disabled THEN "here" ELSE "off"]
        IN r.revision < MaxRevision /\ putProgress(id, AfterSave(r, rec)) /\ See(id, {rec})
  BY DEF SaveProgress
<1> DEFINE r == Row(id)
           by == IF session.scope # None /\ ~disabled THEN "here" ELSE "off"
           rec == [pos |-> pos, at |-> now, by |-> by]
<1>2. r \in progressRecord /\ RowShape(r) /\ now \in Time /\ now' = now
  BY RowOK DEF TypeInv, RestOK, SaveProgress
<1>3. rec \in Rec /\ AfterSave(r, rec) \in progressRecord /\ RowShape(AfterSave(r, rec))
  BY <1>1, <1>2, SavedRowOK
<1>4. RowsOK'
  BY <1>1, <1>2, <1>3, PutRow DEF TypeInv
<1>5. HistoryOK'
  BY <1>1, <1>3, Constants, SeeOK DEF TypeInv, SaveProgress, external
<1>6. RestOK'
  BY RestSame DEF TypeInv, SaveProgress
<1>7. QED
  BY <1>4, <1>5, <1>6, SameFrames DEF TypeInv, SaveProgress, external

LEMMA SaveUnchangedType ==
  ASSUME TypeInv, NEW p \in Proc, SaveUnchanged(p)
  PROVE  TypeInv'
<1>1. PICK id \in Episode :
        /\ Row(id).revision < MaxRevision
        /\ putProgress(id, [Row(id) EXCEPT !.pending = None, !.revision = @ + 1, !.ready = 0])
  BY DEF SaveUnchanged
<1>2. Row(id) \in progressRecord /\ RowShape(Row(id)) /\ now' = now
  BY RowOK DEF TypeInv, SaveUnchanged
<1> DEFINE n == [Row(id) EXCEPT !.pending = None, !.revision = @ + 1, !.ready = 0]
<1>3. n \in progressRecord /\ RowShape(n)
  BY <1>1, <1>2, UnsavedRowOK
<1>4. RowsOK'
  BY <1>1, <1>2, <1>3, PutRow DEF TypeInv
<1>5. HistoryOK'
  BY DEF TypeInv, HistoryOK, SaveUnchanged, external
<1>6. RestOK'
  BY RestSame DEF TypeInv, SaveUnchanged
<1>7. QED
  BY <1>4, <1>5, <1>6, SameFrames DEF TypeInv, SaveUnchanged, external

LEMMA ChooseType ==
  ASSUME TypeInv, NEW p \in Proc, ChooseProgress(p)
  PROVE  TypeInv'
<1> DEFINE id == dialog.id
           r == Row(id)
<1>1. PICK choice \in {"local", "cloud"} :
        /\ putProgress(id, AfterChoice(r, choice))
        /\ See(id, {AfterChoice(r, choice).local, r.conflict})
  BY DEF ChooseProgress
<1>2. id \in Episode
  BY Constants DEF ChooseProgress, TypeInv, RestOK, Dialog
<1>3. r \in progressRecord /\ RowShape(r) /\ now \in Time /\ now' = now
      /\ r.revision < MaxRevision /\ r.conflict # None
  BY <1>2, RowOK DEF TypeInv, RestOK, ChooseProgress, Choosable
<1>4. AfterChoice(r, choice) \in progressRecord /\ RowShape(AfterChoice(r, choice))
  BY <1>3, ChosenRowOK
<1>5. RowsOK'
  BY <1>1, <1>2, <1>3, <1>4, PutRow DEF TypeInv
<1>6. HistoryOK'
  <2>1. {AfterChoice(r, choice).local, r.conflict} \subseteq Maybe(Rec)
    BY <1>3, <1>4 DEF progressRecord
  <2>2. QED
    BY <1>1, <1>2, <2>1, SeeOK DEF TypeInv, ChooseProgress, external
<1>7. RestOK'
  BY RestSame DEF TypeInv, ChooseProgress
<1> DEFINE f == [Idle EXCEPT !.op = "choose", !.pc = "view", !.epoch = session.epoch, !.id = id]
<1>8. f \in Frame /\ FrameShape(f)
  BY <1>2, BeginOK, Constants DEF Operations, TypeInv
<1>9. Put(p, f) /\ KeepsUpload(call[p], f)
  BY DEF Begin, ChooseProgress, KeepsUpload, May, Idle
<1>10. CallsOK' /\ WireOK'
  BY <1>8, <1>9, PutFrame, KeepWire DEF TypeInv, ChooseProgress, external
<1>11. QED
  BY <1>5, <1>6, <1>7, <1>10 DEF TypeInv

LEMMA ReconcileType ==
  ASSUME TypeInv, NEW p \in Proc, reconcileProgress(p)
  PROVE  TypeInv'
<1> DEFINE c == call[p]
           r == Row(c.id)
<1>1. c \in Frame /\ FrameShape(c) /\ c.pc = "reconcile" /\ c.id \in Episode
  BY CallOK DEF TypeInv, reconcileProgress, FrameShape, Loaded
<1>2. r \in progressRecord /\ RowShape(r) /\ now' = now /\ c.cloud \in Maybe(Rec)
  BY <1>1, RowOK DEF TypeInv, reconcileProgress, Frame
<1>3. RowsOK' /\ HistoryOK'
  <2>1. CASE UNCHANGED <<rows, seen>>
    BY <2>1, SameRows, <1>2 DEF TypeInv, HistoryOK, reconcileProgress, external
  <2>2. CASE ~UNCHANGED <<rows, seen>>
    <3>1. PICK token \in FreshToken :
            LET new == reconcile(r, c.cloud, token)
            IN /\ putProgress(c.id, [new EXCEPT !.ready = new.revision])
               /\ See(c.id, {new.local} \ {r.local})
      BY <2>2 DEF reconcileProgress
    <3> DEFINE new == reconcile(r, c.cloud, token)
               n == [new EXCEPT !.ready = new.revision]
    <3>2. n \in progressRecord /\ RowShape(n) /\ new \in progressRecord
      BY <1>2, ReconciledOK DEF FreshToken
    <3>3. RowsOK'
      BY <1>1, <1>2, <3>1, <3>2, PutRow DEF TypeInv
    <3>4. {new.local} \ {r.local} \subseteq Maybe(Rec)
      BY <3>2 DEF progressRecord
    <3>5. HistoryOK'
      BY <1>1, <3>1, <3>4, SeeOK DEF TypeInv, reconcileProgress, external
    <3>6. QED
      BY <3>3, <3>5
  <2>3. QED
    BY <2>1, <2>2
<1>4. RestOK'
  BY RestSame DEF TypeInv, reconcileProgress
<1>5. PICK f \in {AfterReconcile(c), Leaving(c, TRUE)} : Put(p, f)
  BY DEF reconcileProgress
<1>6. f \in Frame /\ FrameShape(f) /\ KeepsUpload(c, f)
  BY <1>1, AfterReconcileOK, LeavingOK DEF KeepsUpload
<1>7. CallsOK' /\ WireOK'
  BY <1>5, <1>6, PutFrame, KeepWire DEF TypeInv, reconcileProgress, external
<1>8. QED
  BY <1>3, <1>4, <1>7 DEF TypeInv

LEMMA AcknowledgeType ==
  ASSUME TypeInv, NEW p \in Proc, Acknowledge(p)
  PROVE  TypeInv'
<1> DEFINE c == call[p]
           r == Row(c.id)
<1>1. c \in Frame /\ FrameShape(c) /\ c.pc = "landed" /\ c.id \in Episode /\ c.sent \in Rec
  BY CallOK DEF TypeInv, Acknowledge, FrameShape, Loaded, Sending
<1>2. r \in progressRecord /\ RowShape(r) /\ now' = now
  BY <1>1, RowOK DEF TypeInv, Acknowledge
<1>3. putProgress(c.id, Acknowledged(r, c))
  BY DEF Acknowledge
<1>4. RowsOK'
  BY <1>1, <1>2, <1>3, AcknowledgedOK, PutRow DEF TypeInv
<1>5. HistoryOK'
  BY DEF TypeInv, HistoryOK, Acknowledge, external
<1>6. RestOK'
  BY RestSame DEF TypeInv, Acknowledge
<1>7. PICK f \in {NextUpload(c), Leaving(c, TRUE)} : Put(p, f)
  BY DEF Acknowledge
<1>8. f \in Frame /\ FrameShape(f) /\ KeepsUpload(c, f)
  BY <1>1, NextUploadOK, LeavingOK DEF KeepsUpload
<1>9. CallsOK' /\ WireOK'
  BY <1>7, <1>8, PutFrame, KeepWire DEF TypeInv, Acknowledge, external
<1>10. QED
  BY <1>4, <1>5, <1>6, <1>9 DEF TypeInv

----------------------------------------------------------------------------
(* The uploads.                                                            *)

LEMMA WriteType ==
  ASSUME TypeInv, NEW p \in Proc, WriteProgress(p)
  PROVE  TypeInv'
<1> DEFINE c == call[p]
           u == [by |-> p, scope |-> session.scope, id |-> c.id, rec |-> c.sent,
                 read |-> c.cloud, revision |-> c.revision]
           f == [c EXCEPT !.pc = "sent"]
<1>1. c \in Frame /\ FrameShape(c) /\ c.pc = "send" /\ c.id \in Episode /\ c.sent \in Rec
  BY CallOK DEF TypeInv, WriteProgress, FrameShape, Loaded, Sending
<1>2. u \in Upload
  <2>1. session.scope \in Account
    BY RowOK, Constants DEF TypeInv, RestOK, Sessions, WriteProgress, Current
  <2>2. c.cloud \in Maybe(Rec) /\ c.revision \in 0..MaxRevision /\ p \in Maybe(Proc)
    BY <1>1, Constants DEF Frame
  <2>3. QED
    BY <1>1, <2>1, <2>2 DEF Upload
<1>3. f \in Frame /\ FrameShape(f)
  BY <1>1, GotoOK DEF Pcs, Loaded, Sending
<1>4. Put(p, f) /\ wire' = wire \cup {u}
  BY DEF WriteProgress, Goto
<1>5. CallsOK' /\ call'[p] = f /\ \A q \in Proc : q # p => call'[q] = call[q]
  BY <1>3, <1>4, PutFrame DEF TypeInv
<1>6. WireOK'
  <2>1. ASSUME NEW w \in wire PROVE Owned(w)'
    <3>1. w.by # None => w.by \in Proc /\ w.by # p
      BY <1>1, Constants DEF TypeInv, WireOK, Owned, Upload
    <3>2. QED
      BY <1>5, <3>1 DEF TypeInv, WireOK, Owned
  <2>2. ASSUME NEW w, w = u PROVE Owned(w)'
    BY <1>1, <1>5, <2>2 DEF Owned, Frame
  <2>3. \A w \in wire : w.by # p
    BY <1>1, Constants DEF TypeInv, WireOK, Owned
  <2>4. wire' \in SUBSET Upload /\ \A w \in wire' : w \in wire \/ w = u
    BY <1>2, <1>4 DEF TypeInv, WireOK
  <2>5. \A v, w \in wire' : v.by = w.by /\ v.by # None => v = w
    BY <2>3, <2>4 DEF TypeInv, WireOK
  <2>6. QED
    BY <2>1, <2>2, <2>4, <2>5 DEF WireOK
<1>7. RestOK'
  BY RestSame DEF TypeInv, WriteProgress
<1>8. RowsOK' /\ HistoryOK'
  BY SameRows DEF TypeInv, HistoryOK, WriteProgress
<1>9. QED
  BY <1>5, <1>6, <1>7, <1>8 DEF TypeInv

LEMMA DisownOK ==
  ASSUME NEW ws \in SUBSET Upload, NEW v \in Disown(ws)
  PROVE  v \in Upload /\ v.by = None
BY Constants DEF Disown, Upload

LEMMA GiveUpType ==
  ASSUME TypeInv, NEW p \in Proc, GiveUp(p)
  PROVE  TypeInv'
<1> DEFINE f == Leaving(call[p], TRUE)
<1>1. f \in Frame /\ FrameShape(f) /\ Put(p, f)
  BY CallOK, LeavingOK DEF TypeInv, GiveUp
<1>2. CallsOK' /\ \A q \in Proc : q # p => call'[q] = call[q]
  BY <1>1, PutFrame DEF TypeInv
<1>3. wire' \subseteq (wire \ Mine(p)) \cup Disown(Mine(p))
  BY DEF GiveUp
<1>4. WireOK'
  <2>1. ASSUME NEW w \in wire \ Mine(p) PROVE w \in Upload /\ Owned(w)'
    BY <1>2, Constants DEF TypeInv, WireOK, Owned, Upload, Mine
  <2>2. ASSUME NEW w \in Disown(Mine(p)) PROVE w \in Upload /\ Owned(w)'
    <3>1. Mine(p) \in SUBSET Upload
      BY DEF Mine, TypeInv, WireOK
    <3>2. w \in Upload /\ w.by = None
      BY <2>2, <3>1, DisownOK
    <3>3. QED
      BY <3>2 DEF Owned
  <2>3. \A w \in Disown(Mine(p)) : w.by = None
    BY DisownOK DEF Mine, TypeInv, WireOK
  <2>4. \A v, w \in wire' : v.by = w.by /\ v.by # None => v = w
    BY <1>3, <2>3 DEF TypeInv, WireOK
  <2>5. QED
    BY <1>3, <2>1, <2>2, <2>4 DEF WireOK
<1>5. RestOK'
  BY RestSame DEF TypeInv, GiveUp
<1>6. RowsOK' /\ HistoryOK'
  BY SameRows DEF TypeInv, HistoryOK, GiveUp
<1>7. QED
  BY <1>2, <1>4, <1>5, <1>6 DEF TypeInv

LEMMA DeliverType ==
  ASSUME TypeInv, NEW w \in wire, Deliver(w)
  PROVE  TypeInv'
<1>1. /\ w \in Upload /\ Owned(w)
      /\ w.scope \in Account /\ w.id \in Episode /\ w.rec \in Rec /\ w.rec \in Maybe(Rec)
  BY Constants DEF TypeInv, WireOK, Upload
<1>2. \A q \in Proc : /\ q = w.by => call'[q] = [call[q] EXCEPT !.pc = "landed"]
                      /\ q # w.by => call'[q] = call[q]
  BY DEF Deliver
<1>3. call' \in [Proc -> Frame] /\ \A q \in Proc : FrameShape(call'[q])
  <2>1. ASSUME NEW q \in Proc PROVE call'[q] \in Frame /\ FrameShape(call'[q])
    <3>1. CASE q = w.by
      <4>1. call[q].pc = "sent"
        BY <1>1, <3>1, Constants DEF Owned
      <4>2. [call[q] EXCEPT !.pc = "landed"] \in Frame /\ FrameShape([call[q] EXCEPT !.pc = "landed"])
        BY <4>1, CallOK, GotoOK DEF TypeInv, Pcs, Loaded, Sending
      <4>3. QED
        BY <1>2, <3>1, <4>2
    <3>2. CASE q # w.by
      BY <1>2, <3>2, CallOK DEF TypeInv
    <3>3. QED
      BY <3>1, <3>2
  <2>2. call' = [q \in Proc |-> IF q = w.by THEN [call[q] EXCEPT !.pc = "landed"] ELSE call[q]]
    BY DEF Deliver
  <2>3. QED
    BY <2>1, <2>2
<1>4. CallsOK'
  BY <1>3 DEF CallsOK, FrameShape
<1>5. RestOK' /\ RowsOK'
  BY RestSame, SameRows DEF TypeInv, Deliver
<1>6. HistoryOK'
  <2>1. cloud' \in Clouds
    BY <1>1 DEF Deliver, Hold, TypeInv, HistoryOK, Clouds
  <2>2. landed' \in SUBSET (Account \X Episode \X Maybe(Rec))
    BY <1>1 DEF Deliver, Hold, TypeInv, HistoryOK
  <2>3. QED
    BY <2>1, <2>2 DEF Deliver, TypeInv, HistoryOK
<1>7. WireOK'
  <2>1. wire' = wire \ {w}
    BY DEF Deliver
  <2>2. ASSUME NEW v \in wire' PROVE Owned(v)'
    <3>1. v \in wire /\ v # w /\ v.by \in Maybe(Proc)
      BY <2>1 DEF TypeInv, WireOK, Upload
    <3>2. v.by # None => v.by \in Proc /\ v.by # w.by
      BY <3>1, Constants DEF TypeInv, WireOK
    <3>3. QED
      BY <1>2, <3>1, <3>2 DEF TypeInv, WireOK, Owned
  <2>3. QED
    BY <2>1, <2>2 DEF TypeInv, WireOK
<1>8. QED
  BY <1>4, <1>5, <1>6, <1>7 DEF TypeInv

----------------------------------------------------------------------------
(* The session, the settings and the other devices.                        *)

LEMMA ConnectType == ASSUME TypeInv, Connect PROVE TypeInv'
<1>1. session' \in Sessions
  BY Constants DEF Connect, TypeInv, RestOK, Sessions
<1>2. RestOK' /\ HistoryOK'
  BY <1>1 DEF Connect, TypeInv, RestOK, HistoryOK, external
<1>3. RowsOK' /\ CallsOK' /\ WireOK'
  BY SameRows, SameFrames DEF Connect, TypeInv, external
<1>4. QED
  BY <1>2, <1>3 DEF TypeInv

LEMMA NoDialogOK == NoDialog \in Dialog
BY Constants DEF NoDialog, Dialog

LEMMA LogoutType == ASSUME TypeInv, Logout PROVE TypeInv'
<1>1. session' \in Sessions
  BY Constants DEF Logout, TypeInv, RestOK, Sessions
<1>2. RestOK' /\ HistoryOK'
  BY <1>1, NoDialogOK DEF Logout, TypeInv, RestOK, HistoryOK, external
<1>3. CallsOK' /\ WireOK'
  BY SameFrames DEF Logout, TypeInv, external
<1>4. RowsOK'
  <2>1. now \in Nat /\ now' = now
    BY Constants DEF Logout, TypeInv, RestOK
  <2>2. CASE rows' = rows
    BY <2>1, <2>2, SameRows DEF TypeInv
  <2>3. CASE rows' = [rows EXCEPT ![session.scope] = [id \in Episode |-> NoRow]]
    <3>1. rows' \in Rows
      BY <2>3, IdleOK DEF TypeInv, RowsOK, Rows
    <3>2. \A s \in Scope, id \in Episode : rows'[s][id] = rows[s][id] \/ rows'[s][id] = NoRow
      BY <2>3 DEF TypeInv, RowsOK, Rows
    <3>3. \A s \in Scope, id \in Episode : RowShape(rows'[s][id])
      BY <2>1, <3>2, NoRowOK DEF TypeInv, RowsOK
    <3>4. QED
      BY <2>1, <3>1, <3>3 DEF RowsOK, RowShape, Rows
  <2>4. QED
    BY <2>2, <2>3 DEF Logout
<1>5. QED
  BY <1>2, <1>3, <1>4 DEF TypeInv

LEMMA ResetType == ASSUME TypeInv, Reset PROVE TypeInv'
<1>1. session' \in Sessions
  BY Constants DEF Reset, TypeInv, RestOK, Sessions
<1>2. RestOK' /\ HistoryOK'
  BY <1>1, NoDialogOK DEF Reset, TypeInv, RestOK, HistoryOK, external
<1>3. CallsOK' /\ WireOK'
  BY SameFrames DEF Reset, TypeInv, external
<1>4. RowsOK'
  <2>1. now \in Nat /\ now' = now
    BY Constants DEF Reset, TypeInv, RestOK
  <2>2. CASE rows' = rows
    BY <2>1, <2>2, SameRows DEF TypeInv
  <2>3. CASE rows' = [s \in Scope |-> [id \in Episode |-> NoRow]]
    <3>1. rows' \in Rows /\ \A s \in Scope, id \in Episode : rows'[s][id] = NoRow
      BY <2>3, IdleOK DEF Rows
    <3>2. QED
      BY <2>1, <3>1, NoRowOK DEF RowsOK, RowShape, Rows
  <2>4. QED
    BY <2>2, <2>3 DEF Reset
<1>5. QED
  BY <1>2, <1>3, <1>4 DEF TypeInv

LEMMA DisableFrames ==
  ASSUME CallsOK, Disable, NEW p \in Proc
  PROVE  /\ call'[p] \in Frame /\ FrameShape(call'[p])
         /\ \/ call[p] = Idle /\ call'[p] = Idle
            \/ call'[p] = [call[p] EXCEPT !.cancelled = CancelledByDisabling(p),
                                          !.off = call[p].pc \in Working]
<1> DEFINE f == [call[p] EXCEPT !.cancelled = CancelledByDisabling(p),
                                !.off = call[p].pc \in Working]
<1>1. (call[p] = Idle /\ call'[p] = Idle) \/ call'[p] = f
  BY DEF Disable
<1>2. CancelledByDisabling(p) \in BOOLEAN
  BY DEF CancelledByDisabling, CallsOK, Frame
<1>3. f \in Frame
  <2> DEFINE stopped == CancelledByDisabling(p)
             off == call[p].pc \in Working
  <2>1. stopped \in BOOLEAN /\ off \in BOOLEAN
    BY <1>2
  <2>2. call[p] \in Frame
    BY CallOK
  <2> HIDE DEF stopped, off
  <2>3. [call[p] EXCEPT !.cancelled = stopped, !.off = off] \in Frame
    BY <2>1, <2>2 DEF Frame
  <2>4. QED
    BY <2>3 DEF stopped, off
<1>4. FrameShape(f)
  BY CallOK DEF FrameShape, Frame
<1>5. QED
  BY <1>1, <1>3, <1>4, IdleOK

(* Disabling only marks the operations under way.                          *)
LEMMA DisableKeeps ==
  ASSUME CallsOK, Disable, NEW p \in Proc
  PROVE  /\ call'[p].epoch = call[p].epoch /\ call'[p].pc = call[p].pc
         /\ call'[p].id = call[p].id /\ call'[p].cloud = call[p].cloud
         /\ call'[p].revision = call[p].revision /\ call'[p].sent = call[p].sent
<1>1. CASE call[p] = Idle /\ call'[p] = Idle
  BY <1>1
<1>2. CASE call'[p] = [call[p] EXCEPT !.cancelled = CancelledByDisabling(p),
                                      !.off = call[p].pc \in Working]
  <2>1. call[p] \in Frame
    BY CallOK
  <2>2. QED
    BY <1>2, <2>1 DEF Frame
<1>3. QED
  BY <1>1, <1>2, DisableFrames

LEMMA DisableType == ASSUME TypeInv, Disable PROVE TypeInv'
<1>1. \A p \in Proc : call'[p] \in Frame /\ FrameShape(call'[p])
  BY DisableFrames DEF TypeInv
<1>2. call' = [p \in Proc |-> call'[p]]
  BY DEF Disable
<1>3. CallsOK'
  BY <1>1, <1>2 DEF CallsOK, FrameShape
<1>4. RestOK' /\ HistoryOK' /\ RowsOK'
  BY SameRows DEF Disable, TypeInv, RestOK, HistoryOK, external
<1>5. WireOK'
  <2>1. ASSUME NEW w \in wire PROVE Owned(w)'
    <3>1. w.by # None => w.by \in Proc /\ call[w.by].pc = "sent"
      BY Constants DEF TypeInv, WireOK, Upload, Owned
    <3>2. \A p \in Proc : call[p].pc = "sent" =>
            call'[p].pc = "sent" /\ call'[p].id = call[p].id /\ call'[p].sent = call[p].sent
      BY DisableKeeps DEF TypeInv
    <3>3. QED
      BY <3>1, <3>2 DEF TypeInv, WireOK, Owned
  <2>2. QED
    BY <2>1 DEF Disable, TypeInv, WireOK, external
<1>6. QED
  BY <1>3, <1>4, <1>5 DEF TypeInv

LEMMA SettingType ==
  ASSUME TypeInv, Enable \/ BackoffEnds
  PROVE  TypeInv'
<1>1. status' \in Status
  BY DEF TypeInv, RestOK, Enable, BackoffEnds, Status
<1>2. RestOK' /\ HistoryOK'
  BY <1>1 DEF TypeInv, RestOK, HistoryOK, Enable, BackoffEnds, external
<1>3. RowsOK' /\ CallsOK' /\ WireOK'
  BY SameRows, SameFrames DEF Enable, BackoffEnds, TypeInv, external
<1>4. QED
  BY <1>2, <1>3 DEF TypeInv

LEMMA CrashType == ASSUME TypeInv, Crash PROVE TypeInv'
<1>1. CallsOK'
  <2>1. call' \in [Proc -> Frame] /\ \A p \in Proc : FrameShape(call'[p])
    BY IdleOK DEF Crash
  <2>2. QED
    BY <2>1 DEF CallsOK, FrameShape
<1>2. RestOK'
  <2>1. session' \in Sessions
    BY Constants DEF Crash, Sessions
  <2>2. status' \in Status
    BY Constants DEF Crash, Status, NoStatus
  <2>3. QED
    BY <2>1, <2>2, Constants, NoDialogOK DEF Crash, TypeInv, RestOK
<1>3. RowsOK' /\ HistoryOK'
  BY SameRows DEF Crash, TypeInv, HistoryOK
<1>4. WireOK'
  <2>1. ASSUME NEW w \in wire' PROVE w \in Upload /\ w.by = None
    BY DisownOK DEF Crash, TypeInv, WireOK, Late
  <2>2. QED
    BY <2>1 DEF WireOK, Owned
<1>5. QED
  BY <1>1, <1>2, <1>3, <1>4 DEF TypeInv

LEMMA HoldOK ==
  ASSUME HistoryOK, NEW a \in Account, NEW id \in Episode, NEW rec \in Maybe(Rec),
         Hold(a, id, rec), seen' = seen
  PROVE  HistoryOK'
<1>1. cloud' \in Clouds
  BY DEF Hold, HistoryOK, Clouds
<1>2. landed' \in SUBSET (Account \X Episode \X Maybe(Rec))
  BY DEF Hold, HistoryOK
<1>3. QED
  BY <1>1, <1>2 DEF HistoryOK

LEMMA ElsewhereType ==
  ASSUME TypeInv, OtherDevice \/ Deleted
  PROVE  TypeInv'
<1>1. PICK a \in Account, id \in Episode, rec \in Maybe(Rec) : Hold(a, id, rec)
  BY Constants DEF OtherDevice, Deleted, Rec
<1>2. HistoryOK'
  BY <1>1, HoldOK DEF TypeInv, OtherDevice, Deleted
<1>3. RestOK' /\ RowsOK' /\ CallsOK' /\ WireOK'
  BY RestSame, SameRows, SameFrames DEF TypeInv, OtherDevice, Deleted
<1>4. QED
  BY <1>2, <1>3 DEF TypeInv

LEMMA TickType == ASSUME TypeInv, Tick PROVE TypeInv'
<1>1. now \in Nat /\ now' = now + 1 /\ now' \in Time
  BY Constants DEF Tick, TypeInv, RestOK, Time
<1>2. RestOK' /\ HistoryOK'
  BY <1>1 DEF Tick, TypeInv, RestOK, HistoryOK, external
<1>3. RowsOK'
  <2>1. ASSUME NEW s \in Scope, NEW id \in Episode PROVE RowShape(rows[s][id])'
    <3>1. rows[s][id] \in progressRecord /\ RowShape(rows[s][id]) /\ rows' = rows
      BY DEF Tick, TypeInv, RowsOK, Rows
    <3>2. rows[s][id].pending # None => rows[s][id].pending.at \in Nat
      BY <3>1, Constants, RecOK DEF progressRecord
    <3>3. QED
      BY <1>1, <3>1, <3>2 DEF RowShape
  <2>2. QED
    BY <2>1 DEF Tick, TypeInv, RowsOK
<1>4. CallsOK' /\ WireOK'
  BY SameFrames DEF Tick, TypeInv, external
<1>5. QED
  BY <1>2, <1>3, <1>4 DEF TypeInv

LEMMA InitType == Init => TypeInv
<1> SUFFICES ASSUME Init PROVE TypeInv
  OBVIOUS
<1>1. PICK legacy \in [Account -> [Episode -> Maybe([pos : Pos, at : {1}, by : {"off"}])]] :
        rows = [s \in Scope |-> [id \in Episode |->
                  IF s = None THEN NoRow ELSE [NoRow EXCEPT !.local = legacy[s][id]]]]
  BY DEF Init
<1>2. [pos : Pos, at : {1}, by : {"off"}] \subseteq Rec
      /\ [pos : Pos, at : {1}, by : {"there"}] \subseteq Rec
  BY Constants DEF Rec
<1>3. ASSUME NEW s \in Scope, NEW id \in Episode
      PROVE  rows[s][id] \in progressRecord /\ RowShape(rows[s][id])
  <2>1. CASE s = None
    BY <1>1, <2>1, IdleOK, NoRowOK, Constants DEF Init
  <2>2. CASE s # None
    <3>1. legacy[s][id] \in Maybe(Rec)
      BY <1>2, <2>2, Constants DEF Maybe
    <3>2. rows[s][id] = [NoRow EXCEPT !.local = legacy[s][id]]
      BY <1>1, <2>2
    <3>3. QED
      BY <3>1, <3>2, IdleOK DEF NoRow, progressRecord, RowShape
  <2>3. QED
    BY <2>1, <2>2
<1>4. RowsOK
  <2>1. rows = [s \in Scope |-> [id \in Episode |-> rows[s][id]]]
    BY <1>1
  <2>2. QED
    BY <1>3, <2>1 DEF RowsOK, Rows
<1>5. CallsOK
  BY IdleOK DEF Init, CallsOK
<1>6. WireOK
  BY DEF Init, WireOK
<1>7. HistoryOK
  <2>1. cloud \in Clouds
    BY <1>2 DEF Init, Clouds, Maybe
  <2>2. landed \in SUBSET (Account \X Episode \X Maybe(Rec))
    BY <2>1 DEF Init, Clouds
  <2>3. seen \in SUBSET (Scope \X Episode \X Maybe(Rec))
    <3>1. \A a \in Account, id \in Episode : a \in Scope /\ rows[a][id].local \in Maybe(Rec)
      BY <1>3, Constants DEF progressRecord
    <3>2. seen = {<<a, id, rows[a][id].local>> : a \in Account, id \in Episode}
      BY DEF Init
    <3>3. QED
      BY <3>1, <3>2
  <2>4. QED
    BY <2>1, <2>2, <2>3 DEF HistoryOK
<1>8. RestOK
  BY Constants, NoDialogOK DEF Init, RestOK, Sessions, Status, NoStatus
<1>9. QED
  BY <1>4, <1>5, <1>6, <1>7, <1>8 DEF TypeInv

LEMMA TypeStep == TypeInv /\ [Next]_vars => TypeInv'
<1> SUFFICES ASSUME TypeInv, [Next]_vars PROVE TypeInv'
  OBVIOUS
<1>1. ASSUME NEW p \in Proc, Enter(p) PROVE TypeInv'
  BY <1>1, SaveType, SaveUnchangedType, ChooseType, PrepareType, UploadType DEF Enter
<1>2. ASSUME NEW p \in Proc, Resume(p) PROVE TypeInv'
  BY <1>2, OperationType, RefusedType, FlushType, LoadType, ReadType, ReconcileType, AdmitType,
     WriteType, AcknowledgeType, FailType, GiveUpType, doneType, ResultType, ViewType
  DEF Resume, Inside
<1>3. ASSUME NEW p \in Proc, Work(p) \/ Timeout(p) PROVE TypeInv'
  BY <1>3, UploadType, TimeoutType
<1>4. ASSUME Environment PROVE TypeInv'
  BY <1>4, ConnectType, LogoutType, ResetType, DisableType, SettingType, CrashType,
     ElsewhereType, TickType, DeliverType DEF Environment
<1>5. ASSUME UNCHANGED vars PROVE TypeInv'
  BY <1>5, RestSame, SameRows, SameFrames DEF vars, TypeInv, HistoryOK
<1>6. QED
  BY <1>1, <1>2, <1>3, <1>4, <1>5 DEF Next

LEMMA TypeInvHolds == Spec => []TypeInv
<1>1. QED
  BY InitType, TypeStep, PTL DEF Spec

(* Every variable keeps its shape: no operation, refusal, crash or late    *)
(* delivery leaves a row, a frame or an upload half made.                  *)
THEOREM Types == Spec => []TypeOK
<1>1. TypeInv => TypeOK
  BY DEF TypeInv, TypeOK, RestOK, HistoryOK, RowsOK, CallsOK, WireOK, Rows, Clouds, Sessions
<1>2. QED
  BY <1>1, TypeInvHolds, PTL

----------------------------------------------------------------------------
(* The gate.  Whoever is past it holds it, with the handle that switching  *)
(* synchronisation off cancels; and no operation is of an epoch to come.   *)

Exclusive == \A p \in Proc : call[p].pc \in Holding => gate = p /\ handle = p
OffIsCancelled == \A p \in Proc : call[p].off => call[p].cancelled
EpochsPast == \A p \in Proc : call[p].epoch <= session.epoch

Control == Exclusive /\ OffIsCancelled /\ EpochsPast

(* An operation that goes on, or returns.                                  *)
Continues(c, f) ==
  \/ f = Idle
  \/ /\ f.epoch = c.epoch /\ f.off = c.off /\ (c.cancelled => f.cancelled)
     /\ f.pc \in Holding => c.pc \in Holding

LEMMA EpochOK ==
  ASSUME TypeInv, NEW p \in Proc
  PROVE  call[p].epoch \in Nat /\ session.epoch \in Nat /\ session.epoch # 0
BY CallOK, Constants DEF TypeInv, RestOK, Sessions, Frame

LEMMA IdleControl == Idle.pc \notin Holding /\ Idle.off = FALSE /\ Idle.epoch = 0
BY DEF Idle, Holding, Working

LEMMA ContinueControl ==
  ASSUME TypeInv, Control, NEW p \in Proc, NEW f, Put(p, f), Continues(call[p], f),
         UNCHANGED <<session, gate, handle>>
  PROVE  Control'
<1>1. call'[p] = f /\ \A q \in Proc : q # p => call'[q] = call[q]
  BY DEF Put, TypeInv, CallsOK
<1>2. f.pc \in Holding => call[p].pc \in Holding
  BY IdleControl DEF Continues
<1>3. Exclusive'
  BY <1>1, <1>2 DEF Control, Exclusive
<1>4. OffIsCancelled'
  <2>1. f.off => f.cancelled
    BY IdleControl DEF Continues, Control, OffIsCancelled
  <2>2. QED
    BY <1>1, <2>1 DEF Control, OffIsCancelled
<1>5. EpochsPast'
  <2>1. f.epoch <= session.epoch
    BY IdleControl, EpochOK DEF Continues, Control, EpochsPast
  <2>2. QED
    BY <1>1, <2>1 DEF Control, EpochsPast
<1>6. QED
  BY <1>3, <1>4, <1>5 DEF Control

LEMMA LeavingContinues ==
  ASSUME NEW c \in Frame, NEW b \in BOOLEAN, c.pc \in Holding
  PROVE  Continues(c, Leaving(c, b))
BY DEF Continues, Leaving, Frame

LEMMA NextContinues ==
  ASSUME NEW c \in Frame, c.pc \in Holding
  PROVE  Continues(c, NextUpload(c)) /\ Continues(c, AfterReconcile(c))
<1>1. Continues(c, NextUpload(c))
  BY DEF Continues, NextUpload, Leaving, Frame
<1>2. Continues(c, AfterReconcile(c))
  BY DEF Continues, AfterReconcile, Leaving, Frame
<1>3. QED
  BY <1>1, <1>2

LEMMA GotoContinues ==
  ASSUME NEW c \in Frame, NEW pc \in Pcs, pc \in Holding => c.pc \in Holding
  PROVE  Continues(c, [c EXCEPT !.pc = pc])
BY DEF Continues, Frame

(* Each of these steps goes on with the operation or returns from it.      *)
LEMMA InsideContinues ==
  ASSUME TypeInv, NEW p \in Proc, Inside(p) \/ Fail(p) \/ GiveUp(p)
  PROVE  \E f : Put(p, f) /\ Continues(call[p], f)
<1> DEFINE c == call[p]
<1>1. c \in Frame
  BY CallOK DEF TypeInv
<1>2. CASE Flush(p)
  <2> DEFINE ids == {id \in Pending(session.scope) : Uploadable(Row(id))}
             f == [c EXCEPT !.todo = ids, !.performed = ids # {},
                            !.pc = IF ids = {} THEN "leave" ELSE "load"]
  <2>1. Put(p, f) /\ c.pc \in Holding
    BY <1>2 DEF Flush, Holding, Working
  <2>2. Continues(c, f)
    BY <1>1, <2>1 DEF Continues, Frame
  <2>3. QED
    BY <2>1, <2>2
<1>3. CASE LoadBefore(p)
  <2>1. PICK id : Put(p, [c EXCEPT !.pc = "read", !.id = id, !.todo = @ \ {id},
                                   !.revision = Row(id).revision])
    BY <1>3 DEF LoadBefore
  <2>2. c.pc \in Holding
    BY <1>3 DEF LoadBefore, Holding, Working
  <2>3. Continues(c, [c EXCEPT !.pc = "read", !.id = id, !.todo = @ \ {id},
                               !.revision = Row(id).revision])
    BY <1>1, <2>2 DEF Continues, Frame
  <2>4. QED
    BY <2>1, <2>3
<1>4. CASE readCloud(p)
  <2> DEFINE f == [c EXCEPT !.pc = "reconcile", !.cloud = cloud[session.scope][c.id]]
  <2>1. Put(p, f) /\ c.pc \in Holding
    BY <1>4 DEF readCloud, Holding, Working
  <2>2. Continues(c, f)
    BY <1>1, <2>1 DEF Continues, Frame
  <2>3. QED
    BY <2>1, <2>2
<1>5. CASE reconcileProgress(p)
  <2>1. c.pc \in Holding /\ \E f \in {AfterReconcile(c), Leaving(c, TRUE)} : Put(p, f)
    BY <1>5 DEF reconcileProgress, Holding, Working
  <2>2. QED
    BY <1>1, <2>1, NextContinues, LeavingContinues
<1>6. CASE Admit(p)
  <2> DEFINE r == Row(c.id)
             f == [c EXCEPT !.pc = "send", !.sent = r.pending, !.revision = r.revision]
  <2>1. c.pc \in Holding /\ (Put(p, f) \/ Put(p, NextUpload(c)))
    BY <1>6 DEF Admit, Holding, Working
  <2>2. Continues(c, f)
    BY <1>1, <2>1 DEF Continues, Frame
  <2>3. QED
    BY <1>1, <2>1, <2>2, NextContinues
<1>7. CASE WriteProgress(p)
  <2>1. Put(p, [c EXCEPT !.pc = "sent"]) /\ c.pc \in Holding
    BY <1>7 DEF WriteProgress, Goto, Holding, Working
  <2>2. QED
    BY <1>1, <2>1, GotoContinues DEF Pcs
<1>8. CASE Acknowledge(p)
  <2>1. c.pc \in Holding /\ \E f \in {NextUpload(c), Leaving(c, TRUE)} : Put(p, f)
    BY <1>8 DEF Acknowledge, Holding, Working
  <2>2. QED
    BY <1>1, <2>1, NextContinues, LeavingContinues
<1>9. CASE Fail(p) \/ GiveUp(p)
  <2>1. Put(p, Leaving(c, TRUE)) /\ c.pc \in Holding
    BY <1>9 DEF Fail, GiveUp, Refuses, Holding, Working
  <2>2. QED
    BY <1>1, <2>1, LeavingContinues
<1>10. QED
  BY <1>2, <1>3, <1>4, <1>5, <1>6, <1>7, <1>8, <1>9 DEF Inside

LEMMA OutsideContinues ==
  ASSUME TypeInv, NEW p \in Proc,
         Refused(p) \/ progressResult(p) \/ progressView(p) \/ Timeout(p)
  PROVE  \E f : Put(p, f) /\ Continues(call[p], f)
<1> DEFINE c == call[p]
<1>1. c \in Frame
  BY CallOK DEF TypeInv
<1>2. CASE Refused(p)
  <2> DEFINE f == [c EXCEPT !.pc = "result", !.failed = TRUE]
  <2>1. Put(p, f) \/ Put(p, Idle)
    BY <1>2 DEF Refused
  <2>2. Continues(c, f) /\ Continues(c, Idle)
    BY <1>1 DEF Continues, Frame, Holding, Working
  <2>3. QED
    BY <2>1, <2>2
<1>3. CASE progressResult(p) \/ progressView(p)
  <2>1. Put(p, [c EXCEPT !.pc = "view"]) \/ Put(p, Idle)
    BY <1>3 DEF progressResult, progressView, Goto
  <2>2. Continues(c, [c EXCEPT !.pc = "view"]) /\ Continues(c, Idle)
    BY <1>1 DEF Continues, Frame, Holding, Working
  <2>3. QED
    BY <2>1, <2>2
<1>4. CASE Timeout(p)
  <2>1. Put(p, [c EXCEPT !.cancelled = TRUE])
    BY <1>4 DEF Timeout
  <2>2. Continues(c, [c EXCEPT !.cancelled = TRUE])
    BY <1>1 DEF Continues, Frame
  <2>3. QED
    BY <2>1, <2>2
<1>5. QED
  BY <1>2, <1>3, <1>4

(* Entering an operation: the new frame is of the current epoch.           *)
LEMMA BeginControl ==
  ASSUME TypeInv, Control, NEW p \in Proc, NEW op, NEW pc \in {"gate", "view"}, NEW id,
         Begin(p, op, pc, id), UNCHANGED <<session, gate, handle>>
  PROVE  Control'
<1> DEFINE f == [Idle EXCEPT !.op = op, !.pc = pc, !.epoch = session.epoch, !.id = id]
<1>1. call'[p] = f /\ \A q \in Proc : q # p => call'[q] = call[q]
  BY DEF Begin, Put, TypeInv, CallsOK
<1>2. f.pc \notin Holding /\ f.off = FALSE /\ f.epoch = session.epoch
  BY DEF Idle, Holding, Working
<1>3. Exclusive'
  BY <1>1, <1>2 DEF Control, Exclusive
<1>4. OffIsCancelled'
  BY <1>1, <1>2 DEF Control, OffIsCancelled
<1>5. EpochsPast'
  <2>1. session' = session /\ session.epoch \in Nat /\ call'[p].epoch = session.epoch
    BY <1>1, <1>2, EpochOK
  <2>2. ASSUME NEW q \in Proc PROVE call'[q].epoch <= session'.epoch
    <3>1. CASE q = p
      BY <2>1, <3>1
    <3>2. CASE q # p
      BY <1>1, <2>1, <3>2 DEF Control, EpochsPast
    <3>3. QED
      BY <3>1, <3>2
  <2>3. QED
    BY <2>2 DEF EpochsPast
<1>6. QED
  BY <1>3, <1>4, <1>5 DEF Control

LEMMA GateControl ==
  ASSUME TypeInv, Control, NEW p \in Proc, progressOperation(p) \/ done(p)
  PROVE  Control'
<1> DEFINE c == call[p]
<1>1. c \in Frame
  BY CallOK DEF TypeInv
<1>2. PICK f : /\ Put(p, f)
               /\ f = Idle \/ (f.epoch = c.epoch /\ f.off = c.off /\ f.cancelled = c.cancelled)
               /\ f.pc \in Holding => gate' = p /\ handle' = p
  <2>1. CASE progressOperation(p)
    <3>1. Put(p, [c EXCEPT !.pc = FirstStep(p)]) /\ gate' = p /\ handle' = p
      BY <2>1 DEF progressOperation, Goto
    <3>2. QED
      BY <1>1, <3>1 DEF Frame
  <2>2. CASE done(p)
    <3>1. Put(p, [c EXCEPT !.pc = "result"]) \/ Put(p, Idle)
      BY <2>2 DEF done, Goto
    <3>2. QED
      BY <1>1, <3>1 DEF Frame, Idle, Holding, Working
  <2>3. QED
    BY <2>1, <2>2
<1>3. call'[p] = f /\ \A q \in Proc : q # p => call'[q] = call[q]
  BY <1>2 DEF Put, TypeInv, CallsOK
<1>4. \A q \in Proc : q # p => call[q].pc \notin Holding
  BY Constants DEF progressOperation, done, Control, Exclusive, Holding
<1>5. Exclusive'
  BY <1>2, <1>3, <1>4 DEF Exclusive
<1>6. OffIsCancelled'
  BY <1>2, <1>3, IdleControl DEF Control, OffIsCancelled
<1>7. EpochsPast'
  <2>1. session' = session /\ f.epoch <= session.epoch
    BY <1>2, IdleControl, EpochOK DEF Control, EpochsPast, progressOperation, done
  <2>2. QED
    BY <1>3, <2>1 DEF Control, EpochsPast
<1>8. QED
  BY <1>5, <1>6, <1>7 DEF Control

LEMMA DisableControl == ASSUME TypeInv, Control, Disable PROVE Control'
<1>1. ASSUME NEW p \in Proc
      PROVE  /\ call'[p].pc = call[p].pc /\ call'[p].epoch = call[p].epoch
             /\ call'[p].off => call'[p].cancelled
  <2>1. CASE call[p] = Idle /\ call'[p] = Idle
    BY <2>1, IdleControl
  <2>2. CASE call'[p] = [call[p] EXCEPT !.cancelled = CancelledByDisabling(p),
                                        !.off = call[p].pc \in Working]
    <3>1. call[p] \in Frame
      BY CallOK DEF TypeInv
    <3>2. call[p].pc \in Working => CancelledByDisabling(p)
      BY DEF CancelledByDisabling, Control, Exclusive, Holding
    <3>3. /\ call'[p].pc = call[p].pc /\ call'[p].epoch = call[p].epoch
          /\ call'[p].off = (call[p].pc \in Working)
          /\ call'[p].cancelled = CancelledByDisabling(p)
      BY <2>2, <3>1 DEF Frame
    <3>4. QED
      BY <3>2, <3>3
  <2>3. QED
    BY <2>1, <2>2, DisableFrames DEF TypeInv
<1>2. UNCHANGED <<session, gate, handle>>
  BY DEF Disable
<1>3. QED
  BY <1>1, <1>2 DEF Control, Exclusive, OffIsCancelled, EpochsPast

LEMMA SessionControl ==
  ASSUME TypeInv, Control, Connect \/ Logout \/ Reset
  PROVE  Control'
<1>1. session'.epoch = session.epoch + 1 /\ UNCHANGED <<gate, handle, call>>
  BY DEF Connect, Logout, Reset
<1>2. EpochsPast'
  BY <1>1, EpochOK DEF Control, EpochsPast
<1>3. QED
  BY <1>1, <1>2 DEF Control, Exclusive, OffIsCancelled

LEMMA CrashControl == ASSUME TypeInv, Crash PROVE Control'
<1>1. session'.epoch = 1 /\ \A p \in Proc : call'[p] = Idle
  BY DEF Crash
<1>2. QED
  BY <1>1, IdleControl DEF Control, Exclusive, OffIsCancelled, EpochsPast

LEMMA DeliverControl == ASSUME TypeInv, Control, NEW w \in wire, Deliver(w) PROVE Control'
<1>1. ASSUME NEW p \in Proc
      PROVE  /\ call'[p].pc \in Holding => call[p].pc \in Holding
             /\ call'[p].off = call[p].off /\ call'[p].cancelled = call[p].cancelled
             /\ call'[p].epoch = call[p].epoch
  <2>1. CASE p = w.by
    <3>1. call'[p] = [call[p] EXCEPT !.pc = "landed"] /\ call[p] \in Frame /\ call[p].pc = "sent"
      BY <2>1, CallOK, Constants DEF Deliver, TypeInv, WireOK, Owned
    <3>2. QED
      BY <3>1 DEF Frame, Holding, Working
  <2>2. CASE p # w.by
    BY <2>2 DEF Deliver
  <2>3. QED
    BY <2>1, <2>2
<1>2. UNCHANGED <<session, gate, handle>>
  BY DEF Deliver
<1>3. QED
  BY <1>1, <1>2 DEF Control, Exclusive, OffIsCancelled, EpochsPast

LEMMA ControlInit == Init => Control
BY IdleControl DEF Init, Control, Exclusive, OffIsCancelled, EpochsPast

LEMMA ControlStep == TypeInv /\ Control /\ [Next]_vars => Control'
<1> SUFFICES ASSUME TypeInv, Control, [Next]_vars PROVE Control'
  OBVIOUS
<1>1. ASSUME UNCHANGED <<session, gate, handle, call>> PROVE Control'
  BY <1>1 DEF Control, Exclusive, OffIsCancelled, EpochsPast
<1>2. ASSUME NEW p \in Proc, SaveProgress(p) \/ SaveUnchanged(p) PROVE Control'
  BY <1>1, <1>2 DEF SaveProgress, SaveUnchanged
<1>3. ASSUME NEW p \in Proc, ChooseProgress(p) PROVE Control'
  BY <1>3, BeginControl DEF ChooseProgress
<1>4. ASSUME NEW p \in Proc, PrepareProgress(p) PROVE Control'
  BY <1>4, BeginControl DEF PrepareProgress
<1>5. ASSUME NEW p \in Proc, ProgressRetry(p) \/ Work(p) PROVE Control'
  BY <1>5, BeginControl DEF ProgressRetry, Work
<1>6. ASSUME NEW p \in Proc, progressOperation(p) \/ done(p) PROVE Control'
  BY <1>6, GateControl
<1>7. ASSUME NEW p \in Proc, Inside(p) \/ Fail(p) \/ GiveUp(p) PROVE Control'
  <2>1. UNCHANGED <<session, gate, handle>>
    BY <1>7 DEF Inside, Flush, LoadBefore, readCloud, reconcileProgress, Admit, WriteProgress,
                Acknowledge, Fail, GiveUp
  <2>2. QED
    BY <1>7, <2>1, InsideContinues, ContinueControl
<1>8. ASSUME NEW p \in Proc, Refused(p) \/ progressResult(p) \/ progressView(p) \/ Timeout(p)
      PROVE  Control'
  <2>1. UNCHANGED <<session, gate, handle>>
    BY <1>8 DEF Refused, progressResult, progressView, Timeout
  <2>2. QED
    BY <1>8, <2>1, OutsideContinues, ContinueControl
<1>9. ASSUME Environment PROVE Control'
  <2>1. ASSUME Enable \/ BackoffEnds \/ OtherDevice \/ Deleted \/ Tick PROVE Control'
    BY <1>1, <2>1 DEF Enable, BackoffEnds, OtherDevice, Deleted, Tick
  <2>2. QED
    BY <1>9, <2>1, SessionControl, DisableControl, CrashControl, DeliverControl DEF Environment
<1>10. ASSUME UNCHANGED vars PROVE Control'
  BY <1>1, <1>10 DEF vars
<1>11. QED
  BY <1>2, <1>3, <1>4, <1>5, <1>6, <1>7, <1>8, <1>9, <1>10 DEF Next, Enter, Resume

LEMMA ControlHolds == Spec => [](TypeInv /\ Control)
<1>1. Init => TypeInv /\ Control
  BY InitType, ControlInit
<1>2. (TypeInv /\ Control) /\ [Next]_vars => (TypeInv /\ Control)'
  BY TypeStep, ControlStep
<1>3. QED
  BY <1>1, <1>2, PTL DEF Spec

(* Of the page's and the worker's operations, one at a time reads, writes  *)
(* and uploads.                                                            *)
THEOREM OneAtATime == Spec => []OneOperation
<1>1. Control => OneOperation
  BY DEF Control, Exclusive, OneOperation, Holding
<1>2. QED
  BY <1>1, ControlHolds, PTL

----------------------------------------------------------------------------
(* What rows, frames and uploads know: S is what this device has played    *)
(* from or overruled, L what the platform has held, t the time.            *)

Overrules(S, s, id, rec, read) ==
  read = None \/ Newer(rec, read) \/ Among(S, s, id, read)

Due(S, s, id, rec, read) == ~cloudEqual(read, rec) /\ Overrules(S, s, id, rec, read)

(* The baseline was played from here, or is older than all there is to     *)
(* upload, now or later.                                                   *)
Outdated(S, s, id, r, t) ==
  r.baseline # None =>
    \/ Among(S, s, id, r.baseline)
    \/ /\ t > r.baseline.at + Window
       /\ r.pending # None => Newer(r.pending, r.baseline)

RowTrue(s, id, r, S, L, t) ==
  /\ r.local # None => <<s, id, r.local>> \in S
  /\ Among(L, s, id, r.baseline) /\ Among(L, s, id, r.conflict)
  /\ Outdated(S, s, id, r, t)

(* What a frame of the current epoch knows of the row it works on.  A      *)
(* revision that has moved on shows that the row was saved or chosen anew. *)
FrameTrue(s, c, r, S, L) ==
  /\ c.pc \in Loaded \ {"read"} => Among(L, s, c.id, c.cloud)
  /\ c.pc \in {"read", "reconcile"} =>
       c.revision <= r.revision /\ (c.revision < r.revision => r.ready < r.revision)
  /\ c.pc = "admit" /\ Admissible(r) => Due(S, s, c.id, r.pending, c.cloud)
  /\ c.pc \in Sending =>
       /\ c.sent.by = "here" /\ <<s, c.id, c.sent>> \in S
       /\ Due(S, s, c.id, c.sent, c.cloud)
       /\ c.revision <= r.revision
       /\ r.pending # None /\ r.revision = c.revision => r.pending = c.sent
  /\ c.pc = "landed" => <<s, c.id, c.sent>> \in L

UploadTrue(w, S) ==
  /\ w.rec.by = "here" /\ <<w.scope, w.id, w.rec>> \in S
  /\ Due(S, w.scope, w.id, w.rec, w.read)

CloudKnown == \A a \in Account, id \in Episode : <<a, id, cloud[a][id]>> \in landed
RowsTrue == \A s \in Scope, id \in Episode : RowTrue(s, id, rows[s][id], seen, landed, now)
FramesTrue ==
  \A p \in Proc : Current(call[p].epoch) =>
    FrameTrue(session.scope, call[p], Row(call[p].id), seen, landed)
WireTrue ==
  \A w \in wire :
    /\ UploadTrue(w, seen)
    /\ w.by # None /\ Current(call[w.by].epoch) => w.scope = session.scope

Truth == CloudKnown /\ RowsTrue /\ FramesTrue /\ WireTrue

SafeInv == TypeInv /\ Control /\ Truth

----------------------------------------------------------------------------
(* Facts about what is known.                                              *)

LEMMA AmongFacts ==
  ASSUME NEW h, NEW s, NEW id
  PROVE  /\ \A rec : <<s, id, rec>> \in h => Among(h, s, id, rec)
         /\ \A a, b : Among(h, s, id, a) /\ cloudEqual(a, b) => Among(h, s, id, b)
         /\ \A h2 : h \subseteq h2 => \A rec : Among(h, s, id, rec) => Among(h2, s, id, rec)
         /\ Among(h, s, id, None)
<1>1. ASSUME NEW rec, <<s, id, rec>> \in h PROVE Among(h, s, id, rec)
  <2>1. cloudEqual(rec, rec)
    BY DEF cloudEqual
  <2>2. QED
    BY <1>1, <2>1 DEF Among
<1>2. ASSUME NEW a, NEW b, Among(h, s, id, a), cloudEqual(a, b) PROVE Among(h, s, id, b)
  <2>1. CASE a = None \/ b = None
    BY <1>2, <2>1 DEF Among, cloudEqual
  <2>2. CASE a # None /\ b # None
    <3>1. PICK x \in h : x[1] = s /\ x[2] = id /\ cloudEqual(x[3], a)
      BY <1>2, <2>2 DEF Among
    <3>2. cloudEqual(x[3], b)
      BY <1>2, <2>2, <3>1 DEF cloudEqual
    <3>3. QED
      BY <3>1, <3>2 DEF Among
  <2>3. QED
    BY <2>1, <2>2
<1>3. QED
  BY <1>1, <1>2 DEF Among

LEMMA EqualFacts ==
  /\ \A a, b : cloudEqual(a, b) <=> cloudEqual(b, a)
  /\ \A a, b : cloudEqual(a, b) /\ a # None => b # None /\ a.at = b.at
BY DEF cloudEqual

LEMMA DueGrows ==
  ASSUME NEW S, NEW S2, S \subseteq S2, NEW s, NEW id, NEW rec, NEW read, Due(S, s, id, rec, read)
  PROVE  Due(S2, s, id, rec, read)
BY AmongFacts DEF Due, Overrules

LEMMA UploadGrows ==
  ASSUME NEW S, NEW S2, S \subseteq S2, NEW w, UploadTrue(w, S)
  PROVE  UploadTrue(w, S2)
BY DueGrows DEF UploadTrue

LEMMA RowGrows ==
  ASSUME NEW r \in progressRecord, NEW s, NEW id, NEW S, NEW S2, S \subseteq S2,
         NEW L, NEW L2, L \subseteq L2, NEW t \in Nat, NEW t2 \in Nat, t <= t2,
         RowTrue(s, id, r, S, L, t)
  PROVE  RowTrue(s, id, r, S2, L2, t2)
<1>1. r.baseline # None => r.baseline.at \in Nat /\ Window \in Nat
  BY Constants, RecOK DEF progressRecord
<1>2. Outdated(S2, s, id, r, t2)
  BY <1>1, AmongFacts DEF RowTrue, Outdated
<1>3. QED
  BY <1>2, AmongFacts DEF RowTrue

LEMMA FrameGrows ==
  ASSUME NEW c, NEW r, NEW s, NEW S, NEW S2, S \subseteq S2, NEW L, NEW L2, L \subseteq L2,
         FrameTrue(s, c, r, S, L)
  PROVE  FrameTrue(s, c, r, S2, L2)
BY AmongFacts, DueGrows DEF FrameTrue

LEMMA FrameFree ==
  ASSUME NEW c, NEW r, NEW s, NEW S, NEW L, c.pc \notin Loaded
  PROVE  FrameTrue(s, c, r, S, L)
BY DEF FrameTrue, Loaded, Sending

(* The row was saved or chosen anew under the frame.                       *)
LEMMA FrameMoved ==
  ASSUME NEW c \in Frame, NEW r \in progressRecord, NEW n \in progressRecord, NEW s, NEW S, NEW L,
         FrameTrue(s, c, r, S, L), r.revision < n.revision, n.ready < n.revision
  PROVE  FrameTrue(s, c, n, S, L)
<1>1. c.revision \in Nat /\ r.revision \in Nat /\ n.revision \in Nat /\ n.ready \in Nat
  BY Constants DEF Frame, progressRecord
<1>2. ~Admissible(n)
  BY <1>1 DEF Admissible
<1>3. c.pc \in {"read", "reconcile"} =>
        c.revision <= n.revision /\ (c.revision < n.revision => n.ready < n.revision)
  BY <1>1 DEF FrameTrue
<1>4. c.pc \in Sending => c.revision <= n.revision /\ n.revision # c.revision
  BY <1>1 DEF FrameTrue
<1>5. QED
  BY <1>2, <1>3, <1>4 DEF FrameTrue

----------------------------------------------------------------------------
(* What the new rows know.                                                 *)

LEMMA SavedTrue ==
  ASSUME NEW r \in progressRecord, NEW s, NEW id, NEW S, NEW L, NEW t \in Nat,
         RowTrue(s, id, r, S, L, t), NEW rec \in Rec, rec.at = t, <<s, id, rec>> \in S
  PROVE  RowTrue(s, id, AfterSave(r, rec), S, L, t)
<1> DEFINE n == AfterSave(r, rec)
<1>1. /\ n.local = rec /\ n.conflict = None /\ n.baseline = r.baseline
      /\ n.pending = None \/ n.pending = rec
  BY DEF AfterSave, progressRecord
<1> HIDE DEF n
<1>2. Outdated(S, s, id, n, t)
  BY <1>1 DEF RowTrue, Outdated, Newer
<1>3. RowTrue(s, id, n, S, L, t)
  BY <1>1, <1>2, AmongFacts DEF RowTrue
<1>4. QED
  BY <1>3 DEF n

LEMMA UnsavedTrue ==
  ASSUME NEW r \in progressRecord, NEW s, NEW id, NEW S, NEW L, NEW t,
         RowTrue(s, id, r, S, L, t)
  PROVE  RowTrue(s, id, [r EXCEPT !.pending = None, !.revision = @ + 1, !.ready = 0], S, L, t)
<1> DEFINE n == [r EXCEPT !.pending = None, !.revision = @ + 1, !.ready = 0]
<1>1. n.local = r.local /\ n.conflict = r.conflict /\ n.baseline = r.baseline /\ n.pending = None
  BY DEF progressRecord
<1> HIDE DEF n
<1>2. Outdated(S, s, id, n, t)
  BY <1>1 DEF RowTrue, Outdated
<1>3. RowTrue(s, id, n, S, L, t)
  BY <1>1, <1>2 DEF RowTrue
<1>4. QED
  BY <1>3 DEF n

LEMMA ChosenTrue ==
  ASSUME NEW r \in progressRecord, NEW s, NEW id, NEW S, NEW L, NEW t,
         RowTrue(s, id, r, S, L, t), NEW choice,
         <<s, id, AfterChoice(r, choice).local>> \in S, <<s, id, r.conflict>> \in S
  PROVE  RowTrue(s, id, AfterChoice(r, choice), S, L, t)
<1> DEFINE n == AfterChoice(r, choice)
<1>1. n.baseline = r.conflict /\ n.conflict = None
  BY DEF AfterChoice, progressRecord
<1>2. <<s, id, n.local>> \in S
  OBVIOUS
<1> HIDE DEF n
<1>3. Outdated(S, s, id, n, t)
  BY <1>1, AmongFacts DEF Outdated
<1>4. RowTrue(s, id, n, S, L, t)
  BY <1>1, <1>2, <1>3, AmongFacts DEF RowTrue
<1>5. QED
  BY <1>4 DEF n

LEMMA AdoptedTrue ==
  ASSUME NEW r \in progressRecord, NEW s, NEW id, NEW S, NEW L, NEW t,
         RowTrue(s, id, r, S, L, t), NEW c, Among(L, s, id, c),
         c # None /\ c # r.local => <<s, id, c>> \in S
  PROVE  RowTrue(s, id, Adopted(r, c), S, L, t)
<1> DEFINE n == Adopted(r, c)
<1>1. /\ n.local = IF c = None THEN r.local ELSE c
      /\ n.conflict = None /\ n.baseline = c /\ n.pending = None
  BY DEF Adopted, Unqueued, progressRecord
<1> HIDE DEF n
<1>2. n.local # None => <<s, id, n.local>> \in S
  BY <1>1 DEF RowTrue
<1>3. Outdated(S, s, id, n, t)
  BY <1>1, <1>2, AmongFacts DEF Outdated
<1>4. RowTrue(s, id, n, S, L, t)
  BY <1>1, <1>2, <1>3, AmongFacts DEF RowTrue
<1>5. QED
  BY <1>4 DEF n

LEMMA SettledTrue ==
  ASSUME NEW r \in progressRecord, NEW s, NEW id, NEW S, NEW L, NEW t,
         RowTrue(s, id, r, S, L, t), NEW c, Among(L, s, id, c), Among(S, s, id, c)
  PROVE  RowTrue(s, id, Settled(r, c), S, L, t) /\ RowTrue(s, id, Rebased(r, c), S, L, t)
<1>1. RowTrue(s, id, Settled(r, c), S, L, t)
  <2> DEFINE n == Settled(r, c)
  <2>1. n.local = r.local /\ n.conflict = None /\ n.baseline = c
    BY DEF Settled, Unqueued, progressRecord
  <2> HIDE DEF n
  <2>2. Outdated(S, s, id, n, t)
    BY <2>1 DEF Outdated
  <2>3. RowTrue(s, id, n, S, L, t)
    BY <2>1, <2>2, AmongFacts DEF RowTrue
  <2>4. QED
    BY <2>3 DEF n
<1>2. RowTrue(s, id, Rebased(r, c), S, L, t)
  <2> DEFINE n == Rebased(r, c)
  <2>1. n.local = r.local /\ n.conflict = r.conflict /\ n.baseline = c
    BY DEF Rebased, progressRecord
  <2> HIDE DEF n
  <2>2. Outdated(S, s, id, n, t)
    BY <2>1 DEF Outdated
  <2>3. RowTrue(s, id, n, S, L, t)
    BY <2>1, <2>2, AmongFacts DEF RowTrue
  <2>4. QED
    BY <2>3 DEF n
<1>3. QED
  BY <1>1, <1>2

LEMMA NewerTrue ==
  ASSUME NEW r \in progressRecord, NEW s, NEW id, NEW S, NEW L, NEW t \in Nat,
         RowTrue(s, id, r, S, L, t), NEW c \in Rec, Among(L, s, id, c),
         r.pending # None, r.pending.at <= t, Newer(r.pending, c)
  PROVE  RowTrue(s, id, Rebased(r, c), S, L, t)
<1> DEFINE n == Rebased(r, c)
<1>1. n.local = r.local /\ n.conflict = r.conflict /\ n.baseline = c /\ n.pending = r.pending
  BY DEF Rebased, progressRecord
<1>2. c.at \in Nat /\ r.pending.at \in Nat /\ Window \in Nat
  BY Constants, RecOK DEF progressRecord
<1> HIDE DEF n
<1>3. Outdated(S, s, id, n, t)
  BY <1>1, <1>2 DEF Outdated, Newer
<1>4. RowTrue(s, id, n, S, L, t)
  BY <1>1, <1>3, AmongFacts DEF RowTrue
<1>5. QED
  BY <1>4 DEF n

LEMMA ConflictedTrue ==
  ASSUME NEW r \in progressRecord, NEW s, NEW id, NEW S, NEW L, NEW t, NEW token,
         RowTrue(s, id, r, S, L, t), NEW c, Among(L, s, id, c)
  PROVE  RowTrue(s, id, Conflicted(r, c, token), S, L, t)
<1> DEFINE n == Conflicted(r, c, token)
<1>1. n.local = r.local /\ n.conflict = c /\ n.baseline = r.baseline /\ n.pending = r.pending
  BY DEF Conflicted, progressRecord
<1> HIDE DEF n
<1>2. Outdated(S, s, id, n, t)
  BY <1>1 DEF RowTrue, Outdated
<1>3. RowTrue(s, id, n, S, L, t)
  BY <1>1, <1>2, AmongFacts DEF RowTrue
<1>4. QED
  BY <1>3 DEF n

(* Whatever reconcile makes of a row is true, and what it leaves to upload *)
(* is due.                                                                 *)
LEMMA ReconciledTrue ==
  ASSUME NEW r \in progressRecord, RowShape(r), now \in Nat,
         NEW s, NEW id, NEW S, NEW L, RowTrue(s, id, r, S, L, now),
         NEW c \in Maybe(Rec), Among(L, s, id, c), NEW token \in Token,
         LET new == reconcile(r, c, token)
         IN new.local = r.local \/ <<s, id, new.local>> \in S
  PROVE  LET new == reconcile(r, c, token)
             n == [new EXCEPT !.ready = new.revision]
         IN /\ RowTrue(s, id, n, S, L, now)
            /\ Admissible(n) => Due(S, s, id, n.pending, c)
<1> DEFINE new == reconcile(r, c, token)
           n == [new EXCEPT !.ready = new.revision]
           Good(x) == /\ RowTrue(s, id, x, S, L, now)
                      /\ x.pending # None /\ x.conflict = None => Due(S, s, id, x.pending, c)
<1>1. r.pending # None => /\ r.pending \in Rec /\ <<s, id, r.pending>> \in S
                          /\ r.pending.at \in Nat /\ r.pending.at <= now
  BY Constants, RecOK DEF progressRecord, RowShape, RowTrue
<1>2. new = Adopted(r, c) => Good(new)
  <2>1. SUFFICES ASSUME new = Adopted(r, c) PROVE Good(new)
    OBVIOUS
  <2>2. new.pending = None /\ (c # None => new.local = c)
    BY <2>1 DEF Adopted, Unqueued, progressRecord
  <2>3. c # None /\ c # r.local => <<s, id, c>> \in S
    BY <2>2
  <2>4. RowTrue(s, id, Adopted(r, c), S, L, now)
    BY <2>3, AdoptedTrue
  <2>5. QED
    BY <2>1, <2>2, <2>4
<1>3. r.pending # None /\ cloudEqual(r.pending, c) => Good(Settled(r, c))
  <2>1. SUFFICES ASSUME r.pending # None, cloudEqual(r.pending, c) PROVE Good(Settled(r, c))
    OBVIOUS
  <2>2. Among(S, s, id, c)
    BY <1>1, <2>1, AmongFacts
  <2>3. Settled(r, c).pending = None
    BY DEF Settled, Unqueued, progressRecord
  <2>4. QED
    BY <2>2, <2>3, SettledTrue
<1>4. r.pending # None /\ ~cloudEqual(r.pending, c) /\ (cloudEqual(r.baseline, c) \/ c = None)
        => Good(r)
  <2>1. SUFFICES ASSUME r.pending # None, ~cloudEqual(r.pending, c),
                        cloudEqual(r.baseline, c) \/ c = None
                 PROVE  Overrules(S, s, id, r.pending, c)
    BY EqualFacts DEF Due
  <2>2. CASE c # None
    <3>1. r.baseline # None /\ r.baseline.at = c.at
      BY <2>1, <2>2, EqualFacts
    <3>2. CASE Among(S, s, id, r.baseline)
      BY <2>1, <2>2, <3>2, AmongFacts DEF Overrules
    <3>3. CASE Newer(r.pending, r.baseline)
      BY <3>1, <3>3 DEF Overrules, Newer
    <3>4. QED
      BY <2>1, <3>1, <3>2, <3>3 DEF RowTrue, Outdated
  <2>3. QED
    BY <2>2 DEF Overrules
<1>5. r.pending # None /\ ~cloudEqual(r.pending, c) /\ c # None /\ Newer(r.pending, c)
        => Good(Rebased(r, c))
  <2>1. SUFFICES ASSUME r.pending # None, ~cloudEqual(r.pending, c), c # None, Newer(r.pending, c)
                 PROVE  Good(Rebased(r, c))
    OBVIOUS
  <2>2. RowTrue(s, id, Rebased(r, c), S, L, now)
    BY <1>1, <2>1, Constants, NewerTrue
  <2>3. Rebased(r, c).pending = r.pending
    BY DEF Rebased, progressRecord
  <2>4. Due(S, s, id, r.pending, c)
    BY <2>1, EqualFacts DEF Due, Overrules
  <2>5. QED
    BY <2>2, <2>3, <2>4
<1>6. c # None => Good(Conflicted(r, c, token))
  <2>1. Conflicted(r, c, token).conflict = c
    BY DEF Conflicted, progressRecord
  <2>2. QED
    BY <2>1, ConflictedTrue
<1>7. Good(new)
  <2> HIDE DEF Good
  <2>1. QED
    BY <1>2, <1>3, <1>4, <1>5, <1>6, ReconcileCases
<1>8. new \in progressRecord
  BY ReconciledOK
<1>9. n.local = new.local /\ n.conflict = new.conflict /\ n.baseline = new.baseline
      /\ n.pending = new.pending
  BY <1>8 DEF progressRecord
<1> HIDE DEF n, new
<1>10. Outdated(S, s, id, n, now)
  BY <1>7, <1>9 DEF RowTrue, Outdated
<1>11. RowTrue(s, id, n, S, L, now)
  BY <1>7, <1>9, <1>10 DEF RowTrue
<1>12. Admissible(n) => Due(S, s, id, n.pending, c)
  BY <1>7, <1>9 DEF Admissible
<1>13. QED
  BY <1>11, <1>12 DEF n, new

----------------------------------------------------------------------------
(* What a step leaves true.                                                *)

Grows == seen \subseteq seen' /\ landed \subseteq landed' /\ now <= now' /\ now' \in Nat

LEMMA NowOK == ASSUME TypeInv PROVE now \in Nat /\ session \in Sessions /\ session.scope \in Scope
BY Constants DEF TypeInv, RestOK, Sessions

LEMMA CurrentOK ==
  ASSUME TypeInv, Control, NEW e, Current(e)
  PROVE  session.scope \in Account /\ session.scope \in Scope /\ e = session.epoch
BY NowOK, Constants DEF Current

LEMMA SameRowsTrue ==
  ASSUME SafeInv, rows' = rows, Grows
  PROVE  RowsTrue'
<1>1. ASSUME NEW s \in Scope, NEW id \in Episode
      PROVE  RowTrue(s, id, rows[s][id], seen', landed', now')
  <2>1. rows[s][id] \in progressRecord /\ now \in Nat
    BY NowOK DEF SafeInv, TypeInv, RowsOK, Rows
  <2>2. RowTrue(s, id, rows[s][id], seen, landed, now)
    BY DEF SafeInv, Truth, RowsTrue
  <2>3. QED
    BY <2>1, <2>2, RowGrows DEF Grows
<1>2. QED
  BY <1>1 DEF RowsTrue

LEMMA PutRowTrue ==
  ASSUME SafeInv, NEW id \in Episode, NEW n \in progressRecord, putProgress(id, n), Grows,
         RowTrue(session.scope, id, n, seen', landed', now')
  PROVE  RowsTrue'
<1>1. ASSUME NEW s \in Scope, NEW i \in Episode
      PROVE  RowTrue(s, i, rows'[s][i], seen', landed', now')
  <2>1. rows[s][i] \in progressRecord /\ now \in Nat /\ rows \in Rows
    BY NowOK DEF SafeInv, TypeInv, RowsOK, Rows
  <2>2. CASE s = session.scope /\ i = id
    BY <2>1, <2>2 DEF putProgress, Rows
  <2>3. CASE ~(s = session.scope /\ i = id)
    <3>1. rows'[s][i] = rows[s][i]
      BY <2>1, <2>3 DEF putProgress, Rows
    <3>2. RowTrue(s, i, rows[s][i], seen, landed, now)
      BY DEF SafeInv, Truth, RowsTrue
    <3>3. RowTrue(s, i, rows[s][i], seen', landed', now')
      BY <2>1, <3>2, RowGrows DEF Grows
    <3>4. QED
      BY <3>1, <3>3
  <2>4. QED
    BY <2>2, <2>3
<1>2. QED
  BY <1>1 DEF RowsTrue

LEMMA SameWireTrue ==
  ASSUME SafeInv, Grows, UNCHANGED <<wire, session>>,
         \A p \in Proc : call[p].pc = "sent" => call'[p].epoch = call[p].epoch
  PROVE  WireTrue'
<1>1. ASSUME NEW w \in wire
      PROVE  /\ UploadTrue(w, seen')
             /\ w.by # None /\ Current(call'[w.by].epoch) => w.scope = session.scope
  <2>1. UploadTrue(w, seen')
    BY UploadGrows DEF SafeInv, Truth, WireTrue, Grows
  <2>2. w.by # None => w.by \in Proc /\ call[w.by].pc = "sent"
    BY Constants DEF SafeInv, TypeInv, WireOK, Owned, Upload
  <2>3. w.by # None /\ Current(call'[w.by].epoch) => w.scope = session.scope
    BY <2>2 DEF SafeInv, Truth, WireTrue
  <2>4. QED
    BY <2>1, <2>3
<1>2. QED
  BY <1>1 DEF WireTrue, Current

(* Only goroutine p moves.                                                 *)
LEMMA PutFrameTrue ==
  ASSUME SafeInv, NEW p \in Proc, NEW f, Put(p, f), UNCHANGED <<session, rows>>, Grows,
         Current(f.epoch) => FrameTrue(session.scope, f, Row(f.id), seen', landed')
  PROVE  FramesTrue'
<1>1. call'[p] = f /\ \A q \in Proc : q # p => call'[q] = call[q]
  BY DEF Put, SafeInv, TypeInv, CallsOK
<1>2. ASSUME NEW q \in Proc, Current(call'[q].epoch)
      PROVE  FrameTrue(session.scope, call'[q], Row(call'[q].id), seen', landed')
  <2>1. CASE q = p
    BY <1>1, <1>2, <2>1
  <2>2. CASE q # p
    <3>1. FrameTrue(session.scope, call[q], Row(call[q].id), seen, landed)
      BY <1>1, <1>2, <2>2 DEF SafeInv, Truth, FramesTrue
    <3>2. FrameTrue(session.scope, call[q], Row(call[q].id), seen', landed')
      BY <3>1, FrameGrows DEF Grows
    <3>3. QED
      BY <1>1, <2>2, <3>2
  <2>3. QED
    BY <2>1, <2>2
<1>3. QED
  BY <1>2 DEF FramesTrue, Current, Row

(* The listener saves or chooses: whoever works on the row finds out.      *)
LEMMA MovedRowTrue ==
  ASSUME SafeInv, NEW id \in Episode, NEW n \in progressRecord, putProgress(id, n),
         Row(id).revision < n.revision, n.ready < n.revision, session' = session, Grows,
         \A q \in Proc : call'[q] = call[q] \/ call'[q].pc \notin Loaded
  PROVE  FramesTrue'
<1>1. ASSUME NEW q \in Proc, Current(call'[q].epoch)
      PROVE  FrameTrue(session.scope, call'[q], rows'[session.scope][call'[q].id], seen', landed')
  <2>1. CASE call'[q].pc \notin Loaded
    BY <2>1, FrameFree
  <2>2. CASE call'[q] = call[q] /\ call'[q].pc \in Loaded
    <3> DEFINE c == call[q]
    <3>1. c \in Frame /\ c.id \in Episode /\ session.scope \in Scope /\ rows \in Rows
      BY <2>2, NowOK, CallOK DEF SafeInv, TypeInv, RowsOK, FrameShape
    <3>2. FrameTrue(session.scope, c, Row(c.id), seen', landed')
      <4>1. FrameTrue(session.scope, c, Row(c.id), seen, landed)
        BY <1>1, <2>2 DEF SafeInv, Truth, FramesTrue
      <4>2. QED
        BY <4>1, FrameGrows DEF Grows
    <3>3. CASE c.id = id
      <4>1. rows'[session.scope][c.id] = n /\ Row(c.id) = Row(id) /\ Row(id) \in progressRecord
        BY <3>1, <3>3, RowOK DEF putProgress, Rows, SafeInv, TypeInv
      <4>2. FrameTrue(session.scope, c, n, seen', landed')
        BY <3>1, <3>2, <4>1, FrameMoved
      <4>3. QED
        BY <2>2, <4>1, <4>2
    <3>4. CASE c.id # id
      <4>1. rows'[session.scope][c.id] = Row(c.id)
        BY <3>1, <3>4 DEF putProgress, Rows, Row
      <4>2. QED
        BY <2>2, <3>2, <4>1
    <3>5. QED
      BY <3>3, <3>4
  <2>3. QED
    BY <1>1, <2>1, <2>2
<1>2. QED
  BY <1>1 DEF FramesTrue, Current, Row

(* The operation past the gate writes its row: nobody else is at work.     *)
LEMMA OwnRowTrue ==
  ASSUME SafeInv, NEW p \in Proc, call[p].pc \in Loaded, NEW f, Put(p, f), session' = session,
         Current(f.epoch) => FrameTrue(session.scope, f, rows'[session.scope][f.id], seen', landed')
  PROVE  FramesTrue'
<1>1. call'[p] = f /\ \A q \in Proc : q # p => call'[q] = call[q]
  BY DEF Put, SafeInv, TypeInv, CallsOK
<1>2. \A q \in Proc : q # p => call[q].pc \notin Loaded
  BY DEF SafeInv, Control, Exclusive, Holding, Working, Loaded
<1>3. ASSUME NEW q \in Proc, Current(call'[q].epoch)
      PROVE  FrameTrue(session.scope, call'[q], rows'[session.scope][call'[q].id], seen', landed')
  <2>1. CASE q = p
    BY <1>1, <1>3, <2>1
  <2>2. CASE q # p
    BY <1>1, <1>2, <2>2, FrameFree
  <2>3. QED
    BY <2>1, <2>2
<1>4. QED
  BY <1>3 DEF FramesTrue, Current, Row

LEMMA SameGrows ==
  ASSUME TypeInv, UNCHANGED <<seen, landed, now>>
  PROVE  Grows
BY NowOK DEF Grows

LEMMA SameCloud ==
  ASSUME SafeInv, UNCHANGED <<cloud, landed>>
  PROVE  CloudKnown'
BY DEF SafeInv, Truth, CloudKnown

(* A step that only moves goroutine p.                                     *)
LEMMA FrameStepTrue ==
  ASSUME SafeInv, NEW p \in Proc, NEW f, Put(p, f),
         call[p].pc = "sent" => f.epoch = call[p].epoch,
         UNCHANGED <<session, rows, external, now, seen>>,
         Current(f.epoch) => FrameTrue(session.scope, f, Row(f.id), seen, landed)
  PROVE  Truth'
<1>1. UNCHANGED <<cloud, wire, landed>>
  BY DEF external
<1>2. Grows
  BY <1>1, SameGrows DEF SafeInv
<1>3. \A q \in Proc : call[q].pc = "sent" => call'[q].epoch = call[q].epoch
  BY DEF Put, SafeInv, TypeInv, CallsOK
<1>4. CloudKnown'
  BY <1>1, SameCloud
<1>5. RowsTrue'
  BY <1>2, SameRowsTrue
<1>6. WireTrue'
  BY <1>1, <1>2, <1>3, SameWireTrue
<1>7. FramesTrue'
  BY <1>1, <1>2, PutFrameTrue
<1>8. QED
  BY <1>4, <1>5, <1>6, <1>7 DEF Truth

----------------------------------------------------------------------------
(* Each step keeps what is known true.                                     *)

(* The steps that hold no read of the cloud and no record afterwards.      *)
LEMMA FreeStepTrue ==
  ASSUME SafeInv, NEW p \in Proc, NEW f, Put(p, f), f.pc \notin Loaded, call[p].pc # "sent",
         UNCHANGED <<session, rows, external, now, seen>>
  PROVE  Truth'
BY FrameStepTrue, FrameFree

LEMMA EnterTrue ==
  ASSUME SafeInv, NEW p \in Proc, PrepareProgress(p) \/ ProgressRetry(p) \/ Work(p)
  PROVE  Truth'
<1>1. PICK op \in Operations, pc \in {"gate", "view"}, id \in Maybe(Episode) : Begin(p, op, pc, id)
  <2>1. CASE PrepareProgress(p)
    <3>1. PICK id \in Episode : Begin(p, "prepare", IF disabled THEN "view" ELSE "gate", id)
      BY <2>1 DEF PrepareProgress
    <3>2. "prepare" \in Operations /\ (IF disabled THEN "view" ELSE "gate") \in {"gate", "view"}
      BY DEF Operations
    <3>3. QED
      BY <3>1, <3>2, Constants
  <2>2. CASE ProgressRetry(p) \/ Work(p)
    BY <2>2, Constants DEF ProgressRetry, Work, Operations
  <2>3. QED
    BY <2>1, <2>2
<1> DEFINE f == [Idle EXCEPT !.op = op, !.pc = pc, !.epoch = session.epoch, !.id = id]
<1>2. Put(p, f) /\ f.pc \notin Loaded
  BY <1>1 DEF Begin, Idle, Loaded
<1>3. call[p].pc # "sent" /\ UNCHANGED <<session, rows, external, now, seen>>
  BY DEF PrepareProgress, ProgressRetry, Work, May, Idle
<1>4. QED
  BY <1>2, <1>3, FreeStepTrue

LEMMA PassTrue ==
  ASSUME SafeInv, NEW p \in Proc,
         \/ progressOperation(p) \/ Refused(p) \/ Flush(p) \/ Fail(p)
         \/ done(p) \/ progressResult(p) \/ progressView(p)
  PROVE  Truth'
<1> DEFINE c == call[p]
<1>1. c \in Frame /\ c.pc # "sent"
  BY CallOK DEF SafeInv, TypeInv, progressOperation, Refused, Flush, Fail, Refuses, Working,
                done, progressResult, progressView
<1>2. UNCHANGED <<session, rows, external, now, seen>>
  BY DEF progressOperation, Refused, Flush, Fail, done, progressResult, progressView
<1>3. \E f : Put(p, f) /\ f.pc \notin Loaded
  <2>1. CASE progressOperation(p)
    <3>1. Put(p, [c EXCEPT !.pc = FirstStep(p)])
      BY <2>1 DEF progressOperation, Goto
    <3>2. [c EXCEPT !.pc = FirstStep(p)].pc \notin Loaded
      BY <1>1 DEF Frame, FirstStep, Loaded
    <3>3. QED
      BY <3>1, <3>2
  <2>2. CASE Refused(p)
    <3>1. Put(p, [c EXCEPT !.pc = "result", !.failed = TRUE]) \/ Put(p, Idle)
      BY <2>2 DEF Refused
    <3>2. [c EXCEPT !.pc = "result", !.failed = TRUE].pc \notin Loaded /\ Idle.pc \notin Loaded
      BY <1>1 DEF Frame, Idle, Loaded
    <3>3. QED
      BY <3>1, <3>2
  <2>3. CASE Flush(p)
    <3> DEFINE ids == {id \in Pending(session.scope) : Uploadable(Row(id))}
               f == [c EXCEPT !.todo = ids, !.performed = ids # {},
                              !.pc = IF ids = {} THEN "leave" ELSE "load"]
    <3>1. Put(p, f)
      BY <2>3 DEF Flush
    <3>2. f.pc \notin Loaded
      BY <1>1 DEF Frame, Loaded
    <3>3. QED
      BY <3>1, <3>2
  <2>4. CASE Fail(p)
    <3>1. Put(p, Leaving(c, TRUE))
      BY <2>4 DEF Fail
    <3>2. Leaving(c, TRUE).pc \notin Loaded
      BY <1>1 DEF Leaving, Frame, Loaded
    <3>3. QED
      BY <3>1, <3>2
  <2>5. CASE done(p) \/ progressResult(p) \/ progressView(p)
    <3>1. \E pc \in {"result", "view"} : Put(p, [c EXCEPT !.pc = pc]) \/ Put(p, Idle)
      BY <2>5 DEF done, progressResult, progressView, Goto
    <3>2. \A pc \in {"result", "view"} : [c EXCEPT !.pc = pc].pc \notin Loaded
      BY <1>1 DEF Frame, Loaded
    <3>3. Idle.pc \notin Loaded
      BY DEF Idle, Loaded
    <3>4. QED
      BY <3>1, <3>2, <3>3
  <2>6. QED
    BY <2>1, <2>2, <2>3, <2>4, <2>5
<1>4. QED
  BY <1>1, <1>2, <1>3, FreeStepTrue

LEMMA TimeoutTrue ==
  ASSUME SafeInv, NEW p \in Proc, Timeout(p)
  PROVE  Truth'
<1> DEFINE c == call[p]
           f == [c EXCEPT !.cancelled = TRUE]
<1>1. Put(p, f) /\ UNCHANGED <<session, rows, external, now, seen>>
  BY DEF Timeout
<1>2. /\ f.epoch = c.epoch /\ f.pc = c.pc /\ f.id = c.id /\ f.cloud = c.cloud
      /\ f.revision = c.revision /\ f.sent = c.sent
  BY CallOK DEF SafeInv, TypeInv, Frame
<1> HIDE DEF f
<1>3. Current(c.epoch) => FrameTrue(session.scope, c, Row(c.id), seen, landed)
  BY DEF SafeInv, Truth, FramesTrue
<1>4. Current(f.epoch) => FrameTrue(session.scope, f, Row(f.id), seen, landed)
  BY <1>2, <1>3 DEF FrameTrue
<1>5. QED
  BY <1>1, <1>2, <1>4, FrameStepTrue

LEMMA LoadTrue ==
  ASSUME SafeInv, NEW p \in Proc, LoadBefore(p)
  PROVE  Truth'
<1> DEFINE c == call[p]
<1>1. c \in Frame /\ FrameShape(c) /\ c.pc = "load"
  BY CallOK DEF SafeInv, TypeInv, LoadBefore
<1>2. PICK id \in IF c.op = "prepare" THEN {c.id} ELSE c.todo :
        Put(p, [c EXCEPT !.pc = "read", !.id = id, !.todo = @ \ {id},
                         !.revision = Row(id).revision])
  BY DEF LoadBefore
<1> DEFINE f == [c EXCEPT !.pc = "read", !.id = id, !.todo = @ \ {id},
                          !.revision = Row(id).revision]
<1>3. id \in Episode
  BY <1>1, <1>2 DEF Frame, FrameShape
<1>4. Row(id).revision \in Nat
  BY <1>3, RowOK, Constants DEF SafeInv, TypeInv, progressRecord
<1>5. f.pc = "read" /\ f.id = id /\ f.revision = Row(id).revision
  BY <1>1 DEF Frame
<1>6. Put(p, f) /\ c.pc # "sent" /\ UNCHANGED <<session, rows, external, now, seen>>
  BY <1>1, <1>2 DEF LoadBefore
<1> HIDE DEF f
<1>7. FrameTrue(session.scope, f, Row(f.id), seen, landed)
  BY <1>4, <1>5 DEF FrameTrue, Loaded, Sending
<1>8. QED
  BY <1>6, <1>7, FrameStepTrue

LEMMA ReadTrue ==
  ASSUME SafeInv, NEW p \in Proc, readCloud(p)
  PROVE  Truth'
<1> DEFINE c == call[p]
           f == [c EXCEPT !.pc = "reconcile", !.cloud = cloud[session.scope][c.id]]
<1>1. c \in Frame /\ FrameShape(c) /\ c.pc = "read" /\ c.id \in Episode /\ Current(c.epoch)
  BY CallOK DEF SafeInv, TypeInv, readCloud, FrameShape, Loaded
<1>2. session.scope \in Account
  BY <1>1, CurrentOK DEF SafeInv
<1>3. FrameTrue(session.scope, c, Row(c.id), seen, landed)
  BY <1>1 DEF SafeInv, Truth, FramesTrue
<1>4. Among(landed, session.scope, c.id, cloud[session.scope][c.id])
  BY <1>1, <1>2, AmongFacts DEF SafeInv, Truth, CloudKnown
<1>5. /\ f.pc = "reconcile" /\ f.id = c.id /\ f.revision = c.revision
      /\ f.cloud = cloud[session.scope][c.id]
  BY <1>1 DEF Frame
<1>6. Put(p, f) /\ c.pc # "sent" /\ UNCHANGED <<session, rows, external, now, seen>>
  BY <1>1 DEF readCloud
<1> HIDE DEF f
<1>7. FrameTrue(session.scope, f, Row(f.id), seen, landed)
  BY <1>1, <1>3, <1>4, <1>5 DEF FrameTrue, Loaded, Sending
<1>8. QED
  BY <1>6, <1>7, FrameStepTrue

LEMMA AdmitTrue ==
  ASSUME SafeInv, NEW p \in Proc, Admit(p)
  PROVE  Truth'
<1> DEFINE c == call[p]
           r == Row(c.id)
           f == [c EXCEPT !.pc = "send", !.sent = r.pending, !.revision = r.revision]
<1>1. c \in Frame /\ FrameShape(c) /\ c.pc = "admit" /\ c.id \in Episode /\ Current(c.epoch)
  BY CallOK DEF SafeInv, TypeInv, Admit, Allowed, FrameShape, Loaded
<1>2. c.pc # "sent" /\ UNCHANGED <<session, rows, external, now, seen>>
  BY <1>1 DEF Admit
<1>3. CASE ~Admissible(r)
  <2>1. Put(p, NextUpload(c)) /\ NextUpload(c).pc \notin Loaded
    BY <1>1, <1>3 DEF Admit, NextUpload, Leaving, Frame, Loaded
  <2>2. QED
    BY <1>2, <2>1, FreeStepTrue
<1>4. CASE Admissible(r)
  <2>1. r \in progressRecord /\ RowShape(r) /\ session.scope \in Scope /\ r.revision \in Nat
    BY <1>1, RowOK, Constants DEF SafeInv, TypeInv, progressRecord
  <2>2. FrameTrue(session.scope, c, r, seen, landed)
    BY <1>1 DEF SafeInv, Truth, FramesTrue
  <2>3. Due(seen, session.scope, c.id, r.pending, c.cloud)
        /\ Among(landed, session.scope, c.id, c.cloud)
    BY <1>1, <1>4, <2>2 DEF FrameTrue, Loaded
  <2>4. r.pending.by = "here" /\ <<session.scope, c.id, r.pending>> \in seen
    <3>1. RowTrue(session.scope, c.id, r, seen, landed, now)
      BY <1>1, <2>1 DEF SafeInv, Truth, RowsTrue, Row
    <3>2. QED
      BY <1>4, <2>1, <3>1 DEF RowTrue, RowShape, Admissible
  <2>5. /\ f.pc = "send" /\ f.id = c.id /\ f.revision = r.revision
        /\ f.sent = r.pending /\ f.cloud = c.cloud
    BY <1>1 DEF Frame
  <2>6. Put(p, f)
    BY <1>4 DEF Admit
  <2> HIDE DEF f
  <2>7. FrameTrue(session.scope, f, Row(f.id), seen, landed)
    BY <2>1, <2>3, <2>4, <2>5 DEF FrameTrue, Loaded, Sending
  <2>8. QED
    BY <1>2, <2>6, <2>7, FrameStepTrue
<1>5. QED
  BY <1>3, <1>4

LEMMA WriteTrue ==
  ASSUME SafeInv, NEW p \in Proc, WriteProgress(p)
  PROVE  Truth'
<1> DEFINE c == call[p]
           u == [by |-> p, scope |-> session.scope, id |-> c.id, rec |-> c.sent,
                 read |-> c.cloud, revision |-> c.revision]
           f == [c EXCEPT !.pc = "sent"]
<1>1. c \in Frame /\ FrameShape(c) /\ c.pc = "send" /\ Current(c.epoch)
  BY CallOK DEF SafeInv, TypeInv, WriteProgress
<1>2. FrameTrue(session.scope, c, Row(c.id), seen, landed)
  BY <1>1 DEF SafeInv, Truth, FramesTrue
<1>3. Put(p, f) /\ wire' = wire \cup {u}
      /\ UNCHANGED <<session, rows, cloud, landed, now, seen>>
  BY DEF WriteProgress, Goto
<1>4. Grows /\ CloudKnown'
  BY <1>3, SameGrows, SameCloud DEF SafeInv
<1>5. RowsTrue'
  BY <1>3, <1>4, SameRowsTrue
<1>6. FramesTrue'
  <2>1. /\ f.pc = "sent" /\ f.id = c.id /\ f.revision = c.revision /\ f.sent = c.sent
        /\ f.cloud = c.cloud
    BY <1>1 DEF Frame
  <2> HIDE DEF f
  <2>2. FrameTrue(session.scope, f, Row(f.id), seen', landed')
    BY <1>1, <1>2, <1>3, <2>1 DEF FrameTrue, Loaded, Sending
  <2>3. QED
    BY <1>3, <1>4, <2>2, PutFrameTrue
<1>7. WireTrue'
  <2>1. ASSUME NEW w \in wire
        PROVE  /\ UploadTrue(w, seen')
               /\ w.by # None /\ Current(call'[w.by].epoch) => w.scope = session.scope
    <3>1. w.by # None => w.by \in Proc /\ call[w.by].pc = "sent" /\ w.by # p
      BY <1>1, Constants DEF SafeInv, TypeInv, WireOK, Owned, Upload
    <3>2. w.by # None => call'[w.by] = call[w.by]
      BY <1>3, <3>1 DEF Put, SafeInv, TypeInv, CallsOK
    <3>3. QED
      BY <1>3, <3>1, <3>2 DEF SafeInv, Truth, WireTrue
  <2>2. UploadTrue(u, seen) /\ u.scope = session.scope
    BY <1>1, <1>2 DEF FrameTrue, Sending, UploadTrue
  <2>3. QED
    BY <1>3, <2>1, <2>2 DEF WireTrue, Current
<1>8. QED
  BY <1>4, <1>5, <1>6, <1>7 DEF Truth

LEMMA GiveUpTrue ==
  ASSUME SafeInv, NEW p \in Proc, GiveUp(p)
  PROVE  Truth'
<1> DEFINE f == Leaving(call[p], TRUE)
<1>1. Put(p, f) /\ f.pc \notin Loaded
  BY CallOK DEF GiveUp, SafeInv, TypeInv, Leaving, Frame, Loaded
<1>2. /\ wire' \subseteq (wire \ Mine(p)) \cup Disown(Mine(p))
      /\ UNCHANGED <<session, rows, cloud, landed, now, seen>>
  BY DEF GiveUp
<1>3. Grows /\ CloudKnown'
  BY <1>2, SameGrows, SameCloud DEF SafeInv
<1>4. RowsTrue'
  BY <1>2, <1>3, SameRowsTrue
<1>5. FramesTrue'
  BY <1>1, <1>2, <1>3, PutFrameTrue, FrameFree
<1>6. WireTrue'
  <2>1. ASSUME NEW w \in wire \ Mine(p)
        PROVE  /\ UploadTrue(w, seen)
               /\ w.by # None /\ Current(call'[w.by].epoch) => w.scope = session.scope
    <3>1. w.by # None => w.by \in Proc /\ w.by # p
      BY Constants DEF SafeInv, TypeInv, WireOK, Upload, Mine
    <3>2. w.by # None => call'[w.by] = call[w.by]
      BY <1>1, <3>1 DEF Put, SafeInv, TypeInv, CallsOK
    <3>3. QED
      BY <3>1, <3>2 DEF SafeInv, Truth, WireTrue
  <2>2. ASSUME NEW w \in Disown(Mine(p)) PROVE UploadTrue(w, seen) /\ w.by = None
    <3>1. PICK v \in wire : w = [v EXCEPT !.by = None] /\ v \in Upload /\ UploadTrue(v, seen)
      BY DEF Disown, Mine, SafeInv, TypeInv, WireOK, Truth, WireTrue
    <3>2. /\ w.by = None /\ w.rec = v.rec /\ w.scope = v.scope /\ w.id = v.id /\ w.read = v.read
      BY <3>1 DEF Upload
    <3>3. QED
      BY <3>1, <3>2 DEF UploadTrue
  <2>3. QED
    BY <1>2, <2>1, <2>2 DEF WireTrue, Current
<1>7. QED
  BY <1>3, <1>4, <1>5, <1>6 DEF Truth

LEMMA SeeFacts ==
  ASSUME TypeInv, NEW id \in Episode, NEW rs, See(id, rs)
  PROVE  seen \subseteq seen' /\ \A rec \in rs : <<session.scope, id, rec>> \in seen'
BY DEF See

(* RowTrue of the row as it was, in what is known after the step.          *)
LEMMA OldRowTrue ==
  ASSUME SafeInv, NEW id \in Episode, Grows, now' = now
  PROVE  RowTrue(session.scope, id, Row(id), seen', landed', now)
<1>1. session.scope \in Scope /\ Row(id) \in progressRecord
  BY RowOK DEF SafeInv, TypeInv
<1>2. RowTrue(session.scope, id, Row(id), seen, landed, now)
  BY <1>1 DEF SafeInv, Truth, RowsTrue, Row
<1>3. QED
  BY <1>1, <1>2, NowOK, RowGrows DEF Grows, SafeInv

LEMMA SaveTrue ==
  ASSUME SafeInv, NEW p \in Proc, SaveProgress(p)
  PROVE  Truth'
<1>1. PICK id \in Episode, pos \in Pos :
        LET r == Row(id)
            rec == [pos |-> pos, at |-> now,
                    by |-> IF session.scope # None /\ ~disabled THEN "here" ELSE "off"]
        IN r.revision < MaxRevision /\ putProgress(id, AfterSave(r, rec)) /\ See(id, {rec})
  BY DEF SaveProgress
<1> DEFINE r == Row(id)
           by == IF session.scope # None /\ ~disabled THEN "here" ELSE "off"
           rec == [pos |-> pos, at |-> now, by |-> by]
           n == AfterSave(r, rec)
<1>2. r \in progressRecord /\ RowShape(r) /\ now \in Time /\ r.revision \in Nat
      /\ UNCHANGED <<session, call, external, now>>
  BY RowOK, Constants DEF SafeInv, TypeInv, RestOK, SaveProgress, progressRecord
<1>3. rec \in Rec /\ n \in progressRecord
  BY <1>1, <1>2, SavedRowOK
<1>4. seen \subseteq seen' /\ <<session.scope, id, rec>> \in seen'
  BY <1>1, SeeFacts DEF SafeInv
<1>5. Grows /\ CloudKnown' /\ now \in Nat
  BY <1>2, <1>4, NowOK, SameCloud DEF Grows, external, SafeInv
<1>6. RowTrue(session.scope, id, r, seen', landed', now)
  BY <1>2, <1>5, OldRowTrue
<1>7. rec.at = now /\ n.revision = r.revision + 1 /\ n.ready = 0
  BY <1>2 DEF AfterSave, progressRecord
<1>8. putProgress(id, n)
  BY <1>1
<1> HIDE DEF n, rec
<1>9. RowTrue(session.scope, id, n, seen', landed', now')
  BY <1>2, <1>3, <1>4, <1>5, <1>6, <1>7, SavedTrue DEF n
<1>10. RowsTrue'
  BY <1>3, <1>5, <1>8, <1>9, PutRowTrue
<1>11. FramesTrue'
  BY <1>2, <1>3, <1>5, <1>7, <1>8, MovedRowTrue
<1>12. WireTrue'
  BY <1>2, <1>5, SameWireTrue DEF external
<1>13. QED
  BY <1>5, <1>10, <1>11, <1>12 DEF Truth

LEMMA SaveUnchangedTrue ==
  ASSUME SafeInv, NEW p \in Proc, SaveUnchanged(p)
  PROVE  Truth'
<1>1. PICK id \in Episode :
        /\ Row(id).revision < MaxRevision
        /\ putProgress(id, [Row(id) EXCEPT !.pending = None, !.revision = @ + 1, !.ready = 0])
  BY DEF SaveUnchanged
<1> DEFINE r == Row(id)
           n == [r EXCEPT !.pending = None, !.revision = @ + 1, !.ready = 0]
<1>2. r \in progressRecord /\ RowShape(r) /\ r.revision \in Nat
      /\ UNCHANGED <<session, call, external, now, seen>>
  BY RowOK, Constants DEF SafeInv, TypeInv, SaveUnchanged, progressRecord
<1>3. n \in progressRecord
  BY <1>1, <1>2, UnsavedRowOK
<1>4. Grows /\ CloudKnown'
  BY <1>2, SameGrows, SameCloud DEF external, SafeInv
<1>5. RowTrue(session.scope, id, r, seen', landed', now)
  BY <1>2, <1>4, OldRowTrue
<1>6. RowTrue(session.scope, id, n, seen', landed', now')
  BY <1>2, <1>5, UnsavedTrue
<1>7. n.revision = r.revision + 1 /\ n.ready = 0
  BY <1>2 DEF progressRecord
<1>8. putProgress(id, n)
  BY <1>1
<1> HIDE DEF n
<1>9. RowsTrue'
  BY <1>3, <1>4, <1>6, <1>8, PutRowTrue
<1>10. FramesTrue'
  BY <1>2, <1>3, <1>4, <1>7, <1>8, MovedRowTrue
<1>11. WireTrue'
  BY <1>2, <1>4, SameWireTrue DEF external
<1>12. QED
  BY <1>4, <1>9, <1>10, <1>11 DEF Truth

LEMMA ChooseTrue ==
  ASSUME SafeInv, NEW p \in Proc, ChooseProgress(p)
  PROVE  Truth'
<1> DEFINE id == dialog.id
           r == Row(id)
<1>1. PICK choice \in {"local", "cloud"} :
        /\ putProgress(id, AfterChoice(r, choice))
        /\ See(id, {AfterChoice(r, choice).local, r.conflict})
  BY DEF ChooseProgress
<1> DEFINE n == AfterChoice(r, choice)
           f == [Idle EXCEPT !.op = "choose", !.pc = "view", !.epoch = session.epoch, !.id = id]
<1>2. id \in Episode
  BY Constants DEF ChooseProgress, SafeInv, TypeInv, RestOK, Dialog
<1>3. /\ r \in progressRecord /\ RowShape(r) /\ now \in Time
      /\ r.revision < MaxRevision /\ r.conflict # None /\ r.revision \in Nat /\ r.ready \in Nat
      /\ UNCHANGED <<session, external, now>>
  BY <1>2, RowOK, Constants
  DEF SafeInv, TypeInv, RestOK, ChooseProgress, Choosable, progressRecord
<1>4. n \in progressRecord
  BY <1>3, ChosenRowOK
<1>5. /\ seen \subseteq seen' /\ <<session.scope, id, n.local>> \in seen'
      /\ <<session.scope, id, r.conflict>> \in seen'
  BY <1>1, <1>2, SeeFacts DEF SafeInv
<1>6. Grows /\ CloudKnown'
  BY <1>3, <1>5, NowOK, SameCloud DEF Grows, external, SafeInv
<1>7. RowTrue(session.scope, id, r, seen', landed', now)
  BY <1>2, <1>3, <1>6, OldRowTrue
<1>8. RowTrue(session.scope, id, n, seen', landed', now')
  BY <1>3, <1>5, <1>7, ChosenTrue
<1>9. n.revision = r.revision + 1 /\ n.ready = r.ready /\ r.ready <= r.revision
  BY <1>3 DEF AfterChoice, progressRecord, RowShape
<1>10. putProgress(id, n)
  BY <1>1
<1>11. Put(p, f) /\ f.pc = "view" /\ call[p].pc # "sent"
  BY DEF Begin, ChooseProgress, May, Idle
<1> HIDE DEF n, f
<1>12. \A q \in Proc : /\ call'[q] = call[q] \/ call'[q].pc \notin Loaded
                       /\ call[q].pc = "sent" => call'[q].epoch = call[q].epoch
  BY <1>11 DEF Put, SafeInv, TypeInv, CallsOK, Loaded
<1>13. RowsTrue'
  BY <1>2, <1>4, <1>6, <1>8, <1>10, PutRowTrue
<1>14. FramesTrue'
  BY <1>2, <1>3, <1>4, <1>6, <1>9, <1>10, <1>12, MovedRowTrue
<1>15. WireTrue'
  BY <1>3, <1>6, <1>12, SameWireTrue DEF external
<1>16. QED
  BY <1>6, <1>13, <1>14, <1>15 DEF Truth

LEMMA ReconcileTrue ==
  ASSUME SafeInv, NEW p \in Proc, reconcileProgress(p)
  PROVE  Truth'
<1> DEFINE c == call[p]
           r == Row(c.id)
           s == session.scope
<1>1. /\ c \in Frame /\ FrameShape(c) /\ c.pc = "reconcile" /\ c.id \in Episode
      /\ c.cloud \in Maybe(Rec) /\ c.revision \in Nat
  BY CallOK, Constants DEF SafeInv, TypeInv, reconcileProgress, FrameShape, Loaded, Frame
<1>2. Current(c.epoch) /\ UNCHANGED <<session, external, now>>
  BY DEF reconcileProgress, Allowed
<1>3. r \in progressRecord /\ RowShape(r) /\ r.revision \in Nat
  BY <1>1, RowOK, Constants DEF SafeInv, TypeInv, progressRecord
<1>4. FrameTrue(s, c, r, seen, landed)
  BY <1>1, <1>2 DEF SafeInv, Truth, FramesTrue
<1>5. Among(landed, s, c.id, c.cloud)
  BY <1>1, <1>4 DEF FrameTrue, Loaded
<1>6. /\ Leaving(c, TRUE).pc \notin Loaded
      /\ c.op = "prepare" => AfterReconcile(c).pc \notin Loaded
      /\ c.op # "prepare" => /\ AfterReconcile(c).pc = "admit" /\ AfterReconcile(c).id = c.id
                             /\ AfterReconcile(c).cloud = c.cloud
  BY <1>1 DEF Leaving, AfterReconcile, Frame, Loaded
<1>7. CASE ~Unmoved(p)
  <2>1. Put(p, AfterReconcile(c)) /\ UNCHANGED <<rows, seen>>
    BY <1>7 DEF reconcileProgress
  <2>2. ~Admissible(r)
    BY <1>1, <1>3, <1>4, <1>7 DEF FrameTrue, Unmoved, Admissible
  <2>3. FrameTrue(s, AfterReconcile(c), r, seen, landed)
    <3>1. CASE c.op = "prepare"
      BY <1>6, <3>1, FrameFree
    <3>2. CASE c.op # "prepare"
      BY <1>5, <1>6, <2>2, <3>2 DEF FrameTrue, Sending
    <3>3. QED
      BY <3>1, <3>2
  <2>4. c.op # "prepare" => AfterReconcile(c).id = c.id
    BY <1>6
  <2>5. FrameTrue(s, AfterReconcile(c), Row(AfterReconcile(c).id), seen, landed)
    BY <1>6, <2>3, <2>4, FrameFree
  <2>6. QED
    BY <1>1, <1>2, <2>1, <2>5, FrameStepTrue
<1>8. CASE Unmoved(p)
  <2>1. PICK token \in FreshToken :
          LET new == reconcile(r, c.cloud, token)
          IN /\ putProgress(c.id, [new EXCEPT !.ready = new.revision])
             /\ See(c.id, {new.local} \ {r.local})
    BY <1>8 DEF reconcileProgress
  <2>2. PICK f \in {AfterReconcile(c), Leaving(c, TRUE)} : Put(p, f)
    BY <1>8 DEF reconcileProgress
  <2> DEFINE new == reconcile(r, c.cloud, token)
             n == [new EXCEPT !.ready = new.revision]
  <2>3. token \in Token /\ putProgress(c.id, n) /\ n \in progressRecord
    BY <1>1, <1>3, <2>1, ReconciledOK DEF FreshToken
  <2>4. seen \subseteq seen' /\ (new.local = r.local \/ <<s, c.id, new.local>> \in seen')
    BY <1>1, <2>1, SeeFacts DEF SafeInv
  <2>5. Grows /\ CloudKnown' /\ now \in Nat
    BY <1>2, <2>4, NowOK, SameCloud DEF Grows, external, SafeInv
  <2>6. RowTrue(s, c.id, r, seen', landed', now)
    BY <1>1, <1>2, <2>5, OldRowTrue
  <2>7. Among(landed', s, c.id, c.cloud)
    BY <1>2, <1>5 DEF external
  <2>8. /\ RowTrue(s, c.id, n, seen', landed', now)
        /\ Admissible(n) => Due(seen', s, c.id, n.pending, c.cloud)
    BY <1>1, <1>3, <2>3, <2>4, <2>5, <2>6, <2>7, ReconciledTrue
  <2> HIDE DEF n, new
  <2>9. RowsTrue'
    BY <1>1, <1>2, <2>3, <2>5, <2>8, PutRowTrue
  <2>10. FrameTrue(s, f, rows'[s][f.id], seen', landed')
    <3>1. CASE f.pc \notin Loaded
      BY <3>1, FrameFree
    <3>2. CASE f.pc \in Loaded
      <4>1. f.pc = "admit" /\ f.id = c.id /\ f.cloud = c.cloud
        BY <1>6, <2>2, <3>2
      <4>2. rows'[s][c.id] = n
        BY <1>1, <2>3, NowOK DEF putProgress, SafeInv, TypeInv, RowsOK, Rows
      <4>3. FrameTrue(s, f, n, seen', landed')
        BY <2>7, <2>8, <4>1 DEF FrameTrue, Sending
      <4>4. QED
        BY <4>1, <4>2, <4>3
    <3>3. QED
      BY <3>1, <3>2
  <2>11. FramesTrue'
    BY <1>1, <1>2, <2>2, <2>10, OwnRowTrue DEF Loaded
  <2>12. \A q \in Proc : call[q].pc = "sent" => call'[q].epoch = call[q].epoch
    BY <1>1, <2>2 DEF Put, SafeInv, TypeInv, CallsOK
  <2>13. WireTrue'
    BY <1>2, <2>5, <2>12, SameWireTrue DEF external
  <2>14. QED
    BY <2>5, <2>9, <2>11, <2>13 DEF Truth
<1>9. QED
  BY <1>7, <1>8

LEMMA AcknowledgeTrue ==
  ASSUME SafeInv, NEW p \in Proc, Acknowledge(p)
  PROVE  Truth'
<1> DEFINE c == call[p]
           r == Row(c.id)
           s == session.scope
           n == Acknowledged(r, c)
<1>1. /\ c \in Frame /\ FrameShape(c) /\ c.pc = "landed" /\ c.id \in Episode /\ c.sent \in Rec
  BY CallOK DEF SafeInv, TypeInv, Acknowledge, FrameShape, Loaded, Sending
<1>2. Current(c.epoch) /\ UNCHANGED <<session, external, now, seen>> /\ putProgress(c.id, n)
  BY DEF Acknowledge, Allowed
<1>3. r \in progressRecord /\ RowShape(r)
  BY <1>1, RowOK DEF SafeInv, TypeInv
<1>4. n \in progressRecord
  BY <1>1, <1>3, AcknowledgedOK
<1>5. Grows /\ CloudKnown'
  BY <1>2, SameGrows, SameCloud DEF external, SafeInv
<1>6. FrameTrue(s, c, r, seen, landed)
  BY <1>1, <1>2 DEF SafeInv, Truth, FramesTrue
<1>7. Among(landed', s, c.id, c.sent) /\ Among(seen', s, c.id, c.sent)
  BY <1>1, <1>2, <1>6, AmongFacts DEF FrameTrue, Sending, external
<1>8. RowTrue(s, c.id, r, seen', landed', now)
  BY <1>1, <1>2, <1>5, OldRowTrue
<1>9. RowTrue(s, c.id, n, seen', landed', now')
  BY <1>2, <1>3, <1>7, <1>8, SettledTrue DEF Acknowledged, Settled, Rebased
<1> HIDE DEF n
<1>10. RowsTrue'
  BY <1>1, <1>2, <1>4, <1>5, <1>9, PutRowTrue
<1>11. PICK f \in {NextUpload(c), Leaving(c, TRUE)} : Put(p, f)
  BY DEF Acknowledge
<1>12. f.pc \notin Loaded
  BY <1>1, <1>11 DEF NextUpload, Leaving, Frame, Loaded
<1>13. FramesTrue'
  BY <1>1, <1>2, <1>11, <1>12, OwnRowTrue, FrameFree DEF Loaded
<1>14. \A q \in Proc : call[q].pc = "sent" => call'[q].epoch = call[q].epoch
  BY <1>1, <1>11 DEF Put, SafeInv, TypeInv, CallsOK
<1>15. WireTrue'
  BY <1>2, <1>5, <1>14, SameWireTrue DEF external
<1>16. QED
  BY <1>5, <1>10, <1>13, <1>15 DEF Truth

LEMMA NoRowTrue ==
  ASSUME NEW s, NEW id, NEW S, NEW L, NEW t
  PROVE  RowTrue(s, id, NoRow, S, L, t)
BY AmongFacts DEF RowTrue, Outdated, NoRow

(* A new epoch, or a new process: no operation is of the epoch there is.   *)
LEMMA NewSessionTrue ==
  ASSUME SafeInv, UNCHANGED <<cloud, landed, seen, now>>,
         \A p \in Proc : call'[p].epoch # session'.epoch,
         \A w \in wire' : \E v \in wire :
           /\ w.rec = v.rec /\ w.scope = v.scope /\ w.id = v.id /\ w.read = v.read
           /\ w.by = None \/ w.by = v.by,
         \A s \in Scope, id \in Episode : rows'[s][id] = rows[s][id] \/ rows'[s][id] = NoRow
  PROVE  Truth'
<1>1. CloudKnown'
  BY SameCloud
<1>2. RowsTrue'
  <2>1. \A s \in Scope, id \in Episode : RowTrue(s, id, rows'[s][id], seen, landed, now)
    BY NoRowTrue DEF SafeInv, Truth, RowsTrue
  <2>2. QED
    BY <2>1 DEF RowsTrue
<1>3. FramesTrue'
  BY DEF FramesTrue, Current
<1>4. WireTrue'
  <2>1. ASSUME NEW w \in wire'
        PROVE  /\ UploadTrue(w, seen)
               /\ w.by # None => ~(session'.epoch = call'[w.by].epoch)
    <3>1. PICK v \in wire :
            /\ w.rec = v.rec /\ w.scope = v.scope /\ w.id = v.id /\ w.read = v.read
            /\ w.by = None \/ w.by = v.by
      OBVIOUS
    <3>2. UploadTrue(v, seen) /\ v.by \in Maybe(Proc)
      BY DEF SafeInv, Truth, WireTrue, TypeInv, WireOK, Upload
    <3>3. w.by # None => w.by \in Proc
      BY <3>1, <3>2, Constants
    <3>4. QED
      BY <3>1, <3>2, <3>3 DEF UploadTrue
  <2>2. QED
    BY <2>1 DEF WireTrue, Current
<1>5. QED
  BY <1>1, <1>2, <1>3, <1>4 DEF Truth

LEMMA SessionTrue ==
  ASSUME SafeInv, Connect \/ Logout \/ Reset
  PROVE  Truth'
<1>1. /\ session'.epoch = session.epoch + 1
      /\ UNCHANGED <<call, wire, cloud, landed, seen, now>>
  BY DEF Connect, Logout, Reset, external
<1>2. \A p \in Proc : call'[p].epoch # session'.epoch
  BY <1>1, EpochOK DEF SafeInv, Control, EpochsPast
<1>3. \A s \in Scope, id \in Episode : rows'[s][id] = rows[s][id] \/ rows'[s][id] = NoRow
  <2>1. CASE Connect \/ rows' = rows
    BY <2>1 DEF Connect
  <2>2. CASE rows' = [rows EXCEPT ![session.scope] = [id \in Episode |-> NoRow]]
    BY <2>2 DEF SafeInv, TypeInv, RowsOK, Rows
  <2>3. CASE Reset
    BY <2>3 DEF Reset
  <2>4. QED
    BY <2>1, <2>2, <2>3 DEF Logout
<1>4. QED
  BY <1>1, <1>2, <1>3, NewSessionTrue

LEMMA CrashTrue == ASSUME SafeInv, Crash PROVE Truth'
<1>1. \A p \in Proc : call'[p].epoch # session'.epoch
  BY IdleControl DEF Crash
<1>2. UNCHANGED <<rows, cloud, landed, seen, now>>
  BY DEF Crash
<1>3. ASSUME NEW w \in wire'
      PROVE  \E v \in wire : /\ w.rec = v.rec /\ w.scope = v.scope /\ w.id = v.id /\ w.read = v.read
                             /\ w.by = None \/ w.by = v.by
  <2>1. CASE w \in Late
    BY <2>1 DEF Late
  <2>2. CASE w \notin Late
    <3>1. PICK v \in wire : w = [v EXCEPT !.by = None] /\ v \in Upload
      BY <2>2 DEF Crash, Disown, SafeInv, TypeInv, WireOK
    <3>2. QED
      BY <3>1 DEF Upload
  <2>3. QED
    BY <2>1, <2>2
<1>4. QED
  BY <1>1, <1>2, <1>3, NewSessionTrue

LEMMA DisableTrue == ASSUME SafeInv, Disable PROVE Truth'
<1>1. UNCHANGED <<session, rows, external, now, seen>>
  BY DEF Disable
<1>2. Grows /\ CloudKnown'
  BY <1>1, SameGrows, SameCloud DEF external, SafeInv
<1>3. RowsTrue'
  BY <1>1, <1>2, SameRowsTrue
<1>4. ASSUME NEW p \in Proc
      PROVE  /\ call'[p].epoch = call[p].epoch /\ call'[p].pc = call[p].pc
             /\ call'[p].id = call[p].id /\ call'[p].cloud = call[p].cloud
             /\ call'[p].revision = call[p].revision /\ call'[p].sent = call[p].sent
  BY DisableKeeps DEF SafeInv, TypeInv
<1>5. FramesTrue'
  <2>1. ASSUME NEW p \in Proc, Current(call[p].epoch)
        PROVE  FrameTrue(session.scope, call'[p], Row(call'[p].id), seen, landed)
    <3>1. FrameTrue(session.scope, call[p], Row(call[p].id), seen, landed)
      BY <2>1 DEF SafeInv, Truth, FramesTrue
    <3>2. QED
      BY <1>4, <3>1 DEF FrameTrue
  <2>2. QED
    BY <1>1, <1>4, <2>1 DEF FramesTrue, Current, Row, external
<1>6. WireTrue'
  BY <1>1, <1>2, <1>4, SameWireTrue DEF external
<1>7. QED
  BY <1>2, <1>3, <1>5, <1>6 DEF Truth

(* Only the history and the clock move.                                    *)
LEMMA AroundTrue ==
  ASSUME SafeInv, Grows, UNCHANGED <<session, rows, call, wire>>, CloudKnown'
  PROVE  Truth'
<1>1. RowsTrue'
  BY SameRowsTrue
<1>2. WireTrue'
  BY SameWireTrue
<1>3. FramesTrue'
  <2>1. ASSUME NEW p \in Proc, Current(call[p].epoch)
        PROVE  FrameTrue(session.scope, call[p], Row(call[p].id), seen', landed')
    <3>1. FrameTrue(session.scope, call[p], Row(call[p].id), seen, landed)
      BY <2>1 DEF SafeInv, Truth, FramesTrue
    <3>2. QED
      BY <3>1, FrameGrows DEF Grows
  <2>2. QED
    BY <2>1 DEF FramesTrue, Current, Row
<1>4. QED
  BY <1>1, <1>2, <1>3 DEF Truth

LEMMA HoldTrue ==
  ASSUME SafeInv, NEW a \in Account, NEW id \in Episode, NEW rec, Hold(a, id, rec)
  PROVE  CloudKnown' /\ landed \subseteq landed' /\ <<a, id, rec>> \in landed'
<1>1. landed' = landed \cup {<<a, id, rec>>} /\ cloud' = [cloud EXCEPT ![a][id] = rec]
  BY DEF Hold
<1>2. ASSUME NEW b \in Account, NEW i \in Episode PROVE <<b, i, cloud'[b][i]>> \in landed'
  <2>1. CASE b = a /\ i = id
    BY <1>1, <2>1 DEF SafeInv, TypeInv, HistoryOK, Clouds
  <2>2. CASE ~(b = a /\ i = id)
    <3>1. cloud'[b][i] = cloud[b][i]
      BY <1>1, <2>2 DEF SafeInv, TypeInv, HistoryOK, Clouds
    <3>2. QED
      BY <1>1, <3>1 DEF SafeInv, Truth, CloudKnown
  <2>3. QED
    BY <2>1, <2>2
<1>3. QED
  BY <1>1, <1>2 DEF CloudKnown

LEMMA ElsewhereTrue ==
  ASSUME SafeInv, OtherDevice \/ Deleted
  PROVE  Truth'
<1>0. PICK a \in Account, id \in Episode : \E rec : Hold(a, id, rec)
  BY DEF OtherDevice, Deleted
<1>1. PICK rec : Hold(a, id, rec)
  BY <1>0
<1>2. CloudKnown' /\ landed \subseteq landed'
  BY <1>1, HoldTrue
<1>3. UNCHANGED <<session, rows, call, wire, seen, now>>
  BY DEF OtherDevice, Deleted
<1>4. Grows
  BY <1>2, <1>3, NowOK DEF Grows, SafeInv
<1>5. QED
  BY <1>2, <1>3, <1>4, AroundTrue

LEMMA SettingTrue ==
  ASSUME SafeInv, Enable \/ BackoffEnds \/ Tick \/ UNCHANGED vars
  PROVE  Truth'
<1>1. UNCHANGED <<session, rows, call, wire, seen, cloud, landed>>
  BY DEF Enable, BackoffEnds, Tick, vars, external
<1>2. now' = now \/ now' = now + 1
  BY DEF Enable, BackoffEnds, Tick, vars
<1>3. Grows
  BY <1>1, <1>2, NowOK DEF Grows, SafeInv
<1>4. QED
  BY <1>1, <1>3, SameCloud, AroundTrue

LEMMA DeliverTrue ==
  ASSUME SafeInv, NEW w \in wire, Deliver(w)
  PROVE  Truth'
<1>1. /\ w \in Upload /\ w.scope \in Account /\ w.id \in Episode
      /\ w.by # None => w.by \in Proc
  BY Constants DEF SafeInv, TypeInv, WireOK, Upload
<1>2. Hold(w.scope, w.id, w.rec) /\ wire' = wire \ {w} /\ UNCHANGED <<session, rows, now, seen>>
  BY DEF Deliver
<1>3. CloudKnown' /\ landed \subseteq landed' /\ <<w.scope, w.id, w.rec>> \in landed'
  BY <1>1, <1>2, HoldTrue
<1>4. Grows
  BY <1>2, <1>3, NowOK DEF Grows, SafeInv
<1>5. RowsTrue'
  BY <1>2, <1>4, SameRowsTrue
<1>6. ASSUME NEW p \in Proc
      PROVE  /\ call'[p].epoch = call[p].epoch
             /\ \/ call'[p] = call[p]
                \/ /\ p = w.by /\ call[p].pc = "sent" /\ call'[p].pc = "landed"
                   /\ call[p].id = w.id /\ call[p].sent = w.rec
                   /\ call'[p].id = call[p].id /\ call'[p].cloud = call[p].cloud
                   /\ call'[p].revision = call[p].revision /\ call'[p].sent = call[p].sent
  <2>1. CASE p # w.by
    BY <2>1 DEF Deliver
  <2>2. CASE p = w.by
    <3>1. call'[p] = [call[p] EXCEPT !.pc = "landed"] /\ call[p] \in Frame
      BY <2>2, CallOK DEF Deliver, SafeInv, TypeInv
    <3>2. call[p].pc = "sent" /\ call[p].id = w.id /\ call[p].sent = w.rec
      BY <2>2, Constants DEF SafeInv, TypeInv, WireOK, Owned
    <3>3. QED
      BY <2>2, <3>1, <3>2 DEF Frame
  <2>3. QED
    BY <2>1, <2>2
<1>7. FramesTrue'
  <2>1. ASSUME NEW p \in Proc, Current(call[p].epoch)
        PROVE  FrameTrue(session.scope, call'[p], Row(call'[p].id), seen', landed')
    <3>1. FrameTrue(session.scope, call[p], Row(call[p].id), seen', landed')
      <4>1. FrameTrue(session.scope, call[p], Row(call[p].id), seen, landed)
        BY <2>1 DEF SafeInv, Truth, FramesTrue
      <4>2. seen \subseteq seen' /\ landed \subseteq landed'
        BY <1>4 DEF Grows
      <4>3. QED
        BY <4>1, <4>2, FrameGrows
    <3>2. CASE call'[p] = call[p]
      BY <3>1, <3>2
    <3>3. CASE call'[p] # call[p]
      <4>1. p = w.by /\ w.scope = session.scope
        BY <1>6, <2>1, <3>3, Constants DEF SafeInv, Truth, WireTrue
      <4>2. <<session.scope, call'[p].id, call'[p].sent>> \in landed'
        BY <1>3, <1>6, <3>3, <4>1
      <4>3. QED
        BY <1>6, <3>1, <3>3, <4>2 DEF FrameTrue, Loaded, Sending
    <3>4. QED
      BY <3>2, <3>3
  <2>2. QED
    BY <1>2, <1>6, <2>1 DEF FramesTrue, Current, Row
<1>8. WireTrue'
  <2>1. ASSUME NEW v \in wire'
        PROVE  /\ UploadTrue(v, seen)
               /\ v.by # None /\ Current(call'[v.by].epoch) => v.scope = session.scope
    <3>1. v \in wire /\ (v.by # None => v.by \in Proc)
      BY <1>2, Constants DEF SafeInv, TypeInv, WireOK, Upload
    <3>2. QED
      BY <1>6, <3>1 DEF SafeInv, Truth, WireTrue
  <2>2. QED
    BY <1>2, <2>1 DEF WireTrue, Current
<1>9. QED
  BY <1>3, <1>5, <1>7, <1>8 DEF Truth

LEMMA InitTrue == Init => Truth
<1> SUFFICES ASSUME Init PROVE Truth
  OBVIOUS
<1>1. CloudKnown
  BY DEF Init, CloudKnown
<1>2. FramesTrue
  BY IdleControl DEF Init, FramesTrue, Current
<1>3. WireTrue
  BY DEF Init, WireTrue
<1>4. RowsTrue
  <2>1. PICK legacy \in [Account -> [Episode -> Maybe([pos : Pos, at : {1}, by : {"off"}])]] :
          rows = [s \in Scope |-> [id \in Episode |->
                    IF s = None THEN NoRow ELSE [NoRow EXCEPT !.local = legacy[s][id]]]]
    BY DEF Init
  <2>2. seen = {<<a, id, rows[a][id].local>> : a \in Account, id \in Episode}
    BY DEF Init
  <2>3. ASSUME NEW s \in Scope, NEW id \in Episode
        PROVE  RowTrue(s, id, rows[s][id], seen, landed, now)
    <3>1. CASE s = None
      BY <2>1, <3>1, NoRowTrue
    <3>2. CASE s # None
      <4>1. s \in Account /\ rows[s][id] = [NoRow EXCEPT !.local = legacy[s][id]]
        BY <2>1, <3>2, Constants
      <4>2. <<s, id, rows[s][id].local>> \in seen
        <5>1. s \in Account
          BY <4>1
        <5>2. QED
          BY <2>2, <5>1
      <4>3. rows[s][id].baseline = None /\ rows[s][id].conflict = None
        BY <4>1 DEF NoRow
      <4>4. QED
        BY <4>2, <4>3, AmongFacts DEF RowTrue, Outdated
    <3>3. QED
      BY <3>1, <3>2
  <2>4. QED
    BY <2>3 DEF RowsTrue
<1>5. QED
  BY <1>1, <1>2, <1>3, <1>4 DEF Truth

LEMMA TruthStep == SafeInv /\ [Next]_vars => Truth'
<1> SUFFICES ASSUME SafeInv, [Next]_vars PROVE Truth'
  OBVIOUS
<1>1. ASSUME NEW p \in Proc, Enter(p) \/ Work(p) PROVE Truth'
  BY <1>1, SaveTrue, SaveUnchangedTrue, ChooseTrue, EnterTrue DEF Enter
<1>2. ASSUME NEW p \in Proc, Resume(p) PROVE Truth'
  BY <1>2, PassTrue, LoadTrue, ReadTrue, ReconcileTrue, AdmitTrue, WriteTrue, AcknowledgeTrue,
     GiveUpTrue DEF Resume, Inside
<1>3. ASSUME Environment PROVE Truth'
  BY <1>3, SessionTrue, DisableTrue, SettingTrue, CrashTrue, ElsewhereTrue, DeliverTrue
  DEF Environment
<1>4. QED
  BY <1>1, <1>2, <1>3, TimeoutTrue, SettingTrue DEF Next

LEMMA SafeInvHolds == Spec => []SafeInv
<1>1. Init => SafeInv
  BY InitType, ControlInit, InitTrue DEF SafeInv
<1>2. SafeInv /\ [Next]_vars => SafeInv'
  BY TypeStep, ControlStep, TruthStep DEF SafeInv
<1>3. QED
  BY <1>1, <1>2, PTL DEF Spec

----------------------------------------------------------------------------
(* The theorems.                                                           *)

(* What another device left for the listener is not silently lost: an      *)
(* upload replaces only what is clearly older or was played from here.     *)
THEOREM NoUploadOverwritesSilently == Spec => []NoSilentOverwrite
<1>1. SafeInv => NoSilentOverwrite
  BY DEF SafeInv, Truth, WireTrue, UploadTrue, Due, Overrules, NoSilentOverwrite
<1>2. QED
  BY <1>1, SafeInvHolds, PTL

(* A record goes out only for the account it was played in, if it was      *)
(* played while synchronising and the cloud did not already hold it.       *)
THEOREM OnlyDueUploads == Spec => []UploadsAreDue
<1>1. SafeInv => UploadsAreDue
  BY DEF SafeInv, Truth, WireTrue, UploadTrue, Due, UploadsAreDue
<1>2. QED
  BY <1>1, SafeInvHolds, PTL

(* Worker and page take turns, and no read, acknowledgement or choice that *)
(* outlives its session leaves one account's records in another's rows.    *)
THEOREM OperationsApart == Spec => []OperationsKeepApart
<1>1. SafeInv => OneOperation
  BY DEF SafeInv, Control, Exclusive, OneOperation, Holding
<1>2. SafeInv => RowsSpeakOfTheirAccount
  <2> SUFFICES ASSUME SafeInv, NEW a \in Account, NEW id \in Episode
               PROVE  LET r == rows[a][id]
                      IN /\ Among(landed, a, id, r.baseline) /\ Among(landed, a, id, r.conflict)
                         /\ Among(seen, a, id, r.local) /\ Among(seen, a, id, r.pending)
    BY DEF RowsSpeakOfTheirAccount
  <2> DEFINE r == rows[a][id]
  <2>1. a \in Scope
    BY Constants
  <2>2. RowTrue(a, id, r, seen, landed, now) /\ RowShape(r)
    BY <2>1 DEF SafeInv, Truth, RowsTrue, TypeInv, RowsOK
  <2>3. Among(seen, a, id, r.local)
    BY <2>2, AmongFacts DEF RowTrue
  <2>4. Among(seen, a, id, r.pending)
    BY <2>2, <2>3, AmongFacts DEF RowShape
  <2>5. QED
    BY <2>2, <2>3, <2>4 DEF RowTrue
<1>3. SafeInv => OperationsKeepApart
  BY <1>1, <1>2 DEF OperationsKeepApart
<1>4. QED
  BY <1>3, SafeInvHolds, PTL

----------------------------------------------------------------------------
(* An operation that was switched off.                                     *)

LEMMA SwitchedOffStep ==
  ASSUME SafeInv, Next, NEW p \in Proc, call[p].off, call'[p] # call[p],
         session'.epoch = session.epoch
  PROVE  rows' = rows /\ \A w \in wire' \ wire : w.by # p
<1>1. call[p].cancelled /\ call[p] # Idle
  BY IdleControl DEF SafeInv, Control, OffIsCancelled
<1>2. \A q \in Proc : \A f : Put(q, f) => q = p
  BY DEF Put, SafeInv, TypeInv, CallsOK
<1>3. ASSUME NEW q \in Proc, Enter(q) \/ Work(q)
      PROVE  FALSE
  <2>1. call[q] = Idle
    BY <1>3 DEF Enter, Work, SaveProgress, SaveUnchanged, ChooseProgress, PrepareProgress,
                ProgressRetry, May
  <2>2. UNCHANGED call \/ \E f : Put(q, f)
    BY <1>3 DEF Enter, Work, SaveProgress, SaveUnchanged, ChooseProgress, PrepareProgress,
                ProgressRetry, Begin
  <2>3. QED
    BY <1>1, <1>2, <2>1, <2>2
<1>4. ASSUME NEW q \in Proc, reconcileProgress(q) \/ Acknowledge(q) \/ WriteProgress(q)
      PROVE  FALSE
  <2>1. ~call[q].cancelled /\ \E f : Put(q, f)
    BY <1>4 DEF reconcileProgress, Acknowledge, WriteProgress, Allowed, Goto
  <2>2. QED
    BY <1>1, <1>2, <2>1
<1>5. ASSUME NEW q \in Proc,
             \/ progressOperation(q) \/ Refused(q) \/ Flush(q) \/ LoadBefore(q) \/ readCloud(q)
             \/ Admit(q) \/ Fail(q) \/ done(q) \/ progressResult(q) \/ progressView(q) \/ Timeout(q)
      PROVE  UNCHANGED <<rows, wire>>
  BY <1>5 DEF progressOperation, Refused, Flush, LoadBefore, readCloud, Admit, Fail, done,
              progressResult, progressView, Timeout, external
<1>6. ASSUME NEW ws \in SUBSET wire, NEW w \in Disown(ws)
      PROVE  w.by # p
  BY <1>6, DisownOK, Constants DEF SafeInv, TypeInv, WireOK
<1>7. ASSUME NEW q \in Proc, GiveUp(q)
      PROVE  rows' = rows /\ \A w \in wire' \ wire : w.by # p
  BY <1>6, <1>7 DEF GiveUp, Mine
<1>8. ASSUME Environment
      PROVE  rows' = rows /\ \A w \in wire' \ wire : w.by # p
  <2>1. ASSUME Crash PROVE rows' = rows /\ \A w \in wire' \ wire : w.by # p
    <3>1. {w \in wire \ Late : Cardinality(Late) < MaxLate} \in SUBSET wire
      OBVIOUS
    <3>2. QED
      BY <1>6, <2>1, <3>1 DEF Crash, Late
  <2>2. ~Logout /\ ~Reset
    BY EpochOK DEF Logout, Reset, SafeInv
  <2>3. CASE Connect \/ Disable \/ Enable \/ BackoffEnds \/ OtherDevice \/ Deleted \/ Tick
    BY <2>3 DEF Connect, Disable, Enable, BackoffEnds, OtherDevice, Deleted, Tick, external
  <2>4. CASE \E w \in wire : Deliver(w)
    BY <2>4 DEF Deliver
  <2>5. QED
    BY <1>8, <2>1, <2>2, <2>3, <2>4 DEF Environment
<1>9. QED
  BY <1>3, <1>4, <1>5, <1>7, <1>8 DEF Next, Resume, Inside

(* Switching synchronisation off, even for a moment, stops the operation   *)
(* under way: it writes no row and sends nothing more.                     *)
THEOREM OffStops == Spec => SwitchedOffStops
<1>1. SafeInv /\ [Next]_vars =>
        [\A p \in Proc : call[p].off /\ call'[p] # call[p] /\ session'.epoch = session.epoch =>
           /\ rows' = rows
           /\ \A w \in wire' \ wire : w.by # p]_vars
  BY SwitchedOffStep
<1>2. QED
  BY <1>1, SafeInvHolds, PTL DEF Spec, SwitchedOffStops

----------------------------------------------------------------------------
(* The listener's last word.                                               *)

IntentKept(a, id) ==
  LET r == rows[a][id]
      n == rows'[a][id]
  IN r.pending # None /\ n.pending = None =>
       \/ Among(landed, a, id, r.pending)
       \/ n.local # None /\ Newer(n.local, r.pending) /\ Among(landed, a, id, n.local)
       \/ disabled \/ session' # session
       \/ r.conflict # None /\ n.local = r.conflict

LEMMA OnlyThatRow ==
  ASSUME SafeInv, NEW i \in Episode, NEW x, putProgress(i, x), NEW a \in Account, NEW id \in Episode
  PROVE  \/ rows'[a][id] = rows[a][id]
         \/ a = session.scope /\ id = i /\ rows'[a][id] = x /\ rows[a][id] = Row(id)
BY Constants DEF putProgress, SafeInv, TypeInv, RowsOK, Rows, Row

LEMMA SavedIntent ==
  ASSUME SafeInv, NEW p \in Proc, NEW a \in Account, NEW id \in Episode,
         SaveProgress(p) \/ SaveUnchanged(p) \/ ChooseProgress(p)
  PROVE  IntentKept(a, id)
<1>1. CASE SaveProgress(p)
  <2>1. PICK i \in Episode, pos \in Pos :
          LET r == Row(i)
              rec == [pos |-> pos, at |-> now,
                      by |-> IF session.scope # None /\ ~disabled THEN "here" ELSE "off"]
          IN putProgress(i, AfterSave(r, rec))
    BY <1>1 DEF SaveProgress
  <2> DEFINE by == IF session.scope # None /\ ~disabled THEN "here" ELSE "off"
             rec == [pos |-> pos, at |-> now, by |-> by]
             n == AfterSave(Row(i), rec)
  <2>2. rec \in Rec
    BY Constants DEF SafeInv, TypeInv, RestOK, Rec
  <2>3. Row(i) \in progressRecord
    BY RowOK DEF SafeInv, TypeInv
  <2>4. session.scope # None /\ ~disabled => n.pending = rec
    BY <2>3 DEF AfterSave, progressRecord
  <2>5. putProgress(i, n)
    BY <2>1
  <2> HIDE DEF n, rec
  <2>6. QED
    BY <2>2, <2>4, <2>5, OnlyThatRow, Constants DEF IntentKept
<1>2. CASE SaveUnchanged(p)
  BY <1>2 DEF SaveUnchanged, IntentKept
<1>3. CASE ChooseProgress(p)
  <2> DEFINE i == dialog.id
             r == Row(i)
  <2>1. PICK choice \in {"local", "cloud"} : putProgress(i, AfterChoice(r, choice))
    BY <1>3 DEF ChooseProgress
  <2> DEFINE n == AfterChoice(r, choice)
  <2>2. i \in Episode
    BY <1>3, Constants DEF ChooseProgress, SafeInv, TypeInv, RestOK, Dialog
  <2>3. r \in progressRecord /\ RowShape(r) /\ r.conflict # None /\ now \in Time
    BY <1>3, <2>2, RowOK DEF SafeInv, TypeInv, RestOK, ChooseProgress, Choosable
  <2>4. [r.local EXCEPT !.at = now] # None
    BY <2>3, RecOK, Constants DEF RowShape, progressRecord
  <2>5. n.pending = None => n.local = r.conflict
    BY <2>3, <2>4 DEF AfterChoice, progressRecord
  <2>6. putProgress(i, n)
    BY <2>1
  <2> HIDE DEF n
  <2>7. QED
    BY <2>2, <2>3, <2>5, <2>6, OnlyThatRow DEF IntentKept
<1>4. QED
  BY <1>1, <1>2, <1>3

LEMMA ReconciledIntent ==
  ASSUME SafeInv, NEW p \in Proc, NEW a \in Account, NEW id \in Episode, reconcileProgress(p)
  PROVE  IntentKept(a, id)
<1> DEFINE c == call[p]
           r == Row(c.id)
<1>1. CASE rows' = rows
  BY <1>1 DEF IntentKept
<1>2. CASE rows' # rows
  <2>1. PICK token \in FreshToken :
          putProgress(c.id, [reconcile(r, c.cloud, token) EXCEPT !.ready = reconcile(r, c.cloud, token).revision])
    BY <1>2 DEF reconcileProgress
  <2> DEFINE new == reconcile(r, c.cloud, token)
             n == [new EXCEPT !.ready = new.revision]
  <2>2. c.id \in Episode /\ c.cloud \in Maybe(Rec) /\ Current(c.epoch) /\ c.pc = "reconcile"
    BY CallOK DEF SafeInv, TypeInv, reconcileProgress, Allowed, FrameShape, Loaded, Frame
  <2>3. r \in progressRecord /\ RowShape(r) /\ token \in Token
    BY <2>2, RowOK DEF SafeInv, TypeInv, FreshToken
  <2>4. Among(landed, session.scope, c.id, c.cloud)
    BY <2>2 DEF SafeInv, Truth, FramesTrue, FrameTrue, Loaded
  <2>5. new \in progressRecord /\ n.pending = new.pending /\ n.local = new.local
    BY <2>2, <2>3, ReconciledOK DEF progressRecord
  <2>6. ASSUME r.pending # None, new.pending = None
        PROVE  \/ Among(landed, session.scope, c.id, r.pending)
               \/ /\ new.local # None /\ Newer(new.local, r.pending)
                  /\ Among(landed, session.scope, c.id, new.local)
    <3>1. CASE cloudEqual(r.pending, c.cloud)
      <4>1. cloudEqual(c.cloud, r.pending)
        BY <3>1, EqualFacts
      <4>2. QED
        BY <2>4, <4>1, AmongFacts
    <3>2. CASE c.cloud # None /\ Newer(c.cloud, r.pending) /\ new = Adopted(r, c.cloud)
      <4>1. new.local = c.cloud
        BY <2>3, <3>2 DEF Adopted, Unqueued, progressRecord
      <4>2. QED
        BY <2>4, <3>2, <4>1
    <3>3. CASE new = r \/ new = Rebased(r, c.cloud) \/ new = Conflicted(r, c.cloud, token)
      BY <2>3, <2>6, <3>3 DEF Rebased, Conflicted, progressRecord
    <3>4. QED
      BY <2>2, <2>3, <2>6, <3>1, <3>2, <3>3, ReconcileCases
  <2>7. putProgress(c.id, n)
    BY <2>1
  <2> HIDE DEF n, new
  <2>8. QED
    BY <2>2, <2>5, <2>6, <2>7, OnlyThatRow DEF IntentKept
<1>3. QED
  BY <1>1, <1>2

LEMMA AcknowledgedIntent ==
  ASSUME SafeInv, NEW p \in Proc, NEW a \in Account, NEW id \in Episode, Acknowledge(p)
  PROVE  IntentKept(a, id)
<1> DEFINE c == call[p]
           r == Row(c.id)
           n == Acknowledged(r, c)
<1>1. c.id \in Episode /\ Current(c.epoch) /\ c.pc = "landed" /\ putProgress(c.id, n)
  BY CallOK DEF SafeInv, TypeInv, Acknowledge, Allowed, FrameShape, Loaded
<1>2. r \in progressRecord
  BY <1>1, RowOK DEF SafeInv, TypeInv
<1>3. FrameTrue(session.scope, c, r, seen, landed)
  BY <1>1 DEF SafeInv, Truth, FramesTrue
<1>4. r.pending # None /\ n.pending = None => r.revision = c.revision
  BY <1>2 DEF Acknowledged, progressRecord
<1>5. r.pending # None /\ n.pending = None => Among(landed, session.scope, c.id, r.pending)
  BY <1>1, <1>3, <1>4, AmongFacts DEF FrameTrue, Sending
<1> HIDE DEF n
<1>6. QED
  BY <1>1, <1>5, OnlyThatRow DEF IntentKept

LEMMA IntentStep ==
  ASSUME SafeInv, Next, NEW a \in Account, NEW id \in Episode
  PROVE  IntentKept(a, id)
<1>1. ASSUME rows' = rows PROVE IntentKept(a, id)
  BY <1>1 DEF IntentKept
<1>2. ASSUME NEW p \in Proc, Enter(p) \/ Work(p) PROVE IntentKept(a, id)
  <2>1. CASE PrepareProgress(p) \/ ProgressRetry(p) \/ Work(p)
    BY <1>1, <2>1 DEF PrepareProgress, ProgressRetry, Work
  <2>2. QED
    BY <1>2, <2>1, SavedIntent DEF Enter
<1>3. ASSUME NEW p \in Proc, Resume(p) \/ Timeout(p) PROVE IntentKept(a, id)
  <2>1. CASE reconcileProgress(p) \/ Acknowledge(p)
    BY <2>1, ReconciledIntent, AcknowledgedIntent
  <2>2. CASE ~(reconcileProgress(p) \/ Acknowledge(p))
    <3>1. rows' = rows
      BY <1>3, <2>2 DEF Resume, Inside, progressOperation, Refused, Flush, LoadBefore, readCloud,
         Admit, WriteProgress, Fail, GiveUp, done, progressResult, progressView, Timeout
    <3>2. QED
      BY <1>1, <3>1
  <2>3. QED
    BY <2>1, <2>2
<1>4. ASSUME Environment PROVE IntentKept(a, id)
  <2>1. CASE Logout \/ Reset
    <3>1. session.epoch \in Nat /\ session'.epoch = session.epoch + 1
      BY <2>1, NowOK DEF Logout, Reset, SafeInv, Sessions
    <3>2. session' # session
      BY <3>1
    <3>3. QED
      BY <3>2 DEF IntentKept
  <2>2. CASE ~(Logout \/ Reset)
    <3>1. rows' = rows
      BY <1>4, <2>2 DEF Environment, Connect, Disable, Enable, Crash, BackoffEnds, OtherDevice,
         Deleted, Tick, Deliver
    <3>2. QED
      BY <1>1, <3>1
  <2>3. QED
    BY <2>1, <2>2
<1>5. QED
  BY <1>2, <1>3, <1>4 DEF Next

(* No late read, late acknowledgement, conflict or restart drops what the  *)
(* listener did last: it is uploaded unless the cloud held it, a clearly   *)
(* later record came from there, or the listener said otherwise.           *)
THEOREM IntentIsKept == Spec => NoLostIntent
<1>1. SafeInv /\ [Next]_vars =>
        [\A a \in Account, id \in Episode :
           LET r == rows[a][id]
               n == rows'[a][id]
           IN r.pending # None /\ n.pending = None =>
                \/ Among(landed, a, id, r.pending)
                \/ n.local # None /\ Newer(n.local, r.pending) /\ Among(landed, a, id, n.local)
                \/ disabled \/ session' # session
                \/ r.conflict # None /\ n.local = r.conflict]_vars
  BY IntentStep DEF IntentKept
<1>2. QED
  BY <1>1, SafeInvHolds, PTL DEF Spec, NoLostIntent

----------------------------------------------------------------------------
(* The dialog.  While its conflict's token is still in the row, the row is *)
(* as the dialog shows it.                                                 *)

DialogTrue ==
  dialog.token # None =>
    /\ session.scope # None /\ dialog.id \in Episode
    /\ Row(dialog.id).token = dialog.token =>
         dialog.local = Row(dialog.id).local /\ dialog.cloud = Row(dialog.id).conflict

DialogInv == TypeInv /\ DialogTrue

(* A row that a step may write while a dialog is open.                     *)
Redialled(r, n) ==
  \/ n.token = None
  \/ n.token # dialog.token
  \/ n.token = r.token /\ n.local = r.local /\ n.conflict = r.conflict

LEMMA RowDialog ==
  ASSUME DialogInv, NEW id \in Episode, NEW n, putProgress(id, n), Redialled(Row(id), n),
         UNCHANGED <<session, dialog>>
  PROVE  DialogTrue'
<1> SUFFICES ASSUME dialog.token # None, rows'[session.scope][dialog.id].token = dialog.token
             PROVE  /\ dialog.local = rows'[session.scope][dialog.id].local
                    /\ dialog.cloud = rows'[session.scope][dialog.id].conflict
  BY DEF DialogInv, DialogTrue, Row
<1>1. dialog.id \in Episode /\ session.scope \in Scope /\ rows \in Rows
  BY NowOK DEF DialogInv, DialogTrue, TypeInv, RowsOK
<1>2. CASE dialog.id = id
  BY <1>1, <1>2 DEF putProgress, Rows, Redialled, DialogInv, DialogTrue, Row
<1>3. CASE dialog.id # id
  BY <1>1, <1>3 DEF putProgress, Rows, DialogInv, DialogTrue, Row
<1>4. QED
  BY <1>2, <1>3

LEMMA SavedDialog ==
  ASSUME DialogInv, NEW p \in Proc, SaveProgress(p) \/ SaveUnchanged(p)
  PROVE  DialogTrue'
<1>1. CASE SaveProgress(p)
  <2>0. PICK id \in Episode : \E rec : putProgress(id, AfterSave(Row(id), rec))
    BY <1>1 DEF SaveProgress
  <2>1. PICK rec : putProgress(id, AfterSave(Row(id), rec))
    BY <2>0
  <2>2. AfterSave(Row(id), rec).token = None
    BY RowOK DEF DialogInv, TypeInv, AfterSave, progressRecord
  <2>3. QED
    BY <1>1, <2>1, <2>2, RowDialog DEF Redialled, SaveProgress
<1>2. CASE SaveUnchanged(p)
  <2>1. PICK id \in Episode :
          putProgress(id, [Row(id) EXCEPT !.pending = None, !.revision = @ + 1, !.ready = 0])
    BY <1>2 DEF SaveUnchanged
  <2> DEFINE n == [Row(id) EXCEPT !.pending = None, !.revision = @ + 1, !.ready = 0]
  <2>2. n.token = Row(id).token /\ n.local = Row(id).local /\ n.conflict = Row(id).conflict
    BY RowOK DEF DialogInv, TypeInv, progressRecord
  <2>3. QED
    BY <1>2, <2>1, <2>2, RowDialog DEF Redialled, SaveUnchanged
<1>3. QED
  BY <1>1, <1>2

LEMMA ChosenDialog ==
  ASSUME DialogInv, NEW p \in Proc, ChooseProgress(p)
  PROVE  DialogTrue'
<1>1. dialog.id \in Episode
  BY Constants DEF ChooseProgress, DialogInv, TypeInv, RestOK, Dialog
<1>2. PICK choice : putProgress(dialog.id, AfterChoice(Row(dialog.id), choice))
  BY DEF ChooseProgress
<1>3. AfterChoice(Row(dialog.id), choice).token = None
  BY <1>1, RowOK DEF DialogInv, TypeInv, AfterChoice, progressRecord
<1>4. QED
  BY <1>1, <1>2, <1>3, RowDialog DEF Redialled, ChooseProgress

LEMMA SettledDialog ==
  ASSUME NEW r \in progressRecord, NEW c
  PROVE  /\ Settled(r, c).token = None /\ Adopted(r, c).token = None
         /\ Rebased(r, c).token = r.token /\ Rebased(r, c).local = r.local
         /\ Rebased(r, c).conflict = r.conflict
BY DEF Settled, Adopted, Rebased, Unqueued, progressRecord

LEMMA OperationDialog ==
  ASSUME DialogInv, NEW p \in Proc, reconcileProgress(p) \/ Acknowledge(p)
  PROVE  DialogTrue'
<1> DEFINE c == call[p]
           r == Row(c.id)
<1>1. /\ c \in Frame /\ c.id \in Episode /\ c.cloud \in Maybe(Rec)
      /\ UNCHANGED <<session, dialog>>
  BY CallOK DEF DialogInv, TypeInv, reconcileProgress, Acknowledge, FrameShape, Loaded, Frame
<1>2. r \in progressRecord /\ RowShape(r)
  BY <1>1, RowOK DEF DialogInv, TypeInv
<1>3. CASE rows' = rows
  BY <1>1, <1>3 DEF DialogInv, DialogTrue, Row
<1>4. CASE reconcileProgress(p) /\ rows' # rows
  <2>1. PICK token \in FreshToken :
          putProgress(c.id, [reconcile(r, c.cloud, token) EXCEPT !.ready = reconcile(r, c.cloud, token).revision])
    BY <1>4 DEF reconcileProgress
  <2> DEFINE new == reconcile(r, c.cloud, token)
             n == [new EXCEPT !.ready = new.revision]
  <2>2. token \in Token /\ token # dialog.token
    BY DEF FreshToken
  <2>3. n.token = new.token /\ n.local = new.local /\ n.conflict = new.conflict
    BY <1>1, <1>2, <2>2, ReconciledOK DEF progressRecord
  <2>4. Conflicted(r, c.cloud, token).token = token
    BY <1>2 DEF Conflicted, progressRecord
  <2>5. Redialled(r, new)
    BY <1>1, <1>2, <2>2, <2>4, ReconcileCases, SettledDialog DEF Redialled
  <2>6. putProgress(c.id, n)
    BY <2>1
  <2> HIDE DEF n, new
  <2>7. Redialled(r, n)
    BY <2>3, <2>5 DEF Redialled
  <2>8. QED
    BY <1>1, <2>6, <2>7, RowDialog
<1>5. CASE Acknowledge(p)
  <2>1. putProgress(c.id, Acknowledged(r, c))
    BY <1>5 DEF Acknowledge
  <2>2. Acknowledged(r, c) = Settled(r, c.sent) \/ Acknowledged(r, c) = Rebased(r, c.sent)
    BY DEF Acknowledged, Settled, Rebased
  <2>3. Redialled(r, Acknowledged(r, c))
    BY <1>2, <2>2, SettledDialog DEF Redialled
  <2>4. QED
    BY <1>1, <2>1, <2>3, RowDialog
<1>6. QED
  BY <1>3, <1>4, <1>5

LEMMA ViewDialog ==
  ASSUME DialogInv, NEW p \in Proc, progressView(p)
  PROVE  DialogTrue'
<1> DEFINE c == call[p]
           r == Row(c.id)
           shown == [id |-> c.id, token |-> r.token, local |-> r.local, cloud |-> r.conflict]
<1>1. UNCHANGED <<session, rows>> /\ (dialog' = dialog \/ dialog' = NoDialog \/ dialog' = shown)
  BY DEF progressView
<1>2. dialog' = shown /\ dialog' # dialog => Current(c.epoch) \/ dialog' = NoDialog
  BY DEF progressView
<1>3. c.id \in Episode
  BY CallOK DEF DialogInv, TypeInv, progressView, FrameShape
<1>4. CASE dialog' = dialog
  BY <1>1, <1>4 DEF DialogInv, DialogTrue, Row
<1>5. CASE dialog' = NoDialog
  BY <1>5 DEF DialogTrue, NoDialog
<1>6. CASE dialog' = shown /\ Current(c.epoch)
  BY <1>1, <1>3, <1>6 DEF DialogTrue, Row, Current
<1>7. QED
  BY <1>1, <1>2, <1>4, <1>5, <1>6

LEMMA DialogStep == DialogInv /\ [Next]_vars => DialogInv'
<1> SUFFICES ASSUME DialogInv, [Next]_vars PROVE DialogTrue'
  BY TypeStep DEF DialogInv
<1>1. ASSUME UNCHANGED <<session, rows, dialog>> PROVE DialogTrue'
  BY <1>1 DEF DialogInv, DialogTrue, Row
<1>2. ASSUME NEW p \in Proc, Enter(p) \/ Work(p) PROVE DialogTrue'
  <2>1. CASE PrepareProgress(p) \/ ProgressRetry(p) \/ Work(p)
    BY <1>1, <2>1 DEF PrepareProgress, ProgressRetry, Work
  <2>2. QED
    BY <1>2, <2>1, SavedDialog, ChosenDialog DEF Enter
<1>3. ASSUME NEW p \in Proc, Resume(p) \/ Timeout(p) PROVE DialogTrue'
  <2>1. CASE reconcileProgress(p) \/ Acknowledge(p) \/ progressView(p)
    BY <2>1, OperationDialog, ViewDialog
  <2>2. CASE ~(reconcileProgress(p) \/ Acknowledge(p) \/ progressView(p))
    <3>1. UNCHANGED <<session, rows, dialog>>
      BY <1>3, <2>2 DEF Resume, Inside, progressOperation, Refused, Flush, LoadBefore, readCloud,
         Admit, WriteProgress, Fail, GiveUp, done, progressResult, Timeout
    <3>2. QED
      BY <1>1, <3>1
  <2>3. QED
    BY <2>1, <2>2
<1>4. ASSUME Environment PROVE DialogTrue'
  <2>1. CASE Logout \/ Reset \/ Crash
    <3>1. dialog' = NoDialog
      BY <2>1 DEF Logout, Reset, Crash
    <3>2. QED
      BY <3>1 DEF DialogTrue, NoDialog
  <2>2. CASE Connect
    <3>1. dialog.token = None /\ dialog' = dialog
      BY <2>2 DEF Connect, DialogInv, DialogTrue
    <3>2. QED
      BY <3>1 DEF DialogTrue
  <2>3. CASE ~(Logout \/ Reset \/ Crash \/ Connect)
    <3>1. UNCHANGED <<session, rows, dialog>>
      BY <1>4, <2>3 DEF Environment, Disable, Enable, BackoffEnds, OtherDevice, Deleted, Tick, Deliver
    <3>2. QED
      BY <1>1, <3>1
  <2>4. QED
    BY <2>1, <2>2, <2>3
<1>5. CASE UNCHANGED vars
  BY <1>1, <1>5 DEF vars
<1>6. QED
  BY <1>2, <1>3, <1>4, <1>5 DEF Next

LEMMA ChoiceStep ==
  ASSUME DialogInv, Next, NEW p \in Proc, call[p] = Idle, call'[p].op = "choose"
  PROVE  /\ dialog.local = Row(dialog.id).local
         /\ dialog.cloud = Row(dialog.id).conflict
<1>1. ASSUME NEW q \in Proc, NEW f, Put(q, f) PROVE call'[q] = f /\ (q # p => call'[p] = call[p])
  BY <1>1 DEF Put, DialogInv, TypeInv, CallsOK
<1>2. call'[p] # call[p]
  BY DEF Idle
<1>3. PICK q \in Proc : ChooseProgress(q)
  <2>1. ASSUME NEW q \in Proc, Resume(q) \/ Timeout(q) PROVE FALSE
    <3>1. call[q].pc # "idle"
      <4>1. CASE Inside(q)
        BY <4>1 DEF Inside, Flush, LoadBefore, readCloud, reconcileProgress, Admit,
           WriteProgress, Acknowledge
      <4>2. CASE ~Inside(q)
        BY <2>1, <4>2 DEF Resume, progressOperation, Refused, Fail, Refuses, GiveUp, done,
           progressResult, progressView, Timeout, Working
      <4>3. QED
        BY <4>1, <4>2
    <3>2. \E f : Put(q, f)
      <4>1. CASE Inside(q) \/ Fail(q) \/ GiveUp(q)
        BY <4>1, InsideContinues DEF DialogInv
      <4>2. CASE Refused(q) \/ progressResult(q) \/ progressView(q) \/ Timeout(q)
        BY <4>2, OutsideContinues DEF DialogInv
      <4>3. CASE progressOperation(q)
        BY <4>3 DEF progressOperation, Goto
      <4>4. CASE done(q)
        BY <4>4 DEF done, Goto
      <4>5. QED
        BY <2>1, <4>1, <4>2, <4>3, <4>4 DEF Resume
    <3>3. call[q] # Idle
      BY <3>1 DEF Idle
    <3>4. QED
      BY <1>1, <1>2, <3>2, <3>3
  <2>2. ASSUME NEW q \in Proc, SaveProgress(q) \/ SaveUnchanged(q) PROVE FALSE
    BY <1>2, <2>2 DEF SaveProgress, SaveUnchanged
  <2>3. ASSUME NEW q \in Proc, PrepareProgress(q) \/ ProgressRetry(q) \/ Work(q) PROVE FALSE
    <3>0. PICK op \in {"prepare", "retry", "worker"} : \E pc, id : Begin(q, op, pc, id)
      BY <2>3 DEF PrepareProgress, ProgressRetry, Work
    <3>1. PICK pc, id : Begin(q, op, pc, id)
      BY <3>0
    <3>2. [Idle EXCEPT !.op = op, !.pc = pc, !.epoch = session.epoch, !.id = id].op = op
      BY DEF Idle
    <3>3. QED
      BY <1>1, <1>2, <3>1, <3>2 DEF Begin
  <2>4. ASSUME Environment PROVE FALSE
    <3>1. CASE Disable
      BY <1>2, <3>1 DEF Disable
    <3>2. CASE Crash
      BY <1>2, <3>2 DEF Crash
    <3>3. CASE \E w \in wire : Deliver(w)
      <4>1. PICK w \in wire : Deliver(w)
        BY <3>3
      <4>2. p # w.by
        BY Constants DEF DialogInv, TypeInv, WireOK, Owned, Idle
      <4>3. QED
        BY <1>2, <4>1, <4>2 DEF Deliver
    <3>4. CASE ~Disable /\ ~Crash /\ ~(\E w \in wire : Deliver(w))
      BY <1>2, <2>4, <3>4 DEF Environment, Connect, Logout, Reset, Enable, BackoffEnds,
         OtherDevice, Deleted, Tick
    <3>5. QED
      BY <3>1, <3>2, <3>3, <3>4
  <2>5. QED
    BY <2>1, <2>2, <2>3, <2>4 DEF Next, Enter
<1>4. QED
  BY <1>3 DEF ChooseProgress, Choosable, DialogInv, DialogTrue

(* Whatever happens between showing a conflict and the answer to it, an    *)
(* answer that is taken is taken about the two positions that were shown.  *)
THEOREM ChoicesAreInformed == Spec => ChoiceIsInformed
<1>1. Init => DialogInv
  <2>1. ASSUME Init PROVE dialog.token = None
    BY <2>1 DEF Init, NoDialog
  <2>2. QED
    BY <2>1, InitType DEF DialogInv, DialogTrue
<1>2. DialogInv /\ [Next]_vars =>
        [\A p \in Proc : call[p] = Idle /\ call'[p].op = "choose" =>
           /\ dialog.local = Row(dialog.id).local
           /\ dialog.cloud = Row(dialog.id).conflict]_vars
  BY ChoiceStep
<1>3. QED
  BY <1>1, <1>2, DialogStep, PTL DEF Spec, ChoiceIsInformed
=============================================================================
