---------------------------- MODULE ProgressSync ----------------------------
(***************************************************************************)
(* Playback progress synchronisation (internal/app/progress_sync.go and    *)
(* SaveProgress): one durable row per episode holds the local position     *)
(* together with an outbox of one upload, which the worker and the page    *)
(* reconcile with a cloud that other devices write to as well.             *)
(*                                                                         *)
(* Every lock section is one action; call[p] is the Go stack frame of the  *)
(* operation goroutine p is in.  The session is what module Session says   *)
(* of it: an epoch in which one account, or the guest, is connected, and a *)
(* Commit that does nothing in any other epoch.  The platform and the      *)
(* listener's other devices are external.                                  *)
(***************************************************************************)
EXTENDS Naturals, FiniteSets

CONSTANTS
  Account,     \* connected identities
  Episode,     \* episode ids
  Pos,         \* playback positions, in whole seconds
  Token,       \* conflict tokens
  Proc,        \* goroutines
  Role,        \* the operations each goroutine performs
  Event,       \* what else may happen around them
  None,        \* no account (the "guest" scope), no record, no token, no goroutine
  Window,      \* the timestamp uncertainty (5 s), in ticks of the clock
  Ahead,       \* how far ahead of the clock a timestamp is credible (5 min)
  MaxTime,     \* bound on the clock
  MaxRevision, \* bound on the revisions of a row
  MaxEpoch,    \* bound on the epochs of one run of the program
  MaxLate,     \* bound on uploads whose sender has given up
  MaxForeign   \* bound on the different records of other devices

Operations == {"save", "choose", "prepare", "retry", "worker"}
Events == {"guest", "device", "delete", "disable", "logout", "crash", "timeout", "reset", "fault"}

ASSUME ProgressAssumption ==
  /\ None \notin Account \cup Token \cup Proc
  /\ None \notin [pos : Pos, at : 1..MaxTime, by : {"here", "off", "there"}]
  /\ Role \in [Proc -> SUBSET Operations]
  /\ Event \subseteq Events
  /\ Window \in Nat /\ Ahead \in Nat
  /\ MaxTime \in Nat \ {0} /\ MaxRevision \in Nat /\ MaxEpoch \in Nat \ {0}
  /\ MaxLate \in Nat /\ MaxForeign \in Nat

VARIABLES
  session,   \* the session manager: its epoch and the account connected in it
  disabled,  \* settings.ProgressSyncDisabled
  rows,      \* the "progress-sync" rows, by scope and episode
  gate,      \* progressGate: who holds it
  handle,    \* progressCancel: whose context it cancels
  status,    \* progressStatusEpoch and progressRetryAt
  call,      \* the goroutines inside an operation
  dialog,    \* the conflict the page shows
  cloud,     \* the platform's records
  wire,      \* uploads on their way to the platform
  now,       \* the wall clock
  landed,    \* history: every record the platform has held
  seen       \* history: every record this device has played from or overruled

external == <<cloud, wire, landed>>
vars == <<session, disabled, rows, gate, handle, status, call, dialog,
          cloud, wire, now, landed, seen>>

Scope == Account \cup {None}
Time == 1..MaxTime
Maybe(S) == S \cup {None}

(* A position and when it was played.  by is history, which no comparison  *)
(* reads: saved here, saved here while not synchronising, or elsewhere.    *)
Rec == [pos : Pos, at : Time, by : {"here", "off", "there"}]

progressRecord ==
  [local : Maybe(Rec), revision : 0..MaxRevision, ready : 0..MaxRevision,
   baseline : Maybe(Rec), pending : Maybe(Rec), conflict : Maybe(Rec),
   token : Maybe(Token)]

Frame ==
  [op : Operations \cup {"none"},
   pc : {"idle", "gate", "list", "load", "read", "reconcile", "admit", "send", "sent",
         "landed", "leave", "result", "view"},
   epoch : 0..MaxEpoch, id : Maybe(Episode), todo : SUBSET Episode,
   revision : 0..MaxRevision, cloud : Maybe(Rec), sent : Maybe(Rec),
   failed : BOOLEAN, performed : BOOLEAN, cancelled : BOOLEAN, off : BOOLEAN]

Upload ==
  [by : Maybe(Proc), scope : Account, id : Episode, rec : Rec,
   read : Maybe(Rec), revision : 0..MaxRevision]

Status == [epoch : 0..MaxEpoch, backoff : BOOLEAN]

Dialog == [id : Maybe(Episode), token : Maybe(Token), local : Maybe(Rec), cloud : Maybe(Rec)]

NoRow == [local |-> None, revision |-> 0, ready |-> 0, baseline |-> None,
          pending |-> None, conflict |-> None, token |-> None]
Idle == [op |-> "none", pc |-> "idle", epoch |-> 0, id |-> None, todo |-> {},
         revision |-> 0, cloud |-> None, sent |-> None, failed |-> FALSE,
         performed |-> FALSE, cancelled |-> FALSE, off |-> FALSE]
NoStatus == [epoch |-> 0, backoff |-> FALSE]
NoDialog == [id |-> None, token |-> None, local |-> None, cloud |-> None]

----------------------------------------------------------------------------
(* Comparing and reconciling.                                              *)

cloudEqual(a, b) ==
  IF a = None \/ b = None THEN a = b ELSE a.pos = b.pos /\ a.at = b.at

Newer(a, b) == a.at > b.at + Window

Reliable(a, b) == a.at < now + Ahead /\ b.at < now + Ahead

(* Which of reconcile's returns is taken.                                  *)
VerdictLastWriterWins(r, c) ==
  IF r.pending = None THEN "adopt"
  ELSE IF cloudEqual(r.pending, c) THEN "confirmed"
  ELSE IF cloudEqual(r.baseline, c) \/ c = None THEN "keep"
  ELSE IF r.pending.at >= c.at THEN "rebase"
  ELSE "superseded"

VerdictWithoutReadback(r, c) ==
  IF r.pending = None THEN "adopt"
  ELSE IF cloudEqual(r.baseline, c) \/ c = None THEN "keep"
  ELSE IF Reliable(r.pending, c) /\ Newer(r.pending, c) THEN "rebase"
  ELSE IF Reliable(r.pending, c) /\ Newer(c, r.pending) THEN "superseded"
  ELSE IF cloudEqual(r.pending, c) THEN "rebase"
  ELSE "conflict"

Verdict(r, c) ==
  IF r.pending = None THEN "adopt"
  ELSE IF cloudEqual(r.pending, c) THEN "confirmed"
  ELSE IF cloudEqual(r.baseline, c) \/ c = None THEN "keep"
  ELSE IF Reliable(r.pending, c) /\ Newer(r.pending, c) THEN "rebase"
  ELSE IF Reliable(r.pending, c) /\ Newer(c, r.pending) THEN "superseded"
  ELSE "conflict"

applyCloud(r, c) == IF c = None THEN r ELSE [r EXCEPT !.local = c]

Unqueued(r) == [r EXCEPT !.pending = None, !.conflict = None, !.token = None]

reconcile(r, c, token) ==
  LET verdict == Verdict(r, c)
  IN CASE verdict \in {"adopt", "superseded"} -> applyCloud([Unqueued(r) EXCEPT !.baseline = c], c)
       [] verdict = "confirmed" -> [Unqueued(r) EXCEPT !.baseline = c]
       [] verdict = "keep" -> r
       [] verdict = "rebase" -> [r EXCEPT !.baseline = c]
       [] verdict = "conflict" -> [r EXCEPT !.conflict = c, !.token = token]

(* rand.Read: never a token anybody still holds.                           *)
FreshToken ==
  Token \ ({dialog.token} \cup {rows[s][id].token : s \in Scope, id \in Episode})

Foreign == {h \in landed : h[3] # None /\ h[3].by = "there"}

----------------------------------------------------------------------------
(* Legacy rows have a position and nothing else.                           *)

Init ==
  /\ session = [epoch |-> 1, scope |-> None]
  /\ disabled = FALSE
  /\ \E legacy \in [Account -> [Episode -> Maybe([pos : Pos, at : {1}, by : {"off"}])]] :
       rows = [s \in Scope |-> [id \in Episode |->
                IF s = None THEN NoRow ELSE [NoRow EXCEPT !.local = legacy[s][id]]]]
  /\ cloud \in [Account -> [Episode -> Maybe([pos : Pos, at : {1}, by : {"there"}])]]
  /\ gate = None /\ handle = None
  /\ status = NoStatus
  /\ call = [p \in Proc |-> Idle]
  /\ dialog = NoDialog
  /\ wire = {}
  /\ now = 1
  /\ landed = {<<a, id, cloud[a][id]>> : a \in Account, id \in Episode}
  /\ Cardinality(Foreign) <= MaxForeign
  /\ seen = {<<a, id, rows[a][id].local>> : a \in Account, id \in Episode}

----------------------------------------------------------------------------
(* Guards and updates shared by the operations.                            *)

May(p, op) == call[p] = Idle /\ op \in Role[p]

CurrentAnyEpoch(e) == session.scope # None

(* session.Commit(epoch, ...) by an operation of a connected account.      *)
Current(e) == session.epoch = e /\ session.scope # None

Row(id) == rows[session.scope][id]

putProgress(id, r) == rows' = [rows EXCEPT ![session.scope][id] = r]

See(id, rs) == seen' = seen \cup {<<session.scope, id, r>> : r \in rs}

Put(p, frame) == call' = [call EXCEPT ![p] = frame]
Goto(p, pc) == Put(p, [call[p] EXCEPT !.pc = pc])

(* The fence of every commit made inside an operation.                     *)
Allowed(p) == Current(call[p].epoch) /\ ~disabled /\ ~call[p].cancelled

Pending(s) == {id \in Episode : rows[s][id].pending # None}

----------------------------------------------------------------------------
(* SaveProgressUrgent.                                                     *)

Saved(r, pos) == r.local # None /\ r.local.pos = pos

AfterSaveKeepingConflict(r, rec) ==
  [r EXCEPT !.local = rec, !.revision = @ + 1, !.ready = 0,
            !.pending = IF rec.by = "here" THEN rec ELSE None]

AfterSave(r, rec) ==
  [r EXCEPT !.local = rec, !.revision = @ + 1, !.ready = 0, !.conflict = None,
            !.token = None, !.pending = IF rec.by = "here" THEN rec ELSE None]

SaveProgress(p) ==
  /\ May(p, "save")
  /\ session.scope # None \/ "guest" \in Event
  /\ \E id \in Episode, pos \in Pos :
       LET r == Row(id)
           rec == [pos |-> pos, at |-> now,
                   by |-> IF session.scope # None /\ ~disabled THEN "here" ELSE "off"]
       IN /\ ~Saved(r, pos)
          /\ r.revision < MaxRevision
          /\ putProgress(id, AfterSave(r, rec))
          /\ See(id, {rec})
  /\ UNCHANGED <<session, disabled, gate, handle, status, call, dialog, external, now>>

(* Saving an unchanged position while synchronisation is off.              *)
SaveUnchanged(p) ==
  /\ May(p, "save")
  /\ disabled
  /\ \E id \in Episode :
       LET r == Row(id)
       IN /\ r.local # None /\ r.pending # None
          /\ r.revision < MaxRevision
          /\ putProgress(id, [r EXCEPT !.pending = None, !.revision = @ + 1, !.ready = 0])
  /\ UNCHANGED <<session, disabled, gate, handle, status, call, dialog, external, now, seen>>

----------------------------------------------------------------------------
(* Entering an operation.                                                  *)

Begin(p, op, pc, id) ==
  Put(p, [Idle EXCEPT !.op = op, !.pc = pc, !.epoch = session.epoch, !.id = id])

PrepareProgress(p) ==
  /\ May(p, "prepare")
  /\ session.scope # None
  /\ \E id \in Episode : Begin(p, "prepare", IF disabled THEN "view" ELSE "gate", id)
  /\ UNCHANGED <<session, disabled, rows, gate, handle, status, dialog, external, now, seen>>

(* The page's retry, or its flush before the program quits.                *)
ProgressRetry(p) ==
  /\ May(p, "retry")
  /\ session.scope # None /\ ~disabled
  /\ Pending(session.scope) # {}
  /\ Begin(p, "retry", "gate", None)
  /\ UNCHANGED <<session, disabled, rows, gate, handle, status, dialog, external, now, seen>>

(* The worker, on a tick or a wake.                                        *)
Work(p) ==
  /\ May(p, "worker")
  /\ session.scope # None /\ ~disabled
  /\ ~(status.epoch = session.epoch /\ status.backoff)
  /\ Pending(session.scope) # {}
  /\ Begin(p, "worker", "gate", None)
  /\ UNCHANGED <<session, disabled, rows, gate, handle, status, dialog, external, now, seen>>

FirstStep(p) == IF call[p].op = "prepare" THEN "load" ELSE "list"

progressOperationWithoutGate(p) ==
  /\ call[p].pc = "gate" /\ Allowed(p)
  /\ gate' = p /\ handle' = p
  /\ status' = [status EXCEPT !.epoch = call[p].epoch]
  /\ Goto(p, FirstStep(p))
  /\ UNCHANGED <<session, disabled, rows, dialog, external, now, seen>>

progressOperation(p) ==
  /\ call[p].pc = "gate" /\ gate = None /\ Allowed(p)
  /\ gate' = p /\ handle' = p
  /\ status' = [status EXCEPT !.epoch = call[p].epoch]
  /\ Goto(p, FirstStep(p))
  /\ UNCHANGED <<session, disabled, rows, dialog, external, now, seen>>

(* Refused, or timed out waiting for the gate.                             *)
Refused(p) ==
  /\ call[p].pc = "gate"
  /\ ~Allowed(p)
  /\ IF call[p].op = "prepare"
       THEN Put(p, [call[p] EXCEPT !.pc = "result", !.failed = TRUE])
       ELSE Put(p, Idle)
  /\ UNCHANGED <<session, disabled, rows, gate, handle, status, dialog, external, now, seen>>

----------------------------------------------------------------------------
(* reconcileProgress and flushProgress.                                    *)

UploadableIfReady(r) == r.conflict = None /\ r.ready = r.revision

Uploadable(r) == r.conflict = None

Flush(p) ==
  /\ call[p].pc = "list"
  /\ Current(call[p].epoch)
  /\ LET ids == {id \in Pending(session.scope) : Uploadable(Row(id))}
     IN Put(p, [call[p] EXCEPT !.todo = ids, !.performed = ids # {},
                               !.pc = IF ids = {} THEN "leave" ELSE "load"])
  /\ UNCHANGED <<session, disabled, rows, gate, handle, status, dialog, external, now, seen>>

LoadBefore(p) ==
  /\ call[p].pc = "load"
  /\ Current(call[p].epoch)
  /\ \E id \in IF call[p].op = "prepare" THEN {call[p].id} ELSE call[p].todo :
       Put(p, [call[p] EXCEPT !.pc = "read", !.id = id, !.todo = @ \ {id},
                              !.revision = Row(id).revision])
  /\ UNCHANGED <<session, disabled, rows, gate, handle, status, dialog, external, now, seen>>

readCloud(p) ==
  /\ call[p].pc = "read"
  /\ Current(call[p].epoch)
  /\ Put(p, [call[p] EXCEPT !.pc = "reconcile", !.cloud = cloud[session.scope][call[p].id]])
  /\ UNCHANGED <<session, disabled, rows, gate, handle, status, dialog, external, now, seen>>

(* The local variables of a loop body end with it.                         *)
Leaving(c, failed) ==
  [c EXCEPT !.pc = "leave", !.failed = failed, !.revision = 0, !.cloud = None, !.sent = None]

NextUpload(c) ==
  IF c.todo = {} THEN Leaving(c, FALSE) ELSE [Leaving(c, FALSE) EXCEPT !.pc = "load"]

AfterReconcile(c) ==
  IF c.op = "prepare" THEN Leaving(c, FALSE) ELSE [c EXCEPT !.pc = "admit", !.revision = 0]

(* Nothing was saved or chosen since the row was loaded.                   *)
Unmoved(p) == Row(call[p].id).revision = call[p].revision

(* ok: whether the row's compatibility projection was written as well.     *)
reconcileProgress(p) ==
  /\ call[p].pc = "reconcile"
  /\ Allowed(p)
  /\ LET c == call[p]
         r == Row(c.id)
     IN \/ ~Unmoved(p) /\ Put(p, AfterReconcile(c)) /\ UNCHANGED <<rows, seen>>
        \/ /\ Unmoved(p)
           /\ \E token \in FreshToken :
                LET new == reconcile(r, c.cloud, token)
                IN /\ putProgress(c.id, [new EXCEPT !.ready = new.revision])
                   /\ See(c.id, {new.local} \ {r.local})
           /\ \E ok \in {TRUE, "fault" \notin Event} :
                Put(p, IF ok THEN AfterReconcile(c) ELSE Leaving(c, TRUE))
  /\ UNCHANGED <<session, disabled, gate, handle, status, dialog, external, now>>


AdmissibleUnread(r) == r.pending # None /\ r.conflict = None

Admissible(r) == r.pending # None /\ r.conflict = None /\ r.ready = r.revision

Admit(p) ==
  /\ call[p].pc = "admit"
  /\ Allowed(p)
  /\ LET c == call[p]
         r == Row(c.id)
     IN IF Admissible(r)
          THEN Put(p, [c EXCEPT !.pc = "send", !.sent = r.pending, !.revision = r.revision])
          ELSE Put(p, NextUpload(c))
  /\ UNCHANGED <<session, disabled, rows, gate, handle, status, dialog, external, now, seen>>

(* DoOnceAt(WriteProgress): nothing is sent once the operation is          *)
(* cancelled; what is sent may still be applied after that.                *)
WriteProgress(p) ==
  /\ call[p].pc = "send"
  /\ Current(call[p].epoch) /\ ~call[p].cancelled
  /\ LET c == call[p]
     IN wire' = wire \cup
          {[by |-> p, scope |-> session.scope, id |-> c.id, rec |-> c.sent, read |-> c.cloud,
            revision |-> c.revision]}
  /\ Goto(p, "sent")
  /\ UNCHANGED <<session, disabled, rows, gate, handle, status, dialog, cloud, landed, now, seen>>

AcknowledgedAnyRevision(r, c) == [Unqueued(r) EXCEPT !.baseline = c.sent]

Acknowledged(r, c) ==
  IF r.revision = c.revision THEN [Unqueued(r) EXCEPT !.baseline = c.sent]
                             ELSE [r EXCEPT !.baseline = c.sent]

Acknowledge(p) ==
  /\ call[p].pc = "landed"
  /\ Allowed(p)
  /\ LET c == call[p]
     IN /\ putProgress(c.id, Acknowledged(Row(c.id), c))
        /\ \E ok \in {TRUE, "fault" \notin Event} :
             Put(p, IF ok THEN NextUpload(c) ELSE Leaving(c, TRUE))
  /\ UNCHANGED <<session, disabled, gate, handle, status, dialog, external, now, seen>>

Working == {"list", "load", "read", "reconcile", "admit", "send", "sent", "landed"}

(* The session or the settings refuse a lock section, or its store fails.  *)
Refuses(p) ==
  \/ call[p].pc \in {"list", "load"} /\ ~Current(call[p].epoch)
  \/ call[p].pc \in {"reconcile", "admit", "landed"} /\ ~Allowed(p)
  \/ call[p].pc = "send" /\ ~(Current(call[p].epoch) /\ ~call[p].cancelled)
  \/ call[p].pc \in Working \ {"sent"} /\ "fault" \in Event

(* Such a refusal, a failed read or a lost reply ends the operation.       *)
Fail(p) ==
  /\ Refuses(p) \/ call[p].pc \in {"read", "landed"}
  /\ Put(p, Leaving(call[p], TRUE))
  /\ UNCHANGED <<session, disabled, rows, gate, handle, status, dialog, external, now, seen>>

Late == {w \in wire : w.by = None}

Mine(p) == {w \in wire : w.by = p}

Disown(ws) == {[w EXCEPT !.by = None] : w \in ws}

(* The sender gives up on an upload, which is lost or may still land.      *)
GiveUp(p) ==
  /\ call[p].pc = "sent"
  /\ Put(p, Leaving(call[p], TRUE))
  /\ \/ wire' = wire \ Mine(p)
     \/ /\ Cardinality(Late) < MaxLate
        /\ wire' = (wire \ Mine(p)) \cup Disown(Mine(p))
  /\ UNCHANGED <<session, disabled, rows, gate, handle, status, dialog, cloud, landed, now, seen>>

----------------------------------------------------------------------------
(* Leaving an operation: done, then progressResult, then progressView.     *)

ReleasedUnlessFailed(c) == IF c.failed THEN gate ELSE None

Released(c) == None

done(p) ==
  /\ call[p].pc = "leave"
  /\ gate' = Released(call[p]) /\ handle' = None
  /\ LET c == call[p]
     IN IF c.op = "prepare" \/ c.performed \/ c.failed THEN Goto(p, "result") ELSE Put(p, Idle)
  /\ UNCHANGED <<session, disabled, rows, status, dialog, external, now, seen>>

progressResult(p) ==
  /\ call[p].pc = "result"
  /\ LET c == call[p]
     IN /\ status' = IF Current(c.epoch) THEN [epoch |-> c.epoch, backoff |-> c.failed]
                                         ELSE status
        /\ IF c.op = "prepare" THEN Goto(p, "view") ELSE Put(p, Idle)
  /\ UNCHANGED <<session, disabled, rows, gate, handle, dialog, external, now, seen>>

progressView(p) ==
  /\ call[p].pc = "view"
  /\ LET c == call[p]
         r == Row(c.id)
     IN dialog' = IF ~Current(c.epoch) THEN dialog
                  ELSE IF r.conflict = None THEN NoDialog
                  ELSE [id |-> c.id, token |-> r.token, local |-> r.local, cloud |-> r.conflict]
  /\ Put(p, Idle)
  /\ UNCHANGED <<session, disabled, rows, gate, handle, status, external, now, seen>>

----------------------------------------------------------------------------
(* ChooseProgress, with the token of the dialog the listener answered.     *)

Choosable(r) == dialog.token # None /\ r.conflict # None /\ r.token = dialog.token

AfterChoice(r, choice) ==
  LET chosen == IF choice = "cloud" THEN r.conflict ELSE [r.local EXCEPT !.at = now]
  IN [r EXCEPT !.revision = @ + 1, !.baseline = r.conflict, !.local = chosen,
               !.pending = IF choice = "cloud" THEN None ELSE chosen,
               !.conflict = None, !.token = None]

ChooseProgress(p) ==
  /\ May(p, "choose")
  /\ session.scope # None /\ ~disabled
  /\ dialog.id # None
  /\ LET r == Row(dialog.id)
     IN /\ Choosable(r)
        /\ r.revision < MaxRevision
        /\ \E choice \in {"local", "cloud"} :
             LET new == AfterChoice(r, choice)
             IN putProgress(dialog.id, new) /\ See(dialog.id, {new.local, r.conflict})
  /\ Begin(p, "choose", "view", dialog.id)
  /\ UNCHANGED <<session, disabled, gate, handle, status, dialog, external, now>>

----------------------------------------------------------------------------
(* The session and the settings.                                           *)

Connect ==
  /\ session.scope = None /\ session.epoch < MaxEpoch
  /\ \E a \in Account : session' = [epoch |-> session.epoch + 1, scope |-> a]
  /\ UNCHANGED <<disabled, rows, gate, handle, status, call, dialog, external, now, seen>>

(* Deleting the account's rows may fail, which does not keep it connected. *)
Logout ==
  /\ "logout" \in Event
  /\ session.scope # None /\ session.epoch < MaxEpoch
  /\ session' = [epoch |-> session.epoch + 1, scope |-> None]
  /\ rows' \in {rows, [rows EXCEPT ![session.scope] = [id \in Episode |-> NoRow]]}
  /\ dialog' = NoDialog
  /\ UNCHANGED <<disabled, gate, handle, status, call, external, now, seen>>

Reset ==
  /\ "reset" \in Event
  /\ session.epoch < MaxEpoch
  /\ session' = [epoch |-> session.epoch + 1, scope |-> None]
  /\ \/ rows' = [s \in Scope |-> [id \in Episode |-> NoRow]] /\ disabled' = FALSE
     \/ UNCHANGED <<rows, disabled>>    \* the store cannot be cleared
  /\ dialog' = NoDialog
  /\ UNCHANGED <<gate, handle, status, call, external, now, seen>>

CancelledByNobody(p) == call[p].cancelled

CancelledByDisabling(p) == call[p].cancelled \/ p = handle

Disable ==
  /\ "disable" \in Event
  /\ disabled' = TRUE
  /\ call' = [p \in Proc |-> IF call[p] = Idle THEN Idle
                 ELSE [call[p] EXCEPT !.cancelled = CancelledByDisabling(p), !.off = call[p].pc \in Working]]
  /\ UNCHANGED <<session, rows, gate, handle, status, dialog, external, now, seen>>

Enable ==
  /\ disabled
  /\ disabled' = FALSE
  /\ UNCHANGED <<session, rows, gate, handle, status, call, dialog, external, now, seen>>

(* The rows and the settings outlive the process; what it sent may land.   *)
Crash ==
  /\ "crash" \in Event
  /\ session' = [epoch |-> 1, scope |-> None]
  /\ gate' = None /\ handle' = None
  /\ status' = NoStatus
  /\ call' = [p \in Proc |-> Idle]
  /\ dialog' = NoDialog
  /\ wire' = Late \cup Disown({w \in wire \ Late : Cardinality(Late) < MaxLate})
  /\ UNCHANGED <<disabled, rows, cloud, landed, now, seen>>

(* The time limit of an operation, or the page gives up on it.             *)
Timeout(p) ==
  /\ "timeout" \in Event
  /\ call[p].pc \in Working \cup {"gate"} /\ ~call[p].cancelled
  /\ Put(p, [call[p] EXCEPT !.cancelled = TRUE])
  /\ UNCHANGED <<session, disabled, rows, gate, handle, status, dialog, external, now, seen>>

(* progressRetryAt passes.                                                 *)
BackoffEnds ==
  /\ status.backoff
  /\ status' = [status EXCEPT !.backoff = FALSE]
  /\ UNCHANGED <<session, disabled, rows, gate, handle, call, dialog, external, now, seen>>

----------------------------------------------------------------------------
(* The platform and the other devices, whose clocks may differ from ours.  *)

Hold(a, id, rec) ==
  /\ cloud' = [cloud EXCEPT ![a][id] = rec]
  /\ landed' = landed \cup {<<a, id, rec>>}

Deliver(w) ==
  /\ Hold(w.scope, w.id, w.rec)
  /\ wire' = wire \ {w}
  /\ call' = [p \in Proc |-> IF p = w.by THEN [call[p] EXCEPT !.pc = "landed"] ELSE call[p]]
  /\ UNCHANGED <<session, disabled, rows, gate, handle, status, dialog, now, seen>>

OtherDevice ==
  /\ "device" \in Event
  /\ \E a \in Account, id \in Episode, rec \in [pos : Pos, at : Time, by : {"there"}] :
       /\ Cardinality(Foreign \cup {<<a, id, rec>>}) <= MaxForeign
       /\ Hold(a, id, rec)
  /\ UNCHANGED <<session, disabled, rows, gate, handle, status, call, dialog, wire, now, seen>>

Deleted ==
  /\ "delete" \in Event
  /\ \E a \in Account, id \in Episode : cloud[a][id] # None /\ Hold(a, id, None)
  /\ UNCHANGED <<session, disabled, rows, gate, handle, status, call, dialog, wire, now, seen>>

Tick ==
  /\ now < MaxTime
  /\ now' = now + 1
  /\ UNCHANGED <<session, disabled, rows, gate, handle, status, call, dialog, external, seen>>

----------------------------------------------------------------------------

Enter(p) ==
  \/ SaveProgress(p) \/ SaveUnchanged(p) \/ ChooseProgress(p)
  \/ PrepareProgress(p) \/ ProgressRetry(p)

Inside(p) ==
  \/ Flush(p) \/ LoadBefore(p) \/ readCloud(p) \/ reconcileProgress(p) \/ Admit(p)
  \/ WriteProgress(p) \/ Acknowledge(p)

Resume(p) ==
  \/ progressOperation(p) \/ Refused(p) \/ Inside(p) \/ Fail(p) \/ GiveUp(p)
  \/ done(p) \/ progressResult(p) \/ progressView(p)

Environment ==
  \/ Connect \/ Logout \/ Reset \/ Disable \/ Enable \/ Crash \/ BackoffEnds
  \/ OtherDevice \/ Deleted \/ Tick
  \/ \E w \in wire : Deliver(w)

Next ==
  \/ \E p \in Proc : Enter(p) \/ Work(p) \/ Resume(p) \/ Timeout(p)
  \/ Environment

Spec == Init /\ [][Next]_vars

(* The worker's ticks go on and the page's own failures do not keep it in  *)
(* backoff at every tick; a lock section is short and progressGate is a    *)
(* queue; the platform, asked again and again, answers in the end.         *)
Fairness ==
  /\ WF_vars(BackoffEnds)
  /\ \A p \in Proc :
       /\ SF_vars(Work(p)) /\ WF_vars(Resume(p))
       /\ SF_vars(progressOperation(p)) /\ SF_vars(readCloud(p))
       /\ SF_vars(\E w \in Mine(p) : Deliver(w))

FairSpec == Spec /\ Fairness
----------------------------------------------------------------------------
(* Properties.                                                             *)

(* The shape of every variable.                                            *)
TypeOK ==
  /\ session \in [epoch : 1..MaxEpoch, scope : Scope]
  /\ disabled \in BOOLEAN
  /\ rows \in [Scope -> [Episode -> progressRecord]]
  /\ gate \in Maybe(Proc)
  /\ handle \in Maybe(Proc)
  /\ status \in Status
  /\ call \in [Proc -> Frame]
  /\ dialog \in Dialog
  /\ cloud \in [Account -> [Episode -> Maybe(Rec)]]
  /\ wire \in SUBSET Upload
  /\ now \in Time
  /\ landed \in SUBSET (Account \X Episode \X Maybe(Rec))
  /\ seen \in SUBSET (Scope \X Episode \X Maybe(Rec))

Among(history, a, id, rec) ==
  rec = None \/ \E h \in history : h[1] = a /\ h[2] = id /\ cloudEqual(h[3], rec)

(* What the listener did last is uploaded, unless it was in the cloud, a   *)
(* clearly later record came from there, or the listener said otherwise:   *)
(* no late read, late acknowledgement, conflict or restart drops it.       *)
NoLostIntent ==
  [][\A a \in Account, id \in Episode :
       LET r == rows[a][id]
           n == rows'[a][id]
       IN r.pending # None /\ n.pending = None =>
            \/ Among(landed, a, id, r.pending)
            \/ n.local # None /\ Newer(n.local, r.pending) /\ Among(landed, a, id, n.local)
            \/ disabled \/ session' # session
            \/ r.conflict # None /\ n.local = r.conflict]_vars

(* An upload replaces the record it was reconciled with only if that one   *)
(* is clearly older, or this device had played from it or overruled it:    *)
(* what another device left for the listener is never silently lost.       *)
NoSilentOverwrite ==
  \A w \in wire :
    w.read = None \/ Newer(w.rec, w.read) \/ Among(seen, w.scope, w.id, w.read)

(* A record goes out only for the account it was played in, if it was      *)
(* played while synchronising, and if the cloud did not already hold it.   *)
UploadsAreDue ==
  \A w \in wire :
    /\ w.rec.by = "here" /\ <<w.scope, w.id, w.rec>> \in seen
    /\ ~cloudEqual(w.read, w.rec)

(* Nothing an account's rows say comes from another account: not through a *)
(* read, an acknowledgement or a choice that outlived its session.         *)
RowsSpeakOfTheirAccount ==
  \A a \in Account, id \in Episode :
    LET r == rows[a][id]
    IN /\ Among(landed, a, id, r.baseline) /\ Among(landed, a, id, r.conflict)
       /\ Among(seen, a, id, r.local) /\ Among(seen, a, id, r.pending)

(* An operation during which synchronisation was switched off, even if it  *)
(* is on again, changes no row and sends nothing more.                     *)
SwitchedOffStops ==
  [][\A p \in Proc : call[p].off /\ call'[p] # call[p] /\ session'.epoch = session.epoch =>
       /\ rows' = rows
       /\ \A w \in wire' \ wire : w.by # p]_vars

(* One operation at a time is between the gate and its done.               *)
OneOperation ==
  \A p, q \in Proc :
    call[p].pc \in Working \cup {"leave"} /\ call[q].pc \in Working \cup {"leave"} => p = q

(* Worker and page take turns, and neither leaves to an account what it    *)
(* read or was told for another: both of these.                            *)
OperationsKeepApart == OneOperation /\ RowsSpeakOfTheirAccount

(* The listener's choice is applied to the two positions they were shown.  *)
ChoiceIsInformed ==
  [][\A p \in Proc : call[p] = Idle /\ call'[p].op = "choose" =>
       /\ dialog.local = Row(dialog.id).local
       /\ dialog.cloud = Row(dialog.id).conflict]_vars

(* A queued upload is settled in the end: uploaded, superseded, or put     *)
(* before the listener.                                                    *)
PendingSettles ==
  \A a \in Account, id \in Episode :
    (session.scope = a /\ ~disabled /\ rows[a][id].pending # None)
      ~> \/ rows[a][id].pending = None \/ rows[a][id].conflict # None
         \/ disabled \/ session.scope # a

(* Every operation returns: nobody waits for the gate for ever.            *)
OperationsReturn == \A p \in Proc : call[p] # Idle ~> call[p] = Idle

(* Nothing is left undone: no upload, and no operation.                    *)
EverythingSettles == PendingSettles /\ OperationsReturn

(* "A cloud change and local action within the timestamp uncertainty       *)
(* window need a choice" (progress_sync.go): the cloud's side of a         *)
(* conflict is a change made elsewhere.                                    *)
ConflictNeedsOtherDevice ==
  \A a \in Account, id \in Episode :
    rows[a][id].conflict # None => rows[a][id].conflict.by = "there"

(* The listener is asked only while "both ends have changed" within the    *)
(* window (docs/PROGRESS_SYNC.md): a conflict that a completed reconcile   *)
(* leaves standing is with the record the cloud has just answered.         *)
ConflictIsInCloud ==
  [][\A p \in Proc :
       call[p].pc = "reconcile" /\ call'[p].pc \in {"leave", "admit"} /\ ~call'[p].failed =>
         LET r == rows'[session.scope][call[p].id]
         IN r.conflict = None \/ cloudEqual(r.conflict, call[p].cloud)
            \/ r.revision # call[p].revision]_vars
=============================================================================
