------------------------------ MODULE Session ------------------------------
(***************************************************************************)
(* The account session manager (internal/session): login, saved-session   *)
(* restore, QR login, logout, single-flight credential refresh and the     *)
(* epoch that fences every late result.                                    *)
(*                                                                         *)
(* Every lock section of the Go code is one action; a provider call is the *)
(* gap between two of them, in which any other goroutine may run.          *)
(* Goroutines are the members of Proc; call[p] is the Go stack frame of    *)
(* the Manager method p is executing.  The goroutines of performRefresh    *)
(* are the members of Flight.  The provider's credential service and the   *)
(* failures of the vault are modelled from how the code uses them.         *)
(***************************************************************************)
EXTENDS Naturals

CONSTANTS
  Account,   \* listener identities; model.Scope(identity) is the account itself
  Token,     \* credential pairs (access and refresh token) the provider issues
  Flight,    \* refreshFlight objects, one per performRefresh goroutine
  Proc,      \* goroutines that call the Manager
  Role,      \* the methods each goroutine may call
  None,      \* no account (the "guest" scope), no credentials, no flight
  MaxEpoch   \* bound on the epoch counter

Methods == {"login", "cancelLogin", "restore", "qr", "poll", "cancelQR",
            "read", "write", "guest", "logout", "close"}

(* "abandon" is no method: it says that the context a goroutine passes to  *)
(* StartQR may be cancelled while the method runs.                         *)
Roles == Methods \cup {"abandon"}

ASSUME SessionAssumption ==
  /\ None \notin Account \cup Token \cup Flight
  /\ Role \in [Proc -> SUBSET Roles]
  /\ MaxEpoch \in Nat \ {0}

VARIABLES
  m,          \* the Manager's fields
  flights,    \* the refreshFlight objects and their goroutines
  call,       \* the goroutines inside a Manager method
  vault,      \* the saved session
  owner,      \* provider: the account a credential pair was issued to
  expired,    \* provider: pairs whose access token is no longer accepted
  spent,      \* provider: pairs whose refresh token is no longer accepted
  store,      \* rows of account data written through Commit
  held,       \* history: the account that was connected in each epoch
  wiped,      \* history: the epoch from which a scope's data is a fresh start
  vaultWiped, \* history: the same for the saved session
  cancelled   \* history: the bases CancelLogin has fenced

provider == <<owner, expired, spent>>
history == <<held, wiped, vaultWiped, cancelled>>
vars == <<m, flights, call, vault, owner, expired, spent, store,
          held, wiped, vaultWiped, cancelled>>

Epoch == 0..MaxEpoch
Maybe(S) == S \cup {None}
Scope == Maybe(Account)

Manager ==
  [epoch : Epoch, state : {"guest", "connecting", "connected", "needs_login"},
   identity : Scope, token : Maybe(Token), persistent : BOOLEAN, warning : BOOLEAN,
   closed : BOOLEAN, flight : Maybe(Flight), qrID : Epoch, qrOld : BOOLEAN,
   qrBusy : BOOLEAN, smsBase : Epoch]

Frame ==
  [op : Methods \cup {"none", "expired"},
   pc : {"idle", "auth", "fail", "establish", "load", "begin", "me", "create", "unbusy",
         "send", "refresh", "wait", "resnap", "resend", "reject", "commit", "closing"},
   base : Epoch, epoch : Epoch, token : Maybe(Token), id : Scope, keep : BOOLEAN,
   flight : Maybe(Flight)]

RefreshFlight ==
  [epoch : Epoch, token : Maybe(Token), pc : {"unused", "running", "answered", "done"},
   next : Maybe(Token), err : {"none", "UNAUTHORIZED", "OTHER", "STALE"}]

SavedSession == [token : Maybe(Token), id : Scope, epoch : Epoch]

Row == [scope : Scope, from : Scope, epoch : Epoch]

Idle == [op |-> "none", pc |-> "idle", base |-> 0, epoch |-> 0, token |-> None,
         id |-> None, keep |-> FALSE, flight |-> None]
NoSession == [token |-> None, id |-> None, epoch |-> 0]
NoFlight == [epoch |-> 0, token |-> None, pc |-> "unused", next |-> None, err |-> "none"]

----------------------------------------------------------------------------
(* A previous run of the program may have saved a session, whose tokens may *)
(* have expired or been spent since.                                       *)

NewManager ==
  [epoch |-> 1, state |-> "guest", identity |-> None, token |-> None,
   persistent |-> FALSE, warning |-> FALSE, closed |-> FALSE, flight |-> None,
   qrID |-> 0, qrOld |-> FALSE, qrBusy |-> FALSE, smsBase |-> 0]

Init ==
  /\ m = NewManager
  /\ flights = [f \in Flight |-> NoFlight]
  /\ call = [p \in Proc |-> Idle]
  /\ \/ /\ vault = NoSession
        /\ owner = [t \in Token |-> None]
        /\ expired = {} /\ spent = {}
     \/ \E t \in Token, a \in Account :
          /\ vault = [token |-> t, id |-> a, epoch |-> 1]
          /\ owner = [u \in Token |-> IF u = t THEN a ELSE None]
          /\ expired \in SUBSET {t}
          /\ spent \in SUBSET expired
  /\ store = {}
  /\ held = [e \in Epoch |-> None]
  /\ wiped = [s \in Scope |-> 0]
  /\ vaultWiped = 0
  /\ cancelled = {}

----------------------------------------------------------------------------
(* Guards and updates shared by the handlers.                              *)

May(p, method) == call[p] = Idle /\ method \in Role[p]

Fresh == {t \in Token : owner[t] = None}

(* A form whose name adds a slip to another's is that operator with one    *)
(* plausible bug; the runs' mutants put it in the other's place.           *)
CurrentAnyEpoch(e) == ~m.closed
CurrentEvenClosed(e) == m.epoch = e

Current(e) == m.epoch = e /\ ~m.closed

ConnectedAnyEpoch(e) == ~m.closed /\ m.state = "connected"

Connected(e) == Current(e) /\ m.state = "connected"

(* The caller of a method goes on with the epoch it passed in.             *)
Snapshot(op, pc, base) ==
  [op |-> op, pc |-> pc, base |-> 0, epoch |-> base, token |-> m.token,
   id |-> m.identity, keep |-> FALSE, flight |-> None]

Put(p, frame) == call' = [call EXCEPT ![p] = frame]
Goto(p, pc) == Put(p, [call[p] EXCEPT !.pc = pc])
Return(p) == Put(p, Idle)

MayBeginWithoutIdentity(base) == Current(base) /\ m.state # "connecting" /\ m.epoch < MaxEpoch

MayBeginAnyEpoch(base) ==
  ~m.closed /\ m.state # "connecting" /\ m.identity = None /\ m.epoch < MaxEpoch

MayBegin(base) ==
  /\ Current(base)
  /\ m.state # "connecting"
  /\ m.identity = None
  /\ m.epoch < MaxEpoch

BeginAttempt(p, base, sms, frame) ==
  /\ MayBegin(base)
  /\ m' = [m EXCEPT !.epoch = @ + 1, !.state = "connecting",
                    !.smsBase = IF sms THEN base ELSE 0,
                    !.qrID = 0, !.qrOld = FALSE, !.qrBusy = FALSE, !.flight = None]
  /\ Put(p, [frame EXCEPT !.epoch = m.epoch + 1])


(* PollQR leaves through its deferred reset of qrBusy.                     *)
Leave(p) == IF call[p].op = "poll" THEN Goto(p, "unbusy") ELSE Return(p)

(* vault.Save, then vault.Clear when it failed, which may fail as well.    *)
SaveOutcomesKeepingOld(t, id, e) == { [kept |-> TRUE, vault |-> vault] }

SaveOutcomes(t, id, e) ==
  { [kept |-> TRUE, vault |-> [token |-> t, id |-> id, epoch |-> e]],
    [kept |-> FALSE, vault |-> NoSession],
    [kept |-> FALSE, vault |-> vault] }

----------------------------------------------------------------------------
(* SMS login.                                                              *)

LoginAt(p) ==
  /\ May(p, "login")
  /\ \E base \in 1..m.epoch, keep \in BOOLEAN :
       BeginAttempt(p, base, TRUE, [Idle EXCEPT !.op = "login", !.pc = "auth",
                                                !.base = base, !.keep = keep])
  /\ UNCHANGED <<flights, vault, provider, store, history>>

(* p.Login then p.Me, or p.PollQR, p.QRIdentity then p.Me: new credentials *)
(* of a verified identity, a failure or mismatch, or "not confirmed yet".  *)
Authenticate(p) ==
  /\ call[p].pc = "auth"
  /\ \/ \E t \in Fresh, a \in Account :
          /\ owner' = [owner EXCEPT ![t] = a]
          /\ Put(p, [call[p] EXCEPT !.pc = "establish", !.token = t, !.id = a])
     \/ /\ Goto(p, "fail")
        /\ UNCHANGED owner
     \/ /\ call[p].op = "poll"
        /\ Goto(p, "unbusy")
        /\ UNCHANGED owner
  /\ UNCHANGED <<m, flights, vault, expired, spent, store, history>>

AfterFailureStillConnecting(e) == IF m.epoch = e THEN [m EXCEPT !.qrID = 0] ELSE m

AfterFailure(e) ==
  IF m.epoch = e THEN [m EXCEPT !.state = "guest", !.qrID = 0] ELSE m

FinishFailure(p) ==
  /\ call[p].pc = "fail"
  /\ m' = AfterFailure(call[p].epoch)
  /\ Leave(p)
  /\ UNCHANGED <<flights, vault, provider, store, history>>

ConnectWithoutWarning(c, kept) ==
  [m EXCEPT !.token = c.token, !.identity = c.id, !.persistent = kept,
            !.warning = FALSE, !.state = "connected", !.qrID = 0]

Connect(c, kept) ==
  [m EXCEPT !.token = c.token, !.identity = c.id, !.persistent = kept,
            !.warning = c.keep /\ ~kept, !.state = "connected", !.qrID = 0]

MayEstablishAnyEpoch(e) == ~m.closed

MayEstablish(e) == Current(e)

EstablishStale(p) ==
  /\ call[p].pc = "establish"
  /\ ~MayEstablish(call[p].epoch)
  /\ Leave(p)
  /\ UNCHANGED <<m, flights, vault, provider, store, history>>

(* The request was cancelled, or an unsaved login could not clear the vault. *)
EstablishRefused(p) ==
  /\ call[p].pc = "establish"
  /\ MayEstablish(call[p].epoch)
  /\ m' = [m EXCEPT !.state = "guest"]
  /\ vault' \in IF call[p].keep THEN {vault} ELSE {vault, NoSession}
  /\ Leave(p)
  /\ UNCHANGED <<flights, provider, store, history>>

Establish(p) ==
  /\ call[p].pc = "establish"
  /\ MayEstablish(call[p].epoch)
  /\ \/ /\ call[p].keep
        /\ \E o \in SaveOutcomes(call[p].token, call[p].id, call[p].epoch) :
             /\ vault' = o.vault
             /\ m' = Connect(call[p], o.kept)
     \/ /\ ~call[p].keep
        /\ vault' = NoSession
        /\ m' = Connect(call[p], FALSE)
  /\ held' = [held EXCEPT ![m.epoch] = call[p].id]
  /\ Leave(p)
  /\ UNCHANGED <<flights, provider, store, wiped, vaultWiped, cancelled>>

Queued(base) == m.epoch = base /\ m.state = "guest" /\ m.identity = None

(* CancelLogin fences the SMS request the page sent at base, whether it is *)
(* still queued or already began and moved the epoch to base + 1.          *)
CancelLogin(p) ==
  /\ May(p, "cancelLogin")
  /\ \E base \in 1..m.epoch :
       LET matching == m.smsBase = base /\ m.epoch = base + 1
       IN  /\ ~m.closed
           /\ ~(matching /\ m.identity # None)
           /\ Queued(base) \/ (matching /\ m.state \in {"connecting", "guest"})
           /\ m.epoch < MaxEpoch
           /\ m' = [m EXCEPT !.epoch = @ + 1, !.state = "guest", !.smsBase = 0]
           /\ cancelled' = cancelled \cup {base}
  /\ UNCHANGED <<flights, call, vault, provider, store, held, wiped, vaultWiped>>

----------------------------------------------------------------------------
(* Restore of a saved session: the epoch is read, then the vault is loaded *)
(* outside the lock, then the attempt begins at the epoch read.            *)

RestoreView(p) ==
  /\ May(p, "restore")
  /\ Put(p, [Idle EXCEPT !.op = "restore", !.pc = "load", !.epoch = m.epoch, !.keep = TRUE])
  /\ UNCHANGED <<m, flights, vault, provider, store, history>>

RestoreLoad(p) ==
  /\ call[p].pc = "load"
  /\ \/ vault.token # None
        /\ Put(p, [call[p] EXCEPT !.pc = "begin", !.token = vault.token, !.id = vault.id])
     \/ Return(p)                    \* nothing is saved, or it cannot be read
  /\ UNCHANGED <<m, flights, vault, provider, store, history>>

RestoreBegin(p) ==
  /\ call[p].pc = "begin"
  /\ \/ BeginAttempt(p, call[p].epoch, FALSE, [call[p] EXCEPT !.pc = "me"])
     \/ ~MayBegin(call[p].epoch) /\ Return(p) /\ UNCHANGED m
  /\ UNCHANGED <<flights, vault, provider, store, history>>

(* The provider spends a refresh token and issues a successor.             *)
Rotate(t, n) ==
  /\ t \notin spent
  /\ n \in Fresh
  /\ owner' = [owner EXCEPT ![n] = owner[t]]
  /\ expired' = expired \cup {t}
  /\ spent' = spent \cup {t}

(* p.Me with the saved access token; when that is rejected, p.Refresh and  *)
(* p.Me again.  The second Me may fail after the refresh token was spent.  *)
RestoreMe(p) ==
  /\ call[p].pc = "me"
  /\ LET t == call[p].token
     IN \/ /\ t \notin expired
           /\ Goto(p, IF owner[t] = call[p].id THEN "establish" ELSE "fail")
           /\ UNCHANGED provider
        \/ /\ t \in expired
           /\ \E n \in Fresh :
                /\ Rotate(t, n)
                /\ \/ Put(p, [call[p] EXCEPT !.token = n,
                            !.pc = IF owner[t] = call[p].id THEN "establish" ELSE "fail"])
                   \/ Goto(p, "fail")
        \/ /\ Goto(p, "fail")
           /\ UNCHANGED provider
  /\ UNCHANGED <<m, flights, vault, store, history>>

----------------------------------------------------------------------------
(* QR login.  A QR code is named by the epoch of the attempt that made it. *)

StartQR(p) ==
  /\ May(p, "qr")
  /\ BeginAttempt(p, m.epoch, FALSE, [Idle EXCEPT !.op = "qr", !.pc = "create"])
  /\ UNCHANGED <<flights, vault, provider, store, history>>

(* A code that arrives after the attempt was superseded or the manager was *)
(* closed is dropped, and so is one whose request was cancelled: then the  *)
(* attempt of the current epoch stays in connecting, without a code.       *)
CreateQR(p) ==
  /\ call[p].pc = "create"
  /\ \/ Goto(p, "fail") /\ UNCHANGED m
     \/ ~Current(call[p].epoch) /\ Return(p) /\ UNCHANGED m
     \/ "abandon" \in Role[p] /\ Return(p) /\ UNCHANGED m
     \/ /\ Current(call[p].epoch)
        /\ m' = [m EXCEPT !.qrID = m.epoch, !.qrOld = FALSE, !.qrBusy = FALSE]
        /\ Return(p)
  /\ UNCHANGED <<flights, vault, provider, store, history>>

(* Three minutes after CreateQR.                                           *)
QRTimeout ==
  /\ m.qrID # 0 /\ ~m.qrOld
  /\ m' = [m EXCEPT !.qrOld = TRUE]
  /\ UNCHANGED <<flights, call, vault, provider, store, history>>

Pollable == m.qrID # 0 /\ m.state = "connecting" /\ ~m.closed

(* PollQR looks at qrBusy only after it has dropped a code that is too old, *)
(* but the page polls a code again only when its last poll has answered:   *)
(* the id is known to the one dialog that asked for it, whose next poll is *)
(* set off by the answer.                                                  *)
LastPollAnswered ==
  \A p \in Proc : call[p].op \in {"poll", "expired"} => call[p].epoch # m.epoch

PollExpired(p) ==
  /\ May(p, "poll") /\ Pollable
  /\ m.qrOld
  /\ LastPollAnswered
  /\ Put(p, Snapshot("expired", "fail", m.epoch))
  /\ UNCHANGED <<m, flights, vault, provider, store, history>>

PollQR(p) ==
  /\ May(p, "poll") /\ Pollable
  /\ ~m.qrOld /\ ~m.qrBusy
  /\ m' = [m EXCEPT !.qrBusy = TRUE]
  /\ \E keep \in BOOLEAN :
       Put(p, [Snapshot("poll", "auth", m.epoch) EXCEPT !.keep = keep])
  /\ UNCHANGED <<flights, vault, provider, store, history>>

ClearBusy(p) ==
  /\ call[p].pc = "unbusy"
  /\ m' = IF m.epoch = call[p].epoch THEN [m EXCEPT !.qrBusy = FALSE] ELSE m
  /\ Return(p)
  /\ UNCHANGED <<flights, vault, provider, store, history>>

AfterCancelQRSameEpoch == [m EXCEPT !.state = "guest", !.qrID = 0, !.qrBusy = FALSE]

AfterCancelQR ==
  [m EXCEPT !.epoch = @ + 1, !.state = "guest", !.qrID = 0, !.qrBusy = FALSE]

CancelQR(p) ==
  /\ May(p, "cancelQR")
  /\ m.qrID # 0 /\ m.state = "connecting"
  /\ m.epoch < MaxEpoch
  /\ m' = AfterCancelQR
  /\ UNCHANGED <<flights, call, vault, provider, store, history>>

----------------------------------------------------------------------------
(* DoAt: a read bound to the caller's epoch, replayed once after a refresh; *)
(* DoOnceAt: a write, sent once; Guest: a read without credentials.        *)

DoAt(p) ==
  /\ \E op \in {"read", "write"}, base \in 1..m.epoch :
       /\ May(p, op)
       /\ Connected(base)
       /\ Put(p, Snapshot(op, "send", base))
  /\ UNCHANGED <<m, flights, vault, provider, store, history>>

(* fn(ctx, token): the provider answers for the account that owns token.   *)
Send(p) ==
  /\ call[p].pc \in {"send", "resend"}
  /\ LET c == call[p]
     IN \/ /\ c.token \notin expired
           /\ Put(p, [c EXCEPT !.pc = "commit", !.id = owner[c.token]])
        \/ /\ c.token \in expired
           /\ Goto(p, IF c.op = "read" /\ c.pc = "send" THEN "refresh" ELSE "reject")
        \/ Return(p)
  /\ UNCHANGED <<m, flights, vault, provider, store, history>>

Joinable(c) ==
  /\ m.flight # None
  /\ flights[m.flight].epoch = c.epoch
  /\ flights[m.flight].token = c.token

MayStartEvenIfRunning(c) == TRUE

(* A failed flight is joined until its retryAt has passed.                 *)
MayStart(c) ==
  Joinable(c) => /\ flights[m.flight].pc = "done"
                 /\ flights[m.flight].err \in {"UNAUTHORIZED", "OTHER"}

Running(f) == flights[f].pc \in {"running", "answered"}

(* A flight object nobody waits for can be represented anew.               *)
Collected(f) ==
  ~Running(f) /\ \A p \in Proc : call[p].pc = "wait" => call[p].flight # f

RefreshRefused(p) ==
  /\ call[p].pc = "refresh"
  /\ ~Connected(call[p].epoch)
  /\ Return(p)
  /\ UNCHANGED <<m, flights, vault, provider, store, history>>

RefreshAlreadyRotated(p) ==
  /\ call[p].pc = "refresh"
  /\ Connected(call[p].epoch)
  /\ m.token # call[p].token
  /\ Goto(p, "resnap")
  /\ UNCHANGED <<m, flights, vault, provider, store, history>>

JoinRefresh(p) ==
  /\ call[p].pc = "refresh"
  /\ Connected(call[p].epoch)
  /\ m.token = call[p].token
  /\ Joinable(call[p])
  /\ Put(p, [call[p] EXCEPT !.pc = "wait", !.flight = m.flight])
  /\ UNCHANGED <<m, flights, vault, provider, store, history>>

StartRefresh(p) ==
  /\ call[p].pc = "refresh"
  /\ Connected(call[p].epoch)
  /\ m.token = call[p].token
  /\ MayStart(call[p])
  /\ \E f \in Flight :
       /\ Collected(f)
       /\ flights' = [flights EXCEPT ![f] =
            [epoch |-> call[p].epoch, token |-> call[p].token, pc |-> "running",
             next |-> None, err |-> "none"]]
       /\ m' = [m EXCEPT !.flight = f]
       /\ Put(p, [call[p] EXCEPT !.pc = "wait", !.flight = f])
  /\ UNCHANGED <<vault, provider, store, history>>

(* The select of refresh: the flight is done, or the session's context is. *)
AwaitRefresh(p) ==
  /\ call[p].pc = "wait"
  /\ LET f == flights[call[p].flight]
     IN \/ /\ f.pc = "done"
           /\ IF f.err = "none" THEN Goto(p, "resnap") ELSE Return(p)
        \/ ~Current(call[p].epoch) /\ Return(p)
  /\ UNCHANGED <<m, flights, vault, provider, store, history>>

(* The request's own context is cancelled while it waits, or the result is *)
(* dropped before Commit.                                                  *)
GiveUp(p) ==
  /\ call[p].pc \in {"wait", "commit"}
  /\ Return(p)
  /\ UNCHANGED <<m, flights, vault, provider, store, history>>

ReadSnapshotAgain(p) ==
  /\ call[p].pc = "resnap"
  /\ IF Connected(call[p].epoch)
       THEN Put(p, Snapshot("read", "resend", call[p].epoch))
       ELSE Return(p)
  /\ UNCHANGED <<m, flights, vault, provider, store, history>>

(* A read whose replay was rejected; a write that was rejected and whose   *)
(* credentials are still the Manager's.                                    *)
Rejects(c) ==
  IF c.op = "read" THEN m.epoch = c.epoch
                   ELSE Current(c.epoch) /\ m.token = c.token

Reject(p) ==
  /\ call[p].pc = "reject"
  /\ m' = IF Rejects(call[p]) THEN [m EXCEPT !.state = "needs_login"] ELSE m
  /\ Return(p)
  /\ UNCHANGED <<flights, vault, provider, store, history>>

GuestRead(p) ==
  /\ May(p, "guest")
  /\ m.identity = None /\ m.state = "guest"
  /\ Put(p, Snapshot("guest", "commit", m.epoch))
  /\ UNCHANGED <<m, flights, vault, provider, store, history>>

(* What the request brought back is written under the Manager's scope.     *)
Commit(p) ==
  /\ call[p].pc = "commit"
  /\ store' = IF Current(call[p].epoch) /\ m.state # "connecting"
                THEN store \cup {[scope |-> m.identity, from |-> call[p].id,
                                  epoch |-> call[p].epoch]}
                ELSE store
  /\ Return(p)
  /\ UNCHANGED <<m, flights, vault, provider, history>>

----------------------------------------------------------------------------
(* The goroutine of performRefresh.                                        *)

(* p.Refresh: rotated, rejected, failed before or after the rotation.      *)
ProviderRefresh(f) ==
  /\ flights[f].pc = "running"
  /\ LET t == flights[f].token
         Answer(n, e) == flights' = [flights EXCEPT ![f] =
                           [@ EXCEPT !.pc = "answered", !.next = n, !.err = e]]
     IN \/ \E n \in Fresh : Rotate(t, n) /\ Answer(n, "none")
        \/ t \in spent /\ Answer(None, "UNAUTHORIZED") /\ UNCHANGED provider
        \/ Answer(None, "OTHER") /\ UNCHANGED provider
        \/ /\ t \notin spent
           /\ expired' = expired \cup {t} /\ spent' = spent \cup {t}
           /\ Answer(None, "OTHER") /\ UNCHANGED owner
  /\ UNCHANGED <<m, call, vault, store, history>>

DoneUnlessFailed(f, e) ==
  IF e = "none" THEN [flights EXCEPT ![f] = [@ EXCEPT !.pc = "done"]] ELSE flights

(* close(f.done) with f.err = e.                                           *)
Done(f, e) == [flights EXCEPT ![f] = [@ EXCEPT !.pc = "done", !.err = e]]

InstallStale(f) ==
  /\ flights[f].pc = "answered"
  /\ ~Current(flights[f].epoch)
  /\ flights' = Done(f, "STALE")
  /\ UNCHANGED <<m, call, vault, provider, store, history>>

(* Rotated credentials are saved before they replace the ones in memory.   *)
InstallCredentials(f) ==
  /\ flights[f].pc = "answered"
  /\ Current(flights[f].epoch)
  /\ flights[f].next # None
  /\ flights' = Done(f, flights[f].err)
  /\ \/ /\ m.persistent
        /\ \E o \in SaveOutcomes(flights[f].next, m.identity, flights[f].epoch) :
             /\ vault' = o.vault
             /\ m' = [m EXCEPT !.token = flights[f].next, !.persistent = o.kept,
                               !.warning = @ \/ ~o.kept]
     \/ /\ ~m.persistent
        /\ m' = [m EXCEPT !.token = flights[f].next]
        /\ UNCHANGED vault
  /\ UNCHANGED <<call, provider, store, history>>

InstallFailure(f) ==
  /\ flights[f].pc = "answered"
  /\ Current(flights[f].epoch)
  /\ flights[f].next = None
  /\ flights' = Done(f, flights[f].err)
  /\ m' = IF flights[f].err = "UNAUTHORIZED" THEN [m EXCEPT !.state = "needs_login"] ELSE m
  /\ UNCHANGED <<call, vault, provider, store, history>>

----------------------------------------------------------------------------
(* Logout and shutdown.                                                    *)

AfterLogoutTokenKept ==
  [m EXCEPT !.epoch = @ + 1, !.identity = None, !.persistent = FALSE,
            !.warning = FALSE, !.state = "guest", !.flight = None]

AfterLogoutTwice ==
  [m EXCEPT !.epoch = @ + 2, !.token = None, !.identity = None, !.persistent = FALSE,
            !.warning = FALSE, !.state = "guest", !.flight = None]

AfterLogout ==
  [m EXCEPT !.epoch = @ + 1, !.token = None, !.identity = None, !.persistent = FALSE,
            !.warning = FALSE, !.state = "guest", !.flight = None]

(* The cleanup the application passes deletes the account's rows; vault    *)
(* and store may each fail, and neither failure skips the other.           *)
LogoutAt(p) ==
  /\ May(p, "logout")
  /\ \E base \in 1..m.epoch : Current(base)
  /\ m.epoch < MaxEpoch
  /\ m' = AfterLogout
  /\ \/ vault' = NoSession /\ vaultWiped' = m.epoch + 1
     \/ UNCHANGED <<vault, vaultWiped>>
  /\ \/ /\ m.identity # None
        /\ store' = {r \in store : r.scope # m.identity}
        /\ wiped' = [wiped EXCEPT ![m.identity] = m.epoch + 1]
     \/ UNCHANGED <<store, wiped>>
  /\ UNCHANGED <<flights, call, provider, held, cancelled>>

Close(p) ==
  /\ May(p, "close")
  /\ m' = [m EXCEPT !.closed = TRUE]
  /\ Put(p, [Idle EXCEPT !.op = "close", !.pc = "closing"])
  /\ UNCHANGED <<flights, vault, provider, store, history>>

CloseReturns(p) ==
  /\ call[p].pc = "closing"
  /\ \A f \in Flight : ~Running(f)        \* jobs.Wait
  /\ Return(p)
  /\ UNCHANGED <<m, flights, vault, provider, store, history>>

(* The provider stops accepting an access token.                           *)
Expire ==
  /\ \E t \in Token \ expired : owner[t] # None /\ expired' = expired \cup {t}
  /\ UNCHANGED <<m, flights, call, vault, owner, spent, store, history>>

----------------------------------------------------------------------------

Enter(p) ==
  \/ LoginAt(p) \/ CancelLogin(p) \/ RestoreView(p) \/ StartQR(p) \/ PollExpired(p)
  \/ PollQR(p) \/ CancelQR(p) \/ DoAt(p) \/ GuestRead(p) \/ LogoutAt(p) \/ Close(p)

Resume(p) ==
  \/ Authenticate(p) \/ FinishFailure(p) \/ EstablishStale(p) \/ EstablishRefused(p)
  \/ Establish(p) \/ RestoreLoad(p) \/ RestoreBegin(p) \/ RestoreMe(p) \/ CreateQR(p)
  \/ ClearBusy(p) \/ Send(p) \/ RefreshRefused(p) \/ RefreshAlreadyRotated(p)
  \/ JoinRefresh(p) \/ StartRefresh(p) \/ AwaitRefresh(p) \/ ReadSnapshotAgain(p)
  \/ Reject(p) \/ Commit(p) \/ CloseReturns(p)

PerformRefresh(f) ==
  ProviderRefresh(f) \/ InstallStale(f) \/ InstallCredentials(f) \/ InstallFailure(f)

Next ==
  \/ \E p \in Proc : Enter(p) \/ Resume(p) \/ GiveUp(p)
  \/ \E f \in Flight : PerformRefresh(f)
  \/ QRTimeout \/ Expire

Spec == Init /\ [][Next]_vars

(* A provider call ends by its own timeout and a lock section is short; no *)
(* method is ever obliged to be called, nor a request to be cancelled.     *)
Fairness ==
  /\ \A p \in Proc : WF_vars(Resume(p))
  /\ \A f \in Flight : WF_vars(PerformRefresh(f))

FairSpec == Spec /\ Fairness
----------------------------------------------------------------------------
(* Properties.                                                             *)

(* The shape of every variable.                                            *)
TypeOK ==
  /\ m \in Manager
  /\ flights \in [Flight -> RefreshFlight]
  /\ call \in [Proc -> Frame]
  /\ vault \in SavedSession
  /\ owner \in [Token -> Scope]
  /\ expired \in SUBSET Token
  /\ spent \in SUBSET Token
  /\ store \in SUBSET Row
  /\ held \in [Epoch -> Scope]
  /\ wiped \in [Scope -> Epoch]
  /\ vaultWiped \in Epoch
  /\ cancelled \in SUBSET Epoch

(* The credentials in memory are those of the connected identity, through  *)
(* any interleaving of refresh, login, cancel and logout: establish and    *)
(* performRefresh install them, LogoutAt drops them together.              *)
CredentialsMatchIdentity ==
  IF m.token = None THEN m.identity = None ELSE owner[m.token] = m.identity

(* What an authenticated callback sends, the first time and when replayed, *)
(* acts for the account of the epoch its caller saw (DoAt, DoOnceAt).      *)
RequestsActForCaller ==
  \A p \in Proc : call[p].pc \in {"send", "resend"} =>
    owner[call[p].token] = held[call[p].epoch] /\ held[call[p].epoch] # None

(* Nobody acts with another's credentials: both of these.                  *)
CredentialsServeTheirOwner == CredentialsMatchIdentity /\ RequestsActForCaller

(* Commit never files under one account, or under an account, what was     *)
(* read for another or for the guest: late results are dropped.            *)
ScopeIsolation == \A r \in store : r.scope = r.from

(* Once logout has deleted an account's rows, only a later session of that *)
(* account writes such rows: no request in flight at logout does.          *)
WipedStaysWiped == \A r \in store : r.epoch >= wiped[r.scope]

(* Once logout has cleared the vault, only a later session refills it: no  *)
(* refresh or login in flight at logout does.                              *)
RevokedStaysRevoked == vault.token # None => vault.epoch >= vaultWiped

(* View's Persistent: the vault holds exactly the current credentials, so  *)
(* the next start restores this account with tokens the provider knows.    *)
PersistentMeansSaved ==
  m.persistent => vault.token = m.token /\ vault.id = m.identity

(* A session the user was not warned about and that is not persistent has  *)
(* left no credentials behind, not even an earlier session's.              *)
MemoryOnlyLeavesNothing ==
  m.identity # None /\ ~m.persistent /\ ~m.warning => vault.token = None

(* Memory and vault agree on whether a session outlives the program: both  *)
(* of these, however saving and clearing fail.                             *)
VaultAgrees == PersistentMeansSaved /\ MemoryOnlyLeavesNothing

(* Concurrent rejected reads share one refresh: no two refreshes they have *)
(* started in an epoch hold the same token, which would spend it twice.    *)
SingleFlight ==
  \A f, g \in Flight :
    /\ Running(f) /\ Running(g)
    /\ flights[f].epoch = flights[g].epoch /\ flights[f].token = flights[g].token
    => f = g

(* Close fences the manager before it waits for its jobs: no refresh is    *)
(* started (jobs.Add after jobs.Wait) and nothing is saved or written.     *)
ClosedIsFinal ==
  [][m.closed => /\ \A f \in Flight : Running(f)' => Running(f)
                 /\ UNCHANGED <<vault, store>>
                 /\ m'.token = m.token /\ m'.closed]_vars

(* Within one epoch an account is neither swapped nor dropped: only a new  *)
(* epoch, hence one that every fenced request fails, changes it.           *)
EpochKeepsAccount ==
  [][m'.epoch = m.epoch /\ m.identity # None => m'.identity = m.identity]_vars

(* CancelLogin is final: the SMS login of a base it fenced never connects  *)
(* an account, whether it was still waiting for the lock (beginAttempt) or *)
(* its answer was on the way (establish).                                  *)
CancelledLoginNeverConnects ==
  [][\A p \in Proc :
       /\ call[p].op = "login" /\ call'[p] # call[p]
       /\ m'.token \notin {m.token, None}
       => call[p].base \notin cancelled]_vars

(* An attempt leaves "connecting" or has a QR code to show, unless the     *)
(* application closes under it; a shown code waits for the listener.       *)
ConnectingEnds ==
  m.state = "connecting" /\ m.qrID = 0
    ~> (m.state # "connecting" \/ m.qrID # 0 \/ m.closed)

(* Every method returns: no wait on a refresh flight, and no Close, hangs. *)
CallsReturn == \A p \in Proc : call[p] # Idle ~> call[p] = Idle

(* Nothing hangs: no method, and no attempt to connect while the caller of *)
(* StartQR stays to see its code (no "abandon" in Role).                   *)
EverythingReturns == CallsReturn /\ ConnectingEnds

(* "A concurrent successful read refresh must not be invalidated by the    *)
(* old token" (write.go): the manager asks for a new login only when the   *)
(* credentials it holds are no longer accepted.                            *)
OnlyRejectedCredentialsNeedLogin ==
  m.state = "needs_login" => m.token \in expired
=============================================================================
