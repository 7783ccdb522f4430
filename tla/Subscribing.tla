----------------------------- MODULE Subscribing -----------------------------
(***************************************************************************)
(* Adding a subscription: AddSubscription and SubscriptionStatus of        *)
(* internal/app/subscription.go over the single-shot write of the session  *)
(* (session/write.go) and the adapter's answers (provider/subscription.go),*)
(* together with the lists of Library that an addition cancels and that    *)
(* later take over from its receipt.                                       *)
(***************************************************************************)
EXTENDS Library

CONSTANTS
  Podcast,       \* the podcasts that may be added
  Adder,         \* calls of AddSubscription or SubscriptionStatus at once
  Press,         \* request ids: one per click of the listener
  AttemptLimit   \* 4096 in the code

ASSUME SubscribingAssumption == Podcast \subseteq Item /\ AttemptLimit \in Nat \ {0}

VARIABLES
  attempts,  \* Service.subscriptionAttempts
  busy,      \* Service.subscriptionBusy
  pending,   \* Service.subscriptionPending
  add,       \* what each call is at
  on,        \* the platform: who is subscribed to what
  sent       \* history: how often each request id was sent in this epoch

writeVars == <<attempts, busy, pending, add, on, sent>>
vars == <<libraryVars, writeVars>>

AddTask ==
  [phase : {"idle", "admitted", "wire", "verify", "confirm", "release", "check"},
   epoch : Nat, account : Scope \cup {None}, podcast : Item \cup {None}, press : Press \cup {None}]

IdleAdd == [phase |-> "idle", epoch |-> 0, account |-> None, podcast |-> None, press |-> None]

TypeOK ==
  /\ epoch \in 1..MaxEpoch /\ scope \in Scope /\ revision \in 0..MaxRevision
  /\ stages \in [Kind -> Stage \cup {None}]
  /\ cache \in [Scope -> [Kind -> View \cup {None}]]
  /\ receipts \in [Scope -> SUBSET Item]
  /\ subEpoch \in 0..MaxEpoch /\ confirmed \subseteq Item
  /\ task \in [Task -> LibraryTask]
  /\ attempts \subseteq Press /\ busy \subseteq Item /\ pending \subseteq Item
  /\ add \in [Adder -> AddTask]
  /\ on \in [Account -> SUBSET Item]
  /\ sent \in [Press -> Nat]

Init ==
  /\ LibraryInit
  /\ attempts = {} /\ busy = {} /\ pending = {}
  /\ add = [a \in Adder |-> IdleAdd]
  /\ on = [account \in Account |-> {}]
  /\ sent = [r \in Press |-> 0]

---------------------------------------------------------------------------
OfEpoch(S) == IF subEpoch = epoch THEN S ELSE {}

(* Busy podcasts are kept apart, repeated clicks are not.                  *)
AdmitsRepeated(podcast, press) ==
  podcast \notin OfEpoch(busy) /\ Cardinality(OfEpoch(attempts)) < AttemptLimit

Admits(podcast, press) ==
  /\ press \notin OfEpoch(attempts)
  /\ podcast \notin OfEpoch(busy)
  /\ Cardinality(OfEpoch(attempts)) < AttemptLimit

(* The first addition of an epoch starts the ledger anew.                  *)
BeginAdd(a, podcast, press) ==
  /\ add[a].phase = "idle"
  /\ scope # Guest
  /\ Admits(podcast, press)
  /\ subEpoch' = epoch
  /\ confirmed' = OfEpoch(confirmed)
  /\ attempts' = OfEpoch(attempts) \cup {press}
  /\ busy' = OfEpoch(busy) \cup {podcast}
  /\ pending' = OfEpoch(pending) \cup {podcast}
  /\ add' = [add EXCEPT ![a] =
       [phase |-> "admitted", epoch |-> epoch, account |-> scope, podcast |-> podcast, press |-> press]]
  /\ UNCHANGED <<epoch, scope, revision, stages, cache, receipts, task, on, sent>>

GoTo(a, phase) == add' = [add EXCEPT ![a].phase = phase]

(* DoOnceAt: the write goes out in the epoch of the call or not at all.    *)
SendAdd(a) ==
  /\ add[a].phase = "admitted"
  /\ \/ /\ AtEpoch(add[a].epoch)
        /\ sent' = [sent EXCEPT ![add[a].press] = @ + 1]
        /\ GoTo(a, "wire")
     \/ /\ UNCHANGED sent                 \* stale, or cancelled before sending
        /\ GoTo(a, "release")
  /\ UNCHANGED <<libraryVars, attempts, busy, pending, on>>

(* The platform acts or does not; only its own word that the podcast is on *)
(* is a success.  A lost or unreadable answer is uncertain and is read     *)
(* back once; a refusal is final.                                          *)
AnswerAdd(a) ==
  LET p == add[a].podcast IN
  /\ add[a].phase = "wire"
  /\ \E acts \in BOOLEAN :
       LET now == IF acts THEN [on EXCEPT ![add[a].account] = @ \cup {p}] ELSE on IN
       /\ on' = now
       /\ \/ ~AtEpoch(add[a].epoch) /\ GoTo(a, "release")
          \/ AtEpoch(add[a].epoch) /\ p \in now[add[a].account] /\ GoTo(a, "confirm")
          \/ AtEpoch(add[a].epoch) /\ GoTo(a, "verify")
          \/ AtEpoch(add[a].epoch) /\ ~acts /\ GoTo(a, "release")
  /\ UNCHANGED <<libraryVars, attempts, busy, pending, sent>>

(* Only the updates are overtaken, or only the subscriptions.              *)
OvertakenUpdates(kind) == kind = "updates"
OvertakenSubscriptions(kind) == kind = "subscriptions"

(* confirmSubscriptionLocked: lists under way were asked for before the    *)
(* addition; they are cancelled and forgotten.                             *)
Overtaken(kind) == kind \in {"subscriptions", "updates"}

ConfirmSubscription(podcast) ==
  /\ subEpoch' = epoch
  /\ confirmed' = OfEpoch(confirmed) \cup {podcast}
  /\ pending' = OfEpoch(pending) \ {podcast}
  /\ attempts' = OfEpoch(attempts) /\ busy' = OfEpoch(busy)
  /\ stages' = [k \in Kind |-> IF Overtaken(k) THEN None ELSE stages[k]]
  /\ \/ receipts' = [receipts EXCEPT ![scope] = @ \cup {podcast}]
     \/ UNCHANGED receipts                \* the store cannot be written

(* SubscriptionStatus repairs an addition that is pending in this epoch.   *)
Repairs(podcast) == subEpoch = epoch /\ podcast \in pending

Readback(a, whenOn, otherwise) ==
  LET p == add[a].podcast IN
  \/ /\ AtEpoch(add[a].epoch) /\ p \in on[add[a].account]
     /\ IF Repairs(p) THEN ConfirmSubscription(p)
        ELSE UNCHANGED <<subEpoch, confirmed, pending, attempts, busy, stages, receipts>>
     /\ whenOn
  \/ /\ UNCHANGED <<subEpoch, confirmed, pending, attempts, busy, stages, receipts>>
     /\ otherwise                         \* not on, not readable, or stale

Verify(a) ==
  /\ add[a].phase = "verify"
  /\ Readback(a, GoTo(a, "confirm"), GoTo(a, "release"))
  /\ UNCHANGED <<epoch, scope, revision, cache, task, on, sent>>

(* Confirmed for whoever is connected by now.                              *)
ConfirmAddUnfenced(a) ==
  /\ add[a].phase = "confirm"
  /\ ConfirmSubscription(add[a].podcast)
  /\ GoTo(a, "release")
  /\ UNCHANGED <<epoch, scope, revision, cache, task, on, sent>>

ConfirmAdd(a) ==
  /\ add[a].phase = "confirm"
  /\ IF AtEpoch(add[a].epoch)
     THEN ConfirmSubscription(add[a].podcast)
     ELSE UNCHANGED <<subEpoch, confirmed, pending, attempts, busy, stages, receipts>>
  /\ GoTo(a, "release")
  /\ UNCHANGED <<epoch, scope, revision, cache, task, on, sent>>

(* A call of an earlier epoch releases what this epoch is working on.      *)
ReleaseAnyEpoch(a) ==
  /\ add[a].phase = "release"
  /\ busy' = busy \ {add[a].podcast}
  /\ add' = [add EXCEPT ![a] = IdleAdd]
  /\ UNCHANGED <<libraryVars, attempts, pending, on, sent>>

(* Deferred, so it runs however the call ends.                             *)
Release(a) ==
  /\ add[a].phase = "release"
  /\ busy' = IF subEpoch = add[a].epoch THEN busy \ {add[a].podcast} ELSE busy
  /\ add' = [add EXCEPT ![a] = IdleAdd]
  /\ UNCHANGED <<libraryVars, attempts, pending, on, sent>>

(* The listener asks again how an uncertain addition ended.                *)
BeginCheck(a, podcast) ==
  /\ add[a].phase = "idle"
  /\ scope # Guest
  /\ add' = [add EXCEPT ![a] =
       [phase |-> "check", epoch |-> epoch, account |-> scope, podcast |-> podcast, press |-> None]]
  /\ UNCHANGED <<libraryVars, attempts, busy, pending, on, sent>>

AnswerCheck(a) ==
  /\ add[a].phase = "check"
  /\ LET done == add' = [add EXCEPT ![a] = IdleAdd] IN Readback(a, done, done)
  /\ UNCHANGED <<epoch, scope, revision, cache, task, on, sent>>

(* Leaving the account empties the ledger; another epoch does not.         *)
NewEpoch(step) == step /\ sent' = [r \in Press |-> 0] /\ UNCHANGED <<add, on>>

Leave == NewEpoch(Logout) /\ attempts' = {} /\ busy' = {} /\ pending' = {}
Join(account) == NewEpoch(Connect(account)) /\ UNCHANGED <<attempts, busy, pending>>

AddStep(a) ==
  \/ \E podcast \in Podcast : BeginCheck(a, podcast) \/ \E press \in Press : BeginAdd(a, podcast, press)
  \/ SendAdd(a) \/ AnswerAdd(a) \/ Verify(a) \/ ConfirmAdd(a) \/ Release(a) \/ AnswerCheck(a)

Next ==
  \/ \E t \in Task : LibraryStep(t) /\ UNCHANGED writeVars
  \/ \E a \in Adder : AddStep(a)
  \/ \E account \in Account : Join(account)
  \/ Leave
  \/ ClearCache /\ UNCHANGED writeVars

Spec == Init /\ [][Next]_vars

---------------------------------------------------------------------------
(* Lists.                                                                  *)

(* A complete cached list of an account is one listing of that account:    *)
(* every page asked for with the cursor of the one before.  No answer that *)
(* was cancelled, replaced, cleared or left behind by a logout is in it.   *)
PersistedListIsOneListing ==
  \A s \in Scope, k \in Kind :
    cache[s][k] # None => cache[s][k].whole /\ (k # "updates" => cache[s][k].complete)

(* A list says it is loading exactly while one request can still answer    *)
(* it, so BUSY always ends and no second request answers the same stage.   *)
AnswersFor(t, k) ==
  /\ task[t].phase = "net" /\ task[t].kind = k /\ AtEpoch(task[t].epoch)
  /\ task[t].stage = stages[k].id /\ task[t].revision = stages[k].revision

LoadingIsReal ==
  \A k \in Kind :
    stages[k] # None =>
      IF stages[k].loading THEN Cardinality({t \in Task : AnswersFor(t, k)}) = 1
      ELSE stages[k].view.status # "loading"

(* However the platform repeats its cursors, a list takes at most one page *)
(* more than there are cursors.                                            *)
PagingEnds ==
  \A k \in Kind :
    stages[k] # None => stages[k].view.pages <= Cardinality(Cursor) + 1

(* Loading comes to an end: both of these.                                 *)
LoadingEnds == LoadingIsReal /\ PagingEnds

(* The updates in memory and their snapshot agree: a refresh or a page     *)
(* that fails in any way leaves both, and a cut snapshot is not complete.  *)
SnapshotIsWhatIsShown ==
  "updates" \in Kind =>
    LET stage == stages["updates"]
        row == cache[scope]["updates"] IN
    stage # None /\ row # None =>
      /\ row.items = Newest(stage.view.items, SnapshotLimit)
      /\ row.complete => row.items = stage.view.items

(* A receipt of this account goes only when a complete list begun after it *)
(* was issued has been written and contains the podcast.                   *)
ReceiptsOutliveOldLists ==
  [][epoch' = epoch =>
       \A p \in Item :
         (p \in receipts[scope] \ receipts'[scope] \/ p \in OfEpoch(confirmed) \ confirmed')
           => /\ p \in stages["subscriptions"].known
              /\ cache'[scope]["subscriptions"] # None
              /\ p \in cache'[scope]["subscriptions"].items]_vars

(* What was asked for before an addition was confirmed would hide it: no   *)
(* page of a list begun earlier is merged or kept, of the subscriptions or *)
(* of the updates, however late it is answered.                            *)
Issued == receipts[scope] \cup OfEpoch(confirmed)

TakesPage(kind) ==
  \/ cache'[scope][kind] \notin {cache[scope][kind], None}
  \/ /\ None \notin {stages[kind], stages'[kind]}
     /\ stages'[kind].id = stages[kind].id
     /\ stages'[kind].view.items # stages[kind].view.items

OldListsAreNotKept ==
  [][epoch' = epoch =>
       \A kind \in Kind \cap {"subscriptions", "updates"} :
         TakesPage(kind) => Issued \subseteq stages[kind].known]_vars

---------------------------------------------------------------------------
(* Additions.                                                              *)

(* Whatever answers are lost or late and whatever the account becomes, a   *)
(* receipt is of a podcast the platform has for that account.              *)
ReceiptsAreTrue ==
  /\ \A account \in Account : receipts[account] \subseteq on[account]
  /\ receipts[Guest] = {}
  /\ scope # Guest => OfEpoch(confirmed) \subseteq on[scope]

(* One click is sent at most once, and no two calls write the same podcast *)
(* of this epoch at a time.                                                *)
Writing(a) == add[a].phase \in {"admitted", "wire"} /\ add[a].epoch = epoch

SubscribedOnce ==
  /\ \A r \in Press : sent[r] <= 1
  /\ \A a, b \in Adder : Writing(a) /\ Writing(b) /\ add[a].podcast = add[b].podcast => a = b

(* A podcast is busy exactly while a call of this epoch works on it: no    *)
(* way an addition ends leaves it locked.                                  *)
BusyIsAtWork ==
  OfEpoch(busy) =
    {add[a].podcast : a \in {b \in Adder : add[b].epoch = epoch /\ add[b].phase \notin {"idle", "check"}}}

(* The ledger of additions is right: both of these.                        *)
OneAdditionPerClick == SubscribedOnce /\ BusyIsAtWork
=============================================================================
