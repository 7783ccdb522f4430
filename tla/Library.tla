------------------------------- MODULE Library -------------------------------
(***************************************************************************)
(* Personal lists and their cache: Library of internal/app/library.go (the *)
(* subscriptions, favorites and the episodes of a podcast), updates of     *)
(* updates.go, and the pages the adapter decodes for them (provider        *)
(* client.go and page.go).                                                 *)
(*                                                                         *)
(* A list is read page by page into a stage kept in memory.  A call holds  *)
(* the locks twice, before and after the platform's answer; task holds the *)
(* calls between two lock sections.  Receipts of added subscriptions are   *)
(* laid over the subscriptions; Subscribing adds them.                     *)
(***************************************************************************)
EXTENDS Integers, FiniteSets

CONSTANTS
  Account,       \* accounts; each has a scope of its own in the store
  Guest,         \* the scope without an account
  Kind,          \* which lists are read
  Item,          \* podcasts or episodes; a smaller number was published later
  Cursor,        \* the platform's page cursors
  NoCursor,      \* the empty cursor
  None,          \* no stage, no row
  Task,          \* calls of Library that may run at once
  PageLimit,     \* 1000 in the code
  ItemLimit,     \* 20000 in the code
  SnapshotLimit, \* 200 in the code
  MaxEpoch,      \* bound on session epochs
  MaxRevision,   \* bound on refreshes
  MaxCancel      \* bound on cancels of one stage

ASSUME LibraryAssumption ==
  /\ Kind \subseteq {"subscriptions", "favorites", "episodes", "updates"}
  /\ Item \subseteq Nat /\ IsFiniteSet(Item)
  /\ Guest \notin Account /\ NoCursor \notin Cursor /\ None \notin Cursor
  /\ PageLimit \in Nat \ {0} /\ ItemLimit \in Nat \ {0} /\ SnapshotLimit \in Nat \ {0}
  /\ MaxEpoch \in Nat \ {0} /\ MaxRevision \in Nat /\ MaxCancel \in Nat

VARIABLES
  epoch, scope,  \* the session's epoch and whose it is
  revision,      \* Service.revision: one per refresh
  stages,        \* Service.stages of the current epoch
  cache,         \* rows of kind cache, by scope and list
  receipts,      \* rows of kind subscription-confirmed, by scope
  subEpoch,      \* Service.subscriptionEpoch
  confirmed,     \* Service.subscriptionConfirmed
  task           \* what each call is at

libraryVars == <<epoch, scope, revision, stages, cache, receipts, subEpoch, confirmed, task>>

Scope == Account \cup {Guest}
Status == {"idle", "loading", "partial", "complete", "unknown_end", "error", "cached"}

(* whole is history: the items are those of the accepted pages of one      *)
(* listing of this account, each asked for with the cursor of the last.    *)
View ==
  [items : SUBSET Item, cursor : Cursor \cup {NoCursor}, complete : BOOLEAN, status : Status,
   pages : Nat, whole : BOOLEAN]

(* No row in the store is not an empty view.                               *)
ASSUME NoneAssumption == None \notin View

(* id names the stage, which the code compares by address.  known is       *)
(* history: the receipts there were when the stage was made.               *)
Stage ==
  [id : 1..MaxRevision, view : View, revision : Nat, seen : SUBSET Cursor, loading : BOOLEAN,
   known : SUBSET Item]

(* net is a call waiting for the platform, overlay one that has a view of  *)
(* the subscriptions and not yet the receipts over it, given one that has  *)
(* returned such a view.  account is history: who the request acted for.   *)
LibraryTask ==
  [phase : {"idle", "net", "overlay", "given"}, epoch : Nat, account : Scope \cup {None},
   kind : Kind \cup {None}, mode : {"none", "cached", "cancel", "refresh", "more"},
   stage : Nat, revision : Nat, cursor : Cursor \cup {NoCursor}, items : SUBSET Item]

Idle ==
  [phase |-> "idle", epoch |-> 0, account |-> None, kind |-> None, mode |-> "none",
   stage |-> 0, revision |-> 0, cursor |-> NoCursor, items |-> {}]

EmptyView ==
  [items |-> {}, cursor |-> NoCursor, complete |-> FALSE, status |-> "idle", pages |-> 0,
   whole |-> TRUE]

---------------------------------------------------------------------------
(* The platform's pages.                                                   *)

(* What a response may say: items, and whether there are more, in two      *)
(* fields that may be missing.  An item that cannot be decoded fails the   *)
(* request; what can be decoded is never refused by the service later.     *)
Envelope ==
  [items : SUBSET Item, hasMore : {"missing", "true", "false"},
   loadMoreKey : {"missing", "empty"} \cup Cursor]

CursorOf(env) == IF env.loadMoreKey \in Cursor THEN env.loadMoreKey ELSE NoCursor

Contradictory(env) ==
  \/ env.hasMore = "true" /\ CursorOf(env) = NoCursor
  \/ env.hasMore = "false" /\ CursorOf(env) # NoCursor
  \/ env.items = {} /\ CursorOf(env) # NoCursor

DecodePage(env) ==
  [items |-> env.items, cursor |-> CursorOf(env),
   complete |-> env.loadMoreKey = "empty" \/ env.hasMore = "false"]

(* Two endpoints leave both fields out on their last page.                 *)
List(kind, env) ==
  IF kind \in {"favorites", "subscriptions"} /\ env.loadMoreKey = "missing" /\ env.hasMore = "missing"
  THEN [DecodePage(env) EXCEPT !.complete = TRUE]
  ELSE DecodePage(env)

(* Without an account only the first page of a public podcast can be read, *)
(* and it never says that it is all.                                       *)
PublicEpisodes ==
  {[items |-> I, cursor |-> NoCursor, complete |-> FALSE] : I \in SUBSET Item}

Pages(kind, account, cursor) ==
  IF account # Guest
  THEN {List(kind, env) : env \in {e \in Envelope : ~Contradictory(e)}}
  ELSE IF kind = "episodes" /\ cursor = NoCursor THEN PublicEpisodes ELSE {}

---------------------------------------------------------------------------
(* Before the request.                                                     *)

(* Commit of the session: the call's epoch is still the session's.         *)
AtEpoch(e) == epoch = e

Loading(kind) == stages[kind] # None /\ stages[kind].loading

MayRead(kind) == kind = "episodes" \/ scope # Guest

Request(t, kind, mode, stage, cursor) ==
  /\ stages' = [stages EXCEPT ![kind] = [stage EXCEPT !.loading = TRUE]]
  /\ task' = [task EXCEPT ![t] =
       [phase |-> "net", epoch |-> epoch, account |-> scope, kind |-> kind, mode |-> mode,
        stage |-> stage.id, revision |-> stage.revision, cursor |-> cursor, items |-> {}]]

NewStage(view, seen) ==
  [id |-> revision + 1, view |-> view, revision |-> revision + 1, seen |-> seen,
   loading |-> FALSE, known |-> confirmed \cup receipts[scope]]

(* A refresh of a list starts from nothing; the cache stays as it is.      *)
Refresh(t, kind) ==
  /\ task[t].phase = "idle" /\ kind # "updates" /\ MayRead(kind)
  /\ ~Loading(kind)
  /\ revision < MaxRevision
  /\ revision' = revision + 1
  /\ Request(t, kind, "refresh", NewStage([EmptyView EXCEPT !.status = "loading"], {}), NoCursor)
  /\ UNCHANGED <<epoch, scope, cache, receipts, subEpoch, confirmed>>

(* A refresh of the updates keeps what there is until it has succeeded.    *)
ReadCache(kind) ==
  IF cache[scope][kind] = None THEN EmptyView
  ELSE [cache[scope][kind] EXCEPT !.cursor = NoCursor, !.status = "cached"]

RefreshUpdates(t) ==
  /\ task[t].phase = "idle" /\ "updates" \in Kind /\ MayRead("updates")
  /\ ~Loading("updates")
  /\ revision < MaxRevision
  /\ revision' = revision + 1
  /\ LET old == stages["updates"] IN
       Request(t, "updates", "refresh",
               IF old = None THEN NewStage(ReadCache("updates"), {})
                             ELSE NewStage(old.view, old.seen),
               NoCursor)
  /\ UNCHANGED <<epoch, scope, cache, receipts, subEpoch, confirmed>>

More(t, kind) ==
  /\ task[t].phase = "idle" /\ MayRead(kind)
  /\ stages[kind] # None /\ ~Loading(kind)
  /\ LET view == stages[kind].view IN
       /\ view.cursor # NoCursor
       /\ view.pages < PageLimit /\ Cardinality(view.items) < ItemLimit
       /\ Request(t, kind, "more", stages[kind], view.cursor)
  /\ UNCHANGED <<epoch, scope, revision, cache, receipts, subEpoch, confirmed>>

(* Only the subscriptions go on to a further lock section.                 *)
Answered(t, kind, items) ==
  task' = [task EXCEPT ![t] =
    IF kind # "subscriptions" THEN Idle
    ELSE [Idle EXCEPT !.phase = "overlay", !.epoch = task[t].epoch, !.kind = kind, !.items = items]]

Direct(t, kind, items) ==
  task' = [task EXCEPT ![t] =
    IF kind # "subscriptions" THEN Idle
    ELSE [Idle EXCEPT !.phase = "overlay", !.epoch = epoch, !.kind = kind, !.items = items]]

(* Mode cached changes nothing; its view of the subscriptions is followed  *)
(* because the receipts are laid over it later.                            *)
Peek(t) ==
  /\ task[t].phase = "idle" /\ "subscriptions" \in Kind /\ MayRead("subscriptions")
  /\ LET stage == stages["subscriptions"]
         row == cache[scope]["subscriptions"] IN
       \E unreadable \in BOOLEAN :
         Direct(t, "subscriptions",
                IF stage # None THEN stage.view.items
                ELSE IF row = None \/ unreadable THEN {} ELSE row.items)
  /\ UNCHANGED <<epoch, scope, revision, stages, cache, receipts, subEpoch, confirmed>>

(* A cancel that the next request cannot be told from.                     *)
CancelledSameRevision(kind, stage) == [stage EXCEPT !.loading = FALSE]

(* Cancelling makes room for the next request; the answer of this one may  *)
(* still come, to a stage of another revision.  Where no list is under way *)
(* the answer is empty, as Peek's of a row that cannot be read.            *)
Cancelled(kind, stage) ==
  [stage EXCEPT
     !.loading = FALSE, !.revision = @ + 1,
     !.view.status = IF kind = "updates" \/ stage.view.complete THEN @ ELSE "partial"]

Cancel(t, kind) ==
  /\ task[t].phase = "idle" /\ MayRead(kind)
  /\ stages[kind] # None
  /\ stages[kind].revision < stages[kind].id + MaxCancel
  /\ stages' = [stages EXCEPT ![kind] = Cancelled(kind, @)]
  /\ Direct(t, kind, stages[kind].view.items)
  /\ UNCHANGED <<epoch, scope, revision, cache, receipts, subEpoch, confirmed>>

---------------------------------------------------------------------------
(* After the answer.                                                       *)

(* Stages told apart by their revision alone.                              *)
CurrentByRevision(t) ==
  LET stage == stages[task[t].kind] IN
    /\ AtEpoch(task[t].epoch)
    /\ stage # None
    /\ stage.revision = task[t].revision
    /\ stage.loading

(* The stage the call began with is still there, untouched since.          *)
Current(t) ==
  LET stage == stages[task[t].kind] IN
    /\ AtEpoch(task[t].epoch)
    /\ stage # None
    /\ stage.id = task[t].stage
    /\ stage.revision = task[t].revision
    /\ stage.loading

Stale(t) ==
  /\ task[t].phase = "net"
  /\ ~Current(t)
  /\ task' = [task EXCEPT ![t] = Idle]
  /\ UNCHANGED <<epoch, scope, revision, stages, cache, receipts, subEpoch, confirmed>>

(* Only the last cursor is compared.                                       *)
CircularAtOnce(page, cursor, seen) ==
  page.cursor # NoCursor /\ (page.cursor = cursor \/ page.items = {})

(* A cursor the list has had, or a further page after an empty one.        *)
Circular(page, cursor, seen) ==
  /\ page.cursor # NoCursor
  /\ page.cursor = cursor \/ page.cursor \in seen \/ page.items = {}

(* Does this answer continue this stage?  History, for whole.              *)
Continues(t, stage) ==
  /\ task[t].stage = stage.id
  /\ task[t].account = scope
  /\ \/ task[t].mode = "refresh"
     \/ task[t].cursor = stage.view.cursor /\ stage.view.whole

(* The request failed, or its page is circular, which comes to the same.   *)
(* A list that fails before its first item shows the cached one.           *)
FailPage(t) ==
  LET kind == task[t].kind
      stage == stages[kind]
      failed == [stage EXCEPT !.loading = FALSE, !.view.status = "error"]
      row == cache[scope][kind] IN
  /\ task[t].phase = "net" /\ kind # "updates" /\ Current(t)
  /\ \/ /\ stage.view.items # {} \/ row = None
        /\ stages' = [stages EXCEPT ![kind] = failed]
        /\ Answered(t, kind, stage.view.items)
     \/ /\ stage.view.items = {} /\ row # None
        /\ stages' = [stages EXCEPT ![kind] =
             [failed EXCEPT !.view.items = row.items, !.view.whole = FALSE]]
        /\ Answered(t, kind, row.items)
     \/ /\ stage.view.items = {}      \* the store cannot be read
        /\ stages' = [stages EXCEPT ![kind] = failed]
        /\ IF kind = "subscriptions" THEN Answered(t, kind, {})
                                     ELSE task' = [task EXCEPT ![t] = Idle]
  /\ UNCHANGED <<epoch, scope, revision, cache, receipts, subEpoch, confirmed>>

EndOf(page) ==
  IF page.complete THEN "complete"
  ELSE IF page.cursor # NoCursor THEN "partial" ELSE "unknown_end"

Seen(seen, page) == IF page.cursor = NoCursor THEN seen ELSE seen \cup {page.cursor}

Merged(t, stage, page) ==
  [stage EXCEPT
     !.loading = FALSE,
     !.seen = Seen(@, page),
     !.view = [items |-> @.items \cup page.items, cursor |-> page.cursor,
               complete |-> page.complete, status |-> EndOf(page), pages |-> @.pages + 1,
               whole |-> Continues(t, stage)]]

(* A page of a list.  The last one replaces the cached list; when that has *)
(* been written, receipts of what it lists are dropped one by one, up to   *)
(* the first the store fails to delete.                                    *)
TakePage(t) ==
  LET kind == task[t].kind
      stage == stages[kind] IN
  /\ task[t].phase = "net" /\ kind # "updates" /\ Current(t)
  /\ \E page \in Pages(kind, task[t].account, task[t].cursor) :
       LET next == Merged(t, stage, page) IN
       /\ ~Circular(page, task[t].cursor, stage.seen)
       /\ Answered(t, kind, next.view.items)
       /\ \/ /\ ~page.complete
             /\ stages' = [stages EXCEPT ![kind] = next]
             /\ UNCHANGED <<cache, receipts, confirmed>>
          \/ /\ page.complete
             /\ stages' = [stages EXCEPT ![kind] = next]
             /\ cache' = [cache EXCEPT ![scope][kind] = next.view]
             /\ \E retired \in IF kind = "subscriptions" THEN SUBSET next.view.items ELSE {{}} :
                  /\ receipts' = [receipts EXCEPT ![scope] = @ \ retired]
                  /\ confirmed' = IF subEpoch = epoch THEN confirmed \ retired ELSE confirmed
          \/ /\ page.complete         \* the store cannot be written
             /\ stages' = [stages EXCEPT ![kind] = [next EXCEPT !.view.status = "error"]]
             /\ UNCHANGED <<cache, receipts, confirmed>>
  /\ UNCHANGED <<epoch, scope, revision, subEpoch>>

(* The most recent n items: what a snapshot keeps of the updates.          *)
Newest(items, n) == {i \in items : Cardinality({j \in items : j < i}) < n}

(* A cut snapshot that still says it is complete.                          *)
SnapshotUncounted(view) ==
  [view EXCEPT !.cursor = NoCursor, !.status = "cached", !.items = Newest(@, SnapshotLimit)]

Snapshot(view) ==
  [view EXCEPT
     !.cursor = NoCursor, !.status = "cached",
     !.items = Newest(@, SnapshotLimit),
     !.complete = @ /\ Cardinality(view.items) <= SnapshotLimit]

UpdatesAfter(t, stage, page) ==
  LET base == IF task[t].mode = "refresh" THEN EmptyView ELSE stage.view IN
  [stage EXCEPT
     !.loading = FALSE,
     !.seen = Seen(IF task[t].mode = "refresh" THEN {} ELSE @, page),
     !.view = [items |-> base.items \cup page.items, cursor |-> page.cursor,
               complete |-> page.complete, status |-> EndOf(page), pages |-> base.pages + 1,
               whole |-> Continues(t, stage)]]

(* A page of updates is taken with its snapshot or not at all.             *)
TakeUpdates(t) ==
  LET stage == stages["updates"] IN
  /\ task[t].phase = "net" /\ task[t].kind = "updates" /\ Current(t)
  /\ \E page \in Pages("updates", task[t].account, task[t].cursor) :
       LET next == UpdatesAfter(t, stage, page) IN
       /\ ~Circular(page, task[t].cursor, IF task[t].mode = "more" THEN stage.seen ELSE {})
       /\ Cardinality(next.view.items) <= ItemLimit
       /\ stages' = [stages EXCEPT !["updates"] = next]
       /\ cache' = [cache EXCEPT ![scope]["updates"] = Snapshot(next.view)]
  /\ task' = [task EXCEPT ![t] = Idle]
  /\ UNCHANGED <<epoch, scope, revision, receipts, subEpoch, confirmed>>

(* The request failed, the page is circular, too much, or not written.     *)
FailUpdates(t) ==
  /\ task[t].phase = "net" /\ task[t].kind = "updates" /\ Current(t)
  /\ stages' = [stages EXCEPT !["updates"].loading = FALSE, !["updates"].view.status = "error"]
  /\ task' = [task EXCEPT ![t] = Idle]
  /\ UNCHANGED <<epoch, scope, revision, cache, receipts, subEpoch, confirmed>>

(* The receipts in memory count while they are of this epoch; the rows may *)
(* be unreadable.                                                          *)
Receipts(unreadable) ==
  (IF unreadable THEN {} ELSE receipts[scope]) \cup (IF subEpoch = epoch THEN confirmed ELSE {})

OverlaySubscriptions(t) ==
  /\ task[t].phase = "overlay"
  /\ \/ /\ AtEpoch(task[t].epoch)
        /\ \E unreadable \in BOOLEAN :
             task' = [task EXCEPT ![t].phase = "given", ![t].items = @ \cup Receipts(unreadable)]
     \/ /\ ~AtEpoch(task[t].epoch)
        /\ task' = [task EXCEPT ![t] = Idle]
  /\ UNCHANGED <<epoch, scope, revision, stages, cache, receipts, subEpoch, confirmed>>

Return(t) ==
  /\ task[t].phase = "given"
  /\ task' = [task EXCEPT ![t] = Idle]
  /\ UNCHANGED <<epoch, scope, revision, stages, cache, receipts, subEpoch, confirmed>>

---------------------------------------------------------------------------
(* What ends lists from outside.                                           *)

NoStages == [k \in Kind |-> None]

(* A new epoch that is not a logout leaves the maps alone; their keys no   *)
(* longer match.                                                           *)
Connect(account) ==
  /\ scope = Guest /\ epoch < MaxEpoch
  /\ epoch' = epoch + 1
  /\ scope' = account
  /\ stages' = NoStages
  /\ UNCHANGED <<revision, cache, receipts, subEpoch, confirmed, task>>

(* The account's rows go too, in a reset everybody's, unless the store     *)
(* fails.                                                                  *)
Logout ==
  /\ epoch < MaxEpoch
  /\ epoch' = epoch + 1
  /\ scope' = Guest
  /\ stages' = NoStages
  /\ subEpoch' = 0 /\ confirmed' = {}
  /\ \/ UNCHANGED <<cache, receipts>>
     \/ /\ scope # Guest
        /\ cache' = [cache EXCEPT ![scope] = NoStages]
        /\ receipts' = [receipts EXCEPT ![scope] = {}]
     \/ /\ cache' = [s \in Scope |-> NoStages]
        /\ receipts' = [s \in Scope |-> {}]
  /\ UNCHANGED <<revision, task>>

ClearCache ==
  /\ stages' = NoStages
  /\ \/ UNCHANGED cache               \* the store cannot be written
     \/ cache' = [cache EXCEPT ![scope] = NoStages]
  /\ UNCHANGED <<epoch, scope, revision, receipts, subEpoch, confirmed, task>>

---------------------------------------------------------------------------
LibraryInit ==
  /\ epoch = 1 /\ scope \in Scope
  /\ revision = 0
  /\ stages = NoStages
  /\ cache = [s \in Scope |-> NoStages]
  /\ receipts = [s \in Scope |-> {}]
  /\ subEpoch = 0 /\ confirmed = {}
  /\ task = [t \in Task |-> Idle]

LibraryStep(t) ==
  \/ \E kind \in Kind : Refresh(t, kind) \/ More(t, kind) \/ Cancel(t, kind)
  \/ RefreshUpdates(t) \/ Peek(t)
  \/ Stale(t) \/ FailPage(t) \/ TakePage(t)
  \/ TakeUpdates(t) \/ FailUpdates(t)
  \/ OverlaySubscriptions(t) \/ Return(t)
=============================================================================
