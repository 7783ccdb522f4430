-------------------------- MODULE SubscribingProofs --------------------------
(***************************************************************************)
(* The safety properties of the lists and of adding subscriptions, for     *)
(* every number of accounts, items, calls and clicks: the type invariant,  *)
(* the requests that may still answer a stage, what the cache and the      *)
(* snapshot hold, the receipts, and the ledger of additions.               *)
(***************************************************************************)
EXTENDS Subscribing, FiniteSetTheorems, TLAPS

(* A call at the platform belongs to a list, to a stage that was made, and *)
(* in its own epoch to the account that is connected.                      *)
NetTrue ==
  \A t \in Task : task[t].phase = "net" =>
    /\ task[t].kind \in Kind /\ task[t].account \in Scope /\ task[t].mode \in {"refresh", "more"}
    /\ task[t].epoch <= epoch /\ task[t].stage <= revision
    /\ task[t].epoch = epoch => task[t].account = scope

(* What an adder holds, and that its account was the one of its epoch.     *)
AddersTrue ==
  \A a \in Adder : add[a].phase # "idle" =>
    /\ add[a].epoch <= epoch /\ add[a].account \in Account /\ add[a].podcast \in Podcast
    /\ add[a].epoch = epoch => add[a].account = scope
    /\ add[a].phase # "check" => add[a].press \in Press

(* Stages are numbered by the refreshes that made them.                    *)
StagesPast == \A k \in Kind : stages[k] # None => stages[k].id <= revision

TypeInv == TypeOK /\ NetTrue /\ StagesPast /\ AddersTrue

----------------------------------------------------------------------------
(* Facts about the operators.                                              *)

Page == [items : SUBSET Item, cursor : Cursor \cup {NoCursor}, complete : BOOLEAN]

LEMMA Constants ==
  /\ Scope = Account \cup {Guest} /\ Guest \notin Account /\ Guest \in Scope
  /\ Podcast \subseteq Item
  /\ MaxEpoch \in Nat \ {0} /\ MaxRevision \in Nat /\ MaxCancel \in Nat
  /\ None \notin View
BY LibraryAssumption, SubscribingAssumption, NoneAssumption DEF Scope

LEMMA ListShape ==
  ASSUME NEW kind, NEW env \in Envelope
  PROVE  List(kind, env) \in Page
<1>1. CursorOf(env) \in Cursor \cup {NoCursor}
  BY DEF CursorOf
<1>. DEFINE done == (env.loadMoreKey = "empty" \/ env.hasMore = "false")
<1>2. done \in BOOLEAN
  OBVIOUS
<1>3. DecodePage(env) = [items |-> env.items, cursor |-> CursorOf(env), complete |-> done]
  BY DEF DecodePage
<1>4. env.items \subseteq Item
  BY DEF Envelope
<1>. HIDE DEF done
<1>5. DecodePage(env) \in Page
  BY <1>1, <1>2, <1>3, <1>4 DEF Page
<1>6. [DecodePage(env) EXCEPT !.complete = TRUE] \in Page
  BY <1>5 DEF Page
<1>. QED  BY <1>5, <1>6 DEF List

LEMMA PagesShape ==
  ASSUME NEW kind, NEW account, NEW cursor
  PROVE  Pages(kind, account, cursor) \subseteq Page
<1>1. ASSUME NEW page \in PublicEpisodes
      PROVE  page \in Page
  <2>1. PICK I \in SUBSET Item : page = [items |-> I, cursor |-> NoCursor, complete |-> FALSE]
    BY DEF PublicEpisodes
  <2>. QED  BY <2>1 DEF Page
<1>2. {List(kind, env) : env \in {e \in Envelope : ~Contradictory(e)}} \subseteq Page
  BY ListShape
<1>. QED  BY <1>1, <1>2 DEF Pages

LEMMA Views ==
  /\ EmptyView \in View
  /\ [EmptyView EXCEPT !.status = "loading"] \in View
  /\ \A view \in View : \A n \in Nat : Newest(view.items, n) \subseteq Item
  /\ \A view \in View : Snapshot(view) \in View
<1>1. EmptyView \in View
  BY DEF EmptyView, View, Status
<1>2. [EmptyView EXCEPT !.status = "loading"] \in View
  BY <1>1 DEF View, Status
<1>3. \A view \in View : \A n \in Nat : Newest(view.items, n) \subseteq Item
  BY DEF Newest, View
<1>4. ASSUME NEW view \in View
      PROVE  Snapshot(view) \in View
  <2>. DEFINE whole == (view.complete /\ Cardinality(view.items) <= SnapshotLimit)
              items == Newest(view.items, SnapshotLimit)
  <2>1. whole \in BOOLEAN /\ items \subseteq Item
    BY <1>3, LibraryAssumption
  <2>2. Snapshot(view) =
          [view EXCEPT !.cursor = NoCursor, !.status = "cached", !.items = items, !.complete = whole]
    BY DEF Snapshot, View
  <2>. HIDE DEF whole, items
  <2>. QED  BY <2>1, <2>2 DEF View, Status
<1>. QED  BY <1>1, <1>2, <1>3, <1>4

LEMMA NewStageShape ==
  ASSUME TypeOK, revision < MaxRevision, NEW view \in View, NEW seen \in SUBSET Cursor
  PROVE  /\ NewStage(view, seen) \in Stage
         /\ NewStage(view, seen).id = revision + 1 /\ NewStage(view, seen).revision = revision + 1
         /\ NewStage(view, seen).view = view /\ NewStage(view, seen).seen = seen
         /\ NewStage(view, seen).known = confirmed \cup receipts[scope]
<1>1. revision + 1 \in 1..MaxRevision /\ revision + 1 \in Nat
  BY Constants DEF TypeOK
<1>2. confirmed \cup receipts[scope] \subseteq Item
  BY DEF TypeOK
<1>. QED  BY <1>1, <1>2 DEF NewStage, Stage

(* What stays of a stage when its view is replaced.                        *)
Same(new, old) == new.id = old.id /\ new.known = old.known

(* The stage of a request, and the stage of a failed one.                  *)
Asked(stage) == [stage EXCEPT !.loading = TRUE]
Failed(stage) == [stage EXCEPT !.loading = FALSE, !.view.status = "error"]
Fallback(stage, row) == [Failed(stage) EXCEPT !.view.items = row.items, !.view.whole = FALSE]

LEMMA AskedShape ==
  ASSUME NEW stage \in Stage
  PROVE  /\ Asked(stage) \in Stage /\ Same(Asked(stage), stage) /\ Asked(stage).loading
         /\ Asked(stage).revision = stage.revision
         /\ Asked(stage).view = stage.view /\ Asked(stage).seen = stage.seen
BY DEF Asked, Stage, Same

LEMMA StatusShape ==
  ASSUME NEW view \in View, NEW status \in Status
  PROVE  /\ [view EXCEPT !.status = status] \in View
         /\ [view EXCEPT !.status = status].status = status
         /\ [view EXCEPT !.status = status].items = view.items
         /\ [view EXCEPT !.status = status].cursor = view.cursor
         /\ [view EXCEPT !.status = status].complete = view.complete
         /\ [view EXCEPT !.status = status].pages = view.pages
         /\ [view EXCEPT !.status = status].whole = view.whole
BY DEF View

LEMMA FailedShape ==
  ASSUME NEW stage \in Stage
  PROVE  /\ Failed(stage) \in Stage /\ Same(Failed(stage), stage) /\ ~Failed(stage).loading
         /\ Failed(stage).revision = stage.revision /\ Failed(stage).seen = stage.seen
         /\ Failed(stage).view = [stage.view EXCEPT !.status = "error"]
<1>1. stage.view \in View
  BY DEF Stage
<1>. DEFINE view == [stage.view EXCEPT !.status = "error"]
<1>2. view \in View
  BY <1>1, StatusShape DEF Status
<1>3. Failed(stage) = [stage EXCEPT !.loading = FALSE, !.view = view]
  BY DEF Failed, Stage
<1>. HIDE DEF view
<1>4. /\ Failed(stage) \in Stage /\ Same(Failed(stage), stage) /\ ~Failed(stage).loading
      /\ Failed(stage).revision = stage.revision /\ Failed(stage).seen = stage.seen
      /\ Failed(stage).view = view
  BY <1>2, <1>3 DEF Stage, Same
<1>. QED  BY <1>4 DEF view

LEMMA FallbackShape ==
  ASSUME NEW stage \in Stage, NEW row \in View
  PROVE  /\ Fallback(stage, row) \in Stage /\ Same(Fallback(stage, row), stage)
         /\ ~Fallback(stage, row).loading
         /\ Fallback(stage, row).revision = stage.revision /\ Fallback(stage, row).seen = stage.seen
         /\ Fallback(stage, row).view =
              [stage.view EXCEPT !.status = "error", !.items = row.items, !.whole = FALSE]
<1>1. stage.view \in View /\ row.items \subseteq Item
  BY DEF Stage, View
<1>. DEFINE view == [stage.view EXCEPT !.status = "error", !.items = row.items, !.whole = FALSE]
<1>2. view \in View
  BY <1>1 DEF View, Status
<1>3. Fallback(stage, row) = [stage EXCEPT !.loading = FALSE, !.view = view]
  <2>1. Failed(stage) \in Stage
    BY FailedShape
  <2>2. Fallback(stage, row) =
          [Failed(stage) EXCEPT !.view = [Failed(stage).view EXCEPT !.items = row.items, !.whole = FALSE]]
    BY <2>1 DEF Fallback, Stage
  <2>3. [Failed(stage).view EXCEPT !.items = row.items, !.whole = FALSE] = view
    BY <1>1, FailedShape DEF View
  <2>. QED  BY <2>2, <2>3 DEF Failed, Stage
<1>. HIDE DEF view
<1>4. /\ Fallback(stage, row) \in Stage /\ Same(Fallback(stage, row), stage)
      /\ ~Fallback(stage, row).loading
      /\ Fallback(stage, row).revision = stage.revision /\ Fallback(stage, row).seen = stage.seen
      /\ Fallback(stage, row).view = view
  BY <1>2, <1>3 DEF Stage, Same
<1>. QED  BY <1>4 DEF view

LEMMA CancelledShape ==
  ASSUME NEW stage \in Stage, NEW kind
  PROVE  \E status \in Status :
         /\ Cancelled(kind, stage) \in Stage /\ Same(Cancelled(kind, stage), stage)
         /\ ~Cancelled(kind, stage).loading
         /\ Cancelled(kind, stage).revision = stage.revision + 1
         /\ Cancelled(kind, stage).seen = stage.seen
         /\ Cancelled(kind, stage).view = [stage.view EXCEPT !.status = status]
         /\ status \in {"partial", stage.view.status}
         /\ kind # "updates" /\ ~stage.view.complete => status = "partial"
<1>. DEFINE status == IF kind = "updates" \/ stage.view.complete THEN stage.view.status ELSE "partial"
<1>1. stage.view \in View /\ status \in Status /\ stage.revision + 1 \in Nat
  BY DEF Stage, View, Status
<1>. DEFINE view == [stage.view EXCEPT !.status = status]
<1>2. view \in View
  BY <1>1, StatusShape
<1>3. Cancelled(kind, stage) =
        [stage EXCEPT !.loading = FALSE, !.revision = stage.revision + 1, !.view = view]
  BY <1>1 DEF Cancelled, Stage, View
<1>4. status \in {"partial", stage.view.status} /\ (kind # "updates" /\ ~stage.view.complete => status = "partial")
  OBVIOUS
<1>. HIDE DEF status
<1>5. view = [stage.view EXCEPT !.status = status]
  OBVIOUS
<1>. HIDE DEF view
<1>6. /\ Cancelled(kind, stage) \in Stage /\ Same(Cancelled(kind, stage), stage)
      /\ ~Cancelled(kind, stage).loading
      /\ Cancelled(kind, stage).revision = stage.revision + 1
      /\ Cancelled(kind, stage).seen = stage.seen
      /\ Cancelled(kind, stage).view = view
  BY <1>1, <1>2, <1>3 DEF Stage, Same
<1>. QED  BY <1>1, <1>4, <1>5, <1>6

LEMMA SeenShape ==
  ASSUME NEW seen \in SUBSET Cursor, NEW page \in Page
  PROVE  Seen(seen, page) \in SUBSET Cursor
BY DEF Seen, Page

LEMMA MergedShape ==
  ASSUME NEW t, NEW stage \in Stage, NEW page \in Page
  PROVE  /\ Merged(t, stage, page) \in Stage /\ Same(Merged(t, stage, page), stage)
         /\ ~Merged(t, stage, page).loading /\ Merged(t, stage, page).revision = stage.revision
         /\ Merged(t, stage, page).seen = Seen(stage.seen, page)
         /\ Merged(t, stage, page).view =
              [items |-> stage.view.items \cup page.items, cursor |-> page.cursor,
               complete |-> page.complete, status |-> EndOf(page), pages |-> stage.view.pages + 1,
               whole |-> Continues(t, stage)]
         /\ Merged(t, stage, page).view \in View
<1>. DEFINE whole == Continues(t, stage)
<1>1. whole \in BOOLEAN
  BY DEF Continues
<1>2. Seen(stage.seen, page) \in SUBSET Cursor
  BY SeenShape DEF Stage
<1>3. EndOf(page) \in Status
  BY DEF EndOf, Status
<1>. DEFINE view ==
  [items |-> stage.view.items \cup page.items, cursor |-> page.cursor,
   complete |-> page.complete, status |-> EndOf(page), pages |-> stage.view.pages + 1,
   whole |-> whole]
<1>. HIDE DEF whole
<1>4. view \in View
  BY <1>1, <1>3 DEF View, Page, Stage
<1>5. Merged(t, stage, page) = [stage EXCEPT !.loading = FALSE, !.seen = Seen(stage.seen, page), !.view = view]
  BY DEF Merged, Stage, whole
<1>. HIDE DEF view
<1>6. /\ Merged(t, stage, page) \in Stage /\ Same(Merged(t, stage, page), stage)
      /\ ~Merged(t, stage, page).loading /\ Merged(t, stage, page).revision = stage.revision
      /\ Merged(t, stage, page).seen = Seen(stage.seen, page)
      /\ Merged(t, stage, page).view = view
  BY <1>2, <1>4, <1>5 DEF Stage, Same
<1>. QED  BY <1>4, <1>6 DEF view, whole

LEMMA UpdatesAfterShape ==
  ASSUME NEW t, NEW stage \in Stage, NEW page \in Page
  PROVE  LET fresh == task[t].mode = "refresh"
             next == UpdatesAfter(t, stage, page) IN
         /\ next \in Stage /\ Same(next, stage)
         /\ ~next.loading /\ next.revision = stage.revision
         /\ next.seen = Seen(IF fresh THEN {} ELSE stage.seen, page)
         /\ next.view =
              [items |-> (IF fresh THEN {} ELSE stage.view.items) \cup page.items, cursor |-> page.cursor,
               complete |-> page.complete, status |-> EndOf(page),
               pages |-> (IF fresh THEN 0 ELSE stage.view.pages) + 1,
               whole |-> Continues(t, stage)]
         /\ next.view \in View
<1>. DEFINE whole == Continues(t, stage)
            fresh == task[t].mode = "refresh"
            seen == IF fresh THEN {} ELSE stage.seen
            items == IF fresh THEN {} ELSE stage.view.items
            pages == IF fresh THEN 0 ELSE stage.view.pages
            base == IF fresh THEN EmptyView ELSE stage.view
<1>1. whole \in BOOLEAN
  BY DEF Continues
<1>2. seen \in SUBSET Cursor /\ items \in SUBSET Item /\ pages \in Nat /\ base.items = items /\ base.pages = pages
  BY DEF Stage, View, EmptyView
<1>3. EndOf(page) \in Status
  BY DEF EndOf, Status
<1>4. Seen(seen, page) \in SUBSET Cursor
  BY <1>2, SeenShape
<1>. DEFINE view ==
  [items |-> items \cup page.items, cursor |-> page.cursor,
   complete |-> page.complete, status |-> EndOf(page), pages |-> pages + 1,
   whole |-> whole]
<1>5. UpdatesAfter(t, stage, page) = [stage EXCEPT !.loading = FALSE, !.seen = Seen(seen, page), !.view = view]
  <2>1. view = [items |-> base.items \cup page.items, cursor |-> page.cursor,
               complete |-> page.complete, status |-> EndOf(page), pages |-> base.pages + 1,
               whole |-> whole]
    BY <1>2
  <2>. HIDE DEF view, items, pages
  <2>. QED  BY <2>1 DEF UpdatesAfter, Stage
<1>. HIDE DEF whole, seen, items, pages
<1>6. view \in View
  BY <1>1, <1>2, <1>3 DEF View, Page
<1>. HIDE DEF view
<1>7. /\ UpdatesAfter(t, stage, page) \in Stage /\ Same(UpdatesAfter(t, stage, page), stage)
      /\ ~UpdatesAfter(t, stage, page).loading /\ UpdatesAfter(t, stage, page).revision = stage.revision
      /\ UpdatesAfter(t, stage, page).seen = Seen(seen, page)
      /\ UpdatesAfter(t, stage, page).view = view
  BY <1>4, <1>5, <1>6 DEF Stage, Same
<1>. QED  BY <1>6, <1>7 DEF view, whole, seen, items, pages

----------------------------------------------------------------------------
(* The type invariant.                                                     *)

LEMMA InitTypes == Init => TypeInv
<1>. SUFFICES ASSUME Init PROVE TypeInv
  OBVIOUS
<1>1. Idle \in LibraryTask /\ Idle.phase = "idle"
  BY DEF Idle, LibraryTask
<1>2. IdleAdd \in AddTask /\ IdleAdd.phase = "idle"
  BY DEF IdleAdd, AddTask
<1>3. task \in [Task -> LibraryTask] /\ \A t \in Task : task[t].phase = "idle"
  BY <1>1 DEF Init, LibraryInit
<1>4. add \in [Adder -> AddTask] /\ \A a \in Adder : add[a].phase = "idle"
  BY <1>2 DEF Init
<1>5. stages \in [Kind -> Stage \cup {None}] /\ cache \in [Scope -> [Kind -> View \cup {None}]]
  BY DEF Init, LibraryInit, NoStages
<1>6. /\ epoch \in 1..MaxEpoch /\ scope \in Scope /\ revision \in 0..MaxRevision
      /\ subEpoch \in 0..MaxEpoch /\ confirmed \subseteq Item
      /\ receipts \in [Scope -> SUBSET Item]
      /\ attempts \subseteq Press /\ busy \subseteq Item /\ pending \subseteq Item
      /\ on \in [Account -> SUBSET Item] /\ sent \in [Press -> Nat]
  BY Constants DEF Init, LibraryInit
<1>7. StagesPast
  BY DEF Init, LibraryInit, NoStages, StagesPast
<1>. QED  BY <1>3, <1>4, <1>5, <1>6, <1>7 DEF TypeInv, TypeOK, NetTrue, AddersTrue

(* The parts of the state that only additions change, and the session.     *)
LEMMA WritesStay ==
  ASSUME TypeInv, UNCHANGED writeVars, UNCHANGED <<epoch, scope>>
  PROVE  AddersTrue' /\ attempts' \subseteq Press /\ busy' \subseteq Item /\ pending' \subseteq Item
         /\ add' \in [Adder -> AddTask] /\ on' \in [Account -> SUBSET Item] /\ sent' \in [Press -> Nat]
         /\ epoch' \in 1..MaxEpoch /\ scope' \in Scope
BY DEF TypeInv, TypeOK, AddersTrue, writeVars

(* One call goes on: not to the platform, or with what NetTrue wants.      *)
LEMMA TaskStep ==
  ASSUME TypeInv, UNCHANGED <<epoch, scope>>, revision' \in Nat, revision <= revision',
         NEW t \in Task, NEW new \in LibraryTask, task' = [task EXCEPT ![t] = new],
         new.phase = "net" =>
           /\ new.kind \in Kind /\ new.account = scope /\ new.mode \in {"refresh", "more"}
           /\ new.epoch = epoch /\ new.stage <= revision'
  PROVE  task' \in [Task -> LibraryTask] /\ NetTrue'
<1>1. task' \in [Task -> LibraryTask]
  BY DEF TypeInv, TypeOK
<1>2. ASSUME NEW u \in Task, task'[u].phase = "net"
      PROVE  /\ task'[u].kind \in Kind /\ task'[u].account \in Scope /\ task'[u].mode \in {"refresh", "more"}
             /\ task'[u].epoch <= epoch' /\ task'[u].stage <= revision'
             /\ task'[u].epoch = epoch' => task'[u].account = scope'
  <2>1. epoch \in Nat /\ scope \in Scope /\ revision \in Nat /\ task \in [Task -> LibraryTask]
    BY Constants DEF TypeInv, TypeOK
  <2>2. CASE u = t
    BY <1>2, <2>1, <2>2
  <2>3. CASE u # t
    <3>1. task'[u] = task[u] /\ task[u].stage \in Nat
      BY <2>1, <2>3 DEF LibraryTask
    <3>. QED  BY <1>2, <2>1, <3>1 DEF TypeInv, NetTrue
  <2>. QED  BY <2>2, <2>3
<1>. QED  BY <1>1, <1>2 DEF NetTrue

LEMMA IdleShape == Idle \in LibraryTask /\ Idle.phase = "idle"
BY DEF Idle, LibraryTask

LEMMA GoneStep ==
  ASSUME TypeInv, UNCHANGED <<epoch, scope, revision>>,
         NEW t \in Task, task' = [task EXCEPT ![t] = Idle]
  PROVE  task' \in [Task -> LibraryTask] /\ NetTrue'
<1>1. UNCHANGED <<epoch, scope>> /\ revision' \in Nat /\ revision <= revision'
  BY Constants DEF TypeInv, TypeOK
<1>2. Idle \in LibraryTask /\ Idle.phase # "net"
  BY IdleShape
<1>. QED  BY <1>1, <1>2, TaskStep

LEMMA OverlayShape ==
  ASSUME NEW e \in Nat, NEW kind \in Kind, NEW items \in SUBSET Item
  PROVE  /\ [Idle EXCEPT !.phase = "overlay", !.epoch = e, !.kind = kind, !.items = items] \in LibraryTask
         /\ [Idle EXCEPT !.phase = "overlay", !.epoch = e, !.kind = kind, !.items = items].phase = "overlay"
BY DEF Idle, LibraryTask

LEMMA AnsweredStep ==
  ASSUME TypeInv, UNCHANGED <<epoch, scope, revision>>, NEW t \in Task, NEW kind \in Kind,
         NEW items \in SUBSET Item, Answered(t, kind, items) \/ Direct(t, kind, items)
  PROVE  /\ task' \in [Task -> LibraryTask] /\ NetTrue'
         /\ task'[t].phase \in {"idle", "overlay"} /\ \A u \in Task \ {t} : task'[u] = task[u]
<1>1. epoch \in Nat /\ task[t].epoch \in Nat /\ task \in [Task -> LibraryTask] /\ revision \in Nat
  BY Constants DEF TypeInv, TypeOK, LibraryTask
<1>2. PICK new \in LibraryTask : task' = [task EXCEPT ![t] = new] /\ new.phase \in {"idle", "overlay"}
  <2>. DEFINE overlay(e) == [Idle EXCEPT !.phase = "overlay", !.epoch = e, !.kind = kind, !.items = items]
  <2>1. \A e \in Nat : overlay(e) \in LibraryTask /\ overlay(e).phase = "overlay"
    BY OverlayShape
  <2>2. \/ task' = [task EXCEPT ![t] = Idle]
        \/ task' = [task EXCEPT ![t] = overlay(task[t].epoch)]
        \/ task' = [task EXCEPT ![t] = overlay(epoch)]
    BY DEF Answered, Direct
  <2>. HIDE DEF overlay
  <2>. QED  BY <1>1, <2>1, <2>2, IdleShape
<1>3. UNCHANGED <<epoch, scope>> /\ revision' \in Nat /\ revision <= revision' /\ new.phase # "net"
  BY <1>1, <1>2
<1>4. task' \in [Task -> LibraryTask] /\ NetTrue'
  BY <1>2, <1>3, TaskStep
<1>. QED  BY <1>1, <1>2, <1>4

LEMMA RequestStep ==
  ASSUME TypeInv, UNCHANGED <<epoch, scope>>, revision' \in 0..MaxRevision, revision <= revision',
         NEW t \in Task, NEW kind \in Kind, NEW mode \in {"refresh", "more"},
         NEW stage \in Stage, stage.id <= revision',
         NEW cursor \in Cursor \cup {NoCursor},
         Request(t, kind, mode, stage, cursor)
  PROVE  /\ stages' = [stages EXCEPT ![kind] = Asked(stage)]
         /\ stages' \in [Kind -> Stage \cup {None}] /\ StagesPast'
         /\ task' = [task EXCEPT ![t] =
              [phase |-> "net", epoch |-> epoch, account |-> scope, kind |-> kind, mode |-> mode,
               stage |-> stage.id, revision |-> stage.revision, cursor |-> cursor, items |-> {}]]
         /\ task' \in [Task -> LibraryTask] /\ NetTrue'
<1>1. stages' = [stages EXCEPT ![kind] = Asked(stage)]
  BY DEF Request, Asked
<1>2. stages' \in [Kind -> Stage \cup {None}]
  BY <1>1, AskedShape DEF TypeInv, TypeOK
<1>. DEFINE new == [phase |-> "net", epoch |-> epoch, account |-> scope, kind |-> kind, mode |-> mode,
                    stage |-> stage.id, revision |-> stage.revision, cursor |-> cursor, items |-> {}]
<1>3. epoch \in Nat /\ scope \in Scope /\ stage.id \in Nat /\ stage.revision \in Nat
  BY Constants DEF TypeInv, TypeOK, Stage
<1>4. new \in LibraryTask
  BY <1>3 DEF LibraryTask
<1>5. /\ new.kind \in Kind /\ new.account = scope /\ new.mode \in {"refresh", "more"}
      /\ new.epoch = epoch /\ new.stage <= revision'
  OBVIOUS
<1>6. task' = [task EXCEPT ![t] = new]
  BY DEF Request
<1>7. revision' \in Nat
  BY Constants
<1>. HIDE DEF new
<1>8. task' \in [Task -> LibraryTask] /\ NetTrue'
  BY <1>4, <1>5, <1>6, <1>7, TaskStep
<1>9. StagesPast'
  <2>1. stages \in [Kind -> Stage \cup {None}] /\ revision \in Nat
    BY Constants DEF TypeInv, TypeOK
  <2>2. ASSUME NEW k \in Kind, stages'[k] # None
        PROVE  stages'[k].id <= revision'
    <3>1. CASE k = kind
      BY <1>1, <2>1, <3>1, AskedShape DEF Same
    <3>2. CASE k # kind
      <4>1. stages'[k] = stages[k] /\ stages[k] \in Stage /\ stages[k].id <= revision
        BY <1>1, <2>1, <2>2, <3>2 DEF TypeInv, StagesPast
      <4>2. stages[k].id \in Nat
        BY <4>1 DEF Stage
      <4>. QED  BY <1>7, <2>1, <4>1, <4>2
    <3>. QED  BY <3>1, <3>2
  <2>. QED  BY <2>2 DEF StagesPast
<1>. QED  BY <1>1, <1>2, <1>6, <1>8, <1>9 DEF new

LEMMA Members ==
  ASSUME TypeInv
  PROVE  /\ epoch \in 1..MaxEpoch /\ epoch \in Nat /\ scope \in Scope
         /\ revision \in 0..MaxRevision /\ revision \in Nat
         /\ \A k \in Kind : stages[k] # None => stages[k] \in Stage /\ stages[k].view \in View
         /\ \A s \in Scope, k \in Kind : cache[s][k] # None => cache[s][k] \in View
         /\ receipts[scope] \subseteq Item /\ confirmed \subseteq Item
         /\ subEpoch \in 0..MaxEpoch /\ subEpoch \in Nat
         /\ \A t \in Task : task[t] \in LibraryTask
         /\ \A a \in Adder : add[a] \in AddTask
BY Constants DEF TypeInv, TypeOK, Stage

LEMMA CacheShape ==
  ASSUME TypeInv, NEW kind \in Kind
  PROVE  LET view == ReadCache(kind) IN
         /\ view \in View /\ view.cursor = NoCursor /\ view.status \in {"idle", "cached"}
         /\ cache[scope][kind] = None => view = EmptyView
         /\ cache[scope][kind] # None =>
              /\ view.items = cache[scope][kind].items /\ view.pages = cache[scope][kind].pages
              /\ view.whole = cache[scope][kind].whole
<1>. DEFINE row == cache[scope][kind]
<1>1. CASE row = None
  BY <1>1, Views DEF ReadCache, EmptyView
<1>2. CASE row # None
  <2>1. row \in View
    BY <1>2, Members
  <2>2. ReadCache(kind) = [row EXCEPT !.cursor = NoCursor, !.status = "cached"]
    BY <1>2 DEF ReadCache
  <2>. HIDE DEF row
  <2>3. ReadCache(kind) \in View
    BY <2>1, <2>2 DEF View, Status
  <2>4. /\ ReadCache(kind).cursor = NoCursor /\ ReadCache(kind).status = "cached"
        /\ ReadCache(kind).items = row.items /\ ReadCache(kind).pages = row.pages
        /\ ReadCache(kind).whole = row.whole
    BY <2>1, <2>2 DEF View
  <2>. QED  BY <1>2, <2>3, <2>4 DEF row
<1>. QED  BY <1>1, <1>2

LEMMA AskingTypes ==
  ASSUME TypeInv, UNCHANGED writeVars, NEW t \in Task,
         (\E kind \in Kind : Refresh(t, kind) \/ More(t, kind)) \/ RefreshUpdates(t)
  PROVE  TypeInv'
<1>1. UNCHANGED <<epoch, scope, cache, receipts, subEpoch, confirmed>>
  BY DEF Refresh, More, RefreshUpdates
<1>2. /\ revision' \in 0..MaxRevision /\ stages' \in [Kind -> Stage \cup {None}] /\ StagesPast'
      /\ task' \in [Task -> LibraryTask] /\ NetTrue'
  <2>1. ASSUME NEW kind \in Kind, Refresh(t, kind)
        PROVE  /\ revision' \in 0..MaxRevision /\ stages' \in [Kind -> Stage \cup {None}] /\ StagesPast'
               /\ task' \in [Task -> LibraryTask] /\ NetTrue'
    <3>. DEFINE stage == NewStage([EmptyView EXCEPT !.status = "loading"], {})
    <3>1. stage \in Stage /\ stage.id = revision + 1
      BY <2>1, Views, NewStageShape DEF Refresh, TypeInv
    <3>2. revision' = revision + 1 /\ revision < MaxRevision /\ Request(t, kind, "refresh", stage, NoCursor)
      BY <2>1 DEF Refresh
    <3>. HIDE DEF stage
    <3>3. revision' \in 0..MaxRevision /\ revision <= revision' /\ stage.id <= revision'
      BY <3>1, <3>2, Members, Constants
    <3>. QED  BY <1>1, <3>1, <3>2, <3>3, RequestStep
  <2>2. ASSUME RefreshUpdates(t)
        PROVE  /\ revision' \in 0..MaxRevision /\ stages' \in [Kind -> Stage \cup {None}] /\ StagesPast'
               /\ task' \in [Task -> LibraryTask] /\ NetTrue'
    <3>1. "updates" \in Kind /\ revision' = revision + 1 /\ revision < MaxRevision
      BY <2>2 DEF RefreshUpdates
    <3>2. PICK view \in View, seen \in SUBSET Cursor : Request(t, "updates", "refresh", NewStage(view, seen), NoCursor)
      <4>1. ReadCache("updates") \in View
        BY <3>1, CacheShape
      <4>2. stages["updates"] # None => stages["updates"].view \in View /\ stages["updates"].seen \in SUBSET Cursor
        BY <3>1, Members DEF Stage
      <4>. QED  BY <2>2, <4>1, <4>2 DEF RefreshUpdates
    <3>. DEFINE stage == NewStage(view, seen)
    <3>3. stage \in Stage /\ stage.id = revision + 1
      BY <3>1, NewStageShape DEF TypeInv
    <3>4. Request(t, "updates", "refresh", stage, NoCursor)
      BY <3>2
    <3>. HIDE DEF stage
    <3>5. revision' \in 0..MaxRevision /\ revision <= revision' /\ stage.id <= revision'
      BY <3>1, <3>3, Members, Constants
    <3>. QED  BY <1>1, <3>1, <3>3, <3>4, <3>5, RequestStep
  <2>3. ASSUME NEW kind \in Kind, More(t, kind)
        PROVE  /\ revision' \in 0..MaxRevision /\ stages' \in [Kind -> Stage \cup {None}] /\ StagesPast'
               /\ task' \in [Task -> LibraryTask] /\ NetTrue'
    <3>. DEFINE stage == stages[kind]
    <3>1. stage # None /\ Request(t, kind, "more", stage, stage.view.cursor) /\ revision' = revision
      BY <2>3 DEF More
    <3>2. stage \in Stage /\ stage.view.cursor \in Cursor \cup {NoCursor}
      BY <3>1, Members DEF View
    <3>3. revision' \in 0..MaxRevision /\ revision <= revision' /\ stage.id <= revision'
      BY <3>1, Members DEF TypeInv, StagesPast
    <3>4. UNCHANGED <<epoch, scope>>
      BY <1>1
    <3>. HIDE DEF stage
    <3>. QED  BY <3>1, <3>2, <3>3, <3>4, RequestStep
  <2>. QED  BY <2>1, <2>2, <2>3
<1>. QED  BY <1>1, <1>2, WritesStay DEF TypeInv, TypeOK

(* A stage is replaced by one of the same number.                          *)
LEMMA StageStep ==
  ASSUME TypeInv, revision' = revision, NEW kind \in Kind, stages[kind] # None,
         NEW new \in Stage, new.id = stages[kind].id, stages' = [stages EXCEPT ![kind] = new]
  PROVE  stages' \in [Kind -> Stage \cup {None}] /\ StagesPast'
<1>1. stages \in [Kind -> Stage \cup {None}]
  BY DEF TypeInv, TypeOK
<1>2. ASSUME NEW k \in Kind, stages'[k] # None
      PROVE  stages'[k].id <= revision'
  BY <1>1, <1>2 DEF TypeInv, StagesPast
<1>. QED  BY <1>1, <1>2 DEF StagesPast

LEMMA CancelTypes ==
  ASSUME TypeInv, UNCHANGED writeVars, NEW t \in Task, NEW kind \in Kind, Cancel(t, kind)
  PROVE  TypeInv'
<1>. DEFINE stage == stages[kind]
<1>1. /\ UNCHANGED <<epoch, scope, revision, cache, receipts, subEpoch, confirmed>>
      /\ stage # None /\ stages' = [stages EXCEPT ![kind] = Cancelled(kind, stage)]
      /\ Direct(t, kind, stage.view.items)
  BY DEF Cancel
<1>2. stage \in Stage /\ stage.view.items \in SUBSET Item
  BY <1>1, Members DEF View
<1>3. Cancelled(kind, stage) \in Stage /\ Cancelled(kind, stage).id = stage.id
  BY <1>2, CancelledShape DEF Same
<1>4. stages' \in [Kind -> Stage \cup {None}] /\ StagesPast'
  BY <1>1, <1>3, StageStep
<1>5. task' \in [Task -> LibraryTask] /\ NetTrue'
  BY <1>1, <1>2, AnsweredStep
<1>. QED  BY <1>1, <1>4, <1>5, WritesStay DEF TypeInv, TypeOK

LEMMA CurrentFacts ==
  ASSUME TypeInv, NEW t \in Task, task[t].phase = "net", Current(t)
  PROVE  /\ task[t].kind \in Kind /\ task[t].account = scope /\ task[t].epoch = epoch
         /\ stages[task[t].kind] # None /\ stages[task[t].kind] \in Stage
         /\ stages[task[t].kind].view \in View /\ stages[task[t].kind].view.items \in SUBSET Item
         /\ AnswersFor(t, task[t].kind) /\ stages[task[t].kind].loading
         /\ task[t].mode \in {"refresh", "more"}
BY Members DEF TypeInv, NetTrue, Current, AtEpoch, AnswersFor, View

(* What a failed request leaves in the stage.                              *)
LEMMA FailOutcome ==
  ASSUME TypeInv, NEW t \in Task, FailPage(t)
  PROVE  LET kind == task[t].kind
             stage == stages[kind] IN
         /\ kind # "updates"
         /\ \E new \in Stage :
              /\ stages' = [stages EXCEPT ![kind] = new]
              /\ \/ new = Failed(stage)
                 \/ stage.view.items = {} /\ cache[scope][kind] # None /\ new = Fallback(stage, cache[scope][kind])
         /\ \/ \E items \in SUBSET Item : Answered(t, kind, items)
            \/ task' = [task EXCEPT ![t] = Idle]
<1>. DEFINE kind == task[t].kind
            stage == stages[kind]
            row == cache[scope][kind]
<1>1. task[t].phase = "net" /\ kind # "updates" /\ Current(t)
  BY DEF FailPage
<1>2. kind \in Kind /\ stage \in Stage /\ stage.view.items \in SUBSET Item
  BY <1>1, CurrentFacts
<1>3. row # None => row \in View /\ row.items \in SUBSET Item
  BY <1>2, Members DEF View
<1>4. Failed(stage) \in Stage /\ (row # None => Fallback(stage, row) \in Stage)
  BY <1>2, <1>3, FailedShape, FallbackShape
<1>5. \/ /\ stages' = [stages EXCEPT ![kind] = Failed(stage)]
         /\ Answered(t, kind, stage.view.items)
      \/ /\ stage.view.items = {} /\ row # None
         /\ stages' = [stages EXCEPT ![kind] = Fallback(stage, row)]
         /\ Answered(t, kind, row.items)
      \/ /\ stages' = [stages EXCEPT ![kind] = Failed(stage)]
         /\ \/ Answered(t, kind, {})
            \/ task' = [task EXCEPT ![t] = Idle]
  BY DEF FailPage, Failed, Fallback
<1>. HIDE DEF kind, stage, row
<1>6. /\ \E new \in Stage :
           /\ stages' = [stages EXCEPT ![kind] = new]
           /\ \/ new = Failed(stage)
              \/ stage.view.items = {} /\ row # None /\ new = Fallback(stage, row)
      /\ \/ \E items \in SUBSET Item : Answered(t, kind, items)
         \/ task' = [task EXCEPT ![t] = Idle]
  BY <1>2, <1>3, <1>4, <1>5
<1>. QED  BY <1>1, <1>6 DEF kind, stage, row

LEMMA FailTypes ==
  ASSUME TypeInv, UNCHANGED writeVars, NEW t \in Task, FailPage(t)
  PROVE  TypeInv'
<1>. DEFINE kind == task[t].kind
            stage == stages[kind]
<1>1. /\ UNCHANGED <<epoch, scope, revision, cache, receipts, subEpoch, confirmed>>
      /\ task[t].phase = "net" /\ Current(t)
  BY DEF FailPage
<1>2. PICK new \in Stage :
        /\ stages' = [stages EXCEPT ![kind] = new]
        /\ \/ new = Failed(stage)
           \/ cache[scope][kind] # None /\ new = Fallback(stage, cache[scope][kind])
  BY FailOutcome
<1>3. \/ \E items \in SUBSET Item : Answered(t, kind, items)
      \/ task' = [task EXCEPT ![t] = Idle]
  BY FailOutcome
<1>4. kind \in Kind /\ stage \in Stage /\ stage # None
  BY <1>1, CurrentFacts
<1>. HIDE DEF kind, stage
<1>5. new.id = stage.id
  <2>1. Failed(stage).id = stage.id
    BY <1>4, FailedShape DEF Same
  <2>2. cache[scope][kind] # None => cache[scope][kind] \in View
    BY <1>4, Members
  <2>3. cache[scope][kind] # None => Fallback(stage, cache[scope][kind]).id = stage.id
    BY <1>4, <2>2, FallbackShape DEF Same
  <2>. QED  BY <1>2, <2>1, <2>3
<1>6. stages' \in [Kind -> Stage \cup {None}] /\ StagesPast'
  BY <1>1, <1>2, <1>4, <1>5, StageStep DEF stage
<1>7. task' \in [Task -> LibraryTask] /\ NetTrue'
  BY <1>1, <1>3, <1>4, AnsweredStep, GoneStep
<1>. QED  BY <1>1, <1>6, <1>7, WritesStay DEF TypeInv, TypeOK

(* What a page of a list changes: either nothing is stored, or the list    *)
(* is, and some of the receipts it answers are dropped.                    *)
LEMMA TakeOutcome ==
  ASSUME TypeInv, NEW t \in Task, TakePage(t)
  PROVE  LET kind == task[t].kind
             stage == stages[kind] IN
         /\ kind # "updates" /\ Current(t) /\ task[t].phase = "net"
         /\ UNCHANGED <<epoch, scope, revision, subEpoch>>
         /\ \E page \in Page :
              /\ page \in Pages(kind, task[t].account, task[t].cursor)
              /\ ~Circular(page, task[t].cursor, stage.seen)
              /\ Answered(t, kind, Merged(t, stage, page).view.items)
              /\ \/ /\ stages' = [stages EXCEPT ![kind] = Merged(t, stage, page)]
                    /\ UNCHANGED <<cache, receipts, confirmed>>
                 \/ /\ page.complete
                    /\ stages' = [stages EXCEPT ![kind] = Merged(t, stage, page)]
                    /\ cache' = [cache EXCEPT ![scope][kind] = Merged(t, stage, page).view]
                    /\ \E retired \in SUBSET Merged(t, stage, page).view.items :
                         /\ retired # {} => kind = "subscriptions"
                         /\ receipts' = [receipts EXCEPT ![scope] = @ \ retired]
                         /\ confirmed' = IF subEpoch = epoch THEN confirmed \ retired ELSE confirmed
                 \/ /\ \E new \in Stage :
                         /\ stages' = [stages EXCEPT ![kind] = new]
                         /\ new.id = stage.id /\ new.known = stage.known /\ new.revision = stage.revision
                         /\ ~new.loading /\ new.seen = Merged(t, stage, page).seen
                         /\ new.view = [Merged(t, stage, page).view EXCEPT !.status = "error"]
                    /\ UNCHANGED <<cache, receipts, confirmed>>
<1>. DEFINE kind == task[t].kind
            stage == stages[kind]
<1>1. /\ kind # "updates" /\ Current(t) /\ task[t].phase = "net"
      /\ UNCHANGED <<epoch, scope, revision, subEpoch>>
  BY DEF TakePage
<1>2. kind \in Kind /\ stage \in Stage
  BY <1>1, CurrentFacts
<1>3. PICK page \in Pages(kind, task[t].account, task[t].cursor) :
        /\ ~Circular(page, task[t].cursor, stage.seen)
        /\ Answered(t, kind, Merged(t, stage, page).view.items)
        /\ \/ /\ ~page.complete
              /\ stages' = [stages EXCEPT ![kind] = Merged(t, stage, page)]
              /\ UNCHANGED <<cache, receipts, confirmed>>
           \/ /\ page.complete
              /\ stages' = [stages EXCEPT ![kind] = Merged(t, stage, page)]
              /\ cache' = [cache EXCEPT ![scope][kind] = Merged(t, stage, page).view]
              /\ \E retired \in IF kind = "subscriptions" THEN SUBSET Merged(t, stage, page).view.items ELSE {{}} :
                   /\ receipts' = [receipts EXCEPT ![scope] = @ \ retired]
                   /\ confirmed' = IF subEpoch = epoch THEN confirmed \ retired ELSE confirmed
           \/ /\ page.complete
              /\ stages' = [stages EXCEPT ![kind] = [Merged(t, stage, page) EXCEPT !.view.status = "error"]]
              /\ UNCHANGED <<cache, receipts, confirmed>>
  BY DEF TakePage
<1>4. page \in Page
  BY PagesShape
<1>. DEFINE next == Merged(t, stage, page)
            new == [next EXCEPT !.view.status = "error"]
<1>5. next \in Stage /\ Same(next, stage) /\ ~next.loading /\ next.revision = stage.revision /\ next.view \in View
  <2>. HIDE DEF kind, stage, new
  <2>. QED  BY <1>2, <1>4, MergedShape
<1>. HIDE DEF next
<1>6. /\ new \in Stage /\ new.id = stage.id /\ new.known = stage.known /\ new.revision = stage.revision
      /\ ~new.loading /\ new.seen = next.seen
      /\ new.view = [next.view EXCEPT !.status = "error"]
  <2>. DEFINE view == [next.view EXCEPT !.status = "error"]
  <2>1. view \in View
    BY <1>5, StatusShape DEF Status
  <2>2. new = [next EXCEPT !.view = view]
    BY <1>5 DEF Stage
  <2>. HIDE DEF view, new
  <2>3. /\ new \in Stage /\ new.id = stage.id /\ new.known = stage.known /\ new.revision = stage.revision
        /\ ~new.loading /\ new.seen = next.seen /\ new.view = view
    BY <1>5, <2>1, <2>2 DEF Stage, Same
  <2>. QED  BY <2>3 DEF view
<1>. HIDE DEF new
<1>7. \A retired : retired \in (IF kind = "subscriptions" THEN SUBSET next.view.items ELSE {{}})
        => retired \in SUBSET next.view.items /\ (retired # {} => kind = "subscriptions")
  OBVIOUS
<1>8. \/ /\ stages' = [stages EXCEPT ![kind] = next]
         /\ UNCHANGED <<cache, receipts, confirmed>>
      \/ /\ page.complete
         /\ stages' = [stages EXCEPT ![kind] = next]
         /\ cache' = [cache EXCEPT ![scope][kind] = next.view]
         /\ \E retired \in SUBSET next.view.items :
              /\ retired # {} => kind = "subscriptions"
              /\ receipts' = [receipts EXCEPT ![scope] = @ \ retired]
              /\ confirmed' = IF subEpoch = epoch THEN confirmed \ retired ELSE confirmed
      \/ /\ stages' = [stages EXCEPT ![kind] = new]
         /\ UNCHANGED <<cache, receipts, confirmed>>
  BY <1>3, <1>7 DEF next, new
<1>. QED  BY <1>1, <1>3, <1>4, <1>6, <1>8 DEF next

LEMMA TakeTypes ==
  ASSUME TypeInv, UNCHANGED writeVars, NEW t \in Task, TakePage(t)
  PROVE  TypeInv'
<1>. DEFINE kind == task[t].kind
            stage == stages[kind]
<1>1. Current(t) /\ task[t].phase = "net" /\ UNCHANGED <<epoch, scope, revision, subEpoch>>
  BY TakeOutcome
<1>2. PICK page \in Page :
        /\ Answered(t, kind, Merged(t, stage, page).view.items)
        /\ \/ /\ stages' = [stages EXCEPT ![kind] = Merged(t, stage, page)]
              /\ UNCHANGED <<cache, receipts, confirmed>>
           \/ /\ stages' = [stages EXCEPT ![kind] = Merged(t, stage, page)]
              /\ cache' = [cache EXCEPT ![scope][kind] = Merged(t, stage, page).view]
              /\ \E retired \in SUBSET Merged(t, stage, page).view.items :
                   /\ receipts' = [receipts EXCEPT ![scope] = @ \ retired]
                   /\ confirmed' = IF subEpoch = epoch THEN confirmed \ retired ELSE confirmed
           \/ /\ \E new \in Stage : stages' = [stages EXCEPT ![kind] = new] /\ new.id = stage.id
              /\ UNCHANGED <<cache, receipts, confirmed>>
  BY TakeOutcome
<1>. DEFINE next == Merged(t, stage, page)
<1>3. kind \in Kind /\ stage # None /\ stage \in Stage
  BY <1>1, CurrentFacts
<1>4. next \in Stage /\ next.id = stage.id /\ next.view \in View /\ next.view.items \in SUBSET Item
  <2>1. next \in Stage /\ Same(next, stage) /\ next.view \in View
    BY <1>3, MergedShape
  <2>. HIDE DEF next
  <2>. QED  BY <2>1 DEF Same, View
<1>. HIDE DEF next
<1>5. stages' \in [Kind -> Stage \cup {None}] /\ StagesPast'
  <2>1. \/ stages' = [stages EXCEPT ![kind] = next]
        \/ \E new \in Stage : stages' = [stages EXCEPT ![kind] = new] /\ new.id = stage.id
    BY <1>2 DEF next
  <2>2. PICK new \in Stage : stages' = [stages EXCEPT ![kind] = new] /\ new.id = stage.id
    BY <1>4, <2>1
  <2>. QED  BY <1>1, <1>3, <2>2, StageStep
<1>6. cache' \in [Scope -> [Kind -> View \cup {None}]]
  <2>1. cache' = cache \/ cache' = [cache EXCEPT ![scope][kind] = next.view]
    BY <1>2 DEF next
  <2>2. cache \in [Scope -> [Kind -> View \cup {None}]]
    BY DEF TypeInv, TypeOK
  <2>. QED  BY <1>4, <2>1, <2>2
<1>7. receipts' \in [Scope -> SUBSET Item] /\ confirmed' \subseteq Item
  <2>1. receipts \in [Scope -> SUBSET Item] /\ confirmed \subseteq Item
    BY DEF TypeInv, TypeOK
  <2>2. \/ UNCHANGED <<receipts, confirmed>>
        \/ \E retired : /\ receipts' = [receipts EXCEPT ![scope] = @ \ retired]
                        /\ confirmed' = IF subEpoch = epoch THEN confirmed \ retired ELSE confirmed
    BY <1>2
  <2>. QED  BY <2>1, <2>2
<1>8. task' \in [Task -> LibraryTask] /\ NetTrue'
  BY <1>1, <1>2, <1>3, <1>4, AnsweredStep DEF next
<1>. QED  BY <1>1, <1>5, <1>6, <1>7, <1>8, WritesStay DEF TypeInv, TypeOK

(* A page of updates and the snapshot taken with it.                       *)
LEMMA TakeUpdatesOutcome ==
  ASSUME TypeInv, NEW t \in Task, TakeUpdates(t)
  PROVE  LET stage == stages["updates"] IN
         /\ task[t].kind = "updates" /\ Current(t) /\ task[t].phase = "net"
         /\ UNCHANGED <<epoch, scope, revision, receipts, subEpoch, confirmed>>
         /\ task' = [task EXCEPT ![t] = Idle]
         /\ \E page \in Page :
              /\ page \in Pages("updates", task[t].account, task[t].cursor)
              /\ ~Circular(page, task[t].cursor, IF task[t].mode = "more" THEN stage.seen ELSE {})
              /\ stages' = [stages EXCEPT !["updates"] = UpdatesAfter(t, stage, page)]
              /\ cache' = [cache EXCEPT ![scope]["updates"] = Snapshot(UpdatesAfter(t, stage, page).view)]
<1>1. PICK page \in Pages("updates", task[t].account, task[t].cursor) :
        /\ ~Circular(page, task[t].cursor, IF task[t].mode = "more" THEN stages["updates"].seen ELSE {})
        /\ stages' = [stages EXCEPT !["updates"] = UpdatesAfter(t, stages["updates"], page)]
        /\ cache' = [cache EXCEPT ![scope]["updates"] = Snapshot(UpdatesAfter(t, stages["updates"], page).view)]
  BY DEF TakeUpdates
<1>2. page \in Page
  BY PagesShape
<1>. QED  BY <1>1, <1>2 DEF TakeUpdates

LEMMA TakeUpdatesTypes ==
  ASSUME TypeInv, UNCHANGED writeVars, NEW t \in Task, TakeUpdates(t)
  PROVE  TypeInv'
<1>. DEFINE stage == stages["updates"]
<1>1. /\ task[t].kind = "updates" /\ Current(t) /\ task[t].phase = "net"
      /\ UNCHANGED <<epoch, scope, revision, receipts, subEpoch, confirmed>>
      /\ task' = [task EXCEPT ![t] = Idle]
  BY TakeUpdatesOutcome
<1>2. PICK page \in Page :
        /\ stages' = [stages EXCEPT !["updates"] = UpdatesAfter(t, stage, page)]
        /\ cache' = [cache EXCEPT ![scope]["updates"] = Snapshot(UpdatesAfter(t, stage, page).view)]
  BY TakeUpdatesOutcome
<1>. DEFINE next == UpdatesAfter(t, stage, page)
<1>3. "updates" \in Kind /\ stage # None /\ stage \in Stage
  BY <1>1, CurrentFacts
<1>4. next \in Stage /\ next.id = stage.id /\ next.view \in View /\ Snapshot(next.view) \in View
  <2>1. next \in Stage /\ Same(next, stage) /\ next.view \in View
    BY <1>3, UpdatesAfterShape
  <2>. HIDE DEF next
  <2>. QED  BY <2>1, Views DEF Same
<1>. HIDE DEF next
<1>5. stages' \in [Kind -> Stage \cup {None}] /\ StagesPast'
  BY <1>1, <1>2, <1>3, <1>4, StageStep DEF next
<1>6. cache' \in [Scope -> [Kind -> View \cup {None}]]
  BY <1>2, <1>3, <1>4 DEF TypeInv, TypeOK, next
<1>7. task' \in [Task -> LibraryTask] /\ NetTrue'
  BY <1>1, GoneStep
<1>. QED  BY <1>1, <1>5, <1>6, <1>7, WritesStay DEF TypeInv, TypeOK

LEMMA FailUpdatesOutcome ==
  ASSUME TypeInv, NEW t \in Task, FailUpdates(t)
  PROVE  /\ task[t].kind = "updates" /\ Current(t) /\ task[t].phase = "net"
         /\ UNCHANGED <<epoch, scope, revision, cache, receipts, subEpoch, confirmed>>
         /\ task' = [task EXCEPT ![t] = Idle]
         /\ stages' = [stages EXCEPT !["updates"] = Failed(stages["updates"])]
<1>1. /\ task[t].kind = "updates" /\ Current(t) /\ task[t].phase = "net"
      /\ UNCHANGED <<epoch, scope, revision, cache, receipts, subEpoch, confirmed>>
      /\ task' = [task EXCEPT ![t] = Idle]
      /\ stages' = [stages EXCEPT !["updates"].loading = FALSE, !["updates"].view.status = "error"]
  BY DEF FailUpdates
<1>2. "updates" \in Kind /\ stages["updates"] \in Stage
  BY <1>1, CurrentFacts
<1>3. stages' = [stages EXCEPT !["updates"] = Failed(stages["updates"])]
  <2>1. stages \in [Kind -> Stage \cup {None}]
    BY DEF TypeInv, TypeOK
  <2>. QED  BY <1>1, <1>2, <2>1 DEF Failed
<1>. QED  BY <1>1, <1>3

LEMMA FailUpdatesTypes ==
  ASSUME TypeInv, UNCHANGED writeVars, NEW t \in Task, FailUpdates(t)
  PROVE  TypeInv'
<1>1. /\ task[t].kind = "updates" /\ Current(t) /\ task[t].phase = "net"
      /\ UNCHANGED <<epoch, scope, revision, cache, receipts, subEpoch, confirmed>>
      /\ task' = [task EXCEPT ![t] = Idle]
      /\ stages' = [stages EXCEPT !["updates"] = Failed(stages["updates"])]
  BY FailUpdatesOutcome
<1>2. "updates" \in Kind /\ stages["updates"] # None /\ stages["updates"] \in Stage
  BY <1>1, CurrentFacts
<1>3. Failed(stages["updates"]) \in Stage /\ Failed(stages["updates"]).id = stages["updates"].id
  BY <1>2, FailedShape DEF Same
<1>4. stages' \in [Kind -> Stage \cup {None}] /\ StagesPast'
  BY <1>1, <1>2, <1>3, StageStep
<1>5. task' \in [Task -> LibraryTask] /\ NetTrue'
  BY <1>1, GoneStep
<1>. QED  BY <1>1, <1>4, <1>5, WritesStay DEF TypeInv, TypeOK

LEMMA OverlaidShape ==
  ASSUME TypeInv, NEW t \in Task, NEW unreadable \in BOOLEAN
  PROVE  /\ Receipts(unreadable) \subseteq Item
         /\ [task[t] EXCEPT !.phase = "given", !.items = task[t].items \cup Receipts(unreadable)] \in LibraryTask
<1>1. task[t] \in LibraryTask /\ receipts[scope] \subseteq Item /\ confirmed \subseteq Item
  BY Members
<1>2. Receipts(unreadable) \subseteq Item
  BY <1>1 DEF Receipts
<1>. DEFINE R == Receipts(unreadable)
<1>. HIDE DEF R
<1>3. [task[t] EXCEPT !.phase = "given", !.items = task[t].items \cup R] \in LibraryTask
  BY <1>1, <1>2 DEF LibraryTask, R
<1>. QED  BY <1>2, <1>3 DEF R

(* Steps of a call that leave every stage as it is.                        *)
LEMMA QuietTypes ==
  ASSUME TypeInv, UNCHANGED writeVars, NEW t \in Task,
         Stale(t) \/ Peek(t) \/ OverlaySubscriptions(t) \/ Return(t)
  PROVE  TypeInv'
<1>1. UNCHANGED <<epoch, scope, revision, stages, cache, receipts, subEpoch, confirmed>>
  BY DEF Stale, Peek, OverlaySubscriptions, Return
<1>2. task' \in [Task -> LibraryTask] /\ NetTrue'
  <2>1. CASE task' = [task EXCEPT ![t] = Idle]
    BY <1>1, <2>1, GoneStep
  <2>2. CASE \E unreadable \in BOOLEAN :
               task' = [task EXCEPT ![t].phase = "given", ![t].items = @ \cup Receipts(unreadable)]
    <3>1. PICK unreadable \in BOOLEAN :
            task' = [task EXCEPT ![t].phase = "given", ![t].items = @ \cup Receipts(unreadable)]
      BY <2>2
    <3>. DEFINE R == Receipts(unreadable)
                new == [task[t] EXCEPT !.phase = "given", !.items = task[t].items \cup R]
    <3>2. new \in LibraryTask /\ R \subseteq Item
      BY OverlaidShape
    <3>. HIDE DEF R
    <3>3. task \in [Task -> LibraryTask]
      BY DEF TypeInv, TypeOK
    <3>4. task' = [task EXCEPT ![t] = new] /\ new.phase = "given"
      BY <3>1, <3>3 DEF R, LibraryTask
    <3>. HIDE DEF new
    <3>5. UNCHANGED <<epoch, scope>> /\ revision' \in Nat /\ revision <= revision' /\ new.phase # "net"
      BY <1>1, <3>4, Members
    <3>. QED  BY <3>2, <3>4, <3>5, TaskStep
  <2>3. CASE Peek(t)
    <3>1. PICK items \in SUBSET Item : Direct(t, "subscriptions", items) /\ "subscriptions" \in Kind
      <4>1. "subscriptions" \in Kind
        BY <2>3 DEF Peek
      <4>2. stages["subscriptions"] # None => stages["subscriptions"].view.items \in SUBSET Item
        BY <4>1, Members DEF View
      <4>3. cache[scope]["subscriptions"] # None => cache[scope]["subscriptions"].items \in SUBSET Item
        BY <4>1, Members DEF View
      <4>. QED  BY <2>3, <4>1, <4>2, <4>3 DEF Peek
    <3>. QED  BY <1>1, <3>1, AnsweredStep
  <2>. QED  BY <2>1, <2>2, <2>3 DEF Stale, OverlaySubscriptions, Return
<1>3. stages' \in [Kind -> Stage \cup {None}] /\ StagesPast'
  BY <1>1 DEF TypeInv, TypeOK, StagesPast
<1>. QED  BY <1>1, <1>2, <1>3, WritesStay DEF TypeInv, TypeOK

LEMMA LibraryTypes ==
  ASSUME TypeInv, UNCHANGED writeVars, NEW t \in Task, LibraryStep(t)
  PROVE  TypeInv'
BY AskingTypes, CancelTypes, FailTypes, TakeTypes, TakeUpdatesTypes, FailUpdatesTypes, QuietTypes
   DEF LibraryStep

(* An addition of this epoch becomes a receipt of whoever is connected.    *)
LEMMA ConfirmTypes ==
  ASSUME TypeInv, NEW podcast \in Item, ConfirmSubscription(podcast)
  PROVE  /\ subEpoch' \in 0..MaxEpoch /\ confirmed' \subseteq Item
         /\ attempts' \subseteq Press /\ busy' \subseteq Item /\ pending' \subseteq Item
         /\ stages' \in [Kind -> Stage \cup {None}] /\ \A k \in Kind : stages'[k] \in {None, stages[k]}
         /\ receipts' \in [Scope -> SUBSET Item]
<1>1. subEpoch' \in 0..MaxEpoch
  BY Members, Constants DEF ConfirmSubscription
<1>2. /\ confirmed' \subseteq Item /\ attempts' \subseteq Press /\ busy' \subseteq Item /\ pending' \subseteq Item
  BY DEF ConfirmSubscription, TypeInv, TypeOK, OfEpoch
<1>3. stages' \in [Kind -> Stage \cup {None}] /\ \A k \in Kind : stages'[k] \in {None, stages[k]}
  BY DEF ConfirmSubscription, TypeInv, TypeOK
<1>4. receipts' \in [Scope -> SUBSET Item]
  BY DEF ConfirmSubscription, TypeInv, TypeOK
<1>. QED  BY <1>1, <1>2, <1>3, <1>4

(* What an adder may become: nothing, or what it was in another phase.     *)
LEMMA AdderStep ==
  ASSUME TypeInv, UNCHANGED <<epoch, scope>>, NEW a \in Adder,
         NEW new \in AddTask, add' = [add EXCEPT ![a] = new],
         new.phase # "idle" =>
           /\ new.epoch <= epoch /\ new.account \in Account /\ new.podcast \in Podcast
           /\ new.epoch = epoch => new.account = scope
           /\ new.phase # "check" => new.press \in Press
  PROVE  add' \in [Adder -> AddTask] /\ AddersTrue'
<1>1. add \in [Adder -> AddTask]
  BY DEF TypeInv, TypeOK
<1>2. add' \in [Adder -> AddTask]
  BY <1>1
<1>3. ASSUME NEW b \in Adder, add'[b].phase # "idle"
      PROVE  /\ add'[b].epoch <= epoch' /\ add'[b].account \in Account /\ add'[b].podcast \in Podcast
             /\ add'[b].epoch = epoch' => add'[b].account = scope'
             /\ add'[b].phase # "check" => add'[b].press \in Press
  <2>1. CASE b = a
    BY <1>1, <1>3, <2>1
  <2>2. CASE b # a
    <3>1. add'[b] = add[b]
      BY <1>1, <2>2
    <3>. QED  BY <1>3, <3>1 DEF TypeInv, AddersTrue
  <2>. QED  BY <2>1, <2>2
<1>. QED  BY <1>2, <1>3 DEF AddersTrue

LEMMA IdleAddShape == IdleAdd \in AddTask /\ IdleAdd.phase = "idle"
BY DEF IdleAdd, AddTask

LEMMA DoneStep ==
  ASSUME TypeInv, UNCHANGED <<epoch, scope>>, NEW a \in Adder, add' = [add EXCEPT ![a] = IdleAdd]
  PROVE  add' \in [Adder -> AddTask] /\ AddersTrue'
BY IdleAddShape, AdderStep

LEMMA PhaseStep ==
  ASSUME TypeInv, UNCHANGED <<epoch, scope>>, NEW a \in Adder, add[a].phase \notin {"idle", "check"},
         NEW phase \in {"wire", "verify", "confirm", "release"}, GoTo(a, phase)
  PROVE  /\ add' \in [Adder -> AddTask] /\ AddersTrue'
         /\ add'[a].phase = phase
         /\ add'[a].epoch = add[a].epoch /\ add'[a].account = add[a].account
         /\ add'[a].podcast = add[a].podcast /\ add'[a].press = add[a].press
         /\ \A b \in Adder \ {a} : add'[b] = add[b]
<1>1. add \in [Adder -> AddTask] /\ add[a] \in AddTask
  BY DEF TypeInv, TypeOK
<1>. DEFINE new == [add[a] EXCEPT !.phase = phase]
<1>2. /\ new \in AddTask /\ new.phase = phase
      /\ new.epoch = add[a].epoch /\ new.account = add[a].account
      /\ new.podcast = add[a].podcast /\ new.press = add[a].press
  BY <1>1 DEF AddTask
<1>3. add' = [add EXCEPT ![a] = new]
  BY <1>1 DEF GoTo
<1>. HIDE DEF new
<1>4. /\ new.epoch <= epoch /\ new.account \in Account /\ new.podcast \in Podcast
      /\ new.epoch = epoch => new.account = scope
      /\ new.phase # "check" => new.press \in Press
  BY <1>2 DEF TypeInv, AddersTrue
<1>5. add' \in [Adder -> AddTask] /\ AddersTrue'
  BY <1>2, <1>3, <1>4, AdderStep
<1>. QED  BY <1>1, <1>2, <1>3, <1>5

LEMMA AddTypes ==
  ASSUME TypeInv, NEW a \in Adder, AddStep(a)
  PROVE  TypeInv'
<1>1. UNCHANGED <<epoch, scope, revision, cache, task>>
  BY DEF AddStep, BeginCheck, BeginAdd, SendAdd, AnswerAdd, Verify, ConfirmAdd, Release, AnswerCheck, libraryVars
<1>2. add[a] \in AddTask /\ (add[a].phase # "idle" => add[a].podcast \in Item /\ add[a].account \in Account)
  BY Members, Constants DEF TypeInv, AddersTrue
<1>3. /\ stages' \in [Kind -> Stage \cup {None}]
      /\ \A k \in Kind : stages'[k] \in {None, stages[k]}
      /\ receipts' \in [Scope -> SUBSET Item] /\ subEpoch' \in 0..MaxEpoch /\ confirmed' \subseteq Item
      /\ attempts' \subseteq Press /\ busy' \subseteq Item /\ pending' \subseteq Item
  <2>. DEFINE Goal ==
         /\ stages' \in [Kind -> Stage \cup {None}]
         /\ \A k \in Kind : stages'[k] \in {None, stages[k]}
         /\ receipts' \in [Scope -> SUBSET Item] /\ subEpoch' \in 0..MaxEpoch /\ confirmed' \subseteq Item
         /\ attempts' \subseteq Press /\ busy' \subseteq Item /\ pending' \subseteq Item
  <2>. HIDE DEF Goal
  <2>1. ASSUME UNCHANGED <<stages, receipts, subEpoch, confirmed, attempts, pending>>, busy' \subseteq busy
        PROVE  Goal
    BY <2>1 DEF TypeInv, TypeOK, Goal
  <2>2. ASSUME add[a].phase # "idle", ConfirmSubscription(add[a].podcast)
        PROVE  Goal
    BY <1>2, <2>2, ConfirmTypes DEF Goal
  <2>3. ASSUME NEW podcast \in Podcast, NEW press \in Press, BeginAdd(a, podcast, press)
        PROVE  Goal
    BY <2>3, Members, Constants DEF BeginAdd, OfEpoch, TypeInv, TypeOK, Goal
  <2>4. ASSUME (\E podcast \in Podcast : BeginCheck(a, podcast)) \/ SendAdd(a) \/ AnswerAdd(a) \/ Release(a)
        PROVE  Goal
    <3>1. UNCHANGED <<stages, receipts, subEpoch, confirmed, attempts, pending>> /\ busy' \subseteq busy
      BY <2>4 DEF BeginCheck, SendAdd, AnswerAdd, Release, libraryVars
    <3>. QED  BY <2>1, <3>1
  <2>5. ASSUME Verify(a) \/ ConfirmAdd(a) \/ AnswerCheck(a)
        PROVE  Goal
    <3>1. \/ UNCHANGED <<subEpoch, confirmed, pending, attempts, busy, stages, receipts>>
          \/ add[a].phase # "idle" /\ ConfirmSubscription(add[a].podcast)
      BY <2>5 DEF Verify, ConfirmAdd, AnswerCheck, Readback
    <3>2. CASE UNCHANGED <<subEpoch, confirmed, pending, attempts, busy, stages, receipts>>
      <4>1. UNCHANGED <<stages, receipts, subEpoch, confirmed, attempts, pending>> /\ busy' \subseteq busy
        BY <3>2
      <4>. QED  BY <2>1, <4>1
    <3>3. CASE add[a].phase # "idle" /\ ConfirmSubscription(add[a].podcast)
      <4>. QED  BY <2>2, <3>3
    <3>. QED  BY <3>1, <3>2, <3>3
  <2>6. Goal
    BY <2>3, <2>4, <2>5 DEF AddStep
  <2>. QED  BY <2>6 DEF Goal
<1>4. add' \in [Adder -> AddTask] /\ AddersTrue'
  <2>1. ASSUME NEW podcast \in Podcast, NEW press \in Press, BeginAdd(a, podcast, press)
        PROVE  add' \in [Adder -> AddTask] /\ AddersTrue'
    <3>. DEFINE new == [phase |-> "admitted", epoch |-> epoch, account |-> scope, podcast |-> podcast, press |-> press]
    <3>1. scope \in Account /\ scope \in Scope /\ epoch \in Nat /\ podcast \in Item
      BY <2>1, Members, Constants DEF BeginAdd
    <3>2. new \in AddTask
      BY <2>1, <3>1 DEF AddTask
    <3>3. /\ new.epoch <= epoch /\ new.account \in Account /\ new.podcast \in Podcast
          /\ new.epoch = epoch => new.account = scope
          /\ new.phase # "check" => new.press \in Press
      BY <3>1
    <3>4. add' = [add EXCEPT ![a] = new]
      BY <2>1 DEF BeginAdd
    <3>. HIDE DEF new
    <3>. QED  BY <1>1, <3>2, <3>3, <3>4, AdderStep
  <2>2. ASSUME NEW podcast \in Podcast, BeginCheck(a, podcast)
        PROVE  add' \in [Adder -> AddTask] /\ AddersTrue'
    <3>. DEFINE new == [phase |-> "check", epoch |-> epoch, account |-> scope, podcast |-> podcast, press |-> None]
    <3>1. scope \in Account /\ scope \in Scope /\ epoch \in Nat /\ podcast \in Item
      BY <2>2, Members, Constants DEF BeginCheck
    <3>2. new \in AddTask
      BY <2>2, <3>1 DEF AddTask
    <3>3. /\ new.epoch <= epoch /\ new.account \in Account /\ new.podcast \in Podcast
          /\ new.epoch = epoch => new.account = scope
          /\ new.phase = "check"
      BY <3>1
    <3>4. add' = [add EXCEPT ![a] = new]
      BY <2>2 DEF BeginCheck
    <3>. HIDE DEF new
    <3>. QED  BY <1>1, <3>2, <3>3, <3>4, AdderStep
  <2>3. CASE SendAdd(a) \/ AnswerAdd(a) \/ Verify(a) \/ ConfirmAdd(a)
    <3>1. /\ add[a].phase \notin {"idle", "check"}
          /\ \E phase \in {"wire", "verify", "confirm", "release"} : GoTo(a, phase)
      BY <2>3 DEF SendAdd, AnswerAdd, Verify, ConfirmAdd, Readback
    <3>. QED  BY <1>1, <3>1, PhaseStep
  <2>4. CASE Release(a) \/ AnswerCheck(a)
    <3>1. add' = [add EXCEPT ![a] = IdleAdd]
      BY <2>4 DEF Release, AnswerCheck, Readback
    <3>. QED  BY <1>1, <3>1, DoneStep
  <2>. QED  BY <2>1, <2>2, <2>3, <2>4 DEF AddStep
<1>5. on' \in [Account -> SUBSET Item]
  <2>1. on \in [Account -> SUBSET Item]
    BY DEF TypeInv, TypeOK
  <2>2. on' = on \/ (add[a].phase # "idle" /\ on' = [on EXCEPT ![add[a].account] = @ \cup {add[a].podcast}])
    BY DEF AddStep, BeginCheck, BeginAdd, SendAdd, AnswerAdd, Verify, ConfirmAdd, Release, AnswerCheck
  <2>. QED  BY <1>2, <2>1, <2>2
<1>6. sent' \in [Press -> Nat]
  <2>1. sent \in [Press -> Nat]
    BY DEF TypeInv, TypeOK
  <2>2. sent' = sent \/ sent' = [sent EXCEPT ![add[a].press] = @ + 1]
    BY DEF AddStep, BeginCheck, BeginAdd, SendAdd, AnswerAdd, Verify, ConfirmAdd, Release, AnswerCheck
  <2>. QED  BY <2>1, <2>2
<1>7. StagesPast' /\ NetTrue'
  BY <1>1, <1>3 DEF TypeInv, StagesPast, NetTrue
<1>. QED  BY <1>1, <1>3, <1>4, <1>5, <1>6, <1>7 DEF TypeInv, TypeOK

(* A new epoch leaves no call of it behind.                                *)
LEMMA EpochTypes ==
  ASSUME TypeInv, Leave \/ \E account \in Account : Join(account)
  PROVE  TypeInv'
<1>1. /\ epoch' = epoch + 1 /\ epoch < MaxEpoch /\ scope' \in Scope
      /\ stages' = NoStages /\ UNCHANGED <<revision, task, add, on>>
      /\ sent' = [r \in Press |-> 0]
      /\ \/ UNCHANGED <<subEpoch, confirmed, attempts, busy, pending>>
         \/ subEpoch' = 0 /\ confirmed' = {} /\ attempts' = {} /\ busy' = {} /\ pending' = {}
      /\ \/ UNCHANGED <<cache, receipts>>
         \/ /\ cache' = [cache EXCEPT ![scope] = NoStages]
            /\ receipts' = [receipts EXCEPT ![scope] = {}]
         \/ /\ cache' = [s \in Scope |-> NoStages]
            /\ receipts' = [s \in Scope |-> {}]
  BY Constants DEF Leave, Join, NewEpoch, Logout, Connect
<1>2. epoch' \in 1..MaxEpoch /\ epoch < epoch' /\ epoch \in Nat
  BY <1>1, Members, Constants
<1>3. stages' \in [Kind -> Stage \cup {None}] /\ StagesPast'
  BY <1>1 DEF NoStages, StagesPast
<1>4. cache' \in [Scope -> [Kind -> View \cup {None}]] /\ receipts' \in [Scope -> SUBSET Item]
  <2>1. NoStages \in [Kind -> View \cup {None}]
    BY DEF NoStages
  <2>2. cache \in [Scope -> [Kind -> View \cup {None}]] /\ receipts \in [Scope -> SUBSET Item]
    BY DEF TypeInv, TypeOK
  <2>. HIDE DEF NoStages
  <2>. QED  BY <1>1, <2>1, <2>2
<1>5. /\ subEpoch' \in 0..MaxEpoch /\ confirmed' \subseteq Item
      /\ attempts' \subseteq Press /\ busy' \subseteq Item /\ pending' \subseteq Item
      /\ sent' \in [Press -> Nat] /\ on' \in [Account -> SUBSET Item] /\ add' \in [Adder -> AddTask]
      /\ task' \in [Task -> LibraryTask] /\ revision' \in 0..MaxRevision
  BY <1>1, Constants DEF TypeInv, TypeOK
<1>6. NetTrue'
  <2>. SUFFICES ASSUME NEW t \in Task, task[t].phase = "net"
                PROVE  /\ task[t].kind \in Kind /\ task[t].account \in Scope /\ task[t].mode \in {"refresh", "more"}
                       /\ task[t].epoch <= epoch' /\ task[t].stage <= revision
                       /\ task[t].epoch # epoch'
    BY <1>1 DEF NetTrue
  <2>1. task[t].epoch \in Nat /\ task[t].epoch <= epoch
    BY Members DEF TypeInv, NetTrue, LibraryTask
  <2>2. task[t].epoch <= epoch' /\ task[t].epoch # epoch'
    BY <1>2, <2>1
  <2>. QED  BY <2>2 DEF TypeInv, NetTrue
<1>7. AddersTrue'
  <2>. SUFFICES ASSUME NEW a \in Adder, add[a].phase # "idle"
                PROVE  /\ add[a].epoch <= epoch' /\ add[a].account \in Account /\ add[a].podcast \in Podcast
                       /\ add[a].epoch # epoch'
                       /\ add[a].phase # "check" => add[a].press \in Press
    BY <1>1 DEF AddersTrue
  <2>1. add[a].epoch \in Nat /\ add[a].epoch <= epoch
    BY Members DEF TypeInv, AddersTrue, AddTask
  <2>2. add[a].epoch <= epoch' /\ add[a].epoch # epoch'
    BY <1>2, <2>1
  <2>. QED  BY <2>2 DEF TypeInv, AddersTrue
<1>. QED  BY <1>1, <1>2, <1>3, <1>4, <1>5, <1>6, <1>7 DEF TypeInv, TypeOK

LEMMA ClearTypes ==
  ASSUME TypeInv, ClearCache, UNCHANGED writeVars
  PROVE  TypeInv'
<1>1. /\ UNCHANGED <<epoch, scope, revision, receipts, subEpoch, confirmed, task>> /\ stages' = NoStages
      /\ cache' = cache \/ cache' = [cache EXCEPT ![scope] = NoStages]
  BY DEF ClearCache
<1>2. stages' \in [Kind -> Stage \cup {None}] /\ StagesPast'
  BY <1>1 DEF NoStages, StagesPast
<1>3. cache' \in [Scope -> [Kind -> View \cup {None}]]
  <2>1. NoStages \in [Kind -> View \cup {None}] /\ cache \in [Scope -> [Kind -> View \cup {None}]]
    BY DEF NoStages, TypeInv, TypeOK
  <2>. HIDE DEF NoStages
  <2>. QED  BY <1>1, <2>1
<1>4. NetTrue' /\ task' \in [Task -> LibraryTask]
  BY <1>1 DEF TypeInv, TypeOK, NetTrue
<1>. QED  BY <1>1, <1>2, <1>3, <1>4, WritesStay DEF TypeInv, TypeOK

LEMMA StepTypes == TypeInv /\ [Next]_vars => TypeInv'
<1>. SUFFICES ASSUME TypeInv, [Next]_vars PROVE TypeInv'
  OBVIOUS
<1>1. CASE UNCHANGED vars
  BY <1>1 DEF vars, libraryVars, writeVars, TypeInv, TypeOK, NetTrue, StagesPast, AddersTrue
<1>2. CASE Next
  BY <1>2, LibraryTypes, AddTypes, EpochTypes, ClearTypes DEF Next
<1>. QED  BY <1>1, <1>2

(* The variables of the lists and of the additions hold what the service's *)
(* and the store's values can be.                                          *)
THEOREM SubscribingTypes == Spec => []TypeOK
<1>1. TypeInv => TypeOK
  BY DEF TypeInv
<1>. QED  BY <1>1, InitTypes, StepTypes, PTL DEF Spec

----------------------------------------------------------------------------
(* The ledger of additions.                                                *)

Working(a) == add[a].phase \notin {"idle", "check"} /\ add[a].epoch = epoch

(* Who works in this epoch is in its ledger.                               *)
WorkersListed ==
  \A a \in Adder : Working(a) =>
    subEpoch = epoch /\ add[a].podcast \in busy /\ add[a].press \in attempts

(* Two that work have neither their podcast nor their click in common.     *)
WorkersApart ==
  \A a, b \in Adder :
    Working(a) /\ Working(b) /\ (add[a].podcast = add[b].podcast \/ add[a].press = add[b].press) => a = b

(* Only a click of this epoch's ledger was sent, and no admitted one was.  *)
ClicksSent ==
  /\ \A r \in Press : sent[r] <= 1 /\ (sent[r] # 0 => subEpoch = epoch /\ r \in attempts)
  /\ \A a \in Adder : Working(a) /\ add[a].phase = "admitted" => sent[add[a].press] = 0

BusyHeld ==
  \A p \in busy : subEpoch = epoch => \E a \in Adder : Working(a) /\ add[a].podcast = p

LedgerTrue == subEpoch <= epoch /\ WorkersListed /\ WorkersApart /\ ClicksSent /\ BusyHeld

LEMMA LedgerFrame ==
  ASSUME LedgerTrue, UNCHANGED <<epoch, subEpoch, attempts, busy, add, sent>>
  PROVE  LedgerTrue'
BY DEF LedgerTrue, WorkersListed, WorkersApart, ClicksSent, BusyHeld, Working

(* A receipt is only ever made in the epoch whose ledger there is.         *)
LEMMA LedgerKept ==
  ASSUME TypeInv, LedgerTrue, NEW a \in Adder, Verify(a) \/ ConfirmAdd(a) \/ AnswerCheck(a)
  PROVE  UNCHANGED <<subEpoch, attempts, busy>>
<1>1. \/ UNCHANGED <<subEpoch, attempts, busy>>
      \/ subEpoch = epoch /\ ConfirmSubscription(add[a].podcast)
  BY DEF Verify, ConfirmAdd, AnswerCheck, Readback, Repairs, LedgerTrue, WorkersListed, Working, AtEpoch
<1>. QED  BY <1>1 DEF ConfirmSubscription, OfEpoch

LEMMA LedgerPhase ==
  ASSUME TypeInv, LedgerTrue, UNCHANGED <<epoch, scope, subEpoch, attempts, busy>>,
         NEW a \in Adder, add[a].phase \notin {"idle", "check"},
         NEW phase \in {"wire", "verify", "confirm", "release"}, GoTo(a, phase),
         \/ sent' = sent
         \/ /\ add[a].phase = "admitted" /\ add[a].epoch = epoch
            /\ sent' = [sent EXCEPT ![add[a].press] = @ + 1]
  PROVE  LedgerTrue'
<1>1. /\ add'[a].phase = phase
      /\ add'[a].epoch = add[a].epoch /\ add'[a].podcast = add[a].podcast /\ add'[a].press = add[a].press
      /\ \A b \in Adder \ {a} : add'[b] = add[b]
  BY PhaseStep
<1>2. \A b \in Adder :
        /\ Working(b)' <=> Working(b)
        /\ add'[b].podcast = add[b].podcast /\ add'[b].press = add[b].press
        /\ add'[b].phase = "admitted" => b # a /\ add[b].phase = "admitted"
  BY <1>1 DEF Working
<1>3. subEpoch' <= epoch' /\ WorkersListed' /\ WorkersApart' /\ BusyHeld'
  BY <1>2 DEF LedgerTrue, WorkersListed, WorkersApart, BusyHeld
<1>4. ClicksSent'
  <2>1. CASE sent' = sent
    BY <1>2, <2>1 DEF LedgerTrue, ClicksSent
  <2>2. CASE /\ add[a].phase = "admitted" /\ add[a].epoch = epoch
             /\ sent' = [sent EXCEPT ![add[a].press] = @ + 1]
    <3>. DEFINE r == add[a].press
    <3>1. Working(a) /\ subEpoch = epoch /\ r \in attempts /\ sent[r] = 0
      BY <2>2 DEF LedgerTrue, WorkersListed, ClicksSent, Working
    <3>2. r \in Press /\ sent \in [Press -> Nat]
      BY <2>2 DEF TypeInv, TypeOK, AddersTrue
    <3>3. sent'[r] = 1 /\ \A s \in Press \ {r} : sent'[s] = sent[s]
      BY <2>2, <3>1, <3>2
    <3>4. \A s \in Press : sent'[s] <= 1 /\ (sent'[s] # 0 => subEpoch' = epoch' /\ s \in attempts')
      BY <3>1, <3>2, <3>3 DEF LedgerTrue, ClicksSent
    <3>5. ASSUME NEW b \in Adder, Working(b)', add'[b].phase = "admitted"
          PROVE  sent'[add'[b].press] = 0
      <4>1. b # a /\ Working(b) /\ add'[b].press = add[b].press /\ sent[add[b].press] = 0
        BY <1>2, <3>5 DEF LedgerTrue, ClicksSent
      <4>2. add[b].press # r
        BY <3>1, <4>1 DEF LedgerTrue, WorkersApart
      <4>3. add[b].press \in Press
        BY <4>1 DEF Working, TypeInv, AddersTrue
      <4>. QED  BY <3>3, <4>1, <4>2, <4>3
    <3>. QED  BY <3>4, <3>5 DEF ClicksSent
  <2>. QED  BY <2>1, <2>2
<1>. QED  BY <1>3, <1>4 DEF LedgerTrue

LEMMA LedgerBegin ==
  ASSUME TypeInv, LedgerTrue, NEW a \in Adder, NEW podcast \in Podcast, NEW press \in Press,
         BeginAdd(a, podcast, press)
  PROVE  LedgerTrue'
<1>. DEFINE new == [phase |-> "admitted", epoch |-> epoch, account |-> scope, podcast |-> podcast, press |-> press]
<1>1. /\ add[a].phase = "idle" /\ add' = [add EXCEPT ![a] = new]
      /\ press \notin OfEpoch(attempts) /\ podcast \notin OfEpoch(busy)
      /\ subEpoch' = epoch /\ attempts' = OfEpoch(attempts) \cup {press} /\ busy' = OfEpoch(busy) \cup {podcast}
      /\ UNCHANGED <<epoch, scope, sent>>
  BY DEF BeginAdd, Admits
<1>2. add \in [Adder -> AddTask] /\ epoch \in Nat
  BY Members DEF TypeInv, TypeOK
<1>3. /\ new.phase = "admitted" /\ new.epoch = epoch /\ new.podcast = podcast /\ new.press = press
  OBVIOUS
<1>. HIDE DEF new
<1>4. Working(a)' /\ add'[a].podcast = podcast /\ add'[a].press = press /\ ~Working(a)
  BY <1>1, <1>2, <1>3 DEF Working
<1>5. \A b \in Adder \ {a} : add'[b] = add[b] /\ (Working(b)' <=> Working(b))
  BY <1>1, <1>2 DEF Working
<1>6. \A b \in Adder : Working(b) =>
        subEpoch = epoch /\ add[b].podcast \in OfEpoch(busy) /\ add[b].press \in OfEpoch(attempts)
  BY DEF LedgerTrue, WorkersListed, OfEpoch
<1>7. WorkersListed'
  BY <1>1, <1>4, <1>5, <1>6 DEF WorkersListed
<1>8. WorkersApart'
  <2>1. \A b \in Adder \ {a} : Working(b)' => add'[b].podcast # podcast /\ add'[b].press # press
    BY <1>1, <1>5, <1>6
  <2>. QED  BY <1>4, <1>5, <2>1 DEF LedgerTrue, WorkersApart
<1>9. ClicksSent'
  <2>1. \A r \in Press : sent[r] <= 1 /\ (sent[r] # 0 => r \in OfEpoch(attempts))
    BY DEF LedgerTrue, ClicksSent, OfEpoch
  <2>2. sent[press] = 0
    BY <1>1, <2>1
  <2>. QED  BY <1>1, <1>4, <1>5, <2>1, <2>2 DEF LedgerTrue, ClicksSent
<1>10. BusyHeld'
  <2>1. ASSUME NEW p \in busy'
        PROVE  \E b \in Adder : Working(b)' /\ add'[b].podcast = p
    <3>1. CASE p = podcast
      BY <1>4, <3>1
    <3>2. CASE p # podcast
      <4>1. p \in busy /\ subEpoch = epoch
        BY <1>1, <2>1, <3>2 DEF OfEpoch
      <4>2. PICK b \in Adder : Working(b) /\ add[b].podcast = p
        BY <4>1 DEF LedgerTrue, BusyHeld
      <4>3. b # a
        BY <1>4, <4>2
      <4>. QED  BY <1>5, <4>2, <4>3
    <3>. QED  BY <3>1, <3>2
  <2>. QED  BY <2>1 DEF BusyHeld
<1>11. subEpoch' <= epoch'
  BY <1>1, <1>2
<1>. QED  BY <1>7, <1>8, <1>9, <1>10, <1>11 DEF LedgerTrue

(* Checks are not of the ledger.                                           *)
LEMMA LedgerCheck ==
  ASSUME TypeInv, LedgerTrue, NEW a \in Adder, add[a].phase \in {"idle", "check"},
         UNCHANGED <<epoch, subEpoch, attempts, busy, sent>>,
         NEW new \in AddTask, new.phase \in {"idle", "check"}, add' = [add EXCEPT ![a] = new]
  PROVE  LedgerTrue'
<1>1. add \in [Adder -> AddTask]
  BY DEF TypeInv, TypeOK
<1>2. ~Working(a) /\ ~Working(a)' /\ \A b \in Adder \ {a} : add'[b] = add[b] /\ (Working(b)' <=> Working(b))
  BY <1>1 DEF Working
<1>3. WorkersListed' /\ WorkersApart' /\ subEpoch' <= epoch'
  BY <1>2 DEF LedgerTrue, WorkersListed, WorkersApart
<1>4. ClicksSent'
  BY <1>2 DEF LedgerTrue, ClicksSent
<1>5. BusyHeld'
  BY <1>2 DEF LedgerTrue, BusyHeld
<1>. QED  BY <1>3, <1>4, <1>5 DEF LedgerTrue

LEMMA LedgerRelease ==
  ASSUME TypeInv, LedgerTrue, NEW a \in Adder, Release(a)
  PROVE  LedgerTrue'
<1>1. /\ add[a].phase = "release" /\ add' = [add EXCEPT ![a] = IdleAdd]
      /\ busy' = IF subEpoch = add[a].epoch THEN busy \ {add[a].podcast} ELSE busy
      /\ UNCHANGED <<epoch, subEpoch, attempts, sent>>
  BY DEF Release, libraryVars
<1>2. add \in [Adder -> AddTask] /\ epoch \in Nat
  BY Members DEF TypeInv, TypeOK
<1>3. ~Working(a)' /\ \A b \in Adder \ {a} : add'[b] = add[b] /\ (Working(b)' <=> Working(b))
  BY <1>1, <1>2, IdleAddShape DEF Working
<1>4. WorkersListed'
  <2>. SUFFICES ASSUME NEW b \in Adder, Working(b)'
                PROVE  subEpoch' = epoch' /\ add'[b].podcast \in busy' /\ add'[b].press \in attempts'
    BY DEF WorkersListed
  <2>1. b # a /\ Working(b) /\ add'[b] = add[b]
    BY <1>3
  <2>2. subEpoch = epoch /\ add[b].podcast \in busy /\ add[b].press \in attempts
    BY <2>1 DEF LedgerTrue, WorkersListed
  <2>3. subEpoch = add[a].epoch => add[a].podcast # add[b].podcast
    BY <1>1, <2>1, <2>2 DEF LedgerTrue, WorkersApart, Working
  <2>. QED  BY <1>1, <2>1, <2>2, <2>3
<1>5. WorkersApart' /\ subEpoch' <= epoch'
  BY <1>1, <1>3 DEF LedgerTrue, WorkersApart
<1>6. ClicksSent'
  BY <1>1, <1>3 DEF LedgerTrue, ClicksSent
<1>7. BusyHeld'
  <2>. SUFFICES ASSUME NEW p \in busy', subEpoch' = epoch'
                PROVE  \E b \in Adder : Working(b)' /\ add'[b].podcast = p
    BY DEF BusyHeld
  <2>1. p \in busy /\ subEpoch = epoch
    BY <1>1
  <2>2. PICK b \in Adder : Working(b) /\ add[b].podcast = p
    BY <2>1 DEF LedgerTrue, BusyHeld
  <2>3. b # a
    BY <1>1, <2>1, <2>2 DEF Working
  <2>. QED  BY <1>3, <2>2, <2>3
<1>. QED  BY <1>4, <1>5, <1>6, <1>7 DEF LedgerTrue

LEMMA LedgerEpoch ==
  ASSUME TypeInv, LedgerTrue, Leave \/ \E account \in Account : Join(account)
  PROVE  LedgerTrue' /\ subEpoch' < epoch'
<1>1. /\ epoch' = epoch + 1 /\ add' = add /\ subEpoch' \in {0, subEpoch} /\ sent' = [r \in Press |-> 0]
  BY DEF Leave, Join, NewEpoch, Logout, Connect
<1>2. epoch \in Nat /\ subEpoch \in Nat
  BY Members
<1>3. \A a \in Adder : ~Working(a)'
  <2>. SUFFICES ASSUME NEW a \in Adder, add[a].phase # "idle" PROVE add[a].epoch # epoch'
    BY <1>1 DEF Working
  <2>1. add[a].epoch \in Nat /\ add[a].epoch <= epoch
    BY Members DEF TypeInv, AddersTrue, AddTask
  <2>. QED  BY <1>1, <1>2, <2>1
<1>4. subEpoch' < epoch'
  BY <1>1, <1>2 DEF LedgerTrue
<1>5. subEpoch' <= epoch' /\ subEpoch' # epoch'
  BY <1>1, <1>2, <1>4
<1>6. ClicksSent'
  BY <1>1, <1>3 DEF ClicksSent
<1>. QED  BY <1>3, <1>4, <1>5, <1>6 DEF LedgerTrue, WorkersListed, WorkersApart, BusyHeld

LEMMA InitLedger == Init => LedgerTrue
<1>. SUFFICES ASSUME Init PROVE LedgerTrue
  OBVIOUS
<1>1. \A a \in Adder : ~Working(a)
  BY IdleAddShape DEF Init, Working
<1>2. epoch = 1 /\ subEpoch = 0 /\ busy = {} /\ \A r \in Press : sent[r] = 0
  BY DEF Init, LibraryInit
<1>. QED  BY <1>1, <1>2 DEF LedgerTrue, WorkersListed, WorkersApart, ClicksSent, BusyHeld

(* The lists neither begin nor end an addition.                            *)
LEMMA ListsKeepLedger ==
  ASSUME NEW t \in Task, LibraryStep(t)
  PROVE  /\ UNCHANGED <<epoch, scope, subEpoch>>
         /\ (receipts' = receipts /\ confirmed' = confirmed) \/ TakePage(t)
BY DEF LibraryStep, Refresh, RefreshUpdates, More, Peek, Cancel, Stale, FailPage, TakePage, TakeUpdates,
       FailUpdates, OverlaySubscriptions, Return

LEMMA AddLedger ==
  ASSUME TypeInv, LedgerTrue, NEW a \in Adder, AddStep(a)
  PROVE  LedgerTrue'
<1>1. CASE \E podcast \in Podcast, press \in Press : BeginAdd(a, podcast, press)
  BY <1>1, LedgerBegin
<1>2. CASE \E podcast \in Podcast : BeginCheck(a, podcast)
  <2>1. PICK podcast \in Podcast : BeginCheck(a, podcast)
    BY <1>2
  <2>. DEFINE new == [phase |-> "check", epoch |-> epoch, account |-> scope, podcast |-> podcast, press |-> None]
  <2>2. scope \in Scope /\ epoch \in Nat /\ podcast \in Item
    BY Members, Constants
  <2>3. new \in AddTask /\ new.phase = "check"
    BY <2>2 DEF AddTask
  <2>4. add[a].phase = "idle" /\ add' = [add EXCEPT ![a] = new] /\ UNCHANGED <<epoch, subEpoch, attempts, busy, sent>>
    BY <2>1 DEF BeginCheck, libraryVars
  <2>. HIDE DEF new
  <2>. QED  BY <2>3, <2>4, LedgerCheck
<1>3. CASE AnswerCheck(a)
  <2>1. add[a].phase = "check" /\ add' = [add EXCEPT ![a] = IdleAdd] /\ UNCHANGED <<epoch, sent>>
    BY <1>3 DEF AnswerCheck, Readback
  <2>2. UNCHANGED <<subEpoch, attempts, busy>>
    BY <1>3, LedgerKept
  <2>. QED  BY <2>1, <2>2, IdleAddShape, LedgerCheck
<1>4. CASE Verify(a) \/ ConfirmAdd(a)
  <2>1. /\ add[a].phase \notin {"idle", "check"} /\ UNCHANGED <<epoch, scope, sent>>
        /\ \E phase \in {"wire", "verify", "confirm", "release"} : GoTo(a, phase)
    BY <1>4 DEF Verify, ConfirmAdd, Readback
  <2>2. UNCHANGED <<subEpoch, attempts, busy>>
    BY <1>4, LedgerKept
  <2>. QED  BY <2>1, <2>2, LedgerPhase
<1>5. CASE SendAdd(a) \/ AnswerAdd(a)
  <2>1. /\ add[a].phase \notin {"idle", "check"} /\ UNCHANGED <<epoch, scope, subEpoch, attempts, busy>>
        /\ \E phase \in {"wire", "verify", "confirm", "release"} : GoTo(a, phase)
        /\ \/ sent' = sent
           \/ /\ add[a].phase = "admitted" /\ add[a].epoch = epoch
              /\ sent' = [sent EXCEPT ![add[a].press] = @ + 1]
    BY <1>5 DEF SendAdd, AnswerAdd, libraryVars, AtEpoch
  <2>. QED  BY <2>1, LedgerPhase
<1>6. CASE Release(a)
  BY <1>6, LedgerRelease
<1>. QED  BY <1>1, <1>2, <1>3, <1>4, <1>5, <1>6 DEF AddStep

LEMMA StepLedger == TypeInv /\ LedgerTrue /\ [Next]_vars => LedgerTrue'
<1>. SUFFICES ASSUME TypeInv, LedgerTrue, [Next]_vars PROVE LedgerTrue'
  OBVIOUS
<1>1. CASE UNCHANGED vars
  BY <1>1, LedgerFrame DEF vars, libraryVars, writeVars
<1>2. CASE (\E t \in Task : LibraryStep(t) /\ UNCHANGED writeVars) \/ (ClearCache /\ UNCHANGED writeVars)
  <2>1. UNCHANGED <<epoch, subEpoch>> /\ UNCHANGED writeVars
    BY <1>2, ListsKeepLedger DEF ClearCache
  <2>. QED  BY <2>1, LedgerFrame DEF writeVars
<1>3. CASE \E a \in Adder : AddStep(a)
  BY <1>3, AddLedger
<1>4. CASE Leave \/ \E account \in Account : Join(account)
  BY <1>4, LedgerEpoch
<1>. QED  BY <1>1, <1>2, <1>3, <1>4 DEF Next

(* One click is sent at most once, no two calls of an epoch write the same *)
(* podcast, and a podcast is busy exactly while a call of the epoch works  *)
(* on it, however the addition ends.                                       *)
THEOREM SubscribingOneAdditionPerClick == Spec => []OneAdditionPerClick
<1>1. ASSUME TypeInv, LedgerTrue PROVE OneAdditionPerClick
  <2>1. SubscribedOnce
    BY <1>1 DEF LedgerTrue, ClicksSent, WorkersApart, Working, Writing, SubscribedOnce
  <2>2. ASSUME NEW p \in OfEpoch(busy)
        PROVE  \E a \in {b \in Adder : add[b].epoch = epoch /\ add[b].phase \notin {"idle", "check"}} : add[a].podcast = p
    BY <1>1, <2>2 DEF LedgerTrue, BusyHeld, OfEpoch, Working
  <2>3. ASSUME NEW a \in {b \in Adder : add[b].epoch = epoch /\ add[b].phase \notin {"idle", "check"}}
        PROVE  add[a].podcast \in OfEpoch(busy)
    BY <1>1, <2>3 DEF LedgerTrue, WorkersListed, OfEpoch, Working
  <2>4. BusyIsAtWork
    BY <2>2, <2>3 DEF BusyIsAtWork
  <2>. QED  BY <2>1, <2>4 DEF OneAdditionPerClick
<1>2. TypeInv /\ LedgerTrue => OneAdditionPerClick
  BY <1>1
<1>. QED  BY <1>2, InitTypes, StepTypes, InitLedger, StepLedger, PTL DEF Spec

----------------------------------------------------------------------------
(* Receipts.                                                               *)

(* An addition the platform has confirmed is one it has.                   *)
ConfirmedOn ==
  \A a \in Adder : add[a].phase = "confirm" => add[a].podcast \in on[add[a].account]

ReceiptsInv == ConfirmedOn /\ ReceiptsAreTrue

LEMMA InitReceipts == Init => ReceiptsInv
<1>. SUFFICES ASSUME Init PROVE ReceiptsInv
  OBVIOUS
<1>1. ConfirmedOn
  BY IdleAddShape DEF Init, ConfirmedOn
<1>2. ReceiptsAreTrue
  BY Constants DEF Init, LibraryInit, ReceiptsAreTrue, OfEpoch
<1>. QED  BY <1>1, <1>2 DEF ReceiptsInv

(* The account's podcasts at the platform only grow, and no receipt comes. *)
LEMMA ReceiptsFrame ==
  ASSUME ReceiptsAreTrue, scope \in Scope, UNCHANGED <<epoch, scope>>,
         subEpoch' = epoch => (subEpoch = epoch \/ confirmed' = {}),
         \A s \in Scope : receipts'[s] \subseteq receipts[s],
         subEpoch' = epoch /\ subEpoch = epoch => confirmed' \subseteq confirmed,
         \A account \in Account : on[account] \subseteq on'[account]
  PROVE  ReceiptsAreTrue'
<1>1. \A account \in Account : receipts'[account] \subseteq on'[account]
  BY Constants DEF ReceiptsAreTrue
<1>2. receipts'[Guest] = {}
  BY Constants DEF ReceiptsAreTrue
<1>3. ASSUME scope # Guest
      PROVE  OfEpoch(confirmed)' \subseteq on'[scope']
  <2>1. OfEpoch(confirmed)' \subseteq OfEpoch(confirmed)
    BY DEF OfEpoch
  <2>2. OfEpoch(confirmed) \subseteq on[scope]
    BY <1>3 DEF ReceiptsAreTrue
  <2>3. on[scope] \subseteq on'[scope']
    BY <1>3, Constants
  <2>. QED  BY <2>1, <2>2, <2>3
<1>. QED  BY <1>1, <1>2, <1>3 DEF ReceiptsAreTrue

LEMMA ReceiptsList ==
  ASSUME TypeInv, ReceiptsInv, NEW t \in Task, LibraryStep(t), UNCHANGED writeVars
  PROVE  ReceiptsInv'
<1>1. ConfirmedOn'
  BY DEF ReceiptsInv, ConfirmedOn, writeVars
<1>2. UNCHANGED <<epoch, scope, subEpoch, on>>
  BY ListsKeepLedger DEF writeVars
<1>3. confirmed' \subseteq confirmed /\ \A s \in Scope : receipts'[s] \subseteq receipts[s]
  <2>1. CASE receipts' = receipts /\ confirmed' = confirmed
    BY <2>1
  <2>2. CASE TakePage(t)
    <3>1. receipts \in [Scope -> SUBSET Item]
      BY DEF TypeInv, TypeOK
    <3>2. \/ UNCHANGED <<receipts, confirmed>>
          \/ \E retired : /\ receipts' = [receipts EXCEPT ![scope] = @ \ retired]
                          /\ confirmed' = IF subEpoch = epoch THEN confirmed \ retired ELSE confirmed
      BY <2>2, TakeOutcome
    <3>. QED  BY <3>1, <3>2
  <2>. QED  BY <2>1, <2>2, ListsKeepLedger
<1>4. ReceiptsAreTrue'
  BY <1>2, <1>3, Members, ReceiptsFrame DEF ReceiptsInv
<1>. QED  BY <1>1, <1>4 DEF ReceiptsInv

(* A receipt is made for the account that is connected, of what it has.    *)
LEMMA ReceiptsConfirm ==
  ASSUME TypeInv, ReceiptsAreTrue, UNCHANGED <<epoch, scope, on>>, scope # Guest,
         NEW podcast \in on[scope], ConfirmSubscription(podcast)
  PROVE  ReceiptsAreTrue'
<1>1. scope \in Account /\ receipts \in [Scope -> SUBSET Item]
  BY Members, Constants DEF TypeInv, TypeOK
<1>2. \A s \in Scope \ {scope} : receipts'[s] = receipts[s]
  BY <1>1 DEF ConfirmSubscription
<1>3. receipts'[scope] \subseteq receipts[scope] \cup {podcast}
  BY <1>1, Constants DEF ConfirmSubscription
<1>4. confirmed' = OfEpoch(confirmed) \cup {podcast}
  BY DEF ConfirmSubscription
<1>5. \A account \in Account : receipts'[account] \subseteq on'[account]
  BY <1>1, <1>2, <1>3, Constants DEF ReceiptsAreTrue
<1>6. receipts'[Guest] = {}
  BY <1>1, <1>2, Constants DEF ReceiptsAreTrue
<1>7. OfEpoch(confirmed)' \subseteq on'[scope']
  BY <1>1, <1>4 DEF ReceiptsAreTrue, OfEpoch
<1>. QED  BY <1>5, <1>6, <1>7 DEF ReceiptsAreTrue

LEMMA OnGrows ==
  ASSUME TypeInv, NEW a \in Adder, AddStep(a)
  PROVE  /\ UNCHANGED <<epoch, scope>>
         /\ \A account \in Account : on[account] \subseteq on'[account]
<1>1. UNCHANGED <<epoch, scope>>
  BY DEF AddStep, BeginCheck, BeginAdd, SendAdd, AnswerAdd, Verify, ConfirmAdd, Release, AnswerCheck, libraryVars
<1>2. on' = on \/ on' = [on EXCEPT ![add[a].account] = @ \cup {add[a].podcast}]
  BY DEF AddStep, BeginCheck, BeginAdd, SendAdd, AnswerAdd, Verify, ConfirmAdd, Release, AnswerCheck
<1>3. on \in [Account -> SUBSET Item]
  BY DEF TypeInv, TypeOK
<1>. QED  BY <1>1, <1>2, <1>3

LEMMA ConfirmedStays ==
  ASSUME TypeInv, ReceiptsInv, NEW a \in Adder, AddStep(a)
  PROVE  ConfirmedOn'
<1>1. add \in [Adder -> AddTask] /\ on \in [Account -> SUBSET Item]
  BY DEF TypeInv, TypeOK
<1>2. \A b \in Adder \ {a} : add'[b] = add[b]
  BY <1>1 DEF AddStep, BeginCheck, BeginAdd, SendAdd, AnswerAdd, Verify, ConfirmAdd, Release, AnswerCheck, GoTo,
              Readback
<1>0. \A phase : GoTo(a, phase) => add'[a].phase = phase
  BY <1>1 DEF GoTo, AddTask
<1>3. ASSUME add'[a].phase = "confirm"
      PROVE  add'[a].podcast \in on'[add'[a].account]
  <2>1. ASSUME GoTo(a, "confirm"), AnswerAdd(a) \/ Verify(a)
        PROVE  add'[a].podcast \in on'[add'[a].account]
    <3>1. add[a].phase # "idle" /\ add[a].account \in Account
      BY <2>1 DEF AnswerAdd, Verify, TypeInv, AddersTrue
    <3>2. add'[a].podcast = add[a].podcast /\ add'[a].account = add[a].account
      BY <1>1, <2>1 DEF GoTo, AddTask
    <3>3. CASE Verify(a)
      <4>1. add[a].phase = "verify" /\ on' = on
        BY <3>3 DEF Verify
      <4>2. \/ add[a].podcast \in on[add[a].account]
            \/ GoTo(a, "release")
        BY <3>3 DEF Verify, Readback
      <4>3. ~GoTo(a, "release")
        BY <1>0, <1>3
      <4>. QED  BY <3>2, <4>1, <4>2, <4>3
    <3>4. CASE AnswerAdd(a)
      <4>1. \/ add[a].podcast \in on'[add[a].account]
            \/ GoTo(a, "release") \/ GoTo(a, "verify")
        BY <3>4 DEF AnswerAdd
      <4>2. ~GoTo(a, "release") /\ ~GoTo(a, "verify")
        BY <1>0, <1>3
      <4>. QED  BY <3>2, <4>1, <4>2
    <3>. QED  BY <2>1, <3>3, <3>4
  <2>2. (AnswerAdd(a) \/ Verify(a)) /\ GoTo(a, "confirm")
    <3>1. CASE \E podcast \in Podcast :
                 BeginCheck(a, podcast) \/ \E press \in Press : BeginAdd(a, podcast, press)
      BY <1>1, <1>3, <3>1 DEF BeginCheck, BeginAdd
    <3>2. CASE SendAdd(a) \/ ConfirmAdd(a) \/ Release(a) \/ AnswerCheck(a)
      <4>1. GoTo(a, "wire") \/ GoTo(a, "release") \/ add' = [add EXCEPT ![a] = IdleAdd]
        BY <3>2 DEF SendAdd, ConfirmAdd, Release, AnswerCheck, Readback
      <4>2. add' # [add EXCEPT ![a] = IdleAdd]
        BY <1>1, <1>3, IdleAddShape
      <4>. QED  BY <1>0, <1>3, <4>1, <4>2
    <3>3. CASE AnswerAdd(a) \/ Verify(a)
      <4>1. \E phase \in {"confirm", "verify", "release"} : GoTo(a, phase)
        BY <3>3 DEF AnswerAdd, Verify, Readback
      <4>. QED  BY <1>0, <1>3, <3>3, <4>1
    <3>. QED  BY <3>1, <3>2, <3>3 DEF AddStep
  <2>. QED  BY <2>1, <2>2
<1>4. ASSUME NEW b \in Adder, b # a, add'[b].phase = "confirm"
      PROVE  add'[b].podcast \in on'[add'[b].account]
  <2>1. add'[b] = add[b] /\ add[b].podcast \in on[add[b].account] /\ add[b].account \in Account
    BY <1>2, <1>4 DEF ReceiptsInv, ConfirmedOn, TypeInv, AddersTrue
  <2>. QED  BY <2>1, OnGrows
<1>. QED  BY <1>3, <1>4 DEF ConfirmedOn

LEMMA ReceiptsAdd ==
  ASSUME TypeInv, ReceiptsInv, NEW a \in Adder, AddStep(a)
  PROVE  ReceiptsAreTrue'
<1>1. scope \in Scope /\ UNCHANGED <<epoch, scope>> /\ \A account \in Account : on[account] \subseteq on'[account]
  BY Members, OnGrows
<1>2. ASSUME UNCHANGED <<receipts, subEpoch, confirmed>>
      PROVE  ReceiptsAreTrue'
  <2>1. /\ subEpoch' = epoch => (subEpoch = epoch \/ confirmed' = {})
        /\ \A s \in Scope : receipts'[s] \subseteq receipts[s]
        /\ subEpoch' = epoch /\ subEpoch = epoch => confirmed' \subseteq confirmed
    BY <1>2
  <2>. QED  BY <1>1, <2>1, ReceiptsFrame DEF ReceiptsInv
<1>3. ASSUME NEW podcast \in Podcast, NEW press \in Press, BeginAdd(a, podcast, press)
      PROVE  ReceiptsAreTrue'
  <2>1. /\ subEpoch' = epoch => (subEpoch = epoch \/ confirmed' = {})
        /\ \A s \in Scope : receipts'[s] \subseteq receipts[s]
        /\ subEpoch' = epoch /\ subEpoch = epoch => confirmed' \subseteq confirmed
    BY <1>3 DEF BeginAdd, OfEpoch
  <2>. QED  BY <1>1, <2>1, ReceiptsFrame DEF ReceiptsInv
<1>4. ASSUME Verify(a) \/ ConfirmAdd(a) \/ AnswerCheck(a)
      PROVE  ReceiptsAreTrue'
  <2>1. \/ UNCHANGED <<receipts, subEpoch, confirmed>>
        \/ /\ add[a].epoch = epoch /\ ConfirmSubscription(add[a].podcast)
           /\ add[a].podcast \in on[add[a].account]
    BY <1>4 DEF Verify, ConfirmAdd, AnswerCheck, Readback, AtEpoch, ReceiptsInv, ConfirmedOn
  <2>2. on' = on /\ add[a].phase # "idle"
    BY <1>4 DEF Verify, ConfirmAdd, AnswerCheck
  <2>3. add[a].epoch = epoch => add[a].account = scope /\ scope # Guest
    BY <2>2, Constants DEF TypeInv, AddersTrue
  <2>. QED  BY <1>1, <1>2, <2>1, <2>2, <2>3, ReceiptsConfirm DEF ReceiptsInv
<1>5. ASSUME (\E podcast \in Podcast : BeginCheck(a, podcast)) \/ SendAdd(a) \/ AnswerAdd(a) \/ Release(a)
      PROVE  ReceiptsAreTrue'
  <2>1. UNCHANGED <<receipts, subEpoch, confirmed>>
    BY <1>5 DEF BeginCheck, SendAdd, AnswerAdd, Release, libraryVars
  <2>. QED  BY <1>2, <2>1
<1>. QED  BY <1>3, <1>4, <1>5 DEF AddStep

LEMMA ReceiptsEpoch ==
  ASSUME TypeInv, LedgerTrue, ReceiptsInv, Leave \/ \E account \in Account : Join(account)
  PROVE  ReceiptsInv'
<1>1. /\ UNCHANGED <<add, on>>
      /\ receipts' \in {receipts, [receipts EXCEPT ![scope] = {}], [s \in Scope |-> {}]}
  BY DEF Leave, Join, NewEpoch, Logout, Connect
<1>2. ConfirmedOn'
  BY <1>1 DEF ReceiptsInv, ConfirmedOn
<1>3. \A s \in Scope : receipts'[s] \subseteq receipts[s]
  BY <1>1 DEF TypeInv, TypeOK
<1>4. OfEpoch(confirmed)' = {}
  <2>1. subEpoch' < epoch' /\ subEpoch' \in Nat
    BY LedgerEpoch, EpochTypes, Constants DEF TypeInv, TypeOK
  <2>2. subEpoch' # epoch'
    BY <2>1
  <2>. QED  BY <2>2 DEF OfEpoch
<1>5. ReceiptsAreTrue'
  BY <1>1, <1>3, <1>4, Constants DEF ReceiptsInv, ReceiptsAreTrue
<1>. QED  BY <1>2, <1>5 DEF ReceiptsInv

LEMMA StepReceipts == TypeInv /\ LedgerTrue /\ ReceiptsInv /\ [Next]_vars => ReceiptsInv'
<1>. SUFFICES ASSUME TypeInv, LedgerTrue, ReceiptsInv, [Next]_vars PROVE ReceiptsInv'
  OBVIOUS
<1>1. CASE UNCHANGED vars
  BY <1>1 DEF vars, libraryVars, writeVars, ReceiptsInv, ConfirmedOn, ReceiptsAreTrue, OfEpoch
<1>2. CASE \E t \in Task : LibraryStep(t) /\ UNCHANGED writeVars
  BY <1>2, ReceiptsList
<1>3. CASE ClearCache /\ UNCHANGED writeVars
  BY <1>3 DEF ClearCache, writeVars, ReceiptsInv, ConfirmedOn, ReceiptsAreTrue, OfEpoch
<1>4. CASE \E a \in Adder : AddStep(a)
  BY <1>4, ConfirmedStays, ReceiptsAdd DEF ReceiptsInv
<1>5. CASE Leave \/ \E account \in Account : Join(account)
  BY <1>5, ReceiptsEpoch
<1>. QED  BY <1>1, <1>2, <1>3, <1>4, <1>5 DEF Next

(* Every receipt, stored or in memory, is of a podcast the platform has    *)
(* for that account, whatever answers are lost or late and whatever the    *)
(* account becomes in between.                                             *)
THEOREM SubscribingReceiptsAreTrue == Spec => []ReceiptsAreTrue
<1>1. ReceiptsInv => ReceiptsAreTrue
  BY DEF ReceiptsInv
<1>. QED
  BY <1>1, InitTypes, StepTypes, InitLedger, StepLedger, InitReceipts, StepReceipts, PTL DEF Spec

----------------------------------------------------------------------------
(* Requests and the stages they may answer.                                *)

InFlight(t, k) == task[t].phase = "net" /\ task[t].kind = k /\ task[t].epoch = epoch

(* A stage that is loading has one request that can answer it; the others  *)
(* in flight are of another stage or of an earlier revision of this one.   *)
FlightsAt(k) ==
  /\ \A t \in Task : InFlight(t, k) /\ task[t].stage = stages[k].id => task[t].revision <= stages[k].revision
  /\ \A t, u \in Task : AnswersFor(t, k) /\ AnswersFor(u, k) => t = u
  /\ \A t \in Task : AnswersFor(t, k) => stages[k].loading
  /\ stages[k].loading => \E t \in Task : AnswersFor(t, k)

Blank(stage) ==
  /\ stage.seen = {}
  /\ stage.view.items = {} /\ stage.view.cursor = NoCursor /\ stage.view.pages = 0 /\ stage.view.whole

(* The request a stage waits for asks for the page after the last one, or  *)
(* for the first one of a list that is still empty.                        *)
AsksNext(t, k) ==
  /\ task[t].mode = "more" => task[t].cursor = stages[k].view.cursor /\ task[t].cursor # NoCursor
  /\ task[t].mode = "refresh" /\ k # "updates" => Blank(stages[k])

(* A list that can go on is one listing, and the updates always are.       *)
ViewAt(k) ==
  LET view == stages[k].view IN
  /\ view.cursor # NoCursor => view.whole /\ view.items # {}
  /\ k = "updates" => view.whole
  /\ view.status = "loading" => stages[k].loading /\ ~view.complete /\ k # "updates"

StageAt(k) == FlightsAt(k) /\ ViewAt(k) /\ \A t \in Task : AnswersFor(t, k) => AsksNext(t, k)

StagesTrue == \A k \in Kind : stages[k] # None => StageAt(k)

CacheTrue ==
  \A s \in Scope, k \in Kind :
    cache[s][k] # None => cache[s][k].whole /\ (k # "updates" => cache[s][k].complete)

ListsInv == StagesTrue /\ CacheTrue

LEMMA FlightFacts ==
  ASSUME NEW t \in Task, NEW k \in Kind
  PROVE  AnswersFor(t, k) <=>
           InFlight(t, k) /\ task[t].stage = stages[k].id /\ task[t].revision = stages[k].revision
BY DEF AnswersFor, InFlight, AtEpoch

(* A stage that no step touches, while a request of another one comes or   *)
(* goes.                                                                   *)
LEMMA StageFrame ==
  ASSUME epoch' = epoch, NEW k \in Kind, StageAt(k), stages'[k] = stages[k],
         NEW t \in Task, \A u \in Task \ {t} : task'[u] = task[u],
         ~AnswersFor(t, k), ~InFlight(t, k)'
  PROVE  StageAt(k)'
<1>1. \A u \in Task : InFlight(u, k)' => u # t /\ InFlight(u, k) /\ task'[u] = task[u]
  BY DEF InFlight
<1>2. \A u \in Task : AnswersFor(u, k)' <=> AnswersFor(u, k)
  BY DEF InFlight, AnswersFor, AtEpoch
<1>3. \A u \in Task : AnswersFor(u, k) => u # t /\ task'[u] = task[u]
  OBVIOUS
<1>4. FlightsAt(k)'
  BY <1>1, <1>2 DEF StageAt, FlightsAt
<1>5. ViewAt(k)'
  BY DEF StageAt, ViewAt
<1>6. \A u \in Task : AnswersFor(u, k)' => AsksNext(u, k)'
  BY <1>2, <1>3 DEF StageAt, AsksNext, Blank
<1>. QED  BY <1>4, <1>5, <1>6 DEF StageAt

(* A stage whose request has been answered, or was cancelled.              *)
LEMMA StageDone ==
  ASSUME TypeInv, epoch' = epoch, NEW k \in Kind, stages[k] # None, StageAt(k),
         NEW t \in Task, \A u \in Task \ {t} : task'[u] = task[u], ~InFlight(t, k)',
         stages'[k].id = stages[k].id, ~stages'[k].loading,
         \/ stages'[k].revision = stages[k].revision /\ AnswersFor(t, k)
         \/ stages'[k].revision = stages[k].revision + 1,
         ViewAt(k)'
  PROVE  StageAt(k)'
<1>1. \A u \in Task : InFlight(u, k)' => u # t /\ InFlight(u, k) /\ task'[u] = task[u]
  BY DEF InFlight
<1>2. stages[k] \in Stage /\ stages[k].revision \in Nat
  BY Members DEF Stage
<1>3. \A u \in Task : task[u].revision \in Nat
  BY Members DEF LibraryTask
<1>4. ASSUME NEW u \in Task, InFlight(u, k)', task'[u].stage = stages'[k].id
      PROVE  task'[u].revision <= stages'[k].revision /\ task'[u].revision # stages'[k].revision
  <2>1. u # t /\ InFlight(u, k) /\ task'[u] = task[u] /\ task[u].stage = stages[k].id
    BY <1>1, <1>4
  <2>2. task[u].revision <= stages[k].revision
    BY <2>1 DEF StageAt, FlightsAt
  <2>3. CASE stages'[k].revision = stages[k].revision /\ AnswersFor(t, k)
    <3>1. ~AnswersFor(u, k)
      BY <2>1, <2>3 DEF StageAt, FlightsAt
    <3>2. task[u].revision # stages[k].revision
      BY <2>1, <3>1, FlightFacts
    <3>. QED  BY <2>1, <2>2, <2>3, <3>2
  <2>4. CASE stages'[k].revision = stages[k].revision + 1
    BY <1>2, <1>3, <2>1, <2>2, <2>4
  <2>. QED  BY <2>3, <2>4
<1>5. \A u \in Task : ~AnswersFor(u, k)'
  BY <1>4 DEF AnswersFor, InFlight, AtEpoch
<1>. QED  BY <1>4, <1>5 DEF StageAt, FlightsAt

(* A stage that has just been asked for: of a new number, or idle before.  *)
LEMMA StageAsked ==
  ASSUME TypeInv, epoch' = epoch, NEW k \in Kind,
         NEW t \in Task, \A u \in Task \ {t} : task'[u] = task[u],
         InFlight(t, k)', task'[t].stage = stages'[k].id, task'[t].revision = stages'[k].revision,
         stages'[k].revision \in Nat, stages'[k].loading, AsksNext(t, k)', ViewAt(k)',
         \/ stages'[k].id = revision + 1
         \/ /\ stages[k] # None /\ StageAt(k) /\ ~stages[k].loading
            /\ stages'[k].id = stages[k].id /\ stages'[k].revision = stages[k].revision
  PROVE  StageAt(k)'
<1>1. \A u \in Task \ {t} : InFlight(u, k)' => InFlight(u, k)
  BY DEF InFlight
<1>2. AnswersFor(t, k)'
  BY DEF AnswersFor, InFlight, AtEpoch
<1>3. ASSUME NEW u \in Task \ {t}, InFlight(u, k)', task'[u].stage = stages'[k].id
      PROVE  task'[u].revision <= stages'[k].revision /\ task'[u].revision # stages'[k].revision
  <2>1. InFlight(u, k) /\ task'[u] = task[u] /\ task[u].stage \in Nat
    BY <1>1, <1>3, Members DEF LibraryTask
  <2>2. task[u].stage <= revision /\ revision \in Nat
    BY <2>1, Members DEF TypeInv, NetTrue, InFlight
  <2>3. task[u].stage # revision + 1
    BY <2>1, <2>2
  <2>4. /\ stages[k] # None /\ StageAt(k) /\ ~stages[k].loading
        /\ stages'[k].id = stages[k].id /\ stages'[k].revision = stages[k].revision
    BY <1>3, <2>1, <2>3
  <2>5. task[u].revision <= stages[k].revision /\ ~AnswersFor(u, k)
    BY <1>3, <2>1, <2>4 DEF StageAt, FlightsAt
  <2>. QED  BY <1>3, <2>1, <2>4, <2>5, FlightFacts
<1>4. task'[t].revision <= stages'[k].revision
  OBVIOUS
<1>5. \A u \in Task : AnswersFor(u, k)' <=> u = t
  BY <1>2, <1>3 DEF AnswersFor, InFlight, AtEpoch
<1>6. FlightsAt(k)'
  BY <1>3, <1>4, <1>5 DEF FlightsAt
<1>. QED  BY <1>5, <1>6 DEF StageAt

(* The step of a call at one list, as the other lists see it.              *)
LEMMA OtherLists ==
  ASSUME TypeInv, ListsInv, epoch' = epoch, NEW t \in Task, \A u \in Task \ {t} : task'[u] = task[u],
         NEW kind \in Kind, \A k \in Kind \ {kind} : stages'[k] = stages[k],
         \A k \in Kind \ {kind} : stages[k] # None => ~AnswersFor(t, k) /\ ~InFlight(t, k)',
         stages'[kind] # None => StageAt(kind)'
  PROVE  StagesTrue'
<1>. SUFFICES ASSUME NEW k \in Kind, stages'[k] # None PROVE StageAt(k)'
  BY DEF StagesTrue
<1>1. CASE k = kind
  BY <1>1
<1>2. CASE k # kind
  BY <1>2, StageFrame DEF ListsInv, StagesTrue
<1>. QED  BY <1>1, <1>2

(* The call that asks for a page.                                          *)
LEMMA AskedList ==
  ASSUME TypeInv, ListsInv, UNCHANGED <<epoch, scope>>, NEW t \in Task, task[t].phase = "idle",
         NEW kind \in Kind, NEW mode \in {"refresh", "more"}, NEW stage \in Stage,
         NEW cursor \in Cursor \cup {NoCursor},
         stages' = [stages EXCEPT ![kind] = Asked(stage)],
         task' = [task EXCEPT ![t] =
           [phase |-> "net", epoch |-> epoch, account |-> scope, kind |-> kind, mode |-> mode,
            stage |-> stage.id, revision |-> stage.revision, cursor |-> cursor, items |-> {}]],
         stage.id = revision + 1 \/ (stages[kind] = stage /\ stage # None /\ ~stage.loading),
         mode = "more" => cursor = stage.view.cursor /\ cursor # NoCursor,
         mode = "refresh" /\ kind # "updates" => Blank(stage),
         stage.view.cursor # NoCursor => stage.view.whole /\ stage.view.items # {},
         kind = "updates" => stage.view.whole,
         stage.view.status = "loading" => ~stage.view.complete /\ kind # "updates"
  PROVE  StagesTrue'
<1>. DEFINE new == [phase |-> "net", epoch |-> epoch, account |-> scope, kind |-> kind, mode |-> mode,
                    stage |-> stage.id, revision |-> stage.revision, cursor |-> cursor, items |-> {}]
            asked == Asked(stage)
<1>1. stages \in [Kind -> Stage \cup {None}] /\ task \in [Task -> LibraryTask]
  BY DEF TypeInv, TypeOK
<1>2. /\ new.phase = "net" /\ new.epoch = epoch /\ new.kind = kind /\ new.mode = mode
      /\ new.stage = stage.id /\ new.revision = stage.revision /\ new.cursor = cursor
  OBVIOUS
<1>3. /\ asked.loading /\ asked.id = stage.id /\ asked.revision = stage.revision
      /\ asked.view = stage.view /\ asked.seen = stage.seen /\ asked.revision \in Nat
  BY AskedShape DEF Same, Stage
<1>. HIDE DEF new, asked
<1>4. task'[t] = new /\ \A u \in Task \ {t} : task'[u] = task[u]
  BY <1>1 DEF new
<1>5. stages'[kind] = asked /\ \A k \in Kind \ {kind} : stages'[k] = stages[k]
  BY <1>1 DEF asked
<1>6. InFlight(t, kind)' /\ task'[t].stage = stages'[kind].id /\ task'[t].revision = stages'[kind].revision
  BY <1>2, <1>3, <1>4, <1>5 DEF InFlight
<1>7. AsksNext(t, kind)' /\ stages'[kind].revision \in Nat
  BY <1>2, <1>3, <1>4, <1>5 DEF AsksNext, Blank
<1>8. ViewAt(kind)' /\ stages'[kind].loading
  BY <1>3, <1>5 DEF ViewAt
<1>9. StageAt(kind)'
  <2>1. \/ stages'[kind].id = revision + 1
        \/ /\ stages[kind] # None /\ StageAt(kind) /\ ~stages[kind].loading
           /\ stages'[kind].id = stages[kind].id /\ stages'[kind].revision = stages[kind].revision
    BY <1>3, <1>5 DEF ListsInv, StagesTrue
  <2>. QED  BY <1>4, <1>6, <1>7, <1>8, <2>1, StageAsked
<1>10. \A k \in Kind \ {kind} : ~AnswersFor(t, k) /\ ~InFlight(t, k)'
  BY <1>2, <1>4 DEF AnswersFor, InFlight
<1>. QED  BY <1>4, <1>5, <1>9, <1>10, OtherLists

(* The call whose answer a stage takes, in whatever way.                   *)
LEMMA AnsweredList ==
  ASSUME TypeInv, ListsInv, UNCHANGED <<epoch, scope>>, NEW t \in Task, task[t].phase = "net", Current(t),
         task'[t].phase # "net", \A u \in Task \ {t} : task'[u] = task[u],
         NEW new, new.id = stages[task[t].kind].id, new.revision = stages[task[t].kind].revision, ~new.loading,
         stages' = [stages EXCEPT ![task[t].kind] = new],
         new.view.cursor # NoCursor => new.view.whole /\ new.view.items # {},
         task[t].kind = "updates" => new.view.whole,
         new.view.status # "loading"
  PROVE  StagesTrue'
<1>0. PICK kind \in Kind : kind = task[t].kind
  BY CurrentFacts
<1>1. stages \in [Kind -> Stage \cup {None}]
  BY DEF TypeInv, TypeOK
<1>2. kind \in Kind /\ stages[kind] # None /\ AnswersFor(t, kind)
  BY <1>0, CurrentFacts
<1>3. stages'[kind] = new /\ \A k \in Kind \ {kind} : stages'[k] = stages[k]
  BY <1>0, <1>1, <1>2
<1>4. ViewAt(kind)'
  BY <1>0, <1>3 DEF ViewAt
<1>5. \A k \in Kind : ~InFlight(t, k)'
  BY DEF InFlight
<1>6. StageAt(kind)
  BY <1>2 DEF ListsInv, StagesTrue
<1>7. stages'[kind].id = stages[kind].id /\ stages'[kind].revision = stages[kind].revision /\ ~stages'[kind].loading
  BY <1>0, <1>3
<1>8. StageAt(kind)'
  BY <1>2, <1>4, <1>5, <1>6, <1>7, StageDone
<1>9. \A k \in Kind \ {kind} : ~AnswersFor(t, k)
  BY <1>0 DEF AnswersFor
<1>. QED  BY <1>2, <1>3, <1>5, <1>8, <1>9, OtherLists

LEMMA AskingLists ==
  ASSUME TypeInv, ListsInv, NEW t \in Task,
         (\E kind \in Kind : Refresh(t, kind) \/ More(t, kind)) \/ RefreshUpdates(t)
  PROVE  StagesTrue'
<1>1. UNCHANGED <<epoch, scope>> /\ task[t].phase = "idle"
  BY DEF Refresh, More, RefreshUpdates
<1>2. ASSUME NEW kind \in Kind, Refresh(t, kind)
      PROVE  StagesTrue'
  <2>. DEFINE view == [EmptyView EXCEPT !.status = "loading"]
  <2>1. /\ view \in View /\ view.items = {} /\ view.cursor = NoCursor /\ view.pages = 0
        /\ view.whole = TRUE /\ view.complete = FALSE
    BY Views DEF EmptyView
  <2>2. kind # "updates" /\ revision' = revision + 1 /\ revision < MaxRevision
        /\ Request(t, kind, "refresh", NewStage(view, {}), NoCursor)
    BY <1>2 DEF Refresh
  <2>. DEFINE stage == NewStage(view, {})
  <2>. HIDE DEF view
  <2>3. stage \in Stage /\ stage.id = revision + 1 /\ stage.view = view /\ stage.seen = {}
    BY <2>1, <2>2, NewStageShape DEF TypeInv
  <2>4. Request(t, kind, "refresh", stage, NoCursor)
    BY <2>2
  <2>. HIDE DEF stage
  <2>5. revision' \in 0..MaxRevision /\ revision <= revision' /\ stage.id <= revision'
    BY <2>2, <2>3, Members, Constants
  <2>6. /\ stages' = [stages EXCEPT ![kind] = Asked(stage)]
        /\ task' = [task EXCEPT ![t] =
             [phase |-> "net", epoch |-> epoch, account |-> scope, kind |-> kind, mode |-> "refresh",
              stage |-> stage.id, revision |-> stage.revision, cursor |-> NoCursor, items |-> {}]]
    BY <1>1, <2>3, <2>4, <2>5, RequestStep
  <2>7. Blank(stage) /\ stage.view.cursor = NoCursor /\ ~stage.view.complete
    BY <2>1, <2>3 DEF Blank
  <2>. QED  BY <1>1, <2>2, <2>3, <2>6, <2>7, AskedList
<1>3. ASSUME RefreshUpdates(t)
      PROVE  StagesTrue'
  <2>1. "updates" \in Kind /\ revision' = revision + 1 /\ revision < MaxRevision
    BY <1>3 DEF RefreshUpdates
  <2>2. PICK view \in View, seen \in SUBSET Cursor :
          /\ Request(t, "updates", "refresh", NewStage(view, seen), NoCursor)
          /\ view.cursor # NoCursor => view.items # {}
          /\ view.whole /\ view.status # "loading"
    <3>1. /\ ReadCache("updates") \in View /\ ReadCache("updates").cursor = NoCursor
          /\ ReadCache("updates").status # "loading" /\ ReadCache("updates").whole
      <4>1. scope \in Scope
        BY Members
      <4>2. cache[scope]["updates"] # None => cache[scope]["updates"].whole
        BY <2>1, <4>1 DEF ListsInv, CacheTrue
      <4>3. EmptyView.whole
        BY DEF EmptyView
      <4>. QED  BY <2>1, <4>2, <4>3, CacheShape
    <3>2. stages["updates"] # None =>
            /\ stages["updates"].view \in View /\ stages["updates"].seen \in SUBSET Cursor
            /\ ViewAt("updates")
      BY <2>1, Members DEF Stage, ListsInv, StagesTrue, StageAt
    <3>3. CASE stages["updates"] = None
      BY <1>3, <3>1, <3>3 DEF RefreshUpdates
    <3>4. CASE stages["updates"] # None
      BY <1>3, <3>2, <3>4 DEF RefreshUpdates, ViewAt
    <3>. QED  BY <3>3, <3>4
  <2>. DEFINE stage == NewStage(view, seen)
  <2>3. stage \in Stage /\ stage.id = revision + 1 /\ stage.view = view
    BY <2>1, NewStageShape DEF TypeInv
  <2>4. Request(t, "updates", "refresh", stage, NoCursor)
    BY <2>2
  <2>. HIDE DEF stage
  <2>5. revision' \in 0..MaxRevision /\ revision <= revision' /\ stage.id <= revision'
    BY <2>1, <2>3, Members, Constants
  <2>6. /\ stages' = [stages EXCEPT !["updates"] = Asked(stage)]
        /\ task' = [task EXCEPT ![t] =
             [phase |-> "net", epoch |-> epoch, account |-> scope, kind |-> "updates", mode |-> "refresh",
              stage |-> stage.id, revision |-> stage.revision, cursor |-> NoCursor, items |-> {}]]
    BY <1>1, <2>1, <2>3, <2>4, <2>5, RequestStep
  <2>. QED  BY <1>1, <2>1, <2>2, <2>3, <2>6, AskedList
<1>4. ASSUME NEW kind \in Kind, More(t, kind)
      PROVE  StagesTrue'
  <2>. DEFINE stage == stages[kind]
  <2>1. /\ stage # None /\ ~stage.loading /\ stage.view.cursor # NoCursor
        /\ Request(t, kind, "more", stage, stage.view.cursor) /\ revision' = revision
    BY <1>4 DEF More, Loading
  <2>2. stage \in Stage /\ stage.view.cursor \in Cursor \cup {NoCursor}
    BY <2>1, Members DEF View
  <2>3. revision' \in 0..MaxRevision /\ revision <= revision' /\ stage.id <= revision'
    BY <2>1, Members DEF TypeInv, StagesPast
  <2>4. ViewAt(kind)
    BY <2>1 DEF ListsInv, StagesTrue, StageAt
  <2>5. /\ stage.view.whole /\ stage.view.items # {}
        /\ stage.view.status # "loading"
    BY <2>1, <2>4 DEF ViewAt
  <2>6. stage = stages[kind]
    OBVIOUS
  <2>. HIDE DEF stage
  <2>7. /\ stages' = [stages EXCEPT ![kind] = Asked(stage)]
        /\ task' = [task EXCEPT ![t] =
             [phase |-> "net", epoch |-> epoch, account |-> scope, kind |-> kind, mode |-> "more",
              stage |-> stage.id, revision |-> stage.revision, cursor |-> stage.view.cursor, items |-> {}]]
    BY <1>1, <2>1, <2>2, <2>3, RequestStep
  <2>. QED  BY <1>1, <2>1, <2>2, <2>5, <2>6, <2>7, AskedList
<1>. QED  BY <1>2, <1>3, <1>4

LEMMA CancelLists ==
  ASSUME TypeInv, ListsInv, NEW t \in Task, NEW kind \in Kind, Cancel(t, kind)
  PROVE  StagesTrue'
<1>1. /\ UNCHANGED <<epoch, scope, revision>> /\ stages[kind] # None /\ task[t].phase = "idle"
      /\ stages' = [stages EXCEPT ![kind] = Cancelled(kind, stages[kind])]
      /\ Direct(t, kind, stages[kind].view.items)
  BY DEF Cancel
<1>2. stages[kind] \in Stage /\ stages[kind].view \in View /\ stages[kind].view.items \in SUBSET Item
  BY <1>1, Members DEF View
<1>3. stages \in [Kind -> Stage \cup {None}]
  BY DEF TypeInv, TypeOK
<1>4. task'[t].phase \in {"idle", "overlay"} /\ \A u \in Task \ {t} : task'[u] = task[u]
  BY <1>1, <1>2, AnsweredStep
<1>5. \A k \in Kind : ~AnswersFor(t, k) /\ ~InFlight(t, k)'
  BY <1>1, <1>4 DEF AnswersFor, InFlight
<1>. DEFINE new == Cancelled(kind, stages[kind])
<1>6. stages'[kind] = new /\ \A k \in Kind \ {kind} : stages'[k] = stages[k]
  BY <1>1, <1>3
<1>7. StageAt(kind)
  BY <1>1 DEF ListsInv, StagesTrue
<1>8. PICK status \in Status :
        /\ new \in Stage /\ Same(new, stages[kind]) 
        /\ ~new.loading /\ new.revision = stages[kind].revision + 1 /\ new.seen = stages[kind].seen
        /\ new.view = [stages[kind].view EXCEPT !.status = status]
        /\ status \in {"partial", stages[kind].view.status}
        /\ kind # "updates" /\ ~stages[kind].view.complete => status = "partial"
  <2>. DEFINE stage == stages[kind]
  <2>1. stage \in Stage
    BY <1>2
  <2>. HIDE DEF stage
  <2>2. \E status \in Status :
         /\ Cancelled(kind, stage) \in Stage /\ Same(Cancelled(kind, stage), stage)
         /\ ~Cancelled(kind, stage).loading
         /\ Cancelled(kind, stage).revision = stage.revision + 1
         /\ Cancelled(kind, stage).seen = stage.seen
         /\ Cancelled(kind, stage).view = [stage.view EXCEPT !.status = status]
         /\ status \in {"partial", stage.view.status}
         /\ kind # "updates" /\ ~stage.view.complete => status = "partial"
    BY <2>1, CancelledShape, Zenon
  <2>. QED  BY <2>2, Zenon DEF stage
<1>. HIDE DEF new
<1>9. /\ new.view.status = status /\ new.view.items = stages[kind].view.items
      /\ new.view.cursor = stages[kind].view.cursor /\ new.view.whole = stages[kind].view.whole
  BY <1>2, <1>8, StatusShape
<1>10. status # "loading"
  BY <1>7, <1>8 DEF StageAt, ViewAt
<1>11. ViewAt(kind)'
  BY <1>6, <1>7, <1>9, <1>10 DEF StageAt, ViewAt
<1>12. StageAt(kind)'
  <2>1. /\ stages'[kind].id = stages[kind].id /\ ~stages'[kind].loading
        /\ stages'[kind].revision = stages[kind].revision + 1
    BY <1>6, <1>8 DEF Same
  <2>2. ~InFlight(t, kind)'
    BY <1>5
  <2>. QED  BY <1>1, <1>4, <1>7, <1>11, <2>1, <2>2, StageDone
<1>. QED  BY <1>1, <1>4, <1>5, <1>6, <1>12, OtherLists

LEMMA FailLists ==
  ASSUME TypeInv, ListsInv, NEW t \in Task, FailPage(t)
  PROVE  StagesTrue'
<1>1. /\ UNCHANGED <<epoch, scope, revision>> /\ task[t].phase = "net" /\ Current(t) /\ task[t].kind # "updates"
  BY DEF FailPage
<1>2. PICK kind \in Kind : kind = task[t].kind
  BY <1>1, CurrentFacts
<1>3. stages[kind] \in Stage /\ stages[kind].view \in View /\ StageAt(kind)
  BY <1>1, <1>2, CurrentFacts DEF ListsInv, StagesTrue
<1>4. PICK new \in Stage :
        /\ stages' = [stages EXCEPT ![kind] = new]
        /\ \/ new = Failed(stages[kind])
           \/ /\ stages[kind].view.items = {} /\ cache[scope][kind] # None
              /\ new = Fallback(stages[kind], cache[scope][kind])
  BY <1>2, FailOutcome
<1>5. task'[t].phase # "net" /\ \A u \in Task \ {t} : task'[u] = task[u]
  <2>1. \/ \E items \in SUBSET Item : Answered(t, kind, items)
        \/ task' = [task EXCEPT ![t] = Idle]
    BY <1>2, FailOutcome
  <2>2. task \in [Task -> LibraryTask]
    BY DEF TypeInv, TypeOK
  <2>3. CASE task' = [task EXCEPT ![t] = Idle]
    BY <2>2, <2>3, IdleShape
  <2>4. CASE \E items \in SUBSET Item : Answered(t, kind, items)
    BY <1>1, <2>4, AnsweredStep
  <2>. QED  BY <2>1, <2>3, <2>4
<1>6. /\ new.id = stages[kind].id /\ new.revision = stages[kind].revision /\ ~new.loading
      /\ new.view.cursor # NoCursor => new.view.whole /\ new.view.items # {}
      /\ new.view.status # "loading"
  <2>1. CASE new = Failed(stages[kind])
    <3>1. /\ new.id = stages[kind].id /\ new.revision = stages[kind].revision /\ ~new.loading
          /\ new.view = [stages[kind].view EXCEPT !.status = "error"]
      BY <1>3, <2>1, FailedShape DEF Same
    <3>2. /\ new.view.status = "error" /\ new.view.cursor = stages[kind].view.cursor
          /\ new.view.whole = stages[kind].view.whole /\ new.view.items = stages[kind].view.items
      BY <1>3, <3>1, StatusShape DEF Status
    <3>. QED  BY <1>3, <3>1, <3>2 DEF StageAt, ViewAt
  <2>2. CASE /\ stages[kind].view.items = {} /\ cache[scope][kind] # None
             /\ new = Fallback(stages[kind], cache[scope][kind])
    <3>. DEFINE row == cache[scope][kind]
    <3>1. row \in View
      BY <2>2, Members
    <3>2. new = Fallback(stages[kind], row)
      BY <2>2
    <3>. HIDE DEF row
    <3>3. /\ new.id = stages[kind].id /\ new.revision = stages[kind].revision /\ ~new.loading
          /\ new.view = [stages[kind].view EXCEPT !.status = "error", !.items = row.items, !.whole = FALSE]
      BY <1>3, <3>1, <3>2, FallbackShape DEF Same
    <3>4. new.view.status = "error" /\ new.view.cursor = stages[kind].view.cursor
      BY <1>3, <3>3 DEF View
    <3>5. stages[kind].view.cursor = NoCursor
      BY <1>3, <2>2 DEF StageAt, ViewAt
    <3>. QED  BY <3>3, <3>4, <3>5
  <2>. QED  BY <1>4, <2>1, <2>2
<1>. QED  BY <1>1, <1>2, <1>4, <1>5, <1>6, AnsweredList

LEMMA NewPage ==
  ASSUME NEW page \in Page, NEW cursor, NEW seen, ~Circular(page, cursor, seen)
  PROVE  /\ page.cursor # NoCursor => page.items # {} /\ page.cursor \notin seen
         /\ EndOf(page) # "loading"
BY DEF Circular, EndOf

(* The answer a stage takes continues it, so the listing stays one.        *)
LEMMA TakenContinues ==
  ASSUME TypeInv, ListsInv, NEW t \in Task, task[t].phase = "net", Current(t)
  PROVE  Continues(t, stages[task[t].kind])
<1>. DEFINE kind == task[t].kind
<1>1. /\ kind \in Kind /\ task[t].account = scope /\ AnswersFor(t, kind) /\ stages[kind] # None
      /\ task[t].mode \in {"refresh", "more"}
  BY CurrentFacts
<1>2. task[t].stage = stages[kind].id
  BY DEF Current
<1>3. AsksNext(t, kind) /\ ViewAt(kind)
  BY <1>1 DEF ListsInv, StagesTrue, StageAt
<1>. QED  BY <1>1, <1>2, <1>3 DEF Continues, AsksNext, ViewAt

LEMMA TakeLists ==
  ASSUME TypeInv, ListsInv, NEW t \in Task, TakePage(t)
  PROVE  StagesTrue' /\ CacheTrue'
<1>1. /\ UNCHANGED <<epoch, scope, revision>> /\ task[t].phase = "net" /\ Current(t) /\ task[t].kind # "updates"
  BY TakeOutcome
<1>. DEFINE kind == task[t].kind
            stage == stages[kind]
<1>2. kind \in Kind
  BY <1>1, CurrentFacts
<1>3. stage \in Stage /\ stage.view \in View /\ StageAt(kind)
  BY <1>1, <1>2, CurrentFacts DEF ListsInv, StagesTrue
<1>4. PICK page \in Page :
        /\ ~Circular(page, task[t].cursor, stage.seen)
        /\ Answered(t, kind, Merged(t, stage, page).view.items)
        /\ \/ /\ stages' = [stages EXCEPT ![kind] = Merged(t, stage, page)]
              /\ cache' = cache
           \/ /\ page.complete
              /\ stages' = [stages EXCEPT ![kind] = Merged(t, stage, page)]
              /\ cache' = [cache EXCEPT ![scope][kind] = Merged(t, stage, page).view]
           \/ /\ \E new \in Stage :
                   /\ stages' = [stages EXCEPT ![kind] = new]
                   /\ new.id = stage.id /\ new.revision = stage.revision /\ ~new.loading
                   /\ new.view = [Merged(t, stage, page).view EXCEPT !.status = "error"]
              /\ cache' = cache
  <2>1. PICK page \in Page :
              /\ page \in Pages(kind, task[t].account, task[t].cursor)
              /\ ~Circular(page, task[t].cursor, stage.seen)
              /\ Answered(t, kind, Merged(t, stage, page).view.items)
              /\ \/ /\ stages' = [stages EXCEPT ![kind] = Merged(t, stage, page)]
                    /\ UNCHANGED <<cache, receipts, confirmed>>
                 \/ /\ page.complete
                    /\ stages' = [stages EXCEPT ![kind] = Merged(t, stage, page)]
                    /\ cache' = [cache EXCEPT ![scope][kind] = Merged(t, stage, page).view]
                    /\ \E retired \in SUBSET Merged(t, stage, page).view.items :
                         /\ retired # {} => kind = "subscriptions"
                         /\ receipts' = [receipts EXCEPT ![scope] = @ \ retired]
                         /\ confirmed' = IF subEpoch = epoch THEN confirmed \ retired ELSE confirmed
                 \/ /\ \E new \in Stage :
                         /\ stages' = [stages EXCEPT ![kind] = new]
                         /\ new.id = stage.id /\ new.known = stage.known /\ new.revision = stage.revision
                         /\ ~new.loading /\ new.seen = Merged(t, stage, page).seen
                         /\ new.view = [Merged(t, stage, page).view EXCEPT !.status = "error"]
                    /\ UNCHANGED <<cache, receipts, confirmed>>
    BY TakeOutcome, Zenon
  <2>. QED  BY <2>1, Zenon
<1>. DEFINE next == Merged(t, stage, page)
<1>5. Continues(t, stage)
  BY <1>1, <1>2, TakenContinues
<1>6. /\ next \in Stage /\ next.id = stage.id /\ next.revision = stage.revision /\ ~next.loading
      /\ next.view \in View /\ next.view.items = stage.view.items \cup page.items
      /\ next.view.cursor = page.cursor /\ next.view.complete = page.complete
      /\ next.view.status = EndOf(page) /\ next.view.whole = Continues(t, stage)
  <2>1. /\ next \in Stage /\ Same(next, stage) /\ next.revision = stage.revision /\ ~next.loading
        /\ next.view \in View
    BY <1>3, MergedShape
  <2>2. next.view =
          [items |-> stage.view.items \cup page.items, cursor |-> page.cursor,
           complete |-> page.complete, status |-> EndOf(page), pages |-> stage.view.pages + 1,
           whole |-> Continues(t, stage)]
    BY <1>3, MergedShape
  <2>. HIDE DEF next
  <2>. QED  BY <2>1, <2>2 DEF Same
<1>. HIDE DEF next
<1>7. /\ next.view.whole /\ next.view.status # "loading"
      /\ next.view.cursor # NoCursor => next.view.items # {}
  <2>1. EndOf(page) # "loading" /\ (page.cursor # NoCursor => page.items # {})
    BY <1>4, NewPage
  <2>. QED  BY <1>5, <1>6, <2>1
<1>8. next.view.items \in SUBSET Item
  BY <1>6 DEF View
<1>9. task'[t].phase # "net" /\ \A u \in Task \ {t} : task'[u] = task[u]
  BY <1>1, <1>2, <1>4, <1>8, AnsweredStep DEF next
<1>10. PICK new \in Stage :
         /\ stages' = [stages EXCEPT ![kind] = new]
         /\ new.id = stage.id /\ new.revision = stage.revision /\ ~new.loading
         /\ new.view.whole /\ new.view.status # "loading"
         /\ new.view.cursor # NoCursor => new.view.items # {}
  <2>1. \/ stages' = [stages EXCEPT ![kind] = next]
        \/ \E new \in Stage :
             /\ stages' = [stages EXCEPT ![kind] = new]
             /\ new.id = stage.id /\ new.revision = stage.revision /\ ~new.loading
             /\ new.view = [next.view EXCEPT !.status = "error"]
    BY <1>4 DEF next
  <2>. DEFINE failed == [next.view EXCEPT !.status = "error"]
  <2>2. failed.status = "error" /\ failed.cursor = next.view.cursor /\ failed.items = next.view.items
        /\ failed.whole = next.view.whole
    BY <1>6, StatusShape DEF Status
  <2>. HIDE DEF failed
  <2>3. \/ stages' = [stages EXCEPT ![kind] = next]
        \/ \E new \in Stage :
             /\ stages' = [stages EXCEPT ![kind] = new]
             /\ new.id = stage.id /\ new.revision = stage.revision /\ ~new.loading
             /\ new.view = failed
    BY <2>1 DEF failed
  <2>4. CASE stages' = [stages EXCEPT ![kind] = next]
    BY <1>6, <1>7, <2>4
  <2>5. CASE \E new \in Stage :
             /\ stages' = [stages EXCEPT ![kind] = new]
             /\ new.id = stage.id /\ new.revision = stage.revision /\ ~new.loading
             /\ new.view = failed
    BY <1>7, <2>2, <2>5
  <2>. QED  BY <2>3, <2>4, <2>5
<1>11. StagesTrue'
  BY <1>1, <1>2, <1>9, <1>10, AnsweredList
<1>12. CacheTrue'
  <2>1. cache \in [Scope -> [Kind -> View \cup {None}]] /\ scope \in Scope
    BY Members DEF TypeInv, TypeOK
  <2>2. CASE cache' = cache
    BY <2>2 DEF ListsInv, CacheTrue
  <2>3. CASE page.complete /\ cache' = [cache EXCEPT ![scope][kind] = next.view]
    <3>. SUFFICES ASSUME NEW s \in Scope, NEW k \in Kind, cache'[s][k] # None
                  PROVE  cache'[s][k].whole /\ (k # "updates" => cache'[s][k].complete)
      BY DEF CacheTrue
    <3>1. CASE s = scope /\ k = kind
      BY <1>6, <1>7, <2>1, <2>3, <3>1
    <3>2. CASE ~(s = scope /\ k = kind)
      <4>1. cache'[s][k] = cache[s][k]
        BY <2>1, <2>3, <3>2
      <4>. QED  BY <4>1 DEF ListsInv, CacheTrue
    <3>. QED  BY <3>1, <3>2
  <2>. QED  BY <1>4, <2>2, <2>3 DEF next
<1>. QED  BY <1>11, <1>12

LEMMA TakeUpdatesLists ==
  ASSUME TypeInv, ListsInv, NEW t \in Task, TakeUpdates(t)
  PROVE  StagesTrue' /\ CacheTrue'
<1>1. /\ UNCHANGED <<epoch, scope, revision>> /\ task[t].phase = "net" /\ Current(t) /\ task[t].kind = "updates"
      /\ task' = [task EXCEPT ![t] = Idle]
  BY TakeUpdatesOutcome
<1>. DEFINE stage == stages["updates"]
<1>2. "updates" \in Kind /\ stage \in Stage /\ stage.view \in View
  BY <1>1, CurrentFacts
<1>3. PICK page \in Page :
        /\ ~Circular(page, task[t].cursor, IF task[t].mode = "more" THEN stage.seen ELSE {})
        /\ stages' = [stages EXCEPT !["updates"] = UpdatesAfter(t, stage, page)]
        /\ cache' = [cache EXCEPT ![scope]["updates"] = Snapshot(UpdatesAfter(t, stage, page).view)]
  BY TakeUpdatesOutcome
<1>. DEFINE next == UpdatesAfter(t, stage, page)
            items == IF task[t].mode = "refresh" THEN {} ELSE stage.view.items
<1>4. Continues(t, stage)
  BY <1>1, TakenContinues
<1>5. /\ next \in Stage /\ next.id = stage.id /\ next.revision = stage.revision /\ ~next.loading
      /\ next.view \in View /\ next.view.items = items \cup page.items
      /\ next.view.cursor = page.cursor /\ next.view.status = EndOf(page)
      /\ next.view.whole = Continues(t, stage)
  <2>1. /\ next \in Stage /\ Same(next, stage) /\ next.revision = stage.revision /\ ~next.loading
        /\ next.view \in View
    BY <1>2, UpdatesAfterShape
  <2>. DEFINE pages == IF task[t].mode = "refresh" THEN 0 ELSE stage.view.pages
  <2>2. next.view =
          [items |-> items \cup page.items, cursor |-> page.cursor,
           complete |-> page.complete, status |-> EndOf(page), pages |-> pages + 1,
           whole |-> Continues(t, stage)]
    BY <1>2, UpdatesAfterShape
  <2>. HIDE DEF next, items, pages
  <2>. QED  BY <2>1, <2>2 DEF Same
<1>. HIDE DEF next, items
<1>6. /\ next.view.whole /\ next.view.status # "loading"
      /\ next.view.cursor # NoCursor => next.view.items # {}
  BY <1>3, <1>4, <1>5, NewPage
<1>7. task'[t].phase # "net" /\ \A u \in Task \ {t} : task'[u] = task[u]
  <2>1. task \in [Task -> LibraryTask]
    BY DEF TypeInv, TypeOK
  <2>. QED  BY <1>1, <2>1, IdleShape
<1>8. StagesTrue'
  <2>1. stages' = [stages EXCEPT ![task[t].kind] = next]
    BY <1>1, <1>3 DEF next
  <2>2. next.id = stages[task[t].kind].id /\ next.revision = stages[task[t].kind].revision
    BY <1>1, <1>5
  <2>. QED  BY <1>1, <1>5, <1>6, <1>7, <2>1, <2>2, AnsweredList
<1>9. CacheTrue'
  <2>. DEFINE row == Snapshot(next.view)
  <2>1. cache \in [Scope -> [Kind -> View \cup {None}]] /\ scope \in Scope
    BY Members DEF TypeInv, TypeOK
  <2>2. row.whole
    BY <1>5, <1>6 DEF Snapshot, View
  <2>3. cache' = [cache EXCEPT ![scope]["updates"] = row]
    BY <1>3 DEF next
  <2>. HIDE DEF row
  <2>. SUFFICES ASSUME NEW s \in Scope, NEW k \in Kind, cache'[s][k] # None
                PROVE  cache'[s][k].whole /\ (k # "updates" => cache'[s][k].complete)
    BY DEF CacheTrue
  <2>4. CASE s = scope /\ k = "updates"
    BY <2>1, <2>2, <2>3, <2>4
  <2>5. CASE ~(s = scope /\ k = "updates")
    <3>1. cache'[s][k] = cache[s][k]
      BY <2>1, <2>3, <2>5
    <3>. QED  BY <3>1 DEF ListsInv, CacheTrue
  <2>. QED  BY <2>4, <2>5
<1>. QED  BY <1>8, <1>9

LEMMA FailUpdatesLists ==
  ASSUME TypeInv, ListsInv, NEW t \in Task, FailUpdates(t)
  PROVE  StagesTrue'
<1>1. /\ UNCHANGED <<epoch, scope, revision>> /\ task[t].phase = "net" /\ Current(t) /\ task[t].kind = "updates"
      /\ task' = [task EXCEPT ![t] = Idle]
      /\ stages' = [stages EXCEPT !["updates"] = Failed(stages["updates"])]
  BY FailUpdatesOutcome
<1>. DEFINE stage == stages[task[t].kind]
            new == Failed(stage)
<1>2. stage \in Stage /\ stage.view \in View /\ ViewAt("updates") /\ stage = stages["updates"]
  BY <1>1, CurrentFacts DEF ListsInv, StagesTrue, StageAt
<1>3. /\ new.id = stage.id /\ new.revision = stage.revision /\ ~new.loading
      /\ new.view = [stage.view EXCEPT !.status = "error"]
  BY <1>2, FailedShape DEF Same
<1>. HIDE DEF new
<1>4. /\ new.view.status = "error" /\ new.view.cursor = stage.view.cursor
      /\ new.view.whole = stage.view.whole /\ new.view.items = stage.view.items
  BY <1>2, <1>3, StatusShape DEF Status
<1>5. /\ new.view.cursor # NoCursor => new.view.whole /\ new.view.items # {}
      /\ new.view.whole /\ new.view.status # "loading"
  BY <1>2, <1>4 DEF ViewAt
<1>6. task'[t].phase # "net" /\ \A u \in Task \ {t} : task'[u] = task[u]
  <2>1. task \in [Task -> LibraryTask]
    BY DEF TypeInv, TypeOK
  <2>. QED  BY <1>1, <2>1, IdleShape
<1>7. stages' = [stages EXCEPT ![task[t].kind] = new]
  BY <1>1 DEF new
<1>. QED  BY <1>1, <1>3, <1>5, <1>6, <1>7, AnsweredList

LEMMA QuietLists ==
  ASSUME TypeInv, ListsInv, NEW t \in Task,
         Stale(t) \/ Peek(t) \/ OverlaySubscriptions(t) \/ Return(t)
  PROVE  StagesTrue'
<1>1. UNCHANGED <<epoch, scope, revision, stages>>
  BY DEF Stale, Peek, OverlaySubscriptions, Return
<1>2. task \in [Task -> LibraryTask]
  BY DEF TypeInv, TypeOK
<1>3. task'[t].phase # "net" /\ \A u \in Task \ {t} : task'[u] = task[u]
  <2>1. CASE task' = [task EXCEPT ![t] = Idle]
    BY <1>2, <2>1, IdleShape
  <2>2. CASE \E unreadable \in BOOLEAN :
               task' = [task EXCEPT ![t].phase = "given", ![t].items = @ \cup Receipts(unreadable)]
    BY <1>2, <2>2 DEF LibraryTask
  <2>3. CASE Peek(t)
    <3>1. "subscriptions" \in Kind
      BY <2>3 DEF Peek
    <3>2. /\ stages["subscriptions"] # None => stages["subscriptions"].view.items \in SUBSET Item
          /\ cache[scope]["subscriptions"] # None => cache[scope]["subscriptions"].items \in SUBSET Item
      BY <3>1, Members DEF View
    <3>3. \E items \in SUBSET Item : Direct(t, "subscriptions", items)
      BY <2>3, <3>2 DEF Peek
    <3>. QED  BY <1>1, <3>1, <3>3, AnsweredStep
  <2>. QED  BY <2>1, <2>2, <2>3 DEF Stale, OverlaySubscriptions, Return
<1>4. ASSUME NEW k \in Kind, stages[k] # None
      PROVE  ~AnswersFor(t, k)
  <2>1. CASE Stale(t)
    <3>. SUFFICES ASSUME AnswersFor(t, k) PROVE FALSE
      OBVIOUS
    <3>1. stages[k].loading
      BY <1>4 DEF ListsInv, StagesTrue, StageAt, FlightsAt
    <3>2. Current(t)
      BY <1>4, <3>1 DEF Current, AnswersFor
    <3>. QED  BY <2>1, <3>2 DEF Stale
  <2>2. CASE task[t].phase # "net"
    BY <2>2 DEF AnswersFor
  <2>. QED  BY <2>1, <2>2 DEF Peek, OverlaySubscriptions, Return
<1>. SUFFICES ASSUME NEW k \in Kind, stages'[k] # None PROVE StageAt(k)'
  BY DEF StagesTrue
<1>5. StageAt(k) /\ stages'[k] = stages[k] /\ ~AnswersFor(t, k)
  BY <1>1, <1>4 DEF ListsInv, StagesTrue
<1>6. ~InFlight(t, k)'
  BY <1>3 DEF InFlight
<1>. QED  BY <1>1, <1>3, <1>5, <1>6, StageFrame

LEMMA StageStays ==
  ASSUME ListsInv, UNCHANGED <<epoch, task>>, NEW k \in Kind, stages'[k] # None, stages'[k] = stages[k]
  PROVE  StageAt(k)'
<1>1. StageAt(k)
  BY DEF ListsInv, StagesTrue
<1>2. FlightsAt(k)'
  BY <1>1 DEF StageAt, FlightsAt, InFlight, AnswersFor, AtEpoch
<1>3. ViewAt(k)'
  BY <1>1 DEF StageAt, ViewAt
<1>4. \A t \in Task : AnswersFor(t, k)' => AsksNext(t, k)'
  BY <1>1 DEF StageAt, AnswersFor, AtEpoch, AsksNext, Blank
<1>. QED  BY <1>2, <1>3, <1>4 DEF StageAt

LEMMA ListsStep ==
  ASSUME TypeInv, ListsInv, NEW t \in Task, LibraryStep(t)
  PROVE  ListsInv'
<1>1. CASE (\E kind \in Kind : Refresh(t, kind) \/ More(t, kind)) \/ RefreshUpdates(t)
  <2>1. cache' = cache
    BY <1>1 DEF Refresh, More, RefreshUpdates
  <2>. QED  BY <1>1, <2>1, AskingLists DEF ListsInv, CacheTrue
<1>2. CASE \E kind \in Kind : Cancel(t, kind)
  <2>1. cache' = cache
    BY <1>2 DEF Cancel
  <2>. QED  BY <1>2, <2>1, CancelLists DEF ListsInv, CacheTrue
<1>3. CASE FailPage(t)
  <2>1. cache' = cache
    BY <1>3 DEF FailPage
  <2>. QED  BY <1>3, <2>1, FailLists DEF ListsInv, CacheTrue
<1>4. CASE FailUpdates(t)
  <2>1. cache' = cache
    BY <1>4 DEF FailUpdates
  <2>. QED  BY <1>4, <2>1, FailUpdatesLists DEF ListsInv, CacheTrue
<1>5. CASE TakePage(t) \/ TakeUpdates(t)
  BY <1>5, TakeLists, TakeUpdatesLists DEF ListsInv
<1>6. CASE Stale(t) \/ Peek(t) \/ OverlaySubscriptions(t) \/ Return(t)
  <2>1. cache' = cache
    BY <1>6 DEF Stale, Peek, OverlaySubscriptions, Return
  <2>. QED  BY <1>6, <2>1, QuietLists DEF ListsInv, CacheTrue
<1>. QED  BY <1>1, <1>2, <1>3, <1>4, <1>5, <1>6 DEF LibraryStep

LEMMA AddLists ==
  ASSUME TypeInv, NEW a \in Adder, AddStep(a)
  PROVE  UNCHANGED <<epoch, scope, task, cache>> /\ \A k \in Kind : stages'[k] \in {None, stages[k]}
<1>1. UNCHANGED <<epoch, scope, task, cache>>
  BY DEF AddStep, BeginCheck, BeginAdd, SendAdd, AnswerAdd, Verify, ConfirmAdd, Release, AnswerCheck, libraryVars
<1>2. stages' = stages \/ (add[a].phase # "idle" /\ ConfirmSubscription(add[a].podcast))
  BY DEF AddStep, BeginCheck, BeginAdd, SendAdd, AnswerAdd, Verify, ConfirmAdd, Release, AnswerCheck, libraryVars,
         Readback
<1>3. add[a].phase # "idle" => add[a].podcast \in Item
  BY Constants DEF TypeInv, AddersTrue
<1>. QED  BY <1>1, <1>2, <1>3, ConfirmTypes

LEMMA StepLists == TypeInv /\ ListsInv /\ [Next]_vars => ListsInv'
<1>. SUFFICES ASSUME TypeInv, ListsInv, [Next]_vars PROVE ListsInv'
  OBVIOUS
<1>1. CASE \E t \in Task : LibraryStep(t)
  BY <1>1, ListsStep
<1>2. CASE UNCHANGED vars \/ \E a \in Adder : AddStep(a)
  <2>1. UNCHANGED <<epoch, scope, task, cache>> /\ \A k \in Kind : stages'[k] \in {None, stages[k]}
    BY <1>2, AddLists DEF vars, libraryVars
  <2>2. StagesTrue'
    BY <2>1, StageStays DEF StagesTrue
  <2>. QED  BY <2>1, <2>2 DEF ListsInv, CacheTrue
<1>3. CASE ClearCache \/ Leave \/ \E account \in Account : Join(account)
  <2>1. /\ stages' = NoStages
        /\ cache' \in {cache, [cache EXCEPT ![scope] = NoStages], [s \in Scope |-> NoStages]}
    BY <1>3 DEF ClearCache, Leave, Join, NewEpoch, Logout, Connect
  <2>2. StagesTrue'
    BY <2>1 DEF StagesTrue, NoStages
  <2>3. cache \in [Scope -> [Kind -> View \cup {None}]]
    BY DEF TypeInv, TypeOK
  <2>4. \A s \in Scope, k \in Kind : cache'[s][k] \in {None, cache[s][k]}
    BY <2>1, <2>3 DEF NoStages
  <2>5. CacheTrue'
    BY <2>4 DEF ListsInv, CacheTrue
  <2>. QED  BY <2>2, <2>5 DEF ListsInv
<1>. QED  BY <1>1, <1>2, <1>3 DEF Next

LEMMA InitLists == Init => ListsInv
BY DEF Init, LibraryInit, NoStages, ListsInv, StagesTrue, CacheTrue

(* A complete cached list of an account is one listing of that account:    *)
(* no answer that was cancelled, replaced, cleared or left behind by a     *)
(* logout is in it.                                                        *)
THEOREM SubscribingPersistedListIsOneListing == Spec => []PersistedListIsOneListing
<1>1. ListsInv => PersistedListIsOneListing
  BY DEF ListsInv, CacheTrue, PersistedListIsOneListing
<1>. QED  BY <1>1, InitTypes, StepTypes, InitLists, StepLists, PTL DEF Spec

(* A list says it is loading exactly while one request can still answer    *)
(* it, so it never stays busy and no two requests answer the same stage.   *)
THEOREM SubscribingLoadingIsReal == Spec => []LoadingIsReal
<1>1. ASSUME ListsInv PROVE LoadingIsReal
  <2>. SUFFICES ASSUME NEW k \in Kind, stages[k] # None
                PROVE  IF stages[k].loading THEN Cardinality({t \in Task : AnswersFor(t, k)}) = 1
                       ELSE stages[k].view.status # "loading"
    BY DEF LoadingIsReal
  <2>1. FlightsAt(k) /\ ViewAt(k)
    BY <1>1 DEF ListsInv, StagesTrue, StageAt
  <2>2. CASE stages[k].loading
    <3>1. PICK t \in Task : AnswersFor(t, k)
      BY <2>1, <2>2 DEF FlightsAt
    <3>2. {u \in Task : AnswersFor(u, k)} = {t}
      BY <2>1, <3>1 DEF FlightsAt
    <3>. QED  BY <2>2, <3>2, FS_Singleton
  <2>3. CASE ~stages[k].loading
    BY <2>1, <2>3 DEF ViewAt
  <2>. QED  BY <2>2, <2>3
<1>2. ListsInv => LoadingIsReal
  BY <1>1
<1>. QED  BY <1>2, InitTypes, StepTypes, InitLists, StepLists, PTL DEF Spec

----------------------------------------------------------------------------
(* How long a list can get.                                                *)

(* A list that can go on has had one cursor per page.                      *)
Fits(view, seen) ==
  /\ view.cursor # NoCursor => view.pages <= Cardinality(seen)
  /\ view.pages <= Cardinality(Cursor) + 1

PagesFit ==
  /\ \A k \in Kind : stages[k] # None => Fits(stages[k].view, stages[k].seen)
  /\ \A s \in Scope, k \in Kind : cache[s][k] # None => cache[s][k].pages <= Cardinality(Cursor) + 1

LEMMA Counted ==
  ASSUME IsFiniteSet(Cursor), NEW seen \in SUBSET Cursor
  PROVE  Cardinality(seen) \in Nat /\ Cardinality(Cursor) \in Nat /\ Cardinality(seen) <= Cardinality(Cursor)
BY FS_Subset, FS_CardinalityType

(* One more page has one more cursor, or is the last.                      *)
LEMMA PageFits ==
  ASSUME IsFiniteSet(Cursor), NEW seen \in SUBSET Cursor, NEW pages \in Nat, pages <= Cardinality(seen),
         NEW page \in Page, page.cursor # NoCursor => page.cursor \notin seen
  PROVE  /\ page.cursor # NoCursor => pages + 1 <= Cardinality(Seen(seen, page))
         /\ pages + 1 <= Cardinality(Cursor) + 1
<1>1. Cardinality(seen) \in Nat /\ Cardinality(Cursor) \in Nat /\ Cardinality(seen) <= Cardinality(Cursor)
  BY Counted
<1>2. pages + 1 <= Cardinality(Cursor) + 1
  BY <1>1
<1>3. ASSUME page.cursor # NoCursor
      PROVE  pages + 1 <= Cardinality(Seen(seen, page))
  <2>1. IsFiniteSet(seen)
    BY FS_Subset
  <2>2. Cardinality(seen \cup {page.cursor}) = Cardinality(seen) + 1
    BY <1>3, <2>1, FS_AddElement
  <2>. QED  BY <1>1, <1>3, <2>2 DEF Seen
<1>. QED  BY <1>2, <1>3

LEMMA FitsStatus ==
  ASSUME NEW view \in View, NEW seen, Fits(view, seen), NEW status \in Status
  PROVE  Fits([view EXCEPT !.status = status], seen)
BY StatusShape DEF Fits

LEMMA AskingFits ==
  ASSUME IsFiniteSet(Cursor), TypeInv, PagesFit, NEW t \in Task,
         (\E kind \in Kind : Refresh(t, kind) \/ More(t, kind)) \/ RefreshUpdates(t)
  PROVE  PagesFit'
<1>1. cache' = cache
  BY DEF Refresh, More, RefreshUpdates
<1>2. stages \in [Kind -> Stage \cup {None}] /\ Cardinality(Cursor) \in Nat
  BY FS_CardinalityType DEF TypeInv, TypeOK
<1>3. PICK kind \in Kind, stage \in Stage :
        stages' = [stages EXCEPT ![kind] = Asked(stage)] /\ Fits(stage.view, stage.seen)
  <2>1. ASSUME NEW kind \in Kind, Refresh(t, kind)
        PROVE  \E stage \in Stage : stages' = [stages EXCEPT ![kind] = Asked(stage)] /\ Fits(stage.view, stage.seen)
    <3>. DEFINE view == [EmptyView EXCEPT !.status = "loading"]
                stage == NewStage(view, {})
    <3>1. view \in View /\ view.cursor = NoCursor /\ view.pages = 0
      BY Views DEF EmptyView
    <3>2. revision < MaxRevision /\ stages' = [stages EXCEPT ![kind] = Asked(stage)]
      BY <2>1 DEF Refresh, Request, Asked
    <3>. HIDE DEF view
    <3>3. stage \in Stage /\ stage.view = view
      BY <3>1, <3>2, NewStageShape DEF TypeInv
    <3>. HIDE DEF stage
    <3>4. Fits(stage.view, stage.seen)
      BY <1>2, <3>1, <3>3 DEF Fits
    <3>. QED  BY <3>2, <3>3, <3>4
  <2>2. ASSUME RefreshUpdates(t)
        PROVE  \E stage \in Stage : stages' = [stages EXCEPT !["updates"] = Asked(stage)] /\ Fits(stage.view, stage.seen)
    <3>1. "updates" \in Kind /\ revision < MaxRevision
      BY <2>2 DEF RefreshUpdates
    <3>2. PICK view \in View, seen \in SUBSET Cursor :
            stages' = [stages EXCEPT !["updates"] = Asked(NewStage(view, seen))] /\ Fits(view, seen)
      <4>1. ReadCache("updates") \in View /\ Fits(ReadCache("updates"), {})
        <5>1. scope \in Scope
          BY Members
        <5>2. cache[scope]["updates"] # None => cache[scope]["updates"].pages <= Cardinality(Cursor) + 1
          BY <3>1, <5>1 DEF PagesFit
        <5>3. EmptyView.pages = 0
          BY DEF EmptyView
        <5>4. ReadCache("updates").pages <= Cardinality(Cursor) + 1
          BY <1>2, <3>1, <5>2, <5>3, CacheShape
        <5>. QED  BY <3>1, <5>4, CacheShape DEF Fits
      <4>2. stages["updates"] # None =>
              /\ stages["updates"].view \in View /\ stages["updates"].seen \in SUBSET Cursor
              /\ Fits(stages["updates"].view, stages["updates"].seen)
        BY <3>1, Members DEF Stage, PagesFit
      <4>3. CASE stages["updates"] = None
        BY <2>2, <4>1, <4>3 DEF RefreshUpdates, Request, Asked
      <4>4. CASE stages["updates"] # None
        BY <2>2, <4>2, <4>4 DEF RefreshUpdates, Request, Asked
      <4>. QED  BY <4>3, <4>4
    <3>. DEFINE stage == NewStage(view, seen)
    <3>3. stage \in Stage /\ stage.view = view /\ stage.seen = seen
      BY <3>1, NewStageShape DEF TypeInv
    <3>4. stages' = [stages EXCEPT !["updates"] = Asked(stage)]
      BY <3>2
    <3>. HIDE DEF stage
    <3>. QED  BY <3>2, <3>3, <3>4
  <2>3. ASSUME NEW kind \in Kind, More(t, kind)
        PROVE  \E stage \in Stage : stages' = [stages EXCEPT ![kind] = Asked(stage)] /\ Fits(stage.view, stage.seen)
    <3>1. stages[kind] # None /\ stages' = [stages EXCEPT ![kind] = Asked(stages[kind])]
      BY <2>3 DEF More, Request, Asked
    <3>. QED  BY <3>1, Members DEF PagesFit
  <2>4. RefreshUpdates(t) => "updates" \in Kind
    BY DEF RefreshUpdates
  <2>. QED  BY <2>1, <2>2, <2>3, <2>4
<1>4. stages'[kind].view = stage.view /\ stages'[kind].seen = stage.seen
      /\ \A k \in Kind \ {kind} : stages'[k] = stages[k]
  BY <1>2, <1>3, AskedShape
<1>5. \A k \in Kind : stages'[k] # None => Fits(stages'[k].view, stages'[k].seen)
  <2>. SUFFICES ASSUME NEW k \in Kind, stages'[k] # None PROVE Fits(stages'[k].view, stages'[k].seen)
    OBVIOUS
  <2>1. CASE k = kind
    BY <1>3, <1>4, <2>1
  <2>2. CASE k # kind
    BY <1>4, <2>2 DEF PagesFit
  <2>. QED  BY <2>1, <2>2
<1>. QED  BY <1>1, <1>5 DEF PagesFit

(* The answer a stage takes is counted on top of the cursors it has had.   *)
LEMMA TakenCounts ==
  ASSUME IsFiniteSet(Cursor), TypeInv, ListsInv, PagesFit, NEW t \in Task, task[t].phase = "net", Current(t),
         task[t].mode = "more" \/ task[t].kind # "updates"
  PROVE  stages[task[t].kind].view.pages <= Cardinality(stages[task[t].kind].seen)
<1>. DEFINE kind == task[t].kind
            stage == stages[kind]
<1>1. kind \in Kind /\ stage # None /\ AnswersFor(t, kind) /\ task[t].mode \in {"refresh", "more"}
  BY CurrentFacts
<1>2. AsksNext(t, kind) /\ Fits(stage.view, stage.seen)
  BY <1>1 DEF ListsInv, StagesTrue, StageAt, PagesFit
<1>3. CASE task[t].mode = "more"
  BY <1>2, <1>3 DEF AsksNext, Fits
<1>4. CASE task[t].mode = "refresh"
  <2>1. stage.view.pages = 0 /\ stage.seen = {}
    BY <1>2, <1>4 DEF AsksNext, Blank
  <2>. QED  BY <2>1, FS_EmptySet
<1>. QED  BY <1>1, <1>3, <1>4

LEMMA OneFits ==
  ASSUME TypeInv, PagesFit, NEW kind \in Kind, NEW new, stages' = [stages EXCEPT ![kind] = new],
         Fits(new.view, new.seen),
         \/ cache' = cache
         \/ \E row : cache' = [cache EXCEPT ![scope][kind] = row] /\ row.pages <= Cardinality(Cursor) + 1
  PROVE  PagesFit'
<1>1. stages \in [Kind -> Stage \cup {None}] /\ cache \in [Scope -> [Kind -> View \cup {None}]]
  BY DEF TypeInv, TypeOK
<1>2. ASSUME NEW k \in Kind, stages'[k] # None
      PROVE  Fits(stages'[k].view, stages'[k].seen)
  <2>1. CASE k = kind
    <3>1. stages'[k] = new
      BY <1>1, <2>1
    <3>. QED  BY <3>1
  <2>2. CASE k # kind
    <3>1. stages'[k] = stages[k]
      BY <1>1, <2>2
    <3>. QED  BY <1>2, <3>1 DEF PagesFit
  <2>. QED  BY <2>1, <2>2
<1>3. ASSUME NEW s \in Scope, NEW k \in Kind, cache'[s][k] # None
      PROVE  cache'[s][k].pages <= Cardinality(Cursor) + 1
  <2>1. CASE cache' = cache
    BY <1>3, <2>1 DEF PagesFit
  <2>2. CASE \E row : cache' = [cache EXCEPT ![scope][kind] = row] /\ row.pages <= Cardinality(Cursor) + 1
    <3>1. PICK row : cache' = [cache EXCEPT ![scope][kind] = row] /\ row.pages <= Cardinality(Cursor) + 1
      BY <2>2
    <3>2. CASE s = scope /\ k = kind
      <4>1. cache'[s][k] = row
        BY <1>1, <3>1, <3>2
      <4>. QED  BY <3>1, <4>1
    <3>3. CASE ~(s = scope /\ k = kind)
      <4>1. cache'[s][k] = cache[s][k]
        BY <1>1, <3>1, <3>3
      <4>. QED  BY <1>3, <4>1 DEF PagesFit
    <3>. QED  BY <3>2, <3>3
  <2>. QED  BY <2>1, <2>2
<1>. QED  BY <1>2, <1>3 DEF PagesFit

LEMMA CancelFits ==
  ASSUME TypeInv, PagesFit, NEW t \in Task, NEW kind \in Kind, Cancel(t, kind)
  PROVE  PagesFit'
<1>. DEFINE stage == stages[kind]
            new == Cancelled(kind, stage)
<1>1. stage # None /\ stages' = [stages EXCEPT ![kind] = new] /\ cache' = cache
  BY DEF Cancel
<1>2. stage \in Stage /\ stage.view \in View /\ Fits(stage.view, stage.seen)
  BY <1>1, Members DEF PagesFit
<1>. HIDE DEF stage
<1>3. PICK status \in Status : new.seen = stage.seen /\ new.view = [stage.view EXCEPT !.status = status]
  <2>1. \E status \in Status :
          /\ Cancelled(kind, stage) \in Stage /\ Same(Cancelled(kind, stage), stage)
          /\ ~Cancelled(kind, stage).loading
          /\ Cancelled(kind, stage).revision = stage.revision + 1
          /\ Cancelled(kind, stage).seen = stage.seen
          /\ Cancelled(kind, stage).view = [stage.view EXCEPT !.status = status]
          /\ status \in {"partial", stage.view.status}
          /\ kind # "updates" /\ ~stage.view.complete => status = "partial"
    BY <1>2, CancelledShape, Zenon
  <2>. QED  BY <2>1, Zenon
<1>. HIDE DEF new
<1>4. Fits(new.view, new.seen)
  BY <1>2, <1>3, FitsStatus
<1>. QED  BY <1>1, <1>4, OneFits

LEMMA FailFits ==
  ASSUME TypeInv, PagesFit, NEW t \in Task, FailPage(t)
  PROVE  PagesFit'
<1>. DEFINE kind == task[t].kind
            stage == stages[kind]
            row == cache[scope][kind]
<1>1. cache' = cache /\ task[t].phase = "net" /\ Current(t)
  BY DEF FailPage
<1>2. kind \in Kind /\ stage # None /\ stage \in Stage /\ stage.view \in View
  BY <1>1, CurrentFacts
<1>3. Fits(stage.view, stage.seen)
  BY <1>2 DEF PagesFit
<1>4. PICK new \in Stage :
        /\ stages' = [stages EXCEPT ![kind] = new]
        /\ \/ new = Failed(stage)
           \/ row # None /\ new = Fallback(stage, row)
  BY FailOutcome
<1>5. row # None => row \in View
  BY <1>2, Members
<1>. HIDE DEF kind, stage, row
<1>6. Fits(new.view, new.seen)
  <2>1. CASE new = Failed(stage)
    <3>1. new.seen = stage.seen /\ new.view = [stage.view EXCEPT !.status = "error"]
      BY <1>2, <2>1, FailedShape
    <3>2. "error" \in Status
      BY DEF Status
    <3>. QED  BY <1>2, <1>3, <3>1, <3>2, FitsStatus
  <2>2. CASE row # None /\ new = Fallback(stage, row)
    <3>1. new.seen = stage.seen
          /\ new.view = [stage.view EXCEPT !.status = "error", !.items = row.items, !.whole = FALSE]
      BY <1>2, <1>5, <2>2, FallbackShape
    <3>2. new.view.cursor = stage.view.cursor /\ new.view.pages = stage.view.pages
      BY <1>2, <3>1 DEF View
    <3>. QED  BY <1>3, <3>1, <3>2 DEF Fits
  <2>. QED  BY <1>4, <2>1, <2>2
<1>. QED  BY <1>1, <1>2, <1>4, <1>6, OneFits

LEMMA TakeFits ==
  ASSUME IsFiniteSet(Cursor), TypeInv, ListsInv, PagesFit, NEW t \in Task, TakePage(t)
  PROVE  PagesFit'
<1>. DEFINE kind == task[t].kind
            stage == stages[kind]
<1>1. task[t].phase = "net" /\ Current(t) /\ kind # "updates"
  BY TakeOutcome
<1>2. kind \in Kind /\ stage # None /\ stage \in Stage /\ stage.view \in View
  BY <1>1, CurrentFacts
<1>3. PICK page \in Page :
        /\ ~Circular(page, task[t].cursor, stage.seen)
        /\ \/ /\ stages' = [stages EXCEPT ![kind] = Merged(t, stage, page)]
              /\ cache' = cache
           \/ /\ stages' = [stages EXCEPT ![kind] = Merged(t, stage, page)]
              /\ cache' = [cache EXCEPT ![scope][kind] = Merged(t, stage, page).view]
           \/ /\ \E new \in Stage :
                   /\ stages' = [stages EXCEPT ![kind] = new]
                   /\ new.seen = Merged(t, stage, page).seen
                   /\ new.view = [Merged(t, stage, page).view EXCEPT !.status = "error"]
              /\ cache' = cache
  BY TakeOutcome
<1>. DEFINE next == Merged(t, stage, page)
<1>4. /\ next.view \in View /\ next.seen = Seen(stage.seen, page)
      /\ next.view.cursor = page.cursor /\ next.view.pages = stage.view.pages + 1
  <2>1. /\ next.view \in View /\ next.seen = Seen(stage.seen, page)
        /\ next.view =
             [items |-> stage.view.items \cup page.items, cursor |-> page.cursor,
              complete |-> page.complete, status |-> EndOf(page), pages |-> stage.view.pages + 1,
              whole |-> Continues(t, stage)]
    BY <1>2, MergedShape
  <2>. HIDE DEF next
  <2>. QED  BY <2>1
<1>5. stage.view.pages <= Cardinality(stage.seen) /\ stage.view.pages \in Nat /\ stage.seen \in SUBSET Cursor
  BY <1>1, <1>2, TakenCounts DEF View, Stage
<1>6. page.cursor # NoCursor => page.cursor \notin stage.seen
  BY <1>3, NewPage
<1>. HIDE DEF kind, stage, next
<1>7. Fits(next.view, next.seen) /\ next.view.pages <= Cardinality(Cursor) + 1
  BY <1>4, <1>5, <1>6, PageFits DEF Fits
<1>8. "error" \in Status
  BY DEF Status
<1>9. CASE stages' = [stages EXCEPT ![kind] = next]
  <2>1. cache' = cache \/ cache' = [cache EXCEPT ![scope][kind] = next.view]
    BY <1>3 DEF next
  <2>. QED  BY <1>2, <1>7, <1>9, <2>1, OneFits
<1>10. CASE /\ \E new \in Stage :
                 /\ stages' = [stages EXCEPT ![kind] = new]
                 /\ new.seen = next.seen
                 /\ new.view = [next.view EXCEPT !.status = "error"]
            /\ cache' = cache
  <2>1. PICK new \in Stage :
          /\ stages' = [stages EXCEPT ![kind] = new]
          /\ new.seen = next.seen
          /\ new.view = [next.view EXCEPT !.status = "error"]
    BY <1>10
  <2>2. Fits(new.view, new.seen)
    BY <1>4, <1>7, <1>8, <2>1, FitsStatus
  <2>. QED  BY <1>2, <1>10, <2>1, <2>2, OneFits
<1>. QED  BY <1>3, <1>9, <1>10 DEF next

LEMMA TakeUpdatesFits ==
  ASSUME IsFiniteSet(Cursor), TypeInv, ListsInv, PagesFit, NEW t \in Task, TakeUpdates(t)
  PROVE  PagesFit'
<1>. DEFINE stage == stages["updates"]
            fresh == task[t].mode = "refresh"
            seen == IF fresh THEN {} ELSE stage.seen
            pages == IF fresh THEN 0 ELSE stage.view.pages
            items == IF fresh THEN {} ELSE stage.view.items
<1>1. task[t].phase = "net" /\ Current(t) /\ task[t].kind = "updates"
  BY TakeUpdatesOutcome
<1>2. /\ "updates" \in Kind /\ stage \in Stage /\ stage.view \in View
      /\ task[t].mode \in {"refresh", "more"}
  BY <1>1, CurrentFacts
<1>3. PICK page \in Page :
        /\ ~Circular(page, task[t].cursor, IF task[t].mode = "more" THEN stage.seen ELSE {})
        /\ stages' = [stages EXCEPT !["updates"] = UpdatesAfter(t, stage, page)]
        /\ cache' = [cache EXCEPT ![scope]["updates"] = Snapshot(UpdatesAfter(t, stage, page).view)]
  BY TakeUpdatesOutcome
<1>. DEFINE next == UpdatesAfter(t, stage, page)
<1>4. /\ next.view \in View /\ next.seen = Seen(seen, page)
      /\ next.view.cursor = page.cursor /\ next.view.pages = pages + 1
  <2>1. /\ next.view \in View /\ next.seen = Seen(seen, page)
        /\ next.view =
             [items |-> items \cup page.items, cursor |-> page.cursor,
              complete |-> page.complete, status |-> EndOf(page), pages |-> pages + 1,
              whole |-> Continues(t, stage)]
    BY <1>2, UpdatesAfterShape
  <2>. HIDE DEF next, pages, items, seen
  <2>. QED  BY <2>1
<1>5. pages <= Cardinality(seen) /\ pages \in Nat /\ seen \in SUBSET Cursor
  <2>1. CASE fresh
    BY <2>1, FS_EmptySet
  <2>2. CASE ~fresh
    BY <1>1, <1>2, <2>2, TakenCounts DEF View, Stage
  <2>. QED  BY <2>1, <2>2
<1>6. page.cursor # NoCursor => page.cursor \notin seen
  <2>1. ~Circular(page, task[t].cursor, seen)
    BY <1>2, <1>3
  <2>. QED  BY <2>1, NewPage
<1>. HIDE DEF stage, next, pages, seen, items
<1>7. Fits(next.view, next.seen) /\ next.view.pages <= Cardinality(Cursor) + 1
  BY <1>4, <1>5, <1>6, PageFits DEF Fits
<1>8. Snapshot(next.view).pages = next.view.pages
  BY <1>4 DEF Snapshot, View
<1>9. \E row : cache' = [cache EXCEPT ![scope]["updates"] = row] /\ row.pages <= Cardinality(Cursor) + 1
  BY <1>3, <1>7, <1>8 DEF next
<1>10. stages' = [stages EXCEPT !["updates"] = next]
  BY <1>3 DEF next
<1>. QED  BY <1>2, <1>7, <1>9, <1>10, OneFits

LEMMA StepFits == IsFiniteSet(Cursor) /\ TypeInv /\ ListsInv /\ PagesFit /\ [Next]_vars => PagesFit'
<1>. SUFFICES ASSUME IsFiniteSet(Cursor), TypeInv, ListsInv, PagesFit, [Next]_vars PROVE PagesFit'
  OBVIOUS
<1>1. ASSUME cache' \in {cache, [cache EXCEPT ![scope] = NoStages], [s \in Scope |-> NoStages]},
             \A k \in Kind : stages'[k] \in {None, stages[k]}
      PROVE  PagesFit'
  <2>1. cache \in [Scope -> [Kind -> View \cup {None}]]
    BY DEF TypeInv, TypeOK
  <2>2. \A s \in Scope, k \in Kind : cache'[s][k] \in {None, cache[s][k]}
    BY <1>1, <2>1 DEF NoStages
  <2>. QED  BY <1>1, <2>2 DEF PagesFit
<1>2. CASE \E t \in Task : LibraryStep(t)
  <2>1. PICK t \in Task : LibraryStep(t)
    BY <1>2
  <2>2. CASE (\E kind \in Kind : Refresh(t, kind) \/ More(t, kind)) \/ RefreshUpdates(t)
    BY <2>2, AskingFits
  <2>3. CASE (\E kind \in Kind : Cancel(t, kind)) \/ FailPage(t) \/ TakePage(t) \/ TakeUpdates(t)
    BY <2>3, CancelFits, FailFits, TakeFits, TakeUpdatesFits
  <2>4. CASE FailUpdates(t)
    <3>. DEFINE stage == stages["updates"]
    <3>1. cache' = cache /\ task[t].kind = "updates" /\ Current(t) /\ task[t].phase = "net"
          /\ stages' = [stages EXCEPT !["updates"] = Failed(stage)]
      BY <2>4, FailUpdatesOutcome
    <3>2. "updates" \in Kind /\ stage # None /\ stage \in Stage /\ stage.view \in View
      BY <3>1, CurrentFacts
    <3>3. Fits(stage.view, stage.seen)
      BY <3>2 DEF PagesFit
    <3>. HIDE DEF stage
    <3>4. Failed(stage).seen = stage.seen /\ Failed(stage).view = [stage.view EXCEPT !.status = "error"]
      BY <3>2, FailedShape
    <3>5. Fits(Failed(stage).view, Failed(stage).seen)
      BY <3>2, <3>3, <3>4, FitsStatus DEF Status
    <3>. QED  BY <3>1, <3>2, <3>5, OneFits
  <2>5. CASE Stale(t) \/ Peek(t) \/ OverlaySubscriptions(t) \/ Return(t)
    <3>1. UNCHANGED <<stages, cache>>
      BY <2>5 DEF Stale, Peek, OverlaySubscriptions, Return
    <3>. QED  BY <1>1, <3>1
  <2>. QED  BY <2>1, <2>2, <2>3, <2>4, <2>5 DEF LibraryStep
<1>3. CASE UNCHANGED vars \/ \E a \in Adder : AddStep(a)
  BY <1>1, <1>3, AddLists DEF vars, libraryVars
<1>4. CASE ClearCache \/ Leave \/ \E account \in Account : Join(account)
  <2>1. /\ stages' = NoStages
        /\ cache' \in {cache, [cache EXCEPT ![scope] = NoStages], [s \in Scope |-> NoStages]}
    BY <1>4 DEF ClearCache, Leave, Join, NewEpoch, Logout, Connect
  <2>2. \A k \in Kind : stages'[k] \in {None, stages[k]}
    BY <2>1 DEF NoStages
  <2>. QED  BY <1>1, <2>1, <2>2
<1>. QED  BY <1>2, <1>3, <1>4 DEF Next

(* A list that is loading is answered, and however the platform repeats    *)
(* its cursors a list takes at most one page more than there are cursors:  *)
(* loading comes to an end when the platform has finitely many.            *)
THEOREM SubscribingLoadingEnds ==
  ASSUME IsFiniteSet(Cursor)
  PROVE  Spec => []LoadingEnds
<1>1. Init => PagesFit
  BY DEF Init, LibraryInit, NoStages, PagesFit
<1>2. TypeInv /\ ListsInv /\ PagesFit /\ [Next]_vars => PagesFit'
  BY StepFits
<1>3. PagesFit => PagingEnds
  BY DEF PagesFit, Fits, PagingEnds
<1>4. LoadingIsReal /\ PagingEnds => LoadingEnds
  BY DEF LoadingEnds
<1>. QED
  BY <1>1, <1>2, <1>3, <1>4, InitTypes, StepTypes, InitLists, StepLists, SubscribingLoadingIsReal, PTL DEF Spec

----------------------------------------------------------------------------
(* The snapshot of the updates.                                            *)

LEMMA FewerBefore ==
  ASSUME NEW S \in SUBSET Item, NEW T \in SUBSET S, NEW i
  PROVE  /\ Cardinality({j \in S : j < i}) \in Nat /\ Cardinality({j \in T : j < i}) \in Nat
         /\ Cardinality({j \in T : j < i}) <= Cardinality({j \in S : j < i})
<1>. DEFINE A == {j \in S : j < i}
            B == {j \in T : j < i}
<1>1. IsFiniteSet(S)
  BY FS_Subset, LibraryAssumption
<1>2. IsFiniteSet(A)
  BY <1>1, FS_Subset
<1>3. B \in SUBSET A
  OBVIOUS
<1>. HIDE DEF A, B
<1>4. IsFiniteSet(B) /\ Cardinality(B) <= Cardinality(A)
  BY <1>2, <1>3, FS_Subset
<1>5. Cardinality(A) \in Nat /\ Cardinality(B) \in Nat
  BY <1>2, <1>4, FS_CardinalityType
<1>. QED  BY <1>4, <1>5 DEF A, B

(* The newest of the newest are all of them.                               *)
LEMMA NewestAgain ==
  ASSUME NEW S \in SUBSET Item, NEW n \in Nat
  PROVE  Newest(Newest(S, n), n) = Newest(S, n)
<1>. DEFINE T == Newest(S, n)
<1>1. T \in SUBSET S
  BY DEF Newest
<1>2. ASSUME NEW i \in T
      PROVE  Cardinality({j \in T : j < i}) < n
  <2>1. Cardinality({j \in S : j < i}) < n
    BY <1>2 DEF Newest
  <2>. HIDE DEF T
  <2>. DEFINE all == Cardinality({j \in S : j < i})
              kept == Cardinality({j \in T : j < i})
  <2>2. all \in Nat /\ kept \in Nat /\ kept <= all
    BY <1>1, FewerBefore
  <2>3. all < n
    BY <2>1
  <2>. HIDE DEF all, kept
  <2>4. kept < n
    BY <2>2, <2>3
  <2>. QED  BY <2>4 DEF kept
<1>. HIDE DEF T
<1>3. Newest(T, n) = T
  BY <1>2 DEF Newest
<1>. QED  BY <1>3 DEF T

(* When there are not too many, nothing is cut.                            *)
LEMMA NewestAll ==
  ASSUME NEW S \in SUBSET Item, NEW n \in Nat, Cardinality(S) <= n
  PROVE  Newest(S, n) = S
<1>1. IsFiniteSet(S)
  BY FS_Subset, LibraryAssumption
<1>2. ASSUME NEW i \in S
      PROVE  Cardinality({j \in S : j < i}) < n
  <2>1. IsFiniteSet(S \ {i}) /\ Cardinality(S \ {i}) = Cardinality(S) - 1
    BY <1>1, <1>2, FS_RemoveElement
  <2>2. {j \in S : j < i} \in SUBSET (S \ {i})
    BY <1>2, LibraryAssumption
  <2>3. Cardinality({j \in S : j < i}) <= Cardinality(S \ {i})
    BY <2>1, <2>2, FS_Subset
  <2>4. Cardinality(S) \in Nat
    BY <1>1, FS_CardinalityType
  <2>5. Cardinality({j \in S : j < i}) \in Nat
    BY <2>1, <2>2, FS_Subset, FS_CardinalityType
  <2>. QED  BY <2>1, <2>3, <2>4, <2>5
<1>. QED  BY <1>2 DEF Newest

(* What a snapshot keeps is the newest that were shown, and it says it is  *)
(* all only when it is.                                                    *)
Shows(row, view) ==
  /\ row.items = Newest(view.items, SnapshotLimit)
  /\ row.complete => row.items = view.items

LEMMA SnapshotShows ==
  ASSUME NEW view \in View
  PROVE  /\ Shows(Snapshot(view), view)
         /\ Snapshot(view).items = Newest(Snapshot(view).items, SnapshotLimit)
<1>1. SnapshotLimit \in Nat /\ view.items \in SUBSET Item
  BY LibraryAssumption DEF View
<1>. DEFINE all == (view.complete /\ Cardinality(view.items) <= SnapshotLimit)
            items == Newest(view.items, SnapshotLimit)
<1>2. Snapshot(view) =
        [view EXCEPT !.cursor = NoCursor, !.status = "cached", !.items = items, !.complete = all]
  BY DEF Snapshot, View
<1>3. all => items = view.items
  BY <1>1, NewestAll
<1>4. items = Newest(items, SnapshotLimit)
  BY <1>1, NewestAgain
<1>. HIDE DEF all, items
<1>5. Snapshot(view).items = items /\ Snapshot(view).complete = all
  BY <1>2 DEF View
<1>. QED  BY <1>3, <1>4, <1>5 DEF Shows, items

SnapshotTrue ==
  "updates" \in Kind =>
    /\ \A s \in Scope :
         cache[s]["updates"] # None =>
           cache[s]["updates"].items = Newest(cache[s]["updates"].items, SnapshotLimit)
    /\ stages["updates"] # None /\ cache[scope]["updates"] # None =>
         Shows(cache[scope]["updates"], stages["updates"].view)

(* Neither the updates that are shown nor their snapshot change.           *)
LEMMA SnapshotFrame ==
  ASSUME SnapshotTrue, scope' = scope,
         "updates" \in Kind =>
           /\ \A s \in Scope : cache'[s]["updates"] = cache[s]["updates"]
           /\ scope \in Scope
           /\ stages'["updates"] # None =>
                stages["updates"] # None /\ stages'["updates"].view.items = stages["updates"].view.items
  PROVE  SnapshotTrue'
BY DEF SnapshotTrue, Shows

LEMMA SnapshotAsked ==
  ASSUME TypeInv, SnapshotTrue, NEW t \in Task,
         (\E kind \in Kind : Refresh(t, kind) \/ More(t, kind)) \/ RefreshUpdates(t)
  PROVE  SnapshotTrue'
<1>1. scope' = scope /\ cache' = cache /\ scope \in Scope
  BY Members DEF Refresh, More, RefreshUpdates
<1>2. stages \in [Kind -> Stage \cup {None}]
  BY DEF TypeInv, TypeOK
<1>3. ASSUME NEW kind \in Kind, Refresh(t, kind)
      PROVE  SnapshotTrue'
  <2>1. stages'["updates"] = stages["updates"]
    BY <1>2, <1>3 DEF Refresh, Request
  <2>. QED  BY <1>1, <2>1, SnapshotFrame
<1>4. ASSUME NEW kind \in Kind, More(t, kind)
      PROVE  SnapshotTrue'
  <2>1. stages[kind] # None /\ stages' = [stages EXCEPT ![kind] = Asked(stages[kind])]
    BY <1>4 DEF More, Request, Asked
  <2>2. Asked(stages[kind]).view = stages[kind].view
    BY <2>1, Members, AskedShape
  <2>3. "updates" \in Kind => (stages'["updates"] # None =>
          stages["updates"] # None /\ stages'["updates"].view.items = stages["updates"].view.items)
    BY <1>2, <2>1, <2>2
  <2>. QED  BY <1>1, <2>3, SnapshotFrame
<1>5. ASSUME RefreshUpdates(t)
      PROVE  SnapshotTrue'
  <2>1. "updates" \in Kind /\ revision < MaxRevision
    BY <1>5 DEF RefreshUpdates
  <2>2. PICK view \in View, seen \in SUBSET Cursor :
          /\ stages' = [stages EXCEPT !["updates"] = Asked(NewStage(view, seen))]
          /\ IF stages["updates"] = None THEN view = ReadCache("updates") ELSE view = stages["updates"].view
    <3>1. ReadCache("updates") \in View
      BY <2>1, CacheShape
    <3>2. stages["updates"] # None => stages["updates"].view \in View /\ stages["updates"].seen \in SUBSET Cursor
      BY <2>1, Members DEF Stage
    <3>3. CASE stages["updates"] = None
      <4>1. stages' = [stages EXCEPT !["updates"] = Asked(NewStage(ReadCache("updates"), {}))]
        BY <1>5, <3>3 DEF RefreshUpdates, Request, Asked
      <4>2. {} \in SUBSET Cursor
        OBVIOUS
      <4>. DEFINE view == ReadCache("updates")
      <4>3. view \in View /\ stages' = [stages EXCEPT !["updates"] = Asked(NewStage(view, {}))]
        BY <3>1, <4>1
      <4>. HIDE DEF view
      <4>4. stages["updates"] = None => view = ReadCache("updates")
        BY DEF view
      <4>. QED  BY <3>3, <4>2, <4>3, <4>4
    <3>4. CASE stages["updates"] # None
      BY <1>5, <3>2, <3>4 DEF RefreshUpdates, Request, Asked
    <3>. QED  BY <3>3, <3>4
  <2>. DEFINE stage == NewStage(view, seen)
  <2>3. stage \in Stage /\ stage.view = view
    BY <2>1, NewStageShape DEF TypeInv
  <2>4. stages' = [stages EXCEPT !["updates"] = Asked(stage)]
    BY <2>2
  <2>. HIDE DEF stage
  <2>5. stages'["updates"].view = view
    BY <1>2, <2>1, <2>3, <2>4, AskedShape
  <2>6. ASSUME cache[scope]["updates"] # None
        PROVE  Shows(cache[scope]["updates"], view)
    <3>1. CASE stages["updates"] = None
      <4>1. view.items = cache[scope]["updates"].items
        BY <2>1, <2>2, <2>6, <3>1, CacheShape
      <4>2. cache[scope]["updates"].items = Newest(cache[scope]["updates"].items, SnapshotLimit)
        BY <1>1, <2>1, <2>6 DEF SnapshotTrue
      <4>. QED  BY <4>1, <4>2 DEF Shows
    <3>2. CASE stages["updates"] # None
      BY <2>1, <2>2, <2>6, <3>2 DEF SnapshotTrue
    <3>. QED  BY <3>1, <3>2
  <2>. QED  BY <1>1, <2>1, <2>5, <2>6 DEF SnapshotTrue
<1>. QED  BY <1>3, <1>4, <1>5

LEMMA SnapshotStep ==
  ASSUME TypeInv, SnapshotTrue, NEW t \in Task, LibraryStep(t)
  PROVE  SnapshotTrue'
<1>1. scope' = scope /\ scope \in Scope
  BY Members, ListsKeepLedger
<1>2. stages \in [Kind -> Stage \cup {None}] /\ cache \in [Scope -> [Kind -> View \cup {None}]]
  BY DEF TypeInv, TypeOK
<1>3. CASE (\E kind \in Kind : Refresh(t, kind) \/ More(t, kind)) \/ RefreshUpdates(t)
  BY <1>3, SnapshotAsked
<1>4. ASSUME NEW kind \in Kind, Cancel(t, kind)
      PROVE  SnapshotTrue'
  <2>. DEFINE stage == stages[kind]
              new == Cancelled(kind, stage)
  <2>1. stage # None /\ stages' = [stages EXCEPT ![kind] = new] /\ cache' = cache
    BY <1>4 DEF Cancel
  <2>2. stage \in Stage /\ stage.view \in View
    BY <2>1, Members
  <2>. HIDE DEF stage
  <2>3. PICK status \in Status : new.view = [stage.view EXCEPT !.status = status]
    <3>1. \E status \in Status :
            /\ Cancelled(kind, stage) \in Stage /\ Same(Cancelled(kind, stage), stage)
            /\ ~Cancelled(kind, stage).loading
            /\ Cancelled(kind, stage).revision = stage.revision + 1
            /\ Cancelled(kind, stage).seen = stage.seen
            /\ Cancelled(kind, stage).view = [stage.view EXCEPT !.status = status]
            /\ status \in {"partial", stage.view.status}
            /\ kind # "updates" /\ ~stage.view.complete => status = "partial"
      BY <2>2, CancelledShape, Zenon
    <3>. QED  BY <3>1, Zenon
  <2>. HIDE DEF new
  <2>4. new.view.items = stage.view.items
    BY <2>2, <2>3, StatusShape
  <2>5. "updates" \in Kind => (stages'["updates"] # None =>
          stages["updates"] # None /\ stages'["updates"].view.items = stages["updates"].view.items)
    BY <1>2, <2>1, <2>4 DEF stage
  <2>. QED  BY <1>1, <2>1, <2>5, SnapshotFrame
<1>5. CASE FailUpdates(t)
  <2>. DEFINE stage == stages["updates"]
  <2>1. cache' = cache /\ task[t].kind = "updates" /\ Current(t) /\ task[t].phase = "net"
        /\ stages' = [stages EXCEPT !["updates"] = Failed(stage)]
    BY <1>5, FailUpdatesOutcome
  <2>2. "updates" \in Kind /\ stage # None /\ stage \in Stage /\ stage.view \in View
    BY <2>1, CurrentFacts
  <2>3. Failed(stage).view = [stage.view EXCEPT !.status = "error"]
    BY <2>2, FailedShape
  <2>4. Failed(stage).view.items = stage.view.items
    BY <2>2, <2>3, StatusShape DEF Status
  <2>. QED  BY <1>1, <1>2, <2>1, <2>2, <2>4, SnapshotFrame
<1>6. CASE TakeUpdates(t)
  <2>. DEFINE stage == stages["updates"]
  <2>1. task[t].kind = "updates" /\ Current(t) /\ task[t].phase = "net"
    BY <1>6, TakeUpdatesOutcome
  <2>2. "updates" \in Kind /\ stage \in Stage
    BY <2>1, CurrentFacts
  <2>3. PICK page \in Page :
          /\ stages' = [stages EXCEPT !["updates"] = UpdatesAfter(t, stage, page)]
          /\ cache' = [cache EXCEPT ![scope]["updates"] = Snapshot(UpdatesAfter(t, stage, page).view)]
    BY <1>6, TakeUpdatesOutcome
  <2>. DEFINE next == UpdatesAfter(t, stage, page)
              row == Snapshot(next.view)
  <2>4. next.view \in View
    BY <2>2, UpdatesAfterShape
  <2>5. stages' = [stages EXCEPT !["updates"] = next] /\ cache' = [cache EXCEPT ![scope]["updates"] = row]
    BY <2>3
  <2>. HIDE DEF next
  <2>6. Shows(row, next.view) /\ row.items = Newest(row.items, SnapshotLimit)
    BY <2>4, SnapshotShows
  <2>. HIDE DEF row
  <2>7. stages'["updates"] = next /\ cache'[scope]["updates"] = row
        /\ \A s \in Scope \ {scope} : cache'[s]["updates"] = cache[s]["updates"]
    BY <1>1, <1>2, <2>2, <2>5
  <2>. QED  BY <1>1, <2>2, <2>6, <2>7 DEF SnapshotTrue
<1>7. CASE FailPage(t) \/ TakePage(t)
  <2>1. Current(t) /\ task[t].phase = "net" /\ task[t].kind # "updates"
    BY <1>7 DEF FailPage, TakePage
  <2>. DEFINE kind == task[t].kind
  <2>2. kind \in Kind
    BY <2>1, CurrentFacts
  <2>3. \E new : stages' = [stages EXCEPT ![kind] = new]
    <3>1. CASE FailPage(t)
      BY <3>1, FailOutcome
    <3>2. CASE TakePage(t)
      BY <3>2, TakeOutcome
    <3>. QED  BY <1>7, <3>1, <3>2
  <2>4. cache' = cache \/ \E row : cache' = [cache EXCEPT ![scope][kind] = row]
    <3>1. CASE FailPage(t)
      BY <3>1 DEF FailPage
    <3>2. CASE TakePage(t)
      BY <3>2, TakeOutcome
    <3>. QED  BY <1>7, <3>1, <3>2
  <2>. HIDE DEF kind
  <2>5. kind # "updates"
    BY <2>1 DEF kind
  <2>6. "updates" \in Kind => stages'["updates"] = stages["updates"]
    BY <1>2, <2>3, <2>5
  <2>7. "updates" \in Kind => \A s \in Scope : cache'[s]["updates"] = cache[s]["updates"]
    BY <1>2, <2>4, <2>5
  <2>. QED  BY <1>1, <2>6, <2>7, SnapshotFrame
<1>8. CASE Stale(t) \/ Peek(t) \/ OverlaySubscriptions(t) \/ Return(t)
  <2>1. UNCHANGED <<stages, cache>>
    BY <1>8 DEF Stale, Peek, OverlaySubscriptions, Return
  <2>. QED  BY <1>1, <2>1, SnapshotFrame
<1>. QED  BY <1>3, <1>4, <1>5, <1>6, <1>7, <1>8 DEF LibraryStep

LEMMA StepSnapshot == TypeInv /\ SnapshotTrue /\ [Next]_vars => SnapshotTrue'
<1>. SUFFICES ASSUME TypeInv, SnapshotTrue, [Next]_vars PROVE SnapshotTrue'
  OBVIOUS
<1>1. CASE \E t \in Task : LibraryStep(t)
  BY <1>1, SnapshotStep
<1>2. CASE UNCHANGED vars \/ \E a \in Adder : AddStep(a)
  <2>1. UNCHANGED <<scope, cache>> /\ \A k \in Kind : stages'[k] \in {None, stages[k]}
    BY <1>2, AddLists DEF vars, libraryVars
  <2>. QED  BY <2>1, Members, SnapshotFrame
<1>3. CASE ClearCache \/ Leave \/ \E account \in Account : Join(account)
  <2>1. /\ stages' = NoStages
        /\ cache' \in {cache, [cache EXCEPT ![scope] = NoStages], [s \in Scope |-> NoStages]}
    BY <1>3 DEF ClearCache, Leave, Join, NewEpoch, Logout, Connect
  <2>2. cache \in [Scope -> [Kind -> View \cup {None}]]
    BY DEF TypeInv, TypeOK
  <2>3. "updates" \in Kind => \A s \in Scope : cache'[s]["updates"] \in {None, cache[s]["updates"]}
    BY <2>1, <2>2 DEF NoStages
  <2>4. "updates" \in Kind => stages'["updates"] = None
    BY <2>1 DEF NoStages
  <2>. QED  BY <2>3, <2>4 DEF SnapshotTrue
<1>. QED  BY <1>1, <1>2, <1>3 DEF Next

(* The updates in memory and their snapshot agree: a refresh or a page     *)
(* that fails in any way leaves both, and a cut snapshot is not complete.  *)
THEOREM SubscribingSnapshotIsWhatIsShown == Spec => []SnapshotIsWhatIsShown
<1>1. Init => SnapshotTrue
  BY DEF Init, LibraryInit, NoStages, SnapshotTrue
<1>2. SnapshotTrue => SnapshotIsWhatIsShown
  BY DEF SnapshotTrue, Shows, SnapshotIsWhatIsShown
<1>. QED  BY <1>1, <1>2, InitTypes, StepTypes, StepSnapshot, PTL DEF Spec

---------------------------------------------------------------------------
(* Receipts and the lists that take over from them.                        *)

Overtakable == Kind \cap {"subscriptions", "updates"}

(* The lists of the subscriptions and of the updates there are were begun  *)
(* after every receipt there is: issuing one throws older lists away.      *)
KnownTrue == \A k \in Overtakable : stages[k] # None => Issued \subseteq stages[k].known

LEMMA KnownFrame ==
  ASSUME KnownTrue, Issued' \subseteq Issued,
         \A k \in Overtakable :
           stages'[k] # None => stages[k] # None /\ stages'[k].known = stages[k].known
  PROVE  KnownTrue'
BY DEF KnownTrue, Overtakable

LEMMA KnownSame ==
  ASSUME TypeInv, KnownTrue, Issued' \subseteq Issued,
         NEW kind \in Kind, stages[kind] # None,
         NEW new, Same(new, stages[kind]), stages' = [stages EXCEPT ![kind] = new]
  PROVE  KnownTrue'
<1>1. stages \in [Kind -> Stage \cup {None}]
  BY DEF TypeInv, TypeOK
<1>2. ASSUME NEW k \in Overtakable, stages'[k] # None
      PROVE  stages[k] # None /\ stages'[k].known = stages[k].known
  <2>1. CASE kind = k
    BY <1>1, <1>2, <2>1 DEF Same
  <2>2. CASE kind # k
    BY <1>1, <1>2, <2>2 DEF Overtakable
  <2>. QED  BY <2>1, <2>2
<1>. QED  BY <1>2, KnownFrame

LEMMA KnownBegun ==
  ASSUME TypeInv, KnownTrue, UNCHANGED <<scope, epoch, receipts, subEpoch, confirmed>>,
         NEW kind \in Kind, NEW view \in View, NEW seen \in SUBSET Cursor, revision < MaxRevision,
         stages' = [stages EXCEPT ![kind] = Asked(NewStage(view, seen))]
  PROVE  KnownTrue'
<1>1. stages \in [Kind -> Stage \cup {None}]
  BY DEF TypeInv, TypeOK
<1>. DEFINE new == Asked(NewStage(view, seen))
<1>2. new.known = confirmed \cup receipts[scope]
  BY NewStageShape, AskedShape DEF TypeInv, Same
<1>. HIDE DEF new
<1>3. Issued' = Issued /\ Issued \subseteq confirmed \cup receipts[scope]
  BY DEF Issued, OfEpoch
<1>4. stages' = [stages EXCEPT ![kind] = new]
  BY DEF new
<1>5. ASSUME NEW k \in Overtakable, stages'[k] # None
      PROVE  Issued' \subseteq stages'[k].known
  <2>1. CASE k = kind
    <3>1. stages'[k] = new
      BY <1>1, <1>4, <2>1
    <3>. QED  BY <1>2, <1>3, <3>1
  <2>2. CASE k # kind
    <3>1. stages'[k] = stages[k]
      BY <1>1, <1>4, <2>2 DEF Overtakable
    <3>. QED  BY <1>3, <1>5, <3>1 DEF KnownTrue
  <2>. QED  BY <2>1, <2>2
<1>. QED  BY <1>5 DEF KnownTrue, Overtakable

(* What a page of a list does to the receipts: those that go are in the    *)
(* complete list that has just been written.                               *)
LEMMA TakeRetires ==
  ASSUME TypeInv, NEW t \in Task, TakePage(t)
  PROVE  /\ Issued' \subseteq Issued
         /\ \A p : (p \in receipts[scope] \ receipts'[scope] \/ p \in OfEpoch(confirmed) \ confirmed')
              => /\ task[t].kind = "subscriptions"
                 /\ cache'[scope]["subscriptions"] # None
                 /\ p \in cache'[scope]["subscriptions"].items
<1>. DEFINE kind == task[t].kind
            stage == stages[kind]
<1>1. /\ receipts \in [Scope -> SUBSET Item] /\ cache \in [Scope -> [Kind -> View \cup {None}]]
      /\ scope \in Scope
  BY DEF TypeInv, TypeOK
<1>2. UNCHANGED <<epoch, scope, subEpoch>> /\ Current(t) /\ task[t].phase = "net"
  BY TakeOutcome
<1>3. kind \in Kind /\ stage \in Stage
  BY <1>2, CurrentFacts
<1>4. CASE UNCHANGED <<receipts, confirmed>>
  BY <1>2, <1>4 DEF Issued, OfEpoch
<1>5. CASE \E page \in Page :
             /\ cache' = [cache EXCEPT ![scope][kind] = Merged(t, stage, page).view]
             /\ \E retired \in SUBSET Merged(t, stage, page).view.items :
                  /\ retired # {} => kind = "subscriptions"
                  /\ receipts' = [receipts EXCEPT ![scope] = @ \ retired]
                  /\ confirmed' = IF subEpoch = epoch THEN confirmed \ retired ELSE confirmed
  <2>1. PICK page \in Page :
             /\ cache' = [cache EXCEPT ![scope][kind] = Merged(t, stage, page).view]
             /\ \E retired \in SUBSET Merged(t, stage, page).view.items :
                  /\ retired # {} => kind = "subscriptions"
                  /\ receipts' = [receipts EXCEPT ![scope] = @ \ retired]
                  /\ confirmed' = IF subEpoch = epoch THEN confirmed \ retired ELSE confirmed
    BY <1>5
  <2>. DEFINE view == Merged(t, stage, page).view
  <2>2. view \in View
    BY <1>3, MergedShape
  <2>3. PICK retired \in SUBSET view.items :
                  /\ retired # {} => kind = "subscriptions"
                  /\ receipts' = [receipts EXCEPT ![scope] = @ \ retired]
                  /\ confirmed' = IF subEpoch = epoch THEN confirmed \ retired ELSE confirmed
    BY <2>1
  <2>4. cache' = [cache EXCEPT ![scope][kind] = view]
    BY <2>1
  <2>. HIDE DEF view
  <2>5. cache'[scope][kind] = view /\ view # None
    BY <1>1, <1>3, <2>2, <2>4, Constants
  <2>6. receipts'[scope] = receipts[scope] \ retired
    BY <1>1, <2>3
  <2>7. OfEpoch(confirmed)' = OfEpoch(confirmed) \ retired
    BY <1>2, <2>3 DEF OfEpoch
  <2>8. OfEpoch(confirmed) \ confirmed' \subseteq retired
    BY <1>2, <2>3 DEF OfEpoch
  <2>. QED  BY <1>2, <2>3, <2>5, <2>6, <2>7, <2>8 DEF Issued
<1>6. UNCHANGED <<receipts, confirmed>>
      \/ \E page \in Page :
             /\ cache' = [cache EXCEPT ![scope][kind] = Merged(t, stage, page).view]
             /\ \E retired \in SUBSET Merged(t, stage, page).view.items :
                  /\ retired # {} => kind = "subscriptions"
                  /\ receipts' = [receipts EXCEPT ![scope] = @ \ retired]
                  /\ confirmed' = IF subEpoch = epoch THEN confirmed \ retired ELSE confirmed
  BY TakeOutcome
<1>. QED  BY <1>4, <1>5, <1>6

LEMMA KnownList ==
  ASSUME TypeInv, KnownTrue, NEW t \in Task, LibraryStep(t)
  PROVE  KnownTrue'
<1>1. UNCHANGED <<epoch, scope, subEpoch>>
  BY ListsKeepLedger
<1>2. stages \in [Kind -> Stage \cup {None}]
  BY DEF TypeInv, TypeOK
<1>3. Issued' \subseteq Issued
  <2>1. CASE UNCHANGED <<receipts, confirmed>>
    BY <1>1, <2>1 DEF Issued, OfEpoch
  <2>. QED  BY <2>1, ListsKeepLedger, TakeRetires
<1>4. ASSUME NEW kind \in Kind, Refresh(t, kind)
      PROVE  KnownTrue'
  <2>. DEFINE view == [EmptyView EXCEPT !.status = "loading"]
  <2>1. /\ revision < MaxRevision /\ UNCHANGED <<epoch, scope, receipts, subEpoch, confirmed>>
        /\ stages' = [stages EXCEPT ![kind] = Asked(NewStage(view, {}))]
    BY <1>4 DEF Refresh, Request, Asked
  <2>2. view \in View /\ {} \in SUBSET Cursor
    BY Views
  <2>. HIDE DEF view
  <2>. QED  BY <2>1, <2>2, KnownBegun
<1>5. ASSUME NEW kind \in Kind, More(t, kind)
      PROVE  KnownTrue'
  <2>1. stages[kind] # None /\ stages' = [stages EXCEPT ![kind] = Asked(stages[kind])]
    BY <1>5 DEF More, Request, Asked
  <2>2. Same(Asked(stages[kind]), stages[kind])
    BY <2>1, Members, AskedShape
  <2>. QED  BY <1>3, <2>1, <2>2, KnownSame
<1>6. CASE RefreshUpdates(t)
  <2>1. /\ "updates" \in Kind /\ revision < MaxRevision
        /\ UNCHANGED <<epoch, scope, receipts, subEpoch, confirmed>>
    BY <1>6 DEF RefreshUpdates
  <2>2. PICK view \in View, seen \in SUBSET Cursor :
          stages' = [stages EXCEPT !["updates"] = Asked(NewStage(view, seen))]
    <3>1. ReadCache("updates") \in View
      BY <2>1, CacheShape
    <3>2. stages["updates"] # None => stages["updates"].view \in View /\ stages["updates"].seen \in SUBSET Cursor
      BY <2>1, Members DEF Stage
    <3>. QED  BY <1>6, <3>1, <3>2 DEF RefreshUpdates, Request, Asked
  <2>. QED  BY <2>1, <2>2, KnownBegun
<1>7. ASSUME NEW kind \in Kind, Cancel(t, kind)
      PROVE  KnownTrue'
  <2>1. stages[kind] # None /\ stages' = [stages EXCEPT ![kind] = Cancelled(kind, stages[kind])]
    BY <1>7 DEF Cancel
  <2>2. stages[kind] \in Stage
    BY <2>1, Members
  <2>3. Same(Cancelled(kind, stages[kind]), stages[kind])
    BY <2>2, CancelledShape
  <2>. QED  BY <1>3, <2>1, <2>3, KnownSame
<1>8. CASE FailUpdates(t) \/ TakeUpdates(t)
  <2>1. "updates" \in Kind /\ stages["updates"] # None /\ stages["updates"] \in Stage
    BY <1>8, FailUpdatesOutcome, TakeUpdatesOutcome, CurrentFacts
  <2>2. \E new : Same(new, stages["updates"]) /\ stages' = [stages EXCEPT !["updates"] = new]
    BY <1>8, <2>1, FailUpdatesOutcome, FailedShape, TakeUpdatesOutcome, UpdatesAfterShape
  <2>. QED  BY <1>3, <2>1, <2>2, KnownSame
<1>9. CASE FailPage(t) \/ TakePage(t)
  <2>. DEFINE kind == task[t].kind
              stage == stages[kind]
  <2>1. Current(t) /\ task[t].phase = "net"
    BY <1>9 DEF FailPage, TakePage
  <2>2. kind \in Kind /\ stage # None /\ stage \in Stage
    BY <2>1, CurrentFacts
  <2>3. \E new : Same(new, stage) /\ stages' = [stages EXCEPT ![kind] = new]
    <3>1. CASE FailPage(t)
      <4>1. PICK new \in Stage :
              /\ stages' = [stages EXCEPT ![kind] = new]
              /\ \/ new = Failed(stage)
                 \/ cache[scope][kind] # None /\ new = Fallback(stage, cache[scope][kind])
        BY <3>1, FailOutcome
      <4>. DEFINE row == cache[scope][kind]
      <4>2. row # None => row \in View
        BY <2>2, Members
      <4>3. new = Failed(stage) \/ (row # None /\ new = Fallback(stage, row))
        BY <4>1
      <4>. HIDE DEF row, stage
      <4>4. Same(Failed(stage), stage) /\ (row \in View => Same(Fallback(stage, row), stage))
        BY <2>2, FailedShape, FallbackShape
      <4>5. Same(new, stage)
        BY <4>2, <4>3, <4>4
      <4>. QED  BY <4>1, <4>5 DEF stage
    <3>2. CASE TakePage(t)
      <4>1. \/ \E page \in Page : stages' = [stages EXCEPT ![kind] = Merged(t, stage, page)]
            \/ \E new \in Stage :
                 /\ stages' = [stages EXCEPT ![kind] = new]
                 /\ new.id = stage.id /\ new.known = stage.known
        BY <3>2, TakeOutcome
      <4>2. \A page \in Page : Same(Merged(t, stage, page), stage)
        BY <2>2, MergedShape
      <4>. QED  BY <4>1, <4>2 DEF Same
    <3>. QED  BY <1>9, <3>1, <3>2
  <2>. QED  BY <1>3, <2>2, <2>3, KnownSame
<1>10. CASE Stale(t) \/ Peek(t) \/ OverlaySubscriptions(t) \/ Return(t)
  <2>1. stages' = stages
    BY <1>10 DEF Stale, Peek, OverlaySubscriptions, Return
  <2>. QED  BY <1>3, <2>1, KnownFrame
<1>. QED  BY <1>4, <1>5, <1>6, <1>7, <1>8, <1>9, <1>10 DEF LibraryStep

(* Issuing a receipt leaves no list it would be missing from; otherwise an *)
(* addition issues none and drops none.                                    *)
LEMMA AddIssues ==
  ASSUME TypeInv, NEW a \in Adder, AddStep(a)
  PROVE  /\ Issued \subseteq Issued' /\ OfEpoch(confirmed) \subseteq confirmed'
         /\ receipts[scope] \subseteq receipts'[scope]
         /\ \/ \A k \in Overtakable : stages'[k] = None
            \/ Issued' = Issued /\ stages' = stages
<1>1. scope' = scope /\ epoch' = epoch
  BY AddLists
<1>2. receipts \in [Scope -> SUBSET Item] /\ scope \in Scope
  BY DEF TypeInv, TypeOK
<1>3. CASE UNCHANGED <<subEpoch, confirmed, stages, receipts>>
  BY <1>1, <1>3 DEF Issued, OfEpoch
<1>4. ASSUME NEW podcast \in Podcast, NEW press \in Press, BeginAdd(a, podcast, press)
      PROVE  Issued' = Issued /\ stages' = stages /\ confirmed' = OfEpoch(confirmed) /\ receipts' = receipts
  BY <1>1, <1>4 DEF BeginAdd, Issued, OfEpoch
<1>5. ASSUME NEW p, ConfirmSubscription(p)
      PROVE  /\ Issued \subseteq Issued' /\ OfEpoch(confirmed) \subseteq confirmed'
             /\ receipts[scope] \subseteq receipts'[scope]
             /\ \A k \in Overtakable : stages'[k] = None
  <2>1. receipts[scope] \subseteq receipts'[scope]
    BY <1>2, <1>5 DEF ConfirmSubscription
  <2>2. subEpoch' = epoch /\ confirmed' = OfEpoch(confirmed) \cup {p}
    BY <1>5 DEF ConfirmSubscription
  <2>3. \A k \in Overtakable : stages'[k] = None
    BY <1>5 DEF ConfirmSubscription, Overtaken, Overtakable
  <2>. QED  BY <1>1, <2>1, <2>2, <2>3 DEF Issued, OfEpoch
<1>6. \/ UNCHANGED <<subEpoch, confirmed, stages, receipts>>
      \/ \E podcast \in Podcast, press \in Press : BeginAdd(a, podcast, press)
      \/ \E p : ConfirmSubscription(p)
  BY DEF AddStep, BeginCheck, SendAdd, AnswerAdd, Verify, ConfirmAdd, Release, AnswerCheck, Readback, libraryVars
<1>. QED  BY <1>3, <1>4, <1>5, <1>6

LEMMA StepKnown == TypeInv /\ KnownTrue /\ [Next]_vars => KnownTrue'
<1>. SUFFICES ASSUME TypeInv, KnownTrue, [Next]_vars PROVE KnownTrue'
  OBVIOUS
<1>1. CASE \E t \in Task : LibraryStep(t)
  BY <1>1, KnownList
<1>2. CASE \E a \in Adder : AddStep(a)
  BY <1>2, AddIssues DEF KnownTrue
<1>3. CASE ClearCache \/ Leave \/ \E account \in Account : Join(account)
  BY <1>3 DEF ClearCache, Leave, Join, NewEpoch, Logout, Connect, NoStages, KnownTrue, Overtakable
<1>4. CASE UNCHANGED vars
  BY <1>4 DEF vars, libraryVars, KnownTrue, Issued, OfEpoch
<1>. QED  BY <1>1, <1>2, <1>3, <1>4 DEF Next

LEMMA InitKnown == Init => KnownTrue
BY DEF Init, LibraryInit, NoStages, KnownTrue, Overtakable

(* A receipt of this account goes only when a complete list begun after it *)
(* was issued has been written and contains the podcast.                   *)
THEOREM SubscribingReceiptsOutliveOldLists == Spec => ReceiptsOutliveOldLists
<1>. DEFINE Retired(p) == p \in receipts[scope] \ receipts'[scope] \/ p \in OfEpoch(confirmed) \ confirmed'
            Listed(p) == /\ p \in stages["subscriptions"].known
                         /\ cache'[scope]["subscriptions"] # None
                         /\ p \in cache'[scope]["subscriptions"].items
<1>1. ASSUME TypeInv, KnownTrue, Next, epoch' = epoch, NEW p \in Item, Retired(p)
      PROVE  Listed(p)
  <2>1. ASSUME NEW t \in Task, TakePage(t)
        PROVE  Listed(p)
    <3>1. /\ task[t].kind = "subscriptions"
          /\ cache'[scope]["subscriptions"] # None
          /\ p \in cache'[scope]["subscriptions"].items
      BY <1>1, <2>1, TakeRetires
    <3>2. "subscriptions" \in Kind /\ stages["subscriptions"] # None
      BY <1>1, <2>1, <3>1, TakeOutcome, CurrentFacts
    <3>3. p \in Issued
      BY <1>1 DEF Issued
    <3>. QED  BY <1>1, <3>1, <3>2, <3>3 DEF KnownTrue, Overtakable
  <2>2. ASSUME NEW t \in Task, LibraryStep(t), ~TakePage(t)
        PROVE  FALSE
    <3>1. receipts' = receipts /\ confirmed' = confirmed
      BY <2>2, ListsKeepLedger
    <3>. QED  BY <1>1, <3>1 DEF OfEpoch
  <2>3. ~(\E a \in Adder : AddStep(a))
    BY <1>1, AddIssues
  <2>4. ~ClearCache
    BY <1>1 DEF ClearCache, OfEpoch
  <2>5. ~Leave /\ ~(\E account \in Account : Join(account))
    <3>1. epoch' # epoch + 1
      BY <1>1, Members
    <3>. QED  BY <3>1 DEF Leave, Join, NewEpoch, Logout, Connect
  <2>. QED  BY <1>1, <2>1, <2>2, <2>3, <2>4, <2>5 DEF Next
<1>2. TypeInv /\ KnownTrue /\ [Next]_vars =>
        [epoch' = epoch => \A p \in Item : Retired(p) => Listed(p)]_vars
  BY <1>1
<1>3. Init => KnownTrue
  BY InitKnown
<1>4. [epoch' = epoch => \A p \in Item : Retired(p) => Listed(p)]_vars =>
      [epoch' = epoch =>
         \A p \in Item :
           (p \in receipts[scope] \ receipts'[scope] \/ p \in OfEpoch(confirmed) \ confirmed')
             => /\ p \in stages["subscriptions"].known
                /\ cache'[scope]["subscriptions"] # None
                /\ p \in cache'[scope]["subscriptions"].items]_vars
  OBVIOUS
<1>. HIDE DEF Retired, Listed
<1>. QED
  BY <1>2, <1>3, <1>4, InitTypes, StepTypes, StepKnown, PTL DEF Spec, ReceiptsOutliveOldLists

(* Only a page that finds its list under way fills a row of the cache.     *)
LEMMA RowIsOfStage ==
  ASSUME TypeInv, Next, epoch' = epoch, NEW k \in Overtakable,
         cache'[scope][k] \notin {cache[scope][k], None}
  PROVE  stages[k] # None
<1>1. cache \in [Scope -> [Kind -> View \cup {None}]] /\ scope \in Scope /\ k \in Kind
  BY DEF TypeInv, TypeOK, Overtakable
<1>2. cache' # cache
  OBVIOUS
<1>3. ~(\E a \in Adder : AddStep(a))
  BY <1>2 DEF AddStep, BeginCheck, BeginAdd, SendAdd, AnswerAdd, Verify, ConfirmAdd, Release, AnswerCheck, libraryVars
<1>4. ~ClearCache
  BY <1>1 DEF ClearCache, NoStages
<1>5. ~Leave /\ ~(\E account \in Account : Join(account))
  <2>1. epoch' # epoch + 1
    BY Members
  <2>. QED  BY <2>1 DEF Leave, Join, NewEpoch, Logout, Connect
<1>6. PICK t \in Task : TakePage(t) \/ TakeUpdates(t)
  BY <1>2, <1>3, <1>4, <1>5 DEF Next, LibraryStep, Refresh, RefreshUpdates, More, Peek, Cancel, Stale, FailPage,
                               FailUpdates, OverlaySubscriptions, Return
<1>7. task[t].phase = "net" /\ Current(t)
  BY <1>6 DEF TakePage, TakeUpdates
<1>8. task[t].kind \in Kind /\ stages[task[t].kind] # None
  BY <1>7, CurrentFacts
<1>9. k = task[t].kind
  <2>1. \E row : cache' = [cache EXCEPT ![scope][task[t].kind] = row]
    <3>1. CASE TakePage(t)
      BY <1>2, <3>1, TakeOutcome
    <3>2. CASE TakeUpdates(t)
      BY <3>2, TakeUpdatesOutcome
    <3>. QED  BY <1>6, <3>1, <3>2
  <2>. QED  BY <1>1, <1>8, <2>1
<1>. QED  BY <1>8, <1>9

(* No page of a list of the subscriptions or of the updates that was begun *)
(* before an addition was confirmed is merged or kept after it.            *)
THEOREM SubscribingOldListsAreNotKept == Spec => OldListsAreNotKept
<1>. DEFINE Kept(k) == TakesPage(k) => Issued \subseteq stages[k].known
<1>1. ASSUME TypeInv, KnownTrue, Next, epoch' = epoch, NEW k \in Overtakable, TakesPage(k)
      PROVE  Issued \subseteq stages[k].known
  <2>1. stages[k] # None
    BY <1>1, RowIsOfStage DEF TakesPage
  <2>. QED  BY <1>1, <2>1 DEF KnownTrue
<1>2. TypeInv /\ KnownTrue /\ [Next]_vars => [epoch' = epoch => \A k \in Overtakable : Kept(k)]_vars
  BY <1>1
<1>3. [epoch' = epoch => \A k \in Overtakable : Kept(k)]_vars =>
      [epoch' = epoch =>
         \A kind \in Kind \cap {"subscriptions", "updates"} :
           TakesPage(kind) => Issued \subseteq stages[kind].known]_vars
  BY DEF Overtakable
<1>. HIDE DEF Kept
<1>. QED
  BY <1>2, <1>3, InitTypes, StepTypes, InitKnown, StepKnown, PTL DEF Spec, OldListsAreNotKept
=============================================================================
