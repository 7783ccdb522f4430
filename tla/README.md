# Starling desktop: specifications

TLA+ models of [Starling](../src/README.md), a desktop client written in Go
(Wails host) and TypeScript for a podcast platform: what the program keeps in
memory and on disk, how its concurrent calls, the platform's late or lost
answers, crashes and account switches interleave, and what must hold all the
same.  The modules are translated from the source; where a document or comment
says something else than the code does, a run shows the difference
(see *Disagreements*).

## 1. The system

    page (TypeScript)  --App.Call-->  application service (internal/app)
                                        |  Commit/DoAt/...      |  Get/Put
                                        v                       v
                                session manager           local store (SQLite)
                                (internal/session)
                                  |  Save/Load/Clear   |  List/Detail/Progress/...
                                  v                    v
                                vault              platform client (internal/provider)

Bridge calls run concurrently, each in a goroutine of its own.  All share the
session manager, whose mutex orders every commit; the service has a second
mutex taken inside it.  No lock is held during a call to the platform, so
between asking and using the answer anything may happen.

| component | state | operations | what is hard | what makes it correct |
| --- | --- | --- | --- | --- |
| session manager | epoch, state, identity, credentials, flight, QR and SMS attempt, closed | SMS/QR login and their cancellation, restore, reads with refresh and one replay, single writes, guest reads, Commit, logout, Close | late answers in a new epoch, several reads rejected at once, refresh around logout and exit, vault failures | data of one account never under another; nothing deleted comes back; one refresh at a time; every call ends |
| progress synchronisation | one row per account and episode (local position, baseline, pending upload, conflict, revision), a gate, a cancel handle, backoff | save, prepare, choose, retry, worker | two devices and their clocks, lost replies, crash between upload and acknowledgement, settings and accounts changing under way | what the listener did last is neither lost nor overwrites what another device left; uploads are settled |
| playback resolution | epoch, generation, ordered, current request and its cancel | resolve, cancel, bootstrap | bridge calls arrive out of order; cancel before its request; reload | the latest intent wins, and is served |
| library and updates | stages by list (items, cursor, seen, loading, revision), cache rows | cached, refresh, more, cancel | late page after cancel or refresh, repeated cursors, failure in the middle of a page | pages of one listing only; only a proven end replaces the cache |
| subscribing, commenting | ledgers of request ids, busy marks, receipts | one write each, readback of an uncertain one | retry of a call in flight, account switch, full ledger | a write is sent at most once; a confirmed one stays visible |
| discovery | search epoch and generation, history rows | search, suggestions, history | older search answering later | results belong to the current query |
| platform client | slots, cooldown by host | request with retries | backoff holds a slot; cooldown begins while waiting | a rate limit is respected; writes are not repeated |
| vault | one protected file or keychain item | save, load, clear | crash between steps, failing removal | either the old or the new session, never a deleted one |
| host | quit gate, fallback timer | close request, quitReady | page hangs or event lost | it always quits, after the page saved if it can |
| player (page) | request serial, save chain, pending seek, dialog | play, pause, seek, save, choose | answers after the listener moved on | the page plays and saves what was last asked for |

PROJECT.json lists every component with its sources, and every hazard at the
line where it bites with the properties that watch over it.  A property that is
a conjunction names its parts: `OperationsKeepApart`, `VaultAgrees`,
`EverythingSettles` and others gather what one run asks of one subject.  Every
module states its types; TypeOK of Session and of Playback is checked and proved,
those of the other modules are proved.

## 2. Modules

| module | models | extends or uses |
| --- | --- | --- |
| Session | session manager | |
| ProgressSync | playback progress synchronisation | |
| Playback, PlaybackIntent | resolution and the page's player; what the listener is promised | |
| Library, Subscribing | lists, updates and their cache; adding subscriptions, whose receipts are laid over the lists | Subscribing extends Library |
| Client, Community | the platform client's request; comments and searches made through it | Community extends Client |
| LocalLists | queue, bookmarks and search history of this device, and the page's copy of the queue | |
| Quit | closing the window and leaving | |
| Vault, SavedPair | the saved session's file; what it promises | Vault implements SavedPair |
| MC... | instances for TLC | the modules they are named after |
| SessionProofs, SessionSafety | theorems about Session: types and fences; who acts for whom | SessionSafety extends SessionProofs |
| ProgressProofs, PlaybackProofs, SubscribingProofs, CommunityProofs, QuitProofs | theorems | ProgressSync, Playback, Subscribing, Community, Quit |
| DeviceProofs | theorems about what is kept on this device | LocalLists, Vault |

Modules for different components share nothing but the session's epoch, which
each has as a variable of its own: that an epoch is one account, and that a
commit in another epoch does nothing, is what Session establishes.

Every invariant and every action property that a passing run checks is also a
theorem (section 12).  Left to do: to prove that the sessions Session, ProgressSync,
Playback, Subscribing, Community and LocalLists see are one abstract session
(epoch, owner, and which commits it admits) that Session implements, where each
now states its view of it in its own moves; and to show by refinement that a
progress row together with its upload implements a register whose latest
intent wins.

## 3. Session

`Session.tla` models `manager.go`, `qrcode.go` and `write.go`.

*State.*  `m` is the Manager's fields; `call[p]` is the frame of the method
goroutine `p` is in: its `pc` says which unlocked gap it is in, and `epoch`,
`token`, `id`, `base` are the local variables it carries over the gap (`base`:
the epoch an SMS login was asked for in, by which CancelLogin names it).  `flights` are
the refreshFlight objects with the goroutine of performRefresh.  `vault` is the
saved session; `owner`, `expired` and `spent` are the platform's knowledge of
credentials (external).  `store` collects rows written through Commit, tagged
with the account the answer was for.  `held`, `wiped`, `vaultWiped` and
`cancelled` are history, which no guard reads.

*Actions.*  One per lock section, named after the method or its part:
`LoginAt`, `Authenticate`, `Establish` (and its stale and refused forms),
`FinishFailure`, `CancelLogin`, `RestoreView/Load/Begin/Me`, `StartQR`,
`CreateQR`, `PollQR`, `PollExpired`, `ClearBusy`, `CancelQR`, `DoAt` (and
DoOnceAt), `Send`, the branches of refresh, `ProviderRefresh` and
`Install...` of performRefresh, `Reject`, `GuestRead`, `Commit`, `LogoutAt`,
`Close`.  A call to the platform ends with any answer the caller distinguishes,
or with its cancellation.  StartQR takes the lock twice before its call (View,
then beginAttempt, which looks at the epoch again) and is one step here.

*Abstractions.*  An account is its identity and its scope.  A credential pair
is one Token; expiry of the access and of the refresh token are separate.  An
SMS or QR attempt is named by its epoch instead of a secret.  retryAt of a
failed flight may have passed or not.  Rows carry no content.

*Bounds.*  Two accounts and two credential pairs (three where a rotation must
meet another rotation), two goroutines (three for two reads and a logout), and
three or four epochs: one account connects, logs out, and an account connects
again.  Every race the properties speak of is between one request in flight
and one change, or two requests and one change.  The live run has one account
and three epochs: what it asks, whether something waits for ever, does not
depend on who is connected, and a wait ends in the epoch it began or the next.

*Polls.*  Any goroutine may poll, and polls of several dialogs may overlap: a
dialog that is opened again, or a page loaded anew, starts a code of its own, in
an epoch of its own.  PollQR keeps two polls of one code apart by qrBusy, except
that a poll which finds the code too old looks at qrBusy only after it has
dropped the code (`qrcode.go:66`).  For those alone LastPollAnswered takes
something from the page: a code is polled again only when its last poll has
answered.  The id of a code is known to the one dialog that asked for it, and
the answer of a poll sets the timer of the next (`qr-login.ts:21-36`).  Called in
any other way the Manager breaks ScopeIsolation: of two polls of one code, one
finds it too old and makes the session a guest without a new epoch, the other
still connects the account, and what a guest's read brings between the two is
committed in the same epoch, and so filed under the account.

*What may stay in connecting.*  If the request that StartQR belongs to is
cancelled just as the platform has answered, `qrcode.go:33-35` returns without
finishFailure: the session says "connecting" with no code on show, CancelQR and
CancelLogin have nothing to name, every other attempt is refused as busy, and
only LogoutAt or the end of the program gets out of it.  The model has this step
for goroutines whose Role includes "abandon" (session_login); with "abandon" in
the roles of the live run TLC finds EverythingReturns violated by it.  The live
run leaves it out, because the desktop program passes StartQR the context of the
application, which is not cancelled while it runs (`desktop/main.go:133-196`).
Nor does EverythingReturns speak of a code that is on show: it waits for the
listener, also when the page that knew its id has been loaded anew.

| run | asks |
| --- | --- |
| `session_refresh` | a restored account, two requests of the page, expiring tokens, refresh, logout and exit |
| `session_login` | SMS and QR logins, restore, cancellation, logout, a guest's and an account's request and two polls in flight; a login that was cancelled, queued or answered late, connects nothing |
| `session_live` | under fairness, Restore, Login, StartQR, PollQR, the two cancellations, Do, DoOnceAt, LogoutAt and Close return, and no attempt stays in connecting without a code on show, nobody cancelling StartQR's request; a guest's read, which waits for no other call, is left to session_login |
| `session_rejected` | (violation) see *Disagreements* |

SingleFlight speaks of the refreshes that rejected calls start in one epoch; the
call by which Restore rotates the saved pair is made before anybody is connected
and is not one of them.

*Fairness.*  Weak fairness of every goroutine's next lock section and of every
refresh goroutine: locks are held for short sections, and every platform call
ends by the client's own time limit.  No method is obliged to be called.

## 4. ProgressSync

`ProgressSync.tla` models `progress_sync.go`, SaveProgress, and what
SaveSettings, logout, reset and a restart do to it.  The session appears as an
epoch and a scope; that a commit in another epoch does nothing is what Session
establishes.

*State.*  `rows` are the durable progressRecords; `gate` and `handle` are
progressGate and progressCancel; `status` is the backoff; `call[p]` is the frame
of an operation; `dialog` the conflict the page shows.  External: `cloud`, the
platform's records; `wire`, uploads under way, with what they were based on;
other devices.  `landed` and `seen`, and the field `by` of a record, are history.
The clock ticks between any two steps, so that it makes no difference that
SaveProgress reads it just before its commit.

*Actions.*  `SaveProgress`, `PrepareProgress`, `ChooseProgress`,
`ProgressRetry`, `Work` enter; `progressOperation`/`Refused` take the gate;
`Flush`, `LoadBefore`, `readCloud`, `reconcileProgress`, `Admit`,
`WriteProgress`, `Acknowledge` are the lock sections and calls of an operation;
`done`, `progressResult`, `progressView` leave it.  `Fail`, `GiveUp`, `Timeout`
and `Crash` end it early at any step, the upload it sent still landing later.

*Abstractions.*  Positions are in whole seconds, as every comparison with the
cloud floors them; duration, the ended mark and episode metadata are left out.
A guest or a switched-off program prepares playback with a view that has no
conflict.  NoLostIntent and NoSilentOverwrite compare times with the operators
reconcileProgress uses: that the window and the limit on clocks that run ahead
have the right edges is not checked.  The interval of "connecting" is part of `Connect`.  The worker's
waking is only that it may run; Close is an instance of Crash.  What shapes the
status line alone is left out.  The two Puts of putProgress fail separately.

*Bounds.*  One episode (two where a flush must go on to the next), two
positions, a clock of three ticks with an uncertainty window of one: enough for
older, newer, within the window and ahead of the clock.  Two or three revisions:
the one in flight, the one after it, and a choice.  One late upload and one or
two foreign records.  `Event` names what may happen around the operations in a
run, `Role` what each goroutine does; guest playback, which no operation reads,
occurs where `Event` has it.  `progress_accounts` has two
uses, and a state outside both is not continued: page and worker across four
epochs with one revision, one position and nothing happening elsewhere; and a
dialog beside saves and preparations within one account, with three revisions.
Its properties are of single states and steps, so the constraint hides nothing
inside a use.

| run | asks |
| --- | --- |
| `progress_outbox` | saves against reconcile and upload, with another device, crashes, store faults, time limits, late uploads and the setting |
| `progress_accounts` | two uses: page and worker operations in flight across logout, another login, reset, guest playback and time limits; and a dialog that may be stale when answered |
| `progress_live` | under fairness every upload is settled and every operation returns |
| `progress_own_conflict`, `progress_stale_conflict` | (violation) see *Disagreements* |

*Fairness.*  Weak fairness of the steps inside an operation (short sections,
calls with time limits) and of the backoff's end.  Strong fairness where code
gives it: the worker's timer goes on; waiters of a Go channel are served first
come first served, so a goroutine that keeps finding the gate open gets it; and
the platform, asked again and again, answers and receives in the end.  The live
run has no time limit that always strikes; without the last assumption nothing
can be uploaded at all.

## 5. Playback

`Playback.tla` models resolve, cancelResolve and what else touches the play
fields of the service (`playback.go`, Bootstrap, clearTransientLocked), composed
with the callers: the page's Player (`player.ts`: start, pause, toggle, clear)
and the shell's reload.  `PlaybackIntent.tla` is what the listener is promised.

*State.*  `play` is the service's fence; `calls` are bridge calls not yet
handled, which are handled in any order; `running` are the resolves between
their two commits, at the platform; `page` is the Player; `tasks` are its
continuations, that is the awaits of start and toggle; `boot` is an answer of
Bootstrap that the page has not applied.  A request is named by its page and
serial, as requestId is.  `by` and `stopped` are history.

*Actions.*  `StaleCall`, `RefuseResolve`, `BeginResolve` are the first commit of
resolve, `FinishResolve` its second, `FailResolve` its error returns;
`CancelResolve` is cancelResolve; `Bootstrap` and `observeGeneration` the two
ends of reload; `LoadPage` a page loaded anew, whose predecessor's calls are
still under way; `start` ... `clear` the Player's methods up to their first
await and `ask` ... `fail` what follows; `LegacyCall` a caller that sends no
generation.

*Abstractions.*  Items and positions are left out: what is asked for is the
request.  The save that start awaits always returns.  Buffering counts as
playing, the end of an episode as an error, since neither resumes.  The
session's moves are `MoveEpoch` and `ClearTransient`; Session models them.

*Bounds.*  Three generations: a request, its successor, and a pause or
resumption on top.  Two epochs, two pages, two calls at the bridge (enough to
overtake), one legacy caller, which asks when nothing else is at the platform.
After both a change of account and a page loaded anew there are two generations
(the constraint `NotAllAtOnce`).

| run | asks |
| --- | --- |
| `playback` | the newest selection is served whatever the order of arrival; stopped requests stay stopped; no work is left behind; the page plays what was last asked for |

NewestIsServed excepts a generation that another caller has set.  A page loaded
anew learns the generation from Bootstrap, but calls of its predecessor that are
handled later may still raise it, and then its first selection is refused.  And
when a reload brings a new epoch in the middle of start, the continuation
returns and the Player shows "resolving" until the listener acts; no property
promises more.

## 6. Lists and subscriptions

`Library.tla` models Library (`library.go`), updates (`updates.go`), ClearCache
and the end of a page as the adapter decodes it (`page.go`, `client.go`,
`public.go`).  `Subscribing.tla` adds `subscription.go`: one store, one session,
lists and additions side by side.

*State.*  `stages` are the lists in memory, `cache` and `receipts` the rows on
disk, `confirmed` and `subEpoch` the receipts in memory; `task` are the calls
between two lock sections; `attempts`, `busy`, `pending` are the ledger of
additions and `add` the calls of AddSubscription and SubscriptionStatus.  `on`
is the platform's list of subscriptions (external).  `whole` and `known` of a
view and a stage, `account` of a call, and `sent` are history.

*Actions.*  `Refresh`, `RefreshUpdates`, `More`, `Cancel`, `Peek` are the first
lock section of the modes of Library; `Stale`, `TakePage`, `FailPage`,
`TakeUpdates`, `FailUpdates` the second; `OverlaySubscriptions` lays the
receipts over a view, in a third; without a list to cancel, `Cancel` gives the
empty view that `Peek` may give.  `BeginAdd`, `SendAdd`, `AnswerAdd`, `Verify`,
`ConfirmAdd`, `Release` are the steps of an addition, `BeginCheck` and
`AnswerCheck` of a status query.  `Join`, `Leave`, `ClearCache` come from
outside; rows are deleted or the store fails.

*Abstractions.*  An item is a number; a smaller one was published later.  A
response is what its two end markers say and a set of items; `List` decodes it.
A stage is named by the revision it was made with, where the code compares
addresses.  The order of items, which no property speaks of, is left out, except
that a snapshot keeps the newest.  An item that cannot be decoded fails the
request in the adapter, so the check of items inside the service never fails.
An account that must log in again reads episodes as a guest does
(`library.go:152`); here it reads them as itself.  The Detail that AddSubscription
reads between success and confirmation is no step of its own: when it fails the
call ends unconfirmed, as it does when `Verify` finds nothing.  `on` only grows: it is what was once subscribed, and unsubscribing
elsewhere, after which a receipt may outlive the subscription, is left out.

*What a view may hide.*  A list of the subscriptions or of the updates that was
begun before an addition was confirmed is cancelled by it, and
OldListsAreNotKept says that no page of such a list is merged or kept.  That is
not all that `docs/DISCOVERY.md:19` may be read to say (an old page must not wipe
out the podcast just confirmed).  A call reads its view in one lock section and
lays the receipts over it in the next; when a view without the podcast has been
read before the confirmation, and a later list that has the podcast is completed
and retires the receipt before the second section, the older view is given to
the page as it is.  The next reading shows the podcast.

*Bounds.*  Two accounts, two cursors (a repeated one and a way round), two
items, two calls and two additions.  `ItemLimit` 2 and `SnapshotLimit` 1 are
reached; `PageLimit`, above what the cursors allow, is not.  `MCSubscribing` has seven uses, so that each pair of things that
interact is run side by side: two reads and an addition (of subscriptions and of
updates), two additions and a status query, each kind of list across account
changes, additions across account changes.  Lists beside additions have two
pages; the others may go on to four, one more than two cursors can name, so that
endless paging would show.  Accounts, cursors and calls are symmetric: no
property tells them apart and no liveness is checked.

| run | asks |
| --- | --- |
| `library` | a cached list is one listing of its account; loading always has an answer under way; paging ends; memory and snapshot of the updates agree; receipts are true and outlive older lists; no list begun before an addition is kept after it; an addition goes out once and never stays locked |

## 7. Client, comments, searches

`Client.tla` models request (`provider/client.go`): slots, the cooldown per
host, attempts and backoff, cancellation.  `Community.tla` models what calls it:
creating a comment, searching, reading comments.

*State.*  `call[c]` is where a request is, `cooldown` the seconds left of a
host's cooldown; `op[c]` is what the service does with the call.  `exempt`,
`sent`, `posted`, `told`, `seen`, `given` are history.

*Actions.*  `RequestBegins`, `Acquire`, `LookAgain`, `Send`, `Wake` and the
answers `Lost`, `ServerError`, `TooMany`, `Answer` are the steps of request.
`AdmitComment`, `CallComment`, `FinishComment`, `AdmitSearch`, `CallSearch`,
`FinishSearch`, `ReadComments`, `FinishRead` are the lock sections around it.
`Leave` is clearTransientLocked.

*What is assumed of the platform.*  That it has not done what it answers with a
refusal (401, 403, 429, 400); after a lost, failed or unreadable answer it may
have.  NeverDeniesWhatWasPosted rests on it.

A call refused before it is sent because no client identity could be made
(INTERNAL) is among the refusals.

*Not there.*  A request rejected with 401 and refreshed is Session's; here it is
a refusal.  A search's suggestions and a creator's page have no fence.  QuietInCooldown
excepts a request that had looked at the cooldown just before the 429 came: the
lock is released before it is sent.

*Bounds.*  Two slots and three calls in one use, so that one waits; a cooldown
of up to two seconds; two attempts of a read; two clicks and two comments in one
thread; three epochs.  Each use has one of these at its full size.

## 8. Lists of this device

`LocalLists.tla` models localList (`playback.go`), DiscoveryHistory
(`discovery_history.go`) and the page's copy of the queue (queue, reload and
onEnded of `shell.ts`).  Each service call is one commit; what is interleaved is
the bridge, whose calls are handled and answered in any order, and changes of
account.  The bookmarks run through the same code as the queue.

Edits of one account that are answered out of order leave the page an older
copy of its queue until the next edit or reload, and at the end of an episode it
plays from that copy (`shell.ts:69`).  No property says otherwise; that the copy
is of the right account is QueueShownIsOwn.

*Bounds.*  A limit of two and three entries, so that lists are full; three
epochs, two calls and two reloads.

## 9. Leaving the program

`Quit.tla` models `desktop/main.go`, QuitGate and the tray of
`internal/desktop`, with the page's half: the chain of saves (`player.ts`) and
before-quit (`shell.ts`).

*State.*  `requested` and `allowed` are the gate, `dialog` the open question,
`closing` the presses of the close button that beforeClose is in, `timer` the
six seconds, `chain` the saves the page has queued and `ahead` those that
before-quit waits for.  `fallback` and `lostTray` are history.  `lostTray` stays true after the first
loss of the icon; the properties about a hidden window promise nothing from then on.

*Actions.*  `Close`, `Look`, `Choose`, `Hide`, `Exit` are the parts of
beforeClose between its dialogs; `TimeOut` is the goroutine of requestQuit;
`QuitRuns` is wails' Quit, which asks beforeClose in turn (external).  TimeOut
looks at the gate and opens it in one step; a page that gets ready in between
would have Quit called twice, which the model has for other reasons.  A Mac
hides the window by itself, so what reaches beforeClose there is quitting.

*Fairness.*  Weak fairness of `TimeOut` and `QuitRuns`: a timer fires and a
goroutine that calls Quit runs.  Nothing is assumed of the page, which may hang.

*Bounds.*  Two presses of the button, two queued saves and the one before-quit
adds.

## 10. The saved session

`Vault.tla` models FileVault (`vault.go`): Save, Clear and atomicWrite step by
step, each step failing or the process killed after it.  `SavedPair.tla` says
what Session relies on: the vault holds one session or none, a save or clearing
takes effect as a whole, and one that is said to have succeeded has.  The
refinement maps the file to the session that Load would return.  Not modelled is
a loss of power, where a renamed file may not be on disk yet, and the keychain,
each of whose operations is one call.

| run | asks |
| --- | --- |
| `desktop` | sections 7 to 10, each in uses of its own: they share no state |

## 11. Disagreements between the code and what is said of it

* `session_rejected`: a comment in write.go says that a concurrent successful
  refresh must not be invalidated by the old token.  If the refresh is still in
  flight when the write is rejected, the session asks for a new login and keeps
  asking after the refresh succeeded.
* `progress_own_conflict`: with no other device, a lost reply followed by a seek
  within five seconds is reported as a conflict of the device with itself.
* `progress_stale_conflict`: a conflict is kept and offered although a completed
  reconcile has just found the cloud's record older than the local one, or gone.

## 12. What is proved

TLAPS checks the theorems below for every value of the constants: any number of
goroutines, accounts, calls, clicks, items and pages, and every bound.  What they
assume is the named assumption of each module, which says that special values
differ from ordinary ones, that bounds are natural numbers and that constants have
their types.  Four of the assumptions say more:

* NoneAssumption of Library: no list is the value that stands for "no list";
* LibraryAssumption has finitely many items, since a snapshot is cut by counting;
* CommunityAssumption has threads of one level, as the platform lists comments;
* `SubscribingLoadingEnds` takes the cursors to be finitely many: it bounds the
  pages by their number.

Every invariant and action property of a passing run has its theorem; the
liveness properties have none (end of this section).

### Session

`SessionProofs.tla`:

* `SessionTypeCorrect`.  TypeOK alone is not inductive: a goroutine about to
  send must have credentials.  `TypeInv` adds that frames in the locations of
  `UsesCredentials`, a connected Manager and a running flight have a token.  One
  lemma per action.
* `SessionWipedStaysWiped`, `SessionRevokedStaysRevoked`.  `FenceInv` adds that
  no wipe lies in a later epoch than the current one, and that a row's or saved
  session's epoch is not in the future; a commit passes only in the current
  epoch, hence not before the wipe.
* `SessionClosedIsFinal`.  Every action that saves, writes, installs or starts
  a refresh has a guard that fails when closed; by cases over Next.

`SessionSafety.tla` rests on `OwnerInv`:

* FramesTrue: the pair a frame carries over a gap belongs to the account of the
  epoch the frame is about, and no frame is about an epoch to come;
* ManagerTrue: the history `held` says whose the current epoch is, and the pair
  in memory is that account's;
* AttemptsAlone: an epoch has one login attempt at most, of one kind, and none
  once an account is connected.  That is what makes Establish safe: no other
  attempt of this epoch can have connected somebody meanwhile;
* FlightsTrue: a running refresh is of an epoch that had an account, carries that
  account's pair, and in the current epoch there is one.

From it `SessionCredentials`, `SessionSingleFlight` and `SessionEpochKeepsAccount`.
`SessionVaultAgrees` adds that a persistent session has an account.
`SessionScopeIsolation` needs `GuestInv`: while an attempt may still connect, the
session says "connecting", so nobody reads as a guest; a poll that has found its
code expired and ends the attempt excludes every other step of it.  Any number
of goroutines may poll; the guard LastPollAnswered of PollExpired (section 3) is
used here.
`SessionCancelledLogin` is about answers: no step of an SMS login whose base has
been cancelled installs credentials.  `CancelInv` says that cancelled bases lie
before the current epoch, and that no login in flight about the current epoch has
one; a login about an earlier epoch is stopped by the fence of establish.

### Progress synchronisation

`ProgressProofs.tla` proves `Types`, `OneAtATime`, `NoUploadOverwritesSilently`,
`OnlyDueUploads`, `OperationsApart`, `OffStops`, `IntentIsKept` from

    SafeInv == TypeInv /\ Control /\ Truth

*Control*: an operation inside its steps holds the gate and the handle, one that
was switched off is cancelled, and none is of an epoch to come.  *Truth* relates
what is remembered to what was: the cloud holds only what landed; a row's baseline,
conflict and pending upload are what was read or written before (RowsTrue); a
frame of the current epoch agrees with its row as far as nobody may have changed
it since (FramesTrue); an upload under way was decided on a record that had been
read (WireTrue).  All of Truth is monotone in `landed`, `seen` and the clock, so
that an actor elsewhere, who only adds to these, keeps it (`Grows`, `AroundTrue`);
the proof then treats the steps of an operation one at a time.  reconcileProgress
is a chain of verdicts, taken in the order of the code's returns, and each is
shown to leave a row that is true (`Adopted`, `Settled`, `Rebased`, `Conflicted`).

`ChoicesAreInformed` has an invariant of its own: while the row still has the
token the dialog was opened with, it also has the two positions shown there.

### Playback

`PlaybackProofs.tla`:

* `PlaybackTypeCorrect`.
* `PlaybackOneLiveResolve`, `PlaybackStoppedStaysStopped`.  `FenceInv`: a resolve
  that is not cancelled is the one the fence names, with its generation, and is
  the only one; a waiting request whose cancel has been taken is of an earlier
  epoch or not above the fence's generation.  `Books` adds that nothing speaks
  of a future epoch and that a page's call carries its request's serial, without
  which a cancel might raise the fence by less than its request's generation.
* `PlaybackPlaysWhatIsWanted`: service, bridge and Player implement
  PlaybackIntent.  `PageInv`: a request is in one place at a time, a call, a
  resolve or a continuation of the Player (OnePlace); only the newest request of
  the page may turn into sound, and the Player is waiting for it wherever it is
  (LiveTrue); all that belongs to a request is of the epoch it was made in
  (SameEpoch).  The steps of the service are abstracted to moving one request on
  (`ServiceMove`), those of the listener to turning to a new one (`Turned`).
* `PlaybackWorkIsWanted`: a call or a resolve the listener has turned away from
  is cancelled, or its cancel is on its way (WorkTrue).
* `PlaybackNewestIsServed`: as long as this page set the fence, the fence is not
  past the page's newest request and has not been reached before that request
  (Served).

### Lists and subscriptions

`SubscribingProofs.tla`.  `TypeInv` adds to TypeOK that an answer under way is of
an epoch that has been, in the current one of the current account, and answers
for a stage that was made (`SubscribingTypes`).

* `SubscribingOneAdditionPerClick`, from `LedgerTrue`: an addition at work in this
  epoch stands in the ledger of this epoch, two never have the same podcast or
  click, and a click that has been sent is listed.
* `SubscribingReceiptsAreTrue`: what is confirmed is on the platform.
* `SubscribingPersistedListIsOneListing`, `SubscribingLoadingIsReal`, from
  `ListsInv`: a stage that is loading has exactly one request that may answer for
  it, which asks with the cursor the stage ended at (StagesTrue); all others have
  an older revision, another account or a cancelled stage.  A cached list is whole
  and, unless it is the updates, complete (CacheTrue).
* `SubscribingLoadingEnds`, from `PagesFit`: a list has at most one page more than
  cursors it has seen.
* `SubscribingSnapshotIsWhatIsShown`, from `SnapshotTrue`: a row holds the newest
  of what it was made from, so that it need not be known how it was cut.
* `SubscribingReceiptsOutliveOldLists`, `SubscribingOldListsAreNotKept`, from
  `KnownTrue`: the stages of the subscriptions and of the updates were begun with
  all receipts there are, since issuing one forgets them.

### Client, comments, searches

`CommunityProofs.tla`.  `TypeInv` adds that the slots taken are counted right, that
service and request are in step, and that a call waiting to try again has a try
left.

* `CommunitySlotsAreReturned`: the invariant says that the holders are finitely
  many, so that each step's change of the set is a change of its cardinality.
* `CommunityQuietInCooldown`: a call that has looked at a cooldown which is on now
  looked before it began.
* `CommunitySearchesAnswerInOrder`: what was given is of this epoch and not newer
  than the generation.
* `CommunityCommentsAreOrderly`, `CommunityNeverDeniesWhatWasPosted`, from
  `PostsInv`: a click belongs to one call, of the epoch it was made in, and what
  was sent and what the platform has follow from where that call is.  A comment is
  no read, so its request is never tried again.  A lemma reduces every step, as
  far as comments go, to admission, the call, its end, a step of the request, or a
  change of epoch.

### This device

`DeviceProofs.tla`.  The first part is about lists.  Without is the loop of
localList as a recursive function; that it exists and what it computes for every
list are shown by induction on natural numbers, which is derived from the
well-foundedness of < in a form without operator parameters (`Induction`,
`LoopExists`).  The lemmas say that it leaves out one entry and keeps the order
(`WithoutFacts`), and that it keeps "begins with" between two lists
(`WithoutBegins`), which is why cutting the search history to its limit before or
after an entry is taken out makes no difference.

* `DeviceListTypes`, `DeviceListsAreRight`, from `ListsInv`: on disk every list is
  without repetition and within its limit, and the search history is how the log
  of all searches begins (RowsTrue); of the copies of the queue, shown or on their
  way, each is its own owner's, and two copies of one epoch have one owner
  (CopiesTrue).  So a queue that replaces the one shown in the same epoch is the
  same account's.
* `VaultInvariant`.  TombstoneFirst is inductive together with the types: what is
  about to replace the file is what is being saved, and a removal belongs to a
  clearing.
* `VaultKeepsItsPromise`.  Every step of FileVault is a step of SavedPair or
  changes nothing of it.  The invariant is needed for Remove: only after the
  tombstone has replaced the file may a failing removal be called a success.

### Leaving

`QuitProofs.tla`: `QuitTypeCorrect`, `QuitLosesNothing`.  `Handshake` says that the
gate is open only when the fallback opened it or the page is done, that a page past
saving waits for nothing, that the timer starts with the first request, and how
often wails' Quit has been called; SavedBeforeExit follows.  `Asking` says that the
question is open for exactly one press, which is OneQuestion without counting.

### What stays with TLC

EverythingReturns, EverythingSettles and QuitCompletes are liveness under
fairness, for which ENABLED would be needed: out of the prover's reach.  That the
modules describe the same session is by design and not proved (section 2).  The
three violations are TLC's counterexamples.

## 13. What is not modelled

Rendering, decoding of the platform's JSON and HTML, URL validation, the
bindings of SQLite, encryption by the operating system, media keys and power
events, Dispatch (it decodes a payload and calls one method), the demo server
and build scripts: stateless, or outside the program.  Of modelled components:
the wait between two SMS codes, seeks and the conflict dialog on the page's
side, navigation, the status line of synchronisation, and loss of power.
