-------------------------------- MODULE Quit --------------------------------
(***************************************************************************)
(* Closing the window and leaving the program: the App of desktop/main.go, *)
(* QuitGate and the tray of internal/desktop, and the page's half of the   *)
(* handshake (nativeEvents of shell.ts, persist of player.ts).  The host   *)
(* asks the page to save and waits for its answer, or for six seconds.     *)
(* beforeClose runs once for every press of the close button and for every *)
(* call of wails' Quit, and several may be under way.                      *)
(***************************************************************************)
EXTENDS Integers, FiniteSets

CONSTANTS
  Closing, \* presses of the close button under way at once
  MaxSaves \* bound on the saves the page has queued

ASSUME QuitAssumption == MaxSaves \in Nat \ {0}

VARIABLES
  process,            \* whether the program is up, on Windows or on a Mac, or gone
  requested, allowed, \* QuitGate
  dialog,             \* App.dialog: the question is on the screen
  closing,            \* where each press of the close button is
  behavior,           \* Settings.CloseBehavior
  tray,               \* Info.Tray
  visible,            \* the main window
  timer,              \* the six seconds of requestQuit
  quits,              \* calls of wails' Quit that have not run
  page,               \* the page's half
  chain, ahead,       \* saves the page has queued; those before-quit waits for
  fallback, lostTray  \* history: the timer ended it; the icon could not be put back

hostVars == <<process, requested, allowed, dialog, closing, behavior, tray, visible, timer, quits>>
pageVars == <<page, chain, ahead>>
quitVars == <<hostVars, pageVars, fallback, lostTray>>

Behaviors == {"ask", "tray", "exit"}

QuitTypeOK ==
  /\ process \in {"windows", "mac", "gone"}
  /\ requested \in BOOLEAN /\ allowed \in BOOLEAN /\ dialog \in BOOLEAN
  /\ closing \in [Closing -> {"idle", "looked", "asking", "tray", "exit"}]
  /\ behavior \in Behaviors /\ tray \in BOOLEAN /\ visible \in BOOLEAN
  /\ timer \in {"off", "on", "over"} /\ quits \in 0..2
  /\ page \in {"loading", "listening", "saving", "flushing", "ready", "done"}
  /\ chain \in 0..(MaxSaves + 1) /\ ahead \in 0..chain
  /\ fallback \in BOOLEAN /\ lostTray \in BOOLEAN

(* The native integration has not started yet: there is no tray.           *)
QuitInit ==
  /\ process \in {"windows", "mac"}
  /\ requested = FALSE /\ allowed = FALSE /\ dialog = FALSE
  /\ closing = [k \in Closing |-> "idle"]
  /\ behavior \in Behaviors /\ tray = FALSE /\ visible = TRUE
  /\ timer = "off" /\ quits = 0
  /\ page = "loading" /\ chain = 0 /\ ahead = 0
  /\ fallback = FALSE /\ lostTray = FALSE

Up == process # "gone"

To(k, where) == closing' = [closing EXCEPT ![k] = where]

---------------------------------------------------------------------------
(* requestQuit: the first request tells the page, if it listens, and       *)
(* starts the six seconds.  Before-quit pauses the player and persists: if *)
(* there is anything to save, that goes to the end of the chain, which it  *)
(* waits for.                                                              *)
requestQuit ==
  IF requested THEN UNCHANGED <<requested, timer, pageVars>>
  ELSE /\ requested' = TRUE /\ timer' = "on"
       /\ IF page = "listening"
          THEN page' = "saving" /\ chain' \in {chain, chain + 1} /\ ahead' = chain'
          ELSE UNCHANGED pageVars

Allow == allowed' = TRUE /\ quits' = quits + 1

(* The gate stays shut.                                                    *)
TimeOutQuits ==
  /\ Up /\ timer = "on" /\ timer' = "over"
  /\ quits' = quits + (IF allowed THEN 0 ELSE 1) /\ fallback' = ~allowed
  /\ UNCHANGED <<process, requested, allowed, dialog, closing, behavior, tray, visible, pageVars,
                 lostTray>>

TimeOut ==
  /\ Up /\ timer = "on" /\ timer' = "over"
  /\ IF allowed THEN UNCHANGED <<allowed, quits, fallback>> ELSE Allow /\ fallback' = TRUE
  /\ UNCHANGED <<process, requested, dialog, closing, behavior, tray, visible, pageVars, lostTray>>

(* wails' Quit asks beforeClose, which has the program end if the gate is  *)
(* open.  It is called only with the gate open.                            *)
QuitRuns ==
  /\ Up /\ quits > 0 /\ quits' = quits - 1
  /\ process' = IF allowed THEN "gone" ELSE process
  /\ UNCHANGED <<requested, allowed, dialog, closing, behavior, tray, visible, timer, pageVars,
                 fallback, lostTray>>

---------------------------------------------------------------------------
(* beforeClose, for a press of the close button.  A Mac hides the window   *)
(* by itself then; what reaches beforeClose there is ordinary quitting.    *)
Close(k) ==
  /\ Up /\ closing[k] = "idle"
  /\ IF allowed THEN process' = "gone" /\ UNCHANGED closing
                ELSE To(k, "looked") /\ UNCHANGED process
  /\ UNCHANGED <<requested, allowed, dialog, behavior, tray, visible, timer, quits, pageVars,
                 fallback, lostTray>>

(* One question at a time: while it is open, another press does nothing.   *)
Look(k) ==
  /\ Up /\ closing[k] = "looked"
  /\ \/ /\ requested \/ (process = "windows" /\ behavior = "ask" /\ dialog)
        /\ To(k, "idle") /\ UNCHANGED dialog
     \/ /\ ~requested /\ process = "windows" /\ behavior = "ask" /\ ~dialog
        /\ dialog' = TRUE /\ To(k, "asking")
     \/ /\ ~requested /\ process = "windows" /\ behavior # "ask"
        /\ To(k, behavior) /\ UNCHANGED dialog
     \/ /\ ~requested /\ process = "mac"
        /\ To(k, "exit") /\ UNCHANGED dialog
  /\ UNCHANGED <<process, requested, allowed, behavior, tray, visible, timer, quits, pageVars,
                 fallback, lostTray>>

(* Forgets that the question is gone when it was not answered.             *)
ChooseOrForget(k) ==
  /\ Up /\ closing[k] = "asking"
  /\ \E choice \in {"idle", "tray", "exit"} : To(k, choice) /\ dialog' = (choice = "idle")
  /\ UNCHANGED <<process, requested, allowed, behavior, tray, visible, timer, quits, pageVars,
                 fallback, lostTray>>

(* A dialog that fails answers like the cancel button.                     *)
Choose(k) ==
  /\ Up /\ closing[k] = "asking"
  /\ dialog' = FALSE
  /\ \E choice \in {"idle", "tray", "exit"} : To(k, choice)
  /\ UNCHANGED <<process, requested, allowed, behavior, tray, visible, timer, quits, pageVars,
                 fallback, lostTray>>

(* Whether or not there is a tray.                                         *)
HideAnyway(k) ==
  /\ Up /\ closing[k] = "tray"
  /\ visible' = FALSE /\ To(k, "idle")
  /\ UNCHANGED <<process, requested, allowed, dialog, behavior, tray, timer, quits, pageVars,
                 fallback, lostTray>>

(* Without a tray the window stays, and a warning says so.                 *)
Hide(k) ==
  /\ Up /\ closing[k] = "tray"
  /\ visible' = (visible /\ ~tray)
  /\ To(k, "idle")
  /\ UNCHANGED <<process, requested, allowed, dialog, behavior, tray, timer, quits, pageVars,
                 fallback, lostTray>>

Exit(k) ==
  /\ Up /\ closing[k] = "exit"
  /\ requestQuit
  /\ To(k, "idle")
  /\ UNCHANGED <<process, allowed, dialog, behavior, tray, visible, quits, fallback, lostTray>>

(* Settings saved while a press is under way.                              *)
Configure ==
  /\ Up /\ behavior' \in Behaviors
  /\ UNCHANGED <<process, requested, allowed, dialog, closing, tray, visible, timer, quits,
                 pageVars, fallback, lostTray>>

---------------------------------------------------------------------------
(* The tray: addTray at the start and whenever the taskbar is created      *)
(* anew; its icon shows the window, its menu leaves the program.           *)
addTray ==
  /\ Up /\ tray' \in BOOLEAN
  /\ lostTray' = (lostTray \/ (tray /\ ~tray'))
  /\ UNCHANGED <<process, requested, allowed, dialog, closing, behavior, visible, timer, quits,
                 pageVars, fallback>>

Show ==
  /\ Up /\ tray /\ visible' = TRUE
  /\ UNCHANGED <<process, requested, allowed, dialog, closing, behavior, tray, timer, quits,
                 pageVars, fallback, lostTray>>

MenuQuit ==
  /\ Up /\ (tray \/ process = "mac")
  /\ requestQuit
  /\ UNCHANGED <<process, allowed, dialog, closing, behavior, tray, visible, quits, fallback,
                 lostTray>>

---------------------------------------------------------------------------
(* The page.  It may be slow, or never answer.                             *)
PageStep == Up /\ UNCHANGED <<process, requested, dialog, closing, behavior, tray, visible, timer,
                              fallback, lostTray>>

PageListens ==
  /\ PageStep /\ page = "loading" /\ page' = "listening"
  /\ UNCHANGED <<chain, ahead, allowed, quits>>

(* While it plays, and again when the listener resumes after before-quit.  *)
SaveQueued ==
  /\ PageStep /\ page # "loading" /\ chain < MaxSaves
  /\ chain' = chain + 1
  /\ UNCHANGED <<page, ahead, allowed, quits>>

(* A save settles also when it fails.                                      *)
SaveSettles ==
  /\ PageStep /\ chain > 0
  /\ chain' = chain - 1
  /\ ahead' = IF ahead > 0 THEN ahead - 1 ELSE 0
  /\ UNCHANGED <<page, allowed, quits>>

(* Without waiting for the chain.                                          *)
PersistedAtOnce ==
  /\ PageStep /\ page = "saving" /\ page' = "flushing"
  /\ UNCHANGED <<chain, ahead, allowed, quits>>

Persisted ==
  /\ PageStep /\ page = "saving" /\ ahead = 0 /\ page' = "flushing"
  /\ UNCHANGED <<chain, ahead, allowed, quits>>

(* progress.flush, whose failure is ignored.                               *)
Flushed ==
  /\ PageStep /\ page = "flushing" /\ page' = "ready"
  /\ UNCHANGED <<chain, ahead, allowed, quits>>

(* The page asks only after before-quit, so that quitReady is not refused. *)
quitReady ==
  /\ PageStep /\ page = "ready" /\ requested
  /\ Allow
  /\ page' = "done"
  /\ UNCHANGED <<chain, ahead>>

QuitNext ==
  \/ \E k \in Closing : Close(k) \/ Look(k) \/ Choose(k) \/ Hide(k) \/ Exit(k)
  \/ TimeOut \/ QuitRuns
  \/ Configure \/ addTray \/ Show \/ MenuQuit
  \/ PageListens \/ SaveQueued \/ SaveSettles \/ Persisted \/ Flushed \/ quitReady

(* Timers fire and what Quit starts runs; nothing is asked of the page or  *)
(* of the listener.                                                        *)
QuitFairness == WF_quitVars(TimeOut) /\ WF_quitVars(QuitRuns)

QuitSpec == QuitInit /\ [][QuitNext]_quitVars /\ QuitFairness

---------------------------------------------------------------------------
(* Once leaving is asked for, the program ends, whatever the page does:    *)
(* the fallback of requestQuit.                                            *)
QuitCompletes == requested ~> process = "gone"

(* Unless the fallback ended it, the program ends after before-quit's save *)
(* and all those queued before it have settled.                            *)
SavedBeforeExit == process = "gone" /\ ~fallback => page = "done" /\ ahead = 0

(* The question is on the screen exactly while one press waits for its     *)
(* answer: it can always be asked again, and never twice.                  *)
OneQuestion ==
  Cardinality({k \in Closing : closing[k] = "asking"}) = IF dialog THEN 1 ELSE 0

(* A hidden window can be found again, unless its icon was lost later.     *)
HiddenIsReachable == ~visible => tray \/ lostTray

(* No way of closing loses a save, the question or the window: all of these.*)
ClosingLosesNothing == SavedBeforeExit /\ OneQuestion /\ HiddenIsReachable
=============================================================================
