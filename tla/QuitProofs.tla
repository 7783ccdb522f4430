------------------------------ MODULE QuitProofs ------------------------------
(* Closing loses nothing: the safety of Quit, for every number of presses  *)
(* of the close button and of queued saves.                                *)
EXTENDS Quit, FiniteSetTheorems, TLAPS

(* The gate is opened by the fallback or by the page, which is done only   *)
(* after the saves it waits for; there is a call of wails' Quit for each.  *)
Handshake ==
  /\ page \in {"loading", "listening"} => chain <= MaxSaves
  /\ page \in {"flushing", "ready", "done"} => ahead = 0
  /\ allowed => fallback \/ page = "done"
  /\ process = "gone" => allowed
  /\ ~requested => timer = "off"
  /\ timer # "over" => ~fallback
  /\ page # "done" \/ ~fallback => quits <= 1
  /\ page # "done" /\ ~fallback => quits = 0

(* The question is on the screen for one press.                            *)
Asking ==
  /\ \A k \in Closing : closing[k] = "asking" => dialog
  /\ \A j, k \in Closing : closing[j] = "asking" /\ closing[k] = "asking" => j = k
  /\ dialog => \E k \in Closing : closing[k] = "asking"

QuitInv == QuitTypeOK /\ Handshake /\ Asking /\ HiddenIsReachable

---------------------------------------------------------------------------
LEMMA QuitInitially == ASSUME QuitInit PROVE QuitInv
<1>1. QuitTypeOK
  <2>1. /\ process \in {"windows", "mac", "gone"} /\ behavior \in Behaviors
        /\ requested \in BOOLEAN /\ allowed \in BOOLEAN /\ dialog \in BOOLEAN
        /\ tray \in BOOLEAN /\ visible \in BOOLEAN
        /\ fallback \in BOOLEAN /\ lostTray \in BOOLEAN
    BY DEF QuitInit
  <2>2. closing \in [Closing -> {"idle", "looked", "asking", "tray", "exit"}]
    BY DEF QuitInit
  <2>3. /\ timer \in {"off", "on", "over"} /\ quits \in 0..2
        /\ page \in {"loading", "listening", "saving", "flushing", "ready", "done"}
        /\ chain \in 0..(MaxSaves + 1) /\ ahead \in 0..chain
    BY QuitAssumption DEF QuitInit
  <2> QED
    BY <2>1, <2>2, <2>3 DEF QuitTypeOK
<1>2. Handshake
  BY QuitAssumption DEF QuitInit, Handshake
<1>3. Asking /\ HiddenIsReachable
  BY DEF QuitInit, Asking, HiddenIsReachable
<1> QED
  BY <1>1, <1>2, <1>3 DEF QuitInv

(* Steps that leave the presses of the close button alone.                 *)
LEMMA PressesWait ==
  ASSUME Asking, UNCHANGED <<closing, dialog>>
  PROVE  Asking'
  BY DEF Asking

LEMMA RequestKeeps ==
  ASSUME QuitTypeOK, Handshake, requestQuit, UNCHANGED <<process, allowed, quits, fallback>>
  PROVE  /\ requested' \in BOOLEAN /\ timer' \in {"off", "on", "over"}
         /\ page' \in {"loading", "listening", "saving", "flushing", "ready", "done"}
         /\ chain' \in 0..(MaxSaves + 1) /\ ahead' \in 0..chain'
         /\ Handshake'
<1>1. CASE requested
  BY <1>1 DEF QuitTypeOK, Handshake, requestQuit, pageVars
<1>2. CASE ~requested /\ page = "listening"
  <2>1. /\ requested' = TRUE /\ timer' = "on" /\ page' = "saving"
        /\ chain' \in {chain, chain + 1} /\ ahead' = chain'
    BY <1>2 DEF requestQuit
  <2>2. chain \in 0..MaxSaves
    BY <1>2, QuitAssumption DEF QuitTypeOK, Handshake
  <2>3. chain' \in 0..(MaxSaves + 1) /\ ahead' \in 0..chain'
    BY <2>1, <2>2, QuitAssumption
  <2>4. Handshake'
    BY <1>2, <2>1 DEF QuitTypeOK, Handshake
  <2> QED
    BY <2>1, <2>3, <2>4
<1>3. CASE ~requested /\ page # "listening"
  <2>1. requested' = TRUE /\ timer' = "on" /\ UNCHANGED <<page, chain, ahead>>
    BY <1>3 DEF requestQuit, pageVars
  <2>2. Handshake'
    BY <2>1, <1>3 DEF QuitTypeOK, Handshake
  <2> QED
    BY <2>1, <2>2 DEF QuitTypeOK
<1> QED
  BY <1>1, <1>2, <1>3

---------------------------------------------------------------------------
(* The host.                                                               *)
LEMMA HostKeeps ==
  ASSUME QuitInv, TimeOut \/ QuitRuns \/ Configure \/ addTray \/ Show
  PROVE  QuitInv'
<1> USE QuitAssumption DEF QuitInv, pageVars
<1>1. Asking'
  BY PressesWait DEF TimeOut, QuitRuns, Configure, addTray, Show
<1>2. CASE TimeOut
  <2>1. CASE allowed
    BY <1>1, <1>2, <2>1 DEF TimeOut, QuitTypeOK, Handshake, HiddenIsReachable
  <2>2. CASE ~allowed
    <3>1. ~fallback /\ allowed' = TRUE /\ quits' = quits + 1 /\ fallback' = TRUE /\ timer' = "over"
      BY <1>2, <2>2 DEF TimeOut, Allow, Handshake
    <3>2. Handshake'
      BY <1>2, <3>1 DEF TimeOut, Handshake, QuitTypeOK
    <3> QED
      BY <1>1, <1>2, <3>1, <3>2 DEF TimeOut, QuitTypeOK, Handshake, HiddenIsReachable
  <2> QED
    BY <2>1, <2>2
<1>3. CASE QuitRuns
  BY <1>1, <1>3 DEF QuitRuns, QuitTypeOK, Handshake, HiddenIsReachable
<1>4. CASE Configure
  BY <1>1, <1>4 DEF Configure, QuitTypeOK, Handshake, HiddenIsReachable
<1>5. CASE addTray
  BY <1>1, <1>5 DEF addTray, QuitTypeOK, Handshake, HiddenIsReachable
<1>6. CASE Show
  BY <1>1, <1>6 DEF Show, QuitTypeOK, Handshake, HiddenIsReachable
<1> QED
  BY <1>2, <1>3, <1>4, <1>5, <1>6

LEMMA MenuKeeps == ASSUME QuitInv, MenuQuit PROVE QuitInv'
<1>1. Asking'
  BY PressesWait DEF QuitInv, MenuQuit
<1> QED
  BY <1>1, RequestKeeps DEF QuitInv, MenuQuit, QuitTypeOK, HiddenIsReachable

(* One press of the close button.                                          *)
LEMMA PressKeeps ==
  ASSUME QuitInv, NEW k \in Closing, Close(k) \/ Look(k) \/ Choose(k) \/ Hide(k) \/ Exit(k)
  PROVE  QuitInv'
<1> USE QuitAssumption DEF QuitInv, To
<1>1. CASE Close(k)
  BY <1>1 DEF Close, QuitTypeOK, Handshake, Asking, HiddenIsReachable, pageVars
<1>2. CASE Look(k)
  <2>1. QuitTypeOK'
    <3>1. closing' \in [Closing -> {"idle", "looked", "asking", "tray", "exit"}]
      BY <1>2 DEF Look, QuitTypeOK, Behaviors
    <3>2. dialog' \in BOOLEAN
      BY <1>2 DEF Look, QuitTypeOK
    <3> QED
      BY <1>2, <3>1, <3>2 DEF Look, QuitTypeOK, pageVars
  <2>2. Handshake' /\ HiddenIsReachable'
    BY <1>2 DEF Look, Handshake, HiddenIsReachable, pageVars
  <2>3. Asking'
    BY <1>2 DEF Look, Asking, QuitTypeOK, Behaviors
  <2> QED
    BY <2>1, <2>2, <2>3
<1>3. CASE Choose(k)
  <2>1. QuitTypeOK'
    <3>1. closing' \in [Closing -> {"idle", "looked", "asking", "tray", "exit"}]
      BY <1>3 DEF Choose, QuitTypeOK
    <3> QED
      BY ZenonT(60), <1>3, <3>1 DEF Choose, QuitTypeOK, pageVars
  <2>2. Handshake' /\ HiddenIsReachable'
    BY <1>3 DEF Choose, Handshake, HiddenIsReachable, pageVars
  <2>3. Asking'
    BY <1>3 DEF Choose, Asking, QuitTypeOK
  <2> QED
    BY <2>1, <2>2, <2>3
<1>4. CASE Hide(k)
  BY <1>4 DEF Hide, QuitTypeOK, Handshake, Asking, HiddenIsReachable, pageVars
<1>5. CASE Exit(k)
  <2>1. Asking' /\ HiddenIsReachable' /\ closing' \in [Closing -> {"idle", "looked", "asking", "tray", "exit"}]
    BY <1>5 DEF Exit, QuitTypeOK, Asking, HiddenIsReachable
  <2> QED
    BY <1>5, <2>1, RequestKeeps DEF Exit, QuitTypeOK
<1> QED
  BY <1>1, <1>2, <1>3, <1>4, <1>5

(* The page.                                                               *)
LEMMA PageKeeps ==
  ASSUME QuitInv,
         PageListens \/ SaveQueued \/ SaveSettles \/ Persisted \/ Flushed \/ quitReady
  PROVE  QuitInv'
<1> USE QuitAssumption DEF QuitInv, PageStep
<1>1. Asking' /\ HiddenIsReachable'
  BY PressesWait
  DEF PageListens, SaveQueued, SaveSettles, Persisted, Flushed, quitReady, HiddenIsReachable
<1>2. CASE PageListens
  BY <1>1, <1>2 DEF PageListens, QuitTypeOK, Handshake
<1>3. CASE SaveQueued
  BY <1>1, <1>3 DEF SaveQueued, QuitTypeOK, Handshake
<1>4. CASE SaveSettles
  BY <1>1, <1>4 DEF SaveSettles, QuitTypeOK, Handshake
<1>5. CASE Persisted
  BY <1>1, <1>5 DEF Persisted, QuitTypeOK, Handshake
<1>6. CASE Flushed
  BY <1>1, <1>6 DEF Flushed, QuitTypeOK, Handshake
<1>7. CASE quitReady
  BY <1>1, <1>7 DEF quitReady, Allow, QuitTypeOK, Handshake
<1> QED
  BY <1>2, <1>3, <1>4, <1>5, <1>6, <1>7

LEMMA QuitStep == ASSUME QuitInv, [QuitNext]_quitVars PROVE QuitInv'
<1>1. CASE UNCHANGED quitVars
  BY <1>1 DEF quitVars, hostVars, pageVars, QuitInv, QuitTypeOK, Handshake, Asking,
              HiddenIsReachable
<1> QED
  BY <1>1, HostKeeps, MenuKeeps, PressKeeps, PageKeeps DEF QuitNext

(* One press is asking, or none.                                           *)
LEMMA AskingCounts == ASSUME QuitInv PROVE OneQuestion
<1> DEFINE Askers == {k \in Closing : closing[k] = "asking"}
<1>1. CASE dialog
  <2>1. PICK k \in Closing : closing[k] = "asking"
    BY <1>1 DEF QuitInv, Asking
  <2>2. Askers = {k}
    BY <2>1 DEF QuitInv, Asking
  <2> QED
    BY <1>1, <2>2, FS_Singleton DEF OneQuestion
<1>2. CASE ~dialog
  <2>1. Askers = {}
    BY <1>2 DEF QuitInv, Asking
  <2> QED
    BY <1>2, <2>1, FS_EmptySet DEF OneQuestion
<1> QED
  BY <1>1, <1>2 DEF QuitInv, QuitTypeOK

(* The state of host and page keeps its types: wails' Quit is called at    *)
(* most twice, and a page never waits for more saves than it has queued.   *)
THEOREM QuitTypeCorrect == QuitSpec => []QuitTypeOK
<1>1. QuitInv => QuitTypeOK
  BY DEF QuitInv
<1> QED
  BY <1>1, QuitInitially, QuitStep, PTL DEF QuitSpec

(* However the window is closed, no save, question or window is lost:      *)
(* beforeClose, requestQuit and before-quit.                               *)
THEOREM QuitLosesNothing == QuitSpec => []ClosingLosesNothing
<1>1. QuitInv => ClosingLosesNothing
  BY AskingCounts DEF ClosingLosesNothing, QuitInv, Handshake, SavedBeforeExit
<1> QED
  BY <1>1, QuitInitially, QuitStep, PTL DEF QuitSpec
=============================================================================
