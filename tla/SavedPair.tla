------------------------------ MODULE SavedPair ------------------------------
(* What the vault promises the session manager: it holds at most one saved *)
(* session, a save or a clearing takes effect as a whole or not at all,    *)
(* and one that is said to have succeeded has taken effect.  The process   *)
(* may die at any time.                                                    *)
EXTENDS Naturals

CONSTANTS Pair, None

VARIABLES
  held,    \* the saved session, None if there is none
  asked,   \* the save (a pair) or the clearing (None) under way, if any
  answer   \* what the last one returned

Value == Pair \cup {None}

pairVars == <<held, asked, answer>>

PairInit == held \in Value /\ asked = {} /\ answer = "none"

Ask ==
  /\ asked = {}
  /\ \E v \in Value : asked' = {v}
  /\ answer' = "none"
  /\ UNCHANGED held

TakeEffect == asked = {held'} /\ UNCHANGED <<asked, answer>>

(* The last step may be the one that has the effect.                       *)
Return ==
  /\ asked # {} /\ asked' = {}
  /\ held' # held => asked = {held'}
  /\ answer' \in {"ok", "failed"}
  /\ answer' = "ok" => asked = {held'}

(* Nothing to clear.                                                       *)
AnswerAtOnce == asked = {} /\ held = None /\ answer' = "ok" /\ UNCHANGED <<held, asked>>

Die == asked' = {} /\ answer' = "none" /\ UNCHANGED held

PairSpec == PairInit /\ [][Ask \/ TakeEffect \/ Return \/ AnswerAtOnce \/ Die]_pairVars
=============================================================================
