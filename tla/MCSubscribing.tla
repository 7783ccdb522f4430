---------------------------- MODULE MCSubscribing ----------------------------
(* A small instance of Subscribing for TLC.                                *)
EXTENDS Subscribing, TLC

CONSTANTS a1, a2, guest, c1, c2, t1, t2, d1, d2, r1, r2

Accounts == {a1, a2}
Cursors == {c1, c2}
Tasks == {t1, t2}
Adders == {d1, d2}
Presses == {r1, r2}
Items == 1..2

Symmetry == Permutations(Cursor) \cup Permutations(Task) \cup Permutations(Account)

(* Additions and clicks are alike too: the first free one is next.         *)
InTurn ==
  /\ add[d1].phase = "idle" /\ add[d2].phase = "idle" => add'[d2].phase = "idle"
  /\ r2 \in attempts' => r1 \in attempts'

(* Not everything at once: a behaviour keeps to one of these uses, which   *)
(* say what runs side by side.                                             *)
VARIABLE use

Uses == {
  (* Two calls read the subscriptions while one is added.                  *)
  [kinds |-> {"subscriptions"}, calls |-> 2, adds |-> 1, epochs |-> 1, refreshes |-> 2, presses |-> 1,
   pages |-> 2, cancels |-> 0],
  (* The updates, cancelled by an addition.                                *)
  [kinds |-> {"updates"}, calls |-> 2, adds |-> 1, epochs |-> 1, refreshes |-> 2, presses |-> 1,
   pages |-> 2, cancels |-> 1],
  (* Two additions race, fail, and are checked.                            *)
  [kinds |-> {"subscriptions"}, calls |-> 1, adds |-> 2, epochs |-> 1, refreshes |-> 1, presses |-> 2,
   pages |-> 2, cancels |-> 1],
  (* Lists across changes of account.                                      *)
  [kinds |-> {"subscriptions"}, calls |-> 2, adds |-> 0, epochs |-> 3, refreshes |-> 2, presses |-> 0,
   pages |-> 4, cancels |-> 1],
  [kinds |-> {"updates"}, calls |-> 2, adds |-> 0, epochs |-> 3, refreshes |-> 2, presses |-> 0,
   pages |-> 4, cancels |-> 1],
  [kinds |-> {"episodes"}, calls |-> 2, adds |-> 0, epochs |-> 3, refreshes |-> 2, presses |-> 0,
   pages |-> 4, cancels |-> 1],
  (* Additions across changes of account.                                  *)
  [kinds |-> {"subscriptions"}, calls |-> 0, adds |-> 2, epochs |-> 3, refreshes |-> 0, presses |-> 2,
   pages |-> 4, cancels |-> 0] }

Within ==
  /\ InTurn
  /\ epoch' <= use.epochs /\ revision' <= use.refreshes
  /\ \A k \in Kind \ use.kinds : stages'[k] = None
  /\ \A k \in use.kinds : stages'[k] # None => stages'[k].revision <= stages'[k].id + use.cancels
  /\ \A k \in use.kinds : stages'[k] # None => stages'[k].view.pages <= use.pages
  /\ Cardinality({t \in Task : task'[t].phase # "idle"}) <= use.calls
  /\ Cardinality({a \in Adder : add'[a].phase # "idle"}) <= use.adds
  /\ Cardinality(attempts') <= use.presses

MCInit == Init /\ use \in Uses
MCNext == Next /\ Within /\ UNCHANGED use

MCSpec == MCInit /\ [][MCNext]_<<vars, use>>
=============================================================================
