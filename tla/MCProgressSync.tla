-------------------------- MODULE MCProgressSync --------------------------
(* Small instances of ProgressSync for TLC.                                *)
EXTENDS ProgressSync, TLC

CONSTANTS a1, a2, e1, e2, x, y, k1, k2, p1, p2

Accounts1 == {a1}
Accounts2 == {a1, a2}
Episodes1 == {e1}
Episodes2 == {e1, e2}
Positions1 == {x}
Positions2 == {x, y}
Tokens1 == {k1}
Tokens2 == {k1, k2}
Procs1 == {p1}
Procs2 == {p1, p2}

(* The player saves while the worker uploads.                              *)
RoleOutbox == [p \in Procs2 |-> IF p = p1 THEN {"save"} ELSE {"worker"}]

(* The page prepares playback and asks for uploads while the worker does.  *)
RoleLive == [p \in Procs2 |-> IF p = p1 THEN {"save", "prepare", "retry"} ELSE {"worker"}]

(* Whatever a use below has.                                               *)
RoleUses == [p \in Procs2 |-> IF p = p1 THEN {"save", "prepare", "choose"} ELSE {"worker", "prepare"}]

(* The page alone: it prepares playback and saves.                         *)
RolePage == [p \in Procs1 |-> {"save", "prepare"}]

Symmetry ==
  Permutations(Account) \cup Permutations(Episode) \cup Permutations(Pos) \cup Permutations(Token)

----------------------------------------------------------------------------
(* Two uses, which say what runs side by side; a state outside both is not *)
(* continued.                                                              *)

Running(first, second) == call[p1].op \in first \cup {"none"} /\ call[p2].op \in second \cup {"none"}

Revised(n) == \A s \in Scope, id \in Episode : rows[s][id].revision <= n

Known == {h \in landed \cup seen : h[3] # None}

(* The cloud holds what it held at first, or what this device uploaded.    *)
NothingElsewhere ==
  \A a \in Account, id \in Episode :
    LET held == {h[3] : h \in {g \in landed : g[1] = a /\ g[2] = id}}
        foreign == {r \in held \ {None} : r.by = "there"}
    IN /\ cloud[a][id] = None => held = {None}
       /\ Cardinality(foreign) <= 1 /\ (foreign # {} => None \notin held)

(* Operations of page and worker across changes of account.                *)
AccountsChange ==
  /\ Running({"prepare"}, {"worker"}) /\ Revised(1) /\ NothingElsewhere
  /\ rows[None] = [id \in Episode |-> NoRow]
  /\ Cardinality({h[3].pos : h \in Known}) <= 1

(* A dialog is open while the player saves, the page prepares anew and     *)
(* another device plays.                                                   *)
DialogIsOpen ==
  /\ Running({"choose"}, {"prepare"})
  /\ session.epoch <= 2
  /\ Cardinality({h[1] : h \in Known} \cup ({session.scope} \ {None})) <= 1

Uses == AccountsChange \/ DialogIsOpen
=============================================================================
