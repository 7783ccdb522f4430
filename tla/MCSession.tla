----------------------------- MODULE MCSession -----------------------------
(* Small instances of Session for TLC: who may call what.                  *)
EXTENDS Session, TLC

CONSTANTS a1, a2, t1, t2, t3, f1, f2, p1, p2, p3

Account1 == {a1}
Accounts == {a1, a2}
Tokens2 == {t1, t2}
Tokens3 == {t1, t2, t3}
Flights1 == {f1}
Flights2 == {f1, f2}
Procs2 == {p1, p2}
Procs3 == {p1, p2, p3}

(* A restored session, two concurrent requests of the page, logout, exit.  *)
RoleRefresh ==
  [p \in Procs3 |-> CASE p = p1 -> {"restore", "logout", "close"}
                      [] p = p2 -> {"read"}
                      [] p = p3 -> {"read", "write"}]

(* Every method but a guest's read, on two goroutines whose requests       *)
(* nobody cancels.                                                         *)
RoleLive ==
  [p \in Procs2 |-> IF p = p1 THEN {"restore", "login", "qr", "poll", "logout", "close"}
                     ELSE {"read", "write", "cancelLogin", "cancelQR"}]

(* SMS and QR attempts beside a restore, cancelled or logged out of, with  *)
(* a write and a guest read in flight across the changes of account; the   *)
(* dialogs of two QR codes may each have a poll on the way.                *)
RoleLogin ==
  [p \in Procs2 |-> IF p = p1 THEN {"login", "qr", "poll", "write", "abandon"}
                              ELSE {"restore", "poll", "cancelLogin", "cancelQR",
                                    "logout", "guest"}]

Symmetry ==
  Permutations(Accounts) \cup Permutations(Token) \cup Permutations(Flight)
=============================================================================
