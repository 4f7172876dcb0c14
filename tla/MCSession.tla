----------------------------- MODULE MCSession -----------------------------
(***************************************************************************)
(* Instances of Session for TLC.  Once a slot is reset with operations     *)
(* outstanding the reachable states are many: the runs that answer clients *)
(* bound the number of connects and requests with a budget.                *)
(***************************************************************************)
EXTENDS Session

CONSTANTS c1, w1, w2, w3, l1, l2,
          Budget        \* connects and requests of all clients together

OneConn == {c1}
TwoWorkers == {w1, w2}
ThreeWorkers == {w1, w2, w3}
OneLogic == {l1}
TwoLogics == {l1, l2}

VARIABLE budget

BudgetInit == Init /\ budget = Budget

BudgetNext ==
  \/ (Server \/ Kernel \/ Leave) /\ UNCHANGED budget
  \/ budget > 0 /\ budget' = budget - 1 /\ Arrive

\* Clients that stop after Budget connects and requests.
BudgetSpec == BudgetInit /\ [][BudgetNext]_<<vars, budget>>

\* Clients without end: the budget never changes.
EndlessSpec == BudgetInit /\ [][Next /\ UNCHANGED budget]_<<vars, budget>> /\ Fairness
=============================================================================
