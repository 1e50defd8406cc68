---------------------------- MODULE MC_AiCredit ----------------------------
(* A small tenant for AiCredit. *)
EXTENDS AiCredit

CONSTANTS c1, c2, c3, p1, small, large, free

(* Two chat calls and a task of a run. *)
ChatKind == [c \in Call |-> IF c = c3 THEN "run" ELSE "chat"]

(* The first call accepts a shorter answer. *)
CallLeast == [c \in Call |-> IF c = c1 THEN 1 ELSE 2]
CallMost == [c \in Call |-> 2]

PlanWorth ==
  [x \in Plan \X Rate |->
     CASE x[1] = small -> x[2] [] x[1] = large -> 2 * x[2] [] OTHER -> Unlimited]

(* A change may lower, raise or lift the first budget. *)
LargeInit == Init /\ plan = large /\ rate[1] = 1

LargeSpec == LargeInit /\ [][Next]_vars /\ Fairness

=============================================================================
