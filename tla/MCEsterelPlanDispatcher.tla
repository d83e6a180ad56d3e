---------------------- MODULE MCEsterelPlanDispatcher ----------------------
(***************************************************************************)
(* Instances of the Esterel dispatcher: plans of two actions as the parser *)
(* builds them.  Every end node has, beside the edge from its start node,  *)
(* the edge from the plan start that createGraph() adds to a node without  *)
(* conditions.                                                             *)
(***************************************************************************)
EXTENDS EsterelPlanDispatcher

E(m, n) == [source |-> m, sink |-> n]

TwoActions ==
  [n \in 0 .. 4 |-> IF n = 0 THEN "PLAN_START"
                    ELSE IF n \in {1, 3} THEN "ACTION_START" ELSE "ACTION_END"]

TwoIds == [n \in 0 .. 4 |-> IF n \in {3, 4} THEN 1 ELSE 0]

(* The second action needs what the first one achieves at its end.         *)
Chain ==
  [count |-> 5, node_type |-> TwoActions, action_id |-> TwoIds,
   edges |-> {E(0, 1), E(1, 2), E(0, 2), E(2, 3), E(3, 4), E(0, 4)}]

(* The second action needs what the first one achieves at its start, and   *)
(* its end interferes with the end of the first.                           *)
Overlap ==
  [count |-> 5, node_type |-> TwoActions, action_id |-> TwoIds,
   edges |-> {E(0, 1), E(1, 2), E(0, 2), E(1, 3), E(3, 4), E(2, 4)}]

(* One action only.                                                        *)
Single ==
  [count |-> 3, node_type |-> [n \in 0 .. 2 |-> TwoActions[n]],
   action_id |-> [n \in 0 .. 2 |-> 0], edges |-> {E(0, 1), E(1, 2), E(0, 2)}]

MCPlans == {EmptyPlan, Chain, Single}
MCActionIds == {0, 1}
=============================================================================
