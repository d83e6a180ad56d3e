---------------------------- MODULE EsterelPlan ----------------------------
(***************************************************************************)
(* The plan graph of rosplan_dispatch_msgs/EsterelPlan: what the Esterel   *)
(* parser publishes and the Esterel dispatcher walks.  A plan is a record  *)
(*   count      the number of nodes; node ids are 0 .. count-1, in the     *)
(*              order of the message's node vector                         *)
(*   node_type  PLAN_START, ACTION_START or ACTION_END, for each node      *)
(*   action_id  the id of the node's action (unused for PLAN_START)        *)
(*   edges      the edges; makeEdge() never adds a second edge with the    *)
(*              same source and sink, so the pair stands for the edge id   *)
(* Time bounds of the edges are not part of the record: a dispatcher that  *)
(* looks at them sees "too early", "in time" or "too late".                *)
(***************************************************************************)
EXTENDS Integers

CONSTANT ActionIds    \* the action ids that plans use: 0, 1, 2, ... in every plan

NodeTypes == {"PLAN_START", "ACTION_START", "ACTION_END"}

Nodes(p) == 0 .. (p.count - 1)

Starts(p) == {n \in Nodes(p) : p.node_type[n] = "ACTION_START"}
Ends(p)   == {n \in Nodes(p) : p.node_type[n] = "ACTION_END"}

(* The actions of a plan. *)
Ids(p) == {p.action_id[n] : n \in Starts(p)}

(* The ids of all its nodes: the plan start's node carries id 0.           *)
NodeIds(p) == {p.action_id[n] : n \in Nodes(p)}

In(p, n)  == {e \in p.edges : e.sink = n}
Out(p, n) == {e \in p.edges : e.source = n}

(* The actions whose end node has an edge to the start node of action a.   *)
Predecessors(p, a) ==
  {p.action_id[e.source] : e \in {d \in p.edges : /\ d.source \in Ends(p)
                                                  /\ d.sink \in Starts(p)
                                                  /\ p.action_id[d.sink] = a}}

(* Every non-empty set of nodes has a node without a predecessor in it:    *)
(* for a finite graph, that it has no cycle.                               *)
Acyclic(p) ==
  \A S \in SUBSET Nodes(p) :
    S # {} => \E n \in S : \A e \in In(p, n) : e.source \notin S

PlanType(p) ==
  /\ p.count \in Nat
  /\ p.node_type \in [Nodes(p) -> NodeTypes]
  /\ p.action_id \in [Nodes(p) -> ActionIds]
  /\ p.edges \subseteq [source : Nodes(p), sink : Nodes(p)]

(* Each action has one start node and one end node, joined by an edge, and *)
(* there is one plan start at most.                                        *)
PairedNodes(p) ==
  /\ \A m, n \in Nodes(p) :
       /\ p.node_type[m] = p.node_type[n]
       /\ p.action_id[m] = p.action_id[n] \/ p.node_type[m] = "PLAN_START"
       => m = n
  /\ \A n \in Ends(p) : \E e \in In(p, n) : /\ e.source \in Starts(p)
                                            /\ p.action_id[e.source] = p.action_id[n]
  /\ \A n \in Starts(p) : \E e \in Out(p, n) : /\ e.sink \in Ends(p)
                                               /\ p.action_id[e.sink] = p.action_id[n]

(* The parser gives every start node a predecessor: a condition edge, an   *)
(* interference edge or, failing those, an edge from the plan start.  The  *)
(* plan start, first in the order of times, has none.                      *)
AllStartsHeld(p) ==
  /\ \A n \in Starts(p) : In(p, n) # {}
  /\ \A e \in p.edges : p.node_type[e.sink] # "PLAN_START"

WellFormed(p) == PlanType(p) /\ PairedNodes(p) /\ AllStartsHeld(p) /\ Acyclic(p)

(* The default-constructed plan a dispatcher holds before one arrives.     *)
EmptyPlan == [count |-> 0, node_type |-> [n \in {} |-> "PLAN_START"],
              action_id |-> [n \in {} |-> 0], edges |-> {}]
=============================================================================
