--------------------------- MODULE PlanEnactment ---------------------------
(***************************************************************************)
(* What the graph of a plan is for.  The dispatcher passes the nodes of a  *)
(* plan in an order the edges allow: a start node when it publishes the    *)
(* action, an end node when the action is complete and the edges into the  *)
(* end node are active.  The edges hold nothing else back.  The start      *)
(* effects of an action reach the world some time after it was published,  *)
(* and its end effects whenever its implementation returns, whatever edges *)
(* lead into its end node: the interface node writes both and knows of no  *)
(* edge.  The planner promised only that the one order of its times works. *)
(* This module lets a published graph be enacted in every way there is and *)
(* asks when the promise survives.                                         *)
(***************************************************************************)
EXTENDS EsterelPlanParser

CONSTANTS
  Worlds,    \* the sets of atoms that can hold when a plan is published
  MaxPlans   \* bound on the plans published

ASSUME WorldsAssumption == \A w \in Worlds : w \subseteq Atoms
ASSUME MaxPlansAssumption == MaxPlans \in Nat

(* No step of an action both adds and deletes an atom.                     *)
ASSUME EffectsAssumption ==
  \A o \in Operators : \A l \in Literals :
    /\ l \in Schema[o].start_effects => Negation(l) \notin Schema[o].start_effects
    /\ l \in Schema[o].end_effects => Negation(l) \notin Schema[o].end_effects

VARIABLES
  published,  \* how many plans were published
  initial,    \* the world for which the plan was published
  world,      \* the atoms that hold
  fired,      \* the nodes the dispatcher has passed: the edges out of them are active
  happened    \* the nodes whose effects are in the world

enactment == <<published, initial, world, fired, happened>>
vars == <<parser, enactment>>

Init == /\ ParserInit
        /\ published = 0 /\ initial = {} /\ world = {}
        /\ fired = {} /\ happened = {}

(* A plan is published, and its dispatch begins in some world.  The        *)
(* dispatcher drops a plan that comes in the middle of a dispatch.         *)
Begin ==
  /\ published < MaxPlans
  /\ fired \in {{}, Nodes(complete_plan)}
  /\ Publish
  /\ published' = published + 1
  /\ initial' \in Worlds
  /\ world' = initial'
  /\ fired' = {} /\ happened' = {}

Receive == (\E out \in Outputs : PlannerCallback(out)) /\ UNCHANGED enactment

(* The nodes the dispatcher has not passed and whose edges are all active. *)
Released ==
  {n \in Nodes(complete_plan) \ fired :
     \A e \in In(complete_plan, n) : e.source \in fired}

(* The dispatcher passes a released node; an end node waits until the      *)
(* report of success has come, which is sent after the end effects.        *)
Fire(n) ==
  /\ n \in Released
  /\ n \in Ends(complete_plan) => n \in happened
  /\ fired' = fired \union {n}
  /\ UNCHANGED <<parser, published, initial, world, happened>>

(* What a node of an action does by its operator, whether or not the       *)
(* parser had the operator's details.                                      *)
Known(out) == [a \in ActionIds |->
                 IF a < Len(out) THEN DetailsOf(out[a + 1].operator) ELSE NoDetails]
EffectsOf(n) == Effects(Known(parsed), parsed, n)

(* The nodes whose effects an interface node has yet to write: the starts  *)
(* of published actions, and the ends of actions that have started.        *)
Due ==
  ((Starts(complete_plan) \intersect fired) \union
   {n \in Ends(complete_plan) : n - 1 \in happened}) \ happened

Happen(n) ==
  /\ n \in Due
  /\ happened' = happened \union {n}
  /\ world' = {a \in Atoms : \/ [atom |-> a, holds |-> TRUE] \in EffectsOf(n)
                             \/ a \in world /\ [atom |-> a, holds |-> FALSE] \notin EffectsOf(n)}
  /\ UNCHANGED <<parser, published, initial, fired>>

Next == Begin \/ Receive \/ \E n \in Nodes(complete_plan) : Fire(n) \/ Happen(n)

Spec == Init /\ [][Next]_vars

EnactmentTypeOK ==
  /\ ParserTypeOK
  /\ published \in 0 .. MaxPlans
  /\ initial \subseteq Atoms
  /\ world \subseteq Atoms
  /\ fired \subseteq Nodes(complete_plan)
  /\ happened \subseteq Nodes(complete_plan)

(***************************************************************************)
(* The promise of the planner: in the order of the times, every literal an *)
(* action asks for holds from the moment it is asked until it is no longer *)
(* -- start conditions when the action starts, over all conditions from    *)
(* just after its start to just before its end, end conditions when it     *)
(* ends.                                                                   *)
(***************************************************************************)
TrueIn(w, l) == l.atom \in w <=> l.holds

Makers(out, l)   == {m \in PlanNodes(out) : l \in Effects(Known(out), out, m)}
Breakers(out, l) == Makers(out, Negation(l))

(* l holds just before node n, in the order of times, from world w on.     *)
HoldsBefore(out, w, l, n) ==
  \/ /\ TrueIn(w, l)
     /\ \A b \in Breakers(out, l) : ~ Before(out, b, n)
  \/ \E m \in Makers(out, l) :
       /\ Before(out, m, n)
       /\ \A b \in Breakers(out, l) : Before(out, b, m) \/ ~ Before(out, b, n)

ValidPlan(out, w) ==
  /\ \A n \in StartNodes(out) :
       \A l \in Known(out)[ActionId(n)].start_conditions : HoldsBefore(out, w, l, n)
  /\ \A n \in EndNodes(out) :
       /\ \A l \in Known(out)[ActionId(n)].end_conditions : HoldsBefore(out, w, l, n)
       /\ \A l \in Known(out)[ActionId(n)].over_all :
            /\ HoldsBefore(out, w, l, n)
            /\ \A m \in PlanNodes(out) :
                 Before(out, n - 1, m) /\ Before(out, m, n) => HoldsBefore(out, w, l, m)

(* The parser drew the graph with the details of this plan's own actions.  *)
DetailsCurrent == \A a \in ActionIds : a < Len(parsed) => action_details[a] = Known(parsed)[a]

(***************************************************************************)
(* What the dispatcher makes sure of.  When it has passed a node it has    *)
(* passed the nodes that lead there.  The effects that are certainly       *)
(* written by then are those of the actions whose end it passed; an end    *)
(* node's own effects wait for its start node and for nothing else.        *)
(***************************************************************************)
Prefixes(p) == {S \in SUBSET Nodes(p) : \A e \in p.edges : e.sink \in S => e.source \in S}

Begun(p, n) == IF n \in Ends(p) THEN n - 1 ELSE n

(* Every edge between actions does what it is drawn for: with the nodes    *)
(* passed that its sink's start needs, the effects of its source are       *)
(* written.  It fails where an edge leads into an end node from something  *)
(* its start does not wait for, and where an edge leaves a start node      *)
(* whose end is not awaited.                                               *)
Enforced(p) ==
  \A S \in Prefixes(p) : \A e \in p.edges :
    /\ Begun(p, e.sink) \in S
    /\ e.source \in Starts(p) \union Ends(p)
    => \/ {e.source, e.source + 1} \intersect Ends(p) \intersect S # {}
       \/ e.sink \in Ends(p) /\ e.source = e.sink - 1

(* Timed literals change the world as well: only plans without any are     *)
(* enacted here.                                                           *)
Enactable ==
  published > 0 /\ til_list = {} /\ DetailsCurrent /\ Enforced(complete_plan)

(* However the dispatcher and the interface nodes enact a valid plan with  *)
(* enforced edges, every condition of an action holds when it is due:      *)
(* nothing that may come earlier than planned undoes a condition, and      *)
(* nothing that may come later was needed.  Start conditions hold when the *)
(* dispatcher asks for them and still when the action starts, end ones     *)
(* whenever the action ends.  createGraph() draws an edge to the latest    *)
(* supporter only and edges for interference pairwise; that they suffice   *)
(* is the question.                                                        *)
ConditionsHold ==
  Enactable /\ ValidPlan(parsed, initial) =>
    /\ \A n \in (Released \union Due) \intersect StartNodes(parsed) :
         \A l \in Known(parsed)[ActionId(n)].start_conditions : TrueIn(world, l)
    /\ \A n \in Due \intersect EndNodes(parsed) :
         \A l \in Known(parsed)[ActionId(n)].end_conditions : TrueIn(world, l)
    /\ \A n \in EndNodes(parsed) :
         (n - 1) \in happened /\ n \notin happened =>
           \A l \in Known(parsed)[ActionId(n)].over_all : TrueIn(world, l)

(* The world after the plan's nodes in the order of their times: an atom   *)
(* has the value of the latest node that touches it.                       *)
Outcome ==
  {a \in Atoms :
     LET add == [atom |-> a, holds |-> TRUE] IN
     \/ /\ a \in initial
        /\ Breakers(parsed, add) = {}
     \/ \E m \in Makers(parsed, add) :
          \A b \in Breakers(parsed, add) : Before(parsed, b, m)}

(* However the effects were ordered, a plan with enforced edges that was   *)
(* dispatched to its end leaves the world the planner computed -- also a   *)
(* plan that was not valid in its own order, as long as the parser knew    *)
(* its actions.                                                            *)
SameOutcome ==
  Enactable /\ fired = Nodes(complete_plan) => world = Outcome

(* The knowledge base answered for every line that asks.                   *)
Answered ==
  \A a \in Asked(parsed) : action_details[a] = Known(parsed)[a]

(* What the comment in createGraph() says: "for each precondition add      *)
(* possible causal support edge with latest preceding node".  A condition  *)
(* of a line that an earlier line's effect supports has an edge from it.   *)
SupportEdges ==
  Answered /\ til_list = {} =>
    \A n \in StartNodes(parsed) :
      \A l \in Known(parsed)[ActionId(n)].start_conditions :
        \A m \in Makers(parsed, l) :
          /\ Before(parsed, m, n)
          /\ \A k \in Makers(parsed, l) : Before(parsed, k, n) => k = m \/ Before(parsed, k, m)
          => [source |-> m, sink |-> n] \in complete_plan.edges
=============================================================================
