------------------------- MODULE EsterelPlanParser -------------------------
(***************************************************************************)
(* PDDLEsterelPlanParser: turns the text of a temporal plan into the graph *)
(* that the dispatcher walks.  The node is single threaded, so a parsing   *)
(* service is one step; what can go wrong inside it is a call to the       *)
(* knowledge base that fails, which leaves the details an earlier plan     *)
(* stored under the same action id.                                        *)
(*                                                                         *)
(* A formula of a condition or of an effect is a literal: a ground atom    *)
(* and whether it is asked to hold (added) or not to hold (deleted).  A    *)
(* line of planner output names a ground operator, when it starts, how     *)
(* long it takes, and by how much single-precision arithmetic moves the    *)
(* sum of the two away from a tie.  Numeric conditions and effects do not  *)
(* appear: the parser does not look at them.                               *)
(***************************************************************************)
EXTENDS EsterelPlan, Sequences, FiniteSets

CONSTANTS
  Atoms,      \* the ground atoms of the domain's predicates
  Operators,  \* the ground operators that plans are made of
  Schema,     \* their details, as the knowledge base answers them
  Outputs,    \* the planner outputs that can arrive
  Tils        \* the sets of timed literals the knowledge base can answer with

Literals == [atom : Atoms, holds : BOOLEAN]
Negation(l) == [atom |-> l.atom, holds |-> ~ l.holds]

Details == [start_conditions : SUBSET Literals, over_all : SUBSET Literals,
            end_conditions : SUBSET Literals,
            start_effects : SUBSET Literals, end_effects : SUBSET Literals]

(* What action_details[id] default-constructs for an id it has not seen.   *)
NoDetails == [start_conditions |-> {}, over_all |-> {}, end_conditions |-> {},
              start_effects |-> {}, end_effects |-> {}]

Lines == [operator : Operators, dispatch_time : Nat, duration : Nat, rounding : {-1, 0, 1}]

TimedLiterals == [time : Nat, literal : Literals]

(* The operators that have parameters: a line without any never reaches    *)
(* processPDDLParameters().                                                *)
Parameterised == {o \in Operators : Schema[o].parameters}
DetailsOf(o) == [d \in DOMAIN NoDetails |-> Schema[o][d]]

(* Operators are described; an output has an action id for each line, and  *)
(* an action without a duration ends at the very time it starts.           *)
ASSUME SchemaAssumption ==
  \A o \in Operators : Schema[o].parameters \in BOOLEAN /\ DetailsOf(o) \in Details
ASSUME OutputsAssumption ==
  \A out \in Outputs :
    /\ out \in Seq(Lines)
    /\ \A i \in 1 .. Len(out) : out[i].duration = 0 => out[i].rounding = 0
ASSUME IdsAssumption ==
  /\ ActionIds \subseteq Nat
  /\ 0 \in ActionIds
  /\ \A out \in Outputs : \A i \in 1 .. Len(out) : (i - 1) \in ActionIds
ASSUME TilsAssumption == \A tils \in Tils : tils \subseteq TimedLiterals

VARIABLES
  planner_output,           \* the text the planner last published
  planner_output_received,  \* whether parse_plan has something to do
  action_details,           \* action id -> details, kept over plans
  til_list,                 \* the timed literals fetched for the last plan
  complete_plan,            \* the graph last published
  parsed                    \* the output it was made from

parser == <<planner_output, planner_output_received, action_details, til_list,
            complete_plan, parsed>>

(***************************************************************************)
(* The nodes of an output: node 0 is the plan start, and the k-th line     *)
(* (from 0) has the start node 2k+1 and the end node 2k+2.                 *)
(***************************************************************************)
PlanNodes(out)  == 0 .. 2 * Len(out)
StartNodes(out) == {2 * k + 1 : k \in 0 .. (Len(out) - 1)}
EndNodes(out)   == {2 * k + 2 : k \in 0 .. (Len(out) - 1)}

ActionId(n) == IF n = 0 THEN 0 ELSE (n - 1) \div 2
LineOf(out, n) == out[ActionId(n) + 1]

(* Times count half steps, so that rounding falls between two plan times.  *)
NodeTime(out, n) ==
  IF n = 0 THEN 0
  ELSE IF n \in StartNodes(out) THEN 2 * LineOf(out, n).dispatch_time
  ELSE 2 * (LineOf(out, n).dispatch_time + LineOf(out, n).duration) + LineOf(out, n).rounding

(* Variant of Before: the search back begins at the node itself.           *)
BeforeOrAt(out, m, n) == NodeTime(out, m) <= NodeTime(out, n)

(* The order of the multimap: by time, nodes of the same time by id.       *)
Before(out, m, n) ==
  \/ NodeTime(out, m) < NodeTime(out, n)
  \/ NodeTime(out, m) = NodeTime(out, n) /\ m < n

(***************************************************************************)
(* What a node does and what it asks for, with the details at hand.        *)
(***************************************************************************)
Effects(details, out, n) ==
  IF n \in StartNodes(out) THEN details[ActionId(n)].start_effects
  ELSE IF n \in EndNodes(out) THEN details[ActionId(n)].end_effects
  ELSE {}

(* The conditions createGraph() looks for support of at the node.          *)
Conditions(details, out, n) ==
  IF n \in StartNodes(out)
  THEN details[ActionId(n)].start_conditions \union details[ActionId(n)].over_all
  ELSE IF n \in EndNodes(out) THEN details[ActionId(n)].end_conditions
  ELSE {}

(* Variant of Protected: without the over all conditions at the end node.  *)
ProtectedAtOnce(details, out, n) ==
  Effects(details, out, n) \union
    (IF n \in StartNodes(out) THEN details[ActionId(n)].start_conditions
     ELSE IF n \in EndNodes(out) THEN details[ActionId(n)].end_conditions ELSE {})

(* What a later node must not undo before this one has happened: the over  *)
(* all conditions are protected up to the end node.                        *)
Protected(details, out, n) ==
  Effects(details, out, n) \union
    (IF n \in StartNodes(out) THEN details[ActionId(n)].start_conditions
     ELSE IF n \in EndNodes(out)
     THEN details[ActionId(n)].end_conditions \union details[ActionId(n)].over_all
     ELSE {})

(***************************************************************************)
(* addConditionEdge(): the condition's supporter is the latest node before *)
(* n with the literal among its effects, unless a timed literal that is    *)
(* later than that node (and not later than n) supports it, in which case  *)
(* the edge comes from the plan start.                                     *)
(***************************************************************************)
Supporters(details, out, n, c) ==
  {m \in PlanNodes(out) : Before(out, m, n) /\ c \in Effects(details, out, m)}

TilSupports(details, out, tils, n, c) ==
  \E til \in tils :
    /\ til.literal = c
    /\ 0 < til.time /\ 2 * til.time <= NodeTime(out, n)
    /\ \A m \in Supporters(details, out, n, c) : NodeTime(out, m) < 2 * til.time

Supports(details, out, tils, m, n, c) ==
  IF TilSupports(details, out, tils, n, c)
  THEN m = 0
  ELSE /\ m \in Supporters(details, out, n, c)
       /\ \A k \in Supporters(details, out, n, c) : k = m \/ Before(out, k, m)

(* A timed literal after the node that negates a condition puts an upper   *)
(* bound on an edge from the plan start, to the end node when the          *)
(* condition is an over all one.                                           *)
TilBound(details, out, tils, n) ==
  \E til \in tils :
    \/ /\ n \in StartNodes(out)
       /\ NodeTime(out, n) < 2 * til.time
       /\ Negation(til.literal) \in details[ActionId(n)].start_conditions
    \/ /\ n \in EndNodes(out)
       /\ NodeTime(out, n) < 2 * til.time
       /\ Negation(til.literal) \in details[ActionId(n)].end_conditions
    \/ /\ n \in EndNodes(out)
       /\ NodeTime(out, n - 1) < 2 * til.time
       /\ Negation(til.literal) \in details[ActionId(n)].over_all

(* addInterferenceEdges(): n undoes something that m protects.             *)
Interferes(details, out, m, n) ==
  /\ Before(out, m, n)
  /\ \E l \in Protected(details, out, m) : Negation(l) \in Effects(details, out, n)

(* Variant of Ordered: the search back stops at the first node found.      *)
OrderedOnce(details, out, tils, m, n) ==
  LET found(k) == \/ \E c \in Conditions(details, out, n) : Supports(details, out, tils, k, n, c)
                  \/ Interferes(details, out, k, n)
  IN  found(m) /\ \A k \in PlanNodes(out) : found(k) => k = m \/ Before(out, k, m)

(***************************************************************************)
(* createGraph(): the edges into n from earlier nodes, and the edge from   *)
(* the plan start that n gets when it has none of them.                    *)
(***************************************************************************)
Ordered(details, out, tils, m, n) ==
  \/ \E c \in Conditions(details, out, n) : Supports(details, out, tils, m, n, c)
  \/ Interferes(details, out, m, n)

EdgeFrom(details, out, tils, m, n) ==
  \/ n \in EndNodes(out) /\ m = n - 1
  \/ Ordered(details, out, tils, m, n)
  \/ m = 0 /\ TilBound(details, out, tils, n)
  \/ m = 0 /\ \A k \in PlanNodes(out) : ~ Ordered(details, out, tils, k, n)

(* Variant of Graph: the plan start is not counted.                        *)
GraphOfActions(details, out, tils) ==
  [count |-> 2 * Len(out),
   node_type |-> [n \in PlanNodes(out) |->
                    IF n \in StartNodes(out) THEN "ACTION_START"
                    ELSE IF n \in EndNodes(out) THEN "ACTION_END" ELSE "PLAN_START"],
   action_id |-> [n \in PlanNodes(out) |-> ActionId(n)],
   edges |-> {e \in [source : PlanNodes(out), sink : PlanNodes(out) \ {0}] :
                EdgeFrom(details, out, tils, e.source, e.sink)}]

Graph(details, out, tils) ==
  [count |-> 2 * Len(out) + 1,
   node_type |-> [n \in PlanNodes(out) |->
                    IF n \in StartNodes(out) THEN "ACTION_START"
                    ELSE IF n \in EndNodes(out) THEN "ACTION_END" ELSE "PLAN_START"],
   action_id |-> [n \in PlanNodes(out) |-> ActionId(n)],
   edges |-> {e \in [source : PlanNodes(out), sink : PlanNodes(out) \ {0}] :
                EdgeFrom(details, out, tils, e.source, e.sink)}]

(***************************************************************************)
(* preparePlan(): a line with parameters asks for its operator's details;  *)
(* a call that fails, and a line without parameters, leave what is there.  *)
(***************************************************************************)
Asked(out) == {a \in ActionIds : a < Len(out) /\ out[a + 1].operator \in Parameterised}

Processed(details, out, answered) ==
  [a \in ActionIds |-> IF a \in answered THEN DetailsOf(out[a + 1].operator) ELSE details[a]]

Prepare(out, answered, tils) ==
  /\ action_details' = Processed(action_details, out, answered)
  /\ til_list' = tils
  /\ complete_plan' = Graph(action_details', out, tils)
  /\ parsed' = out

ParserInit ==
  /\ planner_output = <<>>
  /\ planner_output_received = FALSE
  /\ action_details = [a \in ActionIds |-> NoDetails]
  /\ til_list = {}
  /\ complete_plan = EmptyPlan
  /\ parsed = <<>>

PlannerCallback(out) ==
  /\ planner_output' = out
  /\ planner_output_received' = TRUE
  /\ UNCHANGED <<action_details, til_list, complete_plan, parsed>>

(* The parse_plan service; without new output it does nothing.             *)
ParsePlan(answered, tils) ==
  /\ planner_output_received
  /\ Prepare(planner_output, answered, tils)
  /\ planner_output_received' = FALSE
  /\ UNCHANGED planner_output

(* The parse_plan_from_file service; a file it cannot read is empty.       *)
ParsePlanFromFile(out, answered, tils) ==
  /\ planner_output' = out
  /\ Prepare(out, answered, tils)
  /\ planner_output_received' = FALSE

Publish ==
  \E tils \in Tils :
    \/ \E answered \in SUBSET Asked(planner_output) : ParsePlan(answered, tils)
    \/ \E out \in Outputs \union {<<>>} :
         \E answered \in SUBSET Asked(out) : ParsePlanFromFile(out, answered, tils)

ParserNext == Publish \/ \E out \in Outputs : PlannerCallback(out)

ParserSpec == ParserInit /\ [][ParserNext]_parser

(* Type correctness: details belong to action ids, and both outputs the    *)
(* node keeps are ones it was given.                                       *)
ParserTypeOK ==
  /\ planner_output \in Outputs \union {<<>>}
  /\ planner_output_received \in BOOLEAN
  /\ action_details \in [ActionIds -> Details]
  /\ til_list \subseteq TimedLiterals
  /\ PlanType(complete_plan)
  /\ parsed \in Outputs \union {<<>>}

(* What the dispatcher assumes of every plan it receives: paired start and *)
(* end nodes, every start held back by an edge, and no cycle -- whatever   *)
(* the details, the timed literals and the rounding of times were.         *)
PublishedWellFormed == [][complete_plan' # complete_plan => WellFormed(complete_plan')]_parser
=============================================================================
