------------------------ MODULE PlanEnactmentProofs ------------------------
(***************************************************************************)
(* Proofs about the Esterel plan parser, for every domain, every output of *)
(* the planner and every sequence of outputs and services:                 *)
(*   - types;                                                              *)
(*   - every published graph is one the dispatcher can walk;               *)
(*   - the edges are enough, where the dispatcher enforces them: however a *)
(*     plan is enacted, the conditions that hold in the planner's order    *)
(*     hold, and the world comes out the same.                             *)
(* The order of the times is a strict total order that every edge follows; *)
(* what an atom's value is, is decided by the latest node in that order,   *)
(* among those that have happened, that touches it.                        *)
(***************************************************************************)
EXTENDS PlanEnactment, TLAPS, FiniteSetTheorems, NaturalsInduction, WellFoundedInduction

(* An output as the parser gets it, the empty one of an unreadable file    *)
(* included.                                                               *)
Output(out) ==
  /\ out \in Seq(Lines)
  /\ \A i \in 1 .. Len(out) : out[i].duration = 0 => out[i].rounding = 0
  /\ \A i \in 1 .. Len(out) : (i - 1) \in ActionIds

(***************************************************************************)
(* Extremal elements of finite strict orders.                              *)
(***************************************************************************)

(* A set of naturals that is not empty has a least element.                *)
LEMMA LeastNatural ==
  ASSUME NEW A, A \subseteq Nat, A # {}
  PROVE  \E a \in A : \A b \in A : a <= b
<1>1. IsWellFoundedOn(OpToRel(<, Nat), Nat)
  BY NatLessThanWellFounded
<1>2. PICK a \in A : \A b \in A : ~ (<<b, a>> \in OpToRel(<, Nat))
  BY <1>1, WFMin
<1>3. \A b \in A : ~ (b < a)
  BY <1>2 DEF OpToRel
<1> QED
  BY <1>3

(* A transitive and irreflexive relation on a finite set has an element in *)
(* each subset (but the empty one) that nothing of the subset comes before.*)
LEMMA FirstElement ==
  ASSUME NEW T, IsFiniteSet(T), NEW R,
         \A x \in T : <<x, x>> \notin R,
         \A x, y, z \in T : <<x, y>> \in R /\ <<y, z>> \in R => <<x, z>> \in R,
         NEW S, S \subseteq T, S # {}
  PROVE  \E n \in S : \A m \in S : <<m, n>> \notin R
<1> DEFINE Below(n) == {m \in T : <<m, n>> \in R}
           Rank(n)  == Cardinality(Below(n))
           A == {Rank(n) : n \in S}
<1>1. \A n \in T : IsFiniteSet(Below(n)) /\ Rank(n) \in Nat
  BY FS_Subset, FS_CardinalityType
<1>2. PICK n \in S : \A m \in S : Rank(n) <= Rank(m)
  <2>1. \A n \in S : Rank(n) \in Nat
    BY <1>1
  <2> HIDE DEF Rank
  <2>2. A \subseteq Nat /\ A # {}
    BY <2>1
  <2>3. PICK a \in A : \A b \in A : a <= b
    <3> HIDE DEF A
    <3> QED BY <2>2, LeastNatural
  <2>4. PICK n \in S : a = Rank(n)
    BY <2>3
  <2>5. \A m \in S : Rank(n) <= Rank(m)
    BY <2>3, <2>4
  <2> QED
    BY <2>5
<1>3. ASSUME NEW m \in S, <<m, n>> \in R PROVE FALSE
  <2>1. Below(m) \subseteq Below(n) /\ Below(m) # Below(n)
    BY <1>3, m \in T, n \in T
  <2>2. Rank(m) <= Rank(n) /\ (Rank(n) = Rank(m) => Below(n) = Below(m))
    BY <2>1, <1>1, FS_Subset, Below(m) \in SUBSET Below(n)
  <2>3. Rank(n) <= Rank(m)
    BY <1>2
  <2> HIDE DEF Below
  <2> QED
    BY <2>1, <2>2, <2>3, <1>1
<1> QED
  BY <1>3

(***************************************************************************)
(* Nodes and their order.                                                  *)
(***************************************************************************)

LEMMA OutputsAreOutputs == \A out \in Outputs \union {<<>>} : Output(out)
<1>1. Output(<<>>)
  <2>1. <<>> \in Seq(Lines) /\ Len(<<>>) = 0 /\ 1 .. 0 = {}
    OBVIOUS
  <2> QED
    BY <2>1 DEF Output
<1>2. \A out \in Outputs : Output(out)
  BY OutputsAssumption, IdsAssumption DEF Output
<1> QED
  BY <1>1, <1>2

(* Each node is the plan start or the start or the end of a line.          *)
LEMMA NodeFacts ==
  ASSUME NEW out, Output(out)
  PROVE  /\ Len(out) \in Nat
         /\ \A n \in PlanNodes(out) :
              /\ n \in Nat
              /\ ActionId(n) \in ActionIds
              /\ n = 0 \/ n \in StartNodes(out) \/ n \in EndNodes(out)
         /\ 0 \in PlanNodes(out) /\ 0 \notin StartNodes(out) /\ 0 \notin EndNodes(out)
         /\ \A n \in StartNodes(out) :
              /\ n \in PlanNodes(out) /\ n \notin EndNodes(out)
              /\ ActionId(n) \in 0 .. (Len(out) - 1) /\ n = 2 * ActionId(n) + 1
              /\ n + 1 \in EndNodes(out)
              /\ LineOf(out, n) \in Lines
         /\ \A n \in EndNodes(out) :
              /\ n \in PlanNodes(out) /\ n \notin StartNodes(out)
              /\ ActionId(n) \in 0 .. (Len(out) - 1) /\ n = 2 * ActionId(n) + 2
              /\ n - 1 \in StartNodes(out) /\ ActionId(n - 1) = ActionId(n)
              /\ LineOf(out, n) \in Lines
              /\ LineOf(out, n).duration = 0 => LineOf(out, n).rounding = 0
<1>1. Len(out) \in Nat /\ \A i \in 1 .. Len(out) : out[i] \in Lines
  BY DEF Output
<1>2. \A k \in 0 .. (Len(out) - 1) :
        /\ ActionId(2 * k + 1) = k /\ ActionId(2 * k + 2) = k
        /\ 2 * k + 1 \in PlanNodes(out) /\ 2 * k + 2 \in PlanNodes(out)
        /\ (k + 1) \in 1 .. Len(out) /\ k \in ActionIds /\ k \in Nat
  <2> SUFFICES ASSUME NEW k \in 0 .. (Len(out) - 1)
               PROVE  /\ ActionId(2 * k + 1) = k /\ ActionId(2 * k + 2) = k
                      /\ 2 * k + 1 \in PlanNodes(out) /\ 2 * k + 2 \in PlanNodes(out)
                      /\ (k + 1) \in 1 .. Len(out) /\ k \in ActionIds /\ k \in Nat
    OBVIOUS
  <2>1. k \in Nat /\ (k + 1) \in 1 .. Len(out) /\ (k + 1) - 1 = k
    BY <1>1
  <2>2. k \in ActionIds
    BY <2>1 DEF Output
  <2>3. ActionId(2 * k + 1) = k
    BY <2>1 DEF ActionId
  <2>4. ActionId(2 * k + 2) = k
    BY <2>1 DEF ActionId
  <2>5. 2 * k + 1 \in PlanNodes(out) /\ 2 * k + 2 \in PlanNodes(out)
    BY <2>1, <1>1 DEF PlanNodes
  <2> QED
    BY <2>1, <2>2, <2>3, <2>4, <2>5
<1>3. \A n \in PlanNodes(out) : n \in Nat /\ (n = 0 \/ n \in StartNodes(out) \/ n \in EndNodes(out))
  <2> SUFFICES ASSUME NEW n \in PlanNodes(out), n # 0
               PROVE  n \in Nat /\ (n \in StartNodes(out) \/ n \in EndNodes(out))
    BY <1>1 DEF PlanNodes
  <2>1. n \in Nat /\ n >= 1 /\ n <= 2 * Len(out)
    BY <1>1 DEF PlanNodes
  <2>2. PICK k \in Nat : n = 2 * k + 1 \/ n = 2 * k + 2
    <3>1. (n - 1) \div 2 \in Nat /\ (n = 2 * ((n - 1) \div 2) + 1 \/ n = 2 * ((n - 1) \div 2) + 2)
      BY <2>1
    <3> QED
      BY <3>1
  <2>3. k \in 0 .. (Len(out) - 1)
    BY <2>1, <2>2, <1>1
  <2> QED
    BY <2>1, <2>2, <2>3 DEF StartNodes, EndNodes
<1>4. 0 \in PlanNodes(out) /\ 0 \notin StartNodes(out) /\ 0 \notin EndNodes(out)
  BY <1>1 DEF PlanNodes, StartNodes, EndNodes
<1>5. ASSUME NEW n \in StartNodes(out)
      PROVE  /\ n \in PlanNodes(out) /\ n \notin EndNodes(out)
             /\ ActionId(n) \in 0 .. (Len(out) - 1) /\ n = 2 * ActionId(n) + 1
             /\ n + 1 \in EndNodes(out)
             /\ LineOf(out, n) \in Lines
             /\ ActionId(n) \in ActionIds
  <2>1. PICK k \in 0 .. (Len(out) - 1) : n = 2 * k + 1
    BY DEF StartNodes
  <2>2. n \notin EndNodes(out)
    BY <2>1, <1>1 DEF EndNodes
  <2>3. n + 1 = 2 * k + 2
    BY <2>1, <1>1
  <2> QED
    BY <2>1, <2>2, <2>3, <1>1, <1>2 DEF LineOf, EndNodes
<1>6. ASSUME NEW n \in EndNodes(out)
      PROVE  /\ n \in PlanNodes(out) /\ n \notin StartNodes(out)
             /\ ActionId(n) \in 0 .. (Len(out) - 1) /\ n = 2 * ActionId(n) + 2
             /\ n - 1 \in StartNodes(out) /\ ActionId(n - 1) = ActionId(n)
             /\ LineOf(out, n) \in Lines
             /\ LineOf(out, n).duration = 0 => LineOf(out, n).rounding = 0
             /\ ActionId(n) \in ActionIds
  <2>1. PICK k \in 0 .. (Len(out) - 1) : n = 2 * k + 2
    BY DEF EndNodes
  <2>2. n \notin StartNodes(out)
    BY <2>1, <1>1 DEF StartNodes
  <2>3. n - 1 = 2 * k + 1
    BY <2>1, <1>1
  <2>4. (k + 1) \in 1 .. Len(out) /\ ActionId(n) = k /\ ActionId(n - 1) = k
    BY <2>1, <2>3, <1>2
  <2>5. out[k + 1].duration = 0 => out[k + 1].rounding = 0
    BY <2>4 DEF Output
  <2> QED
    BY <2>1, <2>2, <2>3, <2>4, <2>5, <1>1, <1>2 DEF LineOf, StartNodes
<1>7. \A n \in PlanNodes(out) : ActionId(n) \in ActionIds
  BY <1>3, <1>5, <1>6, IdsAssumption DEF ActionId
<1> QED
  BY <1>1, <1>3, <1>4, <1>5, <1>6, <1>7

LEMMA TimeType ==
  ASSUME NEW out, Output(out), NEW n \in PlanNodes(out)
  PROVE  NodeTime(out, n) \in Int
<1>1. CASE n = 0
  BY <1>1 DEF NodeTime
<1>2. CASE n \in StartNodes(out)
  BY <1>2, NodeFacts DEF NodeTime, Lines
<1>3. CASE n \in EndNodes(out)
  <2>1. /\ n # 0 /\ n \notin StartNodes(out) /\ LineOf(out, n) \in Lines
    BY <1>3, NodeFacts
  <2> QED
    BY <2>1 DEF NodeTime, Lines
<1> QED
  BY <1>1, <1>2, <1>3, NodeFacts

(* The order of the multimap is a strict total order; the plan start comes *)
(* first and an action starts before it ends.                              *)
LEMMA OrderFacts ==
  ASSUME NEW out, Output(out)
  PROVE  /\ \A n \in PlanNodes(out) : ~ Before(out, n, n)
         /\ \A k, m, n \in PlanNodes(out) :
              Before(out, k, m) /\ Before(out, m, n) => Before(out, k, n)
         /\ \A m, n \in PlanNodes(out) : m = n \/ Before(out, m, n) \/ Before(out, n, m)
         /\ \A n \in PlanNodes(out) : n # 0 => Before(out, 0, n)
         /\ \A n \in EndNodes(out) : Before(out, n - 1, n)
<1>1. \A n \in PlanNodes(out) : n \in Nat /\ NodeTime(out, n) \in Int
  BY NodeFacts, TimeType
<1>2. ASSUME NEW n \in EndNodes(out) PROVE Before(out, n - 1, n)
  <2>1. /\ n - 1 \in StartNodes(out) /\ n \notin StartNodes(out) /\ n # 0 /\ n - 1 # 0
        /\ LineOf(out, n - 1) = LineOf(out, n) /\ LineOf(out, n) \in Lines /\ n \in Nat
        /\ LineOf(out, n).duration = 0 => LineOf(out, n).rounding = 0
    BY NodeFacts DEF LineOf
  <2>2. /\ NodeTime(out, n - 1) = 2 * LineOf(out, n).dispatch_time
        /\ NodeTime(out, n) = 2 * (LineOf(out, n).dispatch_time + LineOf(out, n).duration)
                                + LineOf(out, n).rounding
    BY <2>1 DEF NodeTime
  <2> QED
    BY <2>1, <2>2 DEF Before, Lines
<1>3. ASSUME NEW n \in PlanNodes(out), n # 0 PROVE Before(out, 0, n)
  <2>1. NodeTime(out, 0) = 0
    BY DEF NodeTime
  <2>2. ASSUME NEW m \in StartNodes(out) PROVE NodeTime(out, m) >= 0
    BY NodeFacts DEF NodeTime, Lines
  <2>3. NodeTime(out, n) >= 0
    <3>1. CASE n \in StartNodes(out)
      BY <2>2, <3>1
    <3>2. CASE n \in EndNodes(out)
      <4>1. n - 1 \in StartNodes(out) /\ n - 1 \in PlanNodes(out)
        BY <3>2, NodeFacts
      <4>2. NodeTime(out, n - 1) >= 0 /\ Before(out, n - 1, n)
        BY <3>2, <4>1, <2>2, <1>2
      <4> QED
        BY <4>1, <4>2, <1>1 DEF Before
    <3> QED
      BY <1>3, <3>1, <3>2, NodeFacts
  <2> QED
    BY <2>1, <2>3, <1>1, <1>3 DEF Before
<1>4. \A n \in PlanNodes(out) : ~ Before(out, n, n)
  BY <1>1 DEF Before
<1>5. \A k, m, n \in PlanNodes(out) :
        Before(out, k, m) /\ Before(out, m, n) => Before(out, k, n)
  BY <1>1 DEF Before
<1>6. \A m, n \in PlanNodes(out) : m = n \/ Before(out, m, n) \/ Before(out, n, m)
  BY <1>1 DEF Before
<1> QED
  BY <1>2, <1>3, <1>4, <1>5, <1>6

(* A set of nodes has a first and a last one in the order of times.        *)
LEMMA FirstAndLast ==
  ASSUME NEW out, Output(out), NEW S, S \subseteq PlanNodes(out), S # {}
  PROVE  /\ \E n \in S : \A m \in S : m = n \/ Before(out, n, m)
         /\ \E n \in S : \A m \in S : m = n \/ Before(out, m, n)
<1> DEFINE T == PlanNodes(out)
           Forth == {p \in T \X T : Before(out, p[1], p[2])}
           Back  == {p \in T \X T : Before(out, p[2], p[1])}
<1>1. IsFiniteSet(T)
  BY NodeFacts, FS_Interval DEF PlanNodes
<1>2. /\ \A m, n \in T : <<m, n>> \in Forth <=> Before(out, m, n)
      /\ \A m, n \in T : <<m, n>> \in Back <=> Before(out, n, m)
  OBVIOUS
<1>3. \E n \in S : \A m \in S : <<m, n>> \notin Forth
  <2>1. /\ \A x \in T : <<x, x>> \notin Forth
        /\ \A x, y, z \in T : <<x, y>> \in Forth /\ <<y, z>> \in Forth => <<x, z>> \in Forth
    <3> HIDE DEF Forth, T
    <3> QED BY <1>2, OrderFacts DEF T
  <2> HIDE DEF Forth, T
  <2> QED
    BY <1>1, <2>1, FirstElement DEF T
<1>4. \E n \in S : \A m \in S : <<m, n>> \notin Back
  <2>1. /\ \A x \in T : <<x, x>> \notin Back
        /\ \A x, y, z \in T : <<x, y>> \in Back /\ <<y, z>> \in Back => <<x, z>> \in Back
    <3> HIDE DEF Back, T
    <3> QED BY <1>2, OrderFacts DEF T
  <2> HIDE DEF Back, T
  <2> QED
    BY <1>1, <2>1, FirstElement DEF T
<1> HIDE DEF Forth, Back
<1>5. \E n \in S : \A m \in S : ~ Before(out, m, n)
  BY <1>2, <1>3
<1>6. \E n \in S : \A m \in S : ~ Before(out, n, m)
  BY <1>2, <1>4
<1>7. \A m, n \in S : m = n \/ Before(out, m, n) \/ Before(out, n, m)
  BY OrderFacts
<1> QED
  BY <1>5, <1>6, <1>7
(***************************************************************************)
(* The graph.                                                              *)
(***************************************************************************)

(* Every edge leads forward in the order of times.                         *)
LEMMA EdgesForward ==
  ASSUME NEW out, Output(out), NEW details, NEW tils,
         NEW m \in PlanNodes(out), NEW n \in PlanNodes(out), n # 0,
         EdgeFrom(details, out, tils, m, n)
  PROVE  Before(out, m, n)
<1>1. Before(out, 0, n)
  BY OrderFacts
<1>2. CASE n \in EndNodes(out) /\ m = n - 1
  BY <1>2, OrderFacts
<1>3. CASE Ordered(details, out, tils, m, n)
  <2>1. CASE Interferes(details, out, m, n)
    BY <2>1 DEF Interferes
  <2>2. CASE \E c \in Conditions(details, out, n) : Supports(details, out, tils, m, n, c)
    BY <2>2, <1>1 DEF Supports, Supporters
  <2> QED
    BY <1>3, <2>1, <2>2 DEF Ordered
<1> QED
  BY <1>1, <1>2, <1>3 DEF EdgeFrom

(* Every graph createGraph() can draw is one the dispatcher can walk.      *)
LEMMA GraphWellFormed ==
  ASSUME NEW out, Output(out), NEW details, NEW tils
  PROVE  WellFormed(Graph(details, out, tils))
<1> DEFINE p == Graph(details, out, tils)
<1>1. /\ p.count = 2 * Len(out) + 1 /\ Nodes(p) = PlanNodes(out)
      /\ p.edges = {e \in [source : PlanNodes(out), sink : PlanNodes(out) \ {0}] :
                      EdgeFrom(details, out, tils, e.source, e.sink)}
      /\ p.node_type = [n \in PlanNodes(out) |->
                          IF n \in StartNodes(out) THEN "ACTION_START"
                          ELSE IF n \in EndNodes(out) THEN "ACTION_END" ELSE "PLAN_START"]
      /\ p.action_id = [n \in PlanNodes(out) |-> ActionId(n)]
  <2>1. (2 * Len(out) + 1) - 1 = 2 * Len(out)
    BY NodeFacts
  <2> QED
    BY <2>1 DEF Graph, Nodes, PlanNodes
<1>2. /\ Starts(p) = StartNodes(out) /\ Ends(p) = EndNodes(out)
      /\ \A n \in PlanNodes(out) : p.node_type[n] = "PLAN_START" <=> n = 0
  BY <1>1, NodeFacts DEF Starts, Ends
<1> HIDE DEF p
<1>3. PlanType(p)
  <2>1. p.count \in Nat
    BY <1>1, NodeFacts
  <2>2. p.node_type \in [Nodes(p) -> NodeTypes]
    BY <1>1 DEF NodeTypes
  <2>3. p.action_id \in [Nodes(p) -> ActionIds]
    BY <1>1, NodeFacts
  <2>4. p.edges \subseteq [source : Nodes(p), sink : Nodes(p)]
    BY <1>1
  <2> QED
    BY <2>1, <2>2, <2>3, <2>4 DEF PlanType
<1>4. PairedNodes(p)
  <2>1. ASSUME NEW m \in Nodes(p), NEW n \in Nodes(p),
               p.node_type[m] = p.node_type[n],
               p.action_id[m] = p.action_id[n] \/ p.node_type[m] = "PLAN_START"
        PROVE  m = n
    <3>1. CASE m = 0
      BY <3>1, <2>1, <1>1, <1>2
    <3>2. CASE m \in StartNodes(out)
      <4>1. n \in StartNodes(out)
        BY <3>2, <2>1, <1>1, <1>2 DEF Starts
      <4>2. ActionId(m) = ActionId(n)
        BY <3>2, <2>1, <1>1, NodeFacts
      <4> QED
        BY <3>2, <4>1, <4>2, NodeFacts
    <3>3. CASE m \in EndNodes(out)
      <4>1. n \in EndNodes(out)
        BY <3>3, <2>1, <1>1, <1>2 DEF Ends
      <4>2. ActionId(m) = ActionId(n)
        BY <3>3, <2>1, <1>1, NodeFacts
      <4> QED
        BY <3>3, <4>1, <4>2, NodeFacts
    <3> QED
      BY <3>1, <3>2, <3>3, <1>1, NodeFacts
  <2>2. ASSUME NEW n \in EndNodes(out)
        PROVE  [source |-> n - 1, sink |-> n] \in p.edges /\ ActionId(n - 1) = ActionId(n)
               /\ n - 1 \in StartNodes(out)
    <3>1. n \in PlanNodes(out) \ {0} /\ n - 1 \in StartNodes(out) /\ n - 1 \in PlanNodes(out)
          /\ ActionId(n - 1) = ActionId(n)
      BY NodeFacts
    <3>2. EdgeFrom(details, out, tils, n - 1, n)
      BY DEF EdgeFrom
    <3> QED
      BY <3>1, <3>2, <1>1
  <2>3. ASSUME NEW n \in Ends(p)
        PROVE  \E e \in In(p, n) : e.source \in Starts(p) /\ p.action_id[e.source] = p.action_id[n]
    <3>1. n \in EndNodes(out) /\ n \in PlanNodes(out) /\ n - 1 \in PlanNodes(out)
      BY <1>2, NodeFacts
    <3>2. [source |-> n - 1, sink |-> n] \in In(p, n)
      BY <3>1, <2>2 DEF In
    <3>3. n - 1 \in Starts(p) /\ p.action_id[n - 1] = p.action_id[n]
      <4>1. n - 1 \in StartNodes(out) /\ ActionId(n - 1) = ActionId(n)
        BY <3>1, <2>2
      <4>2. p.action_id[n - 1] = ActionId(n - 1) /\ p.action_id[n] = ActionId(n)
        BY <3>1, <1>1
      <4> QED
        BY <4>1, <4>2, <1>2
    <3> QED
      BY <3>2, <3>3
  <2>4. ASSUME NEW n \in Starts(p)
        PROVE  \E e \in Out(p, n) : e.sink \in Ends(p) /\ p.action_id[e.sink] = p.action_id[n]
    <3>1. n + 1 \in EndNodes(out) /\ (n + 1) - 1 = n /\ n \in PlanNodes(out) /\ n + 1 \in PlanNodes(out)
      <4>1. n \in StartNodes(out)
        BY <1>2
      <4>2. n \in PlanNodes(out) /\ n + 1 \in EndNodes(out)
        BY <4>1, NodeFacts
      <4>3. n \in Nat /\ n + 1 \in PlanNodes(out)
        BY <4>2, NodeFacts
      <4> QED
        BY <4>2, <4>3
    <3>2. [source |-> n, sink |-> n + 1] \in p.edges /\ ActionId(n) = ActionId(n + 1)
      BY <3>1, <2>2
    <3>3. [source |-> n, sink |-> n + 1] \in Out(p, n)
      BY <3>2 DEF Out
    <3>4. n + 1 \in Ends(p) /\ p.action_id[n + 1] = p.action_id[n]
      <4>1. p.action_id[n + 1] = ActionId(n + 1) /\ p.action_id[n] = ActionId(n)
        BY <3>1, <1>1
      <4> QED
        BY <4>1, <3>1, <3>2, <1>2
    <3> QED
      BY <3>3, <3>4
  <2> QED
    BY <2>1, <2>3, <2>4 DEF PairedNodes
<1>5. AllStartsHeld(p)
  <2>1. ASSUME NEW n \in Starts(p) PROVE In(p, n) # {}
    <3>1. n \in PlanNodes(out) \ {0}
      BY <1>2, NodeFacts
    <3>2. \E k \in PlanNodes(out) : EdgeFrom(details, out, tils, k, n)
      BY NodeFacts DEF EdgeFrom
    <3>3. PICK k \in PlanNodes(out) : [source |-> k, sink |-> n] \in p.edges
      BY <3>1, <3>2, <1>1
    <3> QED
      BY <3>3 DEF In
  <2>2. \A e \in p.edges : p.node_type[e.sink] # "PLAN_START"
    BY <1>1, <1>2
  <2> QED
    BY <2>1, <2>2 DEF AllStartsHeld
<1>6. Acyclic(p)
  <2> SUFFICES ASSUME NEW S \in SUBSET Nodes(p), S # {}
               PROVE  \E n \in S : \A e \in In(p, n) : e.source \notin S
    BY DEF Acyclic
  <2>1. PICK n \in S : \A m \in S : m = n \/ Before(out, n, m)
    BY <1>1, FirstAndLast
  <2>2. ASSUME NEW e \in In(p, n), e.source \in S PROVE FALSE
    <3>1. /\ e.source \in PlanNodes(out) /\ n \in PlanNodes(out) /\ n # 0
          /\ EdgeFrom(details, out, tils, e.source, n)
      BY <2>2, <1>1 DEF In
    <3>2. Before(out, e.source, n)
      BY <3>1, EdgesForward
    <3> QED
      BY <3>1, <3>2, <2>1, <2>2, OrderFacts
  <2> QED
    BY <2>2
<1> QED
  BY <1>3, <1>4, <1>5, <1>6 DEF WellFormed, p

(***************************************************************************)
(* Types and the shape of what is published.                               *)
(***************************************************************************)

LEMMA EmptyPlanType == PlanType(EmptyPlan) /\ Nodes(EmptyPlan) = {}
BY DEF EmptyPlan, PlanType, Nodes

LEMMA EffectsType ==
  ASSUME NEW details \in [ActionIds -> Details], NEW out, Output(out), NEW n \in PlanNodes(out)
  PROVE  /\ Effects(details, out, n) \subseteq Literals
         /\ Protected(details, out, n) \subseteq Literals
         /\ Conditions(details, out, n) \subseteq Literals
<1>1. details[ActionId(n)] \in Details
  BY NodeFacts
<1> QED
  BY <1>1 DEF Effects, Protected, Conditions, Details

LEMMA ProcessedType ==
  ASSUME NEW details \in [ActionIds -> Details], NEW out \in Outputs \union {<<>>},
         NEW answered \in SUBSET Asked(out)
  PROVE  Processed(details, out, answered) \in [ActionIds -> Details]
<1>1. ASSUME NEW a \in answered PROVE DetailsOf(out[a + 1].operator) \in Details
  <2>1. a \in Nat /\ a < Len(out) /\ Output(out) /\ Len(out) \in Nat
    BY IdsAssumption, OutputsAreOutputs, NodeFacts DEF Asked
  <2>2. out[a + 1] \in Lines
    BY <2>1 DEF Output
  <2> QED
    BY <2>2, SchemaAssumption DEF Lines
<1> QED
  BY <1>1 DEF Processed

(* What the topic holds: nothing, or the graph of the last output parsed,  *)
(* drawn with the details and the timed literals at hand.                  *)
Drawn ==
  IF published = 0
  THEN complete_plan = EmptyPlan /\ fired = {} /\ happened = {} /\ world = initial /\ parsed = <<>>
  ELSE complete_plan = Graph(action_details, parsed, til_list)

LEMMA PublishStep ==
  ASSUME EnactmentTypeOK, Publish
  PROVE  /\ ParserTypeOK'
         /\ complete_plan' = Graph(action_details', parsed', til_list')
<1>1. PICK out \in Outputs \union {<<>>}, tils \in Tils : \E answered \in SUBSET Asked(out) :
        /\ Prepare(out, answered, tils)
        /\ planner_output_received' = FALSE
        /\ planner_output' = out
  BY DEF Publish, ParsePlan, ParsePlanFromFile, EnactmentTypeOK, ParserTypeOK
<1>2. PICK answered \in SUBSET Asked(out) :
        /\ Prepare(out, answered, tils)
        /\ planner_output_received' = FALSE
        /\ planner_output' = out
  BY <1>1
<1>3. /\ complete_plan' = Graph(action_details', parsed', til_list')
      /\ parsed' = out /\ til_list' = tils
      /\ action_details' = Processed(action_details, out, answered)
  BY <1>2 DEF Prepare
<1>4. action_details' \in [ActionIds -> Details]
  BY <1>3, ProcessedType DEF EnactmentTypeOK, ParserTypeOK
<1>5. PlanType(complete_plan')
  BY <1>3, OutputsAreOutputs, GraphWellFormed DEF WellFormed
<1>6. til_list' \subseteq TimedLiterals
  BY <1>3, TilsAssumption
<1> QED
  BY <1>2, <1>3, <1>4, <1>5, <1>6 DEF ParserTypeOK

(* The graph of an output that is not the plan on the topic: publishing is *)
(* what changes the topic.                                                 *)
LEMMA TypeStep ==
  ASSUME EnactmentTypeOK, Drawn, [Next]_vars
  PROVE  EnactmentTypeOK' /\ Drawn'
<1> USE MaxPlansAssumption DEF EnactmentTypeOK
<1>1. CASE Begin
  <2>1. ParserTypeOK' /\ complete_plan' = Graph(action_details', parsed', til_list')
    BY <1>1, PublishStep DEF Begin
  <2>2. published' \in 0 .. MaxPlans /\ published' # 0
    BY <1>1 DEF Begin
  <2>3. /\ initial' \subseteq Atoms /\ world' \subseteq Atoms
        /\ fired' \subseteq Nodes(complete_plan') /\ happened' \subseteq Nodes(complete_plan')
    BY <1>1, WorldsAssumption DEF Begin
  <2> QED
    BY <2>1, <2>2, <2>3 DEF Drawn
<1>2. CASE Receive
  BY <1>2 DEF Receive, PlannerCallback, enactment, Drawn, ParserTypeOK
<1>3. ASSUME NEW n \in Nodes(complete_plan), Fire(n) \/ Happen(n)
      PROVE  EnactmentTypeOK' /\ Drawn'
  <2>1. complete_plan # EmptyPlan
    BY <1>3, EmptyPlanType
  <2>2. published # 0
    BY <2>1 DEF Drawn
  <2>3. CASE Fire(n)
    BY <2>2, <2>3 DEF Fire, parser, Drawn, ParserTypeOK
  <2>4. CASE Happen(n)
    BY <2>2, <2>4 DEF Happen, parser, Drawn, ParserTypeOK
  <2> QED
    BY <1>3, <2>3, <2>4
<1>4. CASE UNCHANGED vars
  BY <1>4 DEF vars, parser, enactment, Drawn, ParserTypeOK
<1> QED
  BY <1>1, <1>2, <1>3, <1>4 DEF Next

LEMMA TypeInit ==
  ASSUME Init
  PROVE  EnactmentTypeOK /\ Drawn
<1>1. NoDetails \in Details
  BY DEF NoDetails, Details
<1>2. action_details \in [ActionIds -> Details]
  BY <1>1 DEF Init, ParserInit
<1>3. ParserTypeOK
  BY <1>2, EmptyPlanType DEF Init, ParserInit, ParserTypeOK
<1> QED
  BY <1>3, MaxPlansAssumption DEF Init, ParserInit, EnactmentTypeOK, Drawn

(* Types of the parser's state and of the enactment, for all domains and   *)
(* outputs.                                                                *)
THEOREM EnactmentTypeCorrect == Spec => []EnactmentTypeOK
<1>1. Init => EnactmentTypeOK /\ Drawn
  BY TypeInit
<1>2. EnactmentTypeOK /\ Drawn /\ [Next]_vars => EnactmentTypeOK' /\ Drawn'
  BY TypeStep
<1> QED
  BY <1>1, <1>2, PTL DEF Spec

(* Every published graph satisfies what the dispatcher's proofs assume of  *)
(* the plans it receives.                                                  *)
THEOREM WellFormedCorrect == Spec => PublishedWellFormed
<1>1. Init => EnactmentTypeOK /\ Drawn
  BY TypeInit
<1>2. EnactmentTypeOK /\ Drawn /\ [Next]_vars => EnactmentTypeOK' /\ Drawn'
  BY TypeStep
<1>3. ASSUME EnactmentTypeOK, Drawn, [Next]_vars
      PROVE  [complete_plan' # complete_plan => WellFormed(complete_plan')]_parser
  <2>1. CASE Begin
    <3>1. ParserTypeOK' /\ complete_plan' = Graph(action_details', parsed', til_list')
      BY <1>3, <2>1, PublishStep DEF Begin
    <3> QED
      BY <3>1, OutputsAreOutputs, GraphWellFormed DEF ParserTypeOK
  <2>2. CASE Receive
    BY <2>2 DEF Receive, PlannerCallback
  <2>3. CASE \E n \in Nodes(complete_plan) : Fire(n) \/ Happen(n)
    BY <2>3 DEF Fire, Happen
  <2>4. CASE UNCHANGED vars
    BY <2>4 DEF vars
  <2> QED
    BY <1>3, <2>1, <2>2, <2>3, <2>4 DEF Next
<1> QED
  BY <1>1, <1>2, <1>3, PTL DEF Spec, PublishedWellFormed

(***************************************************************************)
(* Every order the edges allow.                                            *)
(***************************************************************************)

(* The dispatcher passes nodes after those their edges come from, end      *)
(* nodes after their effects; an action's effects come after its           *)
(* publication, the end ones after the start ones.                         *)
Passed ==
  /\ \A n \in fired : \A e \in In(complete_plan, n) : e.source \in fired
  /\ fired \intersect Ends(complete_plan) \subseteq happened
  /\ happened \intersect Starts(complete_plan) \subseteq fired
  /\ happened \subseteq Starts(complete_plan) \union Ends(complete_plan)
  /\ \A n \in happened \intersect Ends(complete_plan) : n - 1 \in happened

(* The latest node that has happened and touches the literal decides.      *)
DecidedBy(l) ==
  \/ /\ TrueIn(initial, l)
     /\ \A b \in Breakers(parsed, l) : b \notin happened
  \/ \E m \in Makers(parsed, l) \intersect happened :
       \A b \in Breakers(parsed, l) \intersect happened : Before(parsed, b, m)

WorldDecided == Enactable => \A l \in Literals : TrueIn(world, l) <=> DecidedBy(l)

IInv == EnactmentTypeOK /\ Drawn /\ Passed /\ WorldDecided

(* With the details of the plan's own actions, the parser sees the effects *)
(* and the conditions that its nodes have.                                 *)
LEMMA SeenAsKnown ==
  ASSUME EnactmentTypeOK, Drawn, Enactable
  PROVE  /\ Output(parsed) /\ Nodes(complete_plan) = PlanNodes(parsed)
         /\ Starts(complete_plan) = StartNodes(parsed) /\ Ends(complete_plan) = EndNodes(parsed)
         /\ \A n \in PlanNodes(parsed) :
              /\ Effects(action_details, parsed, n) = EffectsOf(n)
              /\ Conditions(action_details, parsed, n) = Conditions(Known(parsed), parsed, n)
              /\ Protected(action_details, parsed, n) = Protected(Known(parsed), parsed, n)
              /\ EffectsOf(n) \subseteq Literals
              /\ Conditions(Known(parsed), parsed, n) \subseteq Literals
              /\ Protected(Known(parsed), parsed, n) \subseteq Literals
<1>1. Output(parsed)
  BY OutputsAreOutputs DEF EnactmentTypeOK, ParserTypeOK
<1>2. complete_plan = Graph(action_details, parsed, til_list)
  BY DEF Drawn, Enactable
<1>3. Nodes(complete_plan) = PlanNodes(parsed)
  <2>1. (2 * Len(parsed) + 1) - 1 = 2 * Len(parsed)
    BY <1>1, NodeFacts
  <2> QED
    BY <1>2, <2>1 DEF Graph, Nodes, PlanNodes
<1>8. Starts(complete_plan) = StartNodes(parsed) /\ Ends(complete_plan) = EndNodes(parsed)
  <2>1. complete_plan.node_type =
          [n \in PlanNodes(parsed) |->
             IF n \in StartNodes(parsed) THEN "ACTION_START"
             ELSE IF n \in EndNodes(parsed) THEN "ACTION_END" ELSE "PLAN_START"]
    BY <1>2 DEF Graph
  <2> QED
    BY <1>1, <1>3, <2>1, NodeFacts DEF Starts, Ends
<1>4. ASSUME NEW n \in StartNodes(parsed) \union EndNodes(parsed)
      PROVE  action_details[ActionId(n)] = Known(parsed)[ActionId(n)]
  <2>1. n \in PlanNodes(parsed) /\ ActionId(n) \in 0 .. (Len(parsed) - 1)
    BY <1>1, NodeFacts
  <2>2. ActionId(n) \in ActionIds /\ ActionId(n) < Len(parsed)
    BY <1>1, <2>1, NodeFacts
  <2> QED
    BY <2>2 DEF Enactable, DetailsCurrent
<1>5. ASSUME NEW n \in PlanNodes(parsed)
      PROVE  /\ Effects(action_details, parsed, n) = EffectsOf(n)
             /\ Conditions(action_details, parsed, n) = Conditions(Known(parsed), parsed, n)
             /\ Protected(action_details, parsed, n) = Protected(Known(parsed), parsed, n)
  <2>1. Effects(action_details, parsed, n) = EffectsOf(n)
    BY <1>4 DEF Effects, EffectsOf
  <2>2. Conditions(action_details, parsed, n) = Conditions(Known(parsed), parsed, n)
    BY <1>4 DEF Conditions
  <2> QED
    BY <2>1, <2>2, <1>4 DEF Protected, EffectsOf
<1>6. action_details \in [ActionIds -> Details]
  BY DEF EnactmentTypeOK, ParserTypeOK
<1>7. \A n \in PlanNodes(parsed) :
        /\ EffectsOf(n) \subseteq Literals
        /\ Conditions(Known(parsed), parsed, n) \subseteq Literals
        /\ Protected(Known(parsed), parsed, n) \subseteq Literals
  BY <1>1, <1>5, <1>6, EffectsType
<1> QED
  BY <1>1, <1>3, <1>5, <1>7, <1>8

(* Nodes whose effects are in the world, or could be next.                 *)
Near == happened \union Due \union (Released \intersect Starts(complete_plan))

(* The effects of a node are written before those of the nodes its edges   *)
(* lead to, the edges being enforced.                                      *)
LEMMA Written ==
  ASSUME EnactmentTypeOK, Drawn, Passed, Enactable,
         NEW n \in Near,
         NEW m \in Starts(complete_plan) \union Ends(complete_plan),
         [source |-> m, sink |-> n] \in complete_plan.edges
  PROVE  m \in happened
<1> DEFINE p == complete_plan
           b == Begun(p, n)
           S == fired \union {b}
<1>1. /\ Output(parsed) /\ Nodes(p) = PlanNodes(parsed)
      /\ Starts(p) = StartNodes(parsed) /\ Ends(p) = EndNodes(parsed)
      /\ fired \subseteq Nodes(p) /\ happened \subseteq Nodes(p)
  BY SeenAsKnown DEF EnactmentTypeOK
<1>2. n \in Starts(p) \union Ends(p)
  BY DEF Near, Due, Passed
<1>3. n \in Ends(p) => n - 1 \in happened /\ n - 1 \in Starts(p)
  BY <1>1, NodeFacts DEF Near, Due, Passed
<1>4. b \in Starts(p) /\ b \in Nodes(p) /\ b \notin Ends(p) /\ (b \in fired \/ b \in Released)
  <2>1. CASE n \in Ends(p)
    BY <1>1, <1>3, <2>1, NodeFacts DEF Begun, Passed
  <2>2. CASE n \notin Ends(p)
    BY <1>1, <1>2, <2>2, NodeFacts DEF Begun, Near, Due, Passed
  <2> QED
    BY <2>1, <2>2
<1>5. S \in Prefixes(p)
  <2>1. ASSUME NEW e \in p.edges, e.sink \in S PROVE e.source \in S
    <3>1. e \in In(p, e.sink)
      BY DEF In
    <3> QED
      BY <1>4, <2>1, <3>1 DEF Passed, Released
  <2> QED
    BY <1>1, <1>4, <2>1 DEF Prefixes
<1>6. \/ {m, m + 1} \intersect Ends(p) \intersect S # {}
      \/ n \in Ends(p) /\ m = n - 1
  BY <1>5 DEF Enactable, Enforced
<1>7. \A k \in Ends(p) \intersect S : k \in happened
  BY <1>4 DEF Passed
<1>8. CASE m \in Ends(p) /\ m \in S
  BY <1>7, <1>8
<1>9. CASE m + 1 \in Ends(p) /\ m + 1 \in S
  <2>1. m + 1 \in happened
    BY <1>7, <1>9
  <2>2. (m + 1) - 1 = m
    BY <1>1, NodeFacts
  <2> QED
    BY <1>9, <2>1, <2>2 DEF Passed
<1> QED
  BY <1>3, <1>6, <1>8, <1>9

(* A node that undoes what an earlier one protects happens after it.       *)
LEMMA Interference ==
  ASSUME EnactmentTypeOK, Drawn, Passed, Enactable,
         NEW m \in PlanNodes(parsed), NEW n \in happened,
         Before(parsed, m, n),
         NEW l \in Protected(Known(parsed), parsed, m), Negation(l) \in EffectsOf(n)
  PROVE  m \in happened
<1>1. n \in PlanNodes(parsed) /\ Output(parsed)
  BY SeenAsKnown DEF EnactmentTypeOK
<1>2. n # 0
  BY <1>1, NodeFacts, OrderFacts
<1>3. Interferes(action_details, parsed, m, n)
  BY <1>1, SeenAsKnown DEF Interferes
<1>4. EdgeFrom(action_details, parsed, til_list, m, n)
  BY <1>3 DEF EdgeFrom, Ordered
<1>5. [source |-> m, sink |-> n] \in complete_plan.edges
  <2>1. complete_plan = Graph(action_details, parsed, til_list)
    BY DEF Drawn, Enactable
  <2> QED
    BY <2>1, <1>1, <1>2, <1>4 DEF Graph
<1>6. m \in Starts(complete_plan) \union Ends(complete_plan)
  BY <1>1, SeenAsKnown, NodeFacts DEF Protected, Effects
<1> QED
  BY <1>5, <1>6, Written DEF Near

(* The latest supporter of a condition happens before the node asks for it.*)
LEMMA Support ==
  ASSUME EnactmentTypeOK, Drawn, Passed, Enactable,
         NEW n \in Near, NEW l \in Conditions(Known(parsed), parsed, n),
         NEW m \in Makers(parsed, l), Before(parsed, m, n)
  PROVE  \E s \in Makers(parsed, l) \intersect happened :
           /\ s = m \/ Before(parsed, m, s)
           /\ Before(parsed, s, n)
<1>1. n \in PlanNodes(parsed) /\ Output(parsed)
  BY SeenAsKnown, NodeFacts DEF EnactmentTypeOK, Near, Released, Due
<1> DEFINE Sup == Supporters(action_details, parsed, n, l)
<1>2. Sup = {k \in PlanNodes(parsed) : Before(parsed, k, n) /\ k \in Makers(parsed, l)}
  BY SeenAsKnown DEF Supporters, Makers, EffectsOf
<1>3. PICK s \in Sup : \A k \in Sup : k = s \/ Before(parsed, k, s)
  <2>1. m \in Sup /\ Sup \subseteq PlanNodes(parsed)
    BY <1>2 DEF Makers
  <2> HIDE DEF Sup
  <2> QED
    BY <2>1, <1>1, FirstAndLast
<1>4. Supports(action_details, parsed, til_list, s, n, l)
  <2>1. ~ TilSupports(action_details, parsed, til_list, n, l)
    BY DEF TilSupports, Enactable
  <2> QED
    BY <2>1, <1>3 DEF Supports
<1>5. EdgeFrom(action_details, parsed, til_list, s, n)
  BY <1>1, <1>4, SeenAsKnown DEF EdgeFrom, Ordered
<1>6. n # 0 /\ s \in PlanNodes(parsed) /\ Before(parsed, s, n) /\ s \in Makers(parsed, l)
  <2>1. s \in PlanNodes(parsed) /\ Before(parsed, s, n) /\ s \in Makers(parsed, l)
    BY <1>2, <1>3
  <2>2. n # 0
    BY <1>1, NodeFacts DEF Conditions
  <2> QED
    BY <2>1, <2>2
<1>7. [source |-> s, sink |-> n] \in complete_plan.edges
  <2>1. complete_plan = Graph(action_details, parsed, til_list)
    BY DEF Drawn, Enactable
  <2> QED
    BY <2>1, <1>1, <1>5, <1>6 DEF Graph
<1>8. s \in happened
  <2>1. s \in Starts(complete_plan) \union Ends(complete_plan)
    BY <1>1, <1>6, SeenAsKnown, NodeFacts DEF Makers, Effects
  <2> QED
    BY <1>7, <2>1, Written
<1>9. s = m \/ Before(parsed, m, s)
  BY <1>2, <1>3 DEF Makers
<1> QED
  BY <1>6, <1>8, <1>9

(* No node both makes and breaks a literal.                                *)
LEMMA Consistent ==
  ASSUME EnactmentTypeOK, Drawn, Enactable, NEW n \in PlanNodes(parsed), NEW l \in Literals
  PROVE  ~ (l \in EffectsOf(n) /\ Negation(l) \in EffectsOf(n))
<1> SUFFICES ASSUME l \in EffectsOf(n), Negation(l) \in EffectsOf(n) PROVE FALSE
  OBVIOUS
<1>1. Output(parsed) /\ (n \in StartNodes(parsed) \/ n \in EndNodes(parsed))
  BY SeenAsKnown DEF EffectsOf, Effects
<1>2. LineOf(parsed, n) \in Lines /\ ActionId(n) \in ActionIds /\ ActionId(n) < Len(parsed)
  <2>1. n \in PlanNodes(parsed) /\ LineOf(parsed, n) \in Lines /\ ActionId(n) \in 0 .. (Len(parsed) - 1)
    BY <1>1, NodeFacts
  <2> QED
    BY <2>1, <1>1, NodeFacts
<1> DEFINE o == LineOf(parsed, n).operator
<1>3. o \in Operators /\ Known(parsed)[ActionId(n)] = DetailsOf(o)
  BY <1>2 DEF Lines, Known, LineOf
<1>4. EffectsOf(n) = Schema[o].start_effects \/ EffectsOf(n) = Schema[o].end_effects
  BY <1>1, <1>3 DEF EffectsOf, Effects, DetailsOf, NoDetails
<1> HIDE DEF o
<1> QED
  BY <1>3, <1>4, EffectsAssumption
LEMMA NegationForm ==
  \A a : /\ Negation([atom |-> a, holds |-> TRUE]) = [atom |-> a, holds |-> FALSE]
         /\ Negation([atom |-> a, holds |-> FALSE]) = [atom |-> a, holds |-> TRUE]
<1>1. \A a : Negation([atom |-> a, holds |-> TRUE]) = [atom |-> a, holds |-> ~ TRUE]
  BY DEF Negation
<1>2. \A a : Negation([atom |-> a, holds |-> FALSE]) = [atom |-> a, holds |-> ~ FALSE]
  BY DEF Negation
<1>3. (~ TRUE) = FALSE /\ (~ FALSE) = TRUE
  OBVIOUS
<1> QED
  BY <1>1, <1>2, <1>3

(* A literal after a node: what the node makes, or what held and the node  *)
(* does not break.                                                         *)
LEMMA TrueAfter ==
  ASSUME EnactmentTypeOK, Drawn, Enactable, NEW n \in PlanNodes(parsed), Happen(n),
         NEW l \in Literals
  PROVE  TrueIn(world', l) <=> \/ l \in EffectsOf(n)
                               \/ TrueIn(world, l) /\ Negation(l) \notin EffectsOf(n)
<1> DEFINE add == [atom |-> l.atom, holds |-> TRUE]
           del == [atom |-> l.atom, holds |-> FALSE]
<1>1. l.atom \in Atoms /\ l.holds \in BOOLEAN /\ world \subseteq Atoms
  BY DEF Literals, EnactmentTypeOK
<1>2. l.atom \in world' <=> add \in EffectsOf(n) \/ (l.atom \in world /\ del \notin EffectsOf(n))
  BY <1>1 DEF Happen
<1>3. CASE l.holds = TRUE
  <2>1. l = add /\ Negation(l) = del
    <3>1. l = [atom |-> l.atom, holds |-> l.holds]
      BY DEF Literals
    <3>2. Negation(l) = [atom |-> l.atom, holds |-> FALSE]
      BY <1>3, <3>1, NegationForm
    <3> QED BY <1>3, <3>1, <3>2
  <2> HIDE DEF add, del
  <2> QED
    BY <1>2, <1>3, <2>1 DEF TrueIn
<1>4. CASE l.holds = FALSE
  <2>1. l = del /\ Negation(l) = add
    <3>1. l = [atom |-> l.atom, holds |-> l.holds]
      BY DEF Literals
    <3>2. Negation(l) = [atom |-> l.atom, holds |-> TRUE]
      BY <1>4, <3>1, NegationForm
    <3> QED BY <1>4, <3>1, <3>2
  <2>2. ~ (del \in EffectsOf(n) /\ add \in EffectsOf(n))
    BY <2>1, Consistent
  <2> HIDE DEF add, del
  <2>3. (l.atom \in world') <=> ~ TrueIn(world', l)
    BY <1>4 DEF TrueIn
  <2>4. (l.atom \in world) <=> ~ TrueIn(world, l)
    BY <1>4 DEF TrueIn
  <2> QED
    BY <1>2, <2>1, <2>2, <2>3, <2>4
<1> QED
  BY <1>1, <1>3, <1>4

LEMMA NegationTwice ==
  ASSUME NEW l \in Literals
  PROVE  Negation(l) \in Literals /\ Negation(Negation(l)) = l
<1>1. l = [atom |-> l.atom, holds |-> l.holds] /\ l.atom \in Atoms /\ l.holds \in BOOLEAN
  BY DEF Literals
<1>2. CASE l.holds = TRUE
  <2>1. Negation(l) = [atom |-> l.atom, holds |-> FALSE]
    BY <1>1, <1>2, NegationForm
  <2> QED
    BY <1>1, <1>2, <2>1, NegationForm DEF Literals
<1>3. CASE l.holds = FALSE
  <2>1. Negation(l) = [atom |-> l.atom, holds |-> TRUE]
    BY <1>1, <1>3, NegationForm
  <2> QED
    BY <1>1, <1>3, <2>1, NegationForm DEF Literals
<1> QED
  BY <1>1, <1>2, <1>3

(* Each step keeps the order of passing and writing.                       *)
LEMMA PassedStep ==
  ASSUME EnactmentTypeOK, Drawn, Passed, [Next]_vars
  PROVE  Passed'
<1>1. CASE Begin
  BY <1>1 DEF Begin, Passed
<1>2. CASE Receive
  BY <1>2 DEF Receive, PlannerCallback, enactment, Passed
<1>3. ASSUME NEW n \in Nodes(complete_plan), Fire(n) PROVE Passed'
  BY <1>3 DEF Fire, Released, Passed, In, Ends, Starts, Nodes, parser
<1>4. ASSUME NEW n \in Nodes(complete_plan), Happen(n) PROVE Passed'
  <2>1. /\ complete_plan' = complete_plan /\ fired' = fired /\ happened' = happened \union {n}
        /\ n \in Due
    BY <1>4 DEF Happen, parser
  <2>2. \/ n \in Starts(complete_plan) /\ n \in fired
        \/ n \in Ends(complete_plan) /\ n - 1 \in happened
    BY <2>1 DEF Due
  <2>3. ~ (n \in Starts(complete_plan) /\ n \in Ends(complete_plan))
    BY DEF Starts, Ends
  <2> QED
    BY <2>1, <2>2, <2>3 DEF Passed
<1>5. CASE UNCHANGED vars
  BY <1>5 DEF vars, parser, enactment, Passed
<1> QED
  BY <1>1, <1>2, <1>3, <1>4, <1>5 DEF Next

(* The latest node to touch a literal goes on deciding it.                 *)
LEMMA DecidedStep ==
  ASSUME IInv, Enactable, NEW n \in Nodes(complete_plan), Happen(n), NEW l \in Literals
  PROVE  TrueIn(world', l) <=> DecidedBy(l)'
<1>1. /\ n \in PlanNodes(parsed) /\ n \notin happened /\ happened' = happened \union {n}
      /\ parsed' = parsed /\ initial' = initial
      /\ Output(parsed) /\ happened \subseteq PlanNodes(parsed)
  BY SeenAsKnown DEF IInv, EnactmentTypeOK, Happen, Due, parser
<1>2. Passed' /\ EnactmentTypeOK' /\ Drawn' /\ Enactable' /\ (\A k : EffectsOf(k)' = EffectsOf(k))
  <2>1. [Next]_vars
    BY DEF Next
  <2>2. UNCHANGED parser /\ published' = published
    BY DEF Happen
  <2> QED
    BY <2>1, <2>2, PassedStep, TypeStep DEF IInv, Enactable, DetailsCurrent, EffectsOf, parser
<1>3. TrueIn(world, l) <=> DecidedBy(l)
  BY DEF IInv, WorldDecided
<1>4. TrueIn(world', l) <=> \/ l \in EffectsOf(n)
                            \/ TrueIn(world, l) /\ Negation(l) \notin EffectsOf(n)
  BY <1>1, TrueAfter DEF IInv
<1>5. /\ \A k \in PlanNodes(parsed) : k \in Makers(parsed, l) <=> l \in EffectsOf(k)
      /\ \A k \in PlanNodes(parsed) : k \in Breakers(parsed, l) <=> Negation(l) \in EffectsOf(k)
      /\ Makers(parsed, l) \subseteq PlanNodes(parsed)
      /\ Breakers(parsed, l) \subseteq PlanNodes(parsed)
      /\ Makers(parsed, l)' = Makers(parsed, l) /\ Breakers(parsed, l)' = Breakers(parsed, l)
  BY <1>1 DEF Makers, Breakers, EffectsOf
<1>6. DecidedBy(l)' <=>
        \/ /\ TrueIn(initial, l)
           /\ \A b \in Breakers(parsed, l) : b \notin happened \union {n}
        \/ \E m \in Makers(parsed, l) \intersect (happened \union {n}) :
             \A b \in Breakers(parsed, l) \intersect (happened \union {n}) : Before(parsed, b, m)
  <2>1. TrueIn(initial, l)' <=> TrueIn(initial, l)
    BY <1>1 DEF TrueIn
  <2>2. \A b, m : Before(parsed, b, m)' <=> Before(parsed, b, m)
    BY <1>1 DEF Before, NodeTime, LineOf
  <2> QED
    BY <1>1, <1>5, <2>1, <2>2 DEF DecidedBy
(* Nothing that touches the literal the other way and comes later in the   *)
(* order has happened yet: n would have had to happen before it.           *)
<1>7. ASSUME NEW k \in happened, NEW x \in Literals, x \in EffectsOf(n), Negation(x) \in EffectsOf(k)
      PROVE  Before(parsed, k, n)
  <2>1. k \in PlanNodes(parsed) /\ k # n
    BY <1>1
  <2>2. SUFFICES ASSUME Before(parsed, n, k) PROVE FALSE
    BY <1>1, <2>1, OrderFacts
  <2>3. x \in Protected(Known(parsed), parsed, n)
    BY <1>7 DEF Protected, EffectsOf
  <2>4. n \in happened
    BY <1>1, <1>7, <2>2, <2>3, Interference DEF IInv
  <2> QED
    BY <1>1, <2>4
<1>8. CASE l \in EffectsOf(n)
  <2>1. n \in Makers(parsed, l) /\ n \notin Breakers(parsed, l)
    BY <1>1, <1>5, <1>8, Consistent DEF IInv
  <2>2. \A b \in Breakers(parsed, l) \intersect (happened \union {n}) : Before(parsed, b, n)
    BY <1>5, <1>7, <1>8, <2>1
  <2> QED
    BY <1>4, <1>6, <1>8, <2>1, <2>2
<1>9. CASE Negation(l) \in EffectsOf(n)
  <2>1. n \in Breakers(parsed, l) /\ n \notin Makers(parsed, l)
    BY <1>1, <1>5, <1>9, Consistent DEF IInv
  <2>2. ~ TrueIn(world', l)
    BY <1>1, <1>4, <1>5, <1>9, <2>1
  <2>3. ASSUME NEW m \in Makers(parsed, l) \intersect happened PROVE Before(parsed, m, n)
    BY <1>5, <1>7, <1>9, NegationTwice
  <2>4. ~ DecidedBy(l)'
    <3>1. \A m \in Makers(parsed, l) \intersect happened : ~ Before(parsed, n, m)
      BY <2>3, <1>1, <1>5, OrderFacts
    <3> QED
      BY <1>6, <2>1, <3>1
  <2> QED
    BY <2>2, <2>4
<1>10. CASE l \notin EffectsOf(n) /\ Negation(l) \notin EffectsOf(n)
  <2>1. n \notin Makers(parsed, l) /\ n \notin Breakers(parsed, l)
    BY <1>1, <1>5, <1>10
  <2>2. DecidedBy(l)' <=> DecidedBy(l)
    BY <1>6, <2>1 DEF DecidedBy
  <2> QED
    BY <1>3, <1>4, <1>10, <2>2
<1> QED
  BY <1>8, <1>9, <1>10

LEMMA InductionStep ==
  ASSUME IInv, [Next]_vars
  PROVE  IInv'
<1>1. EnactmentTypeOK' /\ Drawn' /\ Passed'
  BY TypeStep, PassedStep DEF IInv
<1>2. CASE Begin
  <2>1. world' = initial' /\ happened' = {}
    BY <1>2 DEF Begin
  <2>2. \A l : DecidedBy(l)' <=> TrueIn(initial', l)
    BY <2>1 DEF DecidedBy, TrueIn
  <2>3. WorldDecided'
    BY <2>1, <2>2 DEF WorldDecided, TrueIn
  <2> QED
    BY <1>1, <2>3 DEF IInv
<1>3. CASE Receive
  BY <1>1, <1>3 DEF IInv, Receive, PlannerCallback, enactment, WorldDecided, Enactable,
                    DetailsCurrent, DecidedBy, TrueIn
<1>4. ASSUME NEW n \in Nodes(complete_plan), Happen(n) PROVE IInv'
  <2>1. Enactable' <=> Enactable
    BY <1>4 DEF Happen, parser, Enactable, DetailsCurrent
  <2>2. ASSUME Enactable PROVE \A l \in Literals : TrueIn(world', l) <=> DecidedBy(l)'
    BY <1>4, <2>2, DecidedStep
  <2>3. WorldDecided'
    BY <2>1, <2>2 DEF WorldDecided, TrueIn
  <2> QED
    BY <1>1, <2>3 DEF IInv
<1>5. ASSUME NEW n \in Nodes(complete_plan), Fire(n) PROVE IInv'
  BY <1>1, <1>5 DEF IInv, Fire, parser, WorldDecided, Enactable, DetailsCurrent, DecidedBy, TrueIn
<1>6. CASE UNCHANGED vars
  BY <1>1, <1>6 DEF IInv, vars, parser, enactment, WorldDecided, Enactable, DetailsCurrent,
                    DecidedBy, TrueIn
<1> QED
  BY <1>2, <1>3, <1>4, <1>5, <1>6 DEF Next

LEMMA InductionBase ==
  ASSUME Init
  PROVE  IInv
<1>1. EnactmentTypeOK /\ Drawn
  BY TypeInit
<1>2. Passed /\ ~ Enactable
  BY DEF Init, ParserInit, Passed, Enactable
<1> QED
  BY <1>1, <1>2 DEF IInv, WorldDecided

(* The inductive invariant of the enactment.                               *)
THEOREM EnactmentInvariance == Spec => []IInv
<1>1. Init => IInv
  BY InductionBase
<1>2. IInv /\ [Next]_vars => IInv'
  BY InductionStep
<1> QED
  BY <1>1, <1>2, PTL DEF Spec

(* However a plan with enforced edges is enacted, it leaves the world the  *)
(* planner computed.                                                       *)
THEOREM SameOutcomeCorrect == Spec => []SameOutcome
<1>1. ASSUME IInv, Enactable, fired = Nodes(complete_plan) PROVE world = Outcome
  <2>1. \A n \in PlanNodes(parsed) : EffectsOf(n) # {} => n \in happened
    <3>1. /\ Output(parsed) /\ fired = PlanNodes(parsed)
          /\ Starts(complete_plan) = StartNodes(parsed) /\ Ends(complete_plan) = EndNodes(parsed)
      BY <1>1, SeenAsKnown DEF IInv
    <3>2. ASSUME NEW n \in EndNodes(parsed) PROVE n \in happened /\ n - 1 \in happened
      BY <1>1, <3>1, NodeFacts DEF IInv, Passed
    <3>3. ASSUME NEW n \in StartNodes(parsed) PROVE n \in happened
      <4>1. n + 1 \in EndNodes(parsed) /\ (n + 1) - 1 = n
        BY <3>1, NodeFacts
      <4> QED
        BY <3>2, <4>1
    <3> QED
      BY <3>2, <3>3 DEF EffectsOf, Effects
  <2>2. ASSUME NEW a \in Atoms PROVE a \in world <=> a \in Outcome
    <3> DEFINE add == [atom |-> a, holds |-> TRUE]
    <3>1. add \in Literals /\ add.atom = a /\ add.holds = TRUE
      BY DEF Literals
    <3>2. /\ Makers(parsed, add) \intersect happened = Makers(parsed, add)
          /\ Breakers(parsed, add) \intersect happened = Breakers(parsed, add)
      BY <2>1 DEF Makers, Breakers, EffectsOf
    <3>3. a \in world <=> DecidedBy(add)
      BY <1>1, <3>1 DEF IInv, WorldDecided, TrueIn
    <3>4. a \in Outcome <=> \/ a \in initial /\ Breakers(parsed, add) = {}
                            \/ \E m \in Makers(parsed, add) :
                                 \A b \in Breakers(parsed, add) : Before(parsed, b, m)
      BY DEF Outcome
    <3>5. TrueIn(initial, add) <=> a \in initial
      BY <3>1 DEF TrueIn
    <3> HIDE DEF add
    <3> QED
      BY <3>2, <3>3, <3>4, <3>5 DEF DecidedBy
  <2> QED
    BY <1>1, <2>2 DEF IInv, EnactmentTypeOK, Outcome
<1>2. IInv => SameOutcome
  BY <1>1 DEF SameOutcome
<1> QED
  BY <1>2, EnactmentInvariance, PTL
(* A condition of a node that is about to happen, of the kind the node     *)
(* itself protects, holds when the planner's order makes it hold.          *)
LEMMA ConditionHolds ==
  ASSUME IInv, Enactable, NEW n \in Near, n \notin happened,
         NEW l \in Conditions(Known(parsed), parsed, n) \intersect Protected(Known(parsed), parsed, n),
         HoldsBefore(parsed, initial, l, n)
  PROVE  TrueIn(world, l)
<1>1. n \in PlanNodes(parsed) /\ n \notin happened /\ l \in Literals
  BY SeenAsKnown, NodeFacts DEF IInv, Near, Released, Due
<1>2. /\ Makers(parsed, l) \subseteq PlanNodes(parsed)
      /\ Breakers(parsed, l) \subseteq PlanNodes(parsed)
      /\ Output(parsed)
  BY SeenAsKnown DEF IInv, Makers, Breakers
<1>3. ASSUME NEW b \in Breakers(parsed, l), b \in happened PROVE Before(parsed, b, n)
  <2>1. b # n
    BY <1>1, <1>3
  <2>2. SUFFICES ASSUME Before(parsed, n, b) PROVE FALSE
    BY <1>1, <1>2, <2>1, OrderFacts
  <2>3. Negation(l) \in EffectsOf(b)
    BY DEF Breakers, Makers, EffectsOf
  <2> QED
    BY <1>1, <1>3, <2>2, <2>3, Interference DEF IInv
<1>4. CASE TrueIn(initial, l) /\ \A b \in Breakers(parsed, l) : ~ Before(parsed, b, n)
  BY <1>1, <1>3, <1>4 DEF IInv, WorldDecided, DecidedBy
<1>5. ASSUME NEW m \in Makers(parsed, l), Before(parsed, m, n),
             \A b \in Breakers(parsed, l) : Before(parsed, b, m) \/ ~ Before(parsed, b, n)
      PROVE  TrueIn(world, l)
  <2>1. PICK s \in Makers(parsed, l) \intersect happened : s = m \/ Before(parsed, m, s)
    BY <1>5, Support DEF IInv
  <2>2. \A b \in Breakers(parsed, l) \intersect happened : Before(parsed, b, s)
    BY <1>2, <1>3, <1>5, <2>1, OrderFacts
  <2> QED
    BY <1>1, <2>1, <2>2 DEF IInv, WorldDecided, DecidedBy
<1> QED
  BY <1>4, <1>5 DEF HoldsBefore

(* The node that comes next after a node, if one comes after it at all.    *)
LEMMA NextNode ==
  ASSUME NEW out, Output(out), NEW k \in PlanNodes(out), NEW n \in PlanNodes(out),
         Before(out, k, n)
  PROVE  \E c \in PlanNodes(out) :
           /\ Before(out, k, c)
           /\ c = n \/ Before(out, c, n)
           /\ \A x \in PlanNodes(out) : Before(out, x, c) => x = k \/ Before(out, x, k)
<1> DEFINE S == {x \in PlanNodes(out) : Before(out, k, x)}
<1>1. PICK c \in S : \A m \in S : m = c \/ Before(out, c, m)
  <2>1. n \in S /\ S \subseteq PlanNodes(out)
    OBVIOUS
  <2> HIDE DEF S
  <2> QED
    BY <2>1, FirstAndLast
<1>2. c = n \/ Before(out, c, n)
  BY <1>1
<1>3. ASSUME NEW x \in PlanNodes(out), Before(out, x, c), x # k, ~ Before(out, x, k) PROVE FALSE
  <2>1. Before(out, k, x)
    BY <1>3, OrderFacts
  <2>2. x \in S /\ c \in PlanNodes(out)
    BY <2>1
  <2>3. x = c \/ Before(out, c, x)
    BY <1>1, <2>2
  <2> HIDE DEF S
  <2> QED
    BY <1>3, <2>2, <2>3, OrderFacts
<1> QED
  BY <1>1, <1>2, <1>3

(* An over all condition holds from just after the start to just before    *)
(* the end.                                                                *)
LEMMA OverAllHolds ==
  ASSUME IInv, Enactable, ValidPlan(parsed, initial),
         NEW n \in EndNodes(parsed), n - 1 \in happened, n \notin happened,
         NEW l \in Known(parsed)[ActionId(n)].over_all
  PROVE  TrueIn(world, l)
<1> DEFINE s == n - 1
<1>1. /\ Output(parsed) /\ n \in PlanNodes(parsed) /\ n \notin StartNodes(parsed)
      /\ s \in StartNodes(parsed) /\ s \in PlanNodes(parsed)
      /\ ActionId(s) = ActionId(n) /\ Before(parsed, s, n) /\ s \in happened
  BY SeenAsKnown, NodeFacts, OrderFacts DEF IInv
<1> HIDE DEF s
<1>2. /\ l \in Protected(Known(parsed), parsed, n)
      /\ l \in Conditions(Known(parsed), parsed, s)
      /\ l \in Literals
  <2>1. l \in Protected(Known(parsed), parsed, n) /\ l \in Conditions(Known(parsed), parsed, s)
    BY <1>1 DEF Protected, Conditions
  <2> QED
    BY <1>1, <2>1, SeenAsKnown DEF IInv
<1>3. /\ Makers(parsed, l) \subseteq PlanNodes(parsed)
      /\ Breakers(parsed, l) \subseteq PlanNodes(parsed)
  BY DEF Makers, Breakers
<1>4. \A c \in PlanNodes(parsed) :
        Before(parsed, s, c) /\ (c = n \/ Before(parsed, c, n)) =>
          HoldsBefore(parsed, initial, l, c)
  BY DEF ValidPlan, s
(* Nothing breaks the condition between the start and the end.             *)
<1>5. ASSUME NEW b \in Breakers(parsed, l), Before(parsed, b, n) PROVE Before(parsed, b, s)
  <2>1. SUFFICES ASSUME b = s \/ Before(parsed, s, b) PROVE FALSE
    BY <1>1, <1>3, OrderFacts
  <2>2. PICK c \in PlanNodes(parsed) :
          /\ Before(parsed, b, c)
          /\ c = n \/ Before(parsed, c, n)
          /\ \A x \in PlanNodes(parsed) : Before(parsed, x, c) => x = b \/ Before(parsed, x, b)
    BY <1>1, <1>3, <1>5, NextNode
  <2>3. Before(parsed, s, c)
    BY <1>1, <1>3, <2>1, <2>2, OrderFacts
  <2>4. HoldsBefore(parsed, initial, l, c)
    BY <1>4, <2>2, <2>3
  <2>5. PICK m \in Makers(parsed, l) : Before(parsed, m, c) /\ Before(parsed, b, m)
    BY <2>2, <2>4 DEF HoldsBefore
  <2> QED
    BY <1>1, <1>3, <2>2, <2>5, OrderFacts
<1>6. ASSUME NEW b \in Breakers(parsed, l), b \in happened PROVE Before(parsed, b, s)
  <2>1. SUFFICES ASSUME Before(parsed, n, b) PROVE FALSE
    BY <1>1, <1>3, <1>5, <1>6, OrderFacts
  <2>2. Negation(l) \in EffectsOf(b)
    BY DEF Breakers, Makers, EffectsOf
  <2> QED
    BY <1>1, <1>2, <1>6, <2>1, <2>2, Interference DEF IInv
<1>7. PICK q \in PlanNodes(parsed) :
        /\ Before(parsed, s, q)
        /\ q = n \/ Before(parsed, q, n)
        /\ \A x \in PlanNodes(parsed) : Before(parsed, x, q) => x = s \/ Before(parsed, x, s)
  BY <1>1, NextNode
<1>8. HoldsBefore(parsed, initial, l, q)
  BY <1>4, <1>7
<1>9. CASE TrueIn(initial, l) /\ \A b \in Breakers(parsed, l) : ~ Before(parsed, b, q)
  <2>1. \A b \in Breakers(parsed, l) : b \notin happened
    BY <1>1, <1>3, <1>6, <1>7, <1>9, OrderFacts
  <2> QED
    BY <1>2, <1>9, <2>1 DEF IInv, WorldDecided, DecidedBy
<1>10. ASSUME NEW m \in Makers(parsed, l), Before(parsed, m, q),
              \A b \in Breakers(parsed, l) : Before(parsed, b, m) \/ ~ Before(parsed, b, q)
       PROVE  TrueIn(world, l)
  <2>1. PICK d \in Makers(parsed, l) \intersect happened : d = m \/ Before(parsed, m, d)
    <3>1. CASE m = s
      BY <1>1, <3>1
    <3>2. CASE Before(parsed, m, s)
      BY <1>1, <1>2, <3>2, Support DEF IInv, Near
    <3> QED
      BY <1>3, <1>7, <1>10, <3>1, <3>2
  <2>2. ASSUME NEW b \in Breakers(parsed, l) \intersect happened PROVE Before(parsed, b, d)
    <3>1. Before(parsed, b, s)
      BY <1>6
    <3>2. Before(parsed, b, q)
      BY <1>1, <1>3, <1>7, <3>1, OrderFacts
    <3> QED
      BY <1>1, <1>3, <1>10, <2>1, <3>2, OrderFacts
  <2> QED
    BY <1>2, <2>1, <2>2 DEF IInv, WorldDecided, DecidedBy
<1> QED
  BY <1>8, <1>9, <1>10 DEF HoldsBefore

(* The edges of the parser are enough where they are enforced: however a   *)
(* plan is enacted that is valid in the planner's order, its conditions    *)
(* hold when they are due.                                                 *)
THEOREM ConditionsHoldCorrect == Spec => []ConditionsHold
<1>1. ASSUME IInv, Enactable, ValidPlan(parsed, initial),
             NEW n \in (Released \union Due) \intersect StartNodes(parsed),
             NEW l \in Known(parsed)[ActionId(n)].start_conditions
      PROVE  TrueIn(world, l)
  <2>1. l \in Conditions(Known(parsed), parsed, n) \intersect Protected(Known(parsed), parsed, n)
    BY DEF Conditions, Protected
  <2>2. HoldsBefore(parsed, initial, l, n)
    BY <1>1 DEF ValidPlan
  <2>3. n \in Near /\ n \notin happened
    BY <1>1, SeenAsKnown DEF IInv, Near, Released, Due, Passed
  <2> QED
    BY <1>1, <2>1, <2>2, <2>3, ConditionHolds
<1>2. ASSUME IInv, Enactable, ValidPlan(parsed, initial),
             NEW n \in Due \intersect EndNodes(parsed),
             NEW l \in Known(parsed)[ActionId(n)].end_conditions
      PROVE  TrueIn(world, l)
  <2>1. n \notin StartNodes(parsed)
    BY <1>2, SeenAsKnown, NodeFacts DEF IInv
  <2>2. l \in Conditions(Known(parsed), parsed, n) \intersect Protected(Known(parsed), parsed, n)
    BY <2>1 DEF Conditions, Protected
  <2>3. HoldsBefore(parsed, initial, l, n)
    BY <1>2 DEF ValidPlan
  <2>4. n \in Near /\ n \notin happened
    BY DEF Near, Due
  <2> QED
    BY <1>2, <2>2, <2>3, <2>4, ConditionHolds
<1>3. IInv => ConditionsHold
  BY <1>1, <1>2, OverAllHolds DEF ConditionsHold
<1> QED
  BY <1>3, EnactmentInvariance, PTL
=============================================================================
