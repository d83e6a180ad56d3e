-------------------- MODULE EsterelPlanDispatcherProofs --------------------
(***************************************************************************)
(* What holds of the Esterel dispatcher for every set of plans and every   *)
(* number of dispatches.  The inductive invariant IInv says what the maps  *)
(* of the dispatcher mean in terms of the nodes that have fired:           *)
(*   - an edge is active iff its source has fired and its sink has not;    *)
(*   - the fired nodes are closed under predecessors;                      *)
(*   - a start node has fired iff its action was published, and an end     *)
(*     node only if its action was reported;                               *)
(*   - as long as a pass has found nothing to do, every node it has walked *)
(*     past is either done with or still blocked by an edge.               *)
(* A pass that reaches the end with nothing to do therefore leaves no node *)
(* blocked: in an acyclic graph a blocked node has a predecessor that is   *)
(* blocked too, and there would be a first one.                            *)
(***************************************************************************)
EXTENDS EsterelPlanDispatcher, SequenceTheorems, TLAPS

(* The flag that keeps a second dispatch out of the loop.                  *)
LoopIsExclusive == InLoop \/ pc \in {"reset1", "reset1_spin"} => dispatching

ActiveEdges ==
  InLoop => /\ fired \subseteq Nodes(executing)
            /\ edge_active = {e \in executing.edges : e.source \in fired /\ e.sink \notin fired}

FiredClosed ==
  InLoop => \A e \in executing.edges : e.sink \in fired => e.source \in fired

FiredActions ==
  InLoop =>
    /\ \A n \in Starts(executing) : n \in fired <=> executing.action_id[n] \in action_dispatched
    /\ \A n \in Ends(executing) : n \in fired => executing.action_id[n] \in action_completed

(* A failure is on record only until the spin that reported it returns.    *)
Failures ==
  /\ InLoop =>
       /\ \A a \in ActionIds : outcome[a] = "failed" => pc = "spin" /\ replan_requested
       /\ \A a \in Ids(executing) \cap action_dispatched \cap action_completed :
            outcome[a] \in {"achieved", "failed"}
  /\ pc = "head" => ~replan_requested
  /\ pc = "visit" => ~plan_cancelled

Quiet(n) ==
  IF n \in fired THEN n \in Starts(plan) => plan.action_id[n] \in action_completed
  ELSE ~Ready(n)

QuietPass ==
  pc = "visit" /\ finished_execution /\ ~replan_requested
    => \A n \in Nodes(plan) : n < cursor => Quiet(n)

AllCompleted ==
  \A n \in Starts(executing) : executing.action_id[n] \in action_dispatched \cap action_completed

FinishedLoop ==
  pc \in {"spin", "head"} /\ finished_execution /\ ~replan_requested => AllCompleted

Succeeded ==
  pc \in {"reset1", "reset1_spin"} /\ verdict = "success" /\ ~plan_cancelled
    => \A a \in Ids(executing) :
         a \in action_dispatched \cap action_completed /\ outcome[a] = "achieved"

IInv ==
  /\ TypeOK
  /\ LoopIsExclusive
  /\ PlanStableInLoop
  /\ ActiveEdges
  /\ FiredClosed
  /\ FiredActions
  /\ Failures
  /\ QuietPass
  /\ FinishedLoop
  /\ Succeeded

-----------------------------------------------------------------------------
(* Plans and their graphs.                                                 *)

LEMMA PlanFacts ==
  ASSUME NEW p \in Plans
  PROVE  /\ p.count \in Nat
         /\ p.node_type \in [Nodes(p) -> NodeTypes]
         /\ p.action_id \in [Nodes(p) -> ActionIds]
         /\ p.edges \subseteq [source : Nodes(p), sink : Nodes(p)]
         /\ Nodes(p) \subseteq Nat
         /\ Ids(p) \subseteq ActionIds
         /\ NodeIds(p) \subseteq ActionIds
BY PlansAssumption DEF WellFormed, PlanType, Nodes, Ids, NodeIds, Starts

(* The interrupted resets.                                                 *)
Frame == [cursor : Nat, dangling : BOOLEAN]

LEMMA StackFacts ==
  ASSUME TypeOK
  PROVE  /\ stack \in Seq(Frame)
         /\ Len(stack) \in Nat
         /\ DOMAIN stack = 1 .. Len(stack)
         /\ \A i \in 1 .. Len(stack) : stack[i] \in Frame
         /\ stack # <<>> => Len(stack) >= 1 /\ stack[Len(stack)] \in Frame
<1>1. stack \in Seq(Frame)
  BY Zenon DEF TypeOK, Frame
<1>2. QED
  BY <1>1

LEMMA InitTypeOK == Init => TypeOK
<1>1. SUFFICES ASSUME Init PROVE TypeOK
  OBVIOUS
<1>2. FlagTypes
  BY <1>1, Zenon DEF Init, FlagTypes
<1>3. NoOutcome \in [ActionIds -> {"none", "achieved", "failed"}]
  BY DEF NoOutcome
<1>4. execution \in [1 .. MaxRuns -> [ActionIds -> Phases]]
  BY <1>1 DEF Init, Phases
<1>5. stack \in Seq([cursor : Nat, dangling : BOOLEAN])
  BY <1>1 DEF Init
<1>6. QED
  BY <1>1, <1>2, <1>3, <1>4, <1>5, PlansAssumption DEF Init, TypeOK, PCs

(* The flags are Boolean: stated apart from the other types because the    *)
(* prover that sees it does no arithmetic.                                 *)
LEMMA NextFlagTypes == TypeOK /\ Next => FlagTypes'
<1> SUFFICES ASSUME TypeOK, Next PROVE FlagTypes'
  OBVIOUS
<1>0. FlagTypes
  BY DEF TypeOK
<1>1. CASE Callback
  BY <1>0, <1>1, Zenon
  DEF FlagTypes, flags, thread, Callback, PlanCallback, CancelDispatch, ActionEnabled,
      ActionAchieved, ActionFailed, DispatchPlan
<1>2. CASE Visit
  <2>1. /\ dispatching' = dispatching /\ plan_cancelled' = plan_cancelled
        /\ timeout_actions' = timeout_actions /\ dangling' = dangling
    BY <1>2, Zenon
    DEF Visit, Visiting, VisitPlanStart, VisitInactive, VisitCompletedEnd, VisitPendingEnd,
        VisitHeldStart, VisitUnmetStart, DispatchAction
  <2>2. finished_execution' \in BOOLEAN /\ replan_requested' \in BOOLEAN
    BY <1>0, <1>2, Zenon
    DEF FlagTypes, Visit, Visiting, VisitPlanStart, VisitInactive, VisitCompletedEnd,
        VisitPendingEnd, VisitHeldStart, VisitUnmetStart, DispatchAction
  <2>3. QED
    BY <1>0, <2>1, <2>2, Zenon DEF FlagTypes
<1>3. CASE Loop /\ ~Visit
  BY <1>0, <1>3, Zenon
  DEF FlagTypes, flags, Loop, LoopDone, CancelBreak, EnterPass, PassDone, SpinReturn
<1>4. CASE Reset
  <2>1. dangling' \in BOOLEAN
    <3>1. CASE SecondResetDone
      <4>1. CASE stack = <<>>
        BY <3>1, <4>1, Zenon DEF SecondResetDone
      <4>2. CASE stack # <<>>
        <5>1. stack[Len(stack)].dangling \in BOOLEAN
          BY <4>2, StackFacts DEF Frame
        <5>2. dangling' = stack[Len(stack)].dangling
          BY <3>1, <4>2, Zenon DEF SecondResetDone
        <5>3. QED
          BY <5>1, <5>2, Zenon
      <4>3. QED
        BY <4>1, <4>2
    <3>2. CASE ~SecondResetDone
      BY <1>0, <1>4, <3>2, Zenon
      DEF FlagTypes, Reset, PublishCancel, ResetPass, ResetSpinReturn, DanglingIterator,
          FirstResetDone
    <3>3. QED
      BY <3>1, <3>2
  <2>2. QED
    BY <1>0, <1>4, <2>1, Zenon
    DEF FlagTypes, flags, Reset, PublishCancel, ResetPass, ResetSpinReturn, DanglingIterator,
        FirstResetDone, SecondResetDone, ClearFlags
<1>5. QED
  BY <1>1, <1>2, <1>3, <1>4 DEF Next

LEMMA CallbackTypeOK == TypeOK /\ FlagTypes' /\ Callback => TypeOK'
<1> SUFFICES ASSUME TypeOK, FlagTypes', Callback PROVE TypeOK'
  OBVIOUS
<1> USE DEF TypeOK, maps, thread, world, past
<1>1. CASE \E p \in Plans : PlanCallback(p)
  <2>1. stack' = [i \in DOMAIN stack |-> [stack[i] EXCEPT !.dangling = TRUE]]
    BY <1>1, Zenon DEF PlanCallback
  <2>2. \A x \in Frame : [x EXCEPT !.dangling = TRUE] \in Frame
    BY DEF Frame
  <2>3. stack' \in Seq([cursor : Nat, dangling : BOOLEAN])
    <3> HIDE DEF TypeOK
    <3>1. stack' \in [1 .. Len(stack) -> Frame]
      BY <2>1, <2>2, StackFacts, Zenon
    <3>2. stack' \in Seq(Frame)
      BY <3>1, StackFacts, SeqDef
    <3>3. QED
      BY <3>2, Zenon DEF Frame
  <2>4. QED
    BY <1>1, <2>3 DEF PlanCallback
<1>2. CASE CancelDispatch
  BY <1>2 DEF CancelDispatch
<1>3. CASE \E a \in ActionIds : ActionEnabled(a)
  BY <1>3 DEF ActionEnabled, Phases
<1>4. CASE \E a \in ActionIds : ActionAchieved(a)
  BY <1>4 DEF ActionAchieved, EndReported, Phases
<1>5. CASE \E a \in ActionIds : ActionFailed(a)
  <2>1. PICK a \in ActionIds : ActionFailed(a)
    BY <1>5
  <2>2. EndReported(a) /\ UNCHANGED <<plan, action_dispatched, action_received, edge_active,
                                     thread, run, executing, fired, verdict>>
    BY <2>1, Zenon DEF ActionFailed
  <2>3. \/ action_completed' = action_completed \cup {a} /\ outcome' = [outcome EXCEPT ![a] = "failed"]
        \/ action_completed' = action_completed /\ outcome' = outcome
    BY <2>1, Zenon DEF ActionFailed
  <2>4. QED
    BY <2>2, <2>3 DEF EndReported, Phases
<1>6. CASE DispatchPlan
  <2>1. outcome' \in [ActionIds -> {"none", "achieved", "failed"}]
    BY <1>6 DEF DispatchPlan, Initialise, NoOutcome
  <2>2. [cursor |-> cursor, dangling |-> dangling] \in [cursor : Nat, dangling : BOOLEAN]
    BY DEF FlagTypes
  <2>3. stack' \in Seq([cursor : Nat, dangling : BOOLEAN])
    BY <1>6, <2>2, AppendProperties DEF DispatchPlan, Initialise
  <2>4. run' \in 0 .. MaxRuns
    BY <1>6, PlansAssumption DEF DispatchPlan, Initialise
  <2>5. QED
    BY <1>6, <2>1, <2>3, <2>4 DEF DispatchPlan, Initialise, PCs
<1>7. QED
  BY <1>1, <1>2, <1>3, <1>4, <1>5, <1>6 DEF Callback

LEMMA FireType ==
  ASSUME TypeOK, NEW n \in Nodes(plan), Fire(n)
  PROVE  /\ edge_active' \subseteq [source : Nat, sink : Nat]
         /\ fired' \subseteq Nat
<1>1. /\ plan.edges \subseteq [source : Nodes(plan), sink : Nodes(plan)]
      /\ Nodes(plan) \subseteq Nat
  BY PlanFacts DEF TypeOK
<1>2. plan.edges \subseteq [source : Nat, sink : Nat]
  BY <1>1
<1>3. QED
  BY <1>1, <1>2 DEF TypeOK, Fire, Out

LEMMA VisitTypeOK == TypeOK /\ FlagTypes' /\ Visit => TypeOK'
<1> SUFFICES ASSUME TypeOK, FlagTypes', Visit PROVE TypeOK'
  OBVIOUS
<1> USE DEF TypeOK, Visiting
<1>1. CASE VisitPlanStart(cursor)
  <2>1. /\ cursor \in Nodes(plan) /\ cursor' = cursor + 1
        /\ UNCHANGED <<plan, action_dispatched, action_received, action_completed, pc, stack,
                       execution, run, executing, outcome, verdict>>
        /\ Fire(cursor) \/ UNCHANGED <<edge_active, fired>>
    BY <1>1, Zenon DEF VisitPlanStart
  <2>2. edge_active' \subseteq [source : Nat, sink : Nat] /\ fired' \subseteq Nat
    BY <2>1, FireType
  <2>3. QED
    BY <2>1, <2>2
<1>2. CASE VisitInactive(cursor)
  BY <1>2 DEF VisitInactive
<1>3. CASE VisitCompletedEnd(cursor)
  BY <1>3, FireType DEF VisitCompletedEnd
<1>4. CASE \E t \in Timings : VisitPendingEnd(cursor, t)
  BY <1>4 DEF VisitPendingEnd
<1>5. CASE \E t \in Timings : VisitHeldStart(cursor, t)
  BY <1>5 DEF VisitHeldStart
<1>6. CASE VisitUnmetStart(cursor)
  BY <1>6 DEF VisitUnmetStart
<1>7. CASE DispatchAction(cursor)
  <2>1. cursor \in Nodes(plan) /\ plan.action_id[cursor] \in ActionIds
    BY <1>7, PlanFacts DEF DispatchAction, Starts
  <2>2. execution' \in [1 .. MaxRuns -> [ActionIds -> Phases]]
    BY <1>7, <2>1 DEF DispatchAction, Phases
  <2>3. outcome' \in [ActionIds -> {"none", "achieved", "failed"}]
    BY <1>7, <2>1 DEF DispatchAction
  <2>4. edge_active' \subseteq [source : Nat, sink : Nat] /\ fired' \subseteq Nat
    BY <1>7, <2>1, FireType DEF DispatchAction
  <2>5. QED
    BY <1>7, <2>1, <2>2, <2>3, <2>4 DEF DispatchAction
<1>8. QED
  BY <1>1, <1>2, <1>3, <1>4, <1>5, <1>6, <1>7 DEF Visit

LEMMA LoopTypeOK == TypeOK /\ FlagTypes' /\ Loop => TypeOK'
<1> SUFFICES ASSUME TypeOK, FlagTypes', Loop PROVE TypeOK'
  OBVIOUS
<1> USE DEF TypeOK, flags, maps, world, past, PCs
<1>1. CASE Visit
  BY <1>1, VisitTypeOK
<1>2. CASE LoopDone
  BY <1>2 DEF LoopDone, LeaveLoop
<1>3. CASE CancelBreak
  BY <1>3 DEF CancelBreak, LeaveLoop
<1>4. CASE EnterPass
  BY <1>4 DEF EnterPass
<1>5. CASE PassDone
  BY <1>5 DEF PassDone
<1>6. CASE SpinReturn
  BY <1>6 DEF SpinReturn, LeaveLoop
<1>7. QED
  BY <1>1, <1>2, <1>3, <1>4, <1>5, <1>6 DEF Loop

LEMMA ResetTypeOK == TypeOK /\ FlagTypes' /\ Reset => TypeOK'
<1> SUFFICES ASSUME TypeOK, FlagTypes', Reset PROVE TypeOK'
  OBVIOUS
<1> USE DEF TypeOK, flags, maps, world, past, PCs
<1>1. CASE PublishCancel \/ ResetPass \/ ResetSpinReturn
  <2>1. /\ pc' \in PCs
        /\ cursor' \in {cursor, cursor + 1}
        /\ UNCHANGED <<plan, maps, edge_active, stack, world, past>>
    BY <1>1, Zenon DEF PublishCancel, ResetPass, ResetSpinReturn, ResumeReset
  <2>2. QED
    BY <2>1
<1>2. CASE DanglingIterator
  <2>1. 0 .. plan.count \subseteq Nat
    BY PlanFacts
  <2>2. QED
    BY <1>2, <2>1 DEF DanglingIterator, ResumeReset
<1>3. CASE FirstResetDone
  BY <1>3 DEF FirstResetDone, ClearFlags
<1>4. CASE SecondResetDone /\ stack = <<>>
  BY <1>4 DEF SecondResetDone, ClearFlags
<1>5. CASE SecondResetDone /\ stack # <<>>
  <2> HIDE DEF TypeOK
  <2>1. stack[Len(stack)].cursor \in Nat
    BY <1>5, StackFacts DEF Frame
  <2>2. SubSeq(stack, 1, Len(stack) - 1) \in Seq(Frame)
    BY <1>5, StackFacts, SubSeqProperties
  <2>3. /\ pc' = "reset2_spin" /\ cursor' \in Nat /\ stack' \in Seq(Frame)
        /\ UNCHANGED <<plan, action_dispatched, edge_active, world, past>>
        /\ action_received' = {} /\ action_completed' = {}
    BY <1>5, <2>1, <2>2, Zenon DEF SecondResetDone, ClearFlags
  <2>4. QED
    BY <2>3 DEF TypeOK, Frame
<1>6. QED
  BY <1>1, <1>2, <1>3, <1>4, <1>5 DEF Reset

-----------------------------------------------------------------------------
(* The graph while a pass walks it.                                        *)

LEMMA PlanGraph ==
  ASSUME NEW p \in Plans
  PROVE  PairedNodes(p) /\ AllStartsHeld(p) /\ Acyclic(p)
BY PlansAssumption DEF WellFormed

LEMMA NoLoops ==
  ASSUME NEW p \in Plans, NEW e \in p.edges
  PROVE  e.source # e.sink
<1>1. SUFFICES ASSUME e.source = e.sink PROVE FALSE
  OBVIOUS
<1>2. e.sink \in Nodes(p)
  BY PlanFacts
<1>3. PICK n \in {e.sink} : \A d \in In(p, n) : d.source \notin {e.sink}
  BY <1>2, PlanGraph DEF Acyclic
<1>4. QED
  BY <1>1, <1>3 DEF In

(* The start node that an end node belongs to.                             *)
LEMMA PairedStart ==
  ASSUME NEW p \in Plans, NEW n \in Ends(p)
  PROVE  \E e \in In(p, n) : /\ e.source \in Starts(p)
                             /\ p.action_id[e.source] = p.action_id[n]
BY PlanGraph DEF PairedNodes

LEMMA VisitsOwnPlan ==
  ASSUME IInv, pc = "visit"
  PROVE  plan = executing /\ plan \in Plans /\ InLoop
BY DEF IInv, PlanStableInLoop, TypeOK, InLoop

(* An action node whose edges are all active has not fired, and all its    *)
(* predecessors have.                                                      *)
LEMMA ReadyFacts ==
  ASSUME IInv, pc = "visit", NEW n \in Starts(plan) \cup Ends(plan), Ready(n)
  PROVE  /\ n \notin fired
         /\ \A e \in In(plan, n) : e.source \in fired
<1>1. plan = executing /\ plan \in Plans /\ InLoop
  BY VisitsOwnPlan
<1>2. \A e \in In(plan, n) : e.source \in fired /\ e.sink \notin fired
  BY <1>1, Zenon DEF IInv, ActiveEdges, Ready
<1>3. In(plan, n) # {}
  BY <1>1, PlanGraph, PairedStart DEF AllStartsHeld
<1>4. PICK e \in In(plan, n) : e.sink = n
  BY <1>3 DEF In
<1>5. QED
  BY <1>2, <1>4

LEMMA ReadyStart ==
  ASSUME IInv, pc = "visit", NEW n \in Starts(plan), Ready(n)
  PROVE  plan.action_id[n] \notin action_dispatched
<1>1. plan = executing /\ InLoop
  BY VisitsOwnPlan
<1>2. n \notin fired
  BY ReadyFacts
<1>3. QED
  BY <1>1, <1>2, Zenon DEF IInv, FiredActions

LEMMA ReadyEnd ==
  ASSUME IInv, pc = "visit", NEW n \in Ends(plan), Ready(n)
  PROVE  plan.action_id[n] \in action_dispatched
<1>1. plan = executing /\ plan \in Plans /\ InLoop
  BY VisitsOwnPlan
<1>2. PICK e \in In(plan, n) : e.source \in Starts(plan) /\ plan.action_id[e.source] = plan.action_id[n]
  BY <1>1, PairedStart
<1>3. e.source \in fired
  BY ReadyFacts
<1>4. QED
  BY <1>1, <1>2, <1>3, Zenon DEF IInv, FiredActions

(* Firing a node all of whose predecessors have fired keeps the edges and  *)
(* the fired nodes in step.                                                *)
LEMMA FireLemma ==
  ASSUME IInv, pc = "visit", NEW n \in Nodes(plan), n \notin fired,
         \A e \in In(plan, n) : e.source \in fired,
         Fire(n), executing' = executing
  PROVE  ActiveEdges' /\ FiredClosed'
<1>1. plan = executing /\ plan \in Plans /\ InLoop
  BY VisitsOwnPlan
<1>2. /\ fired \subseteq Nodes(plan)
      /\ edge_active = {e \in plan.edges : e.source \in fired /\ e.sink \notin fired}
      /\ \A e \in plan.edges : e.sink \in fired => e.source \in fired
  BY <1>1, Zenon DEF IInv, ActiveEdges, FiredClosed
<1>3. /\ edge_active' = (edge_active \ In(plan, n)) \cup Out(plan, n)
      /\ fired' = fired \cup {n}
  BY Zenon DEF Fire
<1>4. fired' \subseteq Nodes(executing')
  BY <1>1, <1>2, <1>3
<1>5. \A e \in plan.edges : e \in edge_active' <=> e.source \in fired' /\ e.sink \notin fired'
  <2> TAKE e \in plan.edges
  <2>1. e.source # e.sink
    BY <1>1, NoLoops
  <2>2. QED
    BY <1>2, <1>3, <2>1 DEF In, Out
<1>6. edge_active' \subseteq plan.edges
  BY <1>2, <1>3 DEF Out
<1>7. edge_active' = {e \in executing'.edges : e.source \in fired' /\ e.sink \notin fired'}
  BY <1>1, <1>5, <1>6
<1>8. \A e \in executing'.edges : e.sink \in fired' => e.source \in fired'
  BY <1>1, <1>2, <1>3 DEF In
<1>9. QED
  BY <1>4, <1>7, <1>8, Zenon DEF ActiveEdges, FiredClosed

-----------------------------------------------------------------------------
(* What kinds of step there are.                                           *)

(* A reset keeps out of the loop, and reaches the first reset only from    *)
(* inside it; it takes the graph, the dispatch and the verdict as they are.*)
LEMMA ResetFrame ==
  ASSUME Reset
  PROVE  /\ ~InLoop /\ ~InLoop'
         /\ pc' \in {"reset1", "reset1_spin"} =>
              /\ pc \in {"reset1", "reset1_spin"}
              /\ UNCHANGED <<dispatching, plan_cancelled, action_completed>>
         /\ UNCHANGED <<plan, action_dispatched, edge_active, executing, fired, outcome, verdict>>
<1>1. ~InLoop /\ ~InLoop'
  BY DEF Reset, PublishCancel, ResetPass, ResetSpinReturn, DanglingIterator, FirstResetDone,
         SecondResetDone, ResumeReset, InLoop
<1>2. UNCHANGED <<plan, action_dispatched, edge_active, executing, fired, outcome, verdict>>
  BY Zenon
  DEF Reset, PublishCancel, ResetPass, ResetSpinReturn, DanglingIterator, FirstResetDone,
      SecondResetDone, ClearFlags, maps, past
<1>3. ASSUME pc' \in {"reset1", "reset1_spin"}
      PROVE  /\ pc \in {"reset1", "reset1_spin"}
             /\ UNCHANGED <<dispatching, plan_cancelled, action_completed>>
  <2>1. ~FirstResetDone /\ ~SecondResetDone
    BY <1>3 DEF FirstResetDone, SecondResetDone
  <2>2. UNCHANGED <<dispatching, plan_cancelled, action_completed>>
    BY <2>1, Zenon
    DEF Reset, PublishCancel, ResetPass, ResetSpinReturn, DanglingIterator, flags, maps
  <2>3. pc \in {"reset1", "reset1_spin"}
    BY <1>3, <2>1
    DEF Reset, PublishCancel, ResetPass, ResetSpinReturn, DanglingIterator, ResumeReset
  <2>4. QED
    BY <2>2, <2>3
<1>4. QED
  BY <1>1, <1>2, <1>3, Zenon

(* Feedback that an action has ended completes it once, or is ignored.     *)
LEMMA ReportFrame ==
  ASSUME NEW b, ActionAchieved(b) \/ ActionFailed(b)
  PROVE  /\ Spinning
         /\ UNCHANGED <<dispatching, finished_execution, edge_active, action_dispatched, pc,
                        executing, fired, verdict, plan, plan_cancelled>>
         /\ replan_requested => replan_requested'
         /\ \/ UNCHANGED <<action_completed, outcome>>
            \/ /\ b \notin action_completed
               /\ action_completed' = action_completed \cup {b}
               /\ \/ outcome' = [outcome EXCEPT ![b] = "achieved"]
                  \/ outcome' = [outcome EXCEPT ![b] = "failed"] /\ replan_requested'
<1>1. CASE ActionAchieved(b)
  BY <1>1, Zenon DEF ActionAchieved, Accepted, flags, thread
<1>2. CASE ActionFailed(b)
  BY <1>2, Zenon DEF ActionFailed, Accepted, thread
<1>3. QED
  BY <1>1, <1>2

(* A callback other than dispatch_plan touches neither the graph nor the   *)
(* thread; it may complete an action, with an outcome.                     *)
LEMMA CallbackFrame ==
  ASSUME TypeOK, Callback, ~DispatchPlan
  PROVE  /\ Spinning
         /\ UNCHANGED <<dispatching, finished_execution, edge_active, action_dispatched, pc,
                        executing, fired, verdict>>
         /\ plan' = plan \/ finished_execution
         /\ plan_cancelled => plan_cancelled'
         /\ replan_requested => replan_requested'
         /\ action_completed \subseteq action_completed'
         /\ \A a \in ActionIds :
              \/ /\ outcome'[a] = outcome[a]
                 /\ a \in action_completed' => a \in action_completed
              \/ /\ outcome'[a] \in {"achieved", "failed"}
                 /\ a \notin action_completed
                 /\ outcome'[a] = "failed" => replan_requested'
<1>1. CASE (\E p \in Plans : PlanCallback(p)) \/ CancelDispatch \/ (\E a \in ActionIds : ActionEnabled(a))
  <2>1. UNCHANGED <<dispatching, finished_execution, edge_active, action_dispatched, action_completed,
                    replan_requested, pc, executing, fired, verdict, outcome>>
    BY <1>1, Zenon DEF flags, maps, past, thread, PlanCallback, CancelDispatch, ActionEnabled
  <2>2. Spinning /\ (plan' = plan \/ finished_execution) /\ (plan_cancelled => plan_cancelled')
    <3>1. CASE \E p \in Plans : PlanCallback(p)
      <4>1. Spinning /\ finished_execution /\ plan_cancelled' = plan_cancelled
        BY <3>1, Zenon DEF flags, PlanCallback
      <4>2. QED
        BY <4>1
    <3>2. CASE CancelDispatch
      BY <3>2, Zenon DEF CancelDispatch
    <3>3. CASE \E a \in ActionIds : ActionEnabled(a)
      <4>1. Spinning /\ plan' = plan /\ plan_cancelled' = plan_cancelled
        BY <3>3, Zenon DEF flags, ActionEnabled
      <4>2. QED
        BY <4>1
    <3>4. QED
      BY <1>1, <3>1, <3>2, <3>3
  <2>3. QED
    BY <2>1, <2>2, Zenon
<1>2. CASE \E b \in ActionIds : ActionAchieved(b) \/ ActionFailed(b)
  <2>1. PICK b \in ActionIds : ActionAchieved(b) \/ ActionFailed(b)
    BY <1>2
  <2>2. outcome \in [ActionIds -> {"none", "achieved", "failed"}]
    BY Zenon DEF TypeOK
  <2>3. QED
    BY ReportFrame, <2>1, <2>2
<1>3. QED
  BY <1>1, <1>2, Zenon DEF Callback

(* A step of the loop other than a visit leaves the graph, the maps and    *)
(* the outcomes alone.                                                     *)
LEMMA LoopFrame ==
  ASSUME LoopDone \/ CancelBreak \/ EnterPass \/ PassDone \/ SpinReturn
  PROVE  /\ UNCHANGED <<plan, dispatching, replan_requested, plan_cancelled, action_dispatched,
                        action_completed, edge_active, executing, fired, outcome>>
         /\ ~EnterPass => finished_execution' = finished_execution
BY Zenon DEF LoopDone, CancelBreak, EnterPass, PassDone, SpinReturn, flags, maps, past

(* A visit moves on to the next node of the plan.                          *)
LEMMA VisitFrame ==
  ASSUME Visit
  PROVE  /\ pc = "visit" /\ pc' = "visit"
         /\ cursor \in Nodes(plan) /\ cursor' = cursor + 1
         /\ UNCHANGED <<plan, dispatching, plan_cancelled, executing, verdict>>
<1>1. Starts(plan) \subseteq Nodes(plan)
  BY DEF Starts
<1>2. QED
  BY <1>1, Zenon
  DEF Visit, Visiting, VisitPlanStart, VisitInactive, VisitCompletedEnd, VisitPendingEnd,
      VisitHeldStart, VisitUnmetStart, DispatchAction

-----------------------------------------------------------------------------
(* Each part of the invariant is kept by every step.                       *)

LEMMA KeepExclusive == IInv /\ Next => LoopIsExclusive'
<1> SUFFICES ASSUME IInv, Next PROVE LoopIsExclusive'
  OBVIOUS
<1>0. LoopIsExclusive
  BY Zenon DEF IInv
<1>1. CASE DispatchPlan
  BY <1>1, Zenon DEF DispatchPlan, Initialise, LoopIsExclusive
<1>2. CASE Callback /\ ~DispatchPlan
  <2>1. UNCHANGED <<pc, dispatching>>
    BY <1>2, CallbackFrame, Zenon DEF IInv
  <2>2. QED
    BY <1>0, <2>1, Zenon DEF LoopIsExclusive, InLoop
<1>3. CASE Visit
  <2>1. pc = "visit" /\ dispatching' = dispatching
    BY <1>3, VisitFrame
  <2>2. QED
    BY <1>0, <2>1 DEF LoopIsExclusive, InLoop
<1>4. CASE LoopDone \/ CancelBreak \/ EnterPass \/ PassDone \/ SpinReturn
  <2>1. InLoop /\ dispatching' = dispatching
    BY <1>4, LoopFrame DEF LoopDone, CancelBreak, EnterPass, PassDone, SpinReturn, InLoop
  <2>2. QED
    BY <1>0, <2>1, Zenon DEF LoopIsExclusive
<1>5. CASE Reset
  BY <1>0, <1>5, ResetFrame, Zenon DEF LoopIsExclusive
<1>6. QED
  BY <1>1, <1>2, <1>3, <1>4, <1>5, Zenon DEF Next, Loop

LEMMA KeepPlan == IInv /\ Next => PlanStableInLoop'
<1> SUFFICES ASSUME IInv, Next PROVE PlanStableInLoop'
  OBVIOUS
<1>0. PlanStableInLoop
  BY Zenon DEF IInv
<1>1. CASE DispatchPlan
  BY <1>1, Zenon DEF DispatchPlan, Initialise, PlanStableInLoop
<1>2. CASE Callback /\ ~DispatchPlan
  <2>1. /\ Spinning
        /\ UNCHANGED <<pc, executing, finished_execution>>
        /\ plan' = plan \/ finished_execution
    BY <1>2, CallbackFrame, Zenon DEF IInv
  <2>2. pc # "visit"
    BY <2>1 DEF Spinning
  <2>3. QED
    BY <1>0, <2>1, <2>2 DEF PlanStableInLoop, InLoop
<1>3. CASE Visit
  BY <1>0, <1>3, VisitFrame DEF PlanStableInLoop
<1>4. CASE EnterPass
  <2>1. UNCHANGED <<plan, executing>> /\ InLoop /\ ~finished_execution
    BY <1>4 DEF EnterPass, InLoop, past
  <2>2. QED
    BY <1>0, <2>1 DEF PlanStableInLoop
<1>5. CASE LoopDone \/ CancelBreak \/ PassDone \/ SpinReturn
  <2>1. InLoop /\ UNCHANGED <<plan, executing, finished_execution>> /\ pc' # "visit"
    <3>1. ~EnterPass /\ InLoop /\ pc' # "visit"
      BY <1>5 DEF LoopDone, CancelBreak, PassDone, SpinReturn, LeaveLoop, EnterPass, InLoop
    <3>2. QED
      BY <1>5, <3>1, LoopFrame
  <2>2. QED
    BY <1>0, <2>1 DEF PlanStableInLoop
<1>6. CASE Reset
  BY <1>6, ResetFrame DEF PlanStableInLoop, InLoop
<1>7. QED
  BY <1>1, <1>2, <1>3, <1>4, <1>5, <1>6, Zenon DEF Next, Loop

(* The three kinds of visit: a node is left alone, a node that is not an   *)
(* action's start fires, or an action is published and its start fires.    *)
LEMMA VisitKinds ==
  ASSUME IInv, Visit
  PROVE  \/ UNCHANGED <<edge_active, fired, action_dispatched, action_completed, outcome>>
         \/ /\ UNCHANGED <<action_dispatched, action_completed, outcome>>
            /\ Fire(cursor) /\ finished_execution' = FALSE
            /\ cursor \in Nodes(plan) \ Starts(plan)
            /\ cursor \notin fired
            /\ \A e \in In(plan, cursor) : e.source \in fired
            /\ cursor \in Ends(plan) => plan.action_id[cursor] \in action_completed
         \/ /\ DispatchAction(cursor)
            /\ cursor \notin fired
            /\ \A e \in In(plan, cursor) : e.source \in fired
<1>0. pc = "visit" /\ cursor \in Nodes(plan)
  BY VisitFrame
<1>1. CASE VisitPlanStart(cursor)
  <2>1. /\ UNCHANGED <<action_dispatched, action_completed, outcome>>
        /\ plan.node_type[cursor] = "PLAN_START"
        /\ \/ UNCHANGED <<edge_active, fired>>
           \/ Fire(cursor) /\ cursor \notin fired /\ finished_execution' = FALSE
    BY <1>1, Zenon DEF VisitPlanStart, Visiting
  <2>2. In(plan, cursor) = {} /\ cursor \notin Starts(plan) \cup Ends(plan)
    <3>1. plan \in Plans
      BY <1>0, VisitsOwnPlan
    <3>2. QED
      BY <2>1, <3>1, PlanGraph DEF AllStartsHeld, In, Starts, Ends
  <2>3. QED
    BY <1>0, <2>1, <2>2, Zenon
<1>2. CASE VisitCompletedEnd(cursor)
  <2>1. /\ UNCHANGED <<action_dispatched, action_completed, outcome>>
        /\ plan.node_type[cursor] = "ACTION_END"
        /\ plan.action_id[cursor] \in action_completed
        /\ Ready(cursor) /\ Fire(cursor) /\ finished_execution' = FALSE
    BY <1>2, Zenon DEF VisitCompletedEnd, Visiting
  <2>2. cursor \in Ends(plan) /\ cursor \notin Starts(plan)
    BY <1>0, <2>1 DEF Starts, Ends
  <2>3. cursor \notin fired /\ \A e \in In(plan, cursor) : e.source \in fired
    BY <1>0, <2>1, <2>2, ReadyFacts
  <2>4. QED
    BY <1>0, <2>1, <2>2, <2>3, Zenon
<1>3. CASE DispatchAction(cursor)
  <2>1. Ready(cursor) /\ cursor \in Starts(plan)
    BY <1>3, Zenon DEF DispatchAction
  <2>2. cursor \notin fired /\ \A e \in In(plan, cursor) : e.source \in fired
    BY <1>0, <2>1, ReadyFacts
  <2>3. QED
    BY <1>3, <2>2
<1>4. CASE \/ VisitInactive(cursor) \/ VisitUnmetStart(cursor)
           \/ \E t \in Timings : VisitPendingEnd(cursor, t) \/ VisitHeldStart(cursor, t)
  BY <1>4, Zenon DEF VisitInactive, VisitPendingEnd, VisitHeldStart, VisitUnmetStart
<1>5. QED
  BY <1>1, <1>2, <1>3, <1>4, Zenon DEF Visit

LEMMA KeepGraph == IInv /\ Next => ActiveEdges' /\ FiredClosed'
<1> SUFFICES ASSUME IInv, Next PROVE ActiveEdges' /\ FiredClosed'
  OBVIOUS
<1>0. ActiveEdges /\ FiredClosed
  BY Zenon DEF IInv
<1>1. CASE DispatchPlan
  <2>1. fired' = {} /\ edge_active' = {}
    BY <1>1, Zenon DEF DispatchPlan, Initialise
  <2>2. QED
    BY <2>1 DEF ActiveEdges, FiredClosed
<1>2. CASE Callback /\ ~DispatchPlan
  <2>1. UNCHANGED <<pc, executing, fired, edge_active>>
    BY <1>2, CallbackFrame, Zenon DEF IInv
  <2>2. QED
    BY <1>0, <2>1 DEF ActiveEdges, FiredClosed, InLoop, Nodes
<1>3. CASE Visit
  <2>1. pc = "visit" /\ cursor \in Nodes(plan) /\ executing' = executing
    BY <1>3, VisitFrame
  <2>2. CASE UNCHANGED <<edge_active, fired>>
    BY <1>0, <2>1, <2>2 DEF ActiveEdges, FiredClosed, InLoop, Nodes
  <2>3. CASE ~UNCHANGED <<edge_active, fired>>
    <3>1. Fire(cursor) /\ cursor \notin fired /\ \A e \in In(plan, cursor) : e.source \in fired
      BY <1>3, <2>3, VisitKinds DEF DispatchAction
    <3>2. QED
      BY <2>1, <3>1, FireLemma
  <2>4. QED
    BY <2>2, <2>3
<1>4. CASE LoopDone \/ CancelBreak \/ EnterPass \/ PassDone \/ SpinReturn
  <2>1. InLoop /\ UNCHANGED <<executing, fired, edge_active>>
    BY <1>4, LoopFrame DEF LoopDone, CancelBreak, EnterPass, PassDone, SpinReturn, InLoop
  <2>2. QED
    BY <1>0, <2>1 DEF ActiveEdges, FiredClosed, Nodes
<1>5. CASE Reset
  BY <1>5, ResetFrame, Zenon DEF ActiveEdges, FiredClosed
<1>6. QED
  BY <1>1, <1>2, <1>3, <1>4, <1>5, Zenon DEF Next, Loop

LEMMA KeepFiredActions == IInv /\ Next => FiredActions'
<1> SUFFICES ASSUME IInv, Next PROVE FiredActions'
  OBVIOUS
<1>0. FiredActions /\ FiredClosed
  BY Zenon DEF IInv
<1>1. CASE DispatchPlan
  <2>1. /\ fired' = {} /\ executing' = plan
        /\ action_dispatched' = action_dispatched \ NodeIds(plan)
    BY <1>1, Zenon DEF DispatchPlan, Initialise
  <2>2. \A n \in Starts(plan) : plan.action_id[n] \in NodeIds(plan)
    BY DEF NodeIds, Starts
  <2>3. QED
    BY <2>1, <2>2 DEF FiredActions
<1>2. CASE Callback /\ ~DispatchPlan
  <2>1. /\ UNCHANGED <<pc, executing, fired, action_dispatched>>
        /\ action_completed \subseteq action_completed'
    BY <1>2, CallbackFrame, Zenon DEF IInv
  <2>2. QED
    BY <1>0, <2>1 DEF FiredActions, InLoop, Starts, Ends, Nodes
<1>3. CASE Visit
  <2>1. /\ cursor \in Nodes(plan) /\ executing' = executing /\ executing = plan /\ InLoop
        /\ plan \in Plans
    BY <1>3, VisitFrame, VisitsOwnPlan
  <2>2. CASE UNCHANGED <<edge_active, fired, action_dispatched, action_completed, outcome>>
    BY <1>0, <2>1, <2>2 DEF FiredActions, Starts, Ends, Nodes
  <2>3. CASE /\ UNCHANGED <<action_dispatched, action_completed, outcome>>
             /\ Fire(cursor)
             /\ cursor \in Nodes(plan) \ Starts(plan)
             /\ cursor \in Ends(plan) => plan.action_id[cursor] \in action_completed
    BY <1>0, <2>1, <2>3 DEF FiredActions, Fire, Starts, Ends, Nodes
  <2>4. CASE DispatchAction(cursor) /\ cursor \notin fired
    <3> DEFINE a == plan.action_id[cursor]
    <3>1. /\ cursor \in Starts(plan)
          /\ fired' = fired \cup {cursor}
          /\ action_dispatched' = action_dispatched \cup {a}
          /\ action_completed' = action_completed \ {a}
      BY <2>4, Zenon DEF DispatchAction, Fire
    <3>2. \A n \in Starts(plan) : plan.action_id[n] = a => n = cursor
      BY <2>1, <3>1, PlanGraph DEF PairedNodes, Starts
    <3>3. \A n \in Ends(plan) : n \in fired => plan.action_id[n] # a
      <4> SUFFICES ASSUME NEW n \in Ends(plan), n \in fired, plan.action_id[n] = a PROVE FALSE
        OBVIOUS
      <4>1. PICK e \in In(plan, n) : e.source \in Starts(plan) /\ plan.action_id[e.source] = a
        BY <2>1, PairedStart
      <4>2. e.source = cursor
        BY <3>2, <4>1
      <4>3. e \in plan.edges /\ e.sink = n
        BY DEF In
      <4>4. e.source \in fired
        BY <1>0, <2>1, <4>3 DEF FiredClosed
      <4>5. QED
        BY <2>4, <4>2, <4>4
    <3>4. \A n \in Ends(plan) : n \in fired' => plan.action_id[n] \in action_completed'
      <4>1. cursor \notin Ends(plan)
        BY <3>1 DEF Starts, Ends
      <4>2. QED
        BY <1>0, <2>1, <3>1, <3>3, <4>1 DEF FiredActions
    <3>5. \A n \in Starts(plan) : n \in fired' <=> plan.action_id[n] \in action_dispatched'
      BY <1>0, <2>1, <3>1, <3>2 DEF FiredActions
    <3>6. QED
      BY <2>1, <3>4, <3>5 DEF FiredActions
  <2>5. QED
    BY <1>3, <2>2, <2>3, <2>4, VisitKinds
<1>4. CASE LoopDone \/ CancelBreak \/ EnterPass \/ PassDone \/ SpinReturn
  <2>1. InLoop /\ UNCHANGED <<executing, fired, action_dispatched, action_completed>>
    BY <1>4, LoopFrame DEF LoopDone, CancelBreak, EnterPass, PassDone, SpinReturn, InLoop
  <2>2. QED
    BY <1>0, <2>1 DEF FiredActions, Starts, Ends, Nodes
<1>5. CASE Reset
  BY <1>5, ResetFrame, Zenon DEF FiredActions
<1>6. QED
  BY <1>1, <1>2, <1>3, <1>4, <1>5, Zenon DEF Next, Loop

LEMMA KeepFailures == IInv /\ Next => Failures'
<1> SUFFICES ASSUME IInv, Next PROVE Failures'
  OBVIOUS
<1>0. Failures /\ outcome \in [ActionIds -> {"none", "achieved", "failed"}] /\ executing \in Plans
  BY Zenon DEF IInv, TypeOK
<1>1. CASE DispatchPlan
  <2>1. /\ executing' = plan /\ outcome' = NoOutcome /\ pc' = "head"
        /\ action_dispatched' = action_dispatched \ NodeIds(plan)
    BY <1>1, Zenon DEF DispatchPlan, Initialise
  <2>2. ~replan_requested' /\ ~plan_cancelled'
    BY <1>1, Zenon DEF DispatchPlan, Initialise
  <2>3. Ids(plan) \subseteq NodeIds(plan)
    BY DEF NodeIds, Ids, Starts
  <2>4. QED
    BY <2>1, <2>2, <2>3 DEF Failures, NoOutcome
<1>2. CASE Callback /\ ~DispatchPlan
  <2>1. Spinning /\ UNCHANGED <<pc, executing, action_dispatched>>
    BY <1>2, CallbackFrame, Zenon DEF IInv
  <2>2. Ids(executing) \subseteq ActionIds
    BY <1>0, PlanFacts
  <2>3. QED
    BY <1>0, <1>2, <2>1, <2>2, CallbackFrame DEF IInv, Failures, InLoop, Spinning, Ids, Starts, Nodes
<1>3. CASE Visit
  <2>1. /\ pc = "visit" /\ pc' = "visit" /\ executing' = executing
        /\ plan_cancelled' = plan_cancelled
    BY <1>3, VisitFrame
  <2>2. \/ UNCHANGED <<action_dispatched, action_completed, outcome>>
        \/ DispatchAction(cursor)
    BY <1>3, VisitKinds
  <2>3. CASE UNCHANGED <<action_dispatched, action_completed, outcome>>
    BY <1>0, <2>1, <2>3 DEF Failures, InLoop, Ids, Starts, Nodes
  <2>4. CASE DispatchAction(cursor)
    <3> DEFINE a == plan.action_id[cursor]
    <3>1. /\ action_dispatched' = action_dispatched \cup {a}
          /\ action_completed' = action_completed \ {a}
          /\ outcome' = [outcome EXCEPT ![a] = "none"]
      BY <2>4, Zenon DEF DispatchAction
    <3>2. QED
      BY <1>0, <2>1, <3>1 DEF Failures, InLoop, Ids, Starts, Nodes
  <2>5. QED
    BY <2>2, <2>3, <2>4
<1>4. CASE LoopDone \/ CancelBreak \/ EnterPass \/ PassDone \/ SpinReturn
  <2>1. UNCHANGED <<plan_cancelled, replan_requested, executing, action_dispatched, action_completed, outcome>>
    BY <1>4, LoopFrame
  <2>2. /\ InLoop
        /\ pc' = "head" => ~replan_requested
        /\ pc' = "visit" => ~plan_cancelled
        /\ InLoop' /\ pc = "spin" => ~replan_requested
        /\ InLoop' => pc' # "spin" \/ pc = "visit"
    BY <1>0, <1>4
    DEF Failures, LoopDone, CancelBreak, EnterPass, PassDone, SpinReturn, LeaveLoop, InLoop
  <2>3. InLoop' => \A a \in ActionIds : outcome[a] # "failed"
    BY <1>0, <2>2 DEF Failures
  <2>4. (pc' = "head" => ~replan_requested') /\ (pc' = "visit" => ~plan_cancelled')
    <3>1. replan_requested' = replan_requested /\ plan_cancelled' = plan_cancelled
      BY <2>1
    <3>2. QED
      BY <2>2, <3>1, Zenon
  <2>5. QED
    BY <1>0, <2>1, <2>2, <2>3, <2>4 DEF Failures, Ids, Starts, Nodes
<1>5. CASE Reset
  BY <1>5, ResetFrame DEF Failures, InLoop
<1>6. QED
  BY <1>1, <1>2, <1>3, <1>4, <1>5, Zenon DEF Next, Loop

(* A visit after which the pass is still quiet found its node quiet, and   *)
(* fired nothing.                                                          *)
LEMMA QuietVisit ==
  ASSUME IInv, Visit, finished_execution', ~replan_requested'
  PROVE  /\ finished_execution /\ ~replan_requested
         /\ UNCHANGED <<edge_active, fired, action_completed>>
         /\ Quiet(cursor)
<1>0. /\ pc = "visit" /\ cursor \in Nodes(plan) /\ plan = executing /\ InLoop /\ FiredActions
      /\ plan \in Plans
  BY VisitFrame, VisitsOwnPlan DEF IInv
<1>1. CASE VisitPlanStart(cursor)
  <2>1. cursor \in fired
    BY <1>1, Zenon DEF VisitPlanStart
  <2>2. UNCHANGED <<finished_execution, replan_requested, edge_active, fired, action_completed>>
    BY <1>1, <2>1, Zenon DEF VisitPlanStart
  <2>3. cursor \notin Starts(plan)
    BY <1>1 DEF VisitPlanStart, Visiting, Starts
  <2>4. QED
    BY <2>1, <2>2, <2>3, Zenon DEF Quiet
<1>2. CASE VisitInactive(cursor)
  <2>1. /\ finished_execution' = (finished_execution /\ ~Busy(plan.action_id[cursor])) /\ ~Ready(cursor)
        /\ UNCHANGED <<replan_requested, edge_active, fired, action_completed>>
    BY <1>2, Zenon DEF VisitInactive
  <2>2. finished_execution /\ ~Busy(plan.action_id[cursor]) /\ ~replan_requested
    BY <2>1, Zenon
  <2>3. cursor \in fired /\ cursor \in Starts(plan) => plan.action_id[cursor] \in action_completed
    BY <1>0, <2>2 DEF FiredActions, Busy
  <2>4. QED
    BY <2>1, <2>2, <2>3, Zenon DEF Quiet
<1>3. CASE VisitCompletedEnd(cursor) \/ VisitUnmetStart(cursor) \/ DispatchAction(cursor)
  BY <1>3, Zenon DEF VisitCompletedEnd, VisitUnmetStart, DispatchAction
<1>4. CASE \E t \in Timings : VisitPendingEnd(cursor, t)
  <2>1. ~Busy(plan.action_id[cursor])
    BY <1>4, Zenon DEF VisitPendingEnd
  <2>2. /\ Ready(cursor) /\ plan.action_id[cursor] \notin action_completed
        /\ plan.node_type[cursor] = "ACTION_END"
    BY <1>4, Zenon DEF VisitPendingEnd, Visiting
  <2>3. plan.action_id[cursor] \in action_dispatched
    BY <1>0, <2>2, ReadyEnd DEF Ends
  <2>4. QED
    BY <2>1, <2>2, <2>3 DEF Busy
<1>5. CASE \E t \in Timings : VisitHeldStart(cursor, t)
  <2>1. PICK t \in Timings : VisitHeldStart(cursor, t)
    BY <1>5
  <2>2. ~t.early /\ ~t.late
    BY <2>1, Zenon DEF VisitHeldStart
  <2>3. /\ Ready(cursor) /\ plan.node_type[cursor] = "ACTION_START"
        /\ t = InTime => plan.action_id[cursor] \in action_dispatched
    BY <2>1, Zenon DEF VisitHeldStart, Visiting
  <2>4. t = InTime
    <3>1. t = [early |-> t.early, late |-> t.late] /\ t.early \in BOOLEAN /\ t.late \in BOOLEAN
      BY DEF Timings
    <3>2. t.early = FALSE /\ t.late = FALSE
      BY <2>2, <3>1, Zenon
    <3>3. QED
      BY <3>1, <3>2, Zenon DEF InTime
  <2>5. QED
    BY <1>0, <2>3, <2>4, ReadyStart DEF Starts
<1>6. QED
  BY <1>1, <1>2, <1>3, <1>4, <1>5, Zenon DEF Visit

LEMMA KeepQuietPass == IInv /\ Next => QuietPass'
<1> SUFFICES ASSUME IInv, Next, pc' = "visit", finished_execution', ~replan_requested',
                    NEW n \in Nodes(plan'), n < cursor'
             PROVE  Quiet(n)'
  BY Zenon DEF QuietPass
<1>0. QuietPass /\ plan \in Plans /\ cursor \in Nat
  BY Zenon DEF IInv, TypeOK
<1>1. CASE Visit
  <2>1. /\ finished_execution /\ ~replan_requested
        /\ UNCHANGED <<edge_active, fired, action_completed>>
        /\ Quiet(cursor)
    BY <1>1, QuietVisit
  <2>2. pc = "visit" /\ plan' = plan /\ cursor' = cursor + 1 /\ cursor \in Nodes(plan)
    BY <1>1, VisitFrame
  <2>3. n < cursor \/ n = cursor
    BY <2>2, <1>0 DEF Nodes
  <2>4. Quiet(n)
    BY <1>0, <2>1, <2>2, <2>3 DEF QuietPass
  <2>5. QED
    BY <2>1, <2>2, <2>4 DEF Quiet, Ready, In, Starts, Nodes
<1>2. CASE EnterPass
  BY <1>0, <1>2 DEF EnterPass, Nodes
<1>3. CASE Callback
  <2>1. pc' # "visit"
    <3>1. DispatchPlan => pc' # "visit"
      BY DEF DispatchPlan, Initialise
    <3>2. ~DispatchPlan => pc' = pc /\ Spinning
      BY <1>3, CallbackFrame DEF IInv
    <3>3. QED
      BY <3>1, <3>2 DEF Spinning
  <2>2. QED
    BY <2>1
<1>4. CASE LoopDone \/ CancelBreak \/ PassDone \/ SpinReturn
  BY <1>4 DEF LoopDone, CancelBreak, PassDone, SpinReturn, LeaveLoop
<1>5. CASE Reset
  BY <1>5, ResetFrame DEF InLoop
<1>6. QED
  BY <1>1, <1>2, <1>3, <1>4, <1>5, Zenon DEF Next, Loop

(* A pass that stays quiet to its end has found every action completed.    *)
LEMMA QuietPassCompletes ==
  ASSUME IInv, PassDone, finished_execution, ~replan_requested
  PROVE  AllCompleted
<1>1. pc = "visit" /\ cursor \notin Nodes(plan)
  BY DEF PassDone
<1>2. plan = executing /\ plan \in Plans /\ InLoop
  BY <1>1, VisitsOwnPlan
<1>3. \A n \in Nodes(plan) : Quiet(n)
  <2>1. cursor \in Nat /\ QuietPass
    BY DEF IInv, TypeOK
  <2>2. \A n \in Nodes(plan) : n < cursor
    BY <1>1, <1>2, <2>1, PlanFacts DEF Nodes
  <2>3. QED
    BY <1>1, <2>1, <2>2, Zenon DEF QuietPass
<1>4. edge_active = {e \in plan.edges : e.source \in fired /\ e.sink \notin fired}
  BY <1>2, Zenon DEF IInv, ActiveEdges
<1>5. Nodes(plan) \subseteq fired
  <2>1. SUFFICES ASSUME Nodes(plan) \ fired # {} PROVE FALSE
    OBVIOUS
  <2>2. PICK n \in Nodes(plan) \ fired : \A e \in In(plan, n) : e.source \notin Nodes(plan) \ fired
    BY <1>2, <2>1, PlanGraph DEF Acyclic
  <2>3. \A e \in In(plan, n) : e \in plan.edges /\ e.source \in fired /\ e.sink = n
    BY <1>2, <2>2, PlanFacts DEF In
  <2>4. Ready(n)
    BY <1>4, <2>2, <2>3 DEF Ready
  <2>5. QED
    BY <1>3, <2>2, <2>4 DEF Quiet
<1>6. \A n \in Starts(plan) : plan.action_id[n] \in action_completed
  BY <1>3, <1>5 DEF Quiet, Starts
<1>7. \A n \in Starts(plan) : plan.action_id[n] \in action_dispatched
  BY <1>2, <1>5, Zenon DEF IInv, FiredActions, Starts
<1>8. QED
  BY <1>2, <1>6, <1>7 DEF AllCompleted

LEMMA KeepFinishedLoop == IInv /\ Next => FinishedLoop'
<1> SUFFICES ASSUME IInv, Next, pc' \in {"spin", "head"}, finished_execution', ~replan_requested'
             PROVE  AllCompleted'
  BY Zenon DEF FinishedLoop
<1>0. FinishedLoop
  BY Zenon DEF IInv
<1>1. CASE DispatchPlan
  <2>1. ~finished_execution'
    BY <1>1, Zenon DEF DispatchPlan, Initialise
  <2>2. QED
    BY <2>1
<1>2. CASE Callback /\ ~DispatchPlan
  <2>1. /\ UNCHANGED <<pc, executing, action_dispatched, finished_execution>>
        /\ action_completed \subseteq action_completed'
        /\ replan_requested => replan_requested'
    BY <1>2, CallbackFrame, Zenon DEF IInv
  <2>2. AllCompleted
    BY <1>0, <2>1, Zenon DEF FinishedLoop
  <2>3. QED
    BY <2>1, <2>2 DEF AllCompleted, Starts, Nodes
<1>3. CASE Visit
  BY <1>3, VisitFrame
<1>4. CASE PassDone
  <2>1. UNCHANGED <<finished_execution, replan_requested>>
    BY <1>4, Zenon DEF PassDone, flags
  <2>2. AllCompleted
    BY <1>4, <2>1, QuietPassCompletes, Zenon
  <2>3. UNCHANGED <<executing, action_dispatched, action_completed>>
    BY <1>4, LoopFrame
  <2>4. QED
    BY <2>2, <2>3 DEF AllCompleted, Starts, Nodes
<1>5. CASE LoopDone \/ CancelBreak \/ EnterPass
  BY <1>5 DEF LoopDone, CancelBreak, EnterPass, LeaveLoop
<1>6. CASE SpinReturn
  <2>1. /\ UNCHANGED <<finished_execution, replan_requested>> /\ pc = "spin"
        /\ UNCHANGED <<executing, action_dispatched, action_completed>>
    BY <1>6, Zenon DEF SpinReturn, flags, maps
  <2>2. AllCompleted
    BY <1>0, <2>1, Zenon DEF FinishedLoop
  <2>3. QED
    BY <2>1, <2>2 DEF AllCompleted, Starts, Nodes
<1>7. CASE Reset
  <2>1. ~InLoop'
    BY <1>7, ResetFrame
  <2>2. QED
    BY <2>1 DEF InLoop
<1>8. QED
  BY <1>1, <1>2, <1>3, <1>4, <1>5, <1>6, <1>7, Zenon DEF Next, Loop

LEMMA KeepSucceeded == IInv /\ Next => Succeeded'
<1> SUFFICES ASSUME IInv, Next, pc' \in {"reset1", "reset1_spin"}, verdict' = "success",
                    ~plan_cancelled', NEW a \in Ids(executing')
             PROVE  a \in action_dispatched' \cap action_completed' /\ outcome'[a] = "achieved"
  BY Zenon DEF Succeeded
<1>0. Succeeded /\ executing \in Plans /\ outcome \in [ActionIds -> {"none", "achieved", "failed"}]
  BY Zenon DEF IInv, TypeOK
<1>1. CASE DispatchPlan
  BY <1>1 DEF DispatchPlan, Initialise
<1>2. CASE Callback /\ ~DispatchPlan
  <2>1. /\ UNCHANGED <<pc, executing, action_dispatched, verdict>>
        /\ plan_cancelled => plan_cancelled'
        /\ action_completed \subseteq action_completed'
    BY <1>2, CallbackFrame, Zenon DEF IInv
  <2>2. a \in Ids(executing) /\ a \in ActionIds
    BY <1>0, <2>1, PlanFacts DEF Ids, Starts, Nodes
  <2>3. a \in action_dispatched \cap action_completed /\ outcome[a] = "achieved"
    BY <1>0, <2>1, <2>2, Zenon DEF Succeeded
  <2>4. outcome'[a] = outcome[a]
    BY <1>2, <2>2, <2>3, CallbackFrame DEF IInv
  <2>5. QED
    BY <2>1, <2>3, <2>4
<1>3. CASE Visit
  BY <1>3, VisitFrame
<1>4. CASE LoopDone
  <2>1. /\ UNCHANGED <<executing, action_dispatched, action_completed, outcome>>
        /\ pc = "head" /\ finished_execution
    BY <1>4, Zenon DEF LoopDone, maps
  <2>2. InLoop /\ Failures /\ FinishedLoop
    BY <2>1 DEF IInv, InLoop
  <2>3. AllCompleted
    BY <2>1, <2>2 DEF Failures, FinishedLoop
  <2>4. a \in Ids(executing) /\ a \in ActionIds
    BY <1>0, <2>1, PlanFacts DEF Ids, Starts, Nodes
  <2>5. a \in action_dispatched \cap action_completed
    BY <2>3, <2>4 DEF AllCompleted, Ids
  <2>6. outcome[a] = "achieved"
    BY <2>1, <2>2, <2>4, <2>5 DEF Failures
  <2>7. QED
    BY <2>1, <2>5, <2>6
<1>5. CASE CancelBreak
  <2>1. plan_cancelled /\ plan_cancelled' = plan_cancelled
    BY <1>5, Zenon DEF CancelBreak, flags
  <2>2. QED
    BY <2>1
<1>6. CASE EnterPass \/ PassDone \/ SpinReturn
  BY <1>6 DEF EnterPass, PassDone, SpinReturn, LeaveLoop
<1>7. CASE Reset
  <2>1. /\ pc \in {"reset1", "reset1_spin"}
        /\ UNCHANGED <<plan_cancelled, action_dispatched, action_completed, executing, outcome, verdict>>
    BY <1>7, ResetFrame, Zenon
  <2>2. a \in Ids(executing)
    BY <2>1 DEF Ids, Starts, Nodes
  <2>3. a \in action_dispatched \cap action_completed /\ outcome[a] = "achieved"
    BY <1>0, <2>1, <2>2, Zenon DEF Succeeded
  <2>4. QED
    BY <2>1, <2>3
<1>8. QED
  BY <1>1, <1>2, <1>3, <1>4, <1>5, <1>6, <1>7, Zenon DEF Next, Loop

-----------------------------------------------------------------------------
(* The invariant, and what follows from it.                                *)

LEMMA InitIInv == Init => IInv
<1> SUFFICES ASSUME Init PROVE IInv
  OBVIOUS
<1>1. TypeOK
  BY InitTypeOK
<1>2. pc = "idle" /\ ~InLoop
  BY DEF Init, InLoop
<1>3. QED
  BY <1>1, <1>2
  DEF IInv, LoopIsExclusive, PlanStableInLoop, ActiveEdges, FiredClosed, FiredActions, Failures,
      QuietPass, FinishedLoop, Succeeded

LEMMA NextTypeOK == TypeOK /\ [Next]_vars => TypeOK'
<1> SUFFICES ASSUME TypeOK, [Next]_vars PROVE TypeOK'
  OBVIOUS
<1>1. CASE Next
  BY <1>1, NextFlagTypes, CallbackTypeOK, LoopTypeOK, ResetTypeOK DEF Next
<1>2. CASE UNCHANGED vars
  BY <1>2 DEF TypeOK, FlagTypes, vars, flags, maps, thread, world, past
<1>3. QED
  BY <1>1, <1>2

LEMMA NextIInv == IInv /\ [Next]_vars => IInv'
<1> SUFFICES ASSUME IInv, [Next]_vars PROVE IInv'
  OBVIOUS
<1>1. TypeOK'
  BY NextTypeOK DEF IInv
<1>2. CASE Next
  BY <1>1, <1>2, KeepExclusive, KeepPlan, KeepGraph, KeepFiredActions, KeepFailures, KeepQuietPass,
     KeepFinishedLoop, KeepSucceeded, Zenon
  DEF IInv
<1>3. CASE UNCHANGED vars
  <2>1. UNCHANGED <<plan, dispatching, finished_execution, replan_requested, plan_cancelled,
                    action_dispatched, action_completed, edge_active, pc, cursor, executing, fired,
                    outcome, verdict>>
    BY <1>3, Zenon DEF vars, flags, maps, thread, past
  <2>2. LoopIsExclusive' /\ PlanStableInLoop' /\ Succeeded'
    BY <2>1, Zenon DEF IInv, LoopIsExclusive, PlanStableInLoop, InLoop, Succeeded, Ids, Starts, Nodes
  <2>3. Failures'
    <3>1. Failures /\ Ids(executing)' = Ids(executing) /\ InLoop' = InLoop
      BY <2>1, Zenon DEF IInv, InLoop, Ids, Starts, Nodes
    <3>2. QED
      BY <2>1, <3>1 DEF Failures
  <2>4. QuietPass'
    BY <2>1, Zenon DEF IInv, QuietPass, Quiet, Ready, In, Starts, Nodes
  <2>5. FinishedLoop'
    BY <2>1, Zenon DEF IInv, FinishedLoop, AllCompleted, Starts, Nodes
  <2>6. ActiveEdges' /\ FiredClosed' /\ FiredActions'
    BY <2>1 DEF IInv, ActiveEdges, FiredClosed, FiredActions, InLoop, Starts, Ends, Nodes
  <2>7. QED
    BY <1>1, <2>2, <2>6, <2>3, <2>4, <2>5, Zenon DEF IInv
<1>4. QED
  BY <1>2, <1>3

(* Every variable keeps its type in every reachable state, whatever the    *)
(* plans are and however often dispatch_plan is called.                    *)
THEOREM TypeCorrect == Spec => []TypeOK
BY InitTypeOK, NextTypeOK, PTL DEF Spec

(* The inductive invariant: what the maps of the dispatcher mean in terms  *)
(* of the nodes that have fired.                                           *)
THEOREM Invariance == Spec => []IInv
BY InitIInv, NextIInv, PTL DEF Spec

(* The actions that precede a published action were published and reported:*)
(* its start node has fired, hence the end nodes before it, hence their    *)
(* start nodes.                                                            *)
THEOREM PrecedenceCorrect == Spec => []PrecedenceRespected
<1>1. IInv => PrecedenceRespected
  <2> SUFFICES ASSUME IInv, InLoop, NEW a \in Ids(executing) \cap action_dispatched,
                      NEW b \in Predecessors(executing, a)
               PROVE  b \in action_dispatched \cap action_completed
    BY Zenon DEF PrecedenceRespected
  <2>1. executing \in Plans /\ FiredActions /\ FiredClosed
    BY DEF IInv, TypeOK
  <2>2. PICK e \in executing.edges : /\ e.source \in Ends(executing)
                                     /\ e.sink \in Starts(executing)
                                     /\ executing.action_id[e.sink] = a
                                     /\ executing.action_id[e.source] = b
    BY DEF Predecessors
  <2>3. e.sink \in fired /\ e.source \in fired
    BY <2>1, <2>2 DEF FiredActions, FiredClosed
  <2>4. b \in action_completed
    BY <2>1, <2>2, <2>3 DEF FiredActions
  <2>5. PICK d \in In(executing, e.source) : /\ d.source \in Starts(executing)
                                             /\ executing.action_id[d.source] = b
    BY <2>1, <2>2, PairedStart
  <2>6. d.source \in fired
    BY <2>1, <2>3, <2>5 DEF FiredClosed, In
  <2>7. b \in action_dispatched
    BY <2>1, <2>5, <2>6 DEF FiredActions
  <2>8. QED
    BY <2>4, <2>7
<1>2. QED
  BY Invariance, <1>1, PTL

(* A dispatch that returns true without having been cancelled has had every*)
(* action of its plan published and achieved.                              *)
THEOREM SuccessCorrect == Spec => []SuccessIsComplete
<1>1. IInv => SuccessIsComplete
  BY Zenon DEF IInv, Succeeded, SuccessIsComplete
<1>2. QED
  BY Invariance, <1>1, PTL

(* The loop never sees its plan replaced.                                  *)
THEOREM PlanStable == Spec => []PlanStableInLoop
<1>1. IInv => PlanStableInLoop
  BY Zenon DEF IInv
<1>2. QED
  BY Invariance, <1>1, PTL

(* An action is published at a visit only; a pass begins with no failure   *)
(* and no cancellation on record, and none arrives while it visits.        *)
THEOREM NoDispatchAfterStopCorrect == Spec => NoDispatchAfterStop
<1> DEFINE A == \/ action_dispatched' \subseteq action_dispatched
                \/ ~plan_cancelled /\ \A a \in ActionIds : outcome[a] # "failed"
<1>1. IInv /\ [Next]_vars => A
  <2> SUFFICES ASSUME IInv, [Next]_vars PROVE A
    OBVIOUS
  <2>1. CASE Visit
    <3>1. pc = "visit" /\ InLoop /\ Failures
      BY <2>1, VisitFrame, VisitsOwnPlan DEF IInv
    <3>2. QED
      BY <3>1 DEF Failures
  <2>2. CASE DispatchPlan
    BY <2>2, Zenon DEF DispatchPlan, Initialise
  <2>3. CASE Callback /\ ~DispatchPlan
    BY <2>3, CallbackFrame, Zenon DEF IInv
  <2>4. CASE Loop /\ ~Visit
    BY <2>4, LoopFrame DEF Loop
  <2>5. CASE Reset
    BY <2>5, ResetFrame
  <2>6. CASE UNCHANGED vars
    BY <2>6, Zenon DEF vars, maps
  <2>7. QED
    BY <2>1, <2>2, <2>3, <2>4, <2>5, <2>6, Zenon DEF Next
<1>2. QED
  BY Invariance, <1>1, PTL DEF NoDispatchAfterStop, Spec

-----------------------------------------------------------------------------
(* The dispatcher implements the contract of a plan execution.             *)

(* What the caller's view of the actions is made of.                       *)
StatusMeaning ==
  /\ Status \in [ActionIds -> {"waiting", "running", "achieved", "failed"}]
  /\ ~InLoop => Job = NoJob /\ Status = Contract!Waiting
  /\ InLoop => /\ Job = executing /\ Job \in Plans /\ Job # NoJob
               /\ Ids(Job) \subseteq ActionIds
               /\ \A a \in Ids(Job) :
                    /\ a \notin action_dispatched => Status[a] = "waiting"
                    /\ a \in action_dispatched /\ a \notin action_completed => Status[a] = "running"
                    /\ a \in action_dispatched /\ a \in action_completed =>
                         Status[a] = outcome[a] /\ outcome[a] \in {"achieved", "failed"}
               /\ \A a \in ActionIds \ Ids(Job) : Status[a] = "waiting"

LEMMA StatusFacts == IInv => StatusMeaning
<1> SUFFICES ASSUME IInv PROVE StatusMeaning
  OBVIOUS
<1>1. TypeOK /\ Failures /\ executing \in Plans /\ NoJob \notin Plans
  BY PlansAssumption DEF IInv, TypeOK
<1>2. ~InLoop => Job = NoJob /\ Status = Contract!Waiting
  BY DEF Job, Status, Contract!Waiting
<1>3. ASSUME InLoop
      PROVE  /\ Job = executing /\ Job \in Plans /\ Job # NoJob
             /\ Ids(Job) \subseteq ActionIds
             /\ \A a \in Ids(Job) \cap action_dispatched \cap action_completed :
                  outcome[a] \in {"achieved", "failed"}
  BY <1>1, <1>3, PlanFacts DEF Job, Failures
<1>4. ASSUME InLoop
      PROVE  /\ \A a \in Ids(Job) :
                  /\ a \notin action_dispatched => Status[a] = "waiting"
                  /\ a \in action_dispatched /\ a \notin action_completed => Status[a] = "running"
                  /\ a \in action_dispatched /\ a \in action_completed => Status[a] = outcome[a]
             /\ \A a \in ActionIds \ Ids(Job) : Status[a] = "waiting"
  BY <1>3, <1>4 DEF Status
<1>5. Status \in [ActionIds -> {"waiting", "running", "achieved", "failed"}]
  <2>1. DOMAIN Status = ActionIds /\ Status = [a \in ActionIds |-> Status[a]]
    BY DEF Status
  <2>2. \A a \in ActionIds : Status[a] \in {"waiting", "running", "achieved", "failed"}
    <3>1. CASE InLoop
      BY <3>1, <1>3, <1>4
    <3>2. CASE ~InLoop
      BY <3>2, <1>2 DEF Contract!Waiting
    <3>3. QED
      BY <3>1, <3>2
  <2>3. QED
    BY <2>1, <2>2
<1>6. QED
  BY <1>2, <1>3, <1>4, <1>5 DEF StatusMeaning

(* The same functions of the same state: a step that keeps what the caller *)
(* sees is a stutter of the contract.                                      *)
LEMMA UnseenStep ==
  ASSUME UNCHANGED <<pc, executing, action_dispatched, action_completed, outcome>>
  PROVE  Job' = Job /\ Status' = Status /\ InLoop' = InLoop
BY DEF Job, Status, InLoop, Ids, Starts, Nodes

LEMMA ContractReset ==
  ASSUME IInv, StatusMeaning', Reset
  PROVE  UNCHANGED Contract!jobVars
<1>1. StatusMeaning /\ ~InLoop /\ ~InLoop' /\ verdict' = verdict
  BY StatusFacts, ResetFrame
<1>2. Job' = Job /\ Status' = Status
  BY <1>1 DEF StatusMeaning, Contract!Waiting
<1>3. QED
  BY <1>1, <1>2, Zenon DEF Contract!jobVars

LEMMA ContractBegin ==
  ASSUME IInv, StatusMeaning', DispatchPlan
  PROVE  Contract!JobNext
<1>1. StatusMeaning /\ LoopIsExclusive
  BY StatusFacts DEF IInv
<1>2. ~InLoop /\ InLoop' /\ ~plan_cancelled' /\ verdict' = verdict
  <2>1. ~dispatching /\ pc' = "head" /\ verdict' = verdict /\ ~plan_cancelled'
    BY Zenon DEF DispatchPlan, Initialise
  <2>2. QED
    BY <1>1, <2>1 DEF LoopIsExclusive, InLoop
<1>3. /\ executing' = plan /\ plan \in Plans
      /\ action_dispatched' = action_dispatched \ NodeIds(plan)
  BY Zenon DEF DispatchPlan, Initialise, IInv, TypeOK
<1>4. Job = NoJob /\ Job' = plan /\ Status = Contract!Waiting
  BY <1>1, <1>2, <1>3 DEF StatusMeaning
<1>5. Status' = Status
  <2>1. Ids(plan) \subseteq NodeIds(plan)
    BY DEF NodeIds, Ids, Starts
  <2>2. \A a \in ActionIds : Status'[a] = "waiting"
    BY <1>2, <1>3, <1>4, <2>1 DEF StatusMeaning
  <2>3. Status' \in [ActionIds -> {"waiting", "running", "achieved", "failed"}]
    BY DEF StatusMeaning
  <2>4. QED
    BY <1>4, <2>2, <2>3 DEF Contract!Waiting
<1>6. (InLoop /\ plan_cancelled)' = (InLoop /\ plan_cancelled)
  BY <1>2, Zenon
<1>7. Contract!Begin(plan)
  BY <1>2, <1>4, <1>5, <1>6, Zenon DEF Contract!Begin
<1>8. QED
  BY <1>3, <1>7, Zenon DEF Contract!JobNext

(* Feedback on an action of the job is a report; any other is unseen.      *)
LEMMA ContractReport ==
  ASSUME IInv, StatusMeaning', NEW b \in ActionIds, ActionAchieved(b) \/ ActionFailed(b)
  PROVE  [Contract!JobNext]_(Contract!jobVars)
<1>1. StatusMeaning
  BY StatusFacts
<1>2. /\ UNCHANGED <<pc, executing, action_dispatched, verdict>>
      /\ (InLoop /\ plan_cancelled)' = (InLoop /\ plan_cancelled)
      /\ Job' = Job /\ InLoop' = InLoop
  <2>1. UNCHANGED <<pc, executing, action_dispatched, verdict, plan_cancelled>>
    BY ReportFrame
  <2>2. Job' = Job /\ InLoop' = InLoop
    BY <2>1 DEF Job, InLoop
  <2>3. QED
    BY <2>1, <2>2, Zenon
<1>3. CASE UNCHANGED <<action_completed, outcome>>
  BY <1>2, <1>3, UnseenStep, Zenon DEF Contract!jobVars
<1>4. CASE ~InLoop
  BY <1>1, <1>2, <1>4, Zenon DEF StatusMeaning, Contract!jobVars
<1>5. CASE InLoop /\ ~UNCHANGED <<action_completed, outcome>>
  <2>1. /\ b \notin action_completed
        /\ action_completed' = action_completed \cup {b}
        /\ \E s \in {"achieved", "failed"} : outcome' = [outcome EXCEPT ![b] = s]
    BY <1>5, ReportFrame
  <2>2. outcome \in [ActionIds -> {"none", "achieved", "failed"}]
    BY DEF IInv, TypeOK
  <2>3. PICK s \in {"achieved", "failed"} : outcome'[b] = s /\ \A a \in ActionIds \ {b} : outcome'[a] = outcome[a]
    BY <2>1, <2>2
  <2>4. \A a \in ActionIds \ {b} : Status'[a] = Status[a]
    BY <1>1, <1>2, <1>5, <2>1, <2>3 DEF StatusMeaning
  <2>5. CASE b \in Ids(Job) \cap action_dispatched
    <3>1. Status[b] = "running" /\ Status'[b] = s
      BY <1>1, <1>2, <1>5, <2>1, <2>3, <2>5 DEF StatusMeaning
    <3>2. Status' = [Status EXCEPT ![b] = s]
      BY <1>1, <2>4, <3>1 DEF StatusMeaning
    <3>3. Contract!Report(b, s)
      BY <1>2, <3>1, <3>2, Zenon DEF Contract!Report
    <3>4. QED
      BY <3>3, Zenon DEF Contract!JobNext
  <2>6. CASE b \notin Ids(Job) \cap action_dispatched
    <3>1. Status'[b] = Status[b]
      BY <1>1, <1>2, <1>5, <2>6 DEF StatusMeaning
    <3>2. Status' = Status
      BY <1>1, <2>4, <3>1 DEF StatusMeaning
    <3>3. QED
      BY <1>2, <3>2, Zenon DEF Contract!jobVars
  <2>7. QED
    BY <2>5, <2>6
<1>6. QED
  BY <1>3, <1>4, <1>5

LEMMA ContractCancel ==
  ASSUME IInv, StatusMeaning', CancelDispatch
  PROVE  [Contract!JobNext]_(Contract!jobVars)
<1>1. /\ UNCHANGED <<pc, executing, action_dispatched, action_completed, outcome, verdict>>
      /\ plan_cancelled' = TRUE
  BY Zenon DEF CancelDispatch, maps, past, thread
<1>2. Job' = Job /\ Status' = Status /\ InLoop' = InLoop
  BY <1>1, UnseenStep
<1>3. CASE InLoop
  <2>1. Job # NoJob
    BY <1>3, StatusFacts DEF StatusMeaning
  <2>2. (InLoop /\ plan_cancelled)' = TRUE
    BY <1>1, <1>2, <1>3, Zenon
  <2>3. Contract!Cancel
    BY <1>1, <1>2, <2>1, <2>2, Zenon DEF Contract!Cancel
  <2>4. QED
    BY <2>3, Zenon DEF Contract!JobNext
<1>4. CASE ~InLoop
  <2>1. (InLoop /\ plan_cancelled)' = (InLoop /\ plan_cancelled)
    BY <1>2, <1>4, Zenon
  <2>2. QED
    BY <1>1, <1>2, <2>1, Zenon DEF Contract!jobVars
<1>5. QED
  BY <1>3, <1>4

(* Dispatching an action starts it; its predecessors were achieved because *)
(* they were completed, and a pass has no failure on record.               *)
LEMMA ContractVisit ==
  ASSUME IInv, IInv', StatusMeaning', Visit
  PROVE  [Contract!JobNext]_(Contract!jobVars)
<1>1. /\ StatusMeaning /\ pc = "visit" /\ InLoop /\ InLoop' /\ plan = executing
      /\ plan \in Plans
      /\ pc' = pc
      /\ UNCHANGED <<plan, plan_cancelled, executing, verdict>>
  BY StatusFacts, VisitFrame, VisitsOwnPlan DEF InLoop
<1>2. ~plan_cancelled /\ \A a \in ActionIds : outcome[a] # "failed"
  BY <1>1 DEF IInv, Failures
<1>3. (InLoop /\ plan_cancelled)' = (InLoop /\ plan_cancelled)
  BY <1>1, Zenon
<1>4. CASE UNCHANGED <<action_dispatched, action_completed, outcome>>
  BY <1>1, <1>3, <1>4, UnseenStep, Zenon DEF Contract!jobVars
<1>5. CASE DispatchAction(cursor)
  <2> DEFINE a == plan.action_id[cursor]
  <2>1. /\ cursor \in Starts(plan) /\ a \notin action_dispatched
        /\ action_dispatched' = action_dispatched \cup {a}
        /\ action_completed' = action_completed \ {a}
        /\ outcome' = [outcome EXCEPT ![a] = "none"]
    BY <1>5, Zenon DEF DispatchAction
  <2>2. /\ a \in Ids(Job) /\ Ids(Job) \subseteq ActionIds /\ Job' = Job /\ Job # NoJob
        /\ Job = executing
    BY <1>1, <2>1 DEF StatusMeaning, Ids
  <2>3. Status[a] = "waiting" /\ Status'[a] = "running"
    BY <1>1, <2>1, <2>2 DEF StatusMeaning
  <2>4. \A b \in ActionIds \ {a} : Status'[b] = Status[b]
    <3>1. \A b \in ActionIds \ {a} : outcome'[b] = outcome[b]
      BY <2>1, Zenon DEF IInv, TypeOK
    <3>2. QED
      BY <1>1, <2>1, <2>2, <3>1 DEF StatusMeaning
  <2>5. Status' = [Status EXCEPT ![a] = "running"]
    BY <1>1, <2>2, <2>3, <2>4 DEF StatusMeaning
  <2>6. \A b \in Ids(Job) : Status[b] # "failed"
    BY <1>1, <1>2, <2>2 DEF StatusMeaning
  <2>7. \A b \in Predecessors(Job, a) : Status[b] = "achieved"
    <3> SUFFICES ASSUME NEW b \in Predecessors(Job, a) PROVE Status[b] = "achieved"
      OBVIOUS
    <3>1. PICK e \in executing.edges : /\ e.source \in Ends(executing)
                                       /\ e.sink \in Starts(executing)
                                       /\ executing.action_id[e.sink] = a
                                       /\ executing.action_id[e.source] = b
      BY <2>2 DEF Predecessors
    <3>2. e.sink = cursor
      BY <1>1, <2>1, <3>1, PlanGraph DEF PairedNodes, Starts
    <3>3. e.source \in fired
      BY <1>1, <1>5, <3>1, <3>2, ReadyFacts DEF DispatchAction, In
    <3>4. b \in action_completed
      BY <1>1, <3>1, <3>3 DEF IInv, FiredActions
    <3>5. b \in action_dispatched /\ b \in Ids(executing)
      <4>1. PICK d \in In(executing, e.source) : /\ d.source \in Starts(executing)
                                                 /\ executing.action_id[d.source] = b
        BY <1>1, <3>1, PairedStart
      <4>2. d.source \in fired
        BY <1>1, <3>3, <4>1 DEF IInv, FiredClosed, In
      <4>3. QED
        BY <1>1, <4>1, <4>2 DEF IInv, FiredActions, Ids
    <3>6. QED
      BY <1>1, <1>2, <2>2, <3>4, <3>5 DEF StatusMeaning
  <2>8. Contract!Start(a)
    BY <1>1, <1>2, <1>3, <2>2, <2>3, <2>5, <2>6, <2>7, Zenon DEF Contract!Start, Contract!Ids, Contract!Starts, Contract!Nodes, Contract!Predecessors, Contract!Ends, Ids, Starts, Nodes, Predecessors, Ends
  <2>9. QED
    BY <2>2, <2>8 DEF Contract!JobNext
<1>6. QED
  BY <1>4, <1>5, VisitKinds

(* Leaving the loop ends the job.                                          *)
LEMMA ContractEnd ==
  ASSUME IInv, StatusMeaning', LoopDone \/ CancelBreak \/ (SpinReturn /\ replan_requested)
  PROVE  Contract!JobNext
<1>1. StatusMeaning /\ InLoop /\ pc' = "reset1" /\ ~InLoop'
  BY StatusFacts DEF LoopDone, CancelBreak, SpinReturn, LeaveLoop, InLoop
<1>2. Job # NoJob /\ Job' = NoJob /\ Status' = Contract!Waiting
  BY <1>1 DEF StatusMeaning, Contract!Waiting
<1>3. (InLoop /\ plan_cancelled)' = FALSE
  BY <1>1, Zenon
<1>4. CASE LoopDone
  <2>1. pc = "head" /\ finished_execution /\ verdict' = "success"
    BY <1>4, Zenon DEF LoopDone, LeaveLoop
  <2>2. AllCompleted
    BY <2>1 DEF IInv, FinishedLoop, Failures, InLoop
  <2>3. \A a \in ActionIds : outcome[a] # "failed"
    BY <1>1, <2>1 DEF IInv, Failures
  <2>4. \A a \in Ids(Job) : Status[a] = "achieved"
    BY <1>1, <2>2, <2>3 DEF StatusMeaning, AllCompleted, Ids
  <2>5. Contract!End("success")
    BY <1>2, <1>3, <2>1, <2>4, Zenon DEF Contract!End, Contract!Ids, Contract!Starts, Contract!Nodes, Ids, Starts, Nodes
  <2>6. QED
    BY <2>5, Zenon DEF Contract!JobNext
<1>5. CASE CancelBreak
  <2>1. verdict' = "success" /\ (InLoop /\ plan_cancelled)
    BY <1>1, <1>5, Zenon DEF CancelBreak, LeaveLoop
  <2>2. Contract!End("success")
    BY <1>2, <1>3, <2>1, Zenon DEF Contract!End
  <2>3. QED
    BY <2>2, Zenon DEF Contract!JobNext
<1>6. CASE SpinReturn /\ replan_requested
  <2>1. verdict' = "failure"
    BY <1>6, Zenon DEF SpinReturn, LeaveLoop
  <2>2. Contract!End("failure")
    BY <1>2, <1>3, <2>1 DEF Contract!End
  <2>3. QED
    BY <2>2, Zenon DEF Contract!JobNext
<1>7. QED
  BY <1>4, <1>5, <1>6

LEMMA ContractNext ==
  ASSUME IInv, IInv', StatusMeaning', [Next]_vars
  PROVE  [Contract!JobNext]_(Contract!jobVars)
<1>1. CASE DispatchPlan
  BY <1>1, ContractBegin
<1>2. CASE CancelDispatch
  BY <1>2, ContractCancel
<1>3. CASE \E b \in ActionIds : ActionAchieved(b) \/ ActionFailed(b)
  BY <1>3, ContractReport
<1>4. CASE (\E p \in Plans : PlanCallback(p)) \/ (\E a \in ActionIds : ActionEnabled(a))
  <2>1. UNCHANGED <<pc, executing, action_dispatched, action_completed, outcome, verdict, plan_cancelled>>
    <3>1. CASE \E p \in Plans : PlanCallback(p)
      BY <3>1, Zenon DEF PlanCallback, flags, maps, past
    <3>2. CASE \E a \in ActionIds : ActionEnabled(a)
      BY <3>2, Zenon DEF ActionEnabled, flags, thread, past
    <3>3. QED
      BY <1>4, <3>1, <3>2
  <2>2. Job' = Job /\ Status' = Status /\ InLoop' = InLoop
    BY <2>1, UnseenStep
  <2>3. (InLoop /\ plan_cancelled)' = (InLoop /\ plan_cancelled)
    BY <2>1, <2>2, Zenon
  <2>4. QED
    BY <2>1, <2>2, <2>3, Zenon DEF Contract!jobVars
<1>5. CASE Visit
  BY <1>5, ContractVisit
<1>6. CASE LoopDone \/ CancelBreak \/ (SpinReturn /\ replan_requested)
  BY <1>6, ContractEnd
<1>7. CASE EnterPass \/ PassDone \/ (SpinReturn /\ ~replan_requested)
  <2>1. UNCHANGED <<executing, action_dispatched, action_completed, outcome, plan_cancelled>>
    BY <1>7, LoopFrame
  <2>2. InLoop /\ InLoop'
    BY <1>7 DEF EnterPass, PassDone, SpinReturn, InLoop
  <2>3. verdict' = verdict
    BY <1>7, Zenon DEF EnterPass, PassDone, SpinReturn, past
  <2>4. Job' = Job /\ Status' = Status
    BY <2>1, <2>2, Zenon DEF Job, Status, Ids, Starts, Nodes
  <2>5. (InLoop /\ plan_cancelled)' = (InLoop /\ plan_cancelled)
    BY <2>1, <2>2, Zenon
  <2>6. QED
    BY <2>3, <2>4, <2>5, Zenon DEF Contract!jobVars
<1>8. CASE Reset
  BY <1>8, ContractReset
<1>9. CASE UNCHANGED vars
  <2>1. UNCHANGED <<pc, executing, action_dispatched, action_completed, outcome, verdict, plan_cancelled>>
    BY <1>9, Zenon DEF vars, flags, maps, thread, past
  <2>2. Job' = Job /\ Status' = Status /\ InLoop' = InLoop
    BY <2>1, UnseenStep
  <2>3. (InLoop /\ plan_cancelled)' = (InLoop /\ plan_cancelled)
    BY <2>1, <2>2, Zenon
  <2>4. QED
    BY <2>1, <2>2, <2>3, Zenon DEF Contract!jobVars
<1>10. QED
  BY <1>1, <1>2, <1>3, <1>4, <1>5, <1>6, <1>7, <1>8, <1>9, Zenon DEF Next, Callback, Loop

LEMMA ContractInit == Init => Contract!JobInit
<1> SUFFICES ASSUME Init PROVE Contract!JobInit
  OBVIOUS
<1>1. ~InLoop /\ verdict = "none"
  BY DEF Init, InLoop
<1>2. Job = NoJob /\ Status = Contract!Waiting
  BY <1>1, InitIInv, StatusFacts DEF StatusMeaning
<1>3. (InLoop /\ plan_cancelled) = FALSE
  BY <1>1, Zenon
<1>4. QED
  BY <1>1, <1>2, <1>3, Zenon DEF Contract!JobInit

(* The dispatcher implements the contract: as its caller sees it, every    *)
(* behaviour of the node is a sequence of jobs of PlanExecution.           *)
THEOREM Implementation == Spec => ImplementsContract
<1>1. StatusMeaning' /\ IInv /\ IInv' /\ [Next]_vars => [Contract!JobNext]_(Contract!jobVars)
  BY ContractNext
<1>2. IInv' => StatusMeaning'
  BY StatusFacts, PTL
<1>3. QED
  BY ContractInit, Invariance, <1>1, <1>2, PTL DEF ImplementsContract, Contract!JobSpec, Spec
=============================================================================
