------------------------ MODULE DispatchSystemProofs ------------------------
(***************************************************************************)
(* The dispatcher inside the system is the dispatcher on its own: every    *)
(* step of the system is, for the dispatcher's variables, a step of        *)
(* EsterelPlanDispatcher or none.  So what is proved of it there holds     *)
(* here, for any number of nodes, threads and waiting messages.            *)
(***************************************************************************)
EXTENDS DispatchSystem, EsterelPlanDispatcherProofs

(* The nodes, with what is proved of them.                                 *)
NodeP == INSTANCE ActionInterfaceLemmas

(* What the nodes report is about calls of known actions.                  *)
ReportsTyped == feedback \in [Interfaces -> Seq(Node!Reports)]

LEMMA ReportStep ==
  ASSUME ReportsTyped, NEW i \in Interfaces, NEW c \in Calls,
         NEW status \in {"enabled", "achieved", "failed"}, Node!Report(i, c, status)
  PROVE  ReportsTyped'
<1>1. [call |-> c, status |-> status] \in Node!Reports /\ feedback[i] \in Seq(Node!Reports)
  BY DEF ReportsTyped, Node!Reports
<1>2. Append(feedback[i], [call |-> c, status |-> status]) \in Seq(Node!Reports)
  BY <1>1
<1>3. QED
  BY <1>2 DEF Node!Report, ReportsTyped

LEMMA HearStep ==
  ASSUME ReportsTyped, NEW i \in Interfaces, Node!Hear(i)
  PROVE  ReportsTyped' /\ Head(feedback[i]).call.id \in ActionIds
<1>1. feedback[i] \in Seq(Node!Reports) /\ feedback[i] # <<>>
  BY DEF Node!Hear, ReportsTyped
<1>2. Tail(feedback[i]) \in Seq(Node!Reports) /\ Head(feedback[i]) \in Node!Reports
  BY <1>1
<1>3. ReportsTyped'
  BY <1>2 DEF Node!Hear, ReportsTyped
<1>4. Head(feedback[i]).call.id \in ActionIds
  BY <1>2 DEF Node!Reports, Calls
<1>5. QED
  BY <1>3, <1>4

LEMMA NodeReports == ReportsTyped /\ Node!NodeStep => ReportsTyped'
<1> SUFFICES ASSUME ReportsTyped, Node!NodeStep PROVE ReportsTyped'
  OBVIOUS
<1>1. CASE feedback' = feedback
  BY <1>1 DEF ReportsTyped
<1>2. ASSUME NEW i \in Interfaces, NEW t \in Threads, NEW c \in Calls, Node!CallStep(i, t, c)
      PROVE  ReportsTyped'
  <2>1. \/ feedback' = feedback
        \/ \E status \in {"enabled", "achieved", "failed"} : Node!Report(i, c, status)
    BY <1>2, Zenon
    DEF Node!CallStep, Node!ClearCancelled, Node!Reject, Node!Enable, Node!StartEffects,
        Node!Return, Node!SeeCancelled, Node!StopCancelled, Node!GoOn, Node!Decide, Node!EndEffects, Node!ReportAchieved,
        Node!ReportFailed
  <2>2. QED
    BY <1>1, <2>1, ReportStep
<1>3. QED
  BY <1>1, <1>2, Zenon
  DEF Node!NodeStep, Node!ThreadStep, Node!BeginCancel, Node!SetCancelled, Node!SkipCall,
      Node!BeginCall

-----------------------------------------------------------------------------
LEMMA AloneStep == Alone => Next
BY Zenon DEF Alone, Next, Callback, Loop, Reset, Visit

LEMMA SystemStep == ReportsTyped /\ SystemNext => ReportsTyped' /\ [Next]_vars
<1> SUFFICES ASSUME ReportsTyped, SystemNext PROVE ReportsTyped' /\ [Next]_vars
  OBVIOUS
<1>1. CASE SendAction
  <2>1. feedback' = feedback /\ DispatchAction(cursor)
    BY <1>1, Zenon DEF SendAction, Node!Dispatch
  <2>2. Next
    BY <2>1, Zenon DEF Next, Loop, Visit
  <2>3. QED
    BY <2>1, <2>2 DEF ReportsTyped
<1>2. CASE SendCancel
  <2>1. feedback' = feedback /\ PublishCancel
    BY <1>2, Zenon DEF SendCancel, Node!Cancel
  <2>2. Next
    BY <2>1, Zenon DEF Next, Reset
  <2>3. QED
    BY <2>1, <2>2 DEF ReportsTyped
<1>3. ASSUME NEW i \in Interfaces, HearEnabled(i) \/ HearAchieved(i) \/ HearFailed(i)
      PROVE  ReportsTyped' /\ [Next]_vars
  <2> DEFINE a == Head(feedback[i]).call.id
  <2>1. Node!Hear(i) /\ (ActionEnabled(a) \/ ActionAchieved(a) \/ ActionFailed(a))
    BY <1>3, Zenon DEF HearEnabled, HearAchieved, HearFailed, Hears
  <2>2. ReportsTyped' /\ a \in ActionIds
    BY <2>1, HearStep
  <2> HIDE DEF a
  <2>3. Next
    BY <2>1, <2>2, Zenon DEF Next, Callback
  <2>4. QED
    BY <2>2, <2>3
<1>4. CASE StartDispatch
  <2>1. feedback' = feedback /\ DispatchPlan
    BY <1>4, Zenon DEF StartDispatch, interfaceVars
  <2>2. QED
    BY <2>1, Zenon DEF ReportsTyped, Next, Callback
<1>5. CASE Alone
  <2>1. feedback' = feedback
    BY <1>5, Zenon DEF Alone, interfaceVars
  <2>2. QED
    BY <1>5, <2>1, AloneStep DEF ReportsTyped
<1>6. CASE InterfaceStep
  BY <1>6, NodeReports DEF InterfaceStep
<1>7. QED
  BY <1>1, <1>2, <1>3, <1>4, <1>5, <1>6, Zenon DEF SystemNext

LEMMA StutterStep == ReportsTyped /\ UNCHANGED systemVars => ReportsTyped' /\ UNCHANGED vars
BY DEF systemVars, interfaceVars, ReportsTyped

LEMMA SystemStart == SystemInit => ReportsTyped /\ Init
BY DEF SystemInit, Node!InterfaceInit, ReportsTyped

(* The system implements the dispatcher: its nodes give it no step that    *)
(* the dispatcher's own model does not have.                               *)
THEOREM SystemImplementsDispatcher == SystemSpec => Spec
<1>1. SystemInit => ReportsTyped /\ Init
  BY SystemStart
<1>2. ReportsTyped /\ [SystemNext]_systemVars => ReportsTyped' /\ [Next]_vars
  BY SystemStep, StutterStep
<1>3. QED
  BY <1>1, <1>2, PTL DEF SystemSpec, Spec

(* So, in the system, no action is published before those it depends on    *)
(* were reported, and the caller sees a plan execution.                    *)
THEOREM SystemKeepsPrecedence == SystemSpec => []PrecedenceRespected
BY SystemImplementsDispatcher, PrecedenceCorrect

(* Whoever calls dispatch_plan sees PlanExecution, whatever the nodes do.  *)
THEOREM SystemImplementsContract == SystemSpec => ImplementsContract
BY SystemImplementsDispatcher, Implementation

-----------------------------------------------------------------------------
(* The nodes inside the system are the nodes on their own.                 *)

LEMMA NodeAssumption == NodeP!InterfaceAssumption
BY SystemAssumption DEF NodeP!InterfaceAssumption, NameOf

LEMMA SameNodes ==
  /\ Node!InterfaceInit => NodeP!InterfaceInit
  /\ \A c \in Calls : Node!Dispatch(c) => NodeP!Dispatch(c)
  /\ Node!Cancel => NodeP!Cancel
  /\ \A i \in Interfaces : Node!Hear(i) => NodeP!Hear(i)
  /\ Node!NodeStep => NodeP!NodeStep
<1>1. Node!InterfaceInit => NodeP!InterfaceInit
  BY Zenon DEF Node!InterfaceInit, NodeP!InterfaceInit
<1>2. \A m : Node!Publish(m) => NodeP!Publish(m)
  BY Zenon DEF Node!Publish, NodeP!Publish
<1>3. \A c \in Calls : Node!Dispatch(c) => NodeP!Dispatch(c)
  BY <1>2, Zenon DEF Node!Dispatch, NodeP!Dispatch
<1>4. Node!Cancel => NodeP!Cancel
  BY <1>2, Zenon DEF Node!Cancel, NodeP!Cancel
<1>5. \A i \in Interfaces : Node!Hear(i) => NodeP!Hear(i)
  BY Zenon DEF Node!Hear, NodeP!Hear
<1>6. ASSUME NEW i \in Interfaces, NEW t \in Threads, Node!ThreadStep(i, t)
      PROVE  NodeP!ThreadStep(i, t)
  <2> USE DEF Node!Innermost, NodeP!Innermost, Node!Last, NodeP!Last, Node!Leave, NodeP!Leave,
              Node!Enter, NodeP!Enter, Node!Takes, NodeP!Takes, Node!At, NodeP!At,
              Node!Goto, NodeP!Goto, Node!Report, NodeP!Report
  <2>1. Node!BeginCancel(i, t) \/ Node!SetCancelled(i, t)
          => NodeP!BeginCancel(i, t) \/ NodeP!SetCancelled(i, t)
    BY Zenon DEF Node!BeginCancel, NodeP!BeginCancel, Node!SetCancelled, NodeP!SetCancelled
  <2>2. \A c \in Calls : Node!SkipCall(i, t, c) \/ Node!BeginCall(i, t, c)
          => NodeP!SkipCall(i, t, c) \/ NodeP!BeginCall(i, t, c)
    BY Zenon DEF Node!SkipCall, NodeP!SkipCall, Node!BeginCall, NodeP!BeginCall
  <2>3. \A c \in Calls : Node!CallStep(i, t, c) => NodeP!CallStep(i, t, c)
    <3> TAKE c \in Calls
    <3>1. /\ Node!ClearCancelled(i, t, c) => NodeP!ClearCancelled(i, t, c)
          /\ Node!Reject(i, t, c) => NodeP!Reject(i, t, c)
          /\ Node!Enable(i, t, c) => NodeP!Enable(i, t, c)
          /\ Node!StartEffects(i, t, c) => NodeP!StartEffects(i, t, c)
      BY Zenon DEF Node!ClearCancelled, NodeP!ClearCancelled, Node!Reject, NodeP!Reject,
                   Node!Enable, NodeP!Enable, Node!StartEffects, NodeP!StartEffects
    <3>2. \A r \in BOOLEAN : Node!Return(i, t, c, r) => NodeP!Return(i, t, c, r)
      BY Zenon DEF Node!Return, NodeP!Return
    <3>3. /\ Node!SeeCancelled(i, t, c) => NodeP!SeeCancelled(i, t, c)
          /\ Node!StopCancelled(i, t, c) => NodeP!StopCancelled(i, t, c)
          /\ Node!GoOn(i, t, c) => NodeP!GoOn(i, t, c)
          /\ Node!Decide(i, t, c) => NodeP!Decide(i, t, c)
      BY Zenon DEF Node!SeeCancelled, NodeP!SeeCancelled, Node!StopCancelled,
                   NodeP!StopCancelled, Node!GoOn, NodeP!GoOn, Node!Decide, NodeP!Decide
    <3>4. /\ Node!EndEffects(i, t, c) => NodeP!EndEffects(i, t, c)
          /\ Node!ReportAchieved(i, t, c) => NodeP!ReportAchieved(i, t, c)
          /\ Node!ReportFailed(i, t, c) => NodeP!ReportFailed(i, t, c)
      BY Zenon DEF Node!EndEffects, NodeP!EndEffects, Node!ReportAchieved, NodeP!ReportAchieved,
                   Node!ReportFailed, NodeP!ReportFailed
    <3>5. QED
      BY <3>1, <3>2, <3>3, <3>4, Zenon DEF Node!CallStep, NodeP!CallStep
  <2>4. QED
    BY <1>6, <2>1, <2>2, <2>3, Zenon DEF Node!ThreadStep, NodeP!ThreadStep
<1>7. Node!NodeStep => NodeP!NodeStep
  BY <1>6, Zenon DEF Node!NodeStep, NodeP!NodeStep
<1>8. QED
  BY <1>1, <1>3, <1>4, <1>5, <1>7

(* A dispatch under way has a number, and runs a plan that was published.  *)
RunStarted == InLoop => run \in 1 .. MaxRuns

LEMMA RunStartedStep == TypeOK /\ RunStarted /\ [Next]_vars => RunStarted'
<1> SUFFICES ASSUME TypeOK, RunStarted, [Next]_vars, InLoop' PROVE run' \in 1 .. MaxRuns
  BY DEF RunStarted
<1>1. CASE DispatchPlan
  <2>1. run' = run + 1 /\ run < MaxRuns /\ run \in 0 .. MaxRuns
    BY <1>1 DEF DispatchPlan, TypeOK
  <2>2. QED
    BY <2>1, PlansAssumption
<1>2. CASE Callback /\ ~DispatchPlan
  <2>1. run' = run /\ pc' = pc
    BY <1>2, Zenon
    DEF Callback, PlanCallback, CancelDispatch, ActionEnabled, ActionAchieved, ActionFailed,
        world, thread
  <2>2. QED
    BY <2>1 DEF RunStarted, InLoop
<1>3. CASE Loop
  <2>1. run' = run
    BY <1>3, Zenon
    DEF Loop, LoopDone, CancelBreak, EnterPass, PassDone, SpinReturn, Visit, Visiting,
        VisitPlanStart, VisitInactive, VisitCompletedEnd, VisitPendingEnd, VisitHeldStart,
        VisitUnmetStart, DispatchAction, world
  <2>2. InLoop
    BY <1>3, VisitFrame
    DEF Loop, LoopDone, CancelBreak, EnterPass, PassDone, SpinReturn, InLoop
  <2>3. QED
    BY <2>1, <2>2 DEF RunStarted
<1>4. CASE Reset
  BY <1>4, ResetFrame
<1>5. CASE UNCHANGED vars
  BY <1>5 DEF vars, thread, world, RunStarted, InLoop
<1>6. QED
  BY <1>1, <1>2, <1>3, <1>4, <1>5 DEF Next

LEMMA RunStartedAlways == SystemSpec => [](IInv /\ RunStarted)
<1>1. Init => RunStarted
  BY DEF Init, RunStarted, InLoop
<1>2. IInv => TypeOK
  BY DEF IInv
<1>3. QED
  BY <1>1, <1>2, RunStartedStep, SystemImplementsDispatcher, Invariance, PTL DEF Spec

-----------------------------------------------------------------------------
(* What each step of the system does to the calls and to the dispatches.   *)

SendsAction ==
  \E a \in ActionIds :
    /\ pc = "visit" /\ plan = executing /\ InLoop /\ InLoop'
    /\ cursor \in Starts(executing) /\ executing.action_id[cursor] = a /\ a \in Ids(executing)
    /\ Ready(cursor) /\ a \notin action_dispatched
    /\ CallOf(a) \in Calls /\ NodeP!Dispatch(CallOf(a))
    /\ execution' = [execution EXCEPT ![run][a] = "sent"]
    /\ outcome' = [outcome EXCEPT ![a] = "none"]
    /\ action_dispatched' = action_dispatched \cup {a}
    /\ action_completed' = action_completed \ {a}
    /\ UNCHANGED <<run, executing, clean>>

(* The plan in execution and what is known of its actions stay as they are.*)
SameDispatch ==
  /\ UNCHANGED <<execution, run, executing, outcome, action_dispatched, clean>>
  /\ InLoop' => InLoop

HearsReport ==
  \E i \in Interfaces :
    LET m == Head(feedback[i]) IN
    /\ NodeP!Hear(i)
    /\ m \in NodeP!Reports
    /\ execution[m.call.run][m.call.id] = IF m.status = "enabled" THEN "sent" ELSE "enabled"
    /\ execution' = [execution EXCEPT ![m.call.run][m.call.id] =
                                        IF m.status = "enabled" THEN "enabled" ELSE "over"]
    /\ \/ outcome' = outcome
       \/ /\ m.status # "enabled"
          /\ m.call.id \notin action_completed
          /\ outcome' = [outcome EXCEPT ![m.call.id] = m.status]
    /\ UNCHANGED <<run, executing, action_dispatched, clean>>
    /\ InLoop' => InLoop

StartsDispatch ==
  /\ run' = run + 1
  /\ run < MaxRuns
  /\ outcome' = NoOutcome
  /\ Ids(executing') \cap action_dispatched' = {}
  /\ clean' = AtRest
  /\ UNCHANGED <<execution, interfaceVars>>

LEMMA CallOfType ==
  ASSUME IInv, RunStarted, InLoop, NEW a \in ActionIds
  PROVE  CallOf(a) \in Calls
<1>1. run \in 1 .. MaxRuns /\ executing \in Plans
  BY DEF IInv, TypeOK, RunStarted
<1>2. Names[executing][a] \in Interfaces
  BY <1>1, SystemAssumption
<1>3. QED
  BY <1>1, <1>2 DEF CallOf, Calls

LEMMA SendStep == IInv /\ RunStarted /\ SendAction => SendsAction
<1> SUFFICES ASSUME IInv, RunStarted, SendAction PROVE SendsAction
  OBVIOUS
<1> DEFINE a == plan.action_id[cursor]
<1>1. DispatchAction(cursor) /\ Node!Dispatch(CallOf(a)) /\ clean' = clean
  BY Zenon DEF SendAction
<1>2. /\ pc = "visit" /\ cursor \in Starts(plan) /\ Ready(cursor) /\ a \notin action_dispatched
      /\ execution' = [execution EXCEPT ![run][a] = "sent"]
      /\ outcome' = [outcome EXCEPT ![a] = "none"]
      /\ action_dispatched' = action_dispatched \cup {a}
      /\ action_completed' = action_completed \ {a}
      /\ UNCHANGED <<run, executing, pc>>
  BY <1>1, Zenon DEF DispatchAction
<1>3. plan = executing /\ plan \in Plans /\ InLoop
  BY <1>2, VisitsOwnPlan
<1>4. a \in ActionIds /\ a \in Ids(executing) /\ cursor \in Starts(executing)
  BY <1>2, <1>3, PlanFacts DEF Starts, Ids
<1>5. CallOf(a) \in Calls
  BY <1>3, <1>4, CallOfType
<1>6. NodeP!Dispatch(CallOf(a))
  BY <1>1, <1>5, SameNodes, Zenon
<1>7. executing.action_id[cursor] = a
  BY <1>3
<1>8. InLoop'
  BY <1>2, <1>3 DEF InLoop
<1> HIDE DEF a
<1>9. QED
  BY <1>1, <1>2, <1>3, <1>4, <1>5, <1>6, <1>7, <1>8, Zenon DEF SendsAction

LEMMA CancelStep == SendCancel => NodeP!Cancel /\ SameDispatch
<1> SUFFICES ASSUME SendCancel PROVE NodeP!Cancel /\ SameDispatch
  OBVIOUS
<1>1. PublishCancel /\ Node!Cancel /\ clean' = clean
  BY Zenon DEF SendCancel
<1>2. UNCHANGED <<execution, run, executing, outcome, action_dispatched>>
  BY <1>1, Zenon DEF PublishCancel, world, past, maps
<1>3. ~InLoop'
  BY <1>1, ResetFrame, Zenon DEF Reset
<1>4. QED
  BY <1>1, <1>2, <1>3, SameNodes, Zenon DEF SameDispatch

LEMMA AloneFrame == Alone => SameDispatch /\ UNCHANGED interfaceVars
<1> SUFFICES ASSUME Alone PROVE SameDispatch /\ UNCHANGED interfaceVars
  OBVIOUS
<1>1. UNCHANGED interfaceVars /\ clean' = clean
  BY Zenon DEF Alone
<1>2. UNCHANGED <<execution, run, executing, outcome, action_dispatched>>
  BY Zenon
  DEF Alone, PlanCallback, CancelDispatch, LoopDone, CancelBreak, EnterPass, VisitPlanStart,
      VisitInactive, VisitCompletedEnd, VisitPendingEnd, VisitHeldStart, VisitUnmetStart,
      PassDone, SpinReturn, ResetPass, ResetSpinReturn, DanglingIterator, FirstResetDone,
      SecondResetDone, Visiting, ClearFlags, maps, past, world
<1>3. InLoop' => InLoop
  <2>1. CASE (\E p \in Plans : PlanCallback(p)) \/ CancelDispatch
    <3>1. pc' = pc
      BY <2>1, Zenon DEF PlanCallback, CancelDispatch, thread
    <3>2. QED
      BY <3>1 DEF InLoop
  <2>2. CASE Reset
    BY <2>2, ResetFrame
  <2>3. CASE Visit
    BY <2>3, VisitFrame DEF InLoop
  <2>4. CASE LoopDone \/ CancelBreak \/ EnterPass \/ PassDone \/ SpinReturn
    BY <2>4 DEF LoopDone, CancelBreak, EnterPass, PassDone, SpinReturn, InLoop
  <2>5. QED
    BY <2>1, <2>2, <2>3, <2>4, Zenon DEF Alone, Reset, Visit
<1>4. QED
  BY <1>1, <1>2, <1>3, Zenon DEF SameDispatch

LEMMA StartStep == StartDispatch => StartsDispatch
<1> SUFFICES ASSUME StartDispatch PROVE StartsDispatch
  OBVIOUS
<1>1. /\ run' = run + 1 /\ run < MaxRuns /\ outcome' = NoOutcome /\ clean' = AtRest
      /\ executing' = plan /\ action_dispatched' = action_dispatched \ NodeIds(plan)
      /\ UNCHANGED <<execution, interfaceVars>>
  BY Zenon DEF StartDispatch, DispatchPlan, Initialise
<1>2. Ids(plan) \subseteq NodeIds(plan)
  BY DEF Ids, NodeIds, Starts
<1>3. Ids(executing') = Ids(plan)
  BY <1>1 DEF Ids, Starts, Nodes
<1>4. Ids(executing') \cap action_dispatched' = {}
  BY <1>1, <1>2, <1>3
<1>5. QED
  BY <1>1, <1>4, Zenon DEF StartsDispatch

(* The execution that a report is about is the one the dispatcher moves.   *)
LEMMA HearMoves ==
  ASSUME TypeOK, NEW r \in 1 .. MaxRuns, NEW a \in ActionIds, NEW from, NEW to, from # to,
         execution' = [execution EXCEPT ![r][a] = to],
         \E q \in 1 .. MaxRuns : /\ execution[q][a] = from
                                 /\ execution' = [execution EXCEPT ![q][a] = to]
  PROVE  execution[r][a] = from
<1>1. execution \in [1 .. MaxRuns -> [ActionIds -> Phases]]
  BY DEF TypeOK
<1>2. PICK q \in 1 .. MaxRuns : /\ execution[q][a] = from
                                /\ execution' = [execution EXCEPT ![q][a] = to]
  OBVIOUS
<1>3. execution'[q][a] = to
  BY <1>1, <1>2
<1>4. q # r => execution'[q][a] = execution[q][a]
  BY <1>1
<1>5. QED
  BY <1>2, <1>3, <1>4

LEMMA HearFacts ==
  ASSUME IInv, ReportsTyped, NEW i \in Interfaces,
         HearEnabled(i) \/ HearAchieved(i) \/ HearFailed(i)
  PROVE  HearsReport
<1> DEFINE m == Head(feedback[i])
           c == m.call
<1>1. Node!Hear(i) /\ clean' = clean
  BY Zenon DEF HearEnabled, HearAchieved, HearFailed, Hears
<1>2. NodeP!Hear(i)
  BY <1>1, SameNodes
<1>3. m \in NodeP!Reports /\ c.run \in 1 .. MaxRuns /\ c.id \in ActionIds
  <2>1. feedback[i] \in Seq(Node!Reports) /\ feedback[i] # <<>>
    BY <1>1 DEF Node!Hear, ReportsTyped
  <2>2. m \in Node!Reports
    BY <2>1
  <2>3. QED
    BY <2>2 DEF Node!Reports, NodeP!Reports, Calls
<1>4. TypeOK
  BY DEF IInv
<1> HIDE DEF m
<1>5. CASE HearEnabled(i)
  <2>1. m.status = "enabled" /\ ActionEnabled(c.id) /\ Moves(c, "enabled")
    BY <1>5, Zenon DEF HearEnabled, Hears, m
  <2>2. /\ execution' = [execution EXCEPT ![c.run][c.id] = "enabled"]
        /\ \E q \in 1 .. MaxRuns : /\ execution[q][c.id] = "sent"
                                   /\ execution' = [execution EXCEPT ![q][c.id] = "enabled"]
        /\ UNCHANGED <<run, executing, outcome, action_dispatched, pc>>
    BY <2>1, Zenon DEF ActionEnabled, Moves, thread, past
  <2>3. execution[c.run][c.id] = "sent"
    <3>1. "sent" # "enabled"
      OBVIOUS
    <3>2. QED
      BY <1>3, <1>4, <2>2, <3>1, HearMoves, Zenon
  <2>4. InLoop' => InLoop
    BY <2>2 DEF InLoop
  <2>5. QED
    BY <1>1, <1>2, <1>3, <2>1, <2>2, <2>3, <2>4, Zenon DEF HearsReport, m
<1>6. ASSUME NEW s \in {"achieved", "failed"}, m.status = s, EndReported(c.id),
             execution' = [execution EXCEPT ![c.run][c.id] = "over"],
             \/ outcome' = outcome
             \/ c.id \notin action_completed /\ outcome' = [outcome EXCEPT ![c.id] = s],
             UNCHANGED <<run, executing, action_dispatched, pc>>
      PROVE  HearsReport
  <2>1. execution[c.run][c.id] = "enabled"
    BY <1>3, <1>4, <1>6, HearMoves DEF EndReported
  <2>2. InLoop' => InLoop
    BY <1>6 DEF InLoop
  <2>3. m.status # "enabled"
    BY <1>6
  <2>4. QED
    BY <1>1, <1>2, <1>3, <1>6, <2>1, <2>2, <2>3, Zenon DEF HearsReport, m
<1>7. CASE HearAchieved(i)
  <2>1. m.status = "achieved" /\ ActionAchieved(c.id) /\ Moves(c, "over")
    BY <1>7, Zenon DEF HearAchieved, Hears, m
  <2>2. /\ EndReported(c.id) /\ execution' = [execution EXCEPT ![c.run][c.id] = "over"]
        /\ \/ outcome' = outcome
           \/ c.id \notin action_completed /\ outcome' = [outcome EXCEPT ![c.id] = "achieved"]
        /\ UNCHANGED <<run, executing, action_dispatched, pc>>
    BY <2>1, Zenon DEF ActionAchieved, Accepted, Moves, thread
  <2>3. QED
    BY <1>6, <2>1, <2>2, Zenon
<1>8. CASE HearFailed(i)
  <2>1. m.status = "failed" /\ ActionFailed(c.id) /\ Moves(c, "over")
    BY <1>8, Zenon DEF HearFailed, Hears, m
  <2>2. /\ EndReported(c.id) /\ execution' = [execution EXCEPT ![c.run][c.id] = "over"]
        /\ \/ outcome' = outcome
           \/ c.id \notin action_completed /\ outcome' = [outcome EXCEPT ![c.id] = "failed"]
        /\ UNCHANGED <<run, executing, action_dispatched, pc>>
    BY <2>1, Zenon DEF ActionFailed, Accepted, Moves, thread
  <2>3. QED
    BY <1>6, <2>1, <2>2, Zenon
<1>9. QED
  BY <1>5, <1>7, <1>8

LEMMA SystemSteps ==
  ASSUME IInv, RunStarted, ReportsTyped, [SystemNext]_systemVars
  PROVE  \/ SendsAction
         \/ NodeP!Cancel /\ SameDispatch
         \/ HearsReport
         \/ StartsDispatch
         \/ SameDispatch /\ UNCHANGED interfaceVars
         \/ SameDispatch /\ NodeP!NodeStep
<1>1. CASE InterfaceStep
  <2>1. Node!NodeStep /\ UNCHANGED vars /\ clean' = clean
    BY <1>1 DEF InterfaceStep
  <2>2. NodeP!NodeStep
    BY <2>1, SameNodes
  <2>3. SameDispatch
    BY <2>1 DEF vars, world, past, maps, thread, InLoop, SameDispatch
  <2>4. QED
    BY <2>2, <2>3
<1>2. CASE UNCHANGED systemVars
  <2>1. UNCHANGED <<execution, run, executing, outcome, action_dispatched, pc, clean>>
    BY <1>2 DEF systemVars, vars, world, past, maps, thread
  <2>2. UNCHANGED interfaceVars
    BY <1>2 DEF systemVars
  <2>3. QED
    BY <2>1, <2>2 DEF SameDispatch, InLoop
<1>3. QED
  BY <1>1, <1>2, SendStep, CancelStep, AloneFrame, StartStep, HearFacts, Zenon DEF SystemNext

-----------------------------------------------------------------------------
(* What holds of the parts holds in the system.                            *)

LEMMA NodesStep ==
  ASSUME IInv, RunStarted, ReportsTyped, [SystemNext]_systemVars
  PROVE  [NodeP!InterfaceNext]_(NodeP!interfaceVars)
<1>1. CASE SendsAction
  BY <1>1, Zenon DEF SendsAction, NodeP!InterfaceNext
<1>2. CASE NodeP!Cancel
  BY <1>2, Zenon DEF NodeP!InterfaceNext
<1>3. CASE HearsReport
  BY <1>3, Zenon DEF HearsReport, NodeP!InterfaceNext
<1>4. CASE UNCHANGED interfaceVars
  BY <1>4 DEF interfaceVars, NodeP!interfaceVars
<1>5. CASE NodeP!NodeStep
  BY <1>5, Zenon DEF NodeP!InterfaceNext
<1>6. QED
  BY <1>1, <1>2, <1>3, <1>4, <1>5, SystemSteps DEF StartsDispatch

(* The interfaces inside the system are the interfaces on their own: the   *)
(* dispatcher publishes each call once and takes reports in their order.   *)
THEOREM SystemImplementsInterfaces == SystemSpec => NodeP!InterfaceSpec
<1>1. SystemInit => ReportsTyped /\ NodeP!InterfaceInit
  BY SystemStart, SameNodes DEF SystemInit
<1>2. ReportsTyped /\ [SystemNext]_systemVars => ReportsTyped'
  BY SystemStep, StutterStep
<1>3. IInv /\ RunStarted /\ ReportsTyped /\ [SystemNext]_systemVars
        => [NodeP!InterfaceNext]_(NodeP!interfaceVars)
  BY NodesStep
<1>4. QED
  BY <1>1, <1>2, <1>3, RunStartedAlways, PTL DEF SystemSpec, NodeP!InterfaceSpec

Base ==
  /\ IInv
  /\ RunStarted
  /\ ReportsTyped
  /\ NodeP!NodesInv

LEMMA BaseAlways == SystemSpec => []Base
<1>1. SystemInit => ReportsTyped
  BY SystemStart
<1>2. ReportsTyped /\ [SystemNext]_systemVars => ReportsTyped'
  BY SystemStep, StutterStep
<1>3. IInv /\ RunStarted /\ ReportsTyped /\ NodeP!NodesInv => Base
  BY DEF Base
<1>4. NodeP!InterfaceSpec => []NodeP!NodesInv
  BY NodeAssumption, NodeP!NodesInvariance
<1>5. QED
  BY <1>1, <1>2, <1>3, <1>4, RunStartedAlways, SystemImplementsInterfaces, PTL DEF SystemSpec

LEMMA BaseFacts ==
  ASSUME Base
  PROVE  /\ IInv /\ RunStarted /\ ReportsTyped /\ TypeOK
         /\ NodeP!NodesInv /\ NodeP!InterfaceTypeOK /\ NodeP!OwnCalls
         /\ phase \in [Calls -> NodeP!Steps]
         /\ feedback \in [Interfaces -> Seq(NodeP!Reports)]
         /\ execution \in [1 .. MaxRuns -> [ActionIds -> Phases]]
         /\ outcome \in [ActionIds -> {"none", "achieved", "failed"}]
         /\ run \in 0 .. MaxRuns /\ MaxRuns \in Nat
         /\ NodeP!InterfaceAssumption
BY NodeAssumption, PlansAssumption
DEF Base, IInv, TypeOK, NodeP!NodesInv, NodeP!InterfaceTypeOK

-----------------------------------------------------------------------------
(* Calls and dispatches: a call is published once, for an action of the    *)
(* dispatch that was the latest then, and its execution is on record.      *)

Progress(c) == execution[c.run][c.id]

SentCalls ==
  /\ \A c \in Calls : phase[c] # "unsent" => c.run <= run /\ Progress(c) # "none"
  /\ \A c, d \in Calls :
       phase[c] # "unsent" /\ phase[d] # "unsent" /\ c.run = d.run /\ c.id = d.id => c = d
  /\ \A c \in Calls :
       phase[c] # "unsent" /\ c.run = run => c = CallOf(c.id) /\ c.id \in Ids(executing)

NotYetSent ==
  /\ \A r \in 1 .. MaxRuns, a \in ActionIds : r > run => execution[r][a] = "none"
  /\ InLoop => \A a \in ActionIds \ action_dispatched : execution[run][a] = "none"

CallsInv == SentCalls /\ NotYetSent

LEMMA InitCalls == SystemInit => CallsInv
<1> SUFFICES ASSUME SystemInit PROVE CallsInv
  OBVIOUS
<1>1. \A c \in Calls : phase[c] = "unsent"
  BY DEF SystemInit, Node!InterfaceInit
<1>2. SentCalls
  BY <1>1, Zenon DEF SentCalls
<1>3. NotYetSent
  BY DEF SystemInit, Init, NotYetSent, InLoop
<1>4. QED
  BY <1>2, <1>3 DEF CallsInv

LEMMA CallFields ==
  /\ \A c \in Calls : c.run \in 1 .. MaxRuns /\ c.id \in ActionIds /\ c.name \in Interfaces
                      /\ NameOf[c] = c.name
  /\ \A a : CallOf(a).run = run /\ CallOf(a).id = a /\ CallOf(a).name = Names[executing][a]
BY DEF Calls, CallOf, NameOf

(* A step that sends nothing and starts nothing keeps this bookkeeping.    *)
LEMMA CallsKept ==
  ASSUME Base, CallsInv, UNCHANGED <<run, executing>>, InLoop' => InLoop,
         action_dispatched' = action_dispatched,
         \A c \in Calls : phase'[c] # "unsent" => phase[c] # "unsent",
         \A r \in 1 .. MaxRuns, a \in ActionIds :
           execution'[r][a] = "none" <=> execution[r][a] = "none"
  PROVE  CallsInv'
<1>1. \A a : CallOf(a)' = CallOf(a)
  BY DEF CallOf
<1>2. \A c \in Calls : c.run \in 1 .. MaxRuns /\ c.id \in ActionIds
  BY CallFields
<1>3. Ids(executing)' = Ids(executing)
  BY DEF Ids, Starts, Nodes
<1>4. SentCalls'
  <2>1. \A c \in Calls : phase'[c] # "unsent" => c.run <= run' /\ Progress(c)' # "none"
    BY <1>2 DEF CallsInv, SentCalls, Progress
  <2>2. \A c \in Calls :
          phase'[c] # "unsent" /\ c.run = run' => c = CallOf(c.id)' /\ c.id \in Ids(executing)'
    BY <1>1, <1>3, Zenon DEF CallsInv, SentCalls
  <2>3. \A c, d \in Calls :
          phase'[c] # "unsent" /\ phase'[d] # "unsent" /\ c.run = d.run /\ c.id = d.id => c = d
    BY Zenon DEF CallsInv, SentCalls
  <2>4. QED
    BY <2>1, <2>2, <2>3, Zenon DEF SentCalls
<1>5. NotYetSent'
  <2>1. run \in 0 .. MaxRuns /\ (InLoop => run \in 1 .. MaxRuns)
    BY BaseFacts DEF RunStarted
  <2>2. QED
    BY <2>1 DEF CallsInv, NotYetSent
<1>6. QED
  BY <1>4, <1>5 DEF CallsInv

LEMMA CallsSend == Base /\ CallsInv /\ SendsAction => CallsInv'
<1> SUFFICES ASSUME Base, CallsInv, SendsAction PROVE CallsInv'
  OBVIOUS
<1>1. PICK a \in ActionIds :
        /\ InLoop /\ a \in Ids(executing) /\ a \notin action_dispatched
        /\ CallOf(a) \in Calls /\ NodeP!Dispatch(CallOf(a))
        /\ execution' = [execution EXCEPT ![run][a] = "sent"]
        /\ action_dispatched' = action_dispatched \cup {a}
        /\ UNCHANGED <<run, executing>>
  BY Zenon DEF SendsAction
<1> DEFINE e == CallOf(a)
<1>2. /\ phase' = [phase EXCEPT ![e] = "sent"] /\ e.run = run /\ e.id = a
      /\ run \in 1 .. MaxRuns
  BY <1>1, BaseFacts DEF NodeP!Dispatch, CallOf, RunStarted
<1>3. /\ phase \in [Calls -> NodeP!Steps]
      /\ execution \in [1 .. MaxRuns -> [ActionIds -> Phases]]
      /\ \A c \in Calls : c.run \in 1 .. MaxRuns /\ c.id \in ActionIds
  BY BaseFacts, CallFields
<1>4. \A b : CallOf(b)' = CallOf(b)
  BY <1>1 DEF CallOf
<1>5. Ids(executing)' = Ids(executing)
  BY <1>1 DEF Ids, Starts, Nodes
<1>6. execution[run][a] = "none"
  BY <1>1 DEF CallsInv, NotYetSent
<1>7. \A c \in Calls : c.run = run /\ c.id = a => phase[c] = "unsent"
  BY <1>6 DEF CallsInv, SentCalls, Progress
<1>8. e \in Calls /\ e = CallOf(a)
  BY <1>1
<1> HIDE DEF e
<1>9. \A c \in Calls : phase'[c] # "unsent" => c = e \/ phase[c] # "unsent"
  BY <1>2, <1>3
<1>10. \A r \in 1 .. MaxRuns, b \in ActionIds :
         execution'[r][b] = IF r = run /\ b = a THEN "sent" ELSE execution[r][b]
  BY <1>1, <1>2, <1>3
<1>11. \A c \in Calls : phase'[c] # "unsent" => c.run <= run' /\ Progress(c)' # "none"
  BY <1>1, <1>2, <1>3, <1>9, <1>10 DEF CallsInv, SentCalls, Progress
<1>12. \A c, d \in Calls :
         phase'[c] # "unsent" /\ phase'[d] # "unsent" /\ c.run = d.run /\ c.id = d.id => c = d
  <2> SUFFICES ASSUME NEW c \in Calls, NEW d \in Calls, phase'[c] # "unsent", phase'[d] # "unsent",
                      c.run = d.run, c.id = d.id
               PROVE  c = d
    OBVIOUS
  <2>1. CASE phase[c] # "unsent" /\ phase[d] # "unsent"
    BY <2>1, Zenon DEF CallsInv, SentCalls
  <2>2. c = e => phase[d] = "unsent"
    BY <1>2, <1>7
  <2>3. d = e => phase[c] = "unsent"
    BY <1>2, <1>7
  <2>4. QED
    BY <1>9, <2>1, <2>2, <2>3
<1>13. \A c \in Calls :
         phase'[c] # "unsent" /\ c.run = run' => c = CallOf(c.id)' /\ c.id \in Ids(executing)'
  <2> SUFFICES ASSUME NEW c \in Calls, phase'[c] # "unsent", c.run = run
               PROVE  c = CallOf(c.id) /\ c.id \in Ids(executing)
    BY <1>1, <1>4, <1>5
  <2>1. CASE c = e
    BY <1>1, <1>2, <1>8, <2>1
  <2>2. CASE phase[c] # "unsent"
    BY <2>2, Zenon DEF CallsInv, SentCalls
  <2>3. QED
    BY <1>9, <2>1, <2>2
<1>14. SentCalls'
  BY <1>11, <1>12, <1>13, Zenon DEF SentCalls
<1>15. NotYetSent'
  BY <1>1, <1>2, <1>10 DEF CallsInv, NotYetSent
<1>16. QED
  BY <1>14, <1>15 DEF CallsInv

LEMMA CallsStart == Base /\ CallsInv /\ StartsDispatch => CallsInv'
<1> SUFFICES ASSUME Base, CallsInv, StartsDispatch PROVE CallsInv'
  OBVIOUS
<1>1. /\ run' = run + 1 /\ run < MaxRuns /\ run \in 0 .. MaxRuns
      /\ execution' = execution /\ phase' = phase
  BY BaseFacts DEF StartsDispatch, interfaceVars
<1>2. \A c \in Calls : c.run \in 1 .. MaxRuns /\ c.id \in ActionIds
  BY CallFields
<1>3. \A c \in Calls : phase[c] # "unsent" => c.run <= run
  BY DEF CallsInv, SentCalls
<1>4. SentCalls'
  <2>1. \A c \in Calls : phase'[c] # "unsent" => c.run <= run' /\ Progress(c)' # "none"
    BY <1>1, <1>2 DEF CallsInv, SentCalls, Progress
  <2>2. \A c \in Calls : phase'[c] # "unsent" => c.run # run'
    BY <1>1, <1>2, <1>3
  <2>3. \A c, d \in Calls :
          phase'[c] # "unsent" /\ phase'[d] # "unsent" /\ c.run = d.run /\ c.id = d.id => c = d
    BY <1>1, Zenon DEF CallsInv, SentCalls
  <2>4. QED
    BY <2>1, <2>2, <2>3, Zenon DEF SentCalls
<1>5. NotYetSent'
  BY <1>1, BaseFacts DEF CallsInv, NotYetSent
<1>6. QED
  BY <1>4, <1>5 DEF CallsInv

LEMMA CallsStep == Base /\ CallsInv /\ [SystemNext]_systemVars => CallsInv'
<1> SUFFICES ASSUME Base, CallsInv, [SystemNext]_systemVars PROVE CallsInv'
  OBVIOUS
<1>1. ASSUME SameDispatch, \A c \in Calls : phase'[c] # "unsent" => phase[c] # "unsent"
      PROVE  CallsInv'
  BY <1>1, CallsKept DEF SameDispatch
<1>2. CASE NodeP!Cancel /\ SameDispatch
  BY <1>1, <1>2 DEF NodeP!Cancel
<1>3. CASE SameDispatch /\ UNCHANGED interfaceVars
  BY <1>1, <1>3 DEF interfaceVars
<1>4. CASE SameDispatch /\ NodeP!NodeStep
  BY <1>1, <1>4, BaseFacts, NodeP!NodeStepSent
<1>5. CASE HearsReport
  <2>1. PICK i \in Interfaces : LET m == Head(feedback[i]) IN
          /\ NodeP!Hear(i)
          /\ m \in NodeP!Reports
          /\ execution[m.call.run][m.call.id] = IF m.status = "enabled" THEN "sent" ELSE "enabled"
          /\ execution' = [execution EXCEPT ![m.call.run][m.call.id] =
                                              IF m.status = "enabled" THEN "enabled" ELSE "over"]
          /\ UNCHANGED <<run, executing, action_dispatched>>
          /\ InLoop' => InLoop
    BY <1>5, Zenon DEF HearsReport
  <2> DEFINE m == Head(feedback[i])
  <2>2. m.call.run \in 1 .. MaxRuns /\ m.call.id \in ActionIds
    BY <2>1, CallFields DEF NodeP!Reports
  <2> HIDE DEF m
  <2>3. \A r \in 1 .. MaxRuns, a \in ActionIds :
          execution'[r][a] = "none" <=> execution[r][a] = "none"
    BY <2>1, <2>2, BaseFacts DEF m
  <2>4. phase' = phase
    BY <2>1 DEF NodeP!Hear
  <2>5. QED
    BY <2>1, <2>3, <2>4, CallsKept, Zenon
<1>6. QED
  BY <1>2, <1>3, <1>4, <1>5, SystemSteps, CallsSend, CallsStart, BaseFacts

-----------------------------------------------------------------------------
(* Reports: how far a call has got, how far the dispatcher takes it to be, *)
(* and what of that is still on its way.                                   *)

Early == {"sent", "begun", "cleared", "rejected"}

EnabledReport(c) == [call |-> c, status |-> "enabled"]

Progresses ==
  \A c \in Calls :
    /\ phase[c] \in Early => Progress(c) = "sent"
    /\ phase[c] \in NodeP!Working =>
         \/ Progress(c) = "enabled"
         \/ /\ Progress(c) = "sent"
            /\ \E k \in 1 .. Len(feedback[c.name]) : feedback[c.name][k] = EnabledReport(c)

QueuedAt(i, j, m) ==
  /\ m.call.name = i
  /\ m.status = "enabled" =>
       Progress(m.call) = "sent" /\ phase[m.call] \in NodeP!Working \cup NodeP!Ended
  /\ m.status # "enabled" =>
       /\ phase[m.call] = m.status
       /\ \/ Progress(m.call) = "enabled"
          \/ \E k \in 1 .. (j - 1) : feedback[i][k] = EnabledReport(m.call)
  /\ \A k \in 1 .. Len(feedback[i]) : feedback[i][k] = m => k = j

Queued ==
  \A i \in Interfaces : \A j \in 1 .. Len(feedback[i]) : QueuedAt(i, j, feedback[i][j])

ReportsInv == Progresses /\ Queued

LEMMA InitReports == SystemInit => ReportsInv
<1> SUFFICES ASSUME SystemInit PROVE ReportsInv
  OBVIOUS
<1>1. /\ \A c \in Calls : phase[c] = "unsent"
      /\ \A i \in Interfaces : feedback[i] = <<>>
  BY DEF SystemInit, Node!InterfaceInit
<1>2. "unsent" \notin Early /\ "unsent" \notin NodeP!Working
  BY DEF Early, NodeP!Working
<1>3. QED
  BY <1>1, <1>2 DEF ReportsInv, Progresses, Queued

LEMMA Kinds ==
  /\ Early \cap NodeP!Working = {} /\ Early \cap NodeP!Ended = {}
  /\ NodeP!Working \cap NodeP!Ended = {}
  /\ "unsent" \notin Early \cup NodeP!Working \cup NodeP!Ended
  /\ "enabled" \notin NodeP!Ended /\ "enabled" \in NodeP!Working
  /\ NodeP!Ended = {"achieved", "failed"}
BY DEF Early, NodeP!Working, NodeP!Ended

LEMMA ReportTypes ==
  ASSUME Base, NEW i \in Interfaces
  PROVE  /\ Len(feedback[i]) \in Nat
         /\ \A j \in 1 .. Len(feedback[i]) :
              /\ feedback[i][j] \in NodeP!Reports
              /\ feedback[i][j].call \in Calls
              /\ feedback[i][j].status \in {"enabled", "achieved", "failed"}
              /\ feedback[i][j] = [call |-> feedback[i][j].call, status |-> feedback[i][j].status]
<1>1. feedback[i] \in Seq(NodeP!Reports)
  BY BaseFacts
<1>2. \A m \in NodeP!Reports : /\ m.call \in Calls /\ m.status \in {"enabled", "achieved", "failed"}
                               /\ m = [call |-> m.call, status |-> m.status]
  BY DEF NodeP!Reports
<1>3. \A j \in 1 .. Len(feedback[i]) : feedback[i][j] \in NodeP!Reports
  BY <1>1
<1>4. Len(feedback[i]) \in Nat
  BY <1>1
<1>5. QED
  BY <1>2, <1>3, <1>4, Zenon

(* A step that reports nothing, with every call where it was as far as the *)
(* dispatcher is concerned.                                                *)
LEMMA ReportsKept ==
  ASSUME Base, ReportsInv, feedback' = feedback,
         \A c \in Calls :
           \/ phase'[c] = phase[c] /\ (phase[c] = "unsent" \/ Progress(c)' = Progress(c))
           \/ phase[c] \in Early \cup {"unsent"} /\ phase'[c] \in Early /\ Progress(c)' = "sent"
           \/ phase[c] \in NodeP!Working /\ phase'[c] \in NodeP!Working
              /\ Progress(c)' = Progress(c)
  PROVE  ReportsInv'
<1>1. Progresses'
  <2> SUFFICES ASSUME NEW c \in Calls
               PROVE  /\ phase'[c] \in Early => Progress(c)' = "sent"
                      /\ phase'[c] \in NodeP!Working =>
                           \/ Progress(c)' = "enabled"
                           \/ /\ Progress(c)' = "sent"
                              /\ \E k \in 1 .. Len(feedback[c.name]) :
                                   feedback[c.name][k] = EnabledReport(c)
    BY Zenon DEF Progresses, EnabledReport
  <2>1. /\ phase[c] \in Early => Progress(c) = "sent"
        /\ phase[c] \in NodeP!Working =>
             \/ Progress(c) = "enabled"
             \/ /\ Progress(c) = "sent"
                /\ \E k \in 1 .. Len(feedback[c.name]) : feedback[c.name][k] = EnabledReport(c)
    BY Zenon DEF ReportsInv, Progresses
  <2> DEFINE old == Progress(c)
             new == Progress(c)'
  <2>2. \/ phase'[c] = phase[c] /\ (phase[c] = "unsent" \/ new = old)
        \/ phase[c] \in Early \cup {"unsent"} /\ phase'[c] \in Early /\ new = "sent"
        \/ phase[c] \in NodeP!Working /\ phase'[c] \in NodeP!Working /\ new = old
    OBVIOUS
  <2> HIDE DEF old, new
  <2>3. QED
    BY <2>1, <2>2, Kinds DEF old, new
<1>2. Queued'
  <2> SUFFICES ASSUME NEW i \in Interfaces, NEW j \in 1 .. Len(feedback[i])
               PROVE  QueuedAt(i, j, feedback[i][j])'
    BY Zenon DEF Queued
  <2>1. PICK m \in NodeP!Reports : m = feedback[i][j]
    BY ReportTypes
  <2>2. PICK c \in Calls : c = m.call
    BY <2>1, ReportTypes
  <2>3. m.status \in {"enabled", "achieved", "failed"}
    BY <2>1, ReportTypes
  <2>4. QueuedAt(i, j, m)
    BY <2>1, Zenon DEF ReportsInv, Queued
  <2>5. /\ m.status = "enabled" =>
             Progress(c) = "sent" /\ phase[c] \in NodeP!Working \cup NodeP!Ended
        /\ m.status # "enabled" => phase[c] = m.status
    BY <2>2, <2>4, Zenon DEF QueuedAt
  <2>6. phase[c] \in NodeP!Working \cup NodeP!Ended
    BY <2>3, <2>5, Kinds
  <2>7. /\ Progress(c)' = Progress(c)
        /\ phase'[c] = phase[c] \/ (phase[c] \in NodeP!Working /\ phase'[c] \in NodeP!Working)
    <3>1. phase[c] \notin Early \cup {"unsent"}
      BY <2>6, Kinds
    <3>2. QED
      BY <3>1, Zenon
  <2>8. /\ m.status = "enabled" => phase'[c] \in NodeP!Working \cup NodeP!Ended
        /\ m.status # "enabled" => phase'[c] = m.status
    BY <2>3, <2>5, <2>7, Kinds
  <2>9. QueuedAt(i, j, m)'
    BY <2>2, <2>4, <2>7, <2>8, Zenon DEF QueuedAt, EnabledReport
  <2>10. QED
    BY <2>1, <2>9, Zenon
<1>3. QED
  BY <1>1, <1>2 DEF ReportsInv

(* A call reports: enabled when it was cleared, or how it ended.           *)
LEMMA ReportsAppend ==
  ASSUME Base, ReportsInv, NEW i \in Interfaces, NEW c \in Calls, c.name = i,
         NEW s \in {"enabled", "achieved", "failed"}, NodeP!Report(i, c, s),
         phase' = [phase EXCEPT ![c] = s], execution' = execution,
         \/ s = "enabled" /\ phase[c] = "cleared"
         \/ s \in NodeP!Ended /\ phase[c] \in NodeP!Working
  PROVE  ReportsInv'
<1> DEFINE rep == [call |-> c, status |-> s]
           n == Len(feedback[i])
<1>0. /\ \A d : Progress(d)' = Progress(d)
      /\ phase \in [Calls -> NodeP!Steps]
      /\ rep \in NodeP!Reports
      /\ feedback[i] \in Seq(NodeP!Reports)
      /\ feedback \in [Interfaces -> Seq(NodeP!Reports)]
  BY BaseFacts DEF Progress, NodeP!Reports
<1>p. /\ phase'[c] = s
      /\ \A d \in Calls \ {c} : phase'[d] = phase[d]
  BY <1>0
<1>r. rep.call = c /\ rep.status = s
  OBVIOUS
<1>1. feedback' = [feedback EXCEPT ![i] = Append(feedback[i], rep)]
  BY Zenon DEF NodeP!Report
<1> HIDE DEF rep
<1>2. /\ n \in Nat /\ Len(feedback'[i]) = n + 1 /\ feedback'[i][n + 1] = rep
      /\ \A j \in 1 .. n : feedback'[i][j] = feedback[i][j]
      /\ \A h \in Interfaces \ {i} : feedback'[h] = feedback[h]
  BY <1>0, <1>1
<1> HIDE DEF n
<1>3. /\ \A j \in 1 .. n : QueuedAt(i, j, feedback[i][j])
      /\ \A j \in 1 .. n : /\ feedback[i][j].call \in Calls
                           /\ feedback[i][j].status \in {"enabled", "achieved", "failed"}
  BY ReportTypes, Zenon DEF n, ReportsInv, Queued
(* A report of the same call that still waits is that it was enabled.      *)
<1>4. ASSUME NEW j \in 1 .. n, feedback[i][j].call = c
      PROVE  s \in NodeP!Ended /\ feedback[i][j].status = "enabled"
  <2>1. /\ feedback[i][j].status = "enabled" => phase[c] \in NodeP!Working \cup NodeP!Ended
        /\ feedback[i][j].status # "enabled" => phase[c] = feedback[i][j].status
    BY <1>3, <1>4, Zenon DEF QueuedAt
  <2>2. "cleared" \in Early
    BY DEF Early
  <2>3. QED
    BY <1>3, <2>1, <2>2, Kinds
<1>5. Progresses'
  <2>1. ASSUME NEW d \in Calls, phase'[d] \in Early
        PROVE  Progress(d) = "sent"
    BY <1>p, <2>1, Kinds DEF ReportsInv, Progresses
  <2>2. ASSUME NEW d \in Calls, phase'[d] \in NodeP!Working
        PROVE  \/ Progress(d) = "enabled"
               \/ /\ Progress(d) = "sent"
                  /\ \E k \in 1 .. Len(feedback'[d.name]) : feedback'[d.name][k] = EnabledReport(d)
    <3>1. CASE d = c
      <4>1. s = "enabled" /\ phase[c] = "cleared"
        BY <1>p, <2>2, <3>1, Kinds
      <4>2. Progress(c) = "sent"
        BY <4>1 DEF ReportsInv, Progresses, Early
      <4>3. n + 1 \in 1 .. Len(feedback'[c.name]) /\ feedback'[c.name][n + 1] = EnabledReport(c)
        BY <1>2, <4>1 DEF EnabledReport, rep
      <4>4. QED
        BY <3>1, <4>2, <4>3
    <3>2. CASE d # c
      <4>1. phase[d] \in NodeP!Working
        BY <1>p, <2>2, <3>2
      <4>2. \/ Progress(d) = "enabled"
            \/ /\ Progress(d) = "sent"
               /\ \E k \in 1 .. Len(feedback[d.name]) : feedback[d.name][k] = EnabledReport(d)
        BY <4>1, Zenon DEF ReportsInv, Progresses
      <4>3. ASSUME NEW k \in 1 .. Len(feedback[d.name]), feedback[d.name][k] = EnabledReport(d)
            PROVE  \E q \in 1 .. Len(feedback'[d.name]) : feedback'[d.name][q] = EnabledReport(d)
        <5>1. d.name \in Interfaces
          BY CallFields
        <5>2. k \in 1 .. Len(feedback'[d.name]) /\ feedback'[d.name][k] = EnabledReport(d)
          BY <1>2, <4>3, <5>1 DEF n
        <5>3. QED
          BY <5>2
      <4>4. QED
        BY <4>2, <4>3
    <3>3. QED
      BY <3>1, <3>2
  <2>3. QED
    BY <1>0, <2>1, <2>2, Zenon DEF Progresses, EnabledReport
<1>6. Queued'
  <2> SUFFICES ASSUME NEW h \in Interfaces, NEW j \in 1 .. Len(feedback'[h])
               PROVE  QueuedAt(h, j, feedback[h][j])'
    BY Zenon DEF Queued
  <2>1. CASE h # i
    <3>1. j \in 1 .. Len(feedback[h]) /\ feedback'[h] = feedback[h]
      BY <1>2, <2>1
    <3>2. PICK m \in NodeP!Reports : m = feedback[h][j]
      BY <3>1, ReportTypes
    <3>3. QueuedAt(h, j, m)
      BY <3>1, <3>2, Zenon DEF ReportsInv, Queued
    <3>4. m.call \in Calls /\ m.call # c
      BY <2>1, <3>1, <3>2, <3>3, ReportTypes DEF QueuedAt
    <3>5. phase'[m.call] = phase[m.call]
      BY <1>p, <3>4
    <3>6. QueuedAt(h, j, m)'
      BY <1>0, <3>1, <3>3, <3>5, Zenon DEF QueuedAt, EnabledReport
    <3>7. QED
      BY <3>1, <3>2, <3>6, Zenon
  <2>2. CASE h = i /\ j \in 1 .. n
    <3>1. PICK m \in NodeP!Reports : m = feedback[i][j]
      BY <2>2, ReportTypes DEF n
    <3>2. QueuedAt(i, j, m) /\ feedback'[i][j] = m
      BY <1>2, <1>3, <2>2, <3>1
    <3>3. m.call \in Calls /\ m.status \in {"enabled", "achieved", "failed"}
      BY <1>3, <2>2, <3>1
    <3>4. /\ m.status = "enabled" => phase'[m.call] \in NodeP!Working \cup NodeP!Ended
          /\ m.status # "enabled" => phase'[m.call] = m.status
      <4>1. CASE m.call = c
        BY <1>4, <1>p, <2>2, <3>1, <4>1
      <4>2. CASE m.call # c
        <5>1. phase'[m.call] = phase[m.call]
          BY <1>p, <3>3, <4>2
        <5>2. QED
          BY <3>2, <5>1, Zenon DEF QueuedAt
      <4>3. QED
        BY <4>1, <4>2
    <3>5. ASSUME NEW k \in 1 .. (j - 1), feedback[i][k] = EnabledReport(m.call)
          PROVE  feedback'[i][k] = EnabledReport(m.call)
      BY <1>2, <2>2, <3>5
    <3>6. m # rep
      <4>1. ASSUME m = rep PROVE FALSE
        BY <1>4, <1>r, <2>2, <3>1, <4>1, Kinds
      <4>2. QED
        BY <4>1
    <3>7. \A k \in 1 .. Len(feedback'[i]) : feedback'[i][k] = m => k = j
      <4>1. \A k \in 1 .. n : feedback[i][k] = m => k = j
        BY <3>2, Zenon DEF QueuedAt, n
      <4>2. \A k \in 1 .. Len(feedback'[i]) : k \in 1 .. n \/ k = n + 1
        BY <1>2
      <4>3. QED
        BY <1>2, <3>6, <4>1, <4>2
    <3>8. QueuedAt(i, j, m)'
      BY <1>0, <3>2, <3>4, <3>5, <3>7, Zenon DEF QueuedAt, EnabledReport
    <3>9. QED
      BY <2>2, <3>2, <3>8, Zenon
  <2>3. CASE h = i /\ j = n + 1
    <3>1. \A k \in 1 .. n : feedback[i][k] # rep
      BY <1>4, <1>r, Kinds
    <3>2. \A k \in 1 .. Len(feedback'[i]) : feedback'[i][k] = rep => k = j
      BY <1>2, <2>3, <3>1
    <3>3. CASE s = "enabled"
      <4>1. Progress(c) = "sent" /\ phase'[c] \in NodeP!Working
        BY <1>p, <3>3, Kinds DEF ReportsInv, Progresses, Early
      <4>2. QueuedAt(i, j, rep)'
        BY <1>0, <1>r, <3>2, <3>3, <4>1, Zenon DEF QueuedAt, rep
      <4>3. QED
        BY <1>2, <2>3, <4>2, Zenon DEF rep
    <3>4. CASE s \in NodeP!Ended
      <4>1. \/ Progress(c) = "enabled"
            \/ \E k \in 1 .. n : feedback[i][k] = EnabledReport(c)
        BY <3>4, Kinds DEF ReportsInv, Progresses, n
      <4>2. j - 1 = n
        BY <1>2, <2>3
      <4>3. \/ Progress(c) = "enabled"
            \/ \E k \in 1 .. (j - 1) : feedback'[i][k] = EnabledReport(c)
        BY <1>2, <4>1, <4>2
      <4>4. s # "enabled"
        BY <3>4, Kinds
      <4>5. QueuedAt(i, j, rep)'
        BY <1>0, <1>r, <1>p, <3>2, <4>3, <4>4, Zenon DEF QueuedAt, EnabledReport, rep
      <4>6. QED
        BY <1>2, <2>3, <4>5, Zenon DEF rep
    <3>5. QED
      BY <3>3, <3>4, Kinds
  <2>4. QED
    BY <1>2, <2>1, <2>2, <2>3
<1>7. QED
  BY <1>5, <1>6 DEF ReportsInv

(* The dispatcher hears a report: the execution it moves is of one call    *)
(* only, whose other report, if there is one, is for later.                *)
LEMMA ReportsHeard ==
  ASSUME Base, CallsInv, ReportsInv, HearsReport
  PROVE  ReportsInv'
<1>1. PICK i \in Interfaces : LET m == Head(feedback[i]) IN
        /\ NodeP!Hear(i)
        /\ m \in NodeP!Reports
        /\ execution[m.call.run][m.call.id] = IF m.status = "enabled" THEN "sent" ELSE "enabled"
        /\ execution' = [execution EXCEPT ![m.call.run][m.call.id] =
                                            IF m.status = "enabled" THEN "enabled" ELSE "over"]
  BY Zenon DEF HearsReport
<1>2. PICK m \in NodeP!Reports : m = Head(feedback[i])
  BY <1>1
<1>3. PICK c \in Calls : c = m.call
  BY DEF NodeP!Reports
<1>4. PICK n \in Nat : n = Len(feedback[i])
  BY ReportTypes
<1>5. /\ feedback[i] # <<>> /\ feedback' = [feedback EXCEPT ![i] = Tail(feedback[i])]
      /\ phase' = phase
      /\ feedback[i] \in Seq(NodeP!Reports)
      /\ feedback \in [Interfaces -> Seq(NodeP!Reports)]
  BY <1>1, BaseFacts DEF NodeP!Hear
<1>6. /\ n >= 1 /\ feedback[i][1] = m /\ Len(feedback'[i]) = n - 1
      /\ \A j \in 1 .. (n - 1) : feedback'[i][j] = feedback[i][j + 1]
      /\ \A h \in Interfaces \ {i} : feedback'[h] = feedback[h]
  BY <1>2, <1>4, <1>5
<1>7. /\ 1 \in 1 .. n /\ QueuedAt(i, 1, m)
      /\ m.status \in {"enabled", "achieved", "failed"}
  BY <1>4, <1>6 DEF ReportsInv, Queued, NodeP!Reports
<1>8. /\ c.name = i
      /\ m.status = "enabled" => phase[c] \in NodeP!Working \cup NodeP!Ended
      /\ m.status # "enabled" => phase[c] = m.status
      /\ \A k \in 1 .. n : feedback[i][k] = m => k = 1
  BY <1>3, <1>4, <1>7, Zenon DEF QueuedAt
<1>9. phase[c] \in NodeP!Working \cup NodeP!Ended /\ phase[c] # "unsent"
  BY <1>7, <1>8, Kinds
<1>10. /\ execution[c.run][c.id] = IF m.status = "enabled" THEN "sent" ELSE "enabled"
       /\ execution' = [execution EXCEPT ![c.run][c.id] =
                                           IF m.status = "enabled" THEN "enabled" ELSE "over"]
       /\ execution \in [1 .. MaxRuns -> [ActionIds -> Phases]]
       /\ c.run \in 1 .. MaxRuns /\ c.id \in ActionIds
  BY <1>1, <1>2, <1>3, BaseFacts, CallFields
<1>11. /\ Progress(c) = IF m.status = "enabled" THEN "sent" ELSE "enabled"
       /\ Progress(c)' = IF m.status = "enabled" THEN "enabled" ELSE "over"
  BY <1>10 DEF Progress
<1>12. ASSUME NEW d \in Calls, d # c, phase[d] # "unsent"
       PROVE  Progress(d)' = Progress(d)
  <2>1. d.run # c.run \/ d.id # c.id
    BY <1>9, <1>12, Zenon DEF CallsInv, SentCalls
  <2>2. d.run \in 1 .. MaxRuns /\ d.id \in ActionIds
    BY CallFields
  <2>3. QED
    BY <1>10, <2>1, <2>2 DEF Progress
<1>13. Progresses'
  <2> SUFFICES ASSUME NEW d \in Calls
               PROVE  /\ phase[d] \in Early => Progress(d)' = "sent"
                      /\ phase[d] \in NodeP!Working =>
                           \/ Progress(d)' = "enabled"
                           \/ /\ Progress(d)' = "sent"
                              /\ \E k \in 1 .. Len(feedback'[d.name]) :
                                   feedback'[d.name][k] = EnabledReport(d)
    BY <1>5, Zenon DEF Progresses, EnabledReport
  <2>1. CASE d = c
    <3>1. phase[c] \notin Early
      BY <1>9, Kinds
    <3>2. phase[c] \in NodeP!Working => m.status = "enabled"
      BY <1>7, <1>8, Kinds
    <3>3. QED
      BY <1>11, <2>1, <3>1, <3>2
  <2>2. CASE d # c
    <3>1. phase[d] \in Early \cup NodeP!Working => phase[d] # "unsent"
      BY Kinds
    <3>2. /\ phase[d] \in Early => Progress(d) = "sent"
          /\ phase[d] \in NodeP!Working =>
               \/ Progress(d) = "enabled"
               \/ /\ Progress(d) = "sent"
                  /\ \E k \in 1 .. Len(feedback[d.name]) : feedback[d.name][k] = EnabledReport(d)
      BY Zenon DEF ReportsInv, Progresses
    <3>3. ASSUME NEW k \in 1 .. Len(feedback[d.name]), feedback[d.name][k] = EnabledReport(d)
          PROVE  \E q \in 1 .. Len(feedback'[d.name]) : feedback'[d.name][q] = EnabledReport(d)
      <4>0. d.name \in Interfaces
        BY CallFields
      <4>1. CASE d.name # i
        BY <1>6, <3>3, <4>0, <4>1
      <4>2. CASE d.name = i
        <5>1. k # 1
          BY <1>3, <1>6, <2>2, <3>3, <4>2 DEF EnabledReport
        <5>2. k - 1 \in 1 .. (n - 1) /\ feedback'[i][k - 1] = feedback[i][k - 1 + 1] /\ k - 1 + 1 = k
          BY <1>4, <1>6, <3>3, <4>2, <5>1
        <5>3. QED
          BY <1>6, <3>3, <4>2, <5>2
      <4>3. QED
        BY <4>1, <4>2
    <3>4. QED
      BY <1>12, <2>2, <3>1, <3>2, <3>3, Zenon
  <2>3. QED
    BY <2>1, <2>2
<1>14. Queued'
  <2> SUFFICES ASSUME NEW h \in Interfaces, NEW j \in 1 .. Len(feedback'[h])
               PROVE  QueuedAt(h, j, feedback[h][j])'
    BY Zenon DEF Queued
  <2>1. CASE h # i
    <3>1. j \in 1 .. Len(feedback[h]) /\ feedback'[h] = feedback[h]
      BY <1>6, <2>1
    <3>2. PICK w \in NodeP!Reports : w = feedback[h][j]
      BY <3>1, ReportTypes
    <3>3. PICK d \in Calls : d = w.call
      BY DEF NodeP!Reports
    <3>4. QueuedAt(h, j, w)
      BY <3>1, <3>2, Zenon DEF ReportsInv, Queued
    <3>5. d # c /\ phase[d] # "unsent"
      <4>1. d.name = h
        BY <3>3, <3>4, Zenon DEF QueuedAt
      <4>2. w.status \in {"enabled", "achieved", "failed"}
        BY DEF NodeP!Reports
      <4>3. phase[d] \in NodeP!Working \cup NodeP!Ended \/ phase[d] \in {"achieved", "failed"}
        BY <3>3, <3>4, <4>2 DEF QueuedAt
      <4>4. QED
        BY <1>8, <2>1, <4>1, <4>3, Kinds
    <3>6. Progress(d)' = Progress(d)
      BY <1>12, <3>5
    <3>7. QueuedAt(h, j, w)'
      BY <1>5, <3>1, <3>3, <3>4, <3>6, Zenon DEF QueuedAt, EnabledReport
    <3>8. QED
      BY <3>1, <3>2, <3>7, Zenon
  <2>2. CASE h = i
    <3>1. j \in 1 .. (n - 1) /\ j + 1 \in 1 .. n /\ feedback'[i][j] = feedback[i][j + 1]
      BY <1>6, <2>2
    <3>2. PICK w \in NodeP!Reports : w = feedback[i][j + 1]
      BY <1>4, <3>1, ReportTypes
    <3>3. PICK d \in Calls : d = w.call
      BY DEF NodeP!Reports
    <3>4. QueuedAt(i, j + 1, w)
      BY <1>4, <3>1, <3>2, Zenon DEF ReportsInv, Queued
    <3>5. /\ w.status \in {"enabled", "achieved", "failed"}
          /\ w = [call |-> d, status |-> w.status] /\ m = [call |-> c, status |-> m.status]
      BY <1>3, <3>3 DEF NodeP!Reports
    <3>6. w # m
      <4>1. j + 1 # 1
        BY <3>1
      <4>2. QED
        BY <1>8, <3>1, <3>2, <4>1
    <3>7. /\ d.name = i
          /\ w.status = "enabled" =>
               Progress(d) = "sent" /\ phase[d] \in NodeP!Working \cup NodeP!Ended
          /\ w.status # "enabled" =>
               /\ phase[d] = w.status
               /\ \/ Progress(d) = "enabled"
                  \/ \E k \in 1 .. j : feedback[i][k] = EnabledReport(d)
          /\ \A k \in 1 .. n : feedback[i][k] = w => k = j + 1
      <4>1. /\ w.call.name = i
            /\ w.status = "enabled" =>
                 Progress(w.call) = "sent" /\ phase[w.call] \in NodeP!Working \cup NodeP!Ended
            /\ w.status # "enabled" =>
                 /\ phase[w.call] = w.status
                 /\ \/ Progress(w.call) = "enabled"
                    \/ \E k \in 1 .. ((j + 1) - 1) : feedback[i][k] = EnabledReport(w.call)
            /\ \A k \in 1 .. Len(feedback[i]) : feedback[i][k] = w => k = j + 1
        BY <3>4, Zenon DEF QueuedAt
      <4>2. (1 .. ((j + 1) - 1)) = 1 .. j
        BY <3>1
      <4>3. QED
        BY <1>4, <3>3, <4>1, <4>2, Zenon
    <3>8. /\ w.status = "enabled" => Progress(d)' = "sent"
          /\ w.status # "enabled" =>
               \/ Progress(d)' = "enabled"
               \/ \E k \in 1 .. (j - 1) : feedback'[i][k] = EnabledReport(d)
      <4>1. CASE d = c
        <5>1. w.status # m.status
          BY <3>5, <3>6, <4>1
        <5>2. m.status = "enabled" /\ w.status # "enabled"
          BY <1>7, <1>8, <1>11, <3>7, <4>1, <5>1, Kinds
        <5>3. QED
          BY <1>11, <4>1, <5>2
      <4>2. CASE d # c
        <5>1. phase[d] # "unsent"
          BY <3>5, <3>7, Kinds
        <5>2. Progress(d)' = Progress(d)
          BY <1>12, <4>2, <5>1
        <5>3. ASSUME NEW k \in 1 .. j, feedback[i][k] = EnabledReport(d)
              PROVE  \E q \in 1 .. (j - 1) : feedback'[i][q] = EnabledReport(d)
          <6>1. k # 1
            BY <1>3, <1>6, <4>2, <5>3 DEF EnabledReport
          <6>2. k - 1 \in 1 .. (j - 1) /\ k - 1 \in 1 .. (n - 1) /\ k - 1 + 1 = k
            BY <3>1, <6>1
          <6>3. QED
            BY <1>6, <5>3, <6>2
        <5>4. QED
          BY <3>7, <5>2, <5>3
      <4>3. QED
        BY <4>1, <4>2
    <3>9. \A k \in 1 .. Len(feedback'[i]) : feedback'[i][k] = w => k = j
      <4> SUFFICES ASSUME NEW k \in 1 .. Len(feedback'[i]), feedback'[i][k] = w PROVE k = j
        OBVIOUS
      <4>1. k \in 1 .. (n - 1)
        BY <1>6
      <4>2. k + 1 \in 1 .. n /\ feedback'[i][k] = feedback[i][k + 1]
        BY <1>6, <4>1
      <4>3. k + 1 = j + 1
        BY <3>7, <4>2
      <4>4. QED
        BY <3>1, <4>1, <4>3
    <3>10. QueuedAt(i, j, w)'
      BY <1>5, <3>3, <3>7, <3>8, <3>9, Zenon DEF QueuedAt, EnabledReport
    <3>11. QED
      BY <2>2, <3>1, <3>2, <3>10, Zenon
  <2>3. QED
    BY <2>1, <2>2
<1>15. QED
  BY <1>13, <1>14 DEF ReportsInv

LEMMA ReportsStep == Base /\ CallsInv /\ ReportsInv /\ [SystemNext]_systemVars => ReportsInv'
<1> SUFFICES ASSUME Base, CallsInv, ReportsInv, [SystemNext]_systemVars PROVE ReportsInv'
  OBVIOUS
<1>0. phase \in [Calls -> NodeP!Steps]
  BY BaseFacts
<1>1. CASE SendsAction
  <2>1. PICK a \in ActionIds :
          /\ InLoop /\ a \notin action_dispatched
          /\ CallOf(a) \in Calls /\ NodeP!Dispatch(CallOf(a))
          /\ execution' = [execution EXCEPT ![run][a] = "sent"]
    BY <1>1, Zenon DEF SendsAction
  <2>2. PICK e \in Calls : e = CallOf(a)
    BY <2>1
  <2>3. /\ phase[e] = "unsent" /\ phase' = [phase EXCEPT ![e] = "sent"] /\ feedback' = feedback
        /\ e.run = run /\ e.id = a
    BY <2>1, <2>2 DEF NodeP!Dispatch, CallOf
  <2>4. \A c \in Calls : c.run = run /\ c.id = a => phase[c] = "unsent"
    <3>1. execution[run][a] = "none"
      BY <2>1 DEF CallsInv, NotYetSent
    <3>2. QED
      BY <3>1 DEF CallsInv, SentCalls, Progress
  <2>5. /\ \A c \in Calls : c.run \in 1 .. MaxRuns /\ c.id \in ActionIds
        /\ execution \in [1 .. MaxRuns -> [ActionIds -> Phases]]
    BY BaseFacts, CallFields
  <2>6. \A c \in Calls : phase[c] # "unsent" => Progress(c)' = Progress(c)
    BY <2>1, <2>4, <2>5 DEF Progress
  <2>7. Progress(e)' = "sent" /\ phase'[e] = "sent"
    BY <1>0, <2>1, <2>3, <2>5 DEF Progress
  <2>8. "sent" \in Early
    BY DEF Early
  <2>9. \A c \in Calls : c # e => phase'[c] = phase[c]
    BY <1>0, <2>3
  <2>10. QED
    BY <2>3, <2>6, <2>7, <2>8, <2>9, ReportsKept
<1>2. ASSUME execution' = execution, phase' = phase, feedback' = feedback
      PROVE  ReportsInv'
  <2>1. \A c \in Calls : Progress(c)' = Progress(c)
    BY <1>2 DEF Progress
  <2>2. QED
    BY <1>2, <2>1, ReportsKept
<1>3. CASE NodeP!Cancel /\ SameDispatch
  BY <1>2, <1>3, Zenon DEF NodeP!Cancel, SameDispatch
<1>4. CASE StartsDispatch \/ (SameDispatch /\ UNCHANGED interfaceVars)
  BY <1>2, <1>4, Zenon DEF StartsDispatch, SameDispatch, interfaceVars
<1>5. CASE SameDispatch /\ NodeP!NodeStep
  <2>1. \A c \in Calls : Progress(c)' = Progress(c)
    BY <1>5 DEF Progress, SameDispatch
  <2>2. CASE UNCHANGED <<phase, feedback>>
    BY <1>2, <1>5, <2>2 DEF SameDispatch
  <2>3. ASSUME NEW c \in Calls, phase[c] = "sent", phase' = [phase EXCEPT ![c] = "begun"],
               feedback' = feedback
        PROVE  ReportsInv'
    <3>1. phase[c] \in Early /\ phase'[c] \in Early /\ Progress(c)' = "sent"
      BY <1>0, <2>1, <2>3 DEF Early, ReportsInv, Progresses
    <3>2. \A d \in Calls : d # c => phase'[d] = phase[d]
      BY <1>0, <2>3
    <3>3. QED
      BY <2>1, <2>3, <3>1, <3>2, ReportsKept
  <2>4. ASSUME NEW i \in Interfaces, NEW t \in Threads, NEW c \in Calls, NodeP!CallStep(i, t, c)
        PROVE  ReportsInv'
    <3>0. c.name = i
      BY <2>4, BaseFacts, NodeP!CallStepFacts, CallFields
    <3>1. PICK to \in NodeP!Steps :
            /\ phase' = [phase EXCEPT ![c] = to]
            /\ \/ feedback' = feedback /\ phase[c] \in {"begun", "cleared"}
                  /\ to \in {"cleared", "rejected"}
               \/ feedback' = feedback /\ phase[c] \in NodeP!Working /\ to \in NodeP!Working
               \/ NodeP!Report(i, c, "enabled") /\ phase[c] = "cleared" /\ to = "enabled"
               \/ to \in NodeP!Ended /\ NodeP!Report(i, c, to) /\ phase[c] \in NodeP!Working
      BY <2>4, BaseFacts, NodeP!CallStepReports
    <3>2. phase'[c] = to /\ \A d \in Calls : d # c => phase'[d] = phase[d]
      BY <1>0, <3>1
    <3>3. CASE feedback' = feedback /\ phase[c] \in {"begun", "cleared"}
               /\ to \in {"cleared", "rejected"}
      <4>1. phase[c] \in Early /\ phase'[c] \in Early /\ Progress(c)' = "sent"
        BY <2>1, <3>2, <3>3 DEF Early, ReportsInv, Progresses
      <4>2. QED
        BY <2>1, <3>2, <3>3, <4>1, ReportsKept
    <3>4. CASE feedback' = feedback /\ phase[c] \in NodeP!Working /\ to \in NodeP!Working
      BY <2>1, <3>2, <3>4, ReportsKept
    <3>5. CASE NodeP!Report(i, c, "enabled") /\ phase[c] = "cleared" /\ to = "enabled"
      BY <1>5, <3>0, <3>1, <3>5, ReportsAppend DEF SameDispatch
    <3>6. CASE to \in NodeP!Ended /\ NodeP!Report(i, c, to) /\ phase[c] \in NodeP!Working
      BY <1>5, <3>0, <3>1, <3>6, Kinds, ReportsAppend DEF SameDispatch
    <3>7. QED
      BY <3>1, <3>3, <3>4, <3>5, <3>6
  <2>5. QED
    BY <1>5, <2>2, <2>3, <2>4, BaseFacts, NodeP!NodeStepKinds
<1>6. QED
  BY <1>1, <1>3, <1>4, <1>5, ReportsHeard, SystemSteps, BaseFacts

LEMMA ReportsAlways == SystemSpec => [](Base /\ CallsInv /\ ReportsInv)
BY InitCalls, InitReports, CallsStep, ReportsStep, BaseAlways, PTL DEF SystemSpec

(* What the dispatcher's own model assumes of its environment is what the  *)
(* nodes do: each reports a call as enabled before it reports its end, once*)
(* each, and a call that the dispatcher publishes was not published before.*)
THEOREM EnvironmentCorrect == SystemSpec => []EnvironmentAsAssumed
<1>1. ASSUME Base, CallsInv, ReportsInv PROVE EnvironmentAsAssumed
  <2>1. ASSUME NEW i \in Interfaces, feedback[i] # <<>>
        PROVE  LET m == Head(feedback[i]) IN
               execution[m.call.run][m.call.id] = IF m.status = "enabled" THEN "sent" ELSE "enabled"
    <3>1. feedback[i] \in Seq(NodeP!Reports)
      BY <1>1, BaseFacts
    <3>2. 1 \in 1 .. Len(feedback[i]) /\ Head(feedback[i]) = feedback[i][1]
      BY <2>1, <3>1
    <3>3. PICK m : m = feedback[i][1]
      OBVIOUS
    <3>4. QueuedAt(i, 1, m)
      BY <1>1, <3>2, <3>3, Zenon DEF ReportsInv, Queued
    <3>5. /\ m.status = "enabled" => Progress(m.call) = "sent"
          /\ m.status # "enabled" =>
               \/ Progress(m.call) = "enabled"
               \/ \E k \in 1 .. (1 - 1) : feedback[i][k] = EnabledReport(m.call)
      BY <3>4, Zenon DEF QueuedAt
    <3>6. ~ \E k \in 1 .. (1 - 1) : TRUE
      OBVIOUS
    <3>7. Progress(m.call) = IF m.status = "enabled" THEN "sent" ELSE "enabled"
      BY <3>5, <3>6
    <3>8. QED
      BY <3>2, <3>3, <3>7 DEF Progress
  <2>2. ASSUME pc = "visit", cursor \in Starts(plan), Ready(cursor),
               plan.action_id[cursor] \notin action_dispatched
        PROVE  phase[CallOf(plan.action_id[cursor])] = "unsent"
    <3>1. InLoop /\ plan \in Plans
      BY <1>1, <2>2, VisitsOwnPlan, BaseFacts
    <3>2. PICK a \in ActionIds : a = plan.action_id[cursor]
      BY <2>2, <3>1, PlanFacts DEF Ids
    <3>3. PICK c \in Calls : c = CallOf(a)
      BY <1>1, <3>1, CallOfType, BaseFacts
    <3>4. c.run = run /\ c.id = a
      BY <3>3, CallFields
    <3>5. execution[run][a] = "none"
      BY <1>1, <2>2, <3>1, <3>2 DEF CallsInv, NotYetSent
    <3>6. phase[c] = "unsent"
      BY <1>1, <3>4, <3>5 DEF CallsInv, SentCalls, Progress
    <3>7. QED
      BY <3>2, <3>3, <3>6
  <2>3. QED
    BY <2>1, <2>2, Zenon DEF EnvironmentAsAssumed
<1>2. QED
  BY <1>1, ReportsAlways, PTL

-----------------------------------------------------------------------------
(* A dispatch that began with all nodes at rest.                           *)

Held == \E r : r = run /\ NodeP!Holding({c \in Calls : c.run = r})

(* The nodes have only calls of this dispatch, ...                         *)
OfThisRun == clean => Held

(* ... and what was accepted as achieved is what its node did.             *)
AchievedThere ==
  clean => \A a \in ActionIds :
             outcome[a] = "achieved" => CallOf(a) \in Calls /\ phase[CallOf(a)] = "achieved"

PredecessorsAchieved ==
  InLoop => \A a \in Ids(executing) \cap action_dispatched :
              \A b \in Predecessors(executing, a) : outcome[b] = "achieved"

OrderInv == OfThisRun /\ AchievedThere /\ PredecessorsAchieved

LEMMA InitOrder == SystemInit => OrderInv
<1> SUFFICES ASSUME SystemInit PROVE OrderInv
  OBVIOUS
<1>1. NodeP!Holding({c \in Calls : c.run = run})
  BY DEF SystemInit, Node!InterfaceInit, NodeP!Holding
<1>2. OfThisRun
  BY <1>1, Zenon DEF OfThisRun, Held
<1>3. /\ \A a \in ActionIds : outcome[a] = "none"
      /\ ~InLoop
  BY DEF SystemInit, Init, NoOutcome, InLoop
<1>4. QED
  BY <1>2, <1>3 DEF OrderInv, AchievedThere, PredecessorsAchieved

LEMMA AtRestHolds == AtRest => \A S : NodeP!Holding(S)
<1>1. \A S : <<>> \in Seq(S)
  OBVIOUS
<1>2. QED
  BY <1>1, Zenon DEF AtRest, NodeP!Holding

LEMMA KeepOfThisRun ==
  ASSUME Base, CallsInv, OfThisRun, [SystemNext]_systemVars
  PROVE  OfThisRun'
<1>1. CASE StartsDispatch
  <2>1. ASSUME clean' PROVE Held'
    <3>1. AtRest'
      BY <1>1, <2>1 DEF StartsDispatch, AtRest, interfaceVars
    <3>2. \A S : NodeP!Holding(S)'
      <4>1. \A S : <<>> \in Seq(S)
        OBVIOUS
      <4>2. QED
        BY <3>1, <4>1, Zenon DEF AtRest, NodeP!Holding
    <3>3. PICK r : r = run'
      OBVIOUS
    <3>4. NodeP!Holding({c \in Calls : c.run = r})'
      BY <3>2
    <3>5. QED
      BY <3>3, <3>4, Zenon DEF Held
  <2>2. QED
    BY <2>1 DEF OfThisRun
<1>2. CASE ~StartsDispatch
  <2> SUFFICES ASSUME clean' PROVE Held'
    BY DEF OfThisRun
  <2>0. run' = run /\ clean' = clean
    BY <1>2, SystemSteps, BaseFacts DEF SendsAction, SameDispatch, HearsReport
  <2>1. PICK r : r = run /\ NodeP!Holding({c \in Calls : c.run = r})
    BY <2>0, Zenon DEF OfThisRun, Held
  <2>s. PICK S \in SUBSET Calls : S = {c \in Calls : c.run = r}
    OBVIOUS
  <2>2. NodeP!Holding(S) /\ NodeP!InterfaceTypeOK /\ NodeP!InterfaceAssumption
    BY <2>1, <2>s, BaseFacts
  <2>3. ASSUME NodeP!Holding(S)' PROVE Held'
    <3>1. NodeP!Holding({c \in Calls : c.run = r})'
      BY <2>s, <2>3
    <3>2. QED
      BY <2>0, <2>1, <3>1, Zenon DEF Held
  <2>4. CASE SendsAction
    <3>1. PICK a \in ActionIds : CallOf(a) \in Calls /\ NodeP!Dispatch(CallOf(a))
      BY <2>4, Zenon DEF SendsAction
    <3>2. PICK e \in S : e = CallOf(a)
      BY <2>1, <2>s, <3>1, CallFields
    <3>3. NodeP!Publish(e) /\ UNCHANGED <<spinner, feedback>>
      BY <3>1, <3>2, Zenon DEF NodeP!Dispatch
    <3>4. NodeP!Holding(S)'
      BY <2>2, <3>3, NodeP!PublishHolds
    <3>5. QED
      BY <2>3, <3>4
  <2>5. CASE NodeP!Cancel
    <3>1. NodeP!Publish(CancelAction) /\ UNCHANGED <<spinner, feedback>>
      BY <2>5, Zenon DEF NodeP!Cancel
    <3>2. NodeP!Holding(S)'
      BY <2>2, <3>1, NodeP!PublishHolds
    <3>3. QED
      BY <2>3, <3>2
  <2>6. CASE HearsReport
    <3>1. PICK i \in Interfaces : NodeP!Hear(i)
      BY <2>6, Zenon DEF HearsReport
    <3>2. NodeP!Holding(S)'
      BY <2>2, <3>1, NodeP!HearHolds
    <3>3. QED
      BY <2>3, <3>2
  <2>7. CASE UNCHANGED interfaceVars
    <3>1. NodeP!Holding(S)'
      BY <2>2, <2>7 DEF NodeP!Holding, interfaceVars
    <3>2. QED
      BY <2>3, <3>1
  <2>8. CASE NodeP!NodeStep
    <3>1. NodeP!Holding(S)'
      BY <2>2, <2>8, NodeP!NodeStepHolds
    <3>2. QED
      BY <2>3, <3>1
  <2>9. QED
    BY <1>2, <2>4, <2>5, <2>6, <2>7, <2>8, SystemSteps, BaseFacts
<1>3. QED
  BY <1>1, <1>2

(* Nothing undoes what a call achieved.                                    *)
LEMMA AchievedStays ==
  ASSUME Base, NodeP!NodeStep, NEW c \in Calls, phase[c] = "achieved"
  PROVE  phase'[c] = "achieved"
<1>0. phase \in [Calls -> NodeP!Steps] /\ NodeP!NodesInv /\ NodeP!InterfaceAssumption
      /\ NodeP!InterfaceTypeOK /\ NodeP!OwnCalls
  BY BaseFacts
<1>1. ASSUME NEW d \in Calls, phase[d] # "achieved", NEW to, phase' = [phase EXCEPT ![d] = to]
      PROVE  phase'[c] = "achieved"
  BY <1>0, <1>1
<1>2. ASSUME NEW i \in Interfaces, NEW t \in Threads, NEW d \in Calls, NodeP!CallStep(i, t, d)
      PROVE  phase'[c] = "achieved"
  <2>1. phase[d] \in NodeP!Open /\ \E to \in NodeP!Later : phase' = [phase EXCEPT ![d] = to]
    BY <1>0, <1>2, NodeP!CallStepFacts
  <2>2. phase[d] # "achieved"
    BY <2>1 DEF NodeP!Open
  <2>3. QED
    BY <1>1, <2>1, <2>2
<1>3. QED
  BY <1>0, <1>1, <1>2, NodeP!NodeStepKinds

(* A report accepted while the nodes are of this dispatch is about a call  *)
(* of this dispatch.                                                       *)
LEMMA HeardHere ==
  ASSUME Base, CallsInv, ReportsInv, Held, NEW i \in Interfaces, NodeP!Hear(i)
  PROVE  \E c \in Calls, s \in {"enabled", "achieved", "failed"} :
           /\ Head(feedback[i]) = [call |-> c, status |-> s]
           /\ c.name = i /\ c = CallOf(c.id)
           /\ s # "enabled" => phase[c] = s
<1>1. feedback[i] # <<>> /\ feedback[i] \in Seq(NodeP!Reports)
  BY BaseFacts DEF NodeP!Hear
<1>2. 1 \in 1 .. Len(feedback[i]) /\ Head(feedback[i]) = feedback[i][1]
  BY <1>1
<1>3. PICK m \in NodeP!Reports : m = feedback[i][1]
  BY <1>1, <1>2
<1>4. PICK c \in Calls, s \in {"enabled", "achieved", "failed"} : m = [call |-> c, status |-> s]
  BY DEF NodeP!Reports
<1>5. QueuedAt(i, 1, m)
  BY <1>2, <1>3, Zenon DEF ReportsInv, Queued
<1>6. /\ m.call.name = i
      /\ m.status = "enabled" => phase[m.call] \in NodeP!Working \cup NodeP!Ended
      /\ m.status # "enabled" => phase[m.call] = m.status
  BY <1>5, Zenon DEF QueuedAt
<1>7. PICK r : r = run /\ NodeP!Holding({d \in Calls : d.run = r})
  BY Zenon DEF Held
<1>8. PICK S : S = {d \in Calls : d.run = r}
  OBVIOUS
<1>9. Head(feedback[i]).call \in S
  BY <1>7, <1>8, BaseFacts, NodeP!HearHolds
<1>10. c.run = run
  BY <1>2, <1>3, <1>4, <1>7, <1>8, <1>9
<1>11. phase[c] # "unsent"
  BY <1>4, <1>6, Kinds
<1>12. c = CallOf(c.id)
  BY <1>10, <1>11, Zenon DEF CallsInv, SentCalls
<1>13. m.call = c /\ m.status = s
  BY <1>4
<1>14. Head(feedback[i]) = [call |-> c, status |-> s]
  BY <1>2, <1>3, <1>4, Zenon
<1>15. c.name = i /\ (s # "enabled" => phase[c] = s)
  BY <1>6, <1>13
<1>16. QED
  BY <1>12, <1>14, <1>15, Zenon

LEMMA KeepAchievedThere ==
  ASSUME Base, CallsInv, ReportsInv, OfThisRun, AchievedThere, [SystemNext]_systemVars
  PROVE  AchievedThere'
<1>0. phase \in [Calls -> NodeP!Steps] /\ outcome \in [ActionIds -> {"none", "achieved", "failed"}]
  BY BaseFacts
<1>1. CASE StartsDispatch
  BY <1>1 DEF StartsDispatch, NoOutcome, AchievedThere
<1>2. ASSUME ~StartsDispatch, clean', NEW a \in ActionIds, outcome'[a] = "achieved"
      PROVE  CallOf(a)' \in Calls /\ phase'[CallOf(a)'] = "achieved"
  <2>0. UNCHANGED <<run, executing, clean>>
    BY <1>2, SystemSteps, BaseFacts DEF SendsAction, SameDispatch, HearsReport
  <2>1. CallOf(a)' = CallOf(a) /\ Held
    BY <1>2, <2>0 DEF CallOf, OfThisRun
  <2>2. outcome[a] = "achieved" => CallOf(a) \in Calls /\ phase[CallOf(a)] = "achieved"
    BY <1>2, <2>0 DEF AchievedThere
  <2>3. CASE SendsAction
    <3>1. PICK b \in ActionIds : /\ CallOf(b) \in Calls /\ NodeP!Dispatch(CallOf(b))
                                 /\ outcome' = [outcome EXCEPT ![b] = "none"]
      BY <2>3, Zenon DEF SendsAction
    <3>2. a # b
      BY <1>0, <1>2, <3>1
    <3>3. CallOf(a) # CallOf(b)
      BY <3>2, CallFields
    <3>4. CallOf(a) \in Calls /\ phase[CallOf(a)] = "achieved"
      BY <1>0, <1>2, <2>2, <3>1, <3>2
    <3>5. PICK c \in Calls, d \in Calls : c = CallOf(a) /\ d = CallOf(b)
      BY <3>1, <3>4
    <3>6. phase' = [phase EXCEPT ![d] = "sent"] /\ c # d /\ phase[c] = "achieved"
      BY <3>1, <3>3, <3>4, <3>5 DEF NodeP!Dispatch
    <3>7. phase'[c] = "achieved"
      BY <1>0, <3>6
    <3>8. QED
      BY <2>1, <3>5, <3>7
  <2>4. CASE HearsReport
    <3>1. PICK i \in Interfaces :
            /\ NodeP!Hear(i)
            /\ \/ outcome' = outcome
               \/ outcome' = [outcome EXCEPT ![Head(feedback[i]).call.id] = Head(feedback[i]).status]
                  /\ Head(feedback[i]).status # "enabled"
      BY <2>4, Zenon DEF HearsReport
    <3>2. phase' = phase
      BY <3>1 DEF NodeP!Hear
    <3>3. PICK c \in Calls, s \in {"enabled", "achieved", "failed"} :
            /\ Head(feedback[i]) = [call |-> c, status |-> s]
            /\ c = CallOf(c.id)
            /\ s # "enabled" => phase[c] = s
      <4>1. \E c \in Calls, s \in {"enabled", "achieved", "failed"} :
              /\ Head(feedback[i]) = [call |-> c, status |-> s]
              /\ c.name = i /\ c = CallOf(c.id)
              /\ s # "enabled" => phase[c] = s
        BY <2>1, <3>1, HeardHere
      <4>2. QED
        BY <4>1, Zenon
    <3>4. Head(feedback[i]).call.id = c.id /\ Head(feedback[i]).status = s
      BY <3>3
    <3>5. outcome' = outcome \/ (outcome' = [outcome EXCEPT ![c.id] = s] /\ s # "enabled")
      BY <3>1, <3>4
    <3>6. CASE outcome[a] = "achieved"
      BY <2>1, <2>2, <3>2, <3>6
    <3>7. CASE outcome[a] # "achieved"
      <4>1. a = c.id /\ s = "achieved"
        BY <1>0, <1>2, <3>5, <3>7
      <4>2. QED
        BY <2>1, <3>2, <3>3, <4>1
    <3>8. QED
      BY <3>6, <3>7
  <2>5. CASE SameDispatch /\ (phase' = phase \/ NodeP!NodeStep)
    <3>1. outcome[a] = "achieved"
      BY <1>2, <2>5 DEF SameDispatch
    <3>2. PICK c \in Calls : c = CallOf(a) /\ phase[c] = "achieved"
      BY <2>2, <3>1
    <3>3. phase'[c] = "achieved"
      BY <2>5, <3>2, AchievedStays
    <3>4. QED
      BY <2>1, <3>2, <3>3
  <2>6. NodeP!Cancel \/ UNCHANGED interfaceVars => phase' = phase
    BY DEF NodeP!Cancel, interfaceVars
  <2>7. QED
    BY <1>2, <2>3, <2>4, <2>5, <2>6, SystemSteps, BaseFacts
<1>3. QED
  BY <1>1, <1>2 DEF AchievedThere

LEMMA PredecessorIds ==
  ASSUME NEW p \in Plans, NEW a
  PROVE  Predecessors(p, a) \subseteq Ids(p)
<1> SUFFICES ASSUME NEW b \in Predecessors(p, a) PROVE b \in Ids(p)
  OBVIOUS
<1>1. PICK e \in p.edges : e.source \in Ends(p) /\ b = p.action_id[e.source]
  BY DEF Predecessors
<1>2. PICK f \in In(p, e.source) : /\ f.source \in Starts(p)
                                   /\ p.action_id[f.source] = p.action_id[e.source]
  BY <1>1, PairedStart
<1>3. QED
  BY <1>1, <1>2 DEF Ids

LEMMA KeepPredecessors ==
  ASSUME Base, PrecedenceRespected, PrecedenceRespected', PredecessorsAchieved,
         [SystemNext]_systemVars
  PROVE  PredecessorsAchieved'
<1>0. outcome \in [ActionIds -> {"none", "achieved", "failed"}]
  BY BaseFacts
<1>1. CASE StartsDispatch
  BY <1>1 DEF StartsDispatch, PredecessorsAchieved
<1>2. ASSUME ~StartsDispatch, InLoop', NEW a \in Ids(executing'), a \in action_dispatched',
             NEW b \in Predecessors(executing', a)
      PROVE  outcome'[b] = "achieved"
  <2>0. UNCHANGED <<run, executing>> /\ InLoop
    BY <1>2, SystemSteps, BaseFacts DEF SendsAction, SameDispatch, HearsReport
  <2>1. /\ executing \in Plans /\ a \in Ids(executing) /\ b \in Predecessors(executing, a)
    BY <1>2, <2>0, BaseFacts DEF TypeOK, Ids, Starts, Nodes, Predecessors, Ends
  <2>2. b \in Ids(executing) /\ b \in ActionIds
    BY <2>1, PredecessorIds, PlanFacts
  <2>3. a \in action_dispatched
          => outcome[b] = "achieved" /\ b \in action_dispatched \cap action_completed
    BY <2>0, <2>1 DEF PredecessorsAchieved, PrecedenceRespected
  <2>4. CASE SendsAction
    <3>1. PICK d \in ActionIds :
            /\ pc = "visit" /\ d \notin action_dispatched
            /\ outcome' = [outcome EXCEPT ![d] = "none"]
            /\ action_dispatched' = action_dispatched \cup {d}
            /\ action_completed' = action_completed \ {d}
      BY <2>4, Zenon DEF SendsAction
    <3>2. b \in action_dispatched' \cap action_completed'
      BY <1>2 DEF PrecedenceRespected
    <3>3. b # d /\ b \in action_dispatched \cap action_completed
      BY <3>1, <3>2
    <3>4. outcome[b] \in {"achieved", "failed"} /\ outcome[b] # "failed"
      BY <2>0, <2>2, <3>1, <3>3, BaseFacts DEF IInv, Failures
    <3>5. QED
      BY <1>0, <2>2, <3>1, <3>3, <3>4
  <2>5. CASE HearsReport
    <3>1. PICK i \in Interfaces :
            /\ action_dispatched' = action_dispatched
            /\ \/ outcome' = outcome
               \/ /\ Head(feedback[i]).call.id \notin action_completed
                  /\ outcome' = [outcome EXCEPT ![Head(feedback[i]).call.id] =
                                                  Head(feedback[i]).status]
      BY <2>5, Zenon DEF HearsReport
    <3>2. outcome[b] = "achieved" /\ b \in action_completed
      BY <1>2, <2>3, <3>1
    <3>3. QED
      BY <1>0, <2>2, <3>1, <3>2
  <2>6. CASE SameDispatch
    BY <1>2, <2>3, <2>6 DEF SameDispatch
  <2>7. QED
    BY <1>2, <2>4, <2>5, <2>6, SystemSteps, BaseFacts
<1>3. QED
  BY <1>1, <1>2 DEF PredecessorsAchieved

LEMMA OrderStep ==
  ASSUME Base, CallsInv, ReportsInv, PrecedenceRespected, PrecedenceRespected', OrderInv,
         [SystemNext]_systemVars
  PROVE  OrderInv'
BY KeepOfThisRun, KeepAchievedThere, KeepPredecessors DEF OrderInv

LEMMA OrderAlways == SystemSpec => [](Base /\ CallsInv /\ ReportsInv /\ OrderInv)
<1>1. Base /\ CallsInv /\ ReportsInv /\ PrecedenceRespected /\ PrecedenceRespected' /\ OrderInv
        /\ [SystemNext]_systemVars => OrderInv'
  BY OrderStep
<1>2. QED
  BY <1>1, InitOrder, ReportsAlways, SystemKeepsPrecedence, PTL DEF SystemSpec

(* The precedences of the plan graph reach as far as the nodes: a call     *)
(* leaves the dispatcher when the calls before it have ended as achieved.  *)
THEOREM PerformedInOrderCorrect == SystemSpec => []PerformedInOrder
<1>1. ASSUME Base, CallsInv, OrderInv PROVE PerformedInOrder
  <2> SUFFICES ASSUME InLoop, clean, NEW a \in Ids(executing), NEW b \in ActionIds,
                      b \in Predecessors(executing, a), phase[CallOf(a)] # "unsent"
               PROVE  phase[CallOf(b)] = "achieved"
    BY Zenon DEF PerformedInOrder
  <2>1. a \in ActionIds
    BY <1>1, PlanFacts, BaseFacts DEF TypeOK
  <2>2. PICK c \in Calls : c = CallOf(a)
    BY <1>1, <2>1, CallOfType, BaseFacts
  <2>3. c.run = run /\ c.id = a
    BY <2>2, CallFields
  <2>4. execution[run][a] # "none"
    BY <1>1, <2>2, <2>3 DEF CallsInv, SentCalls, Progress
  <2>5. a \in action_dispatched
    BY <1>1, <2>1, <2>4 DEF CallsInv, NotYetSent
  <2>6. outcome[b] = "achieved"
    BY <1>1, <2>5 DEF OrderInv, PredecessorsAchieved
  <2>7. QED
    BY <1>1, <2>6 DEF OrderInv, AchievedThere
<1>2. QED
  BY <1>1, OrderAlways, PTL

-----------------------------------------------------------------------------
(* What a node says a call came to is what its concreteCallback returned,  *)
(* as long as the plan gives each node one action at a time: all calls of  *)
(* a node share action_success.                                            *)

OneAtATime ==
  clean => \A c, d \in Calls :
             /\ c # d /\ c.name = d.name /\ c.run = run /\ d.run = run
             /\ phase[c] # "unsent" /\ phase[d] # "unsent"
             => phase[c] = "achieved" \/ phase[d] = "achieved"

OwnResults == clean => \A c \in Calls : c.run = run => NodeP!ResultOf(c, c.name)

GenuineInv == OneAtATime /\ OwnResults

LEMMA InitGenuine == SystemInit => GenuineInv
<1> SUFFICES ASSUME SystemInit PROVE GenuineInv
  OBVIOUS
<1>1. \A c \in Calls : phase[c] = "unsent"
  BY DEF SystemInit, Node!InterfaceInit
<1>2. QED
  BY <1>1 DEF GenuineInv, OneAtATime, OwnResults, NodeP!ResultOf

LEMMA ActionNodes ==
  ASSUME NEW p \in Plans, NEW a \in Ids(p)
  PROVE  \E n \in Starts(p), m \in Ends(p) : p.action_id[n] = a /\ p.action_id[m] = a
<1>1. PICK n \in Starts(p) : p.action_id[n] = a
  BY DEF Ids
<1>2. PICK e \in Out(p, n) : e.sink \in Ends(p) /\ p.action_id[e.sink] = p.action_id[n]
  BY PlanGraph DEF PairedNodes
<1>3. QED
  BY <1>1, <1>2

(* When an action is published, those of its node that were published      *)
(* before it in this dispatch have ended as achieved.                      *)
LEMMA NodeIsFree ==
  ASSUME InOrderAtEachNode, Base, AchievedThere, pc = "visit", clean, plan = executing, InLoop,
         cursor \in Starts(executing), Ready(cursor),
         NEW a \in Ids(executing), executing.action_id[cursor] = a, a \notin action_dispatched,
         NEW b \in Ids(executing), b # a, b \in action_dispatched,
         Names[executing][b] = Names[executing][a]
  PROVE  CallOf(b) \in Calls /\ phase[CallOf(b)] = "achieved"
<1>1. /\ executing \in Plans /\ fired \subseteq Nodes(executing)
      /\ Closed(executing, fired)
      /\ \A n \in Starts(executing) : n \in fired <=> executing.action_id[n] \in action_dispatched
      /\ \A n \in Ends(executing) : n \in fired => executing.action_id[n] \in action_completed
  BY BaseFacts DEF IInv, TypeOK, ActiveEdges, FiredClosed, FiredActions, Closed
<1>2. cursor \notin fired /\ \A e \in executing.edges : e.sink = cursor => e.source \in fired
  BY BaseFacts, ReadyFacts DEF In
<1>3. PICK n \in Starts(executing), m \in Ends(executing) :
        executing.action_id[n] = b /\ executing.action_id[m] = b
  BY <1>1, ActionNodes
<1>4. PICK q \in Ends(executing) : executing.action_id[q] = a
  BY <1>1, ActionNodes
<1>5. EndsBefore(executing, a, b) \/ EndsBefore(executing, b, a)
  BY <1>1, Zenon DEF InOrderAtEachNode
<1>6. ~EndsBefore(executing, a, b)
  <2> SUFFICES ASSUME EndsBefore(executing, a, b) PROVE FALSE
    OBVIOUS
  <2>1. n \in fired
    BY <1>1, <1>3
  <2>2. q \in fired
    BY <1>1, <1>3, <1>4, <2>1 DEF EndsBefore
  <2>3. PICK e \in In(executing, q) : /\ e.source \in Starts(executing)
                                      /\ executing.action_id[e.source] = a
    BY <1>1, <1>4, PairedStart
  <2>4. e.source \in fired
    BY <1>1, <2>2, <2>3 DEF Closed, In
  <2>5. QED
    BY <1>1, <2>3, <2>4
<1>7. m \in fired
  <2>1. PICK S \in SUBSET Nodes(executing) : S = fired \cup {cursor}
    BY <1>1 DEF Starts
  <2>2. Closed(executing, S)
    BY <1>1, <1>2, <2>1 DEF Closed
  <2>3. m \in S
    BY <1>3, <1>5, <1>6, <2>1, <2>2 DEF EndsBefore
  <2>4. m # cursor
    BY <1>3 DEF Starts, Ends
  <2>5. QED
    BY <2>1, <2>3, <2>4
<1>8. b \in action_completed /\ b \in ActionIds
  BY <1>1, <1>3, <1>7, PlanFacts
<1>9. outcome[b] = "achieved"
  BY <1>8, BaseFacts DEF IInv, Failures
<1>10. QED
  BY <1>8, <1>9 DEF AchievedThere

LEMMA KeepOneAtATime ==
  ASSUME InOrderAtEachNode, Base, CallsInv, AchievedThere, OneAtATime, [SystemNext]_systemVars
  PROVE  OneAtATime'
<1>0. phase \in [Calls -> NodeP!Steps]
  BY BaseFacts
<1>1. CASE StartsDispatch
  <2>1. \A c \in Calls : c.run = run' => phase'[c] = "unsent"
    BY <1>1, BaseFacts DEF StartsDispatch, interfaceVars, CallsInv, SentCalls
  <2>2. QED
    BY <2>1 DEF OneAtATime
<1>2. ASSUME ~StartsDispatch, clean', NEW c \in Calls, NEW d \in Calls, c # d, c.name = d.name,
             c.run = run', d.run = run', phase'[c] # "unsent", phase'[d] # "unsent"
      PROVE  phase'[c] = "achieved" \/ phase'[d] = "achieved"
  <2>0. UNCHANGED <<run, executing, clean>>
    BY <1>2, SystemSteps, BaseFacts DEF SendsAction, SameDispatch, HearsReport
  <2>1. phase[c] # "unsent" /\ phase[d] # "unsent"
          => phase[c] = "achieved" \/ phase[d] = "achieved"
    BY <1>2, <2>0, Zenon DEF OneAtATime
  <2>2. CASE phase' = phase
    BY <1>2, <2>1, <2>2
  <2>3. CASE NodeP!NodeStep
    <3>1. phase[c] # "unsent" /\ phase[d] # "unsent"
      BY <1>2, <2>3, BaseFacts, NodeP!NodeStepSent
    <3>2. QED
      BY <2>1, <2>3, <3>1, AchievedStays
  <2>4. CASE SendsAction
    <3>1. PICK a \in ActionIds :
            /\ pc = "visit" /\ plan = executing /\ InLoop
            /\ cursor \in Starts(executing) /\ executing.action_id[cursor] = a
            /\ a \in Ids(executing) /\ Ready(cursor) /\ a \notin action_dispatched
            /\ CallOf(a) \in Calls /\ NodeP!Dispatch(CallOf(a))
      BY <2>4, Zenon DEF SendsAction
    <3>2. PICK e \in Calls : e = CallOf(a)
      BY <3>1
    <3>3. phase' = [phase EXCEPT ![e] = "sent"] /\ e.id = a /\ e.name = Names[executing][a]
      BY <3>1, <3>2, CallFields DEF NodeP!Dispatch
    <3>4. \A f \in Calls : f # e => phase'[f] = phase[f]
      BY <1>0, <3>3
    (* A call of the same node, sent before this one.                      *)
    <3>5. ASSUME NEW f \in Calls, f # e, f.run = run, f.name = e.name, phase[f] # "unsent"
          PROVE  phase'[f] = "achieved"
      <4>1. f = CallOf(f.id) /\ f.id \in Ids(executing)
        BY <3>5, Zenon DEF CallsInv, SentCalls
      <4>2. PICK b \in Ids(executing) : b = f.id
        BY <4>1
      <4>3. f.name = Names[executing][b] /\ b # a
        BY <3>2, <3>5, <4>1, <4>2, CallFields
      <4>4. execution[run][b] # "none" /\ b \in ActionIds
        BY <3>5, <4>2, CallFields DEF CallsInv, SentCalls, Progress
      <4>5. b \in action_dispatched
        BY <3>1, <4>4 DEF CallsInv, NotYetSent
      <4>6. phase[CallOf(b)] = "achieved"
        BY <1>2, <2>0, <3>1, <3>3, <3>5, <4>3, <4>5, NodeIsFree
      <4>7. QED
        BY <3>4, <3>5, <4>1, <4>2, <4>6
    <3>6. CASE c = e
      <4>1. phase[d] # "unsent"
        BY <1>2, <3>4, <3>6
      <4>2. QED
        BY <1>2, <2>0, <3>5, <3>6, <4>1
    <3>7. CASE d = e
      <4>1. phase[c] # "unsent"
        BY <1>2, <3>4, <3>7
      <4>2. QED
        BY <1>2, <2>0, <3>5, <3>7, <4>1
    <3>8. CASE c # e /\ d # e
      BY <1>2, <2>1, <3>4, <3>8
    <3>9. QED
      BY <3>6, <3>7, <3>8
  <2>5. NodeP!Cancel \/ HearsReport \/ UNCHANGED interfaceVars => phase' = phase
    BY Zenon DEF NodeP!Cancel, HearsReport, NodeP!Hear, interfaceVars
  <2>6. QED
    BY <1>2, <2>2, <2>3, <2>4, <2>5, SystemSteps, BaseFacts
<1>3. QED
  BY <1>1, <1>2 DEF OneAtATime

LEMMA KeepOwnResults ==
  ASSUME Base, CallsInv, OfThisRun, OneAtATime, OwnResults, [SystemNext]_systemVars
  PROVE  OwnResults'
<1>0. phase \in [Calls -> NodeP!Steps]
  BY BaseFacts
<1>1. CASE StartsDispatch
  <2>1. \A c \in Calls : c.run = run' => phase'[c] = "unsent"
    BY <1>1, BaseFacts DEF StartsDispatch, interfaceVars, CallsInv, SentCalls
  <2>2. QED
    BY <2>1 DEF OwnResults, NodeP!ResultOf
<1>2. ASSUME ~StartsDispatch, clean', NEW c \in Calls, c.run = run'
      PROVE  NodeP!ResultOf(c, c.name)'
  <2>0. UNCHANGED <<run, clean>>
    BY <1>2, SystemSteps, BaseFacts DEF SendsAction, SameDispatch, HearsReport
  <2>1. NodeP!ResultOf(c, c.name) /\ Held
    BY <1>2, <2>0, Zenon DEF OwnResults, OfThisRun
  <2>2. PICK i \in Interfaces : i = c.name /\ NameOf[c] = i
    BY CallFields
  <2>3. NodeP!ResultOf(c, i)
    BY <2>1, <2>2
  <2>4. SUFFICES NodeP!ResultOf(c, i)'
    BY <2>2
  <2>5. CASE UNCHANGED <<phase, result, action_success>>
    BY <2>3, <2>5 DEF NodeP!ResultOf
  <2>6. ASSUME NEW d \in Calls, NEW to \in {"sent", "begun"}, phase' = [phase EXCEPT ![d] = to],
               UNCHANGED <<result, action_success>>
        PROVE  NodeP!ResultOf(c, i)'
    <3>1. phase'[c] = phase[c] \/ phase'[c] \in {"sent", "begun"}
      BY <1>0, <2>6
    <3>2. QED
      BY <2>3, <2>6, <3>1 DEF NodeP!ResultOf
  <2>7. ASSUME NEW h \in Interfaces, NEW t \in Threads, NEW d \in Calls, NodeP!CallStep(h, t, d)
        PROVE  NodeP!ResultOf(c, i)'
    <3>1. CASE d = c
      BY <2>2, <2>3, <2>7, <3>1, BaseFacts, NodeP!OwnResult
    <3>2. CASE d # c
      <4>1. /\ phase'[c] = phase[c] /\ result'[c] = result[c]
            /\ h # i => action_success'[i] = action_success[i]
        BY <2>7, <3>2, BaseFacts, NodeP!OtherCallKept
      <4>2. CASE h # i
        BY <2>3, <4>1, <4>2 DEF NodeP!ResultOf
      <4>3. CASE h = i
        <5>1. NameOf[d] = h /\ phase[d] \in NodeP!Open
          BY <2>7, BaseFacts, NodeP!CallStepFacts
        <5>2. d.name = c.name
          BY <2>2, <4>3, <5>1, CallFields
        <5>3. PICK r : r = run /\ NodeP!Holding({f \in Calls : f.run = r})
          BY <2>1, Zenon DEF Held
        <5>4. PICK S \in SUBSET Calls : S = {f \in Calls : f.run = r}
          OBVIOUS
        <5>5. d \in S
          BY <2>7, <5>3, <5>4, BaseFacts, NodeP!AtHeld
        <5>6. d.run = run /\ c.run = run
          BY <1>2, <2>0, <5>3, <5>4, <5>5
        <5>7. phase[d] \notin {"unsent", "achieved"}
          BY <5>1 DEF NodeP!Open
        <5>8. phase[c] = "unsent" \/ phase[c] = "achieved"
          BY <1>2, <2>0, <3>2, <5>2, <5>6, <5>7 DEF OneAtATime
        <5>9. QED
          BY <2>3, <4>1, <5>8 DEF NodeP!ResultOf
      <4>4. QED
        BY <4>2, <4>3
    <3>3. QED
      BY <3>1, <3>2
  <2>8. CASE NodeP!NodeStep
    BY <2>5, <2>6, <2>7, <2>8, BaseFacts, NodeP!NodeStepKinds
  <2>9. CASE SendsAction
    <3>1. PICK a \in ActionIds : CallOf(a) \in Calls /\ NodeP!Dispatch(CallOf(a))
      BY <2>9, Zenon DEF SendsAction
    <3>2. PICK e \in Calls : e = CallOf(a)
      BY <3>1
    <3>3. phase' = [phase EXCEPT ![e] = "sent"] /\ UNCHANGED <<result, action_success>>
      BY <3>1, <3>2 DEF NodeP!Dispatch
    <3>4. QED
      BY <2>6, <3>3
  <2>10. NodeP!Cancel \/ HearsReport \/ UNCHANGED interfaceVars
           => UNCHANGED <<phase, result, action_success>>
    BY Zenon DEF NodeP!Cancel, HearsReport, NodeP!Hear, interfaceVars
  <2>11. QED
    BY <1>2, <2>5, <2>8, <2>9, <2>10, SystemSteps, BaseFacts
<1>3. QED
  BY <1>1, <1>2, Zenon DEF OwnResults

LEMMA GenuineStep ==
  ASSUME InOrderAtEachNode, Base, CallsInv, OrderInv, GenuineInv, [SystemNext]_systemVars
  PROVE  GenuineInv'
BY KeepOneAtATime, KeepOwnResults DEF OrderInv, GenuineInv

(* When the plans give each node one action at a time, a dispatch that     *)
(* began with all nodes at rest and returns true without having been       *)
(* cancelled has had every concreteCallback() of its plan return success.  *)
THEOREM SuccessGenuine ==
  ASSUME InOrderAtEachNode
  PROVE  SystemSpec => []SuccessIsGenuine
<1>1. Base /\ CallsInv /\ OrderInv /\ GenuineInv /\ [SystemNext]_systemVars => GenuineInv'
  BY GenuineStep
<1>2. ASSUME Base, OrderInv, GenuineInv PROVE SuccessIsGenuine
  <2> SUFFICES ASSUME pc = "reset1", verdict = "success", ~plan_cancelled, clean,
                      NEW a \in Ids(executing)
               PROVE  phase[CallOf(a)] = "achieved" /\ result[CallOf(a)] = "true"
    BY Zenon DEF SuccessIsGenuine
  <2>1. a \in ActionIds
    BY <1>2, PlanFacts, BaseFacts DEF TypeOK
  <2>2. outcome[a] = "achieved"
    BY <1>2, BaseFacts DEF IInv, Succeeded
  <2>3. CallOf(a) \in Calls /\ phase[CallOf(a)] = "achieved"
    BY <1>2, <2>1, <2>2 DEF OrderInv, AchievedThere
  <2>4. PICK c \in Calls : c = CallOf(a) /\ c.run = run
    BY <2>3, CallFields
  <2>5. NodeP!ResultOf(c, c.name)
    BY <1>2, <2>4, Zenon DEF GenuineInv, OwnResults
  <2>6. QED
    BY <2>3, <2>4, <2>5 DEF NodeP!ResultOf
<1>3. QED
  BY <1>1, <1>2, InitGenuine, OrderAlways, PTL DEF SystemSpec
=============================================================================
