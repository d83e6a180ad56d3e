# drone_arch: specifications of the mission execution

`drone_arch` flies missions of an autonomous aircraft. A planner (a customised
ROSPlan) turns a PDDL problem into a plan, a dispatcher hands the plan's actions
one by one to the nodes that fly them, and the nodes talk to the autopilot
through MAVROS. When something goes wrong, scripts cancel the dispatch, change
the knowledge base and plan again.

The files here are TLA+ modules of that machinery, the TLC configurations that
check them on small instances, and TLAPS proofs for every instance. Paths below
are relative to `src/drone_ws/`; `RP` stands for
`src/ROSPlan/src/rosplan/rosplan_planning_system` and `KB` for
`src/ROSPlan/src/rosplan/rosplan_knowledge_base`.

## 1. Inventory

| Component | State it keeps | Operations | Talks to |
|---|---|---|---|
| Esterel plan dispatcher (`RP/src/PlanDispatch/EsterelPlanDispatcher.cpp`, on `PlanDispatcher.cpp`) | the current plan, three maps from action id to flag, the active edges, four flags | services `dispatch_plan`, `cancel_dispatch`; action server; callbacks for plans and feedback; the loop of `dispatchPlan()`; `reset()` | asks the knowledge base for preconditions, publishes actions, hears feedback |
| Action interfaces (`RP/src/ActionInterface/RPActionInterface.cpp`), one node per PDDL action | `action_success`, `action_cancelled`, shared by four threads; the queue of dispatch messages | `dispatchCallback()` | applies start and end effects to the knowledge base, publishes feedback |
| Flight actions (`RPTutorial10.cpp`) | `mission` and `drone`, filled by autopilot topics | `concreteCallback()` for each PDDL action | MAVROS services and topics |
| Simple dispatcher (`SimplePlanDispatcher.cpp`) | the current plan, `current_action`, the maps | as above, one action after the other | as above |
| Knowledge base (`KB/src/KnowledgeBase.cpp`, `KnowledgeComparitor.cpp`, `PDDLKnowledgeBase.cpp`) | instances, facts, functions, goals, metric, timed literals | query, update, update array, getters, the timed-literal loop | everyone |
| Problem, planner and parser services (`ProblemInterface`, `PlannerInterface`, `POPFPlannerInterface`, `PlanParser`, `PDDLEsterelPlanParser`) | the last problem, the last plan text, the plan graph | one service each; each hears the topic of the one before | latched topics, the planner process, files |
| Scripts (`init.bash`, `replanning/*.bash`, `replanning/update.py`) | none | call the services in order; `update.py` cancels and edits the knowledge base | services |
| Mission planning (`src/decision_support/src/mission_planning.cpp`, `mission_goal_manager.cpp`) | the list of waypoints, the option chosen | loop at a fixed rate; callbacks | MAVROS |
| Risk mitigation (`src/multiple_fault_diagnostic/src/risk_mitigation.cpp`) | battery state | lands the aircraft below 20% | MAVROS |

Vendored planners, dependencies, the RQT tools, route planners, data files,
archived copies and the RDDL and probabilistic knowledge bases are not part of
the deployed mission (`ROSPlan_action_init_*.launch` do not start them).

What is hard about it, and what makes it right:

* **Dispatcher.** One thread, but every `ros::spinOnce()` may run any callback,
  and `reset()` spins too, so a whole dispatch can run inside the reset of the
  one before. `finished_execution` is at once "nothing left to do" and "a new
  plan may be taken". Cancellation and failure are noticed elsewhere than where
  actions are published. Right means: an action starts after those it depends
  on, success means every action was achieved, the plan is not replaced while it
  is walked, nothing starts after a stop, and a cancelled dispatch ends.
* **Action interfaces.** Four threads and a nested spin share two flags. A
  cancelled call may be revived by the next dispatch of the same action, a call
  may report the result of another, and reports carry only an action id. Right
  means: each call is enabled before it ends and ends at most once, a cancelled
  call stays silent, its effects and its report agree.
* **Flight actions.** They wait on flags that other callbacks write, never look
  at the cancellation, and start from what the flight before left. Right means: a
  flight that reports its end has flown its own route to the end, the battery is
  changed on the ground, no mission is flown with nobody to end it, and every call
  comes back.
* **Plan parser.** It replaces the total order of the plan's times by a graph in
  which much may overlap. Right means: the dispatcher can walk every graph it
  publishes, and however dispatcher and interfaces enact it, conditions hold when
  they are due and the world ends as the planner computed.
* **Knowledge base.** Updates are separate calls: interleaved effects, timed
  literals and the replanning script see each other's halves. Right means: it
  never says that the vehicle is at two places, or at one and on its way.
* **Pipeline and scripts.** Each service works on the last message it heard, and
  the scripts go on after a failure: an old problem or plan can be used again.
  Right means: a round in which nothing failed executes its own plan, a cancelled
  mission can be planned again, goals are counted as they are, and no region is
  sprayed twice.
* **Mission planning and risk mitigation.** Commands are repeated at every loop,
  and waypoints of successive missions pile up.

`PROJECT.json` lists each hazard at its line, with the property that covers it.

## 2. Plan

Done, in this order:

1. `EsterelPlan`, `PlanExecution`, `EsterelPlanDispatcher` and its proofs: the
   dispatcher, shown to implement the contract its caller relies on.
2. `ActionInterface`: the threads of an interface node, with proofs of what a
   call reports. `DispatchSystem`: the dispatcher with the interfaces and the
   queues between them, shown to implement `EsterelPlanDispatcher`, whose
   environment it validates.
3. `EsterelPlanParser` and `PlanEnactment`: the construction of the graph, which
   discharges the assumption `WellFormed` of module 1, and what the graph is for.
4. `FlightAction`: the actions on the vehicle, with the autopilot's topics and
   services (external), the battery monitor and the interrupt handler.
5. `KnowledgeBase` and `Replanning`: rounds of `update.py` and `0.bash` over the
   services and topics, with the dispatcher and the interfaces in reduced form.

Every safety property that a passing run checks is also proved, for any value of
the constants; the two liveness properties, `CancelHonoured` and `CallsReturn`,
are model-checked only, since fairness is out of the prover's reach.

Left: timed literals are in the parser's model but not enacted;
`SimplePlanDispatcher` against the same `PlanExecution` contract, should a launch
file come to use it.

Which module uses which:

```
PlanExecution <- (refinement) EsterelPlanDispatcher -> EsterelPlan <- EsterelPlanParser <- PlanEnactment
                                   ^ (refinement)
ActionInterface <- ActionInterfaceHistory
ActionInterface <- DispatchSystem -> EsterelPlanDispatcher
KnowledgeBase <- Replanning          FlightAction
```

and which proofs rest on which:

```
EsterelPlanDispatcherProofs <- DispatchSystemProofs -> ActionInterfaceLemmas <- ActionInterfaceProofs
ReplanningProofs <- ReplanningGoalsProofs       PlanEnactmentProofs       FlightActionProofs
```

## 3. The Esterel dispatcher

### Modules

* `EsterelPlan` - the plan graph that the parser publishes, and what is assumed of it (`WellFormed`):
  each action has one start and one end node joined by an edge, every start node
  has some edge into it, nothing precedes the plan start, no cycles.
  That `createGraph()` in `PDDLEsterelPlanParser.cpp` builds such graphs is
  `WellFormedCorrect` of `PlanEnactmentProofs`.
* `PlanExecution` - the contract of a dispatcher, for its caller: jobs, statuses
  of actions and verdicts, and nothing of edges, passes or flags.
* `EsterelPlanDispatcher` - the node.
* `EsterelPlanDispatcherProofs` - its theorems.
* `MCEsterelPlanDispatcher` - plans for TLC.

### State and steps

The members of the class are variables under their own names. The three maps
`action_dispatched`, `action_received` and `action_completed` are sets of ids:
the code reads a missing entry as false. `edge_active` is a set of edges.
`pc`, `cursor`, `dangling` and `stack` are the thread: where it is, which node
the current loop over nodes has reached, whether `planCallback()` replaced the
vector under that loop, and the reset loops that a nested dispatch interrupted.
`execution` is what the dispatcher can know of the interfaces: for each dispatch
and action, whether it was sent, enabled, or ended. `executing`, `fired` and
`outcome` are history: only `VisitPlanStart` reads one (the start node's own flag).

| Steps | Code |
|---|---|
| `PlanCallback`, `CancelDispatch`, `ActionEnabled`, `ActionAchieved`, `ActionFailed`, `DispatchPlan` | the callbacks, taken only where the thread spins |
| `LoopDone`, `CancelBreak`, `EnterPass` | the head of the loop in `dispatchPlan()` |
| `VisitPlanStart` ... `DispatchAction` | one node of a pass, by its type and what is found: one step each, since each asks the knowledge base or the clock |
| `PassDone`, `SpinReturn` | the spin after a pass and what follows it |
| `PublishCancel` ... `SecondResetDone` | the two resets, one inside `dispatchPlan()` and one in the service |

What the code takes from elsewhere is chosen freely: the answer of
`checkPreconditions()`, the clock against an edge's bounds (only when
`timeout_actions` is set), whether and when an interface reports, and when plans,
requests and cancellations come. When `reset()` runs on an invalid iterator the
model takes every outcome: the loop goes on anywhere, ends, or the node dies.

### Runs

| Run | Shows |
|---|---|
| `dispatch` | `TypeOK`; `PrecedenceRespected`; `SuccessIsComplete`; `PlanStableInLoop`; `NoDispatchAfterStop`; `CancelHonoured`; `ImplementsContract` (refinement of `PlanExecution`) |
| `true_iff` | violation: `TrueIffAllSucceeded` |
| `cancels_executing` | violation: `CancelsOnlyExecuting` |

Bounds: `MaxRuns = 2` dispatches (nested or in sequence), and the plans empty,
one action, and two actions in a chain. A second dispatch is needed for state
left behind and for the nested reset; two actions for a precedence; the plans
differ in size so that a replaced plan is seen. A plan of two overlapping
actions (`Overlap`) passes too, with 2.8 million states, too slow to
keep as a run; the theorems cover it. The runs do not check for deadlock: with
the bound on dispatches reached, or the node dead, the model may stop.

Fairness: `WF(Loop \/ Reset)`, the thread itself. `ros::spinOnce()` returns when
it has served what is queued, and a service call to the knowledge base returns.
Nothing is assumed of the callbacks: plans, requests, cancellations and feedback
may never come, which is what `CancelHonoured` must withstand.

### Findings

* `PlanDispatcher.cpp:80` says the service answers "True iff every action was
  dispatched and returned success". A cancelled dispatch breaks out of the loop
  and reaches `return true` (`EsterelPlanDispatcher.cpp:302`).
* `EsterelPlanDispatcher.cpp:41` says `reset()` preempts "currently executing"
  nodes. It runs twice, and the first run clears `action_completed` but not
  `action_dispatched`, so the second sends `cancel_action` for every action that
  was dispatched, finished ones included.

### Proofs

For any finite set of plans that are `WellFormed`, any set of ids and any number
of dispatches (`PlansAssumption`), `EsterelPlanDispatcherProofs` proves:

* `TypeCorrect`: `TypeOK`.
* `Invariance`: the inductive invariant `IInv`.
* `PrecedenceCorrect`, `SuccessCorrect`, `PlanStable`: the three safety
  invariants of the run.
* `NoDispatchAfterStopCorrect`: the action property.
* `Implementation`: every behaviour of the dispatcher is one of `PlanExecution`.

The argument. `PrecedenceRespected` alone is not inductive: to know that the
predecessors of an action have completed when its start node is ready, one must
know what an active edge means. `IInv` says it:

* an edge is active exactly if its source has fired and its sink has not, and the
  nodes that fired are closed under predecessors;
* a start node has fired exactly if its action was dispatched, and an end node
  fired only if its action was completed;
* in a pass that has found nothing to do yet, every node behind the cursor has
  fired with its action completed, or is not ready. At the end of such a pass the
  nodes that did not fire would have no minimal element, which acyclicity
  forbids, so there are none: that is `SuccessIsComplete`;
* `dispatching` holds inside the loop and the first reset, so no second dispatch
  runs inside them, and `finished_execution` holds wherever a plan can be taken;
* a failure is on record only until the spin that reported it returns, so no pass
  that publishes can follow it.

Model-checked only: `CancelHonoured`, since liveness under fairness is out of
the prover's reach.

## 4. The action interfaces and the system

### Modules

* `ActionInterface` - the nodes: `dispatchCallback()` on the threads of an
  `AsyncSpinner`, the queue of messages of each node, and its reports.
* `ActionInterfaceHistory` - the same with the history that its properties need:
  which calls shared their node, which were cancelled and when.
* `ActionInterfaceLemmas` - what each step of a node does, and the invariant of
  its queues and threads; nothing of the history.
* `ActionInterfaceProofs` - the theorems about `ActionInterfaceHistory`.
* `DispatchSystem` - `EsterelPlanDispatcher` and `ActionInterface` together.
* `DispatchSystemProofs` - the system implements the dispatcher and the nodes, and
  its own properties.
* `MCActionInterface`, `MCDispatchSystem` - instances for TLC.

### State and steps

A *call* is one message of action_dispatch: in the system, an action of one
dispatch. `phase` says how far its callback has got. `spinner` holds the
callbacks each thread is in: `ros::spinOnce()` at `RPActionInterface.cpp:226` may
run further callbacks inside the one that calls it, and only the innermost moves.
`action_cancelled` and `action_success` are the members of the class, one of each
for a node, without a lock and uninitialised at the start. `feedback` holds the
reports that the dispatcher has not heard. `result` is history.

| Steps | Code (`RPActionInterface.cpp`) |
|---|---|
| `Dispatch`, `Cancel` | the dispatcher publishes; `Publish` is its queue of one message, from which a second one may push out the first (`PlanDispatcher.cpp:42`) |
| `BeginCancel`, `SetCancelled`; `SkipCall`; `BeginCall` | a thread takes a message and looks at its name (141-149) |
| `ClearCancelled`, `Reject`, `Enable`, `StartEffects` | up to `concreteCallback()` (151-222) |
| `Return` | `action_success = concreteCallback(msg)` (225) |
| `SeeCancelled`, `StopCancelled`, `GoOn`, `Decide` | the spin and the two flags (226-233) |
| `EndEffects`, `ReportAchieved`, `ReportFailed` | 233-292 |

A step accesses the shared state once. What `concreteCallback()` returns is free,
and it may never return. The effects are steps without content here (`Replanning`
writes them); a failed update only writes a log line.

In `DispatchSystem`, `DispatchAction` of the dispatcher and `Dispatch` of the nodes
are one step, and so are `PublishCancel` and `Cancel`, and a report heard and the
callback it runs. A report of the code holds an action id; the model keeps the
call beside it, which the dispatcher's callback does not look at, to say in
`execution` which dispatch the report belongs to. `clean` is history: the latest
dispatch began when no message was under way and no callback running.

### Runs

| Run | Shows |
|---|---|
| `interface` | `InterfaceTypeOK`; `TruthfulAlone` and `QuietWhenCut`: what a call owes if it has its node for itself |
| `interface_stops` | violation: `StoppedWasRecalled` |
| `system_chain` | `PerformedInOrder` |
| `system_twice` | `EnvironmentAsAssumed`: the dispatcher's own module assumed nothing that the nodes do not keep; `SuccessIsGenuine` |
| `system_stale` | violation: `CompletedInThisDispatch` |

Two calls of one node at a time are not promised anything, since they share the
flags; `TruthfulAlone` and `QuietWhenCut` leave them out by name (`overlapped`),
and the conditions are real: dropping `overlapped` makes TLC refute both.

Bounds. `MaxQueue` is how many messages wait at a node, 2 or 3 for the 1000 of
the subscription: it limits how many messages are published ahead of a
node, and 2 is enough for a cancellation and the call after it. Threads: three in
`interface`, so that two calls and a cancellation meet, one or two in the system;
the code has four. `system_chain` has two nodes and one dispatch; `system_twice`
one action and two dispatches, and the order of events of the scripts
(`Scripted`): the plan is published once, before the first request, and
a cancellation is requested only while a dispatch runs. In the system
`timeout_actions` is off, as in the launch files.

### Findings

* `EsterelPlanDispatcher.cpp:340` says "check action is part of current plan". The code
  below it looks up the action id in `action_received`, and ids start at 0 in
  every plan. After a cancelled dispatch, the report of its call, still running,
  completes the action of the new dispatch as soon as that is enabled.
* `RPActionInterface.cpp:229` says "an old action that was cancelled is stopping
  now". With two threads, a `cancel_action` and the next call can write
  `action_cancelled` in the other order. The new call then stops without a
  report, and the dispatcher waits for it until it is cancelled.

### Proofs

`ActionInterfaceProofs` proves, for any number of nodes, calls, threads and
waiting messages (`InterfaceAssumption`): `InterfaceTypeCorrect`,
`TruthfulAloneCorrect` and `QuietWhenCutCorrect`, from the inductive invariant
`IInv`. Its heart is who can write what a call reads. A thread runs only calls of
its node's action (`OwnCalls`), and two calls open on one node are both in
`overlapped` (`Sharing`); so between its return and its look at `action_success`
nobody but the call itself writes that flag (`Results`), and once it is cut short
the flag `action_cancelled` stays up (`Cuts`), for only a call that begins takes
it down. That needs to know that a call begins once: it waits in its node's queue
at one place, and only before it begins (`WaitsOnce`).

What the two sections of the system share (types, `OwnCalls`, `WaitsOnce`, and the
lemmas on what a step of a thread may change) is in `ActionInterfaceLemmas`, which
`DispatchSystemProofs` instantiates a second time with the system's constants.

`DispatchSystemProofs` proves that each behaviour of the system is one of
`EsterelPlanDispatcher` (`SystemImplementsDispatcher`), so that what was proved of
the dispatcher holds in the system (`SystemKeepsPrecedence`,
`SystemImplementsContract`), and one of `ActionInterface`
(`SystemImplementsInterfaces`): the dispatcher sends a call only once, so what was
proved of the nodes holds too. The system's own properties need both sides, in
layers, each of which uses those before it:

* `Base`: the two invariants, and that a loop belongs to a dispatch that was counted.
* `CallsInv`: the calls that left the dispatcher are the actions it published, of
  this dispatch and those before.
* `ReportsInv`: what `execution` says of a call, the reports of the node that are not
  heard yet and the call's phase agree, in this order: a report is heard at
  most once and after it was sent. This gives `EnvironmentCorrect`: every report
  comes when the dispatcher's own module lets it come.
* `OrderInv`: a dispatch that began with nothing under way hears reports of its
  own calls only, so an action it counts as completed was achieved at a node; with
  the precedence of the dispatcher that is `PerformedInOrderCorrect`.
* `GenuineInv`: at most one call of a node is under way, so `action_success` is the
  result of the call that reads it: `SuccessGenuine`.

`SuccessGenuine` has a hypothesis, `InOrderAtEachNode`: in each plan, of two actions
of one node one ends before the other starts. It is needed: with a plan whose
two actions overlap (`Overlap`), both at one node with two threads, TLC finds a
dispatch that succeeds although one of the actions failed, because the calls
share `action_success`. In the drone's launch files a node serves one PDDL action, so
the hypothesis is about the occurrences of one action in a plan. For those with a
place (flights, spraying, pictures, recharging) it is what a graph with all
conditions and effects gives: each needs `at` its place, which only a flight gives
when it ends and only a flight deletes when it starts, so the edges of support and
of interference lead from one occurrence to the next. The actions without
parameters (`need_battery`, `need_input`, `has_all_goals_achived`) get no such edges
(section 5) and need not satisfy it; their callbacks only sleep and return true
(`RPTutorial10.cpp`), so for them a shared result can hide no failure, but the
theorem does not speak of a plan in which they occur twice without an order.
`MCDispatchSystem` evaluates it on the plans of the
runs (`NodesInOrder`).

## 5. The parser and its graphs

### Modules

* `EsterelPlanParser` - `PDDLEsterelPlanParser.cpp`: `preparePlan()` and
  `createGraph()`, the services `parse_plan` and `parse_plan_from_file` and what
  the node keeps between two plans.
* `PlanEnactment` - a published graph enacted on a world of atoms: the dispatcher
  passes its nodes, the interface nodes write the effects.
* `PlanEnactmentProofs` - the theorems about both.
* `MCPlanEnactment` - operators and plans of the journal domain.

### State and steps

A line of planner output is an operator, a start and a duration; conditions and
effects are sets of literals. The node is single threaded, so each service call is
one step (`ParsePlan`, `ParsePlanFromFile`, `PlannerCallback`). `Graph` is what
`createGraph()` builds, written as what an edge means rather than as the loops
that find it: `Before` is the order of the multimap of times, `Supports`
`addConditionEdge()`, `Interferes` `addInterferenceEdges()`, `TilBound` the upper
bounds from timed literals.

Three details of the code are kept on purpose, since they decide what the graph
is. Start and duration are single-precision numbers whose sum may fall on either
side of a tie (`rounding`). The details of an operator are asked for only for a
line with parameters, the call may fail, and `reset()` leaves the details that an
earlier plan stored under the same id (`Processed`). Timed literals may take the
place of a supporter.

`PlanEnactment` publishes a plan for a world (`Begin`) and then keeps two sets of
nodes apart. `fired` are those the dispatcher has passed, whose edges out are
active; `Fire` passes a node whose edges in are all active, an end node only when
the action is complete (`EsterelPlanDispatcher.cpp` 154-188, 230-281). `happened`
are those whose effects are in the world. The interface node knows no edges: start
effects are due from publication on, and end effects as soon as the start effects
are written, whenever the implementation returns (`Due`, `Happen`,
`RPActionInterface.cpp` 176-281). So start effects come late and end effects early,
whatever edges lead into the end node. `EffectsOf` are the effects the operator
really has, whether or not the parser knew them. The dispatcher's own question to
the knowledge base before a start is no guard here: that it would be answered with
yes is part of `ConditionsHold`.

It follows that an edge of the graph need not order anything in the world.
`Enforced` says of a plan that every edge does: what the dispatcher has passed before
it publishes the sink's action contains the end of the source's action (or the edge
is the one from an action's start to its end). It is a property of the plan and not
of the code, so it is a hypothesis.

| Plan | Enforced | Why |
|---|---|---|
| `Departure`, `Tour`: a region is chosen while another action runs, then flown to, as in the deployed plan | yes | all edges that matter lead from ends to starts |
| `Return`: `has_all_goals_achived`, then `go_to_base` | no | `can-go-to-base` is a start effect, and only the publication is waited for; the dispatcher asks again before it starts `go_to_base` |
| `Visit`: the flight's end is rounded past the picture's start | no | the edges of the flight's end are lost |
| flight to a region, picture there, the same region chosen anew during the picture | no | `set_next_region` adds `to` at its end, flight and picture delete it at theirs: the edges between these ends order nothing |

The last is a valid plan for which the code gives no guarantee: the three writes of
`to` come in any order. It would take a region that is both sprayed and
photographed.

### Runs

| Run | Shows |
|---|---|
| `parser` | `EnactmentTypeOK`; `PublishedWellFormed`: each published graph is what the dispatcher's module assumes; `ConditionsHold`: with enforced edges conditions hold when they are due, however late and early the effects; `SameOutcome`: the world ends as computed |
| `parser_support` | violation: `SupportEdges` |

Bounds: four plans of two or three lines over a base and two regions, among them two
that overlap with the ties between an end and the next start that the deployed plan
has, and one that rounding takes out of order; two plans in sequence, so that stale
details are seen; two worlds, so that each of the two enforced plans is valid in one.
Conditions are promised only for a plan that is valid in the order of times
the parser sees (`ValidPlan`), and both `ConditionsHold` and `SameOutcome` only if its
edges are enforced, the parser had the details of the plan's own operators and no
timed literals were fetched. The condition of `set_next_region`, one over all
regions, reaches neither parser nor dispatcher, so it is in no schema. Deadlock is not checked: after the last plan the model stops.

### Finding

`PDDLEsterelPlanParser.cpp:306` says "for each precondition add possible causal
support edge with latest preceding node". `preparePlan()` asks for details only for
lines with parameters (113), so `has_all_goals_achived`, `need_battery` and
`need_input` of the journal domain have none: `go_to_base` gets no edge from the action
that makes `can-go-to-base` true.

### Proofs

For any atoms, operators, outputs and timed literals (with the five named
assumptions), `PlanEnactmentProofs` proves `EnactmentTypeCorrect`,
`WellFormedCorrect`, `SameOutcomeCorrect` and `ConditionsHoldCorrect`.

The argument. `Before` is a strict total order of the nodes and every edge goes
forward in it, so there is no cycle. The invariant `IInv` says that the nodes passed
are closed under edges and that effects come after publication and before the end
is passed (`Passed`), and that with enforced edges each literal has the value the
latest node that touches it, among those that took effect, gave it (`WorldDecided`).
The step from the one to the other is `Written`: the nodes passed, with the start of
the node at hand, are a prefix of the graph, so `Enforced` says that the source of an
edge has been passed at its end and, by `Passed`, is in the world. Two nodes of which
one adds and the other deletes an atom are joined by an interference edge, so they take
effect in the order of times: at the end of the plan that is `SameOutcome`. For a
condition, the latest supporter before the node has an edge to it, and a threat
has an edge to or from the supporter and the consumer; what is left cannot come
between them, although only pairs were looked at.

## 6. The flight actions

### Modules

* `FlightAction` - `concreteCallback()` of `RPTutorial10.cpp` on the threads of the
  action nodes, the autopilot and who else commands it.
* `FlightActionProofs` - its theorems.
* `MCFlightAction` - instances for TLC.

### State and steps

The actions fall in three kinds: `go_to`, which flies a route; `region`, which
flies the route of a region (pulverise, take pictures); `ground`, which lands and
then works (change the battery, refill, clean). `Ended` and `WPqtd` are the
members of `Mission`, one of each for a node; `view` is what the node last heard of
arming or mode and of landing; `waypoints` and `reached` are the subscriptions'
queues of one message; `route` is the file that every node writes and reads. The
`vehicle` is external, modelled from what the code asks of it: it refuses to arm
while it is told to land and to fly a mission it does not have, flies the waypoints
one by one, and disarms on the ground.

| Steps | Code (`RPTutorial10.cpp`) |
|---|---|
| `CalcRoute`; `IsFlying`, `SetLoiter`, `Arm`, `Takeoff`; `SendWPFile`; `SetAuto`; `MissionEnded`; `Hold` | a flight, command by command, with the loop around the take-off |
| `Land`, `Landed`, `Work` | a ground action |
| `HearState`, `HearExtendedState`, `HearWaypoints`, `HearReached` | the topic callbacks |
| `Begin`, `Cancel` | the dispatcher begins a call when none runs (plans of the drone are sequences) and may forget one, which goes on |
| `Crash`, `MySigintHandler`, `Shutdown` | a malformed route line or a missing parameter, an interrupt, the end of a process |
| `BatteryLow`, `SetLoiterMode` | `risk_mitigation.cpp`, and the command `update.py` gives after a cancellation |
| `Fly`, `Touchdown` | the autopilot |

Each command may fail, which is logged and no more. `calm`, `failed` and
`hindered` are history. Left out: actions that only sleep, names that match no
branch (the function then ends without a value), and RPTutorial10_atomic, a copy that
is not launched. The sleep of 20 seconds before `set_auto()` is taken to be long
enough for the node to hear of the route just uploaded; without it a flight could
end before it began.

### Run

`flight`: `FlightTypeOK`; `FlownToTheEnd`, `GroundedWork` and `MissionAttended`; and
the liveness property `CallsReturn`. Three set-ups: two flights of one node with
unlike routes, where messages of one can end the other; a flight at a region and a
ground action; two flights of two nodes that begin in the air. One command fails,
one process ends, or one landing or stop comes from outside (`upsets`) in the first
two. Deadlock is not checked: when its calls are made the model stops.

Fairness: `WF(Hear(n))`, the spinner thread of a node; `WF(CallStep(c))`, the
thread of a call; `WF(Fly \/ Touchdown)`, an autopilot that does as it is told.
Nothing is assumed of cancellations, failures, interrupts and landings from outside.
`CallsReturn` excludes what is `hindered`: a call that did not begin at rest, or
whose upload, start or landing failed, or that was landed or stopped from outside.
Those do wait for ever, since the code has no timeout. A failure to arm or
to take off hinders nothing: the loop tries again.

### Proofs

For any nodes, calls, routes and numbers of upsets (`FlightAssumption`):
`FlightTypeCorrect`, `MissionAttendedCorrect`, `FlownToTheEndCorrect` and
`GroundedWorkCorrect`. `FlightInv` says that a mission is flown only while a call
of a live node waits for it: the call that starts a mission is the one that puts it
on hold, and a start between the interrupt handler's command and the end of its
process is counted as `failed`. `CalmInv` follows a
call that began at rest and alone: up to its upload nothing of an older mission is
on its way (`Fresh`); from then on the count it waits for is its own (`Counted`) and
what is reached is a waypoint of its own route (`Flown`). Model-checked only:
`CallsReturn`, since liveness is out of the prover's reach.

## 7. Rounds of replanning

### Modules

* `KnowledgeBase` - facts, goals and `total-goals`, and the updates and queries of
  `KnowledgeBase.cpp` as operators: one thread serves them, so each is one step.
* `Replanning` - `create_pddl_global.py`, `update.py` and the scripts that call
  the services, `ProblemInterface`, `PlannerInterface` and `PlanParser` with their
  topics, the dispatcher and the interfaces.
* `ReplanningProofs` - types, fresh plans, where the vehicle is.
* `ReplanningGoalsProofs` - goals: their number, plans for them, spraying once.
* `MCReplanning` - missions for TLC.

### State and steps

`script` is where the script of the round is and what `update.py` has read: its
queries and updates are single calls, and everything else goes on between them.
Only the calls at its end, which add the goals, the count and the place one by one
(`update.py:390-427`), are one step: nothing else writes these goals or the
count, and what is written between them does not change what they write.
`problem_instance`, `planner_output` and `complete_plan` are messages on their way;
`problem`, `output` and the dispatcher's plan are what the services have kept. A
message carries the round that made it, which the code does not look at.

| Steps | Code |
|---|---|
| `CreatePddlGlobal` | the first problem (`create_pddl_global.py`) |
| `WaitToStop`, `CancelDispatch`, `LookForMove`, `StopMove`, `ReadPlace`, `ReadGoals`, `Prune`, `WriteUpdate` | `update.py`, with and without `on_move` |
| `ProblemServer`, `PlanningServer`, `ParsePlan`, `DispatchPlan`, `NextRound` | the service calls of `0.bash`, each made whatever the one before answered |
| `ProblemCallback`, `PlannerCallback`, `PlanCallback` | the topics |
| `SendAction`, `Leave`, `Hear`, `Return`, `Fails` | the dispatcher and the interfaces |

The dispatcher and the interfaces are reduced: the drone's plans are sequences, so
the dispatcher is a position in one, and a call at an interface is heard, writes
its start effects, and returns or fails. What a cancellation and a stale id can do
is kept: `cancel_action` goes to whoever has a call, a call that began is not
stopped, `Return` writes nothing if it was cancelled, and a report counts by its
id. The windows inside an interface node are in `ActionInterface`.

The domain is reduced to `at`, `at-move`, `can-go`, what is sprayed, and `to`, the
region that is chosen. `set_next_region` gives `to` at its end and asks that no
region has it (the domain says so with `nto`, its complement); `go_to` asks for it
and takes it at its end. A flight that is cut leaves it, and `update.py` does not
repair it. The dispatcher does not ask for either condition: `checkPreconditions`
queries neither a `forall` nor an `over all`. It publishes a `set_next_region` as
soon as the plan begins, since in the graph nothing is before it, so several
regions are chosen at a time and may all be left when the first flight is cut. Its
interface matches no branch of `concreteCallback()` and reports anything: it
returns, or fails within `Faults`.

The planner is its solutions (`Solutions`): each open goal is visited and sprayed
once, with a stop at the base before the first flight and possibly before others,
and the plan ends at the base. The stop before the first is not a choice: the
domain lets `go_to` start only when input is there, and no interface writes
numbers, so no problem ever has any. The action that lets the vehicle home counts
against `total-goals`; when that is too high, something is sprayed again. A region
that is still chosen is flown to as it is; another can be chosen only behind
flights to all of those (`Allowed`). Where no order of the visits does that, the
plan flies to some of them first and sprays nothing there (`Detours`). These are a
selection of the planner's plans: a planner may also make a detour it does not need, or
make it between two visits. `PlansAreExecutable` in `MCReplanning` checks
the plans of every small problem against the domain, action by action: what is chosen
when, where the vehicle is, and that each goal is sprayed in the end.

What went wrong is recorded in `history` (see `Mishaps`), and the properties name
what they exclude. Each exclusion is needed: without it TLC refutes the property.

### Run

`replanning`: `ReplanTypeOK`; `Located`, `CountsOpenGoals` and `Replannable` about the
knowledge base a problem is made from; `FreshPlan` and `SprayedOnce` about what is
executed. Bounds: two regions; missions of two rounds with and without `on_move`,
one whose second round repeats a region, and one of three rounds; one
fault (`Faults`): a service that does not do its work, an action that fails, or a
message that arrives after the next service was called. Two rounds are needed for
stale messages and late effects, the third for what a second cancellation leaves
behind: there the plan of the first round is executed again after a fault, and cut
on its flight to a region that is sprayed already, so that the region of the third
round needs a detour. (Without detours TLC refutes `Replannable` in that
mission.) Deadlock is not checked: a script ends, and with `on_move` off it
may wait for ever for the end of a move that was cut.

No fairness is stated. The scripts promise no end: an action that never returns
keeps a dispatch until a cancellation.

### Proofs

For any regions, missions, numbers of rounds and faults (`ReplanAssumption`):

* `ReplanTypeCorrect`: `ReplanTypeOK`. The dispatcher stands within its plan
  because one that executes nothing stands at the beginning (`IdleAtStart`).
* `FreshPlanCorrect`: `FreshPlan`. As long as nothing failed in the round, its work
  is at one place of the chain of topics and services (`InChain`), and a
  dispatch of the round exists only once the script waits for it.
* `LocatedCorrect`: `Located`. Until an effect comes late, whoever writes where the
  vehicle is does so alone. While `update.py` works, every dispatch is over or
  cancelled (`NoneAhead`), so what it read still holds when it writes
  (`ScriptAlone`). Otherwise at most one call is expected, the one sent last:
  unheard, the vehicle is where its action starts (`OneUnheard`; a choice of a
  region starts anywhere); heard, it is
  nowhere but on its way (`OneHeard`).

* `CountsOpenGoalsCorrect`: `CountsOpenGoals`. After each call of `update.py`, what it
  has counted is the number of goals in the knowledge base, and the goals it went
  through are not sprayed (`CountInv`). Nothing is sprayed while it works unless an
  effect comes late (`InterfaceWrites`). The new regions add to the count what they
  add to the goals, because they are not known: whatever is a goal, is
  sprayed, or is in a problem, a plan or a call under way belongs to a
  mission that was begun (`PastInvariance`), and missions repeat no region.
* `ReplannableCorrect`: `Replannable`. A spraying takes `can-go` and gives it back.
  Unless something but a choice or a flight was cut, a call of it is under way as long as `can-go`
  is missing, it is the call the dispatcher waits for, and it is neither
  cancelled nor about to be (`FlightInv`, `NotCut`). When a problem is made no
  call is waited for, so `can-go` is there; and `Ats` is not empty, since
  `update.py` has just written a place. Such a problem has a plan
  (`SolutionExists`): the visits in any order, if there is one that is allowed,
  else behind a detour to every region that is still chosen (`DetourAllows`).
* `SprayedOnceCorrect`: `SprayedOnce`. What the services hold of a round was made from
  the knowledge base of that round (`RoundsInv`), which does not change until the
  dispatch begins; so the plan sprays each open goal at most once and nothing
  that is sprayed, and what is left of a dispatch always does (`SprayInv`). The call
  that returns is the action the dispatch stands at, as in `LocatedCorrect`.

A plan is flattened from a sequence of actions for each leg, and the community
modules define that by recursion. What it sprays is proved by induction over the
legs all the same (`PlanSprays`): the library's induction theorems take an
operator, but `SetInduction` states induction for a set of numbers and follows
from the least element that `WFMin` gives, and `FlattenInduction` applies it to
`FlattenSeq`. That the plans are those of the planner is not proved: `Solutions` is
a model of it.

TLC checked `PastInv`, `CountInv`, `FlightInv`, `RoundsInv` and `SprayInv` on the
missions of the run before they were proved.

## 8. Not modelled

* The dispatcher: `printPlan()` (a drawing), the pause in the loop (nothing sets
  `dispatch_paused`), the goal status of the action server. That
  `checkPreconditions()` has no return value on one path, and counts a failed
  query as satisfied on another, is in the hazards. The reports' own queues (ten
  messages and more) are taken to lose nothing, and messages latched for late
  subscribers are left out: the launch files start every node before a plan and
  restart none.
* `SimplePlanDispatcher` and `OnlinePlanDispatcher`: no launch file of the drone starts them.
* Problem, planner and parser services: the text of files and commands, the
  services with parameters and the action server, which no script calls. A planner killed
  between two lines of its output leaves the plan of before to be published; the
  planner of the model publishes what it found or nothing.
* Knowledge base: instances, metric, inequalities, negative facts, the loop over
  timed literals and the other back ends take no part in a mission once it is
  set up. `clearKnowledge()` (which has no return statement) is called once, by
  `create_pddl_global.py` before anything else runs, and is part of that step. An
  update of effects that fails is a log line, in the hazards.
* Numbers of the domain (battery, input, distances) beyond what they do to the
  shape of plans; taking pictures, which is counted as spraying is.
* Mission planning (`decision_support`): the architecture before the ROSPlan one. It
  is not started with the action interfaces, and its fixed-rate loops command the
  same autopilot that section 6 models.
* Everything vendored: planners, VAL, route planners, libraries and their data. They
  are most of the repository's lines and no part of the program's own logic.
