----------------------- MODULE EsterelPlanDispatcher -----------------------
(***************************************************************************)
(* The Esterel plan dispatcher of rosplan_planning_system: the node that   *)
(* walks the plan graph, publishes each action when the edges into its     *)
(* start node are active and its preconditions hold, and follows the       *)
(* feedback of the action interfaces.                                      *)
(*                                                                         *)
(* The node has one thread.  Its callbacks (plan, feedback, cancel_dispatch*)
(* and dispatch_plan) run only inside ros::spin() and ros::spinOnce(), so  *)
(* a callback is one step, taken where the program counter is at a spin.   *)
(* Between two spins other nodes move on: each node of the plan is visited *)
(* in a step of its own, because the visit asks the knowledge base.        *)
(*                                                                         *)
(* dispatchPlan() resets the dispatcher before it returns, and the service *)
(* that called it resets it again.  Both resets spin after every           *)
(* cancel_action they publish, and the second one runs with `dispatching`  *)
(* false: a dispatch_plan request served there runs a whole dispatch       *)
(* inside the reset, which `stack` remembers.                              *)
(***************************************************************************)
EXTENDS EsterelPlan, Sequences

CONSTANTS
  Plans,      \* the plans that may arrive on the plan topic
  MaxRuns,    \* bound: how many dispatch_plan requests are accepted
  NoJob       \* for the abstract specification: nothing is being dispatched

ASSUME PlansAssumption ==
  /\ EmptyPlan \in Plans
  /\ \A p \in Plans : WellFormed(p)
  /\ NoJob \notin Plans
  /\ MaxRuns \in Nat

VARIABLES
  (* members of the class *)
  plan,               \* current_plan
  dispatching,        \* a dispatch service or action is running
  finished_execution, \* also: a new plan may be accepted
  replan_requested,
  plan_cancelled,
  action_dispatched,  \* the ids whose flag is set; the code's three maps
  action_received,    \*   from id to bool read as false where they have
  action_completed,   \*   no entry
  edge_active,        \* the edges of the plan that are active
  timeout_actions,    \* a parameter, read once: are time bounds enforced?
  (* the thread *)
  pc,                 \* where it is
  cursor,             \* the node that the innermost loop over nodes is at
  dangling,           \* that loop's iterator was invalidated
  stack,              \* the reset loops interrupted by a nested dispatch
  (* the action interfaces, as far as the dispatcher can tell *)
  execution,          \* for each dispatch and action, how far it got
  run,                \* number of the latest dispatch
  (* history *)
  executing,          \* the plan that the latest dispatch started with
  fired,              \* its nodes that passed their activation on
  outcome,            \* the feedback that completed each action
  verdict             \* what dispatchPlan() last returned

flags  == <<dispatching, finished_execution, replan_requested, plan_cancelled>>
maps   == <<action_dispatched, action_received, action_completed>>
thread == <<pc, cursor, dangling, stack>>
world  == <<execution, run>>
past   == <<executing, fired, outcome, verdict>>
vars   == <<plan, flags, maps, edge_active, timeout_actions, thread, world, past>>

PCs    == {"idle", "head", "visit", "spin", "reset1", "reset1_spin",
           "reset2", "reset2_spin", "crashed"}
InLoop   == pc \in {"head", "visit", "spin"}
Spinning == pc \in {"idle", "spin", "reset1_spin", "reset2_spin"}

Phases == {"none", "sent", "enabled", "over"}
NoOutcome == [a \in ActionIds |-> "none"]

Init ==
  /\ plan = EmptyPlan
  /\ dispatching = FALSE
  /\ finished_execution = TRUE
  /\ replan_requested = FALSE
  /\ plan_cancelled = FALSE
  /\ action_dispatched = {}
  /\ action_received = {}
  /\ action_completed = {}
  /\ edge_active = {}
  /\ timeout_actions \in BOOLEAN
  /\ pc = "idle"
  /\ cursor = 0
  /\ dangling = FALSE
  /\ stack = <<>>
  /\ execution = [r \in 1 .. MaxRuns |-> [a \in ActionIds |-> "none"]]
  /\ run = 0
  /\ executing = EmptyPlan
  /\ fired = {}
  /\ outcome = NoOutcome
  /\ verdict = "none"

-----------------------------------------------------------------------------
(* Callbacks.  Each is served by whatever spin the thread is at.           *)
(*                                                                         *)
(* A definition marked "Variant" is the one after it with a plausible      *)
(* mistake in it; no other definition uses it.  Put in the place of the    *)
(* right one, it shows that some property notices the mistake.             *)

(* Variant: a plan is taken at any time.                                   *)
PlanTakenAnytime(p) ==
  /\ Spinning
  /\ plan' = p
  /\ UNCHANGED <<flags, maps, edge_active, timeout_actions, thread, world, past>>

(* planCallback(): a plan is taken only if no execution is under way.  A   *)
(* plan taken while a reset loops over current_plan.nodes leaves that      *)
(* loop, and every interrupted one, with an invalid iterator.              *)
PlanCallback(p) ==
  /\ Spinning
  /\ finished_execution
  /\ plan' = p
  /\ dangling' = (dangling \/ pc \in {"reset1_spin", "reset2_spin"})
  /\ stack' = [i \in DOMAIN stack |-> [stack[i] EXCEPT !.dangling = TRUE]]
  /\ UNCHANGED <<flags, maps, edge_active, timeout_actions, pc, cursor, world, past>>

CancelDispatch ==
  /\ Spinning
  /\ plan_cancelled' = TRUE
  /\ UNCHANGED <<plan, dispatching, finished_execution, replan_requested, maps,
                 edge_active, timeout_actions, thread, world, past>>

(* feedbackCallback() for each status.  The message comes from some        *)
(* execution of an action with this id, in this dispatch or an earlier     *)
(* one: the message holds nothing that tells them apart.                   *)
ActionEnabled(a) ==
  /\ Spinning
  /\ \E r \in 1 .. MaxRuns :
       /\ execution[r][a] = "sent"
       /\ execution' = [execution EXCEPT ![r][a] = "enabled"]
  /\ action_received' = action_received \cup {a}
  /\ UNCHANGED <<plan, flags, action_dispatched, action_completed, edge_active,
                 timeout_actions, thread, run, past>>

EndReported(a) ==
  \E r \in 1 .. MaxRuns :
    /\ execution[r][a] = "enabled"
    /\ execution' = [execution EXCEPT ![r][a] = "over"]

Accepted(a) == a \in action_received \ action_completed

ActionAchieved(a) ==
  /\ Spinning
  /\ EndReported(a)
  /\ IF Accepted(a)
     THEN /\ action_completed' = action_completed \cup {a}
          /\ outcome' = [outcome EXCEPT ![a] = "achieved"]
     ELSE UNCHANGED <<action_completed, outcome>>
  /\ UNCHANGED <<plan, flags, action_dispatched, action_received, edge_active,
                 timeout_actions, thread, run, executing, fired, verdict>>

(* Variant: a failure completes the action like any other report.          *)
FailureWithoutReplan(a) ==
  /\ Spinning
  /\ EndReported(a)
  /\ IF Accepted(a)
     THEN /\ action_completed' = action_completed \cup {a}
          /\ outcome' = [outcome EXCEPT ![a] = "failed"]
     ELSE UNCHANGED <<action_completed, outcome>>
  /\ UNCHANGED <<plan, flags, action_dispatched, action_received, edge_active,
                 timeout_actions, thread, run, executing, fired, verdict>>

ActionFailed(a) ==
  /\ Spinning
  /\ EndReported(a)
  /\ IF Accepted(a)
     THEN /\ action_completed' = action_completed \cup {a}
          /\ replan_requested' = TRUE
          /\ outcome' = [outcome EXCEPT ![a] = "failed"]
     ELSE UNCHANGED <<action_completed, replan_requested, outcome>>
  /\ UNCHANGED <<plan, dispatching, finished_execution, plan_cancelled,
                 action_dispatched, action_received, edge_active,
                 timeout_actions, thread, run, executing, fired, verdict>>

(* Variant: the edges of the last dispatch stay active.                    *)
InitialiseActionsOnly ==
  /\ action_dispatched' = action_dispatched \ NodeIds(plan)
  /\ action_received' = action_received \ NodeIds(plan)
  /\ action_completed' = action_completed \ NodeIds(plan)
  /\ UNCHANGED edge_active

(* initialise(): forget the actions of the plan, deactivate every edge.    *)
Initialise ==
  /\ action_dispatched' = action_dispatched \ NodeIds(plan)
  /\ action_received' = action_received \ NodeIds(plan)
  /\ action_completed' = action_completed \ NodeIds(plan)
  /\ edge_active' = {}

(* dispatchPlanService() or dispatchPlanActionlib() up to the loop of      *)
(* dispatchPlan().  A request that finds `dispatching` set is refused and  *)
(* changes nothing.                                                        *)
DispatchPlan ==
  /\ Spinning
  /\ ~dispatching
  /\ run < MaxRuns
  /\ dispatching' = TRUE
  /\ replan_requested' = FALSE
  /\ plan_cancelled' = FALSE
  /\ finished_execution' = FALSE
  /\ Initialise
  /\ stack' = IF pc = "idle" THEN stack
              ELSE Append(stack, [cursor |-> cursor, dangling |-> dangling])
  /\ pc' = "head"
  /\ cursor' = 0
  /\ dangling' = FALSE
  /\ run' = run + 1
  /\ executing' = plan
  /\ fired' = {}
  /\ outcome' = NoOutcome
  /\ UNCHANGED <<plan, timeout_actions, execution, verdict>>

-----------------------------------------------------------------------------
(* The loop of dispatchPlan().                                             *)

(* Variant: the reset starts one before the first node.                    *)
LeaveLoopOffByOne(v) ==
  /\ verdict' = v
  /\ pc' = "reset1"
  /\ cursor' = -1

LeaveLoop(v) ==
  /\ verdict' = v
  /\ pc' = "reset1"
  /\ cursor' = 0

LoopDone ==
  /\ pc = "head"
  /\ finished_execution
  /\ LeaveLoop("success")
  /\ UNCHANGED <<plan, flags, maps, edge_active, timeout_actions, dangling, stack,
                 world, executing, fired, outcome>>

(* Variant: the cancellation waits for the actions under way.              *)
CancelWhenNothingRuns ==
  /\ pc = "head"
  /\ ~finished_execution
  /\ plan_cancelled
  /\ action_dispatched \subseteq action_completed
  /\ LeaveLoop("success")
  /\ UNCHANGED <<plan, flags, maps, edge_active, timeout_actions, dangling, stack,
                 world, executing, fired, outcome>>

(* "Plan cancelled": the loop breaks, and what follows it returns true.    *)
CancelBreak ==
  /\ pc = "head"
  /\ ~finished_execution
  /\ plan_cancelled
  /\ LeaveLoop("success")
  /\ UNCHANGED <<plan, flags, maps, edge_active, timeout_actions, dangling, stack,
                 world, executing, fired, outcome>>

(* Variant: a pass begins without a look at plan_cancelled.                *)
EnterPassDespiteCancel ==
  /\ pc = "head"
  /\ ~finished_execution
  /\ finished_execution' = TRUE
  /\ pc' = "visit"
  /\ cursor' = 0
  /\ UNCHANGED <<plan, dispatching, replan_requested, plan_cancelled, maps,
                 edge_active, timeout_actions, dangling, stack, world, past>>

EnterPass ==
  /\ pc = "head"
  /\ ~finished_execution
  /\ ~plan_cancelled
  /\ finished_execution' = TRUE
  /\ pc' = "visit"
  /\ cursor' = 0
  /\ UNCHANGED <<plan, dispatching, replan_requested, plan_cancelled, maps,
                 edge_active, timeout_actions, dangling, stack, world, past>>

(* One iteration of the loop over the nodes.                               *)
Visiting(n, type) ==
  /\ pc = "visit"
  /\ cursor = n
  /\ n \in Nodes(plan)
  /\ plan.node_type[n] = type
  /\ cursor' = cursor + 1
  /\ UNCHANGED <<plan, dispatching, plan_cancelled, action_received,
                 timeout_actions, pc, dangling, stack, run, executing, verdict>>

(* Variant: an action counts as under way once its interface says so.      *)
BusyOnceEnabled(a) == a \in action_received \ action_completed

Busy(a)  == a \in action_dispatched \ action_completed
Ready(n) == In(plan, n) \subseteq edge_active

(* Activation passes from the edges into a node to the edges out of it.    *)
Fire(n) ==
  /\ edge_active' = (edge_active \ In(plan, n)) \cup Out(plan, n)
  /\ fired' = fired \cup {n}

(* The clock against the bounds of the edges into a node, when the         *)
(* dispatcher looks at it: some lower bound is still ahead, some upper     *)
(* bound has passed, or both on different edges.                           *)
Timings == [early : BOOLEAN, late : BOOLEAN]
InTime  == [early |-> FALSE, late |-> FALSE]
Clock(t) == t \in Timings /\ (~timeout_actions => t = InTime)

VisitPlanStart(n) ==
  /\ Visiting(n, "PLAN_START")
  /\ IF n \in fired
     THEN UNCHANGED <<edge_active, fired, finished_execution>>
     ELSE /\ Fire(n)
          /\ finished_execution' = FALSE
  /\ UNCHANGED <<replan_requested, action_dispatched, action_completed, execution, outcome>>

(* A node whose edges are not all active.                                  *)
VisitInactive(n) ==
  /\ \E type \in {"ACTION_START", "ACTION_END"} : Visiting(n, type)
  /\ ~Ready(n)
  /\ finished_execution' = (finished_execution /\ ~Busy(plan.action_id[n]))
  /\ UNCHANGED <<replan_requested, action_dispatched, action_completed, edge_active,
                 fired, execution, outcome>>

(* The end of an action that was reported: no deadline is applied to it.   *)
VisitCompletedEnd(n) ==
  /\ Visiting(n, "ACTION_END")
  /\ Ready(n)
  /\ plan.action_id[n] \in action_completed
  /\ finished_execution' = FALSE
  /\ Fire(n)
  /\ UNCHANGED <<replan_requested, action_dispatched, action_completed, execution, outcome>>

(* The end of an action that is still under way.                           *)
VisitPendingEnd(n, t) ==
  /\ Visiting(n, "ACTION_END")
  /\ Ready(n)
  /\ plan.action_id[n] \notin action_completed
  /\ Clock(t)
  /\ finished_execution' = (finished_execution /\ ~Busy(plan.action_id[n]) /\ ~t.early)
  /\ replan_requested' = (replan_requested \/ t.late)
  /\ UNCHANGED <<action_dispatched, action_completed, edge_active, fired, execution, outcome>>

(* The start of an action that is held by the clock, or published already. *)
VisitHeldStart(n, t) ==
  /\ Visiting(n, "ACTION_START")
  /\ Ready(n)
  /\ Clock(t)
  /\ t = InTime => plan.action_id[n] \in action_dispatched
  /\ finished_execution' = (finished_execution /\ ~Busy(plan.action_id[n]) /\ ~t.early)
  /\ replan_requested' = (replan_requested \/ t.late)
  /\ UNCHANGED <<action_dispatched, action_completed, edge_active, fired, execution, outcome>>

(* The knowledge base says that a precondition does not hold.              *)
VisitUnmetStart(n) ==
  /\ Visiting(n, "ACTION_START")
  /\ Ready(n)
  /\ plan.action_id[n] \notin action_dispatched
  /\ finished_execution' = FALSE
  /\ replan_requested' = (replan_requested \/ timeout_actions)
  /\ UNCHANGED <<action_dispatched, action_completed, edge_active, fired, execution, outcome>>

(* ... and that they all hold: the action is published.                    *)
DispatchAction(n) ==
  LET a == plan.action_id[n] IN
  /\ pc = "visit"
  /\ cursor = n
  /\ n \in Starts(plan)
  /\ Ready(n)
  /\ a \notin action_dispatched
  /\ finished_execution' = FALSE
  /\ action_dispatched' = action_dispatched \cup {a}
  /\ action_received' = action_received \ {a}
  /\ action_completed' = action_completed \ {a}
  /\ outcome' = [outcome EXCEPT ![a] = "none"]
  /\ execution' = [execution EXCEPT ![run][a] = "sent"]
  /\ Fire(n)
  /\ cursor' = cursor + 1
  /\ UNCHANGED <<plan, dispatching, replan_requested, plan_cancelled,
                 timeout_actions, pc, dangling, stack, run, executing, verdict>>

PassDone ==
  /\ pc = "visit"
  /\ cursor \notin Nodes(plan)
  /\ pc' = "spin"
  /\ UNCHANGED <<plan, flags, maps, edge_active, timeout_actions, cursor, dangling,
                 stack, world, past>>

(* spinOnce() returns: give up if a replan was requested, else go round.   *)
SpinReturn ==
  /\ pc = "spin"
  /\ IF replan_requested
     THEN LeaveLoop("failure")
     ELSE pc' = "head" /\ UNCHANGED <<cursor, verdict>>
  /\ UNCHANGED <<plan, flags, maps, edge_active, timeout_actions, dangling, stack,
                 world, executing, fired, outcome>>

-----------------------------------------------------------------------------
(* reset(), called by dispatchPlan() ("reset1") and then by the service    *)
(* that called it ("reset2").                                              *)

Cancellable(n) ==
  /\ n \in Starts(plan)
  /\ Busy(plan.action_id[n])

(* Publish cancel_action with the action's id, and spin.                   *)
PublishCancel ==
  /\ pc \in {"reset1", "reset2"}
  /\ Cancellable(cursor)
  /\ pc' = IF pc = "reset1" THEN "reset1_spin" ELSE "reset2_spin"
  /\ UNCHANGED <<plan, flags, maps, edge_active, timeout_actions, cursor, dangling,
                 stack, world, past>>

ResetPass ==
  /\ pc \in {"reset1", "reset2"}
  /\ cursor \in Nodes(plan)
  /\ ~Cancellable(cursor)
  /\ cursor' = cursor + 1
  /\ UNCHANGED <<plan, flags, maps, edge_active, timeout_actions, pc, dangling,
                 stack, world, past>>

ResumeReset == pc' = IF pc = "reset1_spin" THEN "reset1" ELSE "reset2"

ResetSpinReturn ==
  /\ pc \in {"reset1_spin", "reset2_spin"}
  /\ ~dangling
  /\ cursor' = cursor + 1
  /\ ResumeReset
  /\ UNCHANGED <<plan, flags, maps, edge_active, timeout_actions, dangling, stack,
                 world, past>>

(* Undefined behaviour: the vector was replaced under the iterator.  If    *)
(* its storage was reused the loop goes on somewhere in the new nodes or   *)
(* stops; if not, the node may die (it is not respawned).                  *)
DanglingIterator ==
  /\ pc \in {"reset1_spin", "reset2_spin"}
  /\ dangling
  /\ \/ pc' = "crashed" /\ UNCHANGED <<cursor, dangling>>
     \/ ResumeReset /\ cursor' \in 0 .. plan.count /\ UNCHANGED dangling
  /\ UNCHANGED <<plan, flags, maps, edge_active, timeout_actions, stack, world, past>>

(* The rest of reset(): PlanDispatcher::reset() and finished_execution.    *)
ClearFlags ==
  /\ replan_requested' = FALSE
  /\ plan_cancelled' = FALSE
  /\ action_received' = {}
  /\ action_completed' = {}
  /\ dispatching' = FALSE
  /\ finished_execution' = TRUE
  /\ UNCHANGED action_dispatched

FirstResetDone ==
  /\ pc = "reset1"
  /\ cursor \notin Nodes(plan)
  /\ ClearFlags
  /\ pc' = "reset2"
  /\ cursor' = 0
  /\ dangling' = FALSE
  /\ UNCHANGED <<plan, edge_active, timeout_actions, stack, world, past>>

(* The service answers, and the thread goes back to the spin it came from. *)
SecondResetDone ==
  /\ pc = "reset2"
  /\ cursor \notin Nodes(plan)
  /\ ClearFlags
  /\ IF stack = <<>>
     THEN pc' = "idle" /\ cursor' = 0 /\ dangling' = FALSE /\ UNCHANGED stack
     ELSE LET top == stack[Len(stack)] IN
          /\ pc' = "reset2_spin"
          /\ cursor' = top.cursor
          /\ dangling' = top.dangling
          /\ stack' = SubSeq(stack, 1, Len(stack) - 1)
  /\ UNCHANGED <<plan, edge_active, timeout_actions, world, past>>

-----------------------------------------------------------------------------
Callback ==
  \/ \E p \in Plans : PlanCallback(p)
  \/ CancelDispatch
  \/ \E a \in ActionIds : ActionEnabled(a)
  \/ \E a \in ActionIds : ActionAchieved(a)
  \/ \E a \in ActionIds : ActionFailed(a)
  \/ DispatchPlan

Visit ==
  \/ VisitPlanStart(cursor)
  \/ VisitInactive(cursor)
  \/ VisitCompletedEnd(cursor)
  \/ \E t \in Timings : VisitPendingEnd(cursor, t)
  \/ \E t \in Timings : VisitHeldStart(cursor, t)
  \/ VisitUnmetStart(cursor)
  \/ DispatchAction(cursor)

Loop == LoopDone \/ CancelBreak \/ EnterPass \/ Visit \/ PassDone \/ SpinReturn

Reset ==
  \/ PublishCancel
  \/ ResetPass
  \/ ResetSpinReturn
  \/ DanglingIterator
  \/ FirstResetDone
  \/ SecondResetDone

Next == Callback \/ Loop \/ Reset

Spec == Init /\ [][Next]_vars

(* The thread keeps running: spinOnce() serves what has arrived and        *)
(* returns, and the knowledge base answers.  Nothing is assumed of the     *)
(* callbacks: plans, requests and feedback may never come.                 *)
FairSpec == Spec /\ WF_vars(Loop \/ Reset)

-----------------------------------------------------------------------------
FlagTypes ==
  /\ dispatching \in BOOLEAN
  /\ finished_execution \in BOOLEAN
  /\ replan_requested \in BOOLEAN
  /\ plan_cancelled \in BOOLEAN
  /\ timeout_actions \in BOOLEAN
  /\ dangling \in BOOLEAN

TypeOK ==
  /\ FlagTypes
  /\ plan \in Plans
  /\ action_dispatched \subseteq ActionIds
  /\ action_received \subseteq ActionIds
  /\ action_completed \subseteq ActionIds
  /\ edge_active \subseteq [source : Nat, sink : Nat]
  /\ pc \in PCs
  /\ cursor \in Nat
  /\ stack \in Seq([cursor : Nat, dangling : BOOLEAN])
  /\ execution \in [1 .. MaxRuns -> [ActionIds -> Phases]]
  /\ run \in 0 .. MaxRuns
  /\ executing \in Plans
  /\ fired \subseteq Nat
  /\ outcome \in [ActionIds -> {"none", "achieved", "failed"}]
  /\ verdict \in {"none", "success", "failure"}

(* While a dispatch is at work, an action of its plan has been published   *)
(* only if every action whose end precedes its start in the plan graph was *)
(* published and reported.  It spans the whole bookkeeping of edge_active: *)
(* initialise(), the firing of start and end nodes, and the feedback.      *)
PrecedenceRespected ==
  InLoop => \A a \in Ids(executing) \cap action_dispatched :
              Predecessors(executing, a) \subseteq action_dispatched \cap action_completed

(* When dispatchPlan() is about to return true and was not cancelled,      *)
(* every action of the plan it started with was published and reported     *)
(* achieved: the loop never stops early with part of the graph blocked,    *)
(* and a failure never ends in success.                                    *)
SuccessIsComplete ==
  pc = "reset1" /\ verdict = "success" /\ ~plan_cancelled
    => \A a \in Ids(executing) :
         a \in action_dispatched \cap action_completed /\ outcome[a] = "achieved"

(* The loop over the nodes always walks the plan its dispatch was started  *)
(* with: planCallback() refuses a plan while an execution is under way.    *)
PlanStableInLoop ==
  pc = "visit" \/ (InLoop /\ ~finished_execution) => plan = executing

(* No action is published once a failure was reported to this dispatch or  *)
(* it was cancelled, although both are only noticed at other points of the *)
(* loop than the one that publishes.                                       *)
NoDispatchAfterStop ==
  [][action_dispatched' \subseteq action_dispatched
       \/ (~plan_cancelled /\ \A a \in ActionIds : outcome[a] # "failed")]_vars

(* A cancelled dispatch leaves its loop, even if the actions under way     *)
(* never report and the preconditions of the others never hold.            *)
CancelHonoured == InLoop /\ plan_cancelled ~> ~InLoop

(* The dispatcher implements the contract of a plan execution: jobs,       *)
(* statuses and verdicts as its caller sees them.                          *)
Job == IF InLoop THEN executing ELSE NoJob

Status ==
  [a \in ActionIds |->
     IF ~InLoop \/ a \notin Ids(executing) \cap action_dispatched THEN "waiting"
     ELSE IF a \in action_completed THEN outcome[a] ELSE "running"]

Contract == INSTANCE PlanExecution
  WITH job <- Job, status <- Status, cancelled <- InLoop /\ plan_cancelled

ImplementsContract == Contract!JobSpec

(* What PlanDispatcher.cpp says of dispatchPlanService(): "True iff every  *)
(* action was dispatched and returned success."                            *)
TrueIffAllSucceeded ==
  pc = "reset1" /\ verdict = "success"
    => \A a \in Ids(executing) : outcome[a] = "achieved"

(* What the comment in reset() says: it preempts "currently executing      *)
(* nodes", so a cancel_action is for an action some interface still runs.  *)
Executing(a) == \E r \in 1 .. MaxRuns : execution[r][a] \in {"sent", "enabled"}

CancelsOnlyExecuting ==
  [][PublishCancel => Executing(plan.action_id[cursor])]_vars
=============================================================================
