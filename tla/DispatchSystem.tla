--------------------------- MODULE DispatchSystem ---------------------------
(***************************************************************************)
(* The Esterel dispatcher and the action interfaces that it drives: each   *)
(* action it publishes is a message to the nodes of ActionInterface, each  *)
(* reset sends them cancel_action, and its feedback callback hears what    *)
(* they publish.  A report holds the action's id only; the model keeps the *)
(* call it is about beside it, to say which dispatch it belongs to.        *)
(***************************************************************************)
EXTENDS EsterelPlanDispatcher

CONSTANTS Interfaces, Threads, CancelAction, MaxQueue,
          Names    \* the PDDL action of each action id, for each plan

(* The messages of actions: one for each action of each dispatch.          *)
Calls == [run : 1 .. MaxRuns, id : ActionIds, name : Interfaces]

ASSUME SystemAssumption ==
  /\ Names \in [Plans -> [ActionIds -> Interfaces]]
  /\ CancelAction \notin Calls
  /\ MaxQueue \in Nat

VARIABLES queue, spinner, phase, action_cancelled, action_success, feedback,
          result,
          clean    \* history: the latest dispatch began with all interfaces at rest

NameOf == [c \in Calls |-> c.name]

Node == INSTANCE ActionInterface

interfaceVars == <<queue, spinner, phase, action_cancelled, action_success, feedback,
                   result>>
systemVars    == <<vars, interfaceVars, clean>>

SystemInit ==
  /\ Init
  /\ Node!InterfaceInit
  /\ clean = TRUE

(* The call of action a in the latest dispatch.                            *)
CallOf(a) == [run |-> run, id |-> a, name |-> Names[executing][a]]

AtRest ==
  /\ \A i \in Interfaces : queue[i] = <<>> /\ feedback[i] = <<>>
  /\ \A i \in Interfaces, t \in Threads : spinner[i][t] = <<>>

(* dispatchPlan() publishes an action.                                     *)
SendAction ==
  /\ DispatchAction(cursor)
  /\ Node!Dispatch(CallOf(plan.action_id[cursor]))
  /\ UNCHANGED clean

(* reset() publishes cancel_action, which all the nodes hear.              *)
SendCancel ==
  /\ PublishCancel
  /\ Node!Cancel
  /\ UNCHANGED clean

(* A report reaches the dispatcher.                                        *)
Hears(i, status) ==
  /\ Node!Hear(i)
  /\ Head(feedback[i]).status = status
  /\ UNCHANGED clean

Moves(c, to) == execution' = [execution EXCEPT ![c.run][c.id] = to]

HearEnabled(i) ==
  LET c == Head(feedback[i]).call IN
  Hears(i, "enabled") /\ ActionEnabled(c.id) /\ Moves(c, "enabled")

HearAchieved(i) ==
  LET c == Head(feedback[i]).call IN
  Hears(i, "achieved") /\ ActionAchieved(c.id) /\ Moves(c, "over")

HearFailed(i) ==
  LET c == Head(feedback[i]).call IN
  Hears(i, "failed") /\ ActionFailed(c.id) /\ Moves(c, "over")

StartDispatch ==
  /\ DispatchPlan
  /\ clean' = AtRest
  /\ UNCHANGED interfaceVars

(* What the dispatcher does on its own.                                    *)
Alone ==
  /\ \/ \E p \in Plans : PlanCallback(p)
     \/ CancelDispatch
     \/ LoopDone
     \/ CancelBreak
     \/ EnterPass
     \/ VisitPlanStart(cursor)
     \/ VisitInactive(cursor)
     \/ VisitCompletedEnd(cursor)
     \/ \E t \in Timings : VisitPendingEnd(cursor, t)
     \/ \E t \in Timings : VisitHeldStart(cursor, t)
     \/ VisitUnmetStart(cursor)
     \/ PassDone
     \/ SpinReturn
     \/ ResetPass
     \/ ResetSpinReturn
     \/ DanglingIterator
     \/ FirstResetDone
     \/ SecondResetDone
  /\ UNCHANGED <<interfaceVars, clean>>

InterfaceStep ==
  /\ Node!NodeStep
  /\ UNCHANGED <<vars, clean>>

SystemNext ==
  \/ SendAction
  \/ SendCancel
  \/ \E i \in Interfaces : HearEnabled(i) \/ HearAchieved(i) \/ HearFailed(i)
  \/ StartDispatch
  \/ Alone
  \/ InterfaceStep

SystemSpec == SystemInit /\ [][SystemNext]_systemVars

-----------------------------------------------------------------------------
(* What EsterelPlanDispatcher assumes of the interfaces holds of them: the *)
(* report a node has next for the dispatcher is one that its model expects *)
(* of that call, and the call of an action about to be published is fresh. *)
EnvironmentAsAssumed ==
  /\ \A i \in Interfaces :
       feedback[i] # <<>> =>
         LET m == Head(feedback[i]) IN
         execution[m.call.run][m.call.id] = IF m.status = "enabled" THEN "sent" ELSE "enabled"
  /\ pc = "visit" /\ cursor \in Starts(plan) /\ Ready(cursor) =>
       LET a == plan.action_id[cursor] IN
       a \notin action_dispatched => phase[CallOf(a)] = "unsent"

(* In a dispatch that began with all interfaces at rest, a call leaves the *)
(* dispatcher only when the calls before it in the plan have applied their *)
(* effects and reported it: the precedences of the plan graph reach as far *)
(* as the nodes that act.                                                  *)
PerformedInOrder ==
  InLoop /\ clean =>
    \A a \in Ids(executing), b \in ActionIds :
      b \in Predecessors(executing, a) /\ phase[CallOf(a)] # "unsent"
        => phase[CallOf(b)] = "achieved"

(* A plan keeps each node to one action at a time when of two actions with *)
(* the same PDDL action one ends before the other starts: from the start   *)
(* of the later one, the edges lead back to the end of the earlier one.    *)
Closed(p, S) == \A e \in p.edges : e.sink \in S => e.source \in S

EndsBefore(p, a, b) ==
  \A S \in SUBSET Nodes(p), m \in Ends(p), n \in Starts(p) :
    Closed(p, S) /\ p.action_id[m] = a /\ p.action_id[n] = b /\ n \in S => m \in S

InOrderAtEachNode ==
  \A p \in Plans : \A a, b \in Ids(p) :
    a # b /\ Names[p][a] = Names[p][b] => EndsBefore(p, a, b) \/ EndsBefore(p, b, a)

(* When such a dispatch returns true without having been cancelled, the    *)
(* concreteCallback() of each of its actions returned success.             *)
SuccessIsGenuine ==
  pc = "reset1" /\ verdict = "success" /\ ~plan_cancelled /\ clean
    => \A a \in Ids(executing) :
         phase[CallOf(a)] = "achieved" /\ result[CallOf(a)] = "true"

(* The comment in feedbackCallback(): "check action is part of current     *)
(* plan".  An action that counts as completed in a dispatch has ended in   *)
(* that dispatch.                                                          *)
CompletedInThisDispatch ==
  InLoop => \A a \in Ids(executing) \cap action_dispatched \cap action_completed :
              phase[CallOf(a)] \in {"achieved", "failed"}
=============================================================================
