--------------------------- MODULE ActionInterface ---------------------------
(***************************************************************************)
(* The action interface nodes (RPActionInterface), one for each PDDL       *)
(* action.  Every node hears every message on action_dispatch, runs the    *)
(* calls of its own action and answers on action_feedback.                 *)
(*                                                                         *)
(* dispatchCallback() runs on the threads of an AsyncSpinner, several at a *)
(* time.  They share action_cancelled and action_success, without a lock.  *)
(* After concreteCallback() returns, the callback spins: the thread may    *)
(* run further callbacks inside it before it looks at action_cancelled.    *)
(* So a thread holds a stack of callbacks, and only the innermost moves.   *)
(*                                                                         *)
(* Each step holds one access to what the threads share: the flags, the    *)
(* knowledge base, the queues.                                             *)
(***************************************************************************)
EXTENDS Integers, Sequences

CONSTANTS
  Interfaces,    \* the nodes, named for their PDDL actions
  Calls,         \* the dispatch messages of actions, each sent once
  NameOf,        \* the action that each of them calls
  Threads,       \* the spinner threads of a node
  CancelAction,  \* the message that cancels, whatever its action id
  MaxQueue       \* bound: how many messages wait at a node

ASSUME InterfaceAssumption ==
  /\ DOMAIN NameOf = Calls
  /\ CancelAction \notin Calls
  /\ MaxQueue \in Nat

VARIABLES
  queue,             \* the messages on their way to each node
  spinner,           \* the callbacks that each thread is in, innermost last
  phase,             \* how far the callback of each call has got
  action_cancelled,  \* members of the class
  action_success,
  feedback,          \* the messages of each node on their way back
  result             \* history: what concreteCallback() returned

interfaceVars == <<queue, spinner, phase, action_cancelled, action_success,
                   feedback, result>>

Messages == Calls \cup {CancelAction}
Reports  == [call : Calls, status : {"enabled", "achieved", "failed"}]

(* Where a call is: not published; on its way; its callback begun; the     *)
(* cancellation cleared; enabled; in concreteCallback(); spinning after    *)
(* it; past the look at the flag; past the look at the result; and how it  *)
(* ended.                                                                  *)
Open  == {"begun", "cleared", "enabled", "running", "returned", "stopping", "deciding",
          "ending", "ended", "failing"}
Over  == {"rejected", "stopped", "achieved", "failed"}
Steps == {"unsent", "sent"} \cup Open \cup Over

InterfaceInit ==
  /\ queue = [i \in Interfaces |-> <<>>]
  /\ spinner = [i \in Interfaces |-> [t \in Threads |-> <<>>]]
  /\ phase = [c \in Calls |-> "unsent"]
  /\ action_cancelled \in [Interfaces -> BOOLEAN]
  /\ action_success \in [Interfaces -> BOOLEAN]
  /\ feedback = [i \in Interfaces |-> <<>>]
  /\ result = [c \in Calls |-> "none"]

-----------------------------------------------------------------------------
(* The topic.  The dispatcher's publisher keeps one message for each node: *)
(* the one before, if it has not left yet, is lost.                        *)
Publish(m) ==
  /\ \A i \in Interfaces : Len(queue[i]) < MaxQueue
  /\ \E lost \in SUBSET {i \in Interfaces : queue[i] # <<>>} :
       queue' = [i \in Interfaces |->
                   Append(IF i \in lost THEN SubSeq(queue[i], 1, Len(queue[i]) - 1)
                          ELSE queue[i], m)]

Dispatch(c) ==
  /\ phase[c] = "unsent"
  /\ Publish(c)
  /\ phase' = [phase EXCEPT ![c] = "sent"]
  /\ UNCHANGED <<spinner, action_cancelled, action_success, feedback, result>>

Cancel ==
  /\ Publish(CancelAction)
  /\ UNCHANGED <<spinner, phase, action_cancelled, action_success, feedback, result>>

(* The dispatcher's subscription takes the oldest message of a node.       *)
Hear(i) ==
  /\ feedback[i] # <<>>
  /\ feedback' = [feedback EXCEPT ![i] = Tail(@)]
  /\ UNCHANGED <<queue, spinner, phase, action_cancelled, action_success, result>>

-----------------------------------------------------------------------------
(* A thread takes a message: from the spinner's loop, or from the spin at  *)
(* the end of a callback.                                                  *)

Last(s) == s[Len(s)]

Innermost(i, t, c) == spinner[i][t] # <<>> /\ Last(spinner[i][t]) = c

Takes(i, t, m) ==
  /\ \/ spinner[i][t] = <<>>
     \/ \E c \in Calls : Innermost(i, t, c) /\ phase[c] = "returned"
  /\ queue[i] # <<>>
  /\ Head(queue[i]) = m
  /\ queue' = [queue EXCEPT ![i] = Tail(@)]

Enter(i, t, m) == spinner' = [spinner EXCEPT ![i][t] = Append(@, m)]
Leave(i, t)    == spinner' = [spinner EXCEPT ![i][t] = SubSeq(@, 1, Len(@) - 1)]

BeginCancel(i, t) ==
  /\ Takes(i, t, CancelAction)
  /\ Enter(i, t, CancelAction)
  /\ UNCHANGED <<phase, action_cancelled, action_success, feedback, result>>

(* A call of another action: the callback returns at once.                 *)
SkipCall(i, t, c) ==
  /\ NameOf[c] # i
  /\ Takes(i, t, c)
  /\ UNCHANGED <<spinner, phase, action_cancelled, action_success, feedback, result>>

BeginCall(i, t, c) ==
  /\ NameOf[c] = i
  /\ Takes(i, t, c)
  /\ Enter(i, t, c)
  /\ phase' = [phase EXCEPT ![c] = "begun"]
  /\ UNCHANGED <<action_cancelled, action_success, feedback, result>>

-----------------------------------------------------------------------------
(* The rest of dispatchCallback().                                         *)

(* Variant: a cancel_action is for the call that is running.               *)
SetCancelledWhenRunning(i, t) ==
  /\ Innermost(i, t, CancelAction)
  /\ action_cancelled' = [action_cancelled EXCEPT
                            ![i] = \E c \in Calls : NameOf[c] = i /\ phase[c] = "running"]
  /\ Leave(i, t)
  /\ UNCHANGED <<queue, phase, action_success, feedback, result>>

SetCancelled(i, t) ==
  /\ Innermost(i, t, CancelAction)
  /\ action_cancelled' = [action_cancelled EXCEPT ![i] = TRUE]
  /\ Leave(i, t)
  /\ UNCHANGED <<queue, phase, action_success, feedback, result>>

(* A callback at work on call c, and where it goes next.                   *)
At(i, t, c, from) == Innermost(i, t, c) /\ phase[c] = from

Goto(c, to) == phase' = [phase EXCEPT ![c] = to]

Report(i, c, status) ==
  feedback' = [feedback EXCEPT ![i] = Append(@, [call |-> c, status |-> status])]

(* A new call clears the cancellation.                                     *)
ClearCancelled(i, t, c) ==
  /\ At(i, t, c, "begun")
  /\ action_cancelled' = [action_cancelled EXCEPT ![i] = FALSE]
  /\ Goto(c, "cleared")
  /\ UNCHANGED <<queue, spinner, action_success, feedback, result>>

(* A parameter of the action is missing in the message.                    *)
Reject(i, t, c) ==
  /\ At(i, t, c, "cleared")
  /\ Goto(c, "rejected")
  /\ Leave(i, t)
  /\ UNCHANGED <<queue, action_cancelled, action_success, feedback, result>>

Enable(i, t, c) ==
  /\ At(i, t, c, "cleared")
  /\ Report(i, c, "enabled")
  /\ Goto(c, "enabled")
  /\ UNCHANGED <<queue, spinner, action_cancelled, action_success, result>>

(* The start effects go to the knowledge base; a failure is only logged.   *)
StartEffects(i, t, c) ==
  /\ At(i, t, c, "enabled")
  /\ Goto(c, "running")
  /\ UNCHANGED <<queue, spinner, action_cancelled, action_success, feedback, result>>

(* Variant: the result is kept only if it is a success.                    *)
ReturnSuccessOnly(i, t, c, r) ==
  /\ At(i, t, c, "running")
  /\ action_success' = [action_success EXCEPT ![i] = @ \/ r]
  /\ result' = [result EXCEPT ![c] = IF r THEN "true" ELSE "false"]
  /\ Goto(c, "returned")
  /\ UNCHANGED <<queue, spinner, action_cancelled, feedback>>

(* Variant: concreteCallback() falls off its end.                          *)
ReturnNothing(i, t, c, r) ==
  /\ At(i, t, c, "running")
  /\ action_success' = [action_success EXCEPT ![i] = r]
  /\ result' = [result EXCEPT ![c] = "nothing"]
  /\ Goto(c, "returned")
  /\ UNCHANGED <<queue, spinner, action_cancelled, feedback>>

(* concreteCallback() returns r.                                           *)
Return(i, t, c, r) ==
  /\ At(i, t, c, "running")
  /\ action_success' = [action_success EXCEPT ![i] = r]
  /\ result' = [result EXCEPT ![c] = IF r THEN "true" ELSE "false"]
  /\ Goto(c, "returned")
  /\ UNCHANGED <<queue, spinner, action_cancelled, feedback>>

SeeCancelled(i, t, c) ==
  /\ At(i, t, c, "returned")
  /\ action_cancelled[i]
  /\ Goto(c, "stopping")
  /\ UNCHANGED <<queue, spinner, action_cancelled, action_success, feedback, result>>

StopCancelled(i, t, c) ==
  /\ At(i, t, c, "stopping")
  /\ action_success' = [action_success EXCEPT ![i] = FALSE]
  /\ Goto(c, "stopped")
  /\ Leave(i, t)
  /\ UNCHANGED <<queue, action_cancelled, feedback, result>>

GoOn(i, t, c) ==
  /\ At(i, t, c, "returned")
  /\ ~action_cancelled[i]
  /\ Goto(c, "deciding")
  /\ UNCHANGED <<queue, spinner, action_cancelled, action_success, feedback, result>>

Decide(i, t, c) ==
  /\ At(i, t, c, "deciding")
  /\ Goto(c, IF action_success[i] THEN "ending" ELSE "failing")
  /\ UNCHANGED <<queue, spinner, action_cancelled, action_success, feedback, result>>

(* Variant: the report goes out before the effects.                        *)
EndEffectsReported(i, t, c) ==
  /\ At(i, t, c, "ending")
  /\ Report(i, c, "achieved")
  /\ Goto(c, "ended")
  /\ UNCHANGED <<queue, spinner, action_cancelled, action_success, result>>

(* The end effects go to the knowledge base, with the same caveat.         *)
EndEffects(i, t, c) ==
  /\ At(i, t, c, "ending")
  /\ Goto(c, "ended")
  /\ UNCHANGED <<queue, spinner, action_cancelled, action_success, feedback, result>>

ReportAchieved(i, t, c) ==
  /\ At(i, t, c, "ended")
  /\ Report(i, c, "achieved")
  /\ Goto(c, "achieved")
  /\ Leave(i, t)
  /\ UNCHANGED <<queue, action_cancelled, action_success, result>>

(* Variant: it falls through to the report of success.                     *)
ReportFailedFallsThrough(i, t, c) ==
  /\ At(i, t, c, "failing")
  /\ Report(i, c, "failed")
  /\ Goto(c, "ended")
  /\ UNCHANGED <<queue, spinner, action_cancelled, action_success, result>>

ReportFailed(i, t, c) ==
  /\ At(i, t, c, "failing")
  /\ Report(i, c, "failed")
  /\ Goto(c, "failed")
  /\ Leave(i, t)
  /\ UNCHANGED <<queue, action_cancelled, action_success, result>>

-----------------------------------------------------------------------------
CallStep(i, t, c) ==
  \/ ClearCancelled(i, t, c)
  \/ Reject(i, t, c)
  \/ Enable(i, t, c)
  \/ StartEffects(i, t, c)
  \/ \E r \in BOOLEAN : Return(i, t, c, r)
  \/ SeeCancelled(i, t, c)
  \/ StopCancelled(i, t, c)
  \/ GoOn(i, t, c)
  \/ Decide(i, t, c)
  \/ EndEffects(i, t, c)
  \/ ReportAchieved(i, t, c)
  \/ ReportFailed(i, t, c)

ThreadStep(i, t) ==
  \/ BeginCancel(i, t)
  \/ SetCancelled(i, t)
  \/ \E c \in Calls : SkipCall(i, t, c) \/ BeginCall(i, t, c) \/ CallStep(i, t, c)

NodeStep == \E i \in Interfaces, t \in Threads : ThreadStep(i, t)

InterfaceNext ==
  \/ \E c \in Calls : Dispatch(c)
  \/ Cancel
  \/ \E i \in Interfaces : Hear(i)
  \/ NodeStep

InterfaceSpec == InterfaceInit /\ [][InterfaceNext]_interfaceVars

-----------------------------------------------------------------------------
InterfaceTypeOK ==
  /\ queue \in [Interfaces -> Seq(Messages)]
  /\ spinner \in [Interfaces -> [Threads -> Seq(Messages)]]
  /\ phase \in [Calls -> Steps]
  /\ action_cancelled \in [Interfaces -> BOOLEAN]
  /\ action_success \in [Interfaces -> BOOLEAN]
  /\ feedback \in [Interfaces -> Seq(Reports)]
  /\ result \in [Calls -> {"none", "true", "false"}]
=============================================================================
