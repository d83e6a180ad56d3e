----------------------- MODULE ActionInterfaceHistory -----------------------
(***************************************************************************)
(* The action interfaces with what is needed to say what they owe: which   *)
(* calls shared their node, and which were cancelled, and when.            *)
(***************************************************************************)
EXTENDS ActionInterface

VARIABLES
  overlapped,   \* the calls that shared their node with another call
  cut,          \* the calls cancelled before they looked at the flag
  recalled      \* the calls that a cancel_action was published after

history == <<overlapped, cut, recalled>>

OpenAt(i) == {c \in Calls : NameOf[c] = i /\ phase[c] \in Open}

HistoryInit == InterfaceInit /\ overlapped = {} /\ cut = {} /\ recalled = {}

(* A call joins others on its node.                                        *)
Join(i, c) ==
  /\ overlapped' = IF OpenAt(i) = {} THEN overlapped ELSE overlapped \cup OpenAt(i) \cup {c}
  /\ UNCHANGED <<cut, recalled>>

CutShort(i) ==
  /\ cut' = cut \cup {c \in OpenAt(i) : phase[c] \in {"cleared", "enabled", "running", "returned"}}
  /\ UNCHANGED <<overlapped, recalled>>

Recall ==
  /\ recalled' = recalled \cup {c \in Calls : phase[c] \in {"sent"} \cup Open}
  /\ UNCHANGED <<overlapped, cut>>

Unrecorded(i, t) ==
  \/ BeginCancel(i, t)
  \/ \E c \in Calls : SkipCall(i, t, c) \/ CallStep(i, t, c)

HistoryNext ==
  \/ Cancel /\ Recall
  \/ \E i \in Interfaces, t \in Threads : SetCancelled(i, t) /\ CutShort(i)
  \/ \E i \in Interfaces, t \in Threads, c \in Calls : BeginCall(i, t, c) /\ Join(i, c)
  \/ \E c \in Calls : Dispatch(c) /\ UNCHANGED history
  \/ \E i \in Interfaces : Hear(i) /\ UNCHANGED history
  \/ \E i \in Interfaces, t \in Threads : Unrecorded(i, t) /\ UNCHANGED history

HistorySpec == HistoryInit /\ [][HistoryNext]_<<interfaceVars, history>>

-----------------------------------------------------------------------------
(* A call that had its node for itself is reported as what its own         *)
(* concreteCallback() returned, and has end effects only if that was       *)
(* success, whatever cancellations came: nothing else writes               *)
(* action_success between its return and the look at it.                   *)
TruthfulAlone ==
  \A c \in Calls \ overlapped :
    /\ phase[c] \in {"ending", "ended", "achieved"} => result[c] = "true"
    /\ phase[c] \in {"failing", "failed"} => result[c] = "false"

(* A call that had its node for itself and was cancelled before it looked  *)
(* at the flag ends without end effects and without a report of success or *)
(* failure.                                                                *)
QuietWhenCut ==
  \A c \in cut \ overlapped :
    phase[c] \in {"cleared", "rejected", "enabled", "running", "returned",
                  "stopping", "stopped"}

(* What the message says with which a call stops: it is "an old action     *)
(* that was cancelled", so a cancel_action was published after the call.   *)
StoppedWasRecalled ==
  \A c \in Calls : phase[c] = "stopped" => c \in recalled
=============================================================================
