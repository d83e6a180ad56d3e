----------------------- MODULE ActionInterfaceProofs -----------------------
(***************************************************************************)
(* What holds of the action interfaces with their history.  The inductive  *)
(* invariant adds to that of the nodes (NodesInv) who shared a node:       *)
(*   - two calls open on a node are both on record as overlapped;          *)
(*   - so the flags a call reads, if it is not on that record, are as the  *)
(*     call itself and the cancellations since its start left them.        *)
(***************************************************************************)
EXTENDS ActionInterfaceHistory, ActionInterfaceLemmas

HistoryTypes == overlapped \subseteq Calls /\ cut \subseteq Calls /\ recalled \subseteq Calls

Sharing ==
  \A c, d \in Calls :
    c # d /\ NameOf[c] = NameOf[d] /\ phase[c] \in Open /\ phase[d] \in Open
      => c \in overlapped

Results ==
  \A c \in Calls \ overlapped, i \in Interfaces : NameOf[c] = i => ResultOf(c, i)

Quiet == {"rejected", "stopping", "stopped"}

Cuts ==
  \A c \in cut \ overlapped, i \in Interfaces :
    NameOf[c] = i =>
      /\ phase[c] \in {"cleared", "enabled", "running", "returned"} \cup Quiet
      /\ phase[c] \notin Quiet => action_cancelled[i]

CutPlaced == \A c \in cut : NameOf[c] \in Interfaces

IInv ==
  /\ NodesInv
  /\ HistoryTypes
  /\ CutPlaced
  /\ Sharing
  /\ Results
  /\ Cuts

LEMMA InvFacts ==
  ASSUME IInv
  PROVE  InterfaceTypeOK /\ OwnCalls /\ WaitsOnce /\ Placed
BY DEF IInv, NodesInv

(* The history follows the nodes.                                          *)
LEMMA HistoryStep == HistoryNext => InterfaceNext
BY Zenon DEF HistoryNext, Unrecorded, InterfaceNext, NodeStep, ThreadStep

LEMMA InitInv == HistoryInit => IInv
<1> SUFFICES ASSUME HistoryInit PROVE IInv
  OBVIOUS
<1>1. NodesInv
  BY InitNodes DEF HistoryInit
<1> USE DEF HistoryInit, InterfaceInit
<1>2. HistoryTypes
  BY DEF HistoryTypes
<1>3. \A c \in Calls : phase[c] = "unsent"
  OBVIOUS
<1>4. CutPlaced /\ Sharing /\ Cuts
  BY <1>3 DEF CutPlaced, Sharing, Cuts, Open
<1>5. Results
  BY <1>3, Zenon DEF Results, ResultOf
<1>6. QED
  BY <1>1, <1>2, <1>4, <1>5 DEF IInv

(* What the history records is about calls, and calls of a node's own.     *)
LEMMA NextHistory == IInv /\ HistoryNext => HistoryTypes' /\ CutPlaced'
<1> SUFFICES ASSUME IInv, HistoryNext PROVE HistoryTypes' /\ CutPlaced'
  OBVIOUS
<1>1. HistoryTypes /\ CutPlaced
  BY DEF IInv
<1>2. HistoryTypes'
  BY <1>1 DEF HistoryTypes, HistoryNext, history, Join, CutShort, Recall, OpenAt
<1>3. CutPlaced'
  BY <1>1 DEF CutPlaced, HistoryNext, history, Join, CutShort, Recall, OpenAt
<1>4. QED
  BY <1>2, <1>3

LEMMA StutterInv ==
  ASSUME IInv, UNCHANGED <<interfaceVars, history>>
  PROVE  IInv'
<1>1. /\ phase' = phase /\ result' = result
      /\ action_cancelled' = action_cancelled /\ action_success' = action_success
      /\ overlapped' = overlapped /\ cut' = cut /\ recalled' = recalled
  BY DEF interfaceVars, history
<1>2. NodesInv'
  BY NextNodes DEF IInv
<1>3. HistoryTypes' /\ CutPlaced' /\ Sharing'
  BY <1>1 DEF IInv, HistoryTypes, CutPlaced, Sharing
<1>4. Results'
  BY <1>1, Zenon DEF IInv, Results, ResultOf
<1>5. Cuts'
  BY <1>1, Zenon DEF IInv, Cuts
<1>6. QED
  BY <1>2, <1>3, <1>4, <1>5 DEF IInv

-----------------------------------------------------------------------------
(* Sharing a node.                                                         *)

(* Nobody leaves the record.                                               *)
LEMMA OverlapGrows == HistoryNext => overlapped \subseteq overlapped'
BY DEF HistoryNext, history, Join, CutShort, Recall

LEMMA SharingStep == IInv /\ HistoryNext => Sharing'
<1> SUFFICES ASSUME IInv, HistoryNext,
                    NEW c \in Calls, NEW d \in Calls, c # d, NameOf[c] = NameOf[d],
                    phase'[c] \in Open, phase'[d] \in Open
             PROVE  c \in overlapped'
  BY DEF Sharing
<1>0. /\ InterfaceTypeOK /\ OwnCalls /\ Sharing /\ phase \in [Calls -> Steps]
      /\ overlapped \subseteq overlapped'
  BY OverlapGrows DEF IInv, NodesInv, InterfaceTypeOK
<1>1. CASE phase[c] \in Open /\ phase[d] \in Open
  BY <1>0, <1>1 DEF Sharing
<1>2. ASSUME NEW i \in Interfaces, NEW t \in Threads, NEW e \in Calls,
             BeginCall(i, t, e), Join(i, e)
      PROVE  c \in overlapped'
  <2>1. NameOf[e] = i /\ phase' = [phase EXCEPT ![e] = "begun"]
    BY <1>2 DEF BeginCall
  <2>2. CASE c = e
    <3>1. d \in OpenAt(i)
      BY <1>0, <2>1, <2>2 DEF OpenAt
    <3>2. QED
      BY <1>2, <2>2, <3>1 DEF Join
  <2>3. CASE d = e
    <3>1. c \in OpenAt(i)
      BY <1>0, <2>1, <2>3 DEF OpenAt
    <3>2. QED
      BY <1>2, <3>1 DEF Join
  <2>4. CASE c # e /\ d # e
    BY <1>0, <1>1, <2>1, <2>4
  <2>5. QED
    BY <2>2, <2>3, <2>4
<1>3. CASE phase' = phase
  BY <1>1, <1>3
<1>4. ASSUME NEW e \in Calls, Dispatch(e)
      PROVE  c \in overlapped'
  BY <1>0, <1>1, <1>4 DEF Dispatch, Open
<1>5. ASSUME NEW i \in Interfaces, NEW t \in Threads, NEW e \in Calls, CallStep(i, t, e)
      PROVE  c \in overlapped'
  <2>1. /\ phase[e] \in Open
        /\ \E to \in Later : phase' = [phase EXCEPT ![e] = to]
    BY <1>0, <1>5, CallStepFacts
  <2>2. QED
    BY <1>0, <1>1, <2>1
<1>6. QED
  BY <1>2, <1>3, <1>4, <1>5, Zenon
  DEF HistoryNext, Unrecorded, Cancel, SetCancelled, Hear, BeginCancel, SkipCall
-----------------------------------------------------------------------------
(* What a call reads.                                                      *)

(* A step inside one call leaves another that is alone on its node as it   *)
(* is, with the flags of the node.                                         *)
LEMMA OtherCall ==
  ASSUME IInv, NEW h \in Interfaces, NEW t \in Threads, NEW d \in Calls, CallStep(h, t, d),
         NEW c \in Calls, c # d, c \notin overlapped, NEW i \in Interfaces, NameOf[c] = i
  PROVE  /\ phase'[c] = phase[c]
         /\ result'[c] = result[c]
         /\ phase[c] \in Open => /\ action_success'[i] = action_success[i]
                                 /\ action_cancelled'[i] = action_cancelled[i]
<1>1. InterfaceTypeOK /\ OwnCalls /\ Sharing
  BY InvFacts DEF IInv
<1>2. NameOf[d] = h /\ phase[d] \in Open
  BY <1>1, CallStepFacts
<1>3. phase[c] \in Open => h # i
  BY <1>1, <1>2, Zenon DEF Sharing
<1>4. QED
  BY <1>1, <1>3, OtherCallKept

LEMMA ResultsStep == IInv /\ HistoryNext => Results'
<1> SUFFICES ASSUME IInv, HistoryNext,
                    NEW c \in Calls, c \notin overlapped, NEW i \in Interfaces, NameOf[c] = i
             PROVE  ResultOf(c, i)'
  BY OverlapGrows, Zenon DEF Results
<1>0. /\ InterfaceTypeOK /\ OwnCalls
      /\ phase \in [Calls -> Steps]
      /\ result \in [Calls -> {"none", "true", "false"}]
      /\ action_success \in [Interfaces -> BOOLEAN]
      /\ ResultOf(c, i)
  BY Zenon DEF IInv, NodesInv, InterfaceTypeOK, Results
<1>1. CASE phase'[c] = phase[c] /\ result' = result /\ action_success' = action_success
  BY <1>0, <1>1, Zenon DEF ResultOf
<1>2. CASE phase'[c] \in {"sent", "begun"}
  BY <1>2, Zenon DEF ResultOf
<1>3. ASSUME NEW h \in Interfaces, NEW t \in Threads, NEW d \in Calls, CallStep(h, t, d), d # c
      PROVE  ResultOf(c, i)'
  <2>1. /\ phase'[c] = phase[c] /\ result'[c] = result[c]
        /\ phase[c] \in Open => action_success'[i] = action_success[i]
    BY <1>3, OtherCall, Zenon
  <2>2. "returned" \in Open /\ "deciding" \in Open
    BY DEF Open
  <2>3. QED
    BY <1>0, <2>1, <2>2, Zenon DEF ResultOf
<1>4. ASSUME NEW h \in Interfaces, NEW t \in Threads, CallStep(h, t, c)
      PROVE  ResultOf(c, i)'
  BY <1>0, <1>4, OwnResult
<1>5. ASSUME NEW d \in Calls, Dispatch(d)
      PROVE  ResultOf(c, i)'
  <2>1. /\ phase' = [phase EXCEPT ![d] = "sent"]
        /\ result' = result /\ action_success' = action_success
    BY <1>5, Zenon DEF Dispatch
  <2>2. QED
    BY <1>0, <1>1, <1>2, <2>1
<1>6. ASSUME NEW h \in Interfaces, NEW t \in Threads, NEW d \in Calls, BeginCall(h, t, d)
      PROVE  ResultOf(c, i)'
  <2>1. /\ phase' = [phase EXCEPT ![d] = "begun"]
        /\ result' = result /\ action_success' = action_success
    BY <1>6, Zenon DEF BeginCall
  <2>2. QED
    BY <1>0, <1>1, <1>2, <2>1
<1>7. QED
  BY <1>1, <1>3, <1>4, <1>5, <1>6, Zenon
  DEF HistoryNext, Unrecorded, Cancel, SetCancelled, Hear, BeginCancel, SkipCall
CutAt(c, i) ==
  /\ phase[c] \in {"cleared", "enabled", "running", "returned"} \cup Quiet
  /\ phase[c] \notin Quiet => action_cancelled[i]

LEMMA CutsStep == IInv /\ HistoryNext => Cuts'
<1> SUFFICES ASSUME IInv, HistoryNext,
                    NEW c \in cut', c \notin overlapped, NEW i \in Interfaces, NameOf[c] = i
             PROVE  CutAt(c, i)'
  BY OverlapGrows, Zenon DEF Cuts, CutAt
<1>0. /\ InterfaceTypeOK /\ OwnCalls /\ HistoryTypes
      /\ phase \in [Calls -> Steps]
      /\ action_cancelled \in [Interfaces -> BOOLEAN]
      /\ c \in cut => CutAt(c, i)
  BY Zenon DEF IInv, NodesInv, InterfaceTypeOK, Cuts, CutAt
<1>c. c \in Calls
  BY NextHistory DEF HistoryTypes
<1>1. CASE c \in cut /\ phase'[c] = phase[c] /\ action_cancelled'[i] = action_cancelled[i]
  BY <1>0, <1>1, Zenon DEF CutAt
<1>2. ASSUME NEW h \in Interfaces, NEW t \in Threads, SetCancelled(h, t), CutShort(h)
      PROVE  CutAt(c, i)'
  <2>1. phase' = phase /\ action_cancelled' = [action_cancelled EXCEPT ![h] = TRUE]
    BY <1>2, Zenon DEF SetCancelled
  <2>2. CASE c \in cut
    BY <1>0, <1>1, <2>1, <2>2 DEF CutAt
  <2>3. CASE c \notin cut
    <3>1. c \in OpenAt(h) /\ phase[c] \in {"cleared", "enabled", "running", "returned"}
      BY <1>2, <2>3 DEF CutShort
    <3>2. h = i
      BY <3>1 DEF OpenAt
    <3>3. QED
      BY <1>0, <2>1, <3>1, <3>2 DEF CutAt
  <2>4. QED
    BY <2>2, <2>3
<1>3. ASSUME NEW d \in Calls, Dispatch(d), c \in cut
      PROVE  CutAt(c, i)'
  <2>1. /\ phase[d] = "unsent" /\ phase' = [phase EXCEPT ![d] = "sent"]
        /\ action_cancelled' = action_cancelled
    BY <1>3, Zenon DEF Dispatch
  <2>2. phase[c] # "unsent"
    BY <1>0, <1>3 DEF CutAt, Quiet
  <2>3. QED
    BY <1>0, <1>c, <1>1, <1>3, <2>1, <2>2
<1>4. ASSUME NEW h \in Interfaces, NEW t \in Threads, NEW d \in Calls, BeginCall(h, t, d), c \in cut
      PROVE  CutAt(c, i)'
  <2>1. phase' = [phase EXCEPT ![d] = "begun"] /\ action_cancelled' = action_cancelled
    BY <1>4, Zenon DEF BeginCall
  <2>2. phase[d] = "sent" /\ phase[c] # "sent"
    BY <1>0, <1>4, BeginsFromSent DEF IInv, CutAt, Quiet
  <2>3. QED
    BY <1>0, <1>c, <1>1, <1>4, <2>1, <2>2
<1>5. ASSUME NEW h \in Interfaces, NEW t \in Threads, NEW d \in Calls, CallStep(h, t, d), d # c,
             c \in cut
      PROVE  CutAt(c, i)'
  <2>1. /\ phase'[c] = phase[c]
        /\ phase[c] \in Open => action_cancelled'[i] = action_cancelled[i]
    BY <1>5, <1>c, OtherCall, Zenon
  <2>2. phase[c] \in Open \/ phase[c] \in Quiet
    BY <1>0, <1>5 DEF CutAt, Open, Quiet
  <2>3. QED
    BY <1>0, <1>5, <2>1, <2>2, Zenon DEF CutAt
<1>6. ASSUME NEW h \in Interfaces, NEW t \in Threads, CallStep(h, t, c), c \in cut
      PROVE  CutAt(c, i)'
  <2>0. h = i
    BY <1>0, <1>c, <1>6, CallStepFacts, Zenon
  <2>1. ASSUME NEW from, from \notin {"cleared", "enabled", "running", "returned"} \cup Quiet,
               At(h, t, c, from)
        PROVE  FALSE
    BY <1>0, <1>6, <2>1, Zenon DEF CutAt, At
  <2>2. CASE Enable(h, t, c) \/ StartEffects(h, t, c) \/ \E r \in BOOLEAN : Return(h, t, c, r)
    <3>1. /\ phase[c] \in {"cleared", "enabled", "running"} /\ action_cancelled' = action_cancelled
          /\ \E to \in {"enabled", "running", "returned"} : phase' = [phase EXCEPT ![c] = to]
      BY <2>2, Zenon DEF Enable, StartEffects, Return, Goto, At
    <3>2. phase'[c] \in {"enabled", "running", "returned"}
      BY <1>0, <1>c, <3>1
    <3>3. QED
      BY <1>0, <1>6, <3>1, <3>2 DEF CutAt, Quiet
  <2>3. CASE Reject(h, t, c) \/ SeeCancelled(h, t, c) \/ StopCancelled(h, t, c)
    <3>1. \E to \in Quiet : phase' = [phase EXCEPT ![c] = to]
      BY <2>3, Zenon DEF Reject, SeeCancelled, StopCancelled, Goto, Quiet
    <3>2. phase'[c] \in Quiet
      BY <1>0, <1>c, <3>1
    <3>3. QED
      BY <3>2 DEF CutAt
  <2>4. CASE GoOn(h, t, c)
    <3>1. phase[c] = "returned" /\ ~action_cancelled[i]
      BY <2>0, <2>4, Zenon DEF GoOn, At
    <3>2. QED
      BY <1>0, <1>6, <3>1 DEF CutAt, Quiet
  <2>5. CASE \/ ClearCancelled(h, t, c) \/ Decide(h, t, c) \/ EndEffects(h, t, c)
             \/ ReportAchieved(h, t, c) \/ ReportFailed(h, t, c)
    <3>1. \E from \in {"begun", "deciding", "ending", "ended", "failing"} : At(h, t, c, from)
      BY <2>5, Zenon DEF ClearCancelled, Decide, EndEffects, ReportAchieved, ReportFailed
    <3>2. QED
      BY <2>1, <3>1 DEF Quiet
  <2>6. QED
    BY <1>6, <2>2, <2>3, <2>4, <2>5, Zenon DEF CallStep
<1>7. ASSUME \/ Cancel /\ Recall
             \/ \E h \in Interfaces : Hear(h) /\ UNCHANGED history
             \/ \E h \in Interfaces, t \in Threads : BeginCancel(h, t) /\ UNCHANGED history
             \/ \E h \in Interfaces, t \in Threads, d \in Calls :
                  SkipCall(h, t, d) /\ UNCHANGED history
      PROVE  CutAt(c, i)'
  <2>1. phase' = phase /\ action_cancelled' = action_cancelled /\ cut' = cut
    BY <1>7, Zenon DEF Cancel, Recall, Hear, BeginCancel, SkipCall, history
  <2>2. QED
    BY <1>1, <2>1
<1>8. CASE c \in cut
  BY <1>2, <1>3, <1>4, <1>5, <1>6, <1>7, <1>8, Zenon DEF HistoryNext, Unrecorded
<1>9. CASE c \notin cut
  <2>1. cut' # cut
    BY <1>9
  <2>2. QED
    BY <1>2, <2>1, Zenon DEF HistoryNext, history, Join, Recall
<1>10. QED
  BY <1>8, <1>9

-----------------------------------------------------------------------------
(* The inductive invariant, for any nodes, calls, threads and queues.      *)
THEOREM Invariance == HistorySpec => []IInv
<1>1. HistoryInit => IInv
  BY InitInv
<1>2. IInv /\ [HistoryNext]_<<interfaceVars, history>> => IInv'
  <2> SUFFICES ASSUME IInv, [HistoryNext]_<<interfaceVars, history>> PROVE IInv'
    OBVIOUS
  <2>1. CASE HistoryNext
    <3>1. NodesInv'
      BY <2>1, HistoryStep, NextNodes DEF IInv
    <3>2. HistoryTypes' /\ CutPlaced' /\ Sharing' /\ Results' /\ Cuts'
      BY <2>1, NextHistory, SharingStep, ResultsStep, CutsStep
    <3>3. QED
      BY <3>1, <3>2 DEF IInv
  <2>2. CASE UNCHANGED <<interfaceVars, history>>
    BY <2>2, StutterInv
  <2>3. QED
    BY <2>1, <2>2
<1>3. QED
  BY <1>1, <1>2, PTL DEF HistorySpec

(* The nodes keep their types: a call is reported once it was heard, only  *)
(* as enabled, achieved or failed, and a return is a Boolean.              *)
THEOREM InterfaceTypeCorrect == HistorySpec => []InterfaceTypeOK
<1>1. IInv => InterfaceTypeOK
  BY InvFacts
<1>2. QED
  BY <1>1, Invariance, PTL

(* However many calls, nodes and threads there are, and whatever messages  *)
(* are lost: a call alone on its node is reported as it returned.          *)
THEOREM TruthfulAloneCorrect == HistorySpec => []TruthfulAlone
<1>1. IInv => TruthfulAlone
  <2> SUFFICES ASSUME IInv, NEW c \in Calls, c \notin overlapped
               PROVE  /\ phase[c] \in {"ending", "ended", "achieved"} => result[c] = "true"
                      /\ phase[c] \in {"failing", "failed"} => result[c] = "false"
    BY DEF TruthfulAlone
  <2>1. CASE phase[c] \in Open \cup Over
    <3>1. NameOf[c] \in Interfaces
      BY <2>1, InvFacts DEF Placed
    <3>2. QED
      BY <3>1, Zenon DEF IInv, Results, ResultOf
  <2>2. CASE phase[c] \notin Open \cup Over
    BY <2>2 DEF Open, Over
  <2>3. QED
    BY <2>1, <2>2
<1>2. QED
  BY <1>1, Invariance, PTL

(* And one that was cancelled before it looked at the flag ends quietly.   *)
THEOREM QuietWhenCutCorrect == HistorySpec => []QuietWhenCut
<1>1. IInv => QuietWhenCut
  <2> SUFFICES ASSUME IInv, NEW c \in cut, c \notin overlapped
               PROVE  phase[c] \in {"cleared", "enabled", "running", "returned"} \cup Quiet
    BY DEF QuietWhenCut, Quiet
  <2>1. NameOf[c] \in Interfaces
    BY DEF IInv, CutPlaced
  <2>2. QED
    BY <2>1, Zenon DEF IInv, Cuts
<1>2. QED
  BY <1>1, Invariance, PTL
=============================================================================
