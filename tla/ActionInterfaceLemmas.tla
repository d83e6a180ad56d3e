------------------------ MODULE ActionInterfaceLemmas ------------------------
(***************************************************************************)
(* What each step of the action interfaces does, for any number of nodes,  *)
(* calls and threads, and what needs no history to hold of them:           *)
(*   - a thread of a node runs calls of the node's own action only;        *)
(*   - a call waits in its node's queue once, and only before it begins.   *)
(* The proofs of ActionInterfaceHistory rest on these lemmas, and so do    *)
(* those of DispatchSystem, which drives the interfaces.                   *)
(***************************************************************************)
EXTENDS ActionInterface, SequenceTheorems, TLAPS

Mine(i) == {CancelAction} \cup {c \in Calls : NameOf[c] = i}

OwnCalls == \A i \in Interfaces, t \in Threads : spinner[i][t] \in Seq(Mine(i))

OnlyAt(c, i, j) == \A k \in 1 .. Len(queue[i]) : queue[i][k] = c => k = j

WaitsOnce ==
  \A c \in Calls, i \in Interfaces :
    NameOf[c] = i =>
      \A j \in 1 .. Len(queue[i]) :
        queue[i][j] = c => phase[c] = "sent" /\ OnlyAt(c, i, j)

(* A call that got as far as its node belongs to a node.                   *)
Placed ==
  \A c \in Calls : phase[c] \in Open \cup Over => NameOf[c] \in Interfaces

NodesInv == InterfaceTypeOK /\ OwnCalls /\ WaitsOnce /\ Placed

-----------------------------------------------------------------------------
(* The sequences.                                                          *)

LEMMA PrefixType ==
  ASSUME NEW S, NEW s \in Seq(S), s # <<>>
  PROVE  /\ SubSeq(s, 1, Len(s) - 1) \in Seq(S)
         /\ Len(SubSeq(s, 1, Len(s) - 1)) = Len(s) - 1
         /\ \A j \in 1 .. Len(s) - 1 : SubSeq(s, 1, Len(s) - 1)[j] = s[j]
<1>1. Len(s) \in Nat \ {0} /\ \A j \in 1 .. Len(s) : s[j] \in S
  BY EmptySeq
<1> DEFINE n == Len(s) - 1
<1>2. 1 \in Int /\ n \in Nat /\ n \in Int /\ \A j \in 1 .. n : s[j] \in S
  BY <1>1
<1> HIDE DEF n
<1>3. /\ SubSeq(s, 1, n) \in Seq(S)
      /\ Len(SubSeq(s, 1, n)) = IF 1 <= n THEN n - 1 + 1 ELSE 0
      /\ \A j \in 1 .. n - 1 + 1 : SubSeq(s, 1, n)[j] = s[1 + j - 1]
  BY <1>2, SubSeqProperties
<1>4. /\ SubSeq(s, 1, n) \in Seq(S)
      /\ Len(SubSeq(s, 1, n)) = n
      /\ \A j \in 1 .. n : SubSeq(s, 1, n)[j] = s[j]
  <2>1. n - 1 + 1 = n /\ (~(1 <= n) => n = 0) /\ \A j \in 1 .. n : 1 + j - 1 = j
    BY <1>2
  <2>2. QED
    BY <1>3, <2>1
<1>5. QED
  BY <1>4 DEF n

LEMMA LastType ==
  ASSUME NEW S, NEW s \in Seq(S), s # <<>>
  PROVE  Last(s) \in S
BY DEF Last

(* A published message is the last one of each queue, after the others or  *)
(* all but the last of them.                                               *)
LEMMA PublishFacts ==
  ASSUME InterfaceTypeOK, NEW m \in Messages, Publish(m)
  PROVE  /\ queue' \in [Interfaces -> Seq(Messages)]
         /\ \A i \in Interfaces :
              \E k \in Nat : /\ k <= Len(queue[i])
                             /\ Len(queue'[i]) = k + 1
                             /\ queue'[i][k + 1] = m
                             /\ \A j \in 1 .. k : queue'[i][j] = queue[i][j]
<1>1. PICK lost \in SUBSET {i \in Interfaces : queue[i] # <<>>} :
        queue' = [i \in Interfaces |->
                    Append(IF i \in lost THEN SubSeq(queue[i], 1, Len(queue[i]) - 1)
                           ELSE queue[i], m)]
  BY DEF Publish
<1>2. ASSUME NEW i \in Interfaces
      PROVE  /\ queue'[i] \in Seq(Messages)
             /\ \E k \in Nat : /\ k <= Len(queue[i])
                               /\ Len(queue'[i]) = k + 1
                               /\ queue'[i][k + 1] = m
                               /\ \A j \in 1 .. k : queue'[i][j] = queue[i][j]
  <2>0. queue[i] \in Seq(Messages) /\ Len(queue[i]) \in Nat
    BY DEF InterfaceTypeOK
  <2>1. CASE i \in lost
    <3> DEFINE s == SubSeq(queue[i], 1, Len(queue[i]) - 1)
    <3>1. queue[i] # <<>> /\ queue'[i] = Append(s, m)
      BY <1>1, <2>1
    <3>2. /\ s \in Seq(Messages) /\ Len(s) = Len(queue[i]) - 1
          /\ \A j \in 1 .. Len(queue[i]) - 1 : s[j] = queue[i][j]
      BY <2>0, <3>1, PrefixType
    <3> HIDE DEF s
    <3>3. Len(s) \in Nat
      BY <3>2
    <3>4. QED
      BY <2>0, <3>1, <3>2, <3>3
  <2>2. CASE i \notin lost
    <3>1. queue'[i] = Append(queue[i], m)
      BY <1>1, <2>2
    <3>2. QED
      BY <2>0, <3>1
  <2>3. QED
    BY <2>1, <2>2
<1>3. queue' = [i \in Interfaces |-> queue'[i]]
  BY <1>1
<1>4. QED
  BY <1>2, <1>3

LEMMA TakesFacts ==
  ASSUME InterfaceTypeOK, NEW i \in Interfaces, NEW t \in Threads, NEW m \in Messages,
         Takes(i, t, m)
  PROVE  /\ queue' \in [Interfaces -> Seq(Messages)]
         /\ Len(queue[i]) \in Nat \ {0}
         /\ queue[i][1] = m
         /\ Len(queue'[i]) = Len(queue[i]) - 1
         /\ \A j \in 1 .. Len(queue[i]) - 1 : queue'[i][j] = queue[i][j + 1]
         /\ \A h \in Interfaces \ {i} : queue'[h] = queue[h]
<1>1. /\ queue[i] \in Seq(Messages) /\ queue[i] # <<>> /\ Head(queue[i]) = m
      /\ queue' = [queue EXCEPT ![i] = Tail(queue[i])]
  BY DEF Takes, InterfaceTypeOK
<1>2. Tail(queue[i]) \in Seq(Messages)
  BY <1>1
<1>3. queue' \in [Interfaces -> Seq(Messages)]
  BY <1>1, <1>2 DEF InterfaceTypeOK
<1>4. queue'[i] = Tail(queue[i]) /\ \A h \in Interfaces \ {i} : queue'[h] = queue[h]
  BY <1>1 DEF InterfaceTypeOK
<1>5. QED
  BY <1>1, <1>3, <1>4

LEMMA EnterFacts ==
  ASSUME InterfaceTypeOK, OwnCalls, NEW i \in Interfaces, NEW t \in Threads,
         NEW m \in Mine(i), m \in Messages, Enter(i, t, m)
  PROVE  spinner' \in [Interfaces -> [Threads -> Seq(Messages)]] /\ OwnCalls'
<1>1. spinner[i][t] \in Seq(Messages) /\ spinner[i][t] \in Seq(Mine(i))
  BY DEF InterfaceTypeOK, OwnCalls
<1>2. Append(spinner[i][t], m) \in Seq(Messages) /\ Append(spinner[i][t], m) \in Seq(Mine(i))
  BY <1>1
<1>3. QED
  BY <1>2 DEF Enter, InterfaceTypeOK, OwnCalls

LEMMA LeaveFacts ==
  ASSUME InterfaceTypeOK, OwnCalls, NEW i \in Interfaces, NEW t \in Threads,
         spinner[i][t] # <<>>, Leave(i, t)
  PROVE  spinner' \in [Interfaces -> [Threads -> Seq(Messages)]] /\ OwnCalls'
<1> DEFINE s == SubSeq(spinner[i][t], 1, Len(spinner[i][t]) - 1)
<1>1. spinner[i][t] \in Seq(Messages) /\ spinner[i][t] \in Seq(Mine(i))
  BY DEF InterfaceTypeOK, OwnCalls
<1>2. s \in Seq(Messages) /\ s \in Seq(Mine(i))
  BY <1>1, PrefixType
<1>3. spinner' = [spinner EXCEPT ![i][t] = s]
  BY DEF Leave
<1> HIDE DEF s
<1>4. QED
  BY <1>2, <1>3 DEF InterfaceTypeOK, OwnCalls

(* The innermost call of a thread is one of its node's action.             *)
LEMMA AtFacts ==
  ASSUME InterfaceTypeOK, OwnCalls, NEW i \in Interfaces, NEW t \in Threads,
         NEW c \in Calls, NEW from, At(i, t, c, from)
  PROVE  NameOf[c] = i /\ phase[c] = from /\ spinner[i][t] # <<>>
<1>1. spinner[i][t] \in Seq(Mine(i)) /\ spinner[i][t] # <<>> /\ Last(spinner[i][t]) = c
      /\ phase[c] = from
  BY DEF OwnCalls, At, Innermost
<1>2. c \in Mine(i)
  BY <1>1, LastType
<1>3. QED
  BY <1>1, <1>2, InterfaceAssumption DEF Mine

LEMMA ReportType ==
  ASSUME InterfaceTypeOK, NEW i \in Interfaces, NEW c \in Calls,
         NEW status \in {"enabled", "achieved", "failed"}, Report(i, c, status)
  PROVE  feedback' \in [Interfaces -> Seq(Reports)]
<1>1. [call |-> c, status |-> status] \in Reports /\ feedback[i] \in Seq(Reports)
  BY DEF Reports, InterfaceTypeOK
<1>2. Append(feedback[i], [call |-> c, status |-> status]) \in Seq(Reports)
  BY <1>1
<1>3. QED
  BY <1>2 DEF Report, InterfaceTypeOK
-----------------------------------------------------------------------------
(* Types, and whose calls a node runs.                                     *)

LEMMA InitNodes == InterfaceInit => NodesInv
<1> SUFFICES ASSUME InterfaceInit PROVE NodesInv
  OBVIOUS
<1> USE DEF InterfaceInit
<1>1. InterfaceTypeOK
  BY DEF InterfaceTypeOK, Steps
<1>2. OwnCalls
  BY DEF OwnCalls
<1>3. WaitsOnce
  BY DEF WaitsOnce
<1>4. Placed
  BY DEF Placed, Open, Over
<1>5. QED
  BY <1>1, <1>2, <1>3, <1>4 DEF NodesInv

Later == (Open \cup Over) \ {"begun"}

(* A step inside a call moves that call, which its node has open.          *)
LEMMA CallStepFacts ==
  ASSUME InterfaceTypeOK, OwnCalls, NEW i \in Interfaces, NEW t \in Threads,
         NEW c \in Calls, CallStep(i, t, c)
  PROVE  /\ NameOf[c] = i
         /\ phase[c] \in Open
         /\ queue' = queue
         /\ \E to \in Later : phase' = [phase EXCEPT ![c] = to]
<1>c. /\ "cleared" \in Later /\ "stopping" \in Later /\ "enabled" \in Later /\ "running" \in Later /\ "returned" \in Later
      /\ "deciding" \in Later /\ "ending" \in Later /\ "ended" \in Later /\ "failing" \in Later
      /\ "rejected" \in Later /\ "stopped" \in Later /\ "achieved" \in Later /\ "failed" \in Later
  BY DEF Later, Open, Over
<1>a. ASSUME NEW from \in Open, NEW to \in Later, At(i, t, c, from), Goto(c, to), queue' = queue
      PROVE  /\ NameOf[c] = i
             /\ phase[c] \in Open
             /\ queue' = queue
             /\ \E next \in Later : phase' = [phase EXCEPT ![c] = next]
  <2>1. NameOf[c] = i /\ phase[c] = from
    BY <1>a, AtFacts, Zenon
  <2>2. \E next \in Later : phase' = [phase EXCEPT ![c] = next]
    BY <1>a, Zenon DEF Goto
  <2>3. QED
    BY <1>a, <2>1, <2>2
<1>b. /\ "cleared" \in Open /\ "stopping" \in Open /\ "begun" \in Open /\ "enabled" \in Open /\ "running" \in Open /\ "returned" \in Open
      /\ "deciding" \in Open /\ "ending" \in Open /\ "ended" \in Open /\ "failing" \in Open
  BY DEF Open
<1>1. CASE ClearCancelled(i, t, c)
  BY <1>1, <1>a, <1>b, <1>c, Zenon DEF ClearCancelled
<1>2. CASE Reject(i, t, c) \/ Enable(i, t, c)
  BY <1>2, <1>a, <1>b, <1>c, Zenon DEF Reject, Enable
<1>3. CASE StartEffects(i, t, c)
  BY <1>3, <1>a, <1>b, <1>c, Zenon DEF StartEffects
<1>4. CASE \E r \in BOOLEAN : Return(i, t, c, r)
  BY <1>4, <1>a, <1>b, <1>c, Zenon DEF Return
<1>5. CASE SeeCancelled(i, t, c) \/ StopCancelled(i, t, c)
  BY <1>5, <1>a, <1>b, <1>c, Zenon DEF SeeCancelled, StopCancelled
<1>6. CASE GoOn(i, t, c)
  BY <1>6, <1>a, <1>b, <1>c, Zenon DEF GoOn
<1>7. CASE Decide(i, t, c)
  <2>1. At(i, t, c, "deciding") /\ queue' = queue /\ (Goto(c, "ending") \/ Goto(c, "failing"))
    BY <1>7, Zenon DEF Decide
  <2>2. QED
    BY <2>1, <1>a, <1>b, <1>c, Zenon
<1>8. CASE EndEffects(i, t, c)
  BY <1>8, <1>a, <1>b, <1>c, Zenon DEF EndEffects
<1>9. CASE ReportAchieved(i, t, c)
  BY <1>9, <1>a, <1>b, <1>c, Zenon DEF ReportAchieved
<1>10. CASE ReportFailed(i, t, c)
  BY <1>10, <1>a, <1>b, <1>c, Zenon DEF ReportFailed
<1>11. QED
  BY <1>1, <1>2, <1>3, <1>4, <1>5, <1>6, <1>7, <1>8, <1>9, <1>10, Zenon DEF CallStep

LEMMA CallStepTypes ==
  ASSUME InterfaceTypeOK, OwnCalls, NEW i \in Interfaces, NEW t \in Threads,
         NEW c \in Calls, CallStep(i, t, c)
  PROVE  InterfaceTypeOK' /\ OwnCalls'
<1>1. /\ queue' \in [Interfaces -> Seq(Messages)]
      /\ phase' \in [Calls -> Steps]
  <2>1. PICK to \in Later : phase' = [phase EXCEPT ![c] = to]
    BY CallStepFacts
  <2>2. to \in Steps
    BY DEF Later, Steps
  <2>3. QED
    BY <2>1, <2>2, CallStepFacts DEF InterfaceTypeOK
<1>2. spinner' = spinner \/ (spinner[i][t] # <<>> /\ Leave(i, t))
  BY Zenon DEF CallStep, ClearCancelled, Reject, Enable, StartEffects, Return,
               SeeCancelled, StopCancelled, GoOn, Decide,
               EndEffects, ReportAchieved, ReportFailed, At, Innermost
<1>3. spinner' \in [Interfaces -> [Threads -> Seq(Messages)]] /\ OwnCalls'
  <2>1. CASE spinner' = spinner
    BY <2>1 DEF InterfaceTypeOK, OwnCalls
  <2>2. QED
    BY <1>2, <2>1, LeaveFacts
<1>4. action_cancelled' \in [Interfaces -> BOOLEAN]
  <2>1. \/ action_cancelled' = action_cancelled
        \/ action_cancelled' = [action_cancelled EXCEPT ![i] = FALSE]
    BY Zenon DEF CallStep, ClearCancelled, Reject, Enable, StartEffects, Return,
               SeeCancelled, StopCancelled, GoOn, Decide,
                 EndEffects, ReportAchieved, ReportFailed
  <2>2. QED
    BY <2>1 DEF InterfaceTypeOK
<1>5. action_success' \in [Interfaces -> BOOLEAN]
  <2>1. \/ action_success' = action_success
        \/ \E r \in BOOLEAN : action_success' = [action_success EXCEPT ![i] = r]
    BY Zenon DEF CallStep, ClearCancelled, Reject, Enable, StartEffects, Return,
               SeeCancelled, StopCancelled, GoOn, Decide,
                 EndEffects, ReportAchieved, ReportFailed
  <2>2. QED
    BY <2>1 DEF InterfaceTypeOK
<1>6. feedback' \in [Interfaces -> Seq(Reports)]
  <2>1. \/ feedback' = feedback
        \/ \E status \in {"enabled", "achieved", "failed"} : Report(i, c, status)
    BY Zenon DEF CallStep, ClearCancelled, Reject, Enable, StartEffects, Return,
               SeeCancelled, StopCancelled, GoOn, Decide,
                 EndEffects, ReportAchieved, ReportFailed
  <2>2. QED
    BY <2>1, ReportType DEF InterfaceTypeOK
<1>7. result' \in [Calls -> {"none", "true", "false"}]
  <2>1. \/ result' = result
        \/ \E v \in {"true", "false"} : result' = [result EXCEPT ![c] = v]
    <3>1. CASE \E r \in BOOLEAN : Return(i, t, c, r)
      BY <3>1 DEF Return
    <3>2. CASE result' = result
      BY <3>2
    <3>3. QED
      BY <3>1, <3>2, Zenon
      DEF CallStep, ClearCancelled, Reject, Enable, StartEffects, SeeCancelled, StopCancelled, GoOn, Decide,
          EndEffects, ReportAchieved, ReportFailed
  <2>2. QED
    BY <2>1 DEF InterfaceTypeOK
<1>8. QED
  BY <1>1, <1>3, <1>4, <1>5, <1>6, <1>7, Zenon DEF InterfaceTypeOK

LEMMA NextTypes ==
  ASSUME InterfaceTypeOK, OwnCalls, InterfaceNext
  PROVE  InterfaceTypeOK' /\ OwnCalls'
<1>0. CancelAction \in Messages /\ \A i : CancelAction \in Mine(i)
  BY DEF Messages, Mine
<1>2. CASE Cancel
  BY <1>0, <1>2, PublishFacts DEF Cancel, InterfaceTypeOK, OwnCalls
<1>3. ASSUME NEW i \in Interfaces, NEW t \in Threads, SetCancelled(i, t)
      PROVE  InterfaceTypeOK' /\ OwnCalls'
  BY <1>3, LeaveFacts DEF SetCancelled, Innermost, InterfaceTypeOK
<1>4. ASSUME NEW i \in Interfaces, NEW t \in Threads, NEW c \in Calls, BeginCall(i, t, c)
      PROVE  InterfaceTypeOK' /\ OwnCalls'
  <2>1. c \in Messages /\ c \in Mine(i)
    BY <1>4 DEF BeginCall, Messages, Mine
  <2>2. QED
    BY <1>4, <2>1, TakesFacts, EnterFacts DEF BeginCall, InterfaceTypeOK, Steps, Open
<1>5. ASSUME NEW c \in Calls, Dispatch(c)
      PROVE  InterfaceTypeOK' /\ OwnCalls'
  <2>1. c \in Messages
    BY DEF Messages
  <2>2. QED
    BY <1>5, <2>1, PublishFacts DEF Dispatch, InterfaceTypeOK, OwnCalls, Steps
<1>6. ASSUME NEW i \in Interfaces, Hear(i)
      PROVE  InterfaceTypeOK' /\ OwnCalls'
  <2>1. feedback[i] \in Seq(Reports) /\ feedback[i] # <<>>
    BY <1>6 DEF Hear, InterfaceTypeOK
  <2>2. Tail(feedback[i]) \in Seq(Reports)
    BY <2>1
  <2>3. QED
    BY <1>6, <2>2 DEF Hear, InterfaceTypeOK, OwnCalls
<1>7. ASSUME NEW i \in Interfaces, NEW t \in Threads, BeginCancel(i, t)
      PROVE  InterfaceTypeOK' /\ OwnCalls'
  BY <1>0, <1>7, TakesFacts, EnterFacts DEF BeginCancel, InterfaceTypeOK
<1>8. ASSUME NEW i \in Interfaces, NEW t \in Threads, NEW c \in Calls, SkipCall(i, t, c)
      PROVE  InterfaceTypeOK' /\ OwnCalls'
  <2>1. c \in Messages
    BY DEF Messages
  <2>2. QED
    BY <1>8, <2>1, TakesFacts DEF SkipCall, InterfaceTypeOK, OwnCalls
<1>9. QED
  BY <1>2, <1>3, <1>4, <1>5, <1>6, <1>7, <1>8, CallStepTypes, Zenon
  DEF InterfaceNext, NodeStep, ThreadStep

-----------------------------------------------------------------------------
(* Waiting.                                                                *)

LEMMA CancelMessage == CancelAction \in Messages /\ \A c \in Calls : c \in Messages
BY DEF Messages

LEMMA PublishKeeps ==
  ASSUME InterfaceTypeOK, WaitsOnce, NEW m \in Messages, Publish(m),
         NEW c \in Calls, NEW i \in Interfaces, NameOf[c] = i, c # m,
         NEW j \in 1 .. Len(queue'[i]), queue'[i][j] = c
  PROVE  /\ phase[c] = "sent"
         /\ OnlyAt(c, i, j)'
<1>1. PICK n \in Nat : /\ n <= Len(queue[i])
                       /\ Len(queue'[i]) = n + 1
                       /\ queue'[i][n + 1] = m
                       /\ \A k \in 1 .. n : queue'[i][k] = queue[i][k]
  BY PublishFacts
<1>2. Len(queue[i]) \in Nat
  BY DEF InterfaceTypeOK
<1>3. j \in 1 .. n /\ j \in 1 .. Len(queue[i]) /\ queue[i][j] = c
  BY <1>1, <1>2
<1>4. phase[c] = "sent" /\ OnlyAt(c, i, j)
  BY <1>3 DEF WaitsOnce
<1>5. QED
  BY <1>1, <1>2, <1>4 DEF OnlyAt

LEMMA TakesKeeps ==
  ASSUME InterfaceTypeOK, WaitsOnce, NEW i \in Interfaces, NEW t \in Threads,
         NEW m \in Messages, Takes(i, t, m),
         NEW c \in Calls, NEW h \in Interfaces, NameOf[c] = h,
         NEW j \in 1 .. Len(queue'[h]), queue'[h][j] = c
  PROVE  /\ phase[c] = "sent"
         /\ OnlyAt(c, h, j)'
<1>1. /\ Len(queue[i]) \in Nat \ {0}
      /\ queue[i][1] = m
      /\ Len(queue'[i]) = Len(queue[i]) - 1
      /\ \A k \in 1 .. Len(queue[i]) - 1 : queue'[i][k] = queue[i][k + 1]
      /\ \A g \in Interfaces \ {i} : queue'[g] = queue[g]
  BY TakesFacts
<1>2. CASE h # i
  BY <1>1, <1>2 DEF WaitsOnce, OnlyAt
<1>3. CASE h = i
  <2>1. j + 1 \in 1 .. Len(queue[h]) /\ queue[h][j + 1] = c
    BY <1>1, <1>3
  <2>2. phase[c] = "sent" /\ OnlyAt(c, h, j + 1)
    BY <2>1 DEF WaitsOnce
  <2>3. \A k \in 1 .. Len(queue'[h]) :
          queue'[h][k] = queue[h][k + 1] /\ k + 1 \in 1 .. Len(queue[h])
    BY <1>1, <1>3
  <2>4. \A k \in 1 .. Len(queue'[h]) : queue'[h][k] = c => k + 1 = j + 1
    BY <2>2, <2>3 DEF OnlyAt
  <2>5. QED
    BY <2>2, <2>4 DEF OnlyAt
<1>4. QED
  BY <1>2, <1>3

(* A call that was taken no longer waits.                                  *)
LEMMA TakesNoMore ==
  ASSUME InterfaceTypeOK, WaitsOnce, NEW i \in Interfaces, NEW t \in Threads,
         NEW c \in Calls, c \in Messages, NameOf[c] = i, Takes(i, t, c),
         NEW j \in 1 .. Len(queue'[i])
  PROVE  queue'[i][j] # c
<1>1. /\ Len(queue[i]) \in Nat \ {0}
      /\ queue[i][1] = c
      /\ Len(queue'[i]) = Len(queue[i]) - 1
      /\ \A k \in 1 .. Len(queue[i]) - 1 : queue'[i][k] = queue[i][k + 1]
  BY TakesFacts
<1>2. 1 \in 1 .. Len(queue[i]) /\ j + 1 \in 1 .. Len(queue[i]) /\ 1 # j + 1
  BY <1>1
<1>3. queue[i][j + 1] # c
  BY <1>1, <1>2 DEF WaitsOnce, OnlyAt
<1>4. QED
  BY <1>1, <1>2, <1>3

LEMMA WaitsStep == NodesInv /\ InterfaceNext => WaitsOnce'
<1> SUFFICES ASSUME NodesInv, InterfaceNext,
                    NEW c \in Calls, NEW i \in Interfaces, NameOf[c] = i,
                    NEW j \in 1 .. Len(queue'[i]), queue'[i][j] = c
             PROVE  /\ phase'[c] = "sent"
                    /\ OnlyAt(c, i, j)'
  BY DEF WaitsOnce
<1>0. InterfaceTypeOK /\ OwnCalls /\ WaitsOnce /\ c # CancelAction /\ phase \in [Calls -> Steps]
  BY InterfaceAssumption DEF NodesInv, InterfaceTypeOK
<1>1. CASE queue' = queue /\ phase' = phase
  BY <1>0, <1>1 DEF WaitsOnce, OnlyAt
<1>2. CASE Cancel
  <2>1. CancelAction \in Messages /\ Publish(CancelAction) /\ phase' = phase
    BY <1>2 DEF Cancel, Messages
  <2>2. /\ phase[c] = "sent"
        /\ OnlyAt(c, i, j)'
    BY <1>0, <2>1, PublishKeeps, Zenon
  <2>3. QED
    BY <2>1, <2>2
<1>3. ASSUME NEW d \in Calls, Dispatch(d)
      PROVE  /\ phase'[c] = "sent"
             /\ OnlyAt(c, i, j)'
  <2>1. d \in Messages /\ Publish(d) /\ phase' = [phase EXCEPT ![d] = "sent"] /\ phase[d] = "unsent"
    BY <1>3 DEF Dispatch, Messages
  <2>2. CASE c # d
    BY <1>0, <2>1, <2>2, PublishKeeps, Zenon
  <2>3. CASE c = d
    <3>1. PICK n \in Nat : /\ n <= Len(queue[i])
                           /\ Len(queue'[i]) = n + 1
                           /\ \A k \in 1 .. n : queue'[i][k] = queue[i][k]
      BY <1>0, <2>1, PublishFacts
    <3>2. Len(queue[i]) \in Nat
      BY <1>0 DEF InterfaceTypeOK
    <3>3. phase[c] # "sent"
      BY <2>1, <2>3
    <3>4. \A k \in 1 .. Len(queue[i]) : queue[i][k] # c
      BY <1>0, <3>3, Zenon DEF WaitsOnce
    <3>5. \A k \in 1 .. Len(queue'[i]) : queue'[i][k] = c => k = n + 1
      BY <3>1, <3>2, <3>4
    <3>6. QED
      BY <1>0, <2>1, <2>3, <3>5 DEF OnlyAt
  <2>4. QED
    BY <2>2, <2>3
<1>4. ASSUME NEW h \in Interfaces, NEW t \in Threads, BeginCancel(h, t)
      PROVE  /\ phase'[c] = "sent"
             /\ OnlyAt(c, i, j)'
  BY <1>0, <1>4, TakesKeeps, CancelMessage, Zenon DEF BeginCancel
<1>5. ASSUME NEW h \in Interfaces, NEW t \in Threads, NEW d \in Calls, SkipCall(h, t, d)
      PROVE  /\ phase'[c] = "sent"
             /\ OnlyAt(c, i, j)'
  BY <1>0, <1>5, TakesKeeps, CancelMessage, Zenon DEF SkipCall
<1>6. ASSUME NEW h \in Interfaces, NEW t \in Threads, NEW d \in Calls, BeginCall(h, t, d)
      PROVE  /\ phase'[c] = "sent"
             /\ OnlyAt(c, i, j)'
  <2>1. d \in Messages /\ Takes(h, t, d) /\ NameOf[d] = h /\ phase' = [phase EXCEPT ![d] = "begun"]
    BY <1>6 DEF BeginCall, Messages
  <2>2. /\ phase[c] = "sent"
        /\ OnlyAt(c, i, j)'
    BY <1>0, <2>1, TakesKeeps, Zenon
  <2>3. c # d
    BY <1>0, <2>1, TakesNoMore, Zenon
  <2>4. QED
    BY <1>0, <2>1, <2>2, <2>3
<1>7. ASSUME NEW h \in Interfaces, NEW t \in Threads, NEW d \in Calls, CallStep(h, t, d)
      PROVE  /\ phase'[c] = "sent"
             /\ OnlyAt(c, i, j)'
  <2>1. /\ phase[d] \in Open /\ queue' = queue
        /\ \E to \in Later : phase' = [phase EXCEPT ![d] = to]
    BY <1>0, <1>7, CallStepFacts
  <2>2. /\ phase[c] = "sent"
        /\ OnlyAt(c, i, j)'
    BY <1>0, <2>1 DEF WaitsOnce, OnlyAt
  <2>3. c # d
    BY <2>1, <2>2 DEF Open
  <2>4. QED
    BY <1>0, <2>1, <2>2, <2>3
<1>8. ASSUME NEW h \in Interfaces, NEW t \in Threads, SetCancelled(h, t)
      PROVE  queue' = queue /\ phase' = phase
  BY <1>8 DEF SetCancelled
<1>9. ASSUME NEW h \in Interfaces, Hear(h)
      PROVE  queue' = queue /\ phase' = phase
  BY <1>9 DEF Hear
<1>10. QED
  BY <1>1, <1>2, <1>3, <1>4, <1>5, <1>6, <1>7, <1>8, <1>9, Zenon DEF InterfaceNext, NodeStep, ThreadStep

LEMMA PlacedStep == NodesInv /\ InterfaceNext => Placed'
<1> SUFFICES ASSUME NodesInv, InterfaceNext PROVE Placed'
  OBVIOUS
<1>0. InterfaceTypeOK /\ OwnCalls /\ Placed /\ phase \in [Calls -> Steps]
  BY DEF NodesInv, InterfaceTypeOK
<1>2. CASE phase' = phase
  BY <1>0, <1>2 DEF Placed
<1>3. ASSUME NEW c \in Calls, Dispatch(c)
      PROVE  Placed'
  BY <1>0, <1>3 DEF Dispatch, Placed, Open, Over
<1>4. ASSUME NEW i \in Interfaces, NEW c \in Calls, NameOf[c] = i,
             NEW to, phase' = [phase EXCEPT ![c] = to]
      PROVE  Placed'
  BY <1>0, <1>4 DEF Placed
<1>5. ASSUME NEW i \in Interfaces, NEW t \in Threads, NEW c \in Calls, BeginCall(i, t, c)
      PROVE  Placed'
  BY <1>4, <1>5, Zenon DEF BeginCall
<1>6. ASSUME NEW i \in Interfaces, NEW t \in Threads, NEW c \in Calls, CallStep(i, t, c)
      PROVE  Placed'
  BY <1>0, <1>4, <1>6, CallStepFacts, Zenon
<1>7. QED
  BY <1>2, <1>3, <1>5, <1>6, Zenon
  DEF InterfaceNext, NodeStep, ThreadStep, Cancel, SetCancelled, Hear, BeginCancel, SkipCall

(* A call that begins was waiting.                                         *)
LEMMA BeginsFromSent ==
  ASSUME NodesInv, NEW i \in Interfaces, NEW t \in Threads, NEW c \in Calls, BeginCall(i, t, c)
  PROVE  phase[c] = "sent"
<1>1. InterfaceTypeOK /\ WaitsOnce /\ c \in Messages /\ Takes(i, t, c) /\ NameOf[c] = i
  BY DEF NodesInv, BeginCall, Messages
<1>2. Len(queue[i]) \in Nat \ {0} /\ queue[i][1] = c
  BY <1>1, TakesFacts
<1>3. 1 \in 1 .. Len(queue[i])
  BY <1>2
<1>4. QED
  BY <1>1, <1>2, <1>3 DEF WaitsOnce

-----------------------------------------------------------------------------
(* What a call reads and reports.                                          *)

LEMMA CallStepFlags ==
  ASSUME NEW i \in Interfaces, NEW t \in Threads, NEW c \in Calls, CallStep(i, t, c)
  PROVE  /\ \/ result' = result
            \/ \E v \in {"true", "false"} : result' = [result EXCEPT ![c] = v]
         /\ \/ action_success' = action_success
            \/ \E r \in BOOLEAN : action_success' = [action_success EXCEPT ![i] = r]
         /\ \/ action_cancelled' = action_cancelled
            \/ action_cancelled' = [action_cancelled EXCEPT ![i] = FALSE]
         /\ spinner' = spinner \/ (spinner[i][t] # <<>> /\ Leave(i, t))
<1>1. \/ result' = result
      \/ \E v \in {"true", "false"} : result' = [result EXCEPT ![c] = v]
  <2>1. CASE \E r \in BOOLEAN : Return(i, t, c, r)
    BY <2>1 DEF Return
  <2>2. CASE result' = result
    BY <2>2
  <2>3. QED
    BY <2>1, <2>2, Zenon
    DEF CallStep, ClearCancelled, Reject, Enable, StartEffects, SeeCancelled, StopCancelled, GoOn, Decide,
        EndEffects, ReportAchieved, ReportFailed
<1>2. /\ \/ action_success' = action_success
         \/ \E r \in BOOLEAN : action_success' = [action_success EXCEPT ![i] = r]
      /\ \/ action_cancelled' = action_cancelled
         \/ action_cancelled' = [action_cancelled EXCEPT ![i] = FALSE]
  BY Zenon DEF CallStep, ClearCancelled, Reject, Enable, StartEffects, Return,
               SeeCancelled, StopCancelled, GoOn, Decide,
               EndEffects, ReportAchieved, ReportFailed
<1>3. spinner' = spinner \/ (spinner[i][t] # <<>> /\ Leave(i, t))
  BY Zenon DEF CallStep, ClearCancelled, Reject, Enable, StartEffects, Return,
               SeeCancelled, StopCancelled, GoOn, Decide,
               EndEffects, ReportAchieved, ReportFailed, At, Innermost
<1>4. QED
  BY <1>1, <1>2, <1>3

(* A step inside one call leaves the others as they are, and the flags of  *)
(* the other nodes.                                                        *)
LEMMA OtherCallKept ==
  ASSUME InterfaceTypeOK, OwnCalls,
         NEW h \in Interfaces, NEW t \in Threads, NEW d \in Calls, CallStep(h, t, d),
         NEW c \in Calls, c # d, NEW i \in Interfaces
  PROVE  /\ phase'[c] = phase[c]
         /\ result'[c] = result[c]
         /\ h # i => /\ action_success'[i] = action_success[i]
                     /\ action_cancelled'[i] = action_cancelled[i]
<1>0. /\ phase \in [Calls -> Steps]
      /\ result \in [Calls -> {"none", "true", "false"}]
      /\ action_success \in [Interfaces -> BOOLEAN]
      /\ action_cancelled \in [Interfaces -> BOOLEAN]
  BY DEF InterfaceTypeOK
<1>1. \E to \in Later : phase' = [phase EXCEPT ![d] = to]
  BY CallStepFacts
<1>2. QED
  BY <1>0, <1>1, CallStepFlags

(* Where a call stands once it was reported enabled and until its end.     *)
Working == {"enabled", "running", "returned", "stopping", "deciding", "ending", "ended",
            "failing", "stopped"}
Ended   == {"achieved", "failed"}

(* A call reports that it is enabled, and then how it ended if it did.     *)
LEMMA CallStepReports ==
  ASSUME NEW i \in Interfaces, NEW t \in Threads, NEW c \in Calls, CallStep(i, t, c)
  PROVE  \E to \in Steps :
           /\ phase' = [phase EXCEPT ![c] = to]
           /\ \/ feedback' = feedback /\ phase[c] \in {"begun", "cleared"}
                 /\ to \in {"cleared", "rejected"}
              \/ feedback' = feedback /\ phase[c] \in Working /\ to \in Working
              \/ Report(i, c, "enabled") /\ phase[c] = "cleared" /\ to = "enabled"
              \/ to \in Ended /\ Report(i, c, to) /\ phase[c] \in Working
<1> DEFINE G(to) ==
             /\ phase' = [phase EXCEPT ![c] = to]
             /\ \/ feedback' = feedback /\ phase[c] \in {"begun", "cleared"}
                   /\ to \in {"cleared", "rejected"}
                \/ feedback' = feedback /\ phase[c] \in Working /\ to \in Working
                \/ Report(i, c, "enabled") /\ phase[c] = "cleared" /\ to = "enabled"
                \/ to \in Ended /\ Report(i, c, to) /\ phase[c] \in Working
<1> SUFFICES \E to \in Steps : G(to)
  BY Zenon
<1>w. /\ "enabled" \in Working /\ "running" \in Working /\ "returned" \in Working
      /\ "stopping" \in Working /\ "deciding" \in Working /\ "ending" \in Working
      /\ "ended" \in Working /\ "failing" \in Working /\ "stopped" \in Working
      /\ "achieved" \in Ended /\ "failed" \in Ended
      /\ Working \cup Ended \cup {"cleared", "rejected"} \subseteq Steps
  BY DEF Working, Ended, Steps, Open, Over
<1>1. CASE ClearCancelled(i, t, c)
  <2>1. G("cleared")
    BY <1>1, Zenon DEF ClearCancelled, At, Goto
  <2>2. QED
    BY <2>1, <1>w, Zenon
<1>2. CASE Reject(i, t, c)
  <2>1. G("rejected")
    BY <1>2, Zenon DEF Reject, At, Goto
  <2>2. QED
    BY <2>1, <1>w, Zenon
<1>3. CASE Enable(i, t, c)
  <2>1. G("enabled")
    BY <1>3, Zenon DEF Enable, At, Goto
  <2>2. QED
    BY <2>1, <1>w, Zenon
<1>4. ASSUME NEW from \in Working, NEW to \in Working, At(i, t, c, from), Goto(c, to),
             feedback' = feedback
      PROVE  \E next \in Steps : G(next)
  <2>1. G(to)
    BY <1>4, Zenon DEF At, Goto
  <2>2. QED
    BY <2>1, <1>w, Zenon
<1>5. CASE \/ StartEffects(i, t, c) \/ SeeCancelled(i, t, c) \/ StopCancelled(i, t, c)
           \/ GoOn(i, t, c) \/ EndEffects(i, t, c)
  BY <1>4, <1>5, <1>w, Zenon DEF StartEffects, SeeCancelled, StopCancelled, GoOn, EndEffects
<1>6. CASE \E r \in BOOLEAN : Return(i, t, c, r)
  BY <1>4, <1>6, <1>w, Zenon DEF Return
<1>7. CASE Decide(i, t, c)
  <2>1. /\ At(i, t, c, "deciding") /\ feedback' = feedback
        /\ Goto(c, "ending") \/ Goto(c, "failing")
    BY <1>7, Zenon DEF Decide
  <2>2. QED
    BY <2>1, <1>4, <1>w, Zenon
<1>8. CASE ReportAchieved(i, t, c)
  <2>1. G("achieved")
    BY <1>8, <1>w, Zenon DEF ReportAchieved, At, Goto
  <2>2. QED
    BY <2>1, <1>w, Zenon
<1>9. CASE ReportFailed(i, t, c)
  <2>1. G("failed")
    BY <1>9, <1>w, Zenon DEF ReportFailed, At, Goto
  <2>2. QED
    BY <2>1, <1>w, Zenon
<1>10. QED
  BY <1>1, <1>2, <1>3, <1>5, <1>6, <1>7, <1>8, <1>9, Zenon DEF CallStep

(* The flag and the reports agree with what concreteCallback() returned.   *)
ResultOf(c, i) ==
  /\ phase[c] \in {"returned", "deciding"} =>
       \/ result[c] = "true" /\ action_success[i]
       \/ result[c] = "false" /\ ~action_success[i]
  /\ phase[c] \in {"ending", "ended", "achieved"} => result[c] = "true"
  /\ phase[c] \in {"failing", "failed"} => result[c] = "false"

(* A call keeps that agreement in its own steps.                           *)
LEMMA OwnResult ==
  ASSUME InterfaceTypeOK, OwnCalls,
         NEW h \in Interfaces, NEW t \in Threads, NEW c \in Calls, CallStep(h, t, c),
         NEW i \in Interfaces, NameOf[c] = i, ResultOf(c, i)
  PROVE  ResultOf(c, i)'
<1>0. /\ phase \in [Calls -> Steps]
      /\ result \in [Calls -> {"none", "true", "false"}]
      /\ action_success \in [Interfaces -> BOOLEAN]
  BY DEF InterfaceTypeOK
<1>h. h = i
  BY CallStepFacts
<1>1. CASE \E to \in {"cleared", "rejected", "enabled", "running", "stopping", "stopped"} :
             phase' = [phase EXCEPT ![c] = to]
  BY <1>0, <1>1 DEF ResultOf
<1>2. ASSUME NEW r \in BOOLEAN, Return(h, t, c, r)
      PROVE  ResultOf(c, i)'
  <2>1. /\ phase' = [phase EXCEPT ![c] = "returned"]
        /\ result' = [result EXCEPT ![c] = IF r THEN "true" ELSE "false"]
        /\ action_success' = [action_success EXCEPT ![i] = r]
    BY <1>h, <1>2, Zenon DEF Return, Goto
  <2>2. phase'[c] = "returned"
    BY <1>0, <2>1
  <2>3. \/ result'[c] = "true" /\ action_success'[i]
        \/ result'[c] = "false" /\ ~action_success'[i]
    BY <1>0, <2>1
  <2>4. QED
    BY <2>2, <2>3 DEF ResultOf
<1>3. CASE GoOn(h, t, c)
  <2>1. /\ phase[c] = "returned" /\ phase' = [phase EXCEPT ![c] = "deciding"]
        /\ result' = result /\ action_success' = action_success
    BY <1>3, Zenon DEF GoOn, Goto, At
  <2>2. phase'[c] = "deciding"
    BY <1>0, <2>1
  <2>3. QED
    BY <1>0, <2>1, <2>2 DEF ResultOf
<1>4. CASE Decide(h, t, c)
  <2>1. /\ phase[c] = "deciding" /\ result' = result
        /\ phase' = [phase EXCEPT ![c] = IF action_success[i] THEN "ending" ELSE "failing"]
    BY <1>h, <1>4, Zenon DEF Decide, Goto, At
  <2>2. phase'[c] = IF action_success[i] THEN "ending" ELSE "failing"
    BY <1>0, <2>1
  <2>3. QED
    BY <1>0, <2>1, <2>2 DEF ResultOf
<1>5. CASE EndEffects(h, t, c) \/ ReportAchieved(h, t, c)
  <2>1. /\ phase[c] \in {"ending", "ended"} /\ result' = result
        /\ \E to \in {"ended", "achieved"} : phase' = [phase EXCEPT ![c] = to]
    BY <1>5, Zenon DEF EndEffects, ReportAchieved, Goto, At
  <2>2. phase'[c] \in {"ended", "achieved"}
    BY <1>0, <2>1
  <2>3. QED
    BY <1>0, <2>1, <2>2 DEF ResultOf
<1>6. CASE ReportFailed(h, t, c)
  <2>1. /\ phase[c] = "failing" /\ result' = result
        /\ phase' = [phase EXCEPT ![c] = "failed"]
    BY <1>6, Zenon DEF ReportFailed, Goto, At
  <2>2. phase'[c] = "failed"
    BY <1>0, <2>1
  <2>3. QED
    BY <1>0, <2>1, <2>2 DEF ResultOf
<1>7. QED
  BY <1>1, <1>2, <1>3, <1>4, <1>5, <1>6, Zenon
  DEF CallStep, ClearCancelled, Reject, Enable, StartEffects, SeeCancelled, StopCancelled, Goto

-----------------------------------------------------------------------------
(* What a thread does to the calls.                                        *)

LEMMA NodeStepKinds ==
  ASSUME NodesInv, NodeStep
  PROVE  \/ UNCHANGED <<phase, feedback, result, action_success>>
         \/ \E c \in Calls :
              /\ phase[c] = "sent" /\ phase' = [phase EXCEPT ![c] = "begun"]
              /\ UNCHANGED <<feedback, result, action_success>>
         \/ \E i \in Interfaces, t \in Threads, c \in Calls : CallStep(i, t, c)
<1>1. PICK i \in Interfaces, t \in Threads : ThreadStep(i, t)
  BY DEF NodeStep
<1>2. CASE BeginCancel(i, t) \/ SetCancelled(i, t) \/ \E c \in Calls : SkipCall(i, t, c)
  BY <1>2, Zenon DEF BeginCancel, SetCancelled, SkipCall
<1>3. ASSUME NEW c \in Calls, BeginCall(i, t, c)
      PROVE  /\ phase[c] = "sent" /\ phase' = [phase EXCEPT ![c] = "begun"]
             /\ UNCHANGED <<feedback, result, action_success>>
  BY <1>3, BeginsFromSent, Zenon DEF BeginCall
<1>4. QED
  BY <1>1, <1>2, <1>3, Zenon DEF ThreadStep

(* The nodes neither publish a call nor forget that it was.                *)
LEMMA NodeStepSent ==
  ASSUME NodesInv, NodeStep, NEW c \in Calls
  PROVE  phase'[c] = "unsent" <=> phase[c] = "unsent"
<1>1. phase \in [Calls -> Steps] /\ InterfaceTypeOK /\ OwnCalls
  BY DEF NodesInv, InterfaceTypeOK
<1>2. CASE phase' = phase
  BY <1>2
<1>3. CASE \E d \in Calls : phase[d] = "sent" /\ phase' = [phase EXCEPT ![d] = "begun"]
  BY <1>1, <1>3
<1>4. ASSUME NEW i \in Interfaces, NEW t \in Threads, NEW d \in Calls, CallStep(i, t, d)
      PROVE  phase'[c] = "unsent" <=> phase[c] = "unsent"
  <2>1. /\ phase[d] \in Open
        /\ \E to \in Later : phase' = [phase EXCEPT ![d] = to]
    BY <1>1, <1>4, CallStepFacts
  <2>2. QED
    BY <1>1, <2>1 DEF Later, Open, Over
<1>5. QED
  BY <1>2, <1>3, <1>4, NodeStepKinds, Zenon

(* The nodes are occupied with calls of S only.                            *)
Holding(S) ==
  /\ \A i \in Interfaces : queue[i] \in Seq(S \cup {CancelAction})
  /\ \A i \in Interfaces, t \in Threads : spinner[i][t] \in Seq(S \cup {CancelAction})
  /\ \A i \in Interfaces :
       feedback[i] \in Seq([call : S, status : {"enabled", "achieved", "failed"}])

LEMMA PublishHolds ==
  ASSUME InterfaceTypeOK, NEW S, Holding(S), NEW m \in S \cup {CancelAction}, Publish(m),
         UNCHANGED <<spinner, feedback>>
  PROVE  Holding(S)'
<1>1. PICK lost \in SUBSET {i \in Interfaces : queue[i] # <<>>} :
        queue' = [i \in Interfaces |->
                    Append(IF i \in lost THEN SubSeq(queue[i], 1, Len(queue[i]) - 1)
                           ELSE queue[i], m)]
  BY DEF Publish
<1>2. ASSUME NEW i \in Interfaces
      PROVE  queue'[i] \in Seq(S \cup {CancelAction})
  <2>1. queue[i] \in Seq(S \cup {CancelAction})
    BY DEF Holding
  <2>2. i \in lost => SubSeq(queue[i], 1, Len(queue[i]) - 1) \in Seq(S \cup {CancelAction})
    BY <2>1, PrefixType
  <2>3. QED
    BY <1>1, <2>1, <2>2
<1>3. QED
  BY <1>2 DEF Holding

LEMMA HearHolds ==
  ASSUME InterfaceTypeOK, NEW S, Holding(S), NEW i \in Interfaces, Hear(i)
  PROVE  Holding(S)' /\ Head(feedback[i]).call \in S
<1> DEFINE R == [call : S, status : {"enabled", "achieved", "failed"}]
<1>1. /\ feedback[i] \in Seq(R) /\ feedback[i] # <<>>
      /\ feedback' = [feedback EXCEPT ![i] = Tail(feedback[i])]
      /\ UNCHANGED <<queue, spinner>>
  BY DEF Hear, Holding
<1> HIDE DEF R
<1>2. Tail(feedback[i]) \in Seq(R) /\ Head(feedback[i]) \in R
  BY <1>1
<1>3. Head(feedback[i]).call \in S
  BY <1>2 DEF R
<1>4. \A h \in Interfaces : feedback'[h] \in Seq(R)
  BY <1>1, <1>2 DEF Holding, R, InterfaceTypeOK
<1>5. QED
  BY <1>1, <1>3, <1>4 DEF Holding, R

LEMMA TakeHolds ==
  ASSUME InterfaceTypeOK, NEW S, Holding(S), NEW i \in Interfaces, NEW t \in Threads, NEW m,
         Takes(i, t, m), feedback' = feedback, spinner' = spinner \/ Enter(i, t, m)
  PROVE  Holding(S)'
<1>1. /\ queue[i] \in Seq(S \cup {CancelAction}) /\ queue[i] # <<>> /\ Head(queue[i]) = m
      /\ queue' = [queue EXCEPT ![i] = Tail(queue[i])]
  BY DEF Takes, Holding
<1>2. Tail(queue[i]) \in Seq(S \cup {CancelAction}) /\ m \in S \cup {CancelAction}
  BY <1>1
<1>3. \A h \in Interfaces : queue'[h] \in Seq(S \cup {CancelAction})
  BY <1>1, <1>2 DEF Holding, InterfaceTypeOK
<1>4. \A h \in Interfaces, u \in Threads : spinner'[h][u] \in Seq(S \cup {CancelAction})
  <2>1. CASE spinner' = spinner
    BY <2>1 DEF Holding
  <2>2. CASE Enter(i, t, m)
    <3>1. spinner[i][t] \in Seq(S \cup {CancelAction})
      BY DEF Holding
    <3>2. Append(spinner[i][t], m) \in Seq(S \cup {CancelAction})
      BY <1>2, <3>1
    <3>3. QED
      BY <2>2, <3>2 DEF Enter, Holding, InterfaceTypeOK
  <2>3. QED
    BY <2>1, <2>2
<1>5. QED
  BY <1>3, <1>4 DEF Holding

LEMMA LeaveHolds ==
  ASSUME InterfaceTypeOK, NEW S, Holding(S), NEW i \in Interfaces, NEW t \in Threads,
         spinner' = spinner \/ (spinner[i][t] # <<>> /\ Leave(i, t)),
         NEW h \in Interfaces, NEW u \in Threads
  PROVE  spinner'[h][u] \in Seq(S \cup {CancelAction})
<1>1. CASE spinner' = spinner
  BY <1>1 DEF Holding
<1>2. CASE spinner[i][t] # <<>> /\ Leave(i, t)
  <2> DEFINE s == SubSeq(spinner[i][t], 1, Len(spinner[i][t]) - 1)
  <2>1. spinner[i][t] \in Seq(S \cup {CancelAction})
    BY DEF Holding
  <2>2. s \in Seq(S \cup {CancelAction})
    BY <1>2, <2>1, PrefixType
  <2>3. spinner' = [spinner EXCEPT ![i][t] = s]
    BY <1>2 DEF Leave
  <2> HIDE DEF s
  <2>4. QED
    BY <2>2, <2>3 DEF Holding, InterfaceTypeOK
<1>3. QED
  BY <1>1, <1>2

(* A call at work is one that its node holds.                              *)
LEMMA AtHeld ==
  ASSUME NEW S \in SUBSET Calls, Holding(S), NEW i \in Interfaces, NEW t \in Threads,
         NEW c \in Calls, CallStep(i, t, c)
  PROVE  c \in S
<1>1. Innermost(i, t, c)
  BY Zenon DEF CallStep, ClearCancelled, Reject, Enable, StartEffects, Return,
               SeeCancelled, StopCancelled, GoOn, Decide,
               EndEffects, ReportAchieved, ReportFailed, At
<1>2. spinner[i][t] \in Seq(S \cup {CancelAction}) /\ spinner[i][t] # <<>>
      /\ Last(spinner[i][t]) = c
  BY <1>1 DEF Holding, Innermost
<1>3. c \in S \cup {CancelAction}
  BY <1>2, LastType
<1>4. QED
  BY <1>3, InterfaceAssumption

LEMMA CallStepHolds ==
  ASSUME InterfaceTypeOK, NEW S \in SUBSET Calls, Holding(S),
         NEW i \in Interfaces, NEW t \in Threads, NEW c \in Calls, CallStep(i, t, c)
  PROVE  Holding(S)'
<1> DEFINE R == [call : S, status : {"enabled", "achieved", "failed"}]
<1>1. queue' = queue
  BY Zenon DEF CallStep, ClearCancelled, Reject, Enable, StartEffects, Return,
               SeeCancelled, StopCancelled, GoOn, Decide,
               EndEffects, ReportAchieved, ReportFailed
<1>2. \A h \in Interfaces, u \in Threads : spinner'[h][u] \in Seq(S \cup {CancelAction})
  BY CallStepFlags, LeaveHolds
<1>3. \/ feedback' = feedback
      \/ \E status \in {"enabled", "achieved", "failed"} : Report(i, c, status)
  <2>1. PICK to \in Steps :
          feedback' = feedback \/ Report(i, c, "enabled") \/ (to \in Ended /\ Report(i, c, to))
    BY CallStepReports, Zenon
  <2>2. QED
    BY <2>1 DEF Ended
<1>4. \A h \in Interfaces : feedback[h] \in Seq(R)
  BY DEF Holding
<1>5. ASSUME NEW status \in {"enabled", "achieved", "failed"}, Report(i, c, status)
      PROVE  \A h \in Interfaces : feedback'[h] \in Seq(R)
  <2>1. [call |-> c, status |-> status] \in R
    BY AtHeld
  <2> HIDE DEF R
  <2>2. Append(feedback[i], [call |-> c, status |-> status]) \in Seq(R)
    BY <1>4, <2>1
  <2>3. QED
    BY <1>4, <1>5, <2>2 DEF Report, InterfaceTypeOK
<1>6. \A h \in Interfaces : feedback'[h] \in Seq(R)
  BY <1>3, <1>4, <1>5
<1>7. QED
  BY <1>1, <1>2, <1>6 DEF Holding

LEMMA NodeStepHolds ==
  ASSUME InterfaceTypeOK, NEW S \in SUBSET Calls, Holding(S), NodeStep
  PROVE  Holding(S)'
<1>1. PICK i \in Interfaces, t \in Threads : ThreadStep(i, t)
  BY DEF NodeStep
<1>2. CASE BeginCancel(i, t)
  BY <1>2, TakeHolds DEF BeginCancel
<1>3. CASE SetCancelled(i, t)
  <2>1. /\ spinner[i][t] # <<>> /\ Leave(i, t) /\ queue' = queue /\ feedback' = feedback
    BY <1>3 DEF SetCancelled, Innermost
  <2>2. \A h \in Interfaces, u \in Threads : spinner'[h][u] \in Seq(S \cup {CancelAction})
    BY <2>1, LeaveHolds
  <2>3. QED
    BY <2>1, <2>2 DEF Holding
<1>4. ASSUME NEW c \in Calls, SkipCall(i, t, c) \/ BeginCall(i, t, c)
      PROVE  Holding(S)'
  BY <1>4, TakeHolds DEF SkipCall, BeginCall
<1>5. QED
  BY <1>1, <1>2, <1>3, <1>4, CallStepHolds DEF ThreadStep

-----------------------------------------------------------------------------
LEMMA NextNodes == NodesInv /\ [InterfaceNext]_interfaceVars => NodesInv'
<1> SUFFICES ASSUME NodesInv, [InterfaceNext]_interfaceVars PROVE NodesInv'
  OBVIOUS
<1>1. CASE InterfaceNext
  <2>1. InterfaceTypeOK' /\ OwnCalls'
    BY <1>1, NextTypes DEF NodesInv
  <2>2. WaitsOnce' /\ Placed'
    BY <1>1, WaitsStep, PlacedStep
  <2>3. QED
    BY <2>1, <2>2 DEF NodesInv
<1>2. CASE UNCHANGED interfaceVars
  <2>1. /\ queue' = queue /\ spinner' = spinner /\ phase' = phase
        /\ action_cancelled' = action_cancelled /\ action_success' = action_success
        /\ feedback' = feedback /\ result' = result
    BY <1>2 DEF interfaceVars
  <2>2. InterfaceTypeOK' /\ OwnCalls'
    BY <2>1 DEF NodesInv, InterfaceTypeOK, OwnCalls
  <2>3. WaitsOnce' /\ Placed'
    BY <2>1 DEF NodesInv, WaitsOnce, OnlyAt, Placed
  <2>4. QED
    BY <2>2, <2>3 DEF NodesInv
<1>3. QED
  BY <1>1, <1>2

(* Whoever dispatches and cancels, and whatever messages are lost: the     *)
(* nodes keep their types, run only the calls of their own action, and no  *)
(* call that has begun waits a second time.                                *)
THEOREM NodesInvariance == InterfaceSpec => []NodesInv
BY InitNodes, NextNodes, PTL DEF InterfaceSpec
=============================================================================
