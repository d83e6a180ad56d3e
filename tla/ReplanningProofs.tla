-------------------------- MODULE ReplanningProofs --------------------------
(***************************************************************************)
(* Proofs about Replanning, for any regions, missions and number of        *)
(* faults: the types, that a round without a fault executes its own plan,  *)
(* and that the vehicle is never at two places unless an effect was late.  *)
(***************************************************************************)
EXTENDS Replanning, FiniteSetTheorems, SequenceTheorems, TLAPS

-----------------------------------------------------------------------------
(* The types.                                                              *)

(* A dispatcher that executes nothing stands at the beginning.             *)
IdleAtStart == ~dispatcher.busy => dispatcher.next = 1

TypeInv == ReplanTypeOK /\ IdleAtStart

LEMMA KnowledgeTypes ==
  ASSUME NEW k \in KnowledgeBases
  PROVE  /\ \A f \in Facts : AddKnowledge(k, f) \in KnowledgeBases
         /\ \A f \in Facts : RemoveKnowledge(k, f) \in KnowledgeBases
         /\ \A n \in Int : SetFunction(k, n) \in KnowledgeBases
         /\ \A g \in SUBSET Regions : AddMissionGoals(k, g) \in KnowledgeBases
         /\ \A g \in Regions : RemoveMissionGoal(k, g) \in KnowledgeBases
         /\ \A d \in SUBSET Facts, a \in SUBSET Facts :
              UpdateKnowledgeArray(k, d, a) \in KnowledgeBases
  BY DEF KnowledgeBases, AddKnowledge, RemoveKnowledge, SetFunction, AddMissionGoals,
         RemoveMissionGoal, UpdateKnowledgeArray

LEMMA EffectTypes ==
  ASSUME NEW a \in Actions
  PROVE  /\ StartDel(a) \subseteq Facts /\ StartAdd(a) \subseteq Facts
         /\ EndDel(a) \subseteq Facts /\ EndAdd(a) \subseteq Facts
  BY DEF Actions, Names, StartDel, StartAdd, EndDel, EndAdd, Facts, Locations

LEMMA SolutionTypes ==
  ASSUME NEW p, NEW a \in Solutions(p)
  PROVE  a \in Seq(Actions)
  BY DEF Solutions

LEMMA ScriptTypes ==
  ASSUME NEW s \in Scripts
  PROVE  s \in Seq([on_move : BOOLEAN, regions : SUBSET Regions]) /\ s # <<>>
<1>1. s \in Seq([on_move : BOOLEAN, regions : SUBSET Regions]) \ {<<>>}
  BY ReplanAssumption, Zenon
<1> QED
  BY <1>1, Zenon

(* The regions of a round.                                                 *)
LEMMA MissionTypes ==
  ASSUME ReplanTypeOK
  PROVE  /\ script.round \in Nat /\ script.round + 1 \in Nat
         /\ rounds[script.round].on_move \in BOOLEAN
         /\ CurrentMission \subseteq Regions
         /\ Cardinality(CurrentMission) \in Nat
<1>1. rounds \in Seq([on_move : BOOLEAN, regions : SUBSET Regions])
  BY ScriptTypes DEF ReplanTypeOK
<1>0. script.round \in 1 .. Len(rounds)
  BY DEF ReplanTypeOK
<1>2. rounds[script.round] \in [on_move : BOOLEAN, regions : SUBSET Regions]
  BY <1>0, <1>1, ElementOfSeq, Zenon
<1>3. CurrentMission \subseteq Regions
  BY <1>2 DEF CurrentMission
<1>4. IsFiniteSet(CurrentMission)
  BY <1>3, FS_Subset, ReplanAssumption
<1>5. script.round \in Nat
  BY <1>0, <1>1
<1> QED
  BY <1>2, <1>3, <1>4, <1>5, FS_CardinalityType

LEMMA InitTypes == ReplanInit => TypeInv
<1> SUFFICES ASSUME ReplanInit PROVE TypeInv
  OBVIOUS
<1>1. Len(rounds) \in Nat /\ Len(rounds) >= 1
  BY ScriptTypes DEF ReplanInit
<1>2. script \in [round : 1 .. Len(rounds), step : Steps, at : Locations, total : Int,
                  todo : SUBSET Regions]
  BY <1>1 DEF ReplanInit, Started, Steps, Locations
<1>3. kb \in KnowledgeBases
  BY DEF ReplanInit, Empty, KnowledgeBases
<1>4. dispatcher \in Dispatchers /\ dispatcher.next <= Len(dispatcher.plan.actions) + 1
  BY DEF ReplanInit, Idle, Dispatchers, NoPlan, Messages
<1>5. inbox \in [Names -> Seq(Calls \cup {CancelAction})]
  BY DEF ReplanInit
<1> QED
  BY <1>2, <1>3, <1>4, <1>5, ReplanAssumption DEF ReplanInit, Idle, TypeInv, ReplanTypeOK, IdleAtStart

(* What the types of the variables are made of, action by action.          *)
LEMMA ScriptStays ==
  ASSUME TypeInv,
         script' \in [round : {script.round}, step : Steps, at : Locations, total : Int,
                      todo : SUBSET Regions],
         UNCHANGED rounds
  PROVE  script' \in [round : 1 .. Len(rounds'), step : Steps, at : Locations, total : Int,
                      todo : SUBSET Regions]
  BY DEF TypeInv, ReplanTypeOK

LEMMA GotoTypes ==
  ASSUME TypeInv, NEW step \in Steps, Goto(step)
  PROVE  script' \in [round : {script.round}, step : Steps, at : Locations, total : Int,
                      todo : SUBSET Regions]
  BY DEF TypeInv, ReplanTypeOK, Goto

LEMMA CutTypes == Cut \subseteq Mishaps
  BY DEF Cut, Mishaps

(* The steps that leave the services, the dispatcher and the interfaces.   *)
LEMMA ScriptOnlyTypes ==
  ASSUME TypeInv,
         script' \in [round : {script.round}, step : Steps, at : Locations, total : Int,
                      todo : SUBSET Regions],
         kb' \in KnowledgeBases,
         history' \subseteq Mishaps,
         UNCHANGED <<rounds, topics, dispatcher, interfaces, faults>>
  PROVE  TypeInv'
<1>1. script' \in [round : 1 .. Len(rounds'), step : Steps, at : Locations, total : Int,
                   todo : SUBSET Regions]
  BY ScriptStays
<1> QED
  BY <1>1 DEF TypeInv, ReplanTypeOK, IdleAtStart, topics, interfaces

LEMMA UpdateTypes ==
  ASSUME TypeInv,
         \/ CreatePddlGlobal \/ WaitToStop \/ LookForMove \/ StopMove \/ ReadPlace
         \/ ReadGoals \/ Prune \/ WriteUpdate
  PROVE  TypeInv'
<1> DEFINE Next(s) == s \in [round : {script.round}, step : Steps, at : Locations, total : Int,
                            todo : SUBSET Regions]
<1> USE DEF Steps
<1>0. kb \in KnowledgeBases /\ history \subseteq Mishaps
  BY DEF TypeInv, ReplanTypeOK
<1>1. CASE CreatePddlGlobal
  <2>1. kb' \in KnowledgeBases
    BY <1>1, MissionTypes DEF TypeInv, CreatePddlGlobal, KnowledgeBases, Facts, Locations
  <2> QED
    BY <1>0, <1>1, <2>1, GotoTypes, ScriptOnlyTypes DEF CreatePddlGlobal
<1>2. CASE WaitToStop
  BY <1>0, <1>2, GotoTypes, ScriptOnlyTypes DEF WaitToStop
<1>3. CASE LookForMove
  <2>1. Next(script')
    BY <1>3, GotoTypes DEF LookForMove
  <2> QED
    BY <1>0, <1>3, <2>1, ScriptOnlyTypes DEF LookForMove
<1>4. CASE StopMove
  <2>1. kb' \in KnowledgeBases
    BY <1>0, <1>4, KnowledgeTypes DEF StopMove, MoveOver, Facts
  <2>2. Next(script')
    BY <1>4 DEF StopMove, TypeInv, ReplanTypeOK
  <2> QED
    BY <1>0, <1>4, <2>1, <2>2, ScriptOnlyTypes DEF StopMove
<1>5. CASE ReadPlace
  <2>1. Next(script')
    BY <1>5, GotoTypes DEF ReadPlace, TypeInv, ReplanTypeOK, Ats
  <2>2. history' \subseteq Mishaps
    BY <1>0, <1>5 DEF ReadPlace, Remember, Mishaps
  <2> QED
    BY <1>0, <1>5, <2>1, <2>2, ScriptOnlyTypes DEF ReadPlace
<1>6. CASE ReadGoals
  <2>1. Next(script')
    BY <1>0, <1>6 DEF ReadGoals, TypeInv, ReplanTypeOK, KnowledgeBases
  <2> QED
    BY <1>0, <1>6, <2>1, ScriptOnlyTypes DEF ReadGoals
<1>7. CASE Prune
  <2>1. PICK g \in script.todo :
          /\ kb' = IF g \in Achieved(kb) THEN RemoveMissionGoal(kb, g) ELSE kb
          /\ script' = [script EXCEPT !.todo = @ \ {g},
                          !.total = IF g \in Achieved(kb) THEN CountLess(@) ELSE @]
    BY <1>7 DEF Prune
  <2>2. g \in Regions
    BY <2>1 DEF TypeInv, ReplanTypeOK
  <2>3. kb' \in KnowledgeBases
    BY <1>0, <2>1, <2>2, KnowledgeTypes
  <2>4. Next(script')
    <3> DEFINE total == IF g \in Achieved(kb) THEN CountLess(script.total) ELSE script.total
    <3>1. script' = [script EXCEPT !.todo = script.todo \ {g}, !.total = total]
      BY <2>1
    <3>2. total \in Int
      BY DEF TypeInv, ReplanTypeOK, CountLess
    <3> HIDE DEF total
    <3> QED
      BY <3>1, <3>2 DEF TypeInv, ReplanTypeOK
  <2> QED
    BY <1>0, <1>7, <2>3, <2>4, ScriptOnlyTypes DEF Prune
<1>8. CASE WriteUpdate
  <2>1. At(script.at) \in Facts /\ script.total \in Int
    BY DEF TypeInv, ReplanTypeOK, Facts
  <2>2. PlaceWritten(kb) \in KnowledgeBases
    BY <1>0, <2>1, KnowledgeTypes DEF PlaceWritten
  <2>3. AddMissionGoals(PlaceWritten(kb), CurrentMission) \in KnowledgeBases
    BY <2>2, KnowledgeTypes, MissionTypes DEF TypeInv
  <2>4. CountMore(script.total) \in Int
    BY <2>1, MissionTypes DEF TypeInv, CountMore
  <2>5. kb' \in KnowledgeBases
    BY <1>8, <2>3, <2>4, KnowledgeTypes DEF WriteUpdate
  <2> QED
    BY <1>0, <1>8, <2>5, GotoTypes, ScriptOnlyTypes DEF WriteUpdate
<1> QED
  BY <1>1, <1>2, <1>3, <1>4, <1>5, <1>6, <1>7, <1>8

(* The steps of the scripts that call services, and the topics.            *)
LEMMA SmoothTypes ==
  ASSUME TypeInv, NEW went \in BOOLEAN, Smooth(went)
  PROVE  faults' \in 0 .. Faults /\ history' \subseteq Mishaps
<1>1. Faults \in Nat
  BY ReplanAssumption, Zenon
<1>2. faults \in 0 .. Faults /\ history \subseteq Mishaps
  BY DEF TypeInv, ReplanTypeOK
<1>3. CASE went
  BY <1>2, <1>3 DEF Smooth
<1>4. CASE ~went
  <2>1. faults' \in 0 .. Faults
    BY <1>1, <1>2, <1>4 DEF Smooth, Fault
  <2>2. history' \subseteq Mishaps
    BY <1>2, <1>4 DEF Smooth, Remember, Mishaps
  <2> QED
    BY <2>1, <2>2
<1> QED
  BY <1>3, <1>4

LEMMA TopicTypes ==
  ASSUME TypeInv,
         \/ UNCHANGED script
         \/ \E step \in Steps : Goto(step),
         {problem_instance', problem'} \subseteq Problems \cup {None},
         {planner_output', output', complete_plan'} \subseteq Messages \cup {None},
         faults' \in 0 .. Faults, history' \subseteq Mishaps,
         UNCHANGED <<rounds, kb, dispatcher, interfaces>>
  PROVE  TypeInv'
<1>1. script' \in [round : {script.round}, step : Steps, at : Locations, total : Int,
                   todo : SUBSET Regions]
  BY GotoTypes DEF TypeInv, ReplanTypeOK
<1>2. script' \in [round : 1 .. Len(rounds'), step : Steps, at : Locations, total : Int,
                   todo : SUBSET Regions]
  BY <1>1, ScriptStays
<1> QED
  BY <1>2 DEF TypeInv, ReplanTypeOK, IdleAtStart, interfaces

LEMMA ServiceTypes ==
  ASSUME TypeInv,
         \/ ProblemServer \/ ProblemCallback \/ PlanningServer \/ PlannerCallback \/ ParsePlan
  PROVE  TypeInv'
<1> USE DEF Steps
<1>0. /\ kb \in KnowledgeBases /\ script.round \in Nat
      /\ problem_instance \in Problems \cup {None} /\ problem \in Problems \cup {None}
      /\ planner_output \in Messages \cup {None} /\ output \in Messages \cup {None}
      /\ complete_plan \in Messages \cup {None}
      /\ faults \in 0 .. Faults /\ history \subseteq Mishaps
  BY MissionTypes DEF TypeInv, ReplanTypeOK
<1>1. CASE ProblemServer
  <2>1. PICK went \in BOOLEAN :
          /\ Smooth(went)
          /\ problem_instance' = IF went THEN [round |-> script.round, kb |-> kb]
                                         ELSE problem_instance
    BY <1>1 DEF ProblemServer
  <2>2. problem_instance' \in Problems \cup {None}
    BY <1>0, <2>1 DEF Problems
  <2> QED
    BY <1>0, <1>1, <2>1, <2>2, SmoothTypes, TopicTypes DEF ProblemServer
<1>2. CASE ProblemCallback
  BY <1>0, <1>2, TopicTypes DEF ProblemCallback
<1>3. CASE PlanningServer
  <2>1. faults' \in 0 .. Faults /\ history' \subseteq Mishaps
    <3>1. CASE PlanFound
      BY <3>1, SmoothTypes DEF PlanFound
    <3>2. CASE NoPlanFound
      BY <1>0, <3>2, ReplanAssumption DEF NoPlanFound, Fault, Remember, Mishaps
    <3> QED
      BY <1>3, <3>1, <3>2 DEF PlanningServer
  <2>2. planner_output' \in Messages \cup {None}
    <3>1. CASE PlanFound
      <4>1. PICK a \in Solutions(problem) :
              planner_output' = [round |-> problem.round, actions |-> a]
        BY <3>1 DEF PlanFound
      <4>2. problem.round \in Nat
        BY <1>0, <3>1 DEF PlanFound, Problems
      <4> QED
        BY <4>1, <4>2, SolutionTypes DEF Messages
    <3>2. CASE NoPlanFound
      BY <1>0, <3>2 DEF NoPlanFound
    <3> QED
      BY <1>3, <3>1, <3>2 DEF PlanningServer
  <2> QED
    BY <1>0, <1>3, <2>1, <2>2, TopicTypes DEF PlanningServer
<1>4. CASE PlannerCallback
  BY <1>0, <1>4, TopicTypes DEF PlannerCallback, LastOutput
<1>5. CASE ParsePlan
  <2>1. faults' \in 0 .. Faults /\ history' \subseteq Mishaps
    BY <1>0, <1>5, ReplanAssumption DEF ParsePlan, Fault, Remember, Mishaps
  <2> QED
    BY <1>0, <1>5, <2>1, TopicTypes DEF ParsePlan
<1> QED
  BY <1>1, <1>2, <1>3, <1>4, <1>5

(* The dispatcher, its messages and the calls.                             *)
LEMMA DispatchTypes ==
  ASSUME TypeInv,
         script' \in [round : 1 .. Len(rounds), step : Steps, at : Locations, total : Int,
                      todo : SUBSET Regions],
         kb' \in KnowledgeBases,
         complete_plan' \in Messages \cup {None},
         dispatcher' \in Dispatchers,
         dispatcher'.next <= Len(dispatcher'.plan.actions) + 1,
         ~dispatcher'.busy => dispatcher'.next = 1,
         calls' \subseteq Calls,
         inbox' \in [Names -> Seq(Calls \cup {CancelAction})],
         action_cancelled' \in [Names -> BOOLEAN],
         faults' \in 0 .. Faults, history' \subseteq Mishaps,
         UNCHANGED <<rounds, problem_instance, problem, planner_output, output>>
  PROVE  TypeInv'
  BY DEF TypeInv, ReplanTypeOK, IdleAtStart

LEMMA PlanTypes ==
  ASSUME TypeInv,
         \/ CancelDispatch \/ PlanCallback \/ DispatchPlan \/ SendAction \/ Leave \/ NextRound
  PROVE  TypeInv'
<1> USE DEF Steps
<1> DEFINE Next(s) == s \in [round : 1 .. Len(rounds), step : Steps, at : Locations,
                            total : Int, todo : SUBSET Regions]
<1>0. /\ Next(script) /\ kb \in KnowledgeBases /\ script.round \in Nat
      /\ complete_plan \in Messages \cup {None}
      /\ dispatcher \in Dispatchers
      /\ dispatcher.next <= Len(dispatcher.plan.actions) + 1
      /\ ~dispatcher.busy => dispatcher.next = 1
      /\ calls \subseteq Calls
      /\ inbox \in [Names -> Seq(Calls \cup {CancelAction})]
      /\ action_cancelled \in [Names -> BOOLEAN]
      /\ faults \in 0 .. Faults /\ history \subseteq Mishaps
  BY MissionTypes DEF TypeInv, ReplanTypeOK, IdleAtStart
<1>00. ASSUME NEW step \in Steps, Goto(step) PROVE Next(script')
  BY <1>0, <1>00 DEF Goto
<1>1. CASE CancelDispatch
  <2>1. dispatcher' = [dispatcher EXCEPT !.cancelled = dispatcher.cancelled \/ dispatcher.busy]
    BY <1>1 DEF CancelDispatch
  <2>2. /\ dispatcher' \in Dispatchers
        /\ dispatcher'.next <= Len(dispatcher'.plan.actions) + 1
        /\ ~dispatcher'.busy => dispatcher'.next = 1
    BY <1>0, <2>1 DEF Dispatchers
  <2>3. history' \subseteq Mishaps
    BY <1>0, <1>1, CutTypes DEF CancelDispatch, Remember
  <2>4. Next(script')
    BY <1>1, <1>00 DEF CancelDispatch
  <2> QED
    BY <1>0, <1>1, <2>2, <2>3, <2>4, DispatchTypes DEF CancelDispatch, topics, interfaces
<1>2. CASE PlanCallback
  <2>1. complete_plan \in Messages
    BY <1>0, <1>2 DEF PlanCallback
  <2>2. /\ dispatcher' \in Dispatchers
        /\ dispatcher'.next <= Len(dispatcher'.plan.actions) + 1
        /\ ~dispatcher'.busy => dispatcher'.next = 1
    <3>1. Len(complete_plan.actions) \in Nat
      BY <2>1 DEF Messages
    <3>2. CASE Accepts
      <4>1. dispatcher' = [dispatcher EXCEPT !.plan = complete_plan] /\ ~dispatcher.busy
        BY <1>2, <3>2 DEF PlanCallback, Accepts
      <4>2. /\ dispatcher' \in Dispatchers /\ dispatcher'.plan = complete_plan
            /\ dispatcher'.next = dispatcher.next
        BY <1>0, <2>1, <4>1 DEF Dispatchers
      <4>3. dispatcher.next = 1
        BY <1>0, <4>1
      <4> QED
        BY <3>1, <4>2, <4>3
    <3>3. CASE ~Accepts
      BY <1>0, <1>2, <3>3 DEF PlanCallback
    <3> QED
      BY <3>2, <3>3
  <2>3. history' \subseteq Mishaps
    BY <1>0, <1>2 DEF PlanCallback, Remember, Mishaps
  <2> QED
    BY <1>0, <1>2, <2>2, <2>3, DispatchTypes DEF PlanCallback, interfaces
<1>3. CASE DispatchPlan
  <2>1. /\ dispatcher' \in Dispatchers
        /\ dispatcher'.next <= Len(dispatcher'.plan.actions) + 1
        /\ ~dispatcher'.busy => dispatcher'.next = 1
    BY <1>0, <1>3 DEF DispatchPlan, Idle, Dispatchers, Messages
  <2>2. faults' \in 0 .. Faults /\ history' \subseteq Mishaps
    BY <1>0, <1>3, ReplanAssumption DEF DispatchPlan, Fault, Remember, Mishaps
  <2>3. Next(script')
    BY <1>3, <1>00 DEF DispatchPlan
  <2> QED
    BY <1>0, <1>3, <2>1, <2>2, <2>3, DispatchTypes DEF DispatchPlan, topics, interfaces
<1>4. CASE SendAction
  <2>1. NextAction \in Actions
    BY <1>0, <1>4, ElementOfSeq DEF SendAction, Running, NextAction, Dispatchers, Messages
  <2>2. /\ dispatcher' \in Dispatchers
        /\ dispatcher'.next <= Len(dispatcher'.plan.actions) + 1
        /\ ~dispatcher'.busy => dispatcher'.next = 1
    BY <1>0, <1>4 DEF SendAction, Dispatchers
  <2>3. [round |-> dispatcher.round, id |-> dispatcher.next, action |-> NextAction] \in Calls
    BY <1>0, <2>1 DEF Calls, Dispatchers
  <2>4. NextAction.name \in Names
    BY <2>1 DEF Actions
  <2>5. inbox' \in [Names -> Seq(Calls \cup {CancelAction})]
    BY <1>0, <1>4, <2>3, <2>4 DEF SendAction
  <2> QED
    BY <1>0, <1>4, <2>2, <2>5, DispatchTypes DEF SendAction, topics
<1>5. CASE Leave
  <2>1. /\ dispatcher' \in Dispatchers
        /\ dispatcher'.next <= Len(dispatcher'.plan.actions) + 1
        /\ ~dispatcher'.busy => dispatcher'.next = 1
    <3>1. Len(dispatcher.plan.actions) \in Nat
      BY <1>0 DEF Dispatchers, Messages
    <3>2. dispatcher' = Idle(dispatcher.plan, dispatcher.round)
      BY <1>5 DEF Leave
    <3>3. dispatcher.plan \in Messages /\ dispatcher.round \in Nat
      BY <1>0 DEF Dispatchers
    <3> QED
      BY <3>1, <3>2, <3>3 DEF Idle, Dispatchers
  <2>2. inbox' \in [Names -> Seq(Calls \cup {CancelAction})]
    BY <1>0, <1>5 DEF Leave
  <2> QED
    BY <1>0, <1>5, <2>1, <2>2, DispatchTypes DEF Leave, topics
<1>6. CASE NextRound
  <2>1. CASE script.round < Len(rounds)
    <3>1. Next(script')
      BY <1>0, <1>6, <2>1 DEF NextRound, Started, Locations
    <3> QED
      BY <1>0, <1>6, <2>1, <3>1, DispatchTypes DEF NextRound, topics, interfaces
  <2>2. CASE ~(script.round < Len(rounds))
    <3>1. Next(script')
      BY <1>6, <1>00, <2>2 DEF NextRound
    <3> QED
      BY <1>0, <1>6, <2>2, <3>1, DispatchTypes DEF NextRound, topics, interfaces
  <2> QED
    BY <2>1, <2>2
<1> QED
  BY <1>1, <1>2, <1>3, <1>4, <1>5, <1>6

LEMMA InterfaceTypes ==
  ASSUME TypeInv,
         \/ \E a \in Names : Hear(a)
         \/ \E c \in calls : Return(c) \/ Fails(c)
  PROVE  TypeInv'
<1>0. /\ script \in [round : 1 .. Len(rounds), step : Steps, at : Locations,
                     total : Int, todo : SUBSET Regions]
      /\ kb \in KnowledgeBases
      /\ complete_plan \in Messages \cup {None}
      /\ dispatcher \in Dispatchers
      /\ dispatcher.next <= Len(dispatcher.plan.actions) + 1
      /\ ~dispatcher.busy => dispatcher.next = 1
      /\ calls \subseteq Calls
      /\ inbox \in [Names -> Seq(Calls \cup {CancelAction})]
      /\ action_cancelled \in [Names -> BOOLEAN]
      /\ faults \in 0 .. Faults /\ history \subseteq Mishaps
  BY DEF TypeInv, ReplanTypeOK, IdleAtStart
<1>00. \A c : Late(c) \subseteq Mishaps
  BY DEF Late, Mishaps
<1>1. ASSUME NEW a \in Names, Hear(a) PROVE TypeInv'
  <2>1. /\ Head(inbox[a]) \in Calls \cup {CancelAction}
        /\ Tail(inbox[a]) \in Seq(Calls \cup {CancelAction})
    BY <1>0, <1>1, HeadTailProperties DEF Hear
  <2>2. inbox' \in [Names -> Seq(Calls \cup {CancelAction})]
    BY <1>0, <1>1, <2>1 DEF Hear
  <2>3. CASE Head(inbox[a]) = CancelAction
    BY <1>0, <1>1, <2>2, <2>3, DispatchTypes DEF Hear, topics
  <2>4. CASE Head(inbox[a]) # CancelAction
    <3>1. Head(inbox[a]) \in Calls /\ Head(inbox[a]).action \in Actions
      BY <2>1, <2>4 DEF Calls
    <3>2. kb' \in KnowledgeBases
      <4> DEFINE action == Head(inbox[a]).action
      <4>1. kb' = UpdateKnowledgeArray(kb, StartDel(action), StartAdd(action))
        BY <1>1, <2>4 DEF Hear
      <4>2. StartDel(action) \in SUBSET Facts /\ StartAdd(action) \in SUBSET Facts
        BY <3>1, EffectTypes
      <4> QED
        BY <1>0, <4>1, <4>2, KnowledgeTypes
    <3>3. history' \subseteq Mishaps
      BY <1>0, <1>00, <1>1, <2>4 DEF Hear, Remember
    <3> QED
      BY <1>0, <1>1, <2>2, <2>4, <3>1, <3>2, <3>3, DispatchTypes DEF Hear, topics
  <2> QED
    BY <2>3, <2>4
<1>2. ASSUME NEW c \in calls, Return(c) PROVE TypeInv'
  <2>1. c.action \in Actions
    BY <1>0 DEF Calls
  <2>2. kb' \in KnowledgeBases
    BY <1>0, <1>2, <2>1, EffectTypes, KnowledgeTypes DEF Return
  <2>3. history' \subseteq Mishaps
    BY <1>0, <1>00, <1>2 DEF Return, Remember, Mishaps
  <2>4. /\ dispatcher' \in Dispatchers
        /\ dispatcher'.next <= Len(dispatcher'.plan.actions) + 1
        /\ ~dispatcher'.busy => dispatcher'.next = 1
    <3>1. CASE ~action_cancelled[c.action.name] /\ Completes(c)
      <4>1. dispatcher' = [dispatcher EXCEPT !.next = dispatcher.next + 1, !.sent = FALSE]
        BY <1>2, <3>1 DEF Return
      <4>2. dispatcher.busy /\ dispatcher.next <= Len(dispatcher.plan.actions)
        BY <3>1 DEF Completes, Running
      <4>3. dispatcher.next \in Nat \ {0} /\ Len(dispatcher.plan.actions) \in Nat
        BY <1>0 DEF Dispatchers, Messages
      <4>4. /\ dispatcher' \in Dispatchers /\ dispatcher'.plan = dispatcher.plan
            /\ dispatcher'.next = dispatcher.next + 1 /\ dispatcher'.busy = dispatcher.busy
        <5> DEFINE n == dispatcher.next + 1
        <5>1. n \in Nat \ {0} /\ n = dispatcher.next + 1
          BY <4>3
        <5>2. dispatcher' = [dispatcher EXCEPT !.next = n, !.sent = FALSE]
          BY <4>1
        <5>3. dispatcher \in Dispatchers
          BY <1>0
        <5> HIDE DEF n
        <5>4. /\ dispatcher' \in Dispatchers /\ dispatcher'.plan = dispatcher.plan
              /\ dispatcher'.next = n /\ dispatcher'.busy = dispatcher.busy
          BY ONLY <5>1, <5>2, <5>3 DEF Dispatchers
        <5> QED
          BY <5>1, <5>4
      <4> QED
        BY <4>2, <4>3, <4>4
    <3>2. CASE action_cancelled[c.action.name] \/ ~Completes(c)
      BY <1>0, <1>2, <3>2 DEF Return
    <3> QED
      BY <3>1, <3>2
  <2> QED
    BY <1>0, <1>2, <2>2, <2>3, <2>4, DispatchTypes DEF Return, topics
<1>3. ASSUME NEW c \in calls, Fails(c) PROVE TypeInv'
  <2>1. faults' \in 0 .. Faults /\ history' \subseteq Mishaps
    BY <1>0, <1>3, CutTypes, ReplanAssumption DEF Fails, Fault, Remember
  <2>2. /\ dispatcher' \in Dispatchers
        /\ dispatcher'.next <= Len(dispatcher'.plan.actions) + 1
        /\ ~dispatcher'.busy => dispatcher'.next = 1
    BY <1>0, <1>3 DEF Fails, Dispatchers
  <2> QED
    BY <1>0, <1>3, <2>1, <2>2, DispatchTypes DEF Fails, topics
<1> QED
  BY <1>1, <1>2, <1>3

LEMMA TypesStay == TypeInv /\ [ReplanNext]_replanVars => TypeInv'
<1> SUFFICES ASSUME TypeInv, [ReplanNext]_replanVars PROVE TypeInv'
  OBVIOUS
<1>1. CASE UNCHANGED replanVars
  BY <1>1 DEF replanVars, topics, interfaces, TypeInv, ReplanTypeOK, IdleAtStart
<1>2. CASE ReplanNext
  BY <1>2, UpdateTypes, ServiceTypes, PlanTypes, InterfaceTypes DEF ReplanNext, ScriptStep
<1> QED
  BY <1>1, <1>2

(* The types, and that a dispatcher that executes nothing stands at the    *)
(* beginning of its plan.                                                  *)
THEOREM TypeInvariance == ReplanSpec => []TypeInv
  BY InitTypes, TypesStay, PTL DEF ReplanSpec

(* ReplanTypeOK holds for any regions, missions and faults; with it, the   *)
(* dispatcher never stands outside its plan, although a plan may arrive at *)
(* any time (planCallback).                                                *)
THEOREM ReplanTypeCorrect == ReplanSpec => []ReplanTypeOK
<1>1. TypeInv => ReplanTypeOK
  BY DEF TypeInv
<1> QED
  BY <1>1, TypeInvariance, PTL

-----------------------------------------------------------------------------
(* Fresh plans.  As long as no service of the round failed, the round's    *)
(* work is at one place of the chain: on the topic behind the service that *)
(* was called last, or received from it.                                   *)

LastRound(topic, received) ==
  IF topic # None THEN topic.round ELSE received.round

InChain ==
  /\ InRound("planning") =>
       /\ problem_instance # None \/ problem # None
       /\ LastRound(problem_instance, problem) = script.round
  /\ InRound("parse") =>
       /\ planner_output # None \/ output # None
       /\ LastRound(planner_output, output) = script.round
  /\ InRound("dispatch") =>
       IF complete_plan # None THEN complete_plan.round = script.round
                               ELSE dispatcher.plan.round = script.round

DispatchedRounds ==
  /\ dispatcher.round <= script.round
  /\ dispatcher.round = script.round => script.step \in {"waiting", "end"}

FreshInv ==
  /\ DispatchedRounds
  /\ "fault" \notin history => InChain /\ FreshPlan

LEMMA NotNone ==
  /\ \A m \in Messages : m # None
  /\ \A p \in Problems : p # None
<1>1. None \notin Messages \cup Problems
  BY ReplanAssumption, Zenon
<1> QED
  BY <1>1

LEMMA FreshInit == ReplanInit => FreshInv
<1> SUFFICES ASSUME ReplanInit PROVE FreshInv
  OBVIOUS
<1>1. script.round = 1 /\ script.step = "update" /\ dispatcher.round = 0 /\ ~dispatcher.busy
  BY DEF ReplanInit, Started, Idle
<1> QED
  BY <1>1 DEF FreshInv, DispatchedRounds, InChain, InRound, FreshPlan

(* The steps that touch neither the chain nor the dispatcher.              *)
LEMMA FreshApart ==
  ASSUME FreshInv,
         script'.round = script.round,
         script'.step \notin {"planning", "parse", "dispatch"},
         dispatcher.round # script.round \/ script'.step \in {"waiting", "end"},
         dispatcher'.round = dispatcher.round,
         dispatcher'.plan = dispatcher.plan,
         dispatcher'.busy => dispatcher.busy,
         "fault" \notin history' => "fault" \notin history
  PROVE  FreshInv'
  BY DEF FreshInv, DispatchedRounds, InChain, InRound, FreshPlan

(* The steps that only move the execution of a plan on.                    *)
LEMMA FreshExecution ==
  ASSUME FreshInv,
         UNCHANGED <<script, topics>>,
         dispatcher'.round = dispatcher.round,
         dispatcher'.plan = dispatcher.plan,
         dispatcher'.busy => dispatcher.busy,
         "fault" \notin history' => "fault" \notin history
  PROVE  FreshInv'
  BY DEF FreshInv, DispatchedRounds, InChain, InRound, FreshPlan, LastRound, topics

LEMMA FreshUpdates ==
  ASSUME TypeInv, FreshInv,
         \/ CreatePddlGlobal \/ WaitToStop \/ CancelDispatch \/ LookForMove \/ StopMove
         \/ ReadPlace \/ ReadGoals \/ Prune \/ WriteUpdate
  PROVE  FreshInv'
<1>0. /\ script \in [round : 1 .. Len(rounds), step : Steps, at : Locations, total : Int,
                      todo : SUBSET Regions]
      /\ dispatcher \in Dispatchers
  BY DEF TypeInv, ReplanTypeOK
<1>1. script'.round = script.round
  BY <1>0 DEF CreatePddlGlobal, WaitToStop, CancelDispatch, LookForMove, StopMove,
         ReadPlace, ReadGoals, Prune, WriteUpdate, Goto
<1>2. /\ script'.step \notin {"planning", "parse", "dispatch"}
      /\ script.step \notin {"waiting", "end"}
  BY <1>0 DEF CreatePddlGlobal, WaitToStop, CancelDispatch, LookForMove, StopMove,
         ReadPlace, ReadGoals, Prune, WriteUpdate, Goto, InRound
<1>3. /\ dispatcher'.round = dispatcher.round
      /\ dispatcher'.plan = dispatcher.plan
      /\ dispatcher'.busy = dispatcher.busy
  BY <1>0 DEF CreatePddlGlobal, WaitToStop, CancelDispatch, LookForMove, StopMove,
         ReadPlace, ReadGoals, Prune, WriteUpdate, Dispatchers
<1>4. "fault" \notin history' => "fault" \notin history
  BY DEF CreatePddlGlobal, WaitToStop, CancelDispatch, LookForMove, StopMove,
         ReadPlace, ReadGoals, Prune, WriteUpdate, Remember
<1>5. dispatcher.round # script.round
  BY <1>2 DEF FreshInv, DispatchedRounds
<1> QED
  BY <1>1, <1>2, <1>3, <1>4, <1>5, FreshApart

LEMMA FreshServices ==
  ASSUME TypeInv, FreshInv,
         \/ ProblemServer \/ ProblemCallback \/ PlanningServer \/ PlannerCallback \/ ParsePlan
  PROVE  FreshInv'
<1>0. /\ script \in [round : 1 .. Len(rounds), step : Steps, at : Locations, total : Int,
                      todo : SUBSET Regions]
      /\ script.round \in Nat
      /\ kb \in KnowledgeBases
      /\ problem_instance \in Problems \cup {None} /\ problem \in Problems \cup {None}
      /\ planner_output \in Messages \cup {None} /\ output \in Messages \cup {None}
      /\ complete_plan \in Messages \cup {None}
  BY MissionTypes DEF TypeInv, ReplanTypeOK
<1>00. ASSUME NEW step, Goto(step)
       PROVE  script'.round = script.round /\ script'.step = step
  BY <1>0, <1>00 DEF Goto
<1>1. CASE ProblemServer
  <2>1. script'.round = script.round /\ script'.step = "planning" /\ script.step = "problem"
    BY <1>1, <1>00 DEF ProblemServer, InRound
  <2>2. PICK went \in BOOLEAN :
          /\ Smooth(went)
          /\ problem_instance' = IF went THEN [round |-> script.round, kb |-> kb]
                                         ELSE problem_instance
    BY <1>1 DEF ProblemServer
  <2>3. "fault" \notin history' => went /\ "fault" \notin history
    BY <2>2 DEF Smooth, Remember
  <2>4. went => problem_instance' # None /\ problem_instance'.round = script.round
    <3>1. [round |-> script.round, kb |-> kb] \in Problems
      BY <1>0 DEF Problems
    <3> QED
      BY <2>2, <3>1, NotNone
  <2>5. UNCHANGED dispatcher
    BY <1>1 DEF ProblemServer
  <2> QED
    BY <2>1, <2>3, <2>4, <2>5
    DEF FreshInv, DispatchedRounds, InChain, InRound, FreshPlan, LastRound
<1>2. CASE ProblemCallback
  BY <1>2 DEF ProblemCallback, FreshInv, DispatchedRounds, InChain, InRound, FreshPlan, LastRound
<1>3. CASE PlanningServer
  <2>1. script'.round = script.round /\ script'.step = "parse" /\ script.step = "planning"
    BY <1>3, <1>00 DEF PlanningServer, InRound
  <2>2. UNCHANGED dispatcher
    BY <1>3 DEF PlanningServer
  <2>3. "fault" \notin history' =>
          /\ "fault" \notin history
          /\ planner_output' # None /\ planner_output'.round = script.round
    <3>1. CASE PlanFound
      <4>1. problem # None /\ Smooth(problem_instance = None)
        BY <3>1 DEF PlanFound
      <4>2. PICK a \in Solutions(problem) :
              planner_output' = [round |-> problem.round, actions |-> a]
        BY <3>1 DEF PlanFound
      <4>3. planner_output' # None
        <5>1. problem.round \in Nat
          BY <1>0, <4>1 DEF Problems
        <5>2. planner_output' \in Messages
          BY <4>2, <5>1, SolutionTypes DEF Messages
        <5> QED
          BY <5>2, NotNone
      <4>4. ASSUME "fault" \notin history'
            PROVE  "fault" \notin history /\ problem_instance = None
        BY <4>1, <4>4 DEF Smooth, Remember
      <4>5. ASSUME "fault" \notin history' PROVE problem.round = script.round
        BY <2>1, <4>4, <4>5 DEF FreshInv, InChain, InRound, LastRound
      <4> QED
        BY <4>2, <4>3, <4>4, <4>5
    <3>2. CASE NoPlanFound
      BY <3>2 DEF NoPlanFound, Remember
    <3> QED
      BY <1>3, <3>1, <3>2 DEF PlanningServer
  <2> QED
    BY <2>1, <2>2, <2>3
    DEF FreshInv, DispatchedRounds, InChain, InRound, FreshPlan, LastRound
<1>4. CASE PlannerCallback
  BY <1>4 DEF PlannerCallback, LastOutput, FreshInv, DispatchedRounds, InChain, InRound,
              FreshPlan, LastRound
<1>5. CASE ParsePlan
  <2>1. script'.round = script.round /\ script'.step = "dispatch" /\ script.step = "parse"
    BY <1>5, <1>00 DEF ParsePlan, InRound
  <2>2. UNCHANGED dispatcher
    BY <1>5 DEF ParsePlan
  <2>3. "fault" \notin history' =>
          "fault" \notin history /\ planner_output = None /\ output # None
    BY <1>5 DEF ParsePlan, Remember
  <2>4. "fault" \notin history' => complete_plan' # None /\ complete_plan'.round = script.round
    BY <1>5, <2>1, <2>3 DEF ParsePlan, FreshInv, InChain, InRound, LastRound
  <2> QED
    BY <2>1, <2>2, <2>3, <2>4
    DEF FreshInv, DispatchedRounds, InChain, InRound, FreshPlan, LastRound
<1> QED
  BY <1>1, <1>2, <1>3, <1>4, <1>5

LEMMA FreshDispatches ==
  ASSUME TypeInv, FreshInv, PlanCallback \/ DispatchPlan \/ NextRound
  PROVE  FreshInv'
<1>0. /\ script \in [round : 1 .. Len(rounds), step : Steps, at : Locations, total : Int,
                      todo : SUBSET Regions]
      /\ script.round \in Nat
      /\ dispatcher \in Dispatchers /\ dispatcher.round \in Nat
  BY MissionTypes DEF TypeInv, ReplanTypeOK, Dispatchers
<1>00. ASSUME NEW step, Goto(step)
       PROVE  script'.round = script.round /\ script'.step = step
  BY <1>0, <1>00 DEF Goto
<1>1. CASE PlanCallback
  <2>1. CASE Accepts
    <3>1. /\ dispatcher'.plan = complete_plan /\ dispatcher'.round = dispatcher.round
          /\ dispatcher'.busy = dispatcher.busy /\ ~dispatcher.busy
      BY <1>0, <1>1, <2>1 DEF PlanCallback, Accepts, Dispatchers
    <3> QED
      BY <1>1, <2>1, <3>1
      DEF PlanCallback, Remember, FreshInv, DispatchedRounds, InChain, InRound, FreshPlan,
          LastRound
  <2>2. CASE ~Accepts
    <3>1. "fault" \in history'
      BY <1>1, <2>2 DEF PlanCallback, Remember
    <3> QED
      BY <1>1, <2>2, <3>1 DEF PlanCallback, FreshInv, DispatchedRounds
  <2> QED
    BY <2>1, <2>2
<1>2. CASE DispatchPlan
  <2>1. script'.round = script.round /\ script'.step = "waiting" /\ script.step = "dispatch"
    BY <1>2, <1>00 DEF DispatchPlan, InRound
  <2>2. CASE dispatcher.busy
    BY <1>2, <2>1, <2>2
    DEF DispatchPlan, FreshInv, DispatchedRounds, InChain, InRound, FreshPlan
  <2>3. CASE ~dispatcher.busy
    <3>1. dispatcher'.round = script.round /\ dispatcher'.plan = dispatcher.plan
      BY <1>2, <2>3 DEF DispatchPlan, Idle
    <3>2. "fault" \notin history' => "fault" \notin history /\ complete_plan = None
      BY <1>2, <2>3 DEF DispatchPlan, Remember
    <3>3. "fault" \notin history' => dispatcher.plan.round = script.round
      BY <2>1, <3>2 DEF FreshInv, InChain, InRound
    <3> QED
      BY <1>0, <2>1, <3>1, <3>2, <3>3
      DEF FreshInv, DispatchedRounds, InChain, InRound, FreshPlan
  <2> QED
    BY <2>2, <2>3
<1>3. CASE NextRound
  <2>0. script.step = "waiting" /\ UNCHANGED dispatcher
    BY <1>3 DEF NextRound, InRound
  <2>1. CASE script.round < Len(rounds)
    <3>1. script'.round = script.round + 1 /\ script'.step = "update"
      BY <1>3, <2>1 DEF NextRound, Started
    <3> QED
      BY <1>0, <2>0, <3>1 DEF FreshInv, DispatchedRounds, InChain, InRound, FreshPlan
  <2>2. CASE ~(script.round < Len(rounds))
    <3>1. script'.round = script.round /\ script'.step = "end" /\ history' = history
      BY <1>3, <1>00, <2>2 DEF NextRound
    <3> QED
      BY <2>0, <3>1, FreshApart
  <2> QED
    BY <2>1, <2>2
<1> QED
  BY <1>1, <1>2, <1>3

LEMMA FreshExecutes ==
  ASSUME TypeInv, FreshInv,
         \/ SendAction \/ Leave
         \/ \E a \in Names : Hear(a)
         \/ \E c \in calls : Return(c) \/ Fails(c)
  PROVE  FreshInv'
<1>0. dispatcher \in Dispatchers
  BY DEF TypeInv, ReplanTypeOK
<1>1. UNCHANGED <<script, topics>>
  BY DEF SendAction, Leave, Hear, Return, Fails
<1>2. /\ dispatcher'.round = dispatcher.round
      /\ dispatcher'.plan = dispatcher.plan
      /\ dispatcher'.busy => dispatcher.busy
  <2>1. CASE SendAction
    BY <1>0, <2>1 DEF SendAction, Dispatchers
  <2>2. CASE Leave
    BY <2>2 DEF Leave, Idle
  <2>3. CASE \E a \in Names : Hear(a)
    BY <2>3 DEF Hear
  <2>4. CASE \E c \in calls : Return(c) \/ Fails(c)
    BY <1>0, <2>4 DEF Return, Fails, Dispatchers
  <2> QED
    BY <2>1, <2>2, <2>3, <2>4
<1>3. "fault" \notin history' => "fault" \notin history
  BY DEF SendAction, Leave, Hear, Return, Fails, Remember
<1> QED
  BY <1>1, <1>2, <1>3, FreshExecution

LEMMA FreshStays == TypeInv /\ FreshInv /\ [ReplanNext]_replanVars => FreshInv'
<1> SUFFICES ASSUME TypeInv, FreshInv, [ReplanNext]_replanVars PROVE FreshInv'
  OBVIOUS
<1>1. CASE UNCHANGED replanVars
  BY <1>1 DEF replanVars, topics, FreshInv, DispatchedRounds, InChain, InRound, FreshPlan,
              LastRound
<1>2. CASE ReplanNext
  BY <1>2, FreshUpdates, FreshServices, FreshDispatches, FreshExecutes DEF ReplanNext, ScriptStep
<1> QED
  BY <1>1, <1>2

(* FreshPlan for any regions, missions and faults: a round in which every  *)
(* service did its work in time executes its own plan, however late the    *)
(* messages of earlier rounds arrive (planningSystem, planCallback).       *)
THEOREM FreshPlanCorrect == ReplanSpec => []FreshPlan
<1>1. FreshInv => FreshPlan
  BY DEF FreshInv, FreshPlan
<1> QED
  BY <1>1, FreshInit, FreshStays, TypeInvariance, PTL DEF ReplanSpec

-----------------------------------------------------------------------------
(* Where the vehicle is.  Until an effect comes late, whoever writes where *)
(* the vehicle is does so alone: update.py while every dispatch is         *)
(* cancelled or over, else the one action that the dispatcher waits for.   *)

WhereFacts == {At(l) : l \in Locations} \cup {AtMove}

Current == [round |-> dispatcher.round, id |-> dispatcher.next, action |-> NextAction]

Pending(c) == Running /\ dispatcher.sent /\ c = Current

Queued(a, i) == inbox[a][i] \in Calls /\ Expected(inbox[a][i])

(* At most one call is expected, and then it is the one sent last: unheard *)
(* the vehicle is where the action starts (a choice starts anywhere),      *)
(* heard it is nowhere else.                                               *)
OneUnheard ==
  \A a \in Names : \A i \in 1 .. Len(inbox[a]) :
    Queued(a, i) =>
      /\ Pending(inbox[a][i])
      /\ NextAction.name # "set_next_region" => At(NextAction.from) \in Whereabouts
      /\ \A b \in Names : \A j \in 1 .. Len(inbox[b]) : Queued(b, j) => b = a /\ j = i
      /\ \A c \in calls : ~Expected(c)

OneHeard ==
  \A c \in calls :
    Expected(c) =>
      /\ Pending(c)
      /\ c.action.name = "go_to" => Whereabouts \subseteq {AtMove}
      /\ c.action.name = "go_to_base" => Whereabouts = {}

(* What update.py has read still holds when it writes.                     *)
ScriptAlone ==
  /\ script.round = 1 /\ InRound("update") => Whereabouts = {}
  /\ InRound("stop") => Whereabouts \subseteq {AtMove}
  /\ script.step \in {"goals", "prune"} => Whereabouts \subseteq {At(script.at)}

OnePlace == \A f, g \in Whereabouts : f = g

(* No call is of a later round, and no dispatch goes on while the script   *)
(* works.                                                                  *)
NoneAhead ==
  /\ \A c \in calls : c.round <= dispatcher.round
  /\ \A a \in Names : \A i \in 1 .. Len(inbox[a]) :
       inbox[a][i] \in Calls => inbox[a][i].round <= dispatcher.round
  /\ dispatcher.busy => dispatcher.round >= 1
  /\ dispatcher.busy /\ ~dispatcher.cancelled =>
       \/ script.round > 1 /\ script.step \in {"update", "cancel"}
       \/ script.step \in {"waiting", "end"}

LocatedInv ==
  /\ NoneAhead
  /\ "late" \notin history => OnePlace /\ OneUnheard /\ OneHeard /\ ScriptAlone

LEMMA WhereIs ==
  /\ Whereabouts = kb.facts \cap WhereFacts
  /\ Whereabouts' = kb'.facts \cap WhereFacts
  BY DEF Whereabouts, Ats, WhereFacts

LEMMA PlacesDiffer ==
  /\ \A l, m : At(l) = At(m) => l = m
  /\ \A l : At(l) # AtMove
  /\ \A l \in Locations : At(l) \in WhereFacts
  /\ AtMove \in WhereFacts
  /\ CanGo \notin WhereFacts
  /\ \A r : Pulverized(r) \notin WhereFacts
  /\ \A r : To(r) \notin WhereFacts
  BY DEF At, AtMove, CanGo, Pulverized, To, WhereFacts

(* What the types give, in the form the steps below use it.                *)
LEMMA LocatedTypes ==
  ASSUME TypeInv
  PROVE  /\ script \in [round : 1 .. Len(rounds), step : Steps, at : Locations, total : Int,
                         todo : SUBSET Regions]
         /\ script.round \in Nat
         /\ kb \in KnowledgeBases
         /\ dispatcher \in Dispatchers /\ dispatcher.round \in Nat
         /\ calls \subseteq Calls
         /\ inbox \in [Names -> Seq(Calls \cup {CancelAction})]
         /\ CancelAction \notin Calls
<1>1. CancelAction \notin Calls
  BY ReplanAssumption, Zenon
<1> QED
  BY <1>1, MissionTypes DEF TypeInv, ReplanTypeOK, Dispatchers

LEMMA LocatedInit == ReplanInit => LocatedInv
<1> SUFFICES ASSUME ReplanInit PROVE LocatedInv
  OBVIOUS
<1>1. /\ calls = {} /\ \A a \in Names : inbox[a] = <<>>
      /\ script.step = "update" /\ ~dispatcher.busy
  BY DEF ReplanInit, Started, Idle
<1>2. Whereabouts = {}
  BY WhereIs DEF ReplanInit, Empty
<1>3. NoneAhead
  BY <1>1 DEF NoneAhead
<1>4. OnePlace /\ OneUnheard /\ OneHeard /\ ScriptAlone
  BY <1>1, <1>2 DEF OnePlace, OneUnheard, OneHeard, ScriptAlone, InRound
<1> QED
  BY <1>3, <1>4 DEF LocatedInv

(* Steps that write nothing about the vehicle and send nothing.            *)
LEMMA LocatedApart ==
  ASSUME LocatedInv,
         calls' \subseteq calls,
         UNCHANGED <<inbox, dispatcher, Whereabouts>>,
         "late" \notin history' => "late" \notin history,
         dispatcher.busy /\ ~dispatcher.cancelled =>
           \/ script'.round > 1 /\ script'.step \in {"update", "cancel"}
           \/ script'.step \in {"waiting", "end"},
         "late" \notin history' => ScriptAlone'
  PROVE  LocatedInv'
<1>1. NoneAhead'
  BY DEF LocatedInv, NoneAhead
<1>2. ASSUME "late" \notin history' PROVE OnePlace' /\ OneUnheard' /\ OneHeard' /\ ScriptAlone'
  BY <1>2 DEF LocatedInv, OnePlace, OneUnheard, OneHeard, Queued, Expected, Pending, Current,
              Running, NextAction
<1> QED
  BY <1>1, <1>2 DEF LocatedInv

(* Steps after which no call is expected.                                  *)
LEMMA LocatedAlone ==
  ASSUME LocatedInv,
         NoneAhead',
         "late" \notin history' => "late" \notin history,
         \A c \in Calls : ~Expected(c)',
         calls' \subseteq Calls,
         "late" \notin history' => OnePlace' /\ ScriptAlone'
  PROVE  LocatedInv'
  BY DEF LocatedInv, OneUnheard, OneHeard, Queued

LEMMA LocatedUpdates ==
  ASSUME TypeInv, LocatedInv,
         \/ WaitToStop \/ LookForMove \/ ReadPlace \/ ReadGoals \/ Prune
         \/ ProblemServer \/ ProblemCallback \/ PlanningServer \/ PlannerCallback \/ ParsePlan
         \/ NextRound
  PROVE  LocatedInv'
<1> USE LocatedTypes
<1>0. UNCHANGED <<calls, inbox, dispatcher>>
  BY DEF WaitToStop, LookForMove, ReadPlace, ReadGoals, Prune, ProblemServer, ProblemCallback,
         PlanningServer, PlannerCallback, ParsePlan, NextRound, interfaces
<1>1. "late" \notin history' => "late" \notin history
  BY DEF WaitToStop, LookForMove, ReadPlace, ReadGoals, Prune, ProblemServer, ProblemCallback,
         PlanningServer, PlanFound, NoPlanFound, PlannerCallback, ParsePlan, NextRound,
         Remember, Smooth
<1>2. UNCHANGED Whereabouts
  <2>1. kb'.facts = kb.facts
    BY DEF WaitToStop, LookForMove, ReadPlace, ReadGoals, Prune, ProblemServer,
           ProblemCallback, PlanningServer, PlannerCallback, ParsePlan, NextRound,
           RemoveMissionGoal, KnowledgeBases
  <2> QED
    BY <2>1, WhereIs
<1>00. ASSUME NEW step, Goto(step)
       PROVE  script'.round = script.round /\ script'.step = step /\ script'.at = script.at
  BY <1>00 DEF Goto
<1>3. dispatcher.busy /\ ~dispatcher.cancelled =>
        \/ script'.round > 1 /\ script'.step \in {"update", "cancel"}
        \/ script'.step \in {"waiting", "end"}
  <2>1. CASE WaitToStop
    BY <1>00, <2>1 DEF WaitToStop
  <2>2. CASE NextRound
    BY <1>00, <2>2 DEF NextRound, Started
  <2>3. CASE ProblemCallback \/ PlannerCallback
    BY <2>3 DEF ProblemCallback, PlannerCallback, LocatedInv, NoneAhead
  <2>4. CASE \/ LookForMove \/ ReadPlace \/ ReadGoals \/ Prune \/ ProblemServer
             \/ PlanningServer \/ ParsePlan
    BY <2>4 DEF LookForMove, ReadPlace, ReadGoals, Prune, ProblemServer, PlanningServer,
                ParsePlan, InRound, LocatedInv, NoneAhead
  <2> QED
    BY <2>1, <2>2, <2>3, <2>4
<1>4. ASSUME "late" \notin history' PROVE ScriptAlone'
  <2>0. OnePlace /\ ScriptAlone
    BY <1>1, <1>4 DEF LocatedInv
  <2>1. CASE WaitToStop
    BY <1>00, <2>1 DEF WaitToStop, ScriptAlone, InRound
  <2>2. CASE NextRound
    BY <1>00, <2>2 DEF NextRound, Started, ScriptAlone, InRound
  <2>3. CASE ProblemCallback \/ PlannerCallback
    BY <1>2, <2>0, <2>3 DEF ProblemCallback, PlannerCallback, ScriptAlone, InRound
  <2>4. CASE ProblemServer \/ PlanningServer \/ ParsePlan
    BY <1>00, <2>4 DEF ProblemServer, PlanningServer, ParsePlan, ScriptAlone, InRound
  <2>5. CASE LookForMove
    <3>1. AtMove \in kb.facts => Whereabouts \subseteq {AtMove}
      BY <2>0, WhereIs, PlacesDiffer DEF OnePlace
    <3> QED
      BY <1>00, <1>2, <2>5, <3>1 DEF LookForMove, ScriptAlone, InRound
  <2>6. CASE ReadPlace
    <3>1. CASE Ats(kb) = {}
      BY <1>00, <2>6, <3>1 DEF ReadPlace, ScriptAlone, InRound
    <3>2. CASE Ats(kb) # {}
      <4>1. PICK l \in Ats(kb) : script' = [script EXCEPT !.step = "goals", !.at = l]
        BY <2>6, <3>2 DEF ReadPlace
      <4>2. At(l) \in Whereabouts
        BY <4>1, WhereIs, PlacesDiffer DEF Ats
      <4>3. Whereabouts' \subseteq {At(l)}
        BY <1>2, <2>0, <4>2 DEF OnePlace
      <4>4. script'.step = "goals" /\ script'.at = l
        BY <4>1
      <4> QED
        BY <4>3, <4>4 DEF ScriptAlone, InRound
    <3> QED
      BY <3>1, <3>2
  <2>7. CASE ReadGoals \/ Prune
    <3>1. /\ script.step \in {"goals", "prune"}
          /\ script'.step = "prune" /\ script'.at = script.at
      BY <2>7 DEF ReadGoals, Prune, InRound
    <3> QED
      BY <1>2, <2>0, <3>1 DEF ScriptAlone, InRound
  <2> QED
    BY <2>1, <2>2, <2>3, <2>4, <2>5, <2>6, <2>7
<1> QED
  BY <1>0, <1>1, <1>2, <1>3, <1>4, LocatedApart

(* What update.py writes, and what the dispatcher does beside sending.     *)
LEMMA LocatedWrites ==
  ASSUME TypeInv, LocatedInv, CreatePddlGlobal \/ StopMove \/ WriteUpdate
  PROVE  LocatedInv'
<1> USE LocatedTypes
<1>0. UNCHANGED <<calls, inbox, dispatcher, history>>
  BY DEF CreatePddlGlobal, StopMove, WriteUpdate, interfaces
<1>1. ~(dispatcher.busy /\ ~dispatcher.cancelled)
  <2>1. \/ script.round = 1 /\ script.step = "update"
        \/ script.step \in {"stop", "prune"}
    BY DEF CreatePddlGlobal, StopMove, WriteUpdate, InRound
  <2> QED
    BY <2>1 DEF LocatedInv, NoneAhead
<1>2. NoneAhead'
  BY <1>0, <1>1 DEF LocatedInv, NoneAhead
<1>3. \A c \in Calls : ~Expected(c)'
  BY <1>0, <1>1 DEF Expected
<1>4. ASSUME "late" \notin history' PROVE OnePlace' /\ ScriptAlone'
  <2>0. ScriptAlone
    BY <1>0, <1>4 DEF LocatedInv
  <2>1. CASE CreatePddlGlobal
    <3>1. Whereabouts' \subseteq {At(Base)}
      BY <2>1, WhereIs, PlacesDiffer DEF CreatePddlGlobal
    <3>2. script'.step = "problem"
      BY <2>1 DEF CreatePddlGlobal, Goto
    <3> QED
      BY <3>1, <3>2 DEF OnePlace, ScriptAlone, InRound
  <2>2. CASE StopMove
    <3>1. Whereabouts \subseteq {AtMove}
      BY <2>0, <2>2 DEF StopMove, ScriptAlone
    <3>2. kb'.facts = kb.facts \ {AtMove}
      BY <2>2 DEF StopMove, MoveOver, RemoveKnowledge, KnowledgeBases
    <3>3. Whereabouts' = {}
      BY <3>1, <3>2, WhereIs
    <3> QED
      BY <2>2, <3>3 DEF StopMove, OnePlace, ScriptAlone, InRound
  <2>3. CASE WriteUpdate
    <3>1. Whereabouts \subseteq {At(script.at)}
      BY <2>0, <2>3 DEF WriteUpdate, ScriptAlone, InRound
    <3>2. kb'.facts = kb.facts \cup {At(script.at)}
      BY <2>3 DEF WriteUpdate, PlaceWritten, AddKnowledge, AddMissionGoals, SetFunction,
                  KnowledgeBases
    <3>3. Whereabouts' \subseteq {At(script.at)}
      BY <3>1, <3>2, WhereIs
    <3>4. script'.step = "problem"
      BY <2>3 DEF WriteUpdate, Goto
    <3> QED
      BY <3>3, <3>4 DEF OnePlace, ScriptAlone, InRound
  <2> QED
    BY <2>1, <2>2, <2>3
<1> QED
  BY <1>0, <1>2, <1>3, <1>4, LocatedAlone

LEMMA LocatedDispatches ==
  ASSUME TypeInv, FreshInv, LocatedInv,
         CancelDispatch \/ PlanCallback \/ DispatchPlan \/ Leave
  PROVE  LocatedInv'
<1> USE LocatedTypes
<1>0. UNCHANGED <<calls, kb>> /\ UNCHANGED Whereabouts
  <2>1. UNCHANGED <<calls, kb>>
    BY DEF CancelDispatch, PlanCallback, DispatchPlan, Leave, interfaces
  <2> QED
    BY <2>1, WhereIs
<1>1. "late" \notin history' => "late" \notin history
  BY DEF CancelDispatch, PlanCallback, DispatchPlan, Leave, Remember
<1>2. OnePlace => OnePlace'
  BY <1>0 DEF OnePlace
<1>00. ASSUME NEW step, Goto(step)
       PROVE  script'.round = script.round /\ script'.step = step
  BY <1>00 DEF Goto
<1>3. CASE CancelDispatch
  <2>1. /\ ~(dispatcher'.busy /\ ~dispatcher'.cancelled)
        /\ dispatcher'.round = dispatcher.round /\ dispatcher'.busy = dispatcher.busy
    <3>1. dispatcher' = [dispatcher EXCEPT !.cancelled = dispatcher.cancelled \/ dispatcher.busy]
      BY <1>3 DEF CancelDispatch
    <3> QED
      BY <3>1 DEF Dispatchers
  <2>2. UNCHANGED inbox
    BY <1>3 DEF CancelDispatch, interfaces
  <2>3. NoneAhead'
    BY <1>0, <2>1, <2>2 DEF LocatedInv, NoneAhead
  <2>4. ScriptAlone'
    BY <1>3, <1>00 DEF CancelDispatch, ScriptAlone, InRound
  <2> QED
    BY <1>0, <1>1, <1>2, <2>1, <2>3, <2>4, LocatedAlone DEF Expected, LocatedInv
<1>4. CASE PlanCallback
  <2>1. UNCHANGED <<script, inbox>>
    BY <1>4 DEF PlanCallback, interfaces
  <2>2. CASE Accepts
    <3>1. /\ ~dispatcher'.busy
          /\ dispatcher'.round = dispatcher.round
      BY <1>4, <2>2 DEF PlanCallback, Accepts, Dispatchers
    <3>2. NoneAhead'
      BY <1>0, <2>1, <3>1 DEF LocatedInv, NoneAhead
    <3>3. ScriptAlone => ScriptAlone'
      BY <1>0, <2>1 DEF ScriptAlone, InRound
    <3> QED
      BY <1>0, <1>1, <1>2, <3>1, <3>2, <3>3, LocatedAlone DEF Expected, LocatedInv
  <2>3. CASE ~Accepts
    <3>1. UNCHANGED dispatcher
      BY <1>4, <2>3 DEF PlanCallback
    <3>2. ScriptAlone => ScriptAlone'
      BY <1>0, <2>1 DEF ScriptAlone, InRound
    <3> QED
      BY <1>0, <1>1, <2>1, <3>1, <3>2, LocatedApart DEF LocatedInv, NoneAhead
  <2> QED
    BY <2>2, <2>3
<1>5. CASE DispatchPlan
  <2>1. /\ script.step = "dispatch" /\ script'.step = "waiting"
        /\ script'.round = script.round
    BY <1>5, <1>00 DEF DispatchPlan, InRound
  <2>2. UNCHANGED inbox
    BY <1>5 DEF DispatchPlan, interfaces
  <2>3. ScriptAlone'
    BY <2>1 DEF ScriptAlone, InRound
  <2>4. CASE dispatcher.busy
    <3>1. UNCHANGED dispatcher
      BY <1>5, <2>4 DEF DispatchPlan
    <3> QED
      BY <1>0, <1>1, <2>1, <2>2, <2>3, <3>1, LocatedApart
  <2>5. CASE ~dispatcher.busy
    <3>1. dispatcher'.round = script.round
      BY <1>5, <2>5 DEF DispatchPlan, Idle
    <3>2. dispatcher.round < script.round
      BY <2>1 DEF FreshInv, DispatchedRounds
    <3>3. /\ \A c \in calls : c.round < dispatcher'.round
          /\ \A a \in Names : \A i \in 1 .. Len(inbox[a]) :
               inbox[a][i] \in Calls => inbox[a][i].round < dispatcher'.round
      BY <3>1, <3>2 DEF LocatedInv, NoneAhead, Calls
    <3>4. NoneAhead'
      <4>1. \A c \in Calls : c.round \in Nat
        BY DEF Calls
      <4>2. dispatcher'.round \in Nat /\ dispatcher'.round >= 1
        BY <3>1
      <4> QED
        BY <1>0, <2>1, <2>2, <3>3, <4>1, <4>2 DEF NoneAhead
    <3>5. OneUnheard' /\ OneHeard'
      <4>1. \A c \in Calls : c.round \in Nat
        BY DEF Calls
      <4>2. dispatcher'.round \in Nat
        BY <3>1
      <4>3. \A c \in calls' : ~Expected(c)'
        BY <1>0, <3>3, <4>1, <4>2 DEF Expected
      <4>4. \A a \in Names : \A i \in 1 .. Len(inbox[a]) : ~Queued(a, i)'
        BY <2>2, <3>3, <4>1, <4>2 DEF Queued, Expected
      <4> QED
        BY <2>2, <4>3, <4>4 DEF OneUnheard, OneHeard
    <3> QED
      BY <1>1, <1>2, <2>3, <3>4, <3>5 DEF LocatedInv
  <2> QED
    BY <2>4, <2>5
<1>6. CASE Leave
  <2>1. ~dispatcher'.busy /\ dispatcher'.round = dispatcher.round
    BY <1>6 DEF Leave, Idle
  <2>2. UNCHANGED script
    BY <1>6 DEF Leave
  <2>3. \A a \in Names : \A i \in 1 .. Len(inbox'[a]) :
          inbox'[a][i] \in Calls => i \in 1 .. Len(inbox[a]) /\ inbox'[a][i] = inbox[a][i]
    <3> SUFFICES ASSUME NEW a \in Names, NEW i \in 1 .. Len(inbox'[a]), inbox'[a][i] \in Calls
                 PROVE  i \in 1 .. Len(inbox[a]) /\ inbox'[a][i] = inbox[a][i]
      OBVIOUS
    <3>1. inbox'[a] = inbox[a] \/ inbox'[a] = Append(inbox[a], CancelAction)
      BY <1>6 DEF Leave
    <3>2. CASE inbox'[a] = Append(inbox[a], CancelAction)
      <4>1. inbox[a] \in Seq(Calls \cup {CancelAction})
        OBVIOUS
      <4> QED
        BY <3>2, <4>1
    <3> QED
      BY <3>1, <3>2
  <2>4. NoneAhead'
    BY <1>0, <2>1, <2>3 DEF LocatedInv, NoneAhead
  <2>5. ScriptAlone => ScriptAlone'
    BY <1>0, <2>2 DEF ScriptAlone, InRound
  <2> QED
    BY <1>0, <1>1, <1>2, <2>1, <2>4, <2>5, LocatedAlone DEF Expected, LocatedInv
<1> QED
  BY <1>3, <1>4, <1>5, <1>6

(* The interfaces and the message to them.                                 *)

LEMMA Effects ==
  ASSUME NEW a \in Actions
  PROVE  /\ a.from \in Locations /\ a.to \in Locations
         /\ a.name \in {"set_next_region", "go_to", "go_to_base", "pulverize_region"}
         /\ a.name = "set_next_region" =>
              /\ StartDel(a) = {} /\ StartAdd(a) = {}
              /\ EndDel(a) = {} /\ EndAdd(a) = {To(a.to)}
         /\ a.name = "go_to" =>
              /\ StartDel(a) = {At(a.from)} /\ StartAdd(a) = {AtMove}
              /\ EndDel(a) = {AtMove, To(a.to)} /\ EndAdd(a) = {At(a.to)}
         /\ a.name = "go_to_base" =>
              /\ StartDel(a) = {At(a.from)} /\ StartAdd(a) = {}
              /\ EndDel(a) = {} /\ EndAdd(a) = {At(a.to)}
         /\ a.name = "pulverize_region" =>
              /\ StartDel(a) = {CanGo} /\ StartAdd(a) = {}
              /\ EndDel(a) = {} /\ EndAdd(a) = {Pulverized(a.to), CanGo}
  BY DEF Actions, Names, StartDel, StartAdd, EndDel, EndAdd

(* Nothing but the first message of one interface is gone.                 *)
LEMMA Heard ==
  ASSUME TypeInv, NEW a \in Names, Hear(a)
  PROVE  /\ 1 \in 1 .. Len(inbox[a]) /\ Head(inbox[a]) = inbox[a][1]
         /\ \A b \in Names : \A j \in 1 .. Len(inbox'[b]) :
              IF b = a THEN j + 1 \in 1 .. Len(inbox[a]) /\ inbox'[b][j] = inbox[a][j + 1]
                       ELSE j \in 1 .. Len(inbox[b]) /\ inbox'[b][j] = inbox[b][j]
<1>1. inbox \in [Names -> Seq(Calls \cup {CancelAction})]
  BY LocatedTypes
<1>2. inbox[a] \in Seq(Calls \cup {CancelAction}) /\ inbox[a] # <<>>
  BY <1>1 DEF Hear
<1>3. inbox'[a] = Tail(inbox[a]) /\ \A b \in Names \ {a} : inbox'[b] = inbox[b]
  BY <1>1 DEF Hear
<1>4. 1 \in 1 .. Len(inbox[a]) /\ Head(inbox[a]) = inbox[a][1]
  BY <1>2
<1>5. ASSUME NEW j \in 1 .. Len(Tail(inbox[a]))
      PROVE  j + 1 \in 1 .. Len(inbox[a]) /\ Tail(inbox[a])[j] = inbox[a][j + 1]
  BY <1>2
<1> QED
  BY <1>3, <1>4, <1>5

LEMMA LocatedSends ==
  ASSUME TypeInv, LocatedInv, SendAction
  PROVE  LocatedInv'
<1> USE LocatedTypes
<1> DEFINE name == NextAction.name
<1>1. UNCHANGED <<script, kb, calls, history>> /\ UNCHANGED Whereabouts
  BY WhereIs DEF SendAction, interfaces
<1>2. /\ dispatcher.busy /\ ~dispatcher.cancelled /\ ~dispatcher.sent /\ Running
      /\ dispatcher'.sent
      /\ dispatcher'.busy = dispatcher.busy /\ dispatcher'.cancelled = dispatcher.cancelled
      /\ dispatcher'.round = dispatcher.round /\ dispatcher'.plan = dispatcher.plan
      /\ dispatcher'.next = dispatcher.next
  BY DEF SendAction, Running, Dispatchers
<1>3. Current' = Current /\ NextAction' = NextAction /\ Running' /\ Current.round = dispatcher.round
  BY <1>2 DEF Current, NextAction, Running
<1>4. NextAction \in Actions /\ name \in Names
  <2>1. NextAction \in Actions
    BY <1>2, ElementOfSeq DEF Running, NextAction, Dispatchers, Messages
  <2> QED
    BY <2>1 DEF Actions
<1>5. \A b \in Names : \A j \in 1 .. Len(inbox'[b]) :
        \/ j \in 1 .. Len(inbox[b]) /\ inbox'[b][j] = inbox[b][j]
        \/ b = name /\ j = Len(inbox[name]) + 1 /\ inbox'[b][j] = Current
  <2>1. /\ inbox'[name] = Append(inbox[name], Current)
        /\ \A b \in Names \ {name} : inbox'[b] = inbox[b]
    BY <1>4 DEF SendAction, Current
  <2>2. inbox[name] \in Seq(Calls \cup {CancelAction})
    BY <1>4
  <2>3. ASSUME NEW j \in 1 .. Len(Append(inbox[name], Current))
        PROVE  \/ j \in 1 .. Len(inbox[name]) /\ Append(inbox[name], Current)[j] = inbox[name][j]
               \/ j = Len(inbox[name]) + 1 /\ Append(inbox[name], Current)[j] = Current
    <3> HIDE DEF name
    <3> QED
      BY <2>2
  <2> HIDE DEF name
  <2> QED
    BY <2>1, <2>3
<1>6. NoneAhead'
  <2>0. NoneAhead
    BY DEF LocatedInv
  <2>1. dispatcher'.round = dispatcher.round /\ dispatcher'.busy = dispatcher.busy
        /\ dispatcher'.cancelled = dispatcher.cancelled
    BY <1>2
  <2>2. \A b \in Names : \A j \in 1 .. Len(inbox'[b]) :
          inbox'[b][j] \in Calls => inbox'[b][j].round <= dispatcher.round
    <3> SUFFICES ASSUME NEW b \in Names, NEW j \in 1 .. Len(inbox'[b]), inbox'[b][j] \in Calls
                 PROVE  inbox'[b][j].round <= dispatcher.round
      OBVIOUS
    <3>1. CASE j \in 1 .. Len(inbox[b]) /\ inbox'[b][j] = inbox[b][j]
      BY <2>0, <3>1 DEF NoneAhead
    <3>2. CASE inbox'[b][j] = Current
      BY <1>3, <3>2
    <3> QED
      BY <1>5, <3>1, <3>2
  <2> QED
    BY <1>1, <2>0, <2>1, <2>2 DEF NoneAhead
<1>7. ASSUME "late" \notin history'
      PROVE  OnePlace' /\ OneUnheard' /\ OneHeard' /\ ScriptAlone'
  <2>0. OnePlace /\ OneUnheard /\ OneHeard /\ ScriptAlone
    BY <1>1, <1>7 DEF LocatedInv
  <2>1. OnePlace' /\ ScriptAlone'
    BY <1>1, <2>0 DEF OnePlace, ScriptAlone, InRound
  <2>2. \A c : Expected(c)' <=> Expected(c)
    BY <1>2 DEF Expected
  <2>3. \A c \in calls : ~Expected(c)
    BY <1>2, <2>0 DEF OneHeard, Pending
  <2>4. \A b \in Names : \A j \in 1 .. Len(inbox[b]) : ~Queued(b, j)
    BY <1>2, <2>0 DEF OneUnheard, Pending
  <2>5. OneHeard'
    BY <1>1, <2>2, <2>3 DEF OneHeard
  <2>6. \A b \in Names : \A j \in 1 .. Len(inbox'[b]) :
          Queued(b, j)' => b = name /\ j = Len(inbox[name]) + 1 /\ inbox'[b][j] = Current
    BY <1>5, <2>2, <2>4 DEF Queued
  <2>7. name # "set_next_region" => At(NextAction.from) \in Whereabouts
    BY <1>4, WhereIs, PlacesDiffer, Effects DEF SendAction, AllTrue, AtStart
  <2>8. OneUnheard'
    BY <1>1, <1>2, <1>3, <2>2, <2>3, <2>6, <2>7 DEF OneUnheard, Pending
  <2> QED
    BY <2>1, <2>5, <2>8
<1> QED
  BY <1>6, <1>7 DEF LocatedInv

LEMMA LocatedHears ==
  ASSUME TypeInv, LocatedInv, NEW a \in Names, Hear(a)
  PROVE  LocatedInv'
<1> USE LocatedTypes
<1> DEFINE c == inbox[a][1]
<1>1. UNCHANGED <<script, dispatcher>>
  BY DEF Hear
<1>2. \A d : /\ Expected(d)' <=> Expected(d)
             /\ Pending(d)' <=> Pending(d)
  BY <1>1 DEF Expected, Pending, Running, Current, NextAction
<1>3. "late" \notin history' => "late" \notin history
  BY DEF Hear, Remember
<1>4. c \in Calls \cup {CancelAction}
  <2>1. inbox[a] \in Seq(Calls \cup {CancelAction}) /\ 1 \in 1 .. Len(inbox[a])
    BY Heard
  <2> QED
    BY <2>1, ElementOfSeq
<1>5. calls' = calls \/ (c \in Calls /\ calls' = calls \cup {c})
  <2>1. CASE c = CancelAction
    <3>1. Head(inbox[a]) = CancelAction
      BY <2>1, Heard
    <3>2. UNCHANGED calls
      BY <3>1 DEF Hear
    <3> QED
      BY <3>2
  <2>2. CASE c # CancelAction
    BY <1>4, <2>2, Heard DEF Hear
  <2> QED
    BY <2>1, <2>2
<1>6. NoneAhead'
  <2>0. NoneAhead
    BY DEF LocatedInv
  <2>1. \A d \in calls' : d.round <= dispatcher'.round
    <3>1. c \in Calls => c.round <= dispatcher.round
      BY <2>0, Heard DEF NoneAhead
    <3> QED
      BY <1>1, <1>5, <2>0, <3>1 DEF NoneAhead
  <2>2. \A b \in Names : \A j \in 1 .. Len(inbox'[b]) :
          inbox'[b][j] \in Calls => inbox'[b][j].round <= dispatcher'.round
    <3> SUFFICES ASSUME NEW b \in Names, NEW j \in 1 .. Len(inbox'[b]), inbox'[b][j] \in Calls
                 PROVE  inbox'[b][j].round <= dispatcher.round
      BY <1>1
    <3> DEFINE i == IF b = a THEN j + 1 ELSE j
    <3>1. i \in 1 .. Len(inbox[b]) /\ inbox'[b][j] = inbox[b][i]
      BY Heard
    <3> HIDE DEF i
    <3> QED
      BY <2>0, <3>1 DEF NoneAhead
  <2> QED
    BY <1>1, <2>0, <2>1, <2>2 DEF NoneAhead
<1>7. ASSUME "late" \notin history'
      PROVE  OnePlace' /\ OneUnheard' /\ OneHeard' /\ ScriptAlone'
  <2>0. OnePlace /\ OneUnheard /\ OneHeard /\ ScriptAlone
    BY <1>3, <1>7 DEF LocatedInv
  <2>1. CASE c = CancelAction
    <3>1. UNCHANGED <<kb, calls>> /\ UNCHANGED Whereabouts
      BY <2>1, Heard, WhereIs DEF Hear
    <3>2. OnePlace' /\ ScriptAlone' /\ OneHeard'
      BY <1>1, <1>2, <2>0, <3>1 DEF OnePlace, ScriptAlone, InRound, OneHeard
    <3>3. \A b \in Names : \A j \in 1 .. Len(inbox'[b]) :
            Queued(b, j)' <=> Queued(b, IF b = a THEN j + 1 ELSE j)
      BY <1>2, Heard DEF Queued
    <3>4. NextAction' = NextAction
      BY <1>1 DEF NextAction
    <3>5. OneUnheard'
      <4> SUFFICES ASSUME NEW b \in Names, NEW j \in 1 .. Len(inbox'[b]), Queued(b, j)'
                   PROVE  /\ Pending(inbox[b][j])'
                          /\ NextAction.name # "set_next_region" =>
                               At(NextAction.from) \in Whereabouts
                          /\ \A e \in Names : \A k \in 1 .. Len(inbox'[e]) :
                               Queued(e, k)' => e = b /\ k = j
                          /\ \A d \in calls : ~Expected(d)
        BY <1>2, <3>1, <3>4 DEF OneUnheard
      <4> DEFINE i == IF b = a THEN j + 1 ELSE j
      <4>1. i \in 1 .. Len(inbox[b]) /\ Queued(b, i) /\ inbox'[b][j] = inbox[b][i]
        BY <3>3, Heard
      <4>2. /\ Pending(inbox[b][i])
            /\ NextAction.name # "set_next_region" => At(NextAction.from) \in Whereabouts
            /\ \A d \in calls : ~Expected(d)
            /\ \A e \in Names : \A k \in 1 .. Len(inbox[e]) : Queued(e, k) => e = b /\ k = i
        BY <2>0, <4>1 DEF OneUnheard
      <4>3. ASSUME NEW e \in Names, NEW k \in 1 .. Len(inbox'[e]), Queued(e, k)'
            PROVE  e = b /\ k = j
        <5> DEFINE n == IF e = a THEN k + 1 ELSE k
        <5>1. n \in 1 .. Len(inbox[e]) /\ Queued(e, n)
          BY <3>3, <4>3, Heard
        <5>2. e = b /\ n = i
          BY <4>2, <5>1
        <5> QED
          BY <5>2
      <4> QED
        BY <1>2, <4>1, <4>2, <4>3
    <3> QED
      BY <3>2, <3>5
  <2>2. CASE c # CancelAction
    <3>1. /\ c \in Calls /\ c.action \in Actions
          /\ kb' = UpdateKnowledgeArray(kb, StartDel(c.action), StartAdd(c.action))
          /\ Expected(c)
      <4>1. c \in Calls
        BY <1>4, <2>2
      <4>2. /\ kb' = UpdateKnowledgeArray(kb, StartDel(c.action), StartAdd(c.action))
            /\ Remember(Late(c))
        BY <2>2, Heard DEF Hear
      <4> QED
        BY <1>7, <4>1, <4>2 DEF Remember, Late, Calls
    <3>2. Queued(a, 1)
      BY <3>1 DEF Queued
    <3>3. /\ Pending(c)
          /\ c.action.name # "set_next_region" => At(c.action.from) \in Whereabouts
          /\ \A d \in calls : ~Expected(d)
          /\ \A b \in Names : \A j \in 1 .. Len(inbox[b]) : Queued(b, j) => b = a /\ j = 1
      <4>1. Pending(c) => c.action = NextAction
        BY DEF Pending, Current
      <4> QED
        BY <2>0, <3>2, <4>1, Heard DEF OneUnheard
    <3>4. c.action.name # "set_next_region" => Whereabouts = {At(c.action.from)}
      BY <2>0, <3>3 DEF OnePlace
    <3>5. kb'.facts = (kb.facts \ StartDel(c.action)) \cup StartAdd(c.action)
      BY <3>1 DEF UpdateKnowledgeArray, KnowledgeBases
    <3>6. /\ c.action.name = "go_to" => Whereabouts' = {AtMove}
          /\ c.action.name = "go_to_base" => Whereabouts' = {}
          /\ c.action.name \in {"set_next_region", "pulverize_region"} =>
               Whereabouts' = Whereabouts
      BY <3>1, <3>4, <3>5, Effects, WhereIs, PlacesDiffer
    <3>7. OnePlace'
      BY <2>0, <3>1, <3>6, Effects DEF OnePlace
    <3>8. OneHeard'
      <4>1. \A d \in calls' : Expected(d)' => d = c
        BY <1>2, <1>5, <3>3
      <4> QED
        BY <1>2, <3>3, <3>6, <4>1 DEF OneHeard
    <3>9. OneUnheard'
      <4>1. \A b \in Names : \A j \in 1 .. Len(inbox'[b]) : ~Queued(b, j)'
        <5> SUFFICES ASSUME NEW b \in Names, NEW j \in 1 .. Len(inbox'[b]), Queued(b, j)'
                     PROVE  FALSE
          OBVIOUS
        <5> DEFINE i == IF b = a THEN j + 1 ELSE j
        <5>1. i \in 1 .. Len(inbox[b]) /\ inbox'[b][j] = inbox[b][i]
          BY Heard
        <5>2. Queued(b, i)
          BY <1>2, <5>1 DEF Queued
        <5>3. b = a /\ i = 1
          BY <3>3, <5>1, <5>2
        <5> QED
          BY <5>3
      <4> QED
        BY <4>1 DEF OneUnheard
    <3>10. ScriptAlone'
      BY <1>1, <3>1 DEF Expected, LocatedInv, NoneAhead, ScriptAlone, InRound
    <3> QED
      BY <3>7, <3>8, <3>9, <3>10
  <2> QED
    BY <2>1, <2>2
<1> QED
  BY <1>6, <1>7 DEF LocatedInv

LEMMA LocatedReturns ==
  ASSUME TypeInv, LocatedInv, NEW c \in calls, Return(c) \/ Fails(c)
  PROVE  LocatedInv'
<1> USE LocatedTypes
<1>1. UNCHANGED <<script, inbox>> /\ calls' = calls \ {c} /\ c \in Calls /\ c.action \in Actions
  BY DEF Return, Fails, Calls
<1>2. "late" \notin history' => "late" \notin history
  BY DEF Return, Fails, Remember
<1>3. ASSUME UNCHANGED <<dispatcher, kb>> PROVE LocatedInv'
  <2>1. UNCHANGED Whereabouts
    BY <1>3, WhereIs
  <2>2. ScriptAlone => ScriptAlone'
    BY <1>1, <2>1 DEF ScriptAlone, InRound
  <2> QED
    BY <1>1, <1>2, <1>3, <2>1, <2>2, LocatedApart DEF LocatedInv, NoneAhead
<1>4. /\ dispatcher'.round = dispatcher.round /\ dispatcher'.busy = dispatcher.busy
      /\ dispatcher'.cancelled = FALSE => dispatcher.cancelled = FALSE
      /\ dispatcher'.cancelled \in BOOLEAN
  BY DEF Return, Fails, Dispatchers
<1>5. NoneAhead'
  BY <1>1, <1>4 DEF LocatedInv, NoneAhead, Dispatchers
<1>6. CASE Fails(c)
  <2>1. CASE Completes(c)
    <3>1. /\ dispatcher'.cancelled
          /\ UNCHANGED <<kb, script>>
      BY <1>6, <2>1 DEF Fails, Dispatchers
    <3>2. OnePlace /\ ScriptAlone => OnePlace' /\ ScriptAlone'
      BY <3>1, WhereIs DEF OnePlace, ScriptAlone, InRound
    <3> QED
      BY <1>1, <1>2, <1>5, <3>1, <3>2, LocatedAlone DEF Expected, LocatedInv
  <2>2. CASE ~Completes(c)
    BY <1>3, <1>6, <2>2 DEF Fails
  <2> QED
    BY <2>1, <2>2
<1>7. CASE Return(c) /\ action_cancelled[c.action.name]
  BY <1>3, <1>7 DEF Return
<1>8. CASE Return(c) /\ ~action_cancelled[c.action.name]
  <2>1. /\ kb' = UpdateKnowledgeArray(kb, EndDel(c.action), EndAdd(c.action))
        /\ "late" \notin history' => Expected(c)
    BY <1>8 DEF Return, Remember, Late
  <2>2. ASSUME "late" \notin history'
        PROVE  OnePlace' /\ OneUnheard' /\ OneHeard' /\ ScriptAlone'
    <3>0. OnePlace /\ OneUnheard /\ OneHeard /\ Expected(c)
      BY <1>2, <2>1, <2>2 DEF LocatedInv
    <3>1. /\ Pending(c)
          /\ c.action.name = "go_to" => Whereabouts \subseteq {AtMove}
          /\ c.action.name = "go_to_base" => Whereabouts = {}
      BY <3>0 DEF OneHeard
    <3>2. kb'.facts = (kb.facts \ EndDel(c.action)) \cup EndAdd(c.action)
      BY <2>1 DEF UpdateKnowledgeArray, KnowledgeBases
    <3>3. IF c.action.name \in {"set_next_region", "pulverize_region"}
          THEN Whereabouts' = Whereabouts ELSE Whereabouts' = {At(c.action.to)}
      BY <1>1, <3>1, <3>2, Effects, WhereIs, PlacesDiffer
    <3>4. OnePlace'
      BY <3>0, <3>3 DEF OnePlace
    <3>5. \A d : Expected(d)' => Expected(d)
      BY <1>4 DEF Expected, Dispatchers
    <3>6. \A d \in calls : Expected(d) => d = c
      BY <3>0, <3>1 DEF OneHeard, Pending
    <3>7. OneHeard'
      BY <1>1, <3>5, <3>6 DEF OneHeard
    <3>8. \A b \in Names : \A j \in 1 .. Len(inbox[b]) : ~Queued(b, j)
      BY <3>0 DEF OneUnheard
    <3>9. OneUnheard'
      BY <1>1, <3>5, <3>8 DEF OneUnheard, Queued
    <3>10. ScriptAlone'
      BY <1>1, <3>0 DEF Expected, LocatedInv, NoneAhead, ScriptAlone, InRound
    <3> QED
      BY <3>4, <3>7, <3>9, <3>10
  <2> QED
    BY <1>5, <2>2 DEF LocatedInv
<1> QED
  BY <1>6, <1>7, <1>8

LEMMA LocatedStays == TypeInv /\ FreshInv /\ LocatedInv /\ [ReplanNext]_replanVars => LocatedInv'
<1> SUFFICES ASSUME TypeInv, FreshInv, LocatedInv, [ReplanNext]_replanVars PROVE LocatedInv'
  OBVIOUS
<1>1. CASE UNCHANGED replanVars
  <2>1. UNCHANGED Whereabouts
    BY <1>1, WhereIs DEF replanVars
  <2>2. UNCHANGED <<script, calls, inbox, dispatcher, history>>
    BY <1>1 DEF replanVars, interfaces
  <2>3. ScriptAlone => ScriptAlone'
    BY <2>1, <2>2 DEF ScriptAlone, InRound
  <2> QED
    BY <2>1, <2>2, <2>3, LocatedApart DEF LocatedInv, NoneAhead
<1>2. CASE ReplanNext
  BY <1>2, LocatedUpdates, LocatedWrites, LocatedDispatches, LocatedSends, LocatedHears,
     LocatedReturns DEF ReplanNext, ScriptStep
<1> QED
  BY <1>1, <1>2

(* Located for any regions, missions and faults: without a late effect the *)
(* knowledge base never has the vehicle at two places, or at one and on    *)
(* its way (update.py and the effects the interfaces write).               *)
THEOREM LocatedCorrect == ReplanSpec => []Located
<1>1. LocatedInv => Located
  BY DEF LocatedInv, Located, OnePlace
<1> QED
  BY <1>1, LocatedInit, LocatedStays, FreshInit, FreshStays, TypeInvariance, PTL DEF ReplanSpec
=============================================================================
