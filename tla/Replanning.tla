----------------------------- MODULE Replanning -----------------------------
(***************************************************************************)
(* A mission and its changes, as replanning/0.bash runs them: in each      *)
(* round a script puts the mission into the knowledge base, and the        *)
(* services for the problem, the plan and its graph are called one after   *)
(* the other, whatever they answer, and then the dispatcher, whose client  *)
(* is given up after a time.  What the services hand on travels on topics  *)
(* beside the calls.                                                       *)
(*                                                                         *)
(* The dispatcher and the action interfaces are those of                   *)
(* EsterelPlanDispatcher and ActionInterface, with plans that are          *)
(* sequences and without the windows those modules look into.  The domain  *)
(* is reduced to where the vehicle is, what is sprayed and the facts that  *)
(* a cut action leaves wrong: at-move, can-go, and to, which is given to   *)
(* a region by set_next_region and taken back by the flight to it.         *)
(***************************************************************************)
EXTENDS KnowledgeBase, SequencesExt

CONSTANTS
  Scripts,    \* the missions of a run: in each round, whether the vehicle is stopped on
              \* its way (on_move) and the regions to be sprayed
  Faults,     \* bound: how many services and actions fail, and how many services
              \* overtake the message of the one before
  None, CancelAction

Names == {"set_next_region", "go_to", "pulverize_region", "go_to_base"}

Act(name, from, to) == [name |-> name, from |-> from, to |-> to]

Actions == {a \in [name : Names, from : Locations, to : Locations] :
              a.to = Base <=> a.name = "go_to_base"}

Messages == [round : Nat, actions : Seq(Actions)]
Problems == [round : Nat, kb : KnowledgeBases]
Calls    == [round : Nat, id : Nat, action : Actions]

ASSUME ReplanAssumption ==
  /\ IsFiniteSet(Regions)
  /\ Base \notin Regions
  /\ Scripts \subseteq Seq([on_move : BOOLEAN, regions : SUBSET Regions]) \ {<<>>}
  /\ Faults \in Nat
  /\ None \notin Messages \cup Problems
  /\ CancelAction \notin Calls

VARIABLES
  rounds,           \* one of Scripts
  script,           \* where the scripts are and what update.py has read
  kb,               \* the knowledge base
  problem_instance, \* the message on its way to the planner
  problem,          \* the last problem the planner received
  planner_output,   \* the message on its way to the parser
  output,           \* the parser's output, None once it is parsed
  complete_plan,    \* the message on its way to the dispatcher
  dispatcher,       \* its plan, and how far the execution is
  calls,            \* calls of the action interfaces under way
  inbox,            \* what waits at each interface
  action_cancelled, \* the flag of each interface
  faults,
  history           \* what went wrong so far, see Mishaps

topics     == <<problem_instance, problem, planner_output, output, complete_plan>>
interfaces == <<calls, inbox, action_cancelled>>
replanVars == <<rounds, script, kb, topics, dispatcher, interfaces, faults, history>>

(* What the properties have to tell apart:                                 *)
(*   fault  a service of this round did not do its work in time            *)
(*   stale  a plan of an earlier round was dispatched                      *)
(*   died   update.py ended in an IndexError                               *)
(*   cut    an action was cut short that is not one of Resumable           *)
(*   late   an effect was written that no dispatch waits for               *)
(*   twice  a region was sprayed once more                                 *)
Mishaps == {"fault", "stale", "died", "cut", "late", "twice"}

(* What may be cut short: a choice, and a flight to a region, after which  *)
(* update.py looks.                                                        *)
Resumable == {"set_next_region", "go_to"}

Started(round)    == [round |-> round, step |-> "update", at |-> Base, total |-> 0, todo |-> {}]
NoPlan            == [round |-> 0, actions |-> <<>>]
Idle(plan, round) == [plan |-> plan, busy |-> FALSE, next |-> 1, sent |-> FALSE,
                      cancelled |-> FALSE, round |-> round]
CurrentMission    == rounds[script.round].regions
Goto(step)        == script' = [script EXCEPT !.step = step]
Fault             == faults < Faults /\ faults' = faults + 1
Remember(what)    == history' = history \cup what

ReplanInit ==
  /\ rounds \in Scripts
  /\ script = Started(1)
  /\ kb = Empty
  /\ problem_instance = None
  /\ problem = None
  /\ planner_output = None
  /\ output = None
  /\ complete_plan = None
  /\ dispatcher = Idle(NoPlan, 0)
  /\ calls = {}
  /\ inbox = [a \in Names |-> <<>>]
  /\ action_cancelled = [a \in Names |-> FALSE]
  /\ faults = 0
  /\ history = {}

-----------------------------------------------------------------------------
(* The effects that an interface writes, and the conditions that the       *)
(* dispatcher asks for before an action starts.                            *)

StartDel(a) == CASE a.name = "pulverize_region" -> {CanGo}
                 [] a.name = "set_next_region" -> {}
                 [] OTHER -> {At(a.from)}
StartAdd(a) == IF a.name = "go_to" THEN {AtMove} ELSE {}
EndDel(a)   == IF a.name = "go_to" THEN {AtMove, To(a.to)} ELSE {}
EndAdd(a)   == CASE a.name = "pulverize_region" -> {Pulverized(a.to), CanGo}
                 [] a.name = "set_next_region" -> {To(a.to)}
                 [] OTHER -> {At(a.to)}

(* It asks neither for a condition that is quantified, as the one of       *)
(* set_next_region, nor for one that holds over all, as to for go_to.      *)
AtStart(a) == IF a.name = "set_next_region" THEN {} ELSE {At(a.from)}

-----------------------------------------------------------------------------
(* create_pddl_global.py, with which a run begins, and update.py.          *)

InRound(step) == script.step = step

CreatePddlGlobal ==
  /\ InRound("update")
  /\ script.round = 1
  /\ kb' = [facts |-> {At(Base), CanGo}, goals |-> CurrentMission,
            total_goals |-> Cardinality(CurrentMission)]
  /\ Goto("problem")
  /\ UNCHANGED <<rounds, topics, dispatcher, interfaces, faults, history>>

(* Without on_move the script waits for the end of the move.               *)
WaitToStop ==
  /\ InRound("update")
  /\ script.round > 1
  /\ ~rounds[script.round].on_move
  /\ AtMove \notin kb.facts
  /\ Goto("cancel")
  /\ UNCHANGED <<rounds, kb, topics, dispatcher, interfaces, faults, history>>

UnderWay == calls \cup ((UNION {Range(inbox[a]) : a \in Names}) \ {CancelAction})

Cut == IF \E c \in UnderWay : c.action.name \notin Resumable THEN {"cut"} ELSE {}

(* cancel_dispatch, which answers at once.                                 *)
CancelDispatch ==
  /\ IF rounds[script.round].on_move THEN InRound("update") ELSE InRound("cancel")
  /\ script.round > 1
  /\ dispatcher' = [dispatcher EXCEPT !.cancelled = @ \/ dispatcher.busy]
  /\ Remember(Cut)
  /\ Goto(IF rounds[script.round].on_move THEN "look" ELSE "place")
  /\ UNCHANGED <<rounds, kb, topics, interfaces, faults>>

LookForMove ==
  /\ InRound("look")
  /\ Goto(IF AtMove \in kb.facts THEN "stop" ELSE "place")
  /\ UNCHANGED <<rounds, kb, topics, dispatcher, interfaces, faults, history>>

(* Variant: the move is stopped and stays in the knowledge base.           *)
MoveLeft(k) == k

MoveOver(k) == RemoveKnowledge(k, AtMove)

(* On its way the vehicle is stopped, and said to be at the closest place. *)
StopMove ==
  /\ InRound("stop")
  /\ kb' = MoveOver(kb)
  /\ \E l \in Locations :
       script' = [script EXCEPT !.step = "goals", !.at = l]
  /\ UNCHANGED <<rounds, topics, dispatcher, interfaces, faults, history>>

(* Elsewhere it is where the first `at` says; without one the script dies  *)
(* of an IndexError, and the round goes on without it.                     *)
ReadPlace ==
  /\ InRound("place")
  /\ IF Ats(kb) = {}
     THEN Goto("problem") /\ Remember({"died"})
     ELSE /\ \E l \in Ats(kb) : script' = [script EXCEPT !.step = "goals", !.at = l]
          /\ history' = history
  /\ UNCHANGED <<rounds, kb, topics, dispatcher, interfaces, faults>>

ReadGoals ==
  /\ InRound("goals")
  /\ script' = [script EXCEPT !.step = "prune", !.total = kb.total_goals, !.todo = kb.goals]
  /\ UNCHANGED <<rounds, kb, topics, dispatcher, interfaces, faults, history>>

(* A goal that is reached is removed and no longer counted.                *)
(* Variant: it is removed and still counted.                               *)
CountKept(total) == total

CountLess(total) == total - 1

Prune ==
  /\ InRound("prune")
  /\ \E g \in script.todo :
       LET reached == g \in Achieved(kb)
       IN  /\ kb' = IF reached THEN RemoveMissionGoal(kb, g) ELSE kb
           /\ script' = [script EXCEPT !.todo = @ \ {g},
                                       !.total = IF reached THEN CountLess(@) ELSE @]
  /\ UNCHANGED <<rounds, topics, dispatcher, interfaces, faults, history>>

(* New goals are counted one by one, also those that are goals already.    *)
(* Variant: a mission counts as one goal.                                  *)
CountOne(total) == total + 1

CountMore(total) == total + Cardinality(CurrentMission)

(* Variant: where the vehicle is, is known and not written.                *)
PlaceKnown(k) == k

PlaceWritten(k) == AddKnowledge(k, At(script.at))

WriteUpdate ==
  /\ InRound("prune")
  /\ script.todo = {}
  /\ kb' = SetFunction(AddMissionGoals(PlaceWritten(kb), CurrentMission),
                       CountMore(script.total))
  /\ Goto("problem")
  /\ UNCHANGED <<rounds, topics, dispatcher, interfaces, faults, history>>

-----------------------------------------------------------------------------
(* The services, and the topics between them.                              *)

Smooth(went) == IF went THEN UNCHANGED <<faults, history>>
                        ELSE Fault /\ Remember({"fault"})

ProblemServer ==
  /\ InRound("problem")
  /\ \E went \in BOOLEAN :
       /\ Smooth(went)
       /\ problem_instance' = IF went THEN [round |-> script.round, kb |-> kb]
                                      ELSE problem_instance
  /\ Goto("planning")
  /\ UNCHANGED <<rounds, kb, problem, planner_output, output, complete_plan, dispatcher,
                 interfaces>>

ProblemCallback ==
  /\ problem_instance # None
  /\ problem' = problem_instance
  /\ problem_instance' = None
  /\ UNCHANGED <<rounds, script, kb, planner_output, output, complete_plan, dispatcher,
                 interfaces, faults, history>>

(* A plan sprays each open goal once and ends at the base.  The action     *)
(* that lets it go there counts what was sprayed: when total-goals is too  *)
(* high, and the battery and the input do not call it home, something is   *)
(* sprayed again: any region that ever was a goal (pulverize-goal stays),  *)
(* which is a goal now or was sprayed.                                     *)
Visits(p) ==
  LET once == SetToSeqs(OpenGoals(p.kb))
      more == p.kb.total_goals - Cardinality(OpenGoals(p.kb))
  IN  once \cup
      (IF more > 0
       THEN {s \o [i \in 1..more |-> r] : s \in once, r \in p.kb.goals \cup Achieved(p.kb)}
       ELSE {})

(* It calls at the base for input before a flight, and always before the   *)
(* first: no interface writes numbers, so a problem never has any input.   *)
Stops(stations) == {{1} \cup more : more \in SUBSET (2..Len(stations))}

Reached(stations, i) == {stations[j] : j \in 1 .. i - 1}

(* The stations that it flies to; those of them that are chosen anew.      *)
Flights(stations, stops) ==
  {i \in 1 .. Len(stations) : i \in stops \/ stations[i - 1] # stations[i]}

ChosenAnew(p, stations, stops) ==
  {i \in Flights(stations, stops) : stations[i] \notin ToBeFlown(p.kb) \ Reached(stations, i)}

(* set_next_region asks that no region is chosen.  So a region is chosen   *)
(* anew only when the vehicle has flown to each one that a plan chose      *)
(* before it was cut.                                                      *)
Allowed(p, stations, stops) ==
  \A i \in ChosenAnew(p, stations, stops) : ToBeFlown(p.kb) \subseteq Reached(stations, i)

(* Where that cannot be done with the visits alone, it flies to some of    *)
(* those regions first, without spraying.  (Of the planner's plans these   *)
(* are the ones without needless detours, and with the detours first.)     *)
Direct(p) == \E v \in Visits(p) : \E s \in Stops(v) : Allowed(p, v, s)

Detours(p) == IF Direct(p) THEN {<<>>} ELSE UNION {SetToSeqs(D) : D \in SUBSET ToBeFlown(p.kb)}

Before(start, stations, i) == IF i = 1 THEN start ELSE stations[i - 1]

Trip(from, to) ==
  IF from = to THEN <<>> ELSE <<Act(IF to = Base THEN "go_to_base" ELSE "go_to", from, to)>>

Leg(from, to, stop, spray) ==
  (IF stop THEN Trip(from, Base) \o Trip(Base, to) ELSE Trip(from, to))
    \o IF spray THEN <<Act("pulverize_region", to, to)>> ELSE <<>>

(* The actions in the order the dispatcher comes to them: choosing a       *)
(* region waits for nothing.                                               *)
ChoicesOf(p, stations, stops) ==
  FlattenSeq([i \in 1 .. Len(stations) |->
                IF i \in ChosenAnew(p, stations, stops)
                THEN <<Act("set_next_region", stations[i], stations[i])>> ELSE <<>>])

LegsOf(start, stations, stops, unsprayed) ==
  FlattenSeq([i \in 1 .. Len(stations) |->
                Leg(Before(start, stations, i), stations[i], i \in stops, i > unsprayed)])

PlanOf(p, start, detour, visits, stops) ==
  LET stations == detour \o visits
  IN  ChoicesOf(p, stations, stops)
      \o LegsOf(start, stations, stops, Len(detour))
      \o Trip(Before(start, stations, Len(stations) + 1), Base)

(* Without can-go there is only what needs no flight (and can-spray, which *)
(* spraying also takes, comes and goes with it).                           *)
Solutions(p) ==
  {a \in Seq(Actions) \cap
        UNION {{PlanOf(p, l, d, v, s) : s \in {t \in Stops(d \o v) : Allowed(p, d \o v, t)}} :
                 l \in Ats(p.kb), d \in Detours(p), v \in Visits(p)} :
     (\E i \in 1..Len(a) : a[i].name # "pulverize_region") => CanGo \in p.kb.facts}

(* The planner works on the last problem it was sent, old or new, and      *)
(* publishes a plan only when it finds one.                                *)
PlanFound ==
  /\ problem # None
  /\ Smooth(problem_instance = None)
  /\ \E a \in Solutions(problem) :
       planner_output' = [round |-> problem.round, actions |-> a]

NoPlanFound ==
  /\ IF problem # None /\ Solutions(problem) # {} THEN Fault ELSE faults' = faults
  /\ Remember({"fault"})
  /\ planner_output' = planner_output

PlanningServer ==
  /\ InRound("planning")
  /\ PlanFound \/ NoPlanFound
  /\ Goto("parse")
  /\ UNCHANGED <<rounds, kb, problem_instance, problem, output, complete_plan, dispatcher,
                 interfaces>>

(* Variant: an output is kept until it is parsed.                          *)
FirstOutput(new) == IF output = None THEN new ELSE output

LastOutput(new) == new

PlannerCallback ==
  /\ planner_output # None
  /\ output' = LastOutput(planner_output)
  /\ planner_output' = None
  /\ UNCHANGED <<rounds, script, kb, problem_instance, problem, complete_plan, dispatcher,
                 interfaces, faults, history>>

ParsePlan ==
  /\ InRound("parse")
  /\ IF planner_output = None THEN faults' = faults ELSE Fault
  /\ Remember(IF planner_output = None /\ output # None THEN {} ELSE {"fault"})
  /\ complete_plan' = IF output # None THEN output ELSE complete_plan
  /\ output' = None
  /\ Goto("dispatch")
  /\ UNCHANGED <<rounds, kb, problem_instance, problem, planner_output, dispatcher, interfaces>>

-----------------------------------------------------------------------------
(* The dispatcher.                                                         *)

(* Variant: a plan is taken at any time.                                   *)
AcceptsAlways == TRUE

Accepts == ~dispatcher.busy

PlanCallback ==
  /\ complete_plan # None
  /\ dispatcher' = IF Accepts THEN [dispatcher EXCEPT !.plan = complete_plan] ELSE dispatcher
  /\ Remember(IF Accepts THEN {} ELSE {"fault"})
  /\ complete_plan' = None
  /\ UNCHANGED <<rounds, script, kb, problem_instance, problem, planner_output, output,
                 interfaces, faults>>

(* The request of the script, refused while a plan is executed.            *)
DispatchPlan ==
  /\ InRound("dispatch")
  /\ IF complete_plan = None THEN faults' = faults ELSE Fault
  /\ IF dispatcher.busy
     THEN UNCHANGED <<dispatcher, history>>
     ELSE /\ dispatcher' = [Idle(dispatcher.plan, script.round) EXCEPT !.busy = TRUE]
          /\ Remember((IF complete_plan = None THEN {} ELSE {"fault"}) \cup
                      (IF dispatcher.plan.round = script.round THEN {} ELSE {"stale"}))
  /\ Goto("waiting")
  /\ UNCHANGED <<rounds, kb, topics, interfaces>>

NextAction == dispatcher.plan.actions[dispatcher.next]

Running == dispatcher.busy /\ dispatcher.next <= Len(dispatcher.plan.actions)

SendAction ==
  /\ Running
  /\ ~dispatcher.cancelled
  /\ ~dispatcher.sent
  /\ AllTrue(kb, AtStart(NextAction))
  /\ dispatcher' = [dispatcher EXCEPT !.sent = TRUE]
  /\ inbox' = [inbox EXCEPT ![NextAction.name] =
                 Append(@, [round |-> dispatcher.round, id |-> dispatcher.next,
                            action |-> NextAction])]
  /\ UNCHANGED <<rounds, script, kb, topics, calls, action_cancelled, faults, history>>

(* The loop is left, at the end of the plan or cancelled.  The resets that *)
(* follow cancel whatever was dispatched, finished or not; a cancellation  *)
(* changes nothing at an interface that has no call.                       *)
Leave ==
  /\ dispatcher.busy
  /\ dispatcher.cancelled \/ ~Running
  /\ dispatcher' = Idle(dispatcher.plan, dispatcher.round)
  /\ inbox' = [a \in Names |->
                 IF /\ dispatcher.sent \/ dispatcher.next > 1
                    /\ \E c \in UnderWay : c.action.name = a
                 THEN Append(inbox[a], CancelAction) ELSE inbox[a]]
  /\ UNCHANGED <<rounds, script, kb, topics, calls, action_cancelled, faults, history>>

(* The script goes on when it is answered and when it has waited too long. *)
NextRound ==
  /\ InRound("waiting")
  /\ IF script.round < Len(rounds)
     THEN script' = Started(script.round + 1) /\ history' = history \ {"fault"}
     ELSE Goto("end") /\ history' = history
  /\ UNCHANGED <<rounds, kb, topics, dispatcher, interfaces, faults>>

-----------------------------------------------------------------------------
(* The action interfaces.                                                  *)

Expected(c) == dispatcher.busy /\ ~dispatcher.cancelled /\ c.round = dispatcher.round

Late(c) == IF Expected(c) THEN {} ELSE {"late"}

Hear(a) ==
  /\ inbox[a] # <<>>
  /\ inbox' = [inbox EXCEPT ![a] = Tail(@)]
  /\ IF Head(inbox[a]) = CancelAction
     THEN /\ action_cancelled' = [action_cancelled EXCEPT ![a] = TRUE]
          /\ UNCHANGED <<kb, calls, history>>
     ELSE LET c == Head(inbox[a])
          IN  /\ action_cancelled' = [action_cancelled EXCEPT ![a] = FALSE]
              /\ calls' = calls \cup {c}
              /\ kb' = UpdateKnowledgeArray(kb, StartDel(c.action), StartAdd(c.action))
              /\ Remember(Late(c))
  /\ UNCHANGED <<rounds, script, topics, dispatcher, faults>>

(* The return of a call: nothing is written for one that was cancelled or  *)
(* failed.  The dispatcher knows the action by its id alone, and a failure *)
(* ends the dispatch.                                                      *)
Completes(c) == Running /\ dispatcher.sent /\ dispatcher.next = c.id

Return(c) ==
  /\ calls' = calls \ {c}
  /\ IF action_cancelled[c.action.name]
     THEN UNCHANGED <<kb, dispatcher, history>>
     ELSE /\ kb' = UpdateKnowledgeArray(kb, EndDel(c.action), EndAdd(c.action))
          /\ dispatcher' = IF Completes(c)
                           THEN [dispatcher EXCEPT !.next = @ + 1, !.sent = FALSE]
                           ELSE dispatcher
          /\ Remember(Late(c) \cup
                      (IF c.action.name = "pulverize_region"
                         /\ Pulverized(c.action.to) \in kb.facts THEN {"twice"} ELSE {}))
  /\ UNCHANGED <<rounds, script, topics, inbox, action_cancelled, faults>>

Fails(c) ==
  /\ Fault
  /\ ~action_cancelled[c.action.name]
  /\ calls' = calls \ {c}
  /\ dispatcher' = IF Completes(c) THEN [dispatcher EXCEPT !.cancelled = TRUE] ELSE dispatcher
  /\ Remember(IF c.action.name \in Resumable /\ ~Completes(c) THEN {} ELSE Cut)
  /\ UNCHANGED <<rounds, script, kb, topics, inbox, action_cancelled>>

ScriptStep ==
  \/ CreatePddlGlobal \/ WaitToStop \/ CancelDispatch \/ LookForMove \/ StopMove \/ ReadPlace
  \/ ReadGoals \/ Prune \/ WriteUpdate
  \/ ProblemServer \/ PlanningServer \/ ParsePlan \/ DispatchPlan \/ NextRound

ReplanNext ==
  \/ ScriptStep
  \/ ProblemCallback \/ PlannerCallback \/ PlanCallback
  \/ SendAction \/ Leave
  \/ \E a \in Names : Hear(a)
  \/ \E c \in calls : Return(c) \/ Fails(c)

ReplanSpec == ReplanInit /\ [][ReplanNext]_replanVars

-----------------------------------------------------------------------------
Steps == {"update", "cancel", "look", "stop", "place", "goals", "prune",
          "problem", "planning", "parse", "dispatch", "waiting", "end"}

Dispatchers == [plan : Messages, busy : BOOLEAN, next : Nat \ {0}, sent : BOOLEAN,
                cancelled : BOOLEAN, round : Nat]

(* Every variable has its type; the dispatcher stands in its plan or just  *)
(* behind it, for a plan is never replaced while it is executed            *)
(* (planCallback).                                                         *)
ReplanTypeOK ==
  /\ rounds \in Scripts
  /\ script \in [round : 1 .. Len(rounds), step : Steps, at : Locations, total : Int,
                 todo : SUBSET Regions]
  /\ kb \in KnowledgeBases
  /\ {problem_instance, problem} \subseteq Problems \cup {None}
  /\ {planner_output, output, complete_plan} \subseteq Messages \cup {None}
  /\ dispatcher \in Dispatchers
  /\ dispatcher.next <= Len(dispatcher.plan.actions) + 1
  /\ calls \subseteq Calls
  /\ inbox \in [Names -> Seq(Calls \cup {CancelAction})]
  /\ action_cancelled \in [Names -> BOOLEAN]
  /\ faults \in 0 .. Faults
  /\ history \subseteq Mishaps

(* As long as no effect of a cancelled action comes late, the knowledge    *)
(* base never says that the vehicle is at two places, or at one and on its *)
(* way to another: stopping it, asking where it is and planning from there *)
(* fit together (update.py:323-343 with the effects of the actions).       *)
Whereabouts == {At(l) : l \in Ats(kb)} \cup ({AtMove} \cap kb.facts)

Located == "late" \notin history => \A f, g \in Whereabouts : f = g

(* The missions of a run name each region once.                            *)
Disjoint ==
  \A i, j \in 1 .. Len(rounds) : i # j => rounds[i].regions \cap rounds[j].regions = {}

(* When a problem is generated, total-goals is the number of goals that    *)
(* are open, whatever was sprayed before the last plan was cancelled       *)
(* (update.py:362-371, 390-397): if missions do not repeat a region, no    *)
(* effect came late and no round was lost.                                 *)
CountsOpenGoals ==
  InRound("problem") /\ Disjoint /\ history \cap {"late", "died"} = {} =>
    kb.total_goals = Cardinality(OpenGoals(kb))

(* A mission that was stopped on a flight can be planned again: there is a *)
(* place to start from and leave to go, and the regions that are still     *)
(* chosen can be flown to, unless something else than a choice or a flight *)
(* was cut, an effect came late or the script died.                        *)
Replannable ==
  InRound("problem") /\ history \cap {"late", "died", "cut"} = {} =>
    Solutions([round |-> script.round, kb |-> kb]) # {}

(* What is executed in a round in which every service did its work in time *)
(* is the plan of that round, not one left on a topic or in a service by   *)
(* an earlier round.                                                       *)
FreshPlan ==
  dispatcher.busy /\ dispatcher.round = script.round /\ "fault" \notin history =>
    dispatcher.plan.round = script.round

(* No region is sprayed twice, over all rounds, when missions do not       *)
(* repeat regions, nothing was cut, late or lost, and no old plan was      *)
(* dispatched again.                                                       *)
SprayedOnce ==
  Disjoint /\ history \cap {"late", "cut", "died", "stale"} = {} => "twice" \notin history
=============================================================================
