--------------------------- MODULE KnowledgeBase ---------------------------
(***************************************************************************)
(* The knowledge base as the drone's programs use it: the facts that hold, *)
(* the goals and the value of total-goals.  One thread serves every        *)
(* request, an array of updates included, so each request is one step, and *)
(* the operators here give the contents after it.                          *)
(*                                                                         *)
(* No program of the drone stores a negative fact or a timed literal, and  *)
(* an entry is unique however often it is added: sets stand for vectors.   *)
(* The fact nto(r), which create_pddl_global.py gives to every region, is  *)
(* true when to(r) is not: both change at the ends of set_next_region and  *)
(* go_to and nowhere else, so one of them is enough.                       *)
(***************************************************************************)
EXTENDS Integers

CONSTANTS Regions, Base

Locations == Regions \cup {Base}

At(l)         == [name |-> "at", of |-> l]
Pulverized(r) == [name |-> "pulverized", of |-> r]
To(r)         == [name |-> "to", of |-> r]
AtMove        == [name |-> "at-move", of |-> Base]  \* without parameters
CanGo         == [name |-> "can-go", of |-> Base]   \* without parameters

Facts ==
  {At(l) : l \in Locations} \cup {Pulverized(r) : r \in Regions} \cup {To(r) : r \in Regions}
    \cup {AtMove, CanGo}

KnowledgeBases == [facts : SUBSET Facts, goals : SUBSET Regions, total_goals : Int]

Empty == [facts |-> {}, goals |-> {}, total_goals |-> 0]

(* The update service, by what is updated; a goal is known by its region.  *)
AddKnowledge(kb, fact)       == [kb EXCEPT !.facts = @ \cup {fact}]
RemoveKnowledge(kb, fact)    == [kb EXCEPT !.facts = @ \ {fact}]
SetFunction(kb, value)       == [kb EXCEPT !.total_goals = value]
AddMissionGoals(kb, goals)   == [kb EXCEPT !.goals = @ \cup goals]
RemoveMissionGoal(kb, goal)  == [kb EXCEPT !.goals = @ \ {goal}]

(* An array of updates; the callers put what is deleted before what is     *)
(* added.                                                                  *)
UpdateKnowledgeArray(kb, deleted, added) == [kb EXCEPT !.facts = (@ \ deleted) \cup added]

(* The queries.                                                            *)
AllTrue(kb, conditions) == conditions \subseteq kb.facts
Ats(kb)                 == {l \in Locations : At(l) \in kb.facts}
Achieved(kb)            == {r \in Regions : Pulverized(r) \in kb.facts}
OpenGoals(kb)           == kb.goals \ Achieved(kb)
ToBeFlown(kb)           == {r \in Regions : To(r) \in kb.facts}
=============================================================================
