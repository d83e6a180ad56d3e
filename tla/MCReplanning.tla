---------------------------- MODULE MCReplanning ----------------------------
(***************************************************************************)
(* Missions of two and three rounds over two regions: stopped on the way   *)
(* or in a region, with new regions and with one that is a goal already.   *)
(* In the last, a fault of the second round leaves the plan of the first   *)
(* to be executed again; when its flight is cut, the region of the third   *)
(* round cannot be chosen before another one is flown to.                  *)
(***************************************************************************)
EXTENDS Replanning

CONSTANTS r1, r2

MCRegions == {r1, r2}

Round(stopped, regions) == [on_move |-> stopped, regions |-> regions]

MCScripts ==
  {<<Round(TRUE, {r1}), Round(stopped, {r2})>> : stopped \in BOOLEAN}
    \cup {<<Round(TRUE, {r1}), Round(TRUE, {r1, r2})>>,
          <<Round(TRUE, {r1}), Round(FALSE, {}), Round(TRUE, {r2})>>}

(* The domain executes the plans of Solutions: no region is chosen while   *)
(* another one is, no region is flown to that is not chosen, and at the    *)
(* end every goal is sprayed and the vehicle at the base.                  *)
Chosen(plan) == {a.to : a \in {b \in Range(plan) : b.name = "set_next_region"}}

Apply(plan, world, a) ==
  [at |-> a.to,
   to |-> IF a.name = "go_to" THEN world.to \ {a.to} ELSE world.to,
   sprayed |-> IF a.name = "pulverize_region" THEN world.sprayed \cup {a.to} ELSE world.sprayed,
   legal |-> /\ world.legal
             /\ a.from = world.at
             /\ a.name = "go_to" =>
                  a.to \in world.to \/ (world.to = {} /\ a.to \in Chosen(plan))]

Executed(p, start, plan) ==
  FoldLeft(LAMBDA world, a : Apply(plan, world, a),
           [at |-> start, to |-> ToBeFlown(p.kb), sprayed |-> Achieved(p.kb), legal |-> TRUE],
           SelectSeq(plan, LAMBDA a : a.name # "set_next_region"))

SmallProblems ==
  {[round |-> 1,
    kb |-> [facts |-> {At(l), CanGo} \cup {Pulverized(r) : r \in done} \cup {To(r) : r \in chosen},
            goals |-> goals, total_goals |-> total]] :
     l \in Locations, done \in SUBSET Regions, chosen \in SUBSET Regions,
     goals \in SUBSET Regions, total \in 0 .. 3}

ASSUME PlansAreExecutable ==
  \A p \in SmallProblems :
    \A plan \in Solutions(p), l \in Ats(p.kb) :
      LET end == Executed(p, l, plan)
      IN  end.legal /\ end.at = Base /\ p.kb.goals \subseteq end.sprayed
=============================================================================
