-------------------------- MODULE MCPlanEnactment --------------------------
(***************************************************************************)
(* Actions of domain_journal.pddl, grounded for a base and two regions,    *)
(* and plans made of them.  Times are a small number of units; the ties    *)
(* between an end and the next start are those of the deployed plan.  The  *)
(* condition of set_next_region, one over all regions, is in the details   *)
(* of no message, so it is not in the schema either.                       *)
(***************************************************************************)
EXTENDS PlanEnactment

Regions == {"r1", "r2"}

At(r) == <<"at", r>>
To(r) == <<"to", r>>
CanTakePic  == <<"can_take_pic", "drone">>
CanGo       == <<"can_go", "drone">>
CanGoToBase == <<"can_go_to_base", "drone">>

CleanCamera   == <<"clean_camera", "base", "base">>
HasAllGoals   == <<"has_all_goals_achived", "base", "base">>
SetNext(r)    == <<"set_next_region", r, r>>
GoTo(f, r)    == <<"go_to_picture", f, r>>
TakeImage(r)  == <<"take_image", r, r>>
GoToBase(r)   == <<"go_to_base", r, "base">>

MCAtoms == {At("base"), CanTakePic, CanGo, CanGoToBase}
             \union {At(r) : r \in Regions} \union {To(r) : r \in Regions}
MCOperators == {CleanCamera, HasAllGoals, GoTo("base", "r1"), GoTo("r1", "r2"), GoToBase("r1")}
             \union {SetNext(r) : r \in Regions} \union {TakeImage(r) : r \in Regions}

Add(a) == [atom |-> a, holds |-> TRUE]
Del(a) == [atom |-> a, holds |-> FALSE]
Operator(p, start, all, se, ee) ==
  [parameters |-> p, start_conditions |-> start, over_all |-> all, end_conditions |-> {},
   start_effects |-> se, end_effects |-> ee]

MCSchema ==
  [o \in MCOperators |->
    CASE o[1] = "clean_camera" -> Operator(TRUE, {}, {Add(At("base"))}, {Add(CanTakePic)}, {})
      [] o[1] = "set_next_region" -> Operator(TRUE, {}, {}, {}, {Add(To(o[2]))})
      [] o[1] = "go_to_picture" ->
           Operator(TRUE, {Add(At(o[2])), Add(To(o[3]))}, {Add(CanGo)},
                    {Del(At(o[2]))}, {Add(At(o[3])), Del(To(o[3]))})
      [] o[1] = "take_image" ->
           Operator(TRUE, {Add(CanTakePic)}, {Add(At(o[2]))},
                    {Del(CanGo)}, {Add(CanGo), Del(To(o[2]))})
      [] o[1] = "has_all_goals_achived" -> Operator(FALSE, {}, {}, {Add(CanGoToBase)}, {})
      [] o[1] = "go_to_base" ->
           Operator(TRUE, {Add(At(o[2])), Add(CanGoToBase)}, {Add(CanGo)},
                    {Del(At(o[2]))}, {Add(At("base")), Del(CanGoToBase)})]

Line(o, t, d, r) == [operator |-> o, dispatch_time |-> t, duration |-> d, rounding |-> r]

(* Out to the region with two preparations that overlap; from one region   *)
(* to the next, whose choice overlaps the picture as in the deployed plan; *)
(* home again; and a plan that the rounding of a sum takes out of order.   *)
(* Drawn with their operators' details, the first two have enforced edges  *)
(* and are valid in one of the worlds; the way home waits for the start of *)
(* an action only, and the last plan's picture does not wait for the end   *)
(* of the flight.                                                          *)
Departure == <<Line(CleanCamera, 0, 2, -1), Line(SetNext("r1"), 1, 0, 0),
               Line(GoTo("base", "r1"), 2, 2, 0)>>
Tour == <<Line(TakeImage("r1"), 0, 2, 0), Line(SetNext("r2"), 0, 0, 0),
          Line(GoTo("r1", "r2"), 2, 2, 0)>>
Return == <<Line(HasAllGoals, 1, 1, 0), Line(GoToBase("r1"), 2, 2, 0)>>
Visit == <<Line(GoTo("base", "r1"), 0, 2, 1), Line(TakeImage("r1"), 2, 2, 0)>>

MCOutputs == {Departure, Tour, Return, Visit}
MCTils == {{}, {[time |-> 1, literal |-> Add(CanGo)], [time |-> 3, literal |-> Del(CanGo)]}}
MCWorlds == {{At("base"), CanGo, To("r1"), CanTakePic}, {At("r1"), CanGo, CanTakePic}}
=============================================================================
