------------------------- MODULE FlightActionProofs -------------------------
(***************************************************************************)
(* Proofs about FlightAction, for any nodes, calls and routes and any      *)
(* number of upsets: the types, that no mission is flown unattended, and,  *)
(* for calls that begin at rest and are not joined by another, that a      *)
(* flight has flown its route and a ground action works on the ground.     *)
(***************************************************************************)
EXTENDS FlightAction, TLAPS

FlightSteps == {"route", "flying?", "loiter", "arm", "takeoff", "send", "auto", "wait", "hold"}

(* The steps of a flight are taken by flights.                             *)
FlightsFly == \A c \in Calls : pc[c] \in FlightSteps => c \in Flights

(* MissionAttended needs a call whose node will not end without a word: a  *)
(* node whose handler has run is shut down with the calls that wait in it. *)
Attends(c) == pc[c] \in {"wait", "hold"} /\ NodeOf[c] \notin closing

AttendedByLive ==
  vehicle.mode = "AUTO.MISSION" /\ ~failed => \E c \in Calls : Attends(c)

FlightInv == FlightTypeOK /\ FlightsFly /\ AttendedByLive

-----------------------------------------------------------------------------
(* The calls and nodes of the assumptions.                                 *)
LEMMA FlightSets ==
  /\ Flights \subseteq Calls
  /\ NodeOf \in [Calls -> Nodes]
  /\ \A c \in Calls : SizeOf[c] \in Nat
  /\ NoCall \notin Flights
BY FlightAssumption DEF Flights

LEMMA NoneInt == None \in Int
BY DEF None

LEMMA IntPred == ASSUME NEW i \in Int PROVE i - 1 \in Int
OBVIOUS

(* A plan bounds the upsets by a number.                                   *)
LEMMA PlanUpsets == ASSUME plan \in Plans PROVE plan.upsets \in Nat /\ plan.airborne \in BOOLEAN
<1>1. plan \in [calls : SUBSET Calls, upsets : Nat, airborne : BOOLEAN]
  BY FlightAssumption
<1> QED BY <1>1

(* Initially no call is under way.                                         *)
LEMMA FlightInitInv == ASSUME FlightInit PROVE FlightInv
<1>1. plan.upsets \in Nat /\ plan.airborne \in BOOLEAN
  BY PlanUpsets DEF FlightInit
<1>2. NodeTypeOK
  <2>1. Unheard \in [state : BOOLEAN, landed : {"undefined", "on ground", "in air"}]
    BY DEF Unheard
  <2>2. None \in Int
    BY NoneInt
  <2>3. /\ Ended = [n \in Nodes |-> TRUE]
        /\ WPqtd = [n \in Nodes |-> 0]
        /\ view = [n \in Nodes |-> Unheard]
        /\ waypoints = [n \in Nodes |-> None]
        /\ reached = [n \in Nodes |-> None]
    BY DEF FlightInit
  <2>4. waypoints \in [Nodes -> Int] /\ reached \in [Nodes -> Int]
    BY <2>2, <2>3
  <2>5. view \in [Nodes -> [state : BOOLEAN, landed : {"undefined", "on ground", "in air"}]]
    BY <2>1, <2>3
  <2>6. Ended \in [Nodes -> BOOLEAN] /\ WPqtd \in [Nodes -> Int]
    BY <2>3
  <2> QED BY <2>4, <2>5, <2>6 DEF NodeTypeOK
<1>3. VehicleTypeOK
  BY <1>1 DEF FlightInit, VehicleTypeOK, Modes
<1>4. FlightTypeOK
  <2>1. pc \in [Calls -> Steps]
    BY DEF FlightInit, Steps
  <2>2. upsets \in 0..plan.upsets
    BY <1>1 DEF FlightInit
  <2>3. /\ plan \in Plans
        /\ route = NoCall /\ running = NoCall
        /\ closing = {} /\ calm = {}
        /\ failed = FALSE /\ hindered = FALSE
    BY DEF FlightInit
  <2> QED BY <1>2, <1>3, <2>1, <2>2, <2>3 DEF FlightTypeOK
<1>5. FlightsFly
  BY DEF FlightInit, FlightsFly, FlightSteps
<1>6. AttendedByLive
  BY DEF FlightInit, AttendedByLive
<1> QED BY <1>4, <1>5, <1>6 DEF FlightInv

-----------------------------------------------------------------------------
(* What a topic brings keeps the node's members typed.                     *)
LEMMA HearKeepsNode ==
  ASSUME FlightTypeOK, NEW n \in Nodes, Hear(n)
  PROVE  NodeTypeOK'
<1> USE DEF FlightTypeOK, NodeTypeOK
<1>1. CASE HearState(n)
  <2>1. State(n) \in BOOLEAN
    BY DEF State, VehicleTypeOK
  <2>2. view' \in [Nodes -> [state : BOOLEAN, landed : {"undefined", "on ground", "in air"}]]
    BY <1>1, <2>1 DEF HearState
  <2> QED BY <1>1, <2>2 DEF HearState
<1>2. CASE HearExtendedState(n)
  BY <1>2 DEF HearExtendedState, LandedState
<1>3. CASE HearWaypoints(n)
  <2>1. waypoints[n] \in Int
    OBVIOUS
  <2>2. waypoints[n] - 1 \in Int
    BY <2>1, IntPred
  <2>3. WPqtd' \in [Nodes -> Int] /\ waypoints' \in [Nodes -> Int]
    BY <1>3, <2>2, NoneInt DEF HearWaypoints, LastWaypoint
  <2> QED BY <1>3, <2>3 DEF HearWaypoints
<1>4. CASE HearReached(n)
  <2>1. IsEnd(n, reached[n]) \in BOOLEAN
    BY DEF IsEnd
  <2>3. Ended' \in [Nodes -> BOOLEAN] /\ reached' \in [Nodes -> Int]
    BY <1>4, <2>1, NoneInt DEF HearReached
  <2> QED BY <1>4, <2>3 DEF HearReached
<1> QED BY <1>1, <1>2, <1>3, <1>4 DEF Hear

(* A topic changes nothing but the node's members.                         *)
LEMMA HearFrame ==
  ASSUME NEW n \in Nodes, Hear(n)
  PROVE  UNCHANGED <<plan, pc, route, vehicle, closing, running, upsets, historyVars>>
BY DEF Hear, HearState, HearExtendedState, HearWaypoints, HearReached, historyVars

LEMMA HearKeepsInv ==
  ASSUME FlightInv, NEW n \in Nodes, Hear(n)
  PROVE  FlightInv'
<1>1. NodeTypeOK'
  BY HearKeepsNode DEF FlightInv
<1> QED BY <1>1, HearFrame
        DEF FlightInv, FlightTypeOK, VehicleTypeOK, FlightsFly, AttendedByLive, Attends,
            historyVars

-----------------------------------------------------------------------------
(* The steps of a call.  First, what a command leaves to prove.            *)

LEMMA UpsetsBounded ==
  ASSUME FlightTypeOK, plan' = plan, upsets' = upsets \/ Upset
  PROVE  upsets' \in 0..plan'.upsets
<1>1. plan.upsets \in Nat
  BY PlanUpsets DEF FlightTypeOK
<1> QED BY <1>1 DEF FlightTypeOK, Upset

LEMMA FaultBounded ==
  ASSUME FlightTypeOK, plan' = plan, NEW went, Fault(went)
  PROVE  upsets' \in 0..plan'.upsets
BY UpsetsBounded DEF Fault

(* The mode, the arming and the flight change, the mission does not.       *)
LEMMA ModeType ==
  ASSUME FlightTypeOK, NEW went, NEW mode \in Modes, SetMode(went, mode)
  PROVE  VehicleTypeOK'
BY DEF FlightTypeOK, VehicleTypeOK, SetMode

(* What is left to show of a step that moves call c.                       *)
LEMMA MoveInv ==
  ASSUME FlightInv, NEW c \in Calls, NEW to \in Steps,
         Goto(c, to), to \in FlightSteps => c \in Flights,
         NodeTypeOK', VehicleTypeOK', AttendedByLive',
         plan' = plan, upsets' \in 0..plan'.upsets, closing' = closing,
         route' \in Flights \cup {NoCall}, running' \in Calls \cup {NoCall},
         calm' \subseteq Calls, failed' \in BOOLEAN, hindered' \in BOOLEAN
  PROVE  FlightInv'
<1>1. pc' \in [Calls -> Steps]
  BY DEF FlightInv, FlightTypeOK, Goto
<1>2. FlightTypeOK'
  BY <1>1 DEF FlightInv, FlightTypeOK
<1>3. FlightsFly'
  BY DEF FlightInv, FlightTypeOK, FlightsFly, Goto
<1> QED BY <1>2, <1>3 DEF FlightInv

(* A step that starts no mission and leaves nobody's wait.                 *)
LEMMA StillAttended ==
  ASSUME FlightInv, NEW c \in Calls, NEW to \in Steps, Goto(c, to), closing' = closing,
         pc[c] \in {"wait", "hold"} => to \in {"wait", "hold"},
         vehicle'.mode = "AUTO.MISSION" => vehicle.mode = "AUTO.MISSION",
         failed' = failed
  PROVE  AttendedByLive'
BY DEF FlightInv, FlightTypeOK, AttendedByLive, Attends, Goto

(* The node's members that a step leaves alone keep their types, and so    *)
(* does the vehicle.                                                       *)
LEMMA NodeFrame == ASSUME NodeTypeOK, UNCHANGED nodeVars PROVE NodeTypeOK'
BY DEF NodeTypeOK, nodeVars

LEMMA VehicleFrame == ASSUME VehicleTypeOK, vehicle' = vehicle PROVE VehicleTypeOK'
BY DEF VehicleTypeOK

LEMMA CalcRouteInv == ASSUME FlightInv, NEW c \in Calls, CalcRoute(c) PROVE FlightInv'
<1>1. PICK went \in BOOLEAN : Fault(went) /\ route' = (IF went THEN c ELSE route)
                              /\ calm' = IF went THEN calm ELSE calm \ {c}
  BY DEF CalcRoute
<1>2. upsets' \in 0..plan'.upsets
  BY <1>1, FaultBounded DEF CalcRoute, FlightInv
<1>3. c \in Flights /\ pc[c] = "route" /\ Goto(c, "flying?")
  BY DEF CalcRoute, At, FlightInv, FlightsFly, FlightSteps
<1>4. NodeTypeOK' /\ VehicleTypeOK'
  BY NodeFrame, VehicleFrame DEF CalcRoute, InNode, FlightInv, FlightTypeOK
<1>5. "flying?" \in Steps
  BY DEF Steps
<1>6. AttendedByLive'
  BY <1>3, <1>5, StillAttended DEF CalcRoute, InNode
<1> QED BY <1>1, <1>2, <1>3, <1>4, <1>5, <1>6, MoveInv
        DEF CalcRoute, InNode, FlightInv, FlightTypeOK

LEMMA IsFlyingInv == ASSUME FlightInv, NEW c \in Calls, IsFlying(c) PROVE FlightInv'
<1>1. c \in Flights /\ pc[c] = "flying?"
  BY DEF IsFlying, At, FlightInv, FlightsFly, FlightSteps
<1>2. PICK to \in {"loiter", "send"} : Goto(c, to)
  BY DEF IsFlying
<1>3. NodeTypeOK' /\ VehicleTypeOK'
  BY NodeFrame, VehicleFrame DEF IsFlying, InNode, FlightInv, FlightTypeOK
<1>4. to \in Steps
  BY DEF Steps
<1>5. AttendedByLive'
  BY <1>1, <1>2, <1>4, StillAttended DEF IsFlying, InNode, historyVars
<1>6. upsets' \in 0..plan'.upsets
  BY UpsetsBounded DEF IsFlying, FlightInv
<1> QED BY <1>1, <1>2, <1>3, <1>4, <1>5, <1>6, MoveInv
        DEF IsFlying, InNode, historyVars, FlightInv, FlightTypeOK

LEMMA SetLoiterInv == ASSUME FlightInv, NEW c \in Calls, SetLoiter(c) PROVE FlightInv'
<1>1. c \in Flights /\ pc[c] = "loiter" /\ Goto(c, "arm")
  BY DEF SetLoiter, At, FlightInv, FlightsFly, FlightSteps
<1>2. PICK went \in BOOLEAN : Fault(went) /\ SetMode(went, "AUTO.LOITER")
  BY DEF SetLoiter
<1>3. "arm" \in Steps /\ "AUTO.LOITER" \in Modes
  BY DEF Steps, Modes
<1>4. NodeTypeOK' /\ VehicleTypeOK'
  BY <1>2, <1>3, NodeFrame, ModeType DEF SetLoiter, InNode, FlightInv, FlightTypeOK
<1>5. upsets' \in 0..plan'.upsets
  BY <1>2, FaultBounded DEF SetLoiter, FlightInv
<1>6. vehicle'.mode = "AUTO.MISSION" => vehicle.mode = "AUTO.MISSION"
  BY <1>2 DEF SetMode, FlightInv, FlightTypeOK, VehicleTypeOK
<1>7. AttendedByLive'
  BY <1>1, <1>3, <1>6, StillAttended DEF SetLoiter, InNode, historyVars
<1> QED BY <1>1, <1>3, <1>4, <1>5, <1>7, MoveInv
        DEF SetLoiter, InNode, historyVars, FlightInv, FlightTypeOK

LEMMA ArmInv == ASSUME FlightInv, NEW c \in Calls, Arm(c) PROVE FlightInv'
<1>1. c \in Flights /\ pc[c] = "arm" /\ Goto(c, "takeoff")
  BY DEF Arm, At, FlightInv, FlightsFly, FlightSteps
<1>2. PICK went \in BOOLEAN :
        /\ Fault(went)
        /\ vehicle' = IF went /\ vehicle.mode # "AUTO.LAND"
                      THEN [vehicle EXCEPT !.armed = TRUE] ELSE vehicle
  BY DEF Arm
<1>3. "takeoff" \in Steps
  BY DEF Steps
<1>4. NodeTypeOK' /\ VehicleTypeOK'
  BY <1>2, NodeFrame DEF Arm, InNode, FlightInv, FlightTypeOK, VehicleTypeOK
<1>5. upsets' \in 0..plan'.upsets
  BY <1>2, FaultBounded DEF Arm, FlightInv
<1>6. vehicle'.mode = vehicle.mode
  BY <1>2 DEF FlightInv, FlightTypeOK, VehicleTypeOK
<1>7. AttendedByLive'
  BY <1>1, <1>3, <1>6, StillAttended DEF Arm, InNode, historyVars
<1> QED BY <1>1, <1>3, <1>4, <1>5, <1>7, MoveInv
        DEF Arm, InNode, historyVars, FlightInv, FlightTypeOK

LEMMA TakeoffInv == ASSUME FlightInv, NEW c \in Calls, Takeoff(c) PROVE FlightInv'
<1>1. c \in Flights /\ pc[c] = "takeoff" /\ Goto(c, "flying?")
  BY DEF Takeoff, At, FlightInv, FlightsFly, FlightSteps
<1>2. PICK went \in BOOLEAN :
        /\ Fault(went)
        /\ vehicle' = IF went /\ vehicle.armed
                      THEN [vehicle EXCEPT !.in_air = TRUE, !.mode = "AUTO.LOITER"]
                      ELSE vehicle
  BY DEF Takeoff
<1>3. "flying?" \in Steps /\ "AUTO.LOITER" \in Modes
  BY DEF Steps, Modes
<1>4. NodeTypeOK' /\ VehicleTypeOK'
  BY <1>2, <1>3, NodeFrame DEF Takeoff, InNode, FlightInv, FlightTypeOK, VehicleTypeOK
<1>5. upsets' \in 0..plan'.upsets
  BY <1>2, FaultBounded DEF Takeoff, FlightInv
<1>6. vehicle'.mode = "AUTO.MISSION" => vehicle.mode = "AUTO.MISSION"
  BY <1>2 DEF FlightInv, FlightTypeOK, VehicleTypeOK
<1>7. AttendedByLive'
  BY <1>1, <1>3, <1>6, StillAttended DEF Takeoff, InNode, historyVars
<1> QED BY <1>1, <1>3, <1>4, <1>5, <1>7, MoveInv
        DEF Takeoff, InNode, historyVars, FlightInv, FlightTypeOK

(* What an upload leaves is a whole route of one call, or none.            *)
LEMMA LoadedType ==
  ASSUME VehicleTypeOK, NEW c \in Flights, vehicle' = Loaded(c)
  PROVE  VehicleTypeOK' /\ vehicle'.mode = vehicle.mode
<1>1. SizeOf[c] \in Nat /\ c # NoCall
  BY FlightSets
<1>2. vehicle \in [mode : Modes, armed : BOOLEAN, in_air : BOOLEAN,
                  owner : Flights \cup {NoCall}, size : Nat, next : Nat]
  BY DEF VehicleTypeOK
<1>3. vehicle' = [mode |-> vehicle.mode, armed |-> vehicle.armed, in_air |-> vehicle.in_air,
                  owner |-> c, size |-> SizeOf[c], next |-> 0]
  BY <1>2 DEF Loaded
<1>4. vehicle' \in [mode : Modes, armed : BOOLEAN, in_air : BOOLEAN,
                   owner : Flights \cup {NoCall}, size : Nat, next : Nat]
  BY <1>1, <1>2, <1>3
<1>5. /\ vehicle'.owner = c /\ vehicle'.size = SizeOf[c] /\ vehicle'.next = 0
      /\ vehicle'.mode = vehicle.mode
  BY <1>2, <1>3
<1> QED BY <1>1, <1>4, <1>5 DEF VehicleTypeOK

LEMMA ClearedType ==
  ASSUME VehicleTypeOK, vehicle' = Cleared
  PROVE  VehicleTypeOK' /\ vehicle'.mode = vehicle.mode
<1>1. vehicle \in [mode : Modes, armed : BOOLEAN, in_air : BOOLEAN,
                  owner : Flights \cup {NoCall}, size : Nat, next : Nat]
  BY DEF VehicleTypeOK
<1>2. vehicle' = [mode |-> vehicle.mode, armed |-> vehicle.armed, in_air |-> vehicle.in_air,
                  owner |-> NoCall, size |-> 0, next |-> 0]
  BY <1>1 DEF Cleared
<1>3. vehicle' \in [mode : Modes, armed : BOOLEAN, in_air : BOOLEAN,
                   owner : Flights \cup {NoCall}, size : Nat, next : Nat]
  BY <1>1, <1>2
<1>4. /\ vehicle'.owner = NoCall /\ vehicle'.size = 0 /\ vehicle'.next = 0
      /\ vehicle'.mode = vehicle.mode
  BY <1>1, <1>2
<1> QED BY <1>3, <1>4 DEF VehicleTypeOK

LEMMA UploadType ==
  ASSUME FlightTypeOK, NEW c \in Flights, Upload(Loaded(c)) \/ Upload(Cleared)
  PROVE  VehicleTypeOK' /\ vehicle'.mode = vehicle.mode /\ waypoints' \in [Nodes -> Int]
<1>1. VehicleTypeOK' /\ vehicle'.mode = vehicle.mode
  BY LoadedType, ClearedType DEF Upload, FlightTypeOK
<1>2. waypoints' = Published(waypoints, vehicle'.size) /\ vehicle'.size \in Int
  BY <1>1 DEF Upload, VehicleTypeOK
<1>3. waypoints' \in [Nodes -> Int]
  BY <1>2 DEF Published, FlightTypeOK, NodeTypeOK
<1> QED BY <1>1, <1>3

LEMMA SendWPFileInv == ASSUME FlightInv, NEW c \in Calls, SendWPFile(c) PROVE FlightInv'
<1>1. c \in Flights /\ pc[c] = "send" /\ Goto(c, "auto")
  BY DEF SendWPFile, At, FlightInv, FlightsFly, FlightSteps
<1>2. "auto" \in Steps
  BY DEF Steps
<1>3. VehicleTypeOK' /\ vehicle'.mode = vehicle.mode /\ waypoints' \in [Nodes -> Int]
  <2>1. CASE route # NoCall /\ SendRoute(c)
    <3>1. route \in Flights
      BY <2>1 DEF FlightInv, FlightTypeOK
    <3> QED BY <2>1, <3>1, UploadType DEF SendRoute, FlightInv
  <2>2. CASE SendFails(c)
    <3>1. Upload(Cleared) \/ UNCHANGED <<vehicle, waypoints>>
      BY <2>2 DEF SendFails
    <3> QED BY <1>1, <3>1, UploadType, VehicleFrame DEF FlightInv, FlightTypeOK, NodeTypeOK
  <2>3. CASE CallRoute(c)
    BY <1>1, <2>3, UploadType DEF CallRoute, FlightInv
  <2> QED BY <2>1, <2>2, <2>3 DEF SendWPFile
<1>4. NodeTypeOK'
  BY <1>3 DEF SendWPFile, FlightInv, FlightTypeOK, NodeTypeOK
<1>5. calm' \subseteq Calls /\ hindered' \in BOOLEAN
  BY DEF SendWPFile, SendRoute, SendFails, CallRoute, FlightInv, FlightTypeOK
<1>6. upsets' \in 0..plan'.upsets
  <2>1. upsets' = upsets \/ Upset
    BY DEF SendWPFile, SendRoute, SendFails, CallRoute, Fault
  <2> QED BY <2>1, UpsetsBounded DEF SendWPFile, FlightInv
<1>7. AttendedByLive'
  BY <1>1, <1>2, <1>3, StillAttended DEF SendWPFile
<1> QED BY <1>1, <1>2, <1>3, <1>4, <1>5, <1>6, <1>7, MoveInv
        DEF SendWPFile, FlightInv, FlightTypeOK

LEMMA SetAutoInv == ASSUME FlightInv, NEW c \in Calls, SetAuto(c) PROVE FlightInv'
<1>1. c \in Flights /\ pc[c] = "auto" /\ Goto(c, "wait")
  BY DEF SetAuto, At, FlightInv, FlightsFly, FlightSteps
<1>2. PICK went \in BOOLEAN :
        Fault(went) /\ SetMode(went /\ vehicle.size > 0, "AUTO.MISSION")
  BY DEF SetAuto
<1>3. "wait" \in Steps /\ "AUTO.MISSION" \in Modes
  BY DEF Steps, Modes
<1>4. NodeTypeOK' /\ VehicleTypeOK'
  BY <1>2, <1>3, NodeFrame, ModeType DEF SetAuto, InNode, FlightInv, FlightTypeOK
<1>5. upsets' \in 0..plan'.upsets
  BY <1>2, FaultBounded DEF SetAuto, FlightInv
<1>6. failed' \in BOOLEAN /\ hindered' \in BOOLEAN
  BY DEF SetAuto, FlightInv, FlightTypeOK
<1>7. AttendedByLive'
  <2>1. SUFFICES ASSUME ~failed' PROVE Attends(c)'
    BY DEF AttendedByLive
  <2>2. NodeOf[c] \notin closing'
    BY <2>1 DEF SetAuto, InNode
  <2>3. pc'[c] = "wait"
    BY <1>1 DEF Goto, FlightInv, FlightTypeOK
  <2> QED BY <2>2, <2>3 DEF Attends
<1> QED BY <1>1, <1>3, <1>4, <1>5, <1>6, <1>7, MoveInv
        DEF SetAuto, InNode, FlightInv, FlightTypeOK

LEMMA MissionEndedInv == ASSUME FlightInv, NEW c \in Calls, MissionEnded(c) PROVE FlightInv'
<1>1. c \in Flights /\ pc[c] = "wait" /\ Goto(c, "hold")
  BY DEF MissionEnded, At, FlightInv, FlightsFly, FlightSteps
<1>2. "hold" \in Steps
  BY DEF Steps
<1>3. NodeTypeOK' /\ VehicleTypeOK'
  BY NodeFrame, VehicleFrame DEF MissionEnded, InNode, FlightInv, FlightTypeOK
<1>4. AttendedByLive'
  BY <1>1, <1>2, StillAttended DEF MissionEnded, InNode, historyVars
<1>5. upsets' \in 0..plan'.upsets
  BY UpsetsBounded DEF MissionEnded, FlightInv
<1> QED BY <1>1, <1>2, <1>3, <1>4, <1>5, MoveInv
        DEF MissionEnded, InNode, historyVars, FlightInv, FlightTypeOK

LEMMA HoldInv == ASSUME FlightInv, NEW c \in Calls, Hold(c) PROVE FlightInv'
<1>1. pc[c] = "hold" /\ Goto(c, "done")
  BY DEF Hold, At, Return
<1>2. PICK went \in BOOLEAN : /\ Fault(went)
                              /\ SetMode(went, "AUTO.LOITER")
                              /\ failed' = (failed \/ ~went)
  BY DEF Hold
<1>3. "done" \in Steps /\ "done" \notin FlightSteps /\ "AUTO.LOITER" \in Modes
  BY DEF Steps, FlightSteps, Modes
<1>4. NodeTypeOK' /\ VehicleTypeOK'
  BY <1>2, <1>3, NodeFrame, ModeType DEF Hold, FlightInv, FlightTypeOK
<1>5. upsets' \in 0..plan'.upsets
  BY <1>2, FaultBounded DEF Hold, FlightInv
<1>6. running' \in Calls \cup {NoCall}
  BY DEF Hold, Return, FlightInv, FlightTypeOK
<1>7. failed' \in BOOLEAN
  BY <1>2 DEF FlightInv, FlightTypeOK
<1>8. AttendedByLive'
  <2>1. SUFFICES ASSUME ~failed' PROVE vehicle'.mode # "AUTO.MISSION"
    BY DEF AttendedByLive
  <2>2. went
    BY <1>2, <2>1
  <2> QED BY <1>2, <2>2 DEF SetMode, FlightInv, FlightTypeOK, VehicleTypeOK
<1> QED BY <1>1, <1>3, <1>4, <1>5, <1>6, <1>7, <1>8, MoveInv
        DEF Hold, FlightInv, FlightTypeOK

LEMMA LandInv == ASSUME FlightInv, NEW c \in Calls, Land(c) PROVE FlightInv'
<1>1. pc[c] = "land" /\ Goto(c, "landing")
  BY DEF Land, At
<1>2. "landing" \in Steps /\ "landing" \notin FlightSteps /\ "AUTO.LAND" \in Modes
  BY DEF Steps, FlightSteps, Modes
<1>3. \/ UNCHANGED <<vehicle, upsets, hindered>>
      \/ \E went \in BOOLEAN : /\ Fault(went)
                               /\ SetMode(went, "AUTO.LAND")
                               /\ hindered' = (hindered \/ ~went)
  BY DEF Land
<1>4. VehicleTypeOK'
  BY <1>2, <1>3, VehicleFrame, ModeType DEF FlightInv, FlightTypeOK
<1>5. upsets' \in 0..plan'.upsets
  <2>1. upsets' = upsets \/ Upset
    BY <1>3 DEF Fault
  <2> QED BY <2>1, UpsetsBounded DEF Land, FlightInv
<1>6. hindered' \in BOOLEAN
  BY <1>3 DEF FlightInv, FlightTypeOK
<1>7. vehicle'.mode = "AUTO.MISSION" => vehicle.mode = "AUTO.MISSION"
  BY <1>3 DEF SetMode, FlightInv, FlightTypeOK, VehicleTypeOK
<1>8. AttendedByLive'
  BY <1>1, <1>2, <1>7, StillAttended DEF Land, InNode
<1>9. NodeTypeOK'
  BY NodeFrame DEF Land, InNode, FlightInv, FlightTypeOK
<1> QED BY <1>1, <1>2, <1>4, <1>5, <1>6, <1>8, <1>9, MoveInv
        DEF Land, InNode, FlightInv, FlightTypeOK

LEMMA LandedInv == ASSUME FlightInv, NEW c \in Calls, Landed(c) PROVE FlightInv'
<1>1. pc[c] = "landing" /\ Goto(c, "work")
  BY DEF Landed, At
<1>2. "work" \in Steps /\ "work" \notin FlightSteps
  BY DEF Steps, FlightSteps
<1>3. NodeTypeOK' /\ VehicleTypeOK'
  BY NodeFrame, VehicleFrame DEF Landed, InNode, FlightInv, FlightTypeOK
<1>4. AttendedByLive'
  BY <1>1, <1>2, StillAttended DEF Landed, InNode, historyVars
<1>5. upsets' \in 0..plan'.upsets
  BY UpsetsBounded DEF Landed, FlightInv
<1> QED BY <1>1, <1>2, <1>3, <1>4, <1>5, MoveInv
        DEF Landed, InNode, historyVars, FlightInv, FlightTypeOK

LEMMA WorkInv == ASSUME FlightInv, NEW c \in Calls, Work(c) PROVE FlightInv'
<1>1. pc[c] = "work" /\ Goto(c, "done")
  BY DEF Work, At, Return
<1>2. "done" \in Steps /\ "done" \notin FlightSteps
  BY DEF Steps, FlightSteps
<1>3. NodeTypeOK' /\ VehicleTypeOK'
  BY NodeFrame, VehicleFrame DEF Work, FlightInv, FlightTypeOK
<1>4. AttendedByLive'
  BY <1>1, <1>2, StillAttended DEF Work, historyVars
<1>5. upsets' \in 0..plan'.upsets
  BY UpsetsBounded DEF Work, FlightInv
<1>6. running' \in Calls \cup {NoCall}
  BY DEF Work, Return, FlightInv, FlightTypeOK
<1> QED BY <1>1, <1>2, <1>3, <1>4, <1>5, <1>6, MoveInv
        DEF Work, historyVars, FlightInv, FlightTypeOK

LEMMA CallStepInv == ASSUME FlightInv, NEW c \in Calls, CallStep(c) PROVE FlightInv'
BY CalcRouteInv, IsFlyingInv, SetLoiterInv, ArmInv, TakeoffInv, SendWPFileInv, SetAutoInv,
   MissionEndedInv, HoldInv, LandInv, LandedInv, WorkInv
   DEF CallStep

-----------------------------------------------------------------------------
(* The dispatcher, the ends of nodes, the environment.                     *)

LEMMA BeginInv == ASSUME FlightInv, NEW c \in Calls, Begin(c) PROVE FlightInv'
<1>1. PICK to \in {"route", "land"} : Goto(c, to) /\ (to = "route" => c \in Flights)
  BY DEF Begin, Goto
<1>2. pc[c] = "idle" /\ to \in Steps /\ ("land" \notin FlightSteps)
  BY DEF Begin, ToCome, Steps, FlightSteps
<1>3. NodeTypeOK'
  <2>1. Ended' \in [Nodes -> BOOLEAN]
    BY DEF Begin, EndedAtBegin, FlightInv, FlightTypeOK, NodeTypeOK
  <2> QED BY <2>1 DEF Begin, FlightInv, FlightTypeOK, NodeTypeOK
<1>4. VehicleTypeOK'
  BY VehicleFrame DEF Begin, FlightInv, FlightTypeOK
<1>5. upsets' \in 0..plan'.upsets
  BY UpsetsBounded DEF Begin, FlightInv
<1>6. calm' \subseteq Calls /\ hindered' \in BOOLEAN
  BY DEF Begin, AtRest, FlightInv, FlightTypeOK
<1>7. AttendedByLive'
  BY <1>1, <1>2, StillAttended DEF Begin
<1> QED BY <1>1, <1>2, <1>3, <1>4, <1>5, <1>6, <1>7, MoveInv
        DEF Begin, FlightInv, FlightTypeOK

LEMMA CancelInv == ASSUME FlightInv, Cancel PROVE FlightInv'
<1>1. NodeTypeOK' /\ VehicleTypeOK'
  BY NodeFrame, VehicleFrame DEF Cancel, FlightInv, FlightTypeOK
<1> QED BY <1>1 DEF Cancel, historyVars, FlightInv, FlightTypeOK, FlightsFly,
                   AttendedByLive, Attends

(* The calls of a node that ends are dead, the others are where they were. *)
LEMMA KillType ==
  ASSUME FlightInv, NEW n \in Nodes, Kill(n)
  PROVE  pc' \in [Calls -> Steps] /\ FlightsFly'
<1>1. "dead" \in Steps /\ "dead" \notin FlightSteps
  BY DEF Steps, FlightSteps
<1> QED BY <1>1 DEF FlightInv, FlightTypeOK, FlightsFly, Kill

LEMMA CrashInv == ASSUME FlightInv, NEW c \in Calls, Crash(c) PROVE FlightInv'
<1> DEFINE n == NodeOf[c]
<1>1. n \in Nodes
  BY FlightSets
<1>2. pc' \in [Calls -> Steps] /\ FlightsFly'
  BY <1>1, KillType DEF Crash
<1>3. NodeTypeOK' /\ VehicleTypeOK'
  BY NodeFrame, VehicleFrame DEF Crash, FlightInv, FlightTypeOK
<1>4. upsets' \in 0..plan'.upsets
  BY UpsetsBounded DEF Crash, FlightInv
<1>5. closing' \subseteq Nodes /\ failed' \in BOOLEAN
  BY <1>1 DEF Crash, FlightInv, FlightTypeOK
<1>6. FlightTypeOK'
  BY <1>2, <1>3, <1>4, <1>5 DEF Crash, FlightInv, FlightTypeOK
<1>7. AttendedByLive'
  <2>1. SUFFICES ASSUME vehicle'.mode = "AUTO.MISSION", ~failed'
                 PROVE  \E d \in Calls : Attends(d)'
    BY DEF AttendedByLive
  <2>2. PICK d \in Calls : Attends(d)
    BY <2>1 DEF Crash, FlightInv, AttendedByLive
  <2>3. NodeOf[d] # n
    BY <2>1, <2>2 DEF Crash, Attends, CallsAt
  <2>4. pc'[d] = pc[d] /\ NodeOf[d] \notin closing'
    BY <2>2, <2>3 DEF Crash, Kill, Attends
  <2> QED BY <2>2, <2>4 DEF Attends
<1> QED BY <1>2, <1>6, <1>7 DEF FlightInv

LEMMA MySigintHandlerInv ==
  ASSUME FlightInv, NEW n \in Nodes, MySigintHandler(n) PROVE FlightInv'
<1>1. PICK went \in BOOLEAN : SetMode(went, "AUTO.LOITER") /\ failed' = (failed \/ ~went)
  BY DEF MySigintHandler
<1>2. "AUTO.LOITER" \in Modes
  BY DEF Modes
<1>3. NodeTypeOK' /\ VehicleTypeOK'
  BY <1>1, <1>2, NodeFrame, ModeType DEF MySigintHandler, FlightInv, FlightTypeOK
<1>4. upsets' \in 0..plan'.upsets
  BY UpsetsBounded DEF MySigintHandler, FlightInv
<1>5. closing' \subseteq Nodes /\ failed' \in BOOLEAN
  BY <1>1 DEF MySigintHandler, FlightInv, FlightTypeOK
<1>6. FlightTypeOK'
  BY <1>3, <1>4, <1>5 DEF MySigintHandler, FlightInv, FlightTypeOK
<1>7. AttendedByLive'
  <2>1. SUFFICES ASSUME ~failed' PROVE vehicle'.mode # "AUTO.MISSION"
    BY DEF AttendedByLive
  <2>2. went
    BY <1>1, <2>1
  <2> QED BY <1>1, <2>2 DEF SetMode, FlightInv, FlightTypeOK, VehicleTypeOK
<1>8. FlightsFly'
  BY DEF MySigintHandler, FlightInv, FlightsFly
<1> QED BY <1>6, <1>7, <1>8 DEF FlightInv

LEMMA ShutdownInv == ASSUME FlightInv, NEW n \in Nodes, Shutdown(n) PROVE FlightInv'
<1>1. pc' \in [Calls -> Steps] /\ FlightsFly'
  BY KillType DEF Shutdown
<1>2. NodeTypeOK' /\ VehicleTypeOK'
  BY NodeFrame, VehicleFrame DEF Shutdown, FlightInv, FlightTypeOK
<1>3. FlightTypeOK'
  BY <1>1, <1>2 DEF Shutdown, historyVars, FlightInv, FlightTypeOK
<1>4. AttendedByLive'
  <2>1. ASSUME NEW d \in Calls, Attends(d) PROVE Attends(d)'
    <3>1. NodeOf[d] # n
      BY <2>1 DEF Shutdown, Attends
    <3>2. pc'[d] = pc[d]
      BY <3>1 DEF Shutdown, Kill
    <3> QED BY <2>1, <3>2 DEF Shutdown, Attends
  <2> QED BY <2>1 DEF Shutdown, historyVars, FlightInv, AttendedByLive
<1> QED BY <1>1, <1>3, <1>4 DEF FlightInv

LEMMA FlyInv == ASSUME FlightInv, Fly PROVE FlightInv'
<1>1. VehicleTypeOK' /\ vehicle'.mode = vehicle.mode
  <2>1. vehicle \in [mode : Modes, armed : BOOLEAN, in_air : BOOLEAN,
                    owner : Flights \cup {NoCall}, size : Nat, next : Nat]
    BY DEF FlightInv, FlightTypeOK, VehicleTypeOK
  <2>2. /\ vehicle' = [vehicle EXCEPT !.next = vehicle.next + 1, !.in_air = TRUE]
        /\ vehicle.next < vehicle.size
    BY DEF Fly
  <2>3. vehicle.next + 1 \in Nat /\ vehicle.next + 1 <= vehicle.size
    BY <2>1, <2>2
  <2>4. vehicle' \in [mode : Modes, armed : BOOLEAN, in_air : BOOLEAN,
                     owner : Flights \cup {NoCall}, size : Nat, next : Nat]
    BY <2>1, <2>2, <2>3
  <2>5. /\ vehicle'.next = vehicle.next + 1 /\ vehicle'.size = vehicle.size
        /\ vehicle'.owner = vehicle.owner /\ vehicle'.mode = vehicle.mode
    BY <2>1, <2>2
  <2> QED BY <2>3, <2>4, <2>5 DEF FlightInv, FlightTypeOK, VehicleTypeOK
<1>2. NodeTypeOK'
  <2>1. vehicle.next \in Int
    BY DEF FlightInv, FlightTypeOK, VehicleTypeOK
  <2>2. reached' \in [Nodes -> Int]
    BY <2>1 DEF Fly, Published, FlightInv, FlightTypeOK, NodeTypeOK
  <2> QED BY <2>2 DEF Fly, FlightInv, FlightTypeOK, NodeTypeOK
<1> QED BY <1>1, <1>2 DEF Fly, historyVars, FlightInv, FlightTypeOK, FlightsFly,
                         AttendedByLive, Attends

LEMMA TouchdownInv == ASSUME FlightInv, Touchdown PROVE FlightInv'
<1>1. VehicleTypeOK' /\ vehicle'.mode = vehicle.mode
  BY DEF Touchdown, FlightInv, FlightTypeOK, VehicleTypeOK
<1>2. NodeTypeOK'
  BY NodeFrame DEF Touchdown, FlightInv, FlightTypeOK
<1> QED BY <1>1, <1>2 DEF Touchdown, historyVars, FlightInv, FlightTypeOK, FlightsFly,
                         AttendedByLive, Attends

(* The mode set from outside is not the mission's.                         *)
LEMMA OutsideInv ==
  ASSUME FlightInv, BatteryLow \/ SetLoiterMode
  PROVE  FlightInv'
<1>1. PICK mode \in {"AUTO.LAND", "AUTO.LOITER"} : SetMode(TRUE, mode)
  BY DEF BatteryLow, SetLoiterMode
<1>2. mode \in Modes /\ mode # "AUTO.MISSION"
  BY DEF Modes
<1>3. NodeTypeOK' /\ VehicleTypeOK'
  BY <1>1, <1>2, NodeFrame, ModeType DEF BatteryLow, SetLoiterMode, FlightInv, FlightTypeOK
<1>4. upsets' \in 0..plan'.upsets
  BY UpsetsBounded DEF BatteryLow, SetLoiterMode, FlightInv
<1>5. vehicle'.mode # "AUTO.MISSION"
  BY <1>1, <1>2 DEF SetMode, FlightInv, FlightTypeOK, VehicleTypeOK
<1>6. AttendedByLive' /\ FlightsFly'
  BY <1>5 DEF BatteryLow, SetLoiterMode, FlightInv, AttendedByLive, FlightsFly
<1>7. hindered' \in BOOLEAN
  BY DEF BatteryLow, SetLoiterMode, FlightInv, FlightTypeOK
<1> QED BY <1>3, <1>4, <1>6, <1>7
        DEF BatteryLow, SetLoiterMode, FlightInv, FlightTypeOK

-----------------------------------------------------------------------------
(* Every step keeps the invariant.                                         *)
THEOREM FlightInvariance == FlightSpec => []FlightInv
<1>1. FlightInv /\ [FlightNext]_flightVars => FlightInv'
  <2>1. SUFFICES ASSUME FlightInv, [FlightNext]_flightVars PROVE FlightInv'
    OBVIOUS
  <2>2. CASE FlightNext
    BY <2>1, <2>2, HearKeepsInv, MySigintHandlerInv, ShutdownInv, BeginInv, CallStepInv,
       CrashInv, CancelInv, FlyInv, TouchdownInv, OutsideInv
       DEF FlightNext
  <2>3. CASE UNCHANGED flightVars
    <3>1. NodeTypeOK' /\ VehicleTypeOK'
      BY <2>1, <2>3, NodeFrame, VehicleFrame DEF flightVars, FlightInv, FlightTypeOK
    <3> QED BY <2>1, <2>3, <3>1 DEF flightVars, historyVars, FlightInv, FlightTypeOK,
               FlightsFly, AttendedByLive, Attends
  <2> QED BY <2>1, <2>2, <2>3
<1> QED BY <1>1, FlightInitInv, PTL DEF FlightSpec

(* Every variable of the flights keeps its type.                           *)
THEOREM FlightTypeCorrect == FlightSpec => []FlightTypeOK
<1>1. FlightInv => FlightTypeOK
  BY DEF FlightInv
<1> QED BY <1>1, FlightInvariance, PTL

(* No mission is flown without a call that waits to put the vehicle on     *)
(* hold, unless a command to hold failed or a waiting process died.        *)
THEOREM MissionAttendedCorrect == FlightSpec => []MissionAttended
<1>1. FlightInv => MissionAttended
  <2>1. SUFFICES ASSUME FlightInv, vehicle.mode = "AUTO.MISSION", ~failed
                 PROVE  \E c \in Flights : pc[c] \in {"wait", "hold"}
    BY DEF MissionAttended
  <2>2. PICK c \in Calls : Attends(c)
    BY <2>1 DEF FlightInv, AttendedByLive
  <2>3. c \in Flights
    BY <2>1, <2>2 DEF FlightInv, FlightsFly, FlightSteps, Attends
  <2> QED BY <2>2, <2>3 DEF Attends
<1> QED BY <1>1, FlightInvariance, PTL

-----------------------------------------------------------------------------
(* A calm call has the vehicle to itself.  A ground action finds no        *)
(* mission under way and hears no landing that has not happened.  A flight *)
(* has nothing pending from before: up to its upload Ended is false and    *)
(* no message waits, then the last waypoint is that of its own route, and  *)
(* what reaches the node is of its own flight.                             *)

Alone(c) == \A d \in Calls : Open(d) => d = c

GroundCalm(c) ==
  /\ vehicle.mode # "AUTO.MISSION"
  /\ view[NodeOf[c]].landed = "on ground" => ~vehicle.in_air
  /\ pc[c] = "work" => ~vehicle.in_air

BeforeSend == {"route", "flying?", "loiter", "arm", "takeoff", "send"}

Fresh(c) ==
  /\ vehicle.mode # "AUTO.MISSION"
  /\ ~Ended[NodeOf[c]]
  /\ reached[NodeOf[c]] = None

Counted(c) ==
  /\ vehicle.owner = c
  /\ waypoints[NodeOf[c]] \in {None, SizeOf[c]}
  /\ waypoints[NodeOf[c]] = None => WPqtd[NodeOf[c]] = SizeOf[c] - 1

Flown(c) ==
  /\ Counted(c)
  /\ waypoints[NodeOf[c]] = None
  /\ reached[NodeOf[c]] # None => reached[NodeOf[c]] < vehicle.next
  /\ Ended[NodeOf[c]] => vehicle.next = vehicle.size

FlightCalm(c) ==
  /\ pc[c] \in FlightSteps
  /\ pc[c] \in BeforeSend => Fresh(c) /\ waypoints[NodeOf[c]] = None
  /\ pc[c] \in BeforeSend \ {"route"} => route = c
  /\ pc[c] = "auto" => Fresh(c) /\ Counted(c)
  /\ pc[c] \in {"wait", "hold"} => Flown(c)
  /\ pc[c] = "hold" => vehicle.next = vehicle.size

Calm(c) == Alone(c) /\ IF c \in Flights THEN FlightCalm(c) ELSE GroundCalm(c)

CalmBegun == \A c \in calm : pc[c] # "idle"

CalmCalls == \A c \in calm : Open(c) => Calm(c)

CalmInv == CalmBegun /\ CalmCalls

LEMMA CalmInit == ASSUME FlightInit PROVE CalmInv
BY DEF FlightInit, CalmInv, CalmBegun, CalmCalls

(* The record of the vehicle, for the steps that change one field.         *)
LEMMA VehicleRecord ==
  ASSUME FlightInv
  PROVE  /\ vehicle \in [mode : Modes, armed : BOOLEAN, in_air : BOOLEAN,
                         owner : Flights \cup {NoCall}, size : Nat, next : Nat]
         /\ vehicle.next <= vehicle.size
         /\ \A c \in Calls : vehicle.owner = c => vehicle.size = SizeOf[c]
BY FlightAssumption DEF FlightInv, FlightTypeOK, VehicleTypeOK

LEMMA SetModeRecord ==
  ASSUME FlightInv, NEW went, NEW mode \in Modes, SetMode(went, mode)
  PROVE  /\ vehicle'.mode = IF went THEN mode ELSE vehicle.mode
         /\ vehicle'.in_air = vehicle.in_air
         /\ vehicle'.owner = vehicle.owner
         /\ vehicle'.size = vehicle.size
         /\ vehicle'.next = vehicle.next
BY VehicleRecord DEF SetMode

(* Who moves is open, and only he moves.                                   *)
LEMMA CallStepMoves ==
  ASSUME FlightInv, NEW d \in Calls, CallStep(d)
  PROVE  Open(d) /\ calm' \subseteq calm /\ \A c \in Calls \ {d} : pc'[c] = pc[c]
BY DEF CallStep, CalcRoute, IsFlying, SetLoiter, Arm, Takeoff, SendWPFile, SendRoute, SendFails,
       CallRoute, SetAuto, MissionEnded, Hold, Return, Land, Landed, Work, At, Goto, Open,
       InNode, historyVars, FlightInv, FlightTypeOK

LEMMA StepGoesOn ==
  ASSUME FlightInv, NEW d \in Calls, CallStep(d) PROVE pc'[d] # "idle"
BY DEF CallStep, CalcRoute, IsFlying, SetLoiter, Arm, Takeoff, SendWPFile, SetAuto,
       MissionEnded, Hold, Return, Land, Landed, Work, Goto, FlightInv, FlightTypeOK

(* What the step of a calm call leaves.                                    *)
LEMMA OwnStepCalm ==
  ASSUME FlightInv, NEW c \in Calls, CallStep(c), c \in calm', Open(c)', Calm(c)
  PROVE  IF c \in Flights THEN FlightCalm(c)' ELSE GroundCalm(c)'
<1> DEFINE n == NodeOf[c]
<1>0. n \in Nodes /\ "AUTO.LOITER" \in Modes /\ "AUTO.MISSION" \in Modes /\ "AUTO.LAND" \in Modes
  BY FlightSets DEF Modes
<1>1. pc \in [Calls -> Steps] /\ SizeOf[c] \in Nat /\ SizeOf[c] # None
  BY FlightSets DEF FlightInv, FlightTypeOK, None
<1> USE DEF At, Goto
<1>a. pc[c] \in FlightSteps => c \in Flights
  BY DEF FlightInv, FlightsFly
<1>2. CASE CalcRoute(c)
  <2>1. c \in Flights /\ pc[c] = "route" /\ pc'[c] = "flying?" /\ route' = c
    BY <1>1, <1>2, <1>a DEF CalcRoute, FlightSteps
  <2> QED BY <1>2, <2>1 DEF CalcRoute, Calm, FlightCalm, Fresh, BeforeSend, FlightSteps, InNode, nodeVars
<1>3. CASE IsFlying(c)
  <2>1. c \in Flights /\ pc[c] = "flying?" /\ pc'[c] \in {"loiter", "send"}
    BY <1>1, <1>3, <1>a DEF IsFlying, FlightSteps
  <2> QED BY <1>3, <2>1 DEF IsFlying, Calm, FlightCalm, Fresh, BeforeSend, FlightSteps, InNode, nodeVars
<1>4. CASE SetLoiter(c)
  <2>1. c \in Flights /\ pc[c] = "loiter" /\ pc'[c] = "arm"
    BY <1>1, <1>4, <1>a DEF SetLoiter, FlightSteps
  <2>2. vehicle'.mode \in {vehicle.mode, "AUTO.LOITER"}
    BY <1>0, <1>4, SetModeRecord DEF SetLoiter
  <2> QED BY <1>4, <2>1, <2>2
          DEF SetLoiter, Calm, FlightCalm, Fresh, BeforeSend, FlightSteps, InNode, nodeVars
<1>5. CASE Arm(c)
  <2>1. c \in Flights /\ pc[c] = "arm" /\ pc'[c] = "takeoff"
    BY <1>1, <1>5, <1>a DEF Arm, FlightSteps
  <2>2. vehicle'.mode = vehicle.mode
    BY <1>5, VehicleRecord DEF Arm
  <2> QED BY <1>5, <2>1, <2>2
          DEF Arm, Calm, FlightCalm, Fresh, BeforeSend, FlightSteps, InNode, nodeVars
<1>6. CASE Takeoff(c)
  <2>1. c \in Flights /\ pc[c] = "takeoff" /\ pc'[c] = "flying?"
    BY <1>1, <1>6, <1>a DEF Takeoff, FlightSteps
  <2>2. vehicle'.mode \in {vehicle.mode, "AUTO.LOITER"}
    BY <1>6, VehicleRecord DEF Takeoff
  <2> QED BY <1>6, <2>1, <2>2
          DEF Takeoff, Calm, FlightCalm, Fresh, BeforeSend, FlightSteps, InNode, nodeVars
<1>7. CASE SendWPFile(c)
  <2>1. c \in Flights /\ pc[c] = "send" /\ pc'[c] = "auto"
    BY <1>1, <1>7, <1>a DEF SendWPFile, FlightSteps
  <2>2. SendRoute(c) /\ route = c
    BY <1>7, <2>1 DEF SendWPFile, SendFails, CallRoute, Calm, FlightCalm, BeforeSend
  <2>3. /\ vehicle'.owner = c
        /\ vehicle'.mode = vehicle.mode
        /\ waypoints' = Published(waypoints, SizeOf[c])
    BY <2>2, VehicleRecord DEF SendRoute, Upload, Loaded
  <2>4. Listening(n) /\ Flying(n)
    BY <2>1 DEF Listening, Flying, CallsAt, Open
  <2>5. waypoints'[n] = SizeOf[c]
    BY <1>0, <2>3, <2>4 DEF Published
  <2>6. Fresh(c)
    BY <2>1 DEF Calm, FlightCalm, BeforeSend
  <2>7. Fresh(c)' /\ Counted(c)'
    BY <1>1, <1>7, <2>3, <2>5, <2>6 DEF SendWPFile, Fresh, Counted
  <2> QED BY <2>1, <2>7 DEF FlightCalm, BeforeSend, FlightSteps
<1>8. CASE SetAuto(c)
  <2>1. c \in Flights /\ pc[c] = "auto" /\ pc'[c] = "wait"
    BY <1>1, <1>8, <1>a DEF SetAuto, FlightSteps
  <2>2. Fresh(c) /\ Counted(c) /\ waypoints[n] = None
    BY <1>8, <2>1 DEF SetAuto, Calm, FlightCalm
  <2>3. vehicle'.owner = vehicle.owner
    BY <1>0, <1>8, SetModeRecord DEF SetAuto
  <2>4. Flown(c)'
    BY <1>8, <2>2, <2>3 DEF SetAuto, InNode, nodeVars, Flown, Counted, Fresh
  <2> QED BY <2>1, <2>4 DEF FlightCalm, BeforeSend, FlightSteps
<1>9. CASE MissionEnded(c)
  <2>1. c \in Flights /\ pc[c] = "wait" /\ pc'[c] = "hold" /\ Ended[n]
    BY <1>1, <1>9, <1>a DEF MissionEnded, FlightSteps
  <2>2. Flown(c) /\ vehicle.next = vehicle.size
    BY <2>1 DEF Calm, FlightCalm, Flown
  <2>3. Flown(c)' /\ vehicle'.next = vehicle'.size
    BY <1>9, <2>2 DEF MissionEnded, InNode, nodeVars, Flown, Counted
  <2> QED BY <2>1, <2>3 DEF FlightCalm, BeforeSend, FlightSteps
<1>10. CASE Land(c)
  <2>1. pc[c] = "land" /\ pc'[c] = "landing"
    BY <1>1, <1>10 DEF Land
  <2>2. vehicle'.mode \in {vehicle.mode, "AUTO.LAND"} /\ vehicle'.in_air = vehicle.in_air
    BY <1>0, <1>10, SetModeRecord DEF Land
  <2> QED BY <1>10, <2>1, <2>2
          DEF Land, Calm, GroundCalm, FlightCalm, BeforeSend, FlightSteps, InNode, nodeVars
<1>11. CASE Landed(c)
  <2>1. pc[c] = "landing" /\ pc'[c] = "work" /\ view[n].landed = "on ground"
    BY <1>1, <1>11 DEF Landed, IsDown
  <2> QED BY <1>11, <2>1
          DEF Landed, Calm, GroundCalm, FlightCalm, BeforeSend, FlightSteps, InNode, nodeVars
<1>12. CASE Hold(c) \/ Work(c)
  BY <1>1, <1>12 DEF Hold, Work, Return, Open
<1> QED BY <1>2, <1>3, <1>4, <1>5, <1>6, <1>7, <1>8, <1>9, <1>10, <1>11, <1>12 DEF CallStep

LEMMA CallStepCalm ==
  ASSUME FlightInv, CalmInv, NEW d \in Calls, CallStep(d) PROVE CalmInv'
<1>0. CalmBegun'
  BY CallStepMoves, StepGoesOn DEF CalmInv, CalmBegun, FlightInv, FlightTypeOK
<1> SUFFICES ASSUME NEW c \in calm', Open(c)' PROVE Calm(c)'
  BY <1>0 DEF CalmInv, CalmCalls
<1>1. c \in calm /\ c \in Calls /\ Open(d)
  BY CallStepMoves DEF FlightInv, FlightTypeOK
<1>2. Open(c)
  BY <1>1, CallStepMoves DEF Open
<1>3. c = d /\ Calm(c)
  BY <1>1, <1>2 DEF CalmInv, CalmCalls, Calm, Alone
<1>4. Alone(c)'
  BY <1>3, CallStepMoves DEF Calm, Alone, Open
<1> QED BY <1>1, <1>3, <1>4, OwnStepCalm DEF Calm

(* The topics.  What a node hears of the vehicle is true; what it hears of *)
(* its mission is what its calm flight has sent and flown.                 *)
LEMMA HearCalm ==
  ASSUME FlightInv, CalmInv, NEW n \in Nodes, Hear(n) PROVE CalmInv'
<1>1. UNCHANGED <<plan, pc, route, vehicle, closing, running, upsets, calm, failed, hindered>>
  BY HearFrame DEF historyVars
<1> SUFFICES ASSUME NEW c \in calm', Open(c)' PROVE Calm(c)'
  BY <1>1 DEF CalmInv, CalmBegun, CalmCalls
<1>2. c \in Calls /\ Calm(c) /\ NodeOf[c] \in Nodes
  BY <1>1, FlightSets DEF FlightInv, FlightTypeOK, CalmInv, CalmCalls, Open
<1>3. Alone(c)'
  BY <1>1, <1>2 DEF Calm, Alone, Open
<1>4. c \notin Flights => GroundCalm(c)'
  <2> SUFFICES ASSUME c \notin Flights PROVE GroundCalm(c)'
    OBVIOUS
  <2>1. GroundCalm(c)
    BY <1>2 DEF Calm
  <2>2. view'[NodeOf[c]].landed = "on ground" => ~vehicle.in_air
    <3>1. CASE HearExtendedState(n)
      BY <1>2, <2>1, <3>1
         DEF HearExtendedState, LandedState, GroundCalm, FlightInv, FlightTypeOK, NodeTypeOK
    <3>2. CASE HearState(n)
      BY <1>2, <2>1, <3>2 DEF HearState, GroundCalm, FlightInv, FlightTypeOK, NodeTypeOK
    <3>3. CASE HearWaypoints(n) \/ HearReached(n)
      BY <2>1, <3>3 DEF HearWaypoints, HearReached, GroundCalm
    <3> QED BY <3>1, <3>2, <3>3 DEF Hear
  <2> QED BY <1>1, <2>1, <2>2 DEF GroundCalm
<1>5. c \in Flights => FlightCalm(c)'
  <2> SUFFICES ASSUME c \in Flights PROVE FlightCalm(c)'
    OBVIOUS
  <2> DEFINE m == NodeOf[c]
  <2>1. FlightCalm(c)
    BY <1>2 DEF Calm
  <2>2. CASE HearState(n) \/ HearExtendedState(n)
    BY <1>1, <2>1, <2>2 DEF HearState, HearExtendedState, FlightCalm, Fresh, Counted, Flown
  <2>3. CASE HearWaypoints(n)
    <3>1. /\ UNCHANGED <<Ended, reached>>
          /\ WPqtd' = [WPqtd EXCEPT ![n] = waypoints[n] - 1]
          /\ waypoints' = [waypoints EXCEPT ![n] = None]
          /\ waypoints[n] # None
      BY <2>3 DEF HearWaypoints, LastWaypoint
    <3>2. WPqtd \in [Nodes -> Int] /\ waypoints \in [Nodes -> Int]
      BY DEF FlightInv, FlightTypeOK, NodeTypeOK
    <3>3. Counted(c) => Counted(c)'
      BY <1>1, <1>2, <3>1, <3>2 DEF Counted
    <3>4. Fresh(c) => Fresh(c)'
      BY <1>1, <3>1 DEF Fresh
    <3>5. Flown(c) => Flown(c)'
      BY <1>1, <1>2, <3>1, <3>2, <3>3 DEF Flown
    <3>6. waypoints[m] = None => waypoints'[m] = None
      BY <1>2, <3>1, <3>2
    <3> QED BY <1>1, <2>1, <3>3, <3>4, <3>5, <3>6 DEF FlightCalm
  <2>4. CASE HearReached(n)
    <3>1. /\ UNCHANGED <<WPqtd, waypoints>>
          /\ Ended' = [Ended EXCEPT ![n] = (WPqtd[n] = reached[n])]
          /\ reached' = [reached EXCEPT ![n] = None]
          /\ reached[n] # None
      BY <2>4 DEF HearReached, IsEnd
    <3>2. Ended \in [Nodes -> BOOLEAN] /\ reached \in [Nodes -> Int] /\ WPqtd \in [Nodes -> Int]
      BY DEF FlightInv, FlightTypeOK, NodeTypeOK
    <3>3. Counted(c) => Counted(c)'
      BY <1>1, <3>1 DEF Counted
    <3>4. Fresh(c) => Fresh(c)'
      BY <1>1, <1>2, <3>1, <3>2 DEF Fresh
    <3>5. Flown(c) => Flown(c)'
      <4> SUFFICES ASSUME Flown(c) PROVE Flown(c)'
        OBVIOUS
      <4>1. CASE n = m
        <5>1. reached'[m] = None
          BY <1>2, <3>1, <3>2, <4>1
        <5>2. Ended'[m] => vehicle.next = vehicle.size
          <6>1. SUFFICES ASSUME Ended'[m] PROVE vehicle.next = vehicle.size
            OBVIOUS
          <6>2. WPqtd[m] = reached[m]
            BY <1>2, <3>1, <3>2, <4>1, <6>1
          <6>3. WPqtd[m] = SizeOf[c] - 1 /\ reached[m] < vehicle.next /\ vehicle.owner = c
            BY <3>1, <4>1 DEF Flown, Counted
          <6>4. /\ vehicle.size = SizeOf[c] /\ vehicle.next <= vehicle.size
                /\ vehicle.size \in Nat /\ vehicle.next \in Nat
            BY <1>2, <6>3, VehicleRecord
          <6> QED BY <6>2, <6>3, <6>4
        <5> QED BY <1>1, <3>1, <3>3, <5>1, <5>2 DEF Flown
      <4>2. CASE n # m
        <5>1. Ended'[m] = Ended[m] /\ reached'[m] = reached[m]
          BY <1>2, <3>1, <3>2, <4>2
        <5> QED BY <1>1, <3>1, <3>3, <5>1 DEF Flown
      <4> QED BY <4>1, <4>2
    <3> QED BY <1>1, <2>1, <3>1, <3>3, <3>4, <3>5 DEF FlightCalm
  <2> QED BY <2>2, <2>3, <2>4 DEF Hear
<1> QED BY <1>3, <1>4, <1>5 DEF Calm

(* A new call is calm if it begins at rest; one that it finds is not.      *)
LEMMA BeginCalm ==
  ASSUME FlightInv, CalmInv, NEW d \in Calls, Begin(d) PROVE CalmInv'
<1>0. pc[d] = "idle" /\ NodeOf[d] \in Nodes
  BY FlightSets DEF Begin, ToCome
<1>2. pc' = [pc EXCEPT ![d] = IF d \in Flights THEN "route" ELSE "land"]
  BY DEF Begin
<1>3. pc \in [Calls -> Steps] /\ Ended \in [Nodes -> BOOLEAN]
  BY DEF FlightInv, FlightTypeOK, NodeTypeOK
<1>9. CalmBegun'
  <2>1. pc'[d] # "idle" /\ \A c \in Calls \ {d} : pc'[c] = pc[c]
    BY <1>2, <1>3
  <2>2. calm' \subseteq calm \cup {d} /\ calm \subseteq Calls
    BY DEF Begin, FlightInv, FlightTypeOK
  <2> QED BY <2>1, <2>2 DEF CalmInv, CalmBegun
<1> SUFFICES ASSUME NEW c \in calm', Open(c)' PROVE Calm(c)'
  BY <1>9 DEF CalmInv, CalmCalls
<1>1. c \in Calls /\ d \in Calls /\ pc[d] = "idle" /\ NodeOf[d] \in Nodes
  BY <1>0 DEF Begin, FlightInv, FlightTypeOK
<1>4. AtRest(d)
  <2>1. CASE c = d
    <3>1. SUFFICES ASSUME ~AtRest(d) PROVE FALSE
      OBVIOUS
    <3>2. c \in calm \ {e \in Calls : Open(e)}
      BY <3>1 DEF Begin
    <3>3. d \in calm
      BY <2>1, <3>2
    <3> QED BY <1>1, <3>3 DEF CalmInv, CalmBegun
  <2>2. CASE c # d
    <3>1. Open(c)
      BY <1>1, <1>2, <1>3, <2>2 DEF Open
    <3> QED BY <1>1, <3>1 DEF Begin
  <2> QED BY <2>1, <2>2
<1>5. c = d
  BY <1>1, <1>2, <1>3, <1>4 DEF AtRest, Open
<1>6. Alone(c)'
  BY <1>1, <1>2, <1>3, <1>4, <1>5 DEF Alone, AtRest, Open
<1>7. CASE c \in Flights
  <2>1. pc'[c] = "route" /\ ~Ended'[NodeOf[c]]
    BY <1>1, <1>2, <1>3, <1>5, <1>7 DEF Begin, EndedAtBegin
  <2>2. Fresh(c)' /\ waypoints'[NodeOf[c]] = None
    BY <1>4, <1>5, <2>1 DEF AtRest, Fresh, Begin
  <2> QED BY <1>6, <1>7, <2>1, <2>2 DEF Calm, FlightCalm, BeforeSend, FlightSteps
<1>8. CASE c \notin Flights
  <2>1. pc'[c] = "land"
    BY <1>1, <1>2, <1>3, <1>5, <1>8
  <2>2. view[NodeOf[c]].landed = LandedState
    BY <1>4, <1>5 DEF AtRest, Seen
  <2> QED BY <1>4, <1>5, <1>6, <1>8, <2>1, <2>2
          DEF AtRest, LandedState, Calm, GroundCalm, Begin
<1> QED BY <1>7, <1>8

(* The steps that end calls or only stop the vehicle disturb no calm call. *)
Quiet ==
  /\ calm' = calm /\ route' = route /\ UNCHANGED nodeVars
  /\ \A c \in Calls : pc'[c] = pc[c] \/ pc'[c] = "dead"
  /\ vehicle'.mode = vehicle.mode \/ vehicle'.mode # "AUTO.MISSION"
  /\ vehicle'.in_air => vehicle.in_air
  /\ vehicle'.owner = vehicle.owner
  /\ vehicle'.size = vehicle.size
  /\ vehicle'.next = vehicle.next

LEMMA QuietCalm == ASSUME FlightInv, CalmInv, Quiet PROVE CalmInv'
<1>1. CalmBegun'
  BY DEF CalmInv, CalmBegun, Quiet, FlightInv, FlightTypeOK
<1>2. CalmCalls'
  <2> SUFFICES ASSUME NEW c \in calm', Open(c)' PROVE Calm(c)'
    BY DEF CalmCalls
  <2>1. c \in Calls /\ pc'[c] = pc[c] /\ Calm(c)
    BY DEF Quiet, CalmInv, CalmCalls, Open, FlightInv, FlightTypeOK
  <2>2. Alone(c)'
    BY <2>1 DEF Quiet, Calm, Alone, Open
  <2>3. CASE c \in Flights
    <3>1. (Fresh(c) => Fresh(c)') /\ (Counted(c) => Counted(c)') /\ (Flown(c) => Flown(c)')
      BY DEF Quiet, nodeVars, Fresh, Counted, Flown
    <3> QED BY <2>1, <2>2, <2>3, <3>1 DEF Quiet, nodeVars, Calm, FlightCalm
  <2>4. CASE c \notin Flights
    BY <2>1, <2>2, <2>4 DEF Quiet, nodeVars, Calm, GroundCalm
  <2> QED BY <2>3, <2>4
<1> QED BY <1>1, <1>2 DEF CalmInv

LEMMA CancelQuiet == ASSUME FlightInv, Cancel PROVE Quiet
BY DEF Cancel, Quiet, historyVars

LEMMA CrashQuiet == ASSUME FlightInv, NEW c \in Calls, Crash(c) PROVE Quiet
BY DEF Crash, Kill, Quiet

LEMMA ShutdownQuiet == ASSUME FlightInv, NEW n \in Nodes, Shutdown(n) PROVE Quiet
BY DEF Shutdown, Kill, Quiet, historyVars

LEMMA MySigintHandlerQuiet ==
  ASSUME FlightInv, NEW n \in Nodes, MySigintHandler(n) PROVE Quiet
<1>1. PICK went \in BOOLEAN : SetMode(went, "AUTO.LOITER")
  BY DEF MySigintHandler
<1> QED BY <1>1, SetModeRecord DEF MySigintHandler, Quiet, Modes

LEMMA TouchdownQuiet == ASSUME FlightInv, Touchdown PROVE Quiet
BY VehicleRecord DEF Touchdown, Quiet, historyVars

LEMMA OutsideQuiet == ASSUME FlightInv, BatteryLow \/ SetLoiterMode PROVE Quiet
<1>1. "AUTO.LAND" \in Modes /\ "AUTO.LOITER" \in Modes
  BY DEF Modes
<1>2. CASE BatteryLow
  BY <1>1, <1>2, SetModeRecord DEF BatteryLow, Quiet
<1>3. CASE SetLoiterMode
  BY <1>1, <1>3, SetModeRecord DEF SetLoiterMode, Quiet
<1> QED BY <1>2, <1>3

(* A waypoint is reached while a calm call is open: it is a flight that    *)
(* waits, and the waypoint is one of its route.                            *)
LEMMA FlyCalm == ASSUME FlightInv, CalmInv, Fly PROVE CalmInv'
<1>1. UNCHANGED <<plan, pc, Ended, WPqtd, view, waypoints, route, closing, calm>>
  BY DEF Fly, historyVars
<1> SUFFICES ASSUME NEW c \in calm', Open(c)' PROVE Calm(c)'
  BY <1>1 DEF CalmInv, CalmBegun, CalmCalls
<1>2. c \in Calls /\ Calm(c) /\ NodeOf[c] \in Nodes
  BY <1>1, FlightSets DEF FlightInv, FlightTypeOK, CalmInv, CalmCalls, Open
<1>3. Alone(c)'
  BY <1>1, <1>2 DEF Calm, Alone, Open
<1>4. /\ vehicle.mode = "AUTO.MISSION" /\ vehicle.next < vehicle.size
      /\ vehicle'.next = vehicle.next + 1
      /\ vehicle'.mode = vehicle.mode /\ vehicle'.owner = vehicle.owner
      /\ vehicle'.size = vehicle.size
      /\ reached' = Published(reached, vehicle.next)
      /\ vehicle.next \in Nat /\ vehicle.size \in Nat
  BY VehicleRecord DEF Fly
<1>5. c \in Flights /\ pc[c] = "wait" /\ Flown(c)
  <2>1. c \in Flights
    BY <1>2, <1>4 DEF Calm, GroundCalm
  <2>2. pc[c] \in FlightSteps
    BY <1>2, <2>1 DEF Calm, FlightCalm
  <2>3. pc[c] \notin BeforeSend /\ pc[c] # "auto" /\ pc[c] # "hold"
    BY <1>2, <1>4, <2>1 DEF Calm, FlightCalm, Fresh
  <2> QED BY <1>2, <2>1, <2>2, <2>3 DEF Calm, FlightCalm, FlightSteps, BeforeSend
<1>6. reached'[NodeOf[c]] \in {reached[NodeOf[c]], vehicle.next}
  BY <1>2, <1>4 DEF Published
<1>7. reached[NodeOf[c]] \in Int
  BY <1>2 DEF FlightInv, FlightTypeOK, NodeTypeOK
<1>8. Flown(c)'
  <2>1. Counted(c)'
    BY <1>1, <1>4, <1>5 DEF Flown, Counted
  <2>2. reached'[NodeOf[c]] # None => reached'[NodeOf[c]] < vehicle'.next
    BY <1>4, <1>5, <1>6, <1>7 DEF Flown
  <2>3. ~Ended[NodeOf[c]]
    BY <1>4, <1>5 DEF Flown
  <2> QED BY <1>1, <1>5, <2>1, <2>2, <2>3 DEF Flown
<1> QED BY <1>1, <1>3, <1>5, <1>8 DEF Calm, FlightCalm, BeforeSend, FlightSteps

-----------------------------------------------------------------------------
(* The invariant of the calm calls, and what it gives.                     *)
THEOREM CalmInvariance == FlightSpec => []CalmInv
<1>1. FlightInv /\ CalmInv /\ [FlightNext]_flightVars => CalmInv'
  <2>1. SUFFICES ASSUME FlightInv, CalmInv, [FlightNext]_flightVars PROVE CalmInv'
    OBVIOUS
  <2>2. CASE FlightNext
    BY <2>1, <2>2, HearCalm, BeginCalm, CallStepCalm, FlyCalm, QuietCalm, CancelQuiet,
       CrashQuiet, ShutdownQuiet, MySigintHandlerQuiet, TouchdownQuiet, OutsideQuiet
       DEF FlightNext
  <2>3. CASE UNCHANGED flightVars
    BY <2>1, <2>3, QuietCalm DEF flightVars, historyVars, Quiet
  <2> QED BY <2>1, <2>2, <2>3
<1>2. FlightInit => CalmInv
  BY CalmInit
<1> QED BY <1>1, <1>2, FlightInvariance, PTL DEF FlightSpec

(* A calm flight whose wait is over has flown its own route to the end.    *)
THEOREM FlownToTheEndCorrect == FlightSpec => []FlownToTheEnd
<1>1. FlightInv /\ CalmInv => FlownToTheEnd
  <2>1. SUFFICES ASSUME FlightInv, CalmInv, NEW c \in calm, pc[c] = "hold"
                 PROVE  vehicle.owner = c /\ vehicle.next = vehicle.size
    BY DEF FlownToTheEnd
  <2>2. c \in Flights /\ Open(c)
    BY <2>1 DEF FlightInv, FlightTypeOK, FlightsFly, FlightSteps, Open
  <2> QED BY <2>1, <2>2 DEF CalmInv, CalmCalls, Calm, FlightCalm, Flown, Counted
<1> QED BY <1>1, FlightInvariance, CalmInvariance, PTL

(* A calm ground action works on the ground.                               *)
THEOREM GroundedWorkCorrect == FlightSpec => []GroundedWork
<1>1. FlightInv /\ CalmInv => GroundedWork
  <2>1. SUFFICES ASSUME FlightInv, CalmInv, NEW c \in calm,
                        pc[c] = "work", KindOf[c] = "ground"
                 PROVE  ~vehicle.in_air
    BY DEF GroundedWork
  <2>2. c \notin Flights /\ Open(c)
    BY <2>1 DEF Flights, Open
  <2> QED BY <2>1, <2>2 DEF CalmInv, CalmCalls, Calm, GroundCalm
<1> QED BY <1>1, FlightInvariance, CalmInvariance, PTL
=============================================================================
