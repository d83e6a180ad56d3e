---------------------------- MODULE FlightAction ----------------------------
(***************************************************************************)
(* concreteCallback() of the drone's action nodes (RPTutorialInterface)    *)
(* against the autopilot.  A node keeps the last mode, arming and landed   *)
(* state it heard, the number of the last waypoint (WPqtd) and a flag that *)
(* the mission was flown (Ended).  All calls of a node share them, and the *)
(* threads that run the calls are not those that take the topics: each     *)
(* subscription has a queue of one message.                                *)
(*                                                                         *)
(* A flight writes a route to a file, takes off, uploads the route, starts *)
(* the mission and waits for Ended.  A ground action lands and waits until *)
(* it hears that the vehicle is down.  Neither looks at a cancellation: to *)
(* cancel is, here, that the dispatcher goes on without the call.          *)
(*                                                                         *)
(* The autopilot, the battery monitor (risk_mitigation) and the replanning *)
(* script are the environment.  Sleeps are no steps; the one of 20 seconds *)
(* before set_auto() is taken to be long enough for the node to hear of    *)
(* the route it has just uploaded (see SetAuto).                           *)
(***************************************************************************)
EXTENDS Integers

CONSTANTS
  Nodes,      \* the action nodes
  Calls,      \* the calls of their actions, each made once at most
  NodeOf,     \* the node that serves each
  KindOf,     \* what the action does: see Kinds
  SizeOf,     \* how many waypoints the route of a flight has
  Plans,      \* bounds: which calls are made, with how many upsets, and whether the
              \* vehicle is in the air when the nodes start
  NoCall

Kinds == {"go_to", "region", "ground"}

ASSUME FlightAssumption ==
  /\ NodeOf \in [Calls -> Nodes]
  /\ KindOf \in [Calls -> Kinds]
  /\ SizeOf \in [Calls -> Nat \ {0, 1}]
  /\ Plans \subseteq [calls : SUBSET Calls, upsets : Nat, airborne : BOOLEAN]
  /\ NoCall \notin Calls

VARIABLES
  plan,       \* one of Plans
  pc,         \* where each call is
  Ended,      \* Mission::Ended of each node
  WPqtd,      \* Mission::WPqtd of each node
  view,       \* what each node last heard of the vehicle
  waypoints,  \* the message waiting on mission/waypoints at each node
  reached,    \* and on mission/reached
  route,      \* route.txt: the call that wrote it
  vehicle,    \* mode, armed, in_air and the mission: its owner, size and next waypoint
  closing,    \* nodes whose signal handler has run
  running,    \* the call that the dispatcher waits for
  upsets,     \* how many commands failed, nodes ended, landings and stops came from outside
  calm,       \* history: calls that began at rest and had the vehicle to themselves
  failed,     \* history: a command that starts or ends a mission went wrong
  hindered    \* history: something kept a call from ending

nodeVars    == <<Ended, WPqtd, view, waypoints, reached>>
historyVars == <<calm, failed, hindered>>
flightVars  == <<plan, pc, nodeVars, route, vehicle, closing, running, upsets, historyVars>>

Modes   == {"AUTO.LOITER", "AUTO.MISSION", "AUTO.LAND"}
Flights == {c \in Calls : KindOf[c] \in {"go_to", "region"}}
Steps   == {"idle", "route", "flying?", "loiter", "arm", "takeoff", "send", "auto", "wait",
            "hold", "land", "landing", "work", "done", "dead"}

Open(c)   == pc[c] \notin {"idle", "done", "dead"}
CallsAt(n) == {c \in Calls : NodeOf[c] = n}
None      == -2    \* no message; -1 is the number of the last waypoint of no mission

(* What a node reads of current_state: flights look at the arming, ground  *)
(* actions at the mode.  Before the first message both are as if unset.    *)
Flying(n)   == \E c \in CallsAt(n) : c \in Flights
State(n)    == IF Flying(n) THEN vehicle.armed ELSE vehicle.mode = "AUTO.LAND"
LandedState == IF vehicle.in_air THEN "in air" ELSE "on ground"
Seen(n)     == [state |-> State(n), landed |-> LandedState]
Unheard     == [state |-> FALSE, landed |-> "undefined"]

FlightInit ==
  /\ plan \in Plans
  /\ pc = [c \in Calls |-> "idle"]
  /\ Ended = [n \in Nodes |-> TRUE]
  /\ WPqtd = [n \in Nodes |-> 0]
  /\ view = [n \in Nodes |-> Unheard]
  /\ waypoints = [n \in Nodes |-> None]
  /\ reached = [n \in Nodes |-> None]
  /\ route = NoCall
  /\ vehicle = [mode |-> "AUTO.LOITER", armed |-> plan.airborne, in_air |-> plan.airborne,
                owner |-> NoCall, size |-> 0, next |-> 0]
  /\ closing = {}
  /\ running = NoCall
  /\ upsets = 0
  /\ calm = {}
  /\ failed = FALSE
  /\ hindered = FALSE

-----------------------------------------------------------------------------
(* The callbacks of the topics.  A node none of whose calls is under way   *)
(* or may still come is left out: nothing reads what it hears.             *)

ToCome(c) ==
  /\ pc[c] = "idle"
  /\ NodeOf[c] \notin closing
  /\ c \in plan.calls

Listening(n) == \E c \in CallsAt(n) : Open(c) \/ ToCome(c)

Upset == upsets < plan.upsets /\ upsets' = upsets + 1

HearState(n) ==
  /\ Listening(n)
  /\ view[n].state # State(n)
  /\ view' = [view EXCEPT ![n].state = State(n)]
  /\ UNCHANGED <<plan, pc, Ended, WPqtd, waypoints, reached, route, vehicle, closing, running,
                 upsets, historyVars>>

HearExtendedState(n) ==
  /\ Listening(n)
  /\ view[n].landed # LandedState
  /\ view' = [view EXCEPT ![n].landed = LandedState]
  /\ UNCHANGED <<plan, pc, Ended, WPqtd, waypoints, reached, route, vehicle, closing, running,
                 upsets, historyVars>>

(* Variants: the count of waypoints for the number of the last; any        *)
(* waypoint ends the mission.                                              *)
LastWaypointAsCount(size) == size

LastWaypoint(size) == size - 1

IsEndAny(n, seq) == seq # None

IsEnd(n, seq) == WPqtd[n] = seq

HearWaypoints(n) ==
  /\ waypoints[n] # None
  /\ WPqtd' = [WPqtd EXCEPT ![n] = LastWaypoint(waypoints[n])]
  /\ waypoints' = [waypoints EXCEPT ![n] = None]
  /\ UNCHANGED <<plan, pc, Ended, view, reached, route, vehicle, closing, running, upsets,
                 historyVars>>

HearReached(n) ==
  /\ reached[n] # None
  /\ Ended' = [Ended EXCEPT ![n] = IsEnd(n, reached[n])]
  /\ reached' = [reached EXCEPT ![n] = None]
  /\ UNCHANGED <<plan, pc, WPqtd, view, waypoints, route, vehicle, closing, running, upsets,
                 historyVars>>

Hear(n) == HearState(n) \/ HearExtendedState(n) \/ HearWaypoints(n) \/ HearReached(n)

(* What the autopilot publishes replaces what still waits; ground actions  *)
(* do not read what these topics tell.                                     *)
Published(topic, value) ==
  [n \in Nodes |-> IF Listening(n) /\ Flying(n) THEN value ELSE topic[n]]

-----------------------------------------------------------------------------
(* The dispatcher.                                                         *)

(* Nobody is at work, the node has heard all there is, and the vehicle     *)
(* neither flies a mission nor, when one is to be flown, comes down.       *)
AtRest(c) ==
  /\ \A d \in Calls : ~Open(d)
  /\ view[NodeOf[c]] = Seen(NodeOf[c])
  /\ waypoints[NodeOf[c]] = None
  /\ reached[NodeOf[c]] = None
  /\ vehicle.mode # "AUTO.MISSION"
  /\ c \in Flights /\ vehicle.mode = "AUTO.LAND" => ~vehicle.in_air /\ ~vehicle.armed

(* Variant: the flight trusts that Ended is false.                         *)
EndedAtBeginKept(c) == Ended

EndedAtBegin(c) ==
  IF c \in Flights THEN [Ended EXCEPT ![NodeOf[c]] = FALSE] ELSE Ended

Begin(c) ==
  /\ running = NoCall
  /\ ToCome(c)
  /\ running' = c
  /\ pc' = [pc EXCEPT ![c] = IF c \in Flights THEN "route" ELSE "land"]
  /\ Ended' = EndedAtBegin(c)
  /\ calm' = IF AtRest(c) THEN calm \cup {c} ELSE calm \ {d \in Calls : Open(d)}
  /\ hindered' = (hindered \/ ~AtRest(c))
  /\ UNCHANGED <<plan, WPqtd, view, waypoints, reached, route, vehicle, closing, upsets, failed>>

(* cancel_dispatch: the dispatcher forgets the call, which goes on.        *)
Cancel ==
  /\ running # NoCall
  /\ running' = NoCall
  /\ UNCHANGED <<plan, pc, nodeVars, route, vehicle, closing, upsets, historyVars>>

-----------------------------------------------------------------------------
(* The steps of a call.                                                    *)

At(c, from)  == pc[c] = from
Goto(c, to)  == pc' = [pc EXCEPT ![c] = to]
InNode       == UNCHANGED <<nodeVars, closing, running>>

(* A command to the autopilot, whose failure is logged and no more.        *)
Fault(went) == IF went THEN upsets' = upsets ELSE Upset

SetMode(went, mode) == vehicle' = IF went THEN [vehicle EXCEPT !.mode = mode] ELSE vehicle

(* calcRoute() and its kin: a script that should write the file.           *)
CalcRoute(c) ==
  /\ At(c, "route")
  /\ \E went \in BOOLEAN :
       /\ Fault(went)
       /\ route' = IF went THEN c ELSE route
       /\ calm' = IF went THEN calm ELSE calm \ {c}
  /\ Goto(c, "flying?")
  /\ InNode
  /\ UNCHANGED <<plan, vehicle, failed, hindered>>

IsFlying(c) ==
  /\ At(c, "flying?")
  /\ LET v == view[NodeOf[c]]
     IN  Goto(c, IF ~v.state /\ v.landed # "in air" THEN "loiter" ELSE "send")
  /\ InNode
  /\ UNCHANGED <<plan, route, vehicle, upsets, historyVars>>

SetLoiter(c) ==
  /\ At(c, "loiter")
  /\ \E went \in BOOLEAN : Fault(went) /\ SetMode(went, "AUTO.LOITER")
  /\ Goto(c, "arm")
  /\ InNode
  /\ UNCHANGED <<plan, route, historyVars>>

(* Arming, which the autopilot refuses while it is to land.                *)
Arm(c) ==
  /\ At(c, "arm")
  /\ \E went \in BOOLEAN :
       /\ Fault(went)
       /\ vehicle' = IF went /\ vehicle.mode # "AUTO.LAND"
                     THEN [vehicle EXCEPT !.armed = TRUE] ELSE vehicle
  /\ Goto(c, "takeoff")
  /\ InNode
  /\ UNCHANGED <<plan, route, historyVars>>

Takeoff(c) ==
  /\ At(c, "takeoff")
  /\ \E went \in BOOLEAN :
       /\ Fault(went)
       /\ vehicle' = IF went /\ vehicle.armed
                     THEN [vehicle EXCEPT !.in_air = TRUE, !.mode = "AUTO.LOITER"]
                     ELSE vehicle
  /\ Goto(c, "flying?")
  /\ InNode
  /\ UNCHANGED <<plan, route, historyVars>>

(* sendWPFile(): without a file there is nothing to send; with one, the    *)
(* mission is cleared and the route pushed, the file removed.  A call      *)
(* whose upload fails goes on with what the autopilot has; a go_to has     *)
(* mavwp load a route kept on disk first (callRoute), which may not exist. *)
Cleared == [vehicle EXCEPT !.owner = NoCall, !.size = 0, !.next = 0]

(* Variant: the list is pushed from the waypoint that was flown to.        *)
LoadedFromNext(owner) == [vehicle EXCEPT !.owner = owner, !.size = SizeOf[owner]]

Loaded(owner) == [vehicle EXCEPT !.owner = owner, !.size = SizeOf[owner], !.next = 0]

Upload(mission) ==
  /\ vehicle' = mission
  /\ waypoints' = Published(waypoints, mission.size)

SendRoute(c) ==
  /\ Upload(Loaded(route))
  /\ UNCHANGED <<upsets, calm, hindered>>

SendFails(c) ==
  /\ IF route = NoCall
     THEN upsets' = upsets /\ UNCHANGED <<vehicle, waypoints>>
     ELSE Fault(FALSE) /\ (Upload(Cleared) \/ UNCHANGED <<vehicle, waypoints>>)
  /\ calm' = calm \ {c}
  /\ hindered' = TRUE

CallRoute(c) ==
  /\ KindOf[c] = "go_to"
  /\ IF route = NoCall THEN upsets' = upsets ELSE Fault(FALSE)
  /\ Upload(Loaded(c))
  /\ calm' = calm \ {c}
  /\ hindered' = hindered

SendWPFile(c) ==
  /\ At(c, "send")
  /\ (route # NoCall /\ SendRoute(c)) \/ SendFails(c) \/ CallRoute(c)
  /\ route' = NoCall
  /\ Goto(c, "auto")
  /\ UNCHANGED <<plan, Ended, WPqtd, view, reached, closing, running, failed>>

(* set_auto(), which the autopilot refuses without a mission.              *)
SetAuto(c) ==
  /\ At(c, "auto")
  /\ waypoints[NodeOf[c]] = None
  /\ \E went \in BOOLEAN :
       /\ Fault(went)
       /\ SetMode(went /\ vehicle.size > 0, "AUTO.MISSION")
  /\ failed' = (failed \/ NodeOf[c] \in closing)
  /\ hindered' = (hindered \/ vehicle'.mode # "AUTO.MISSION")
  /\ Goto(c, "wait")
  /\ InNode
  /\ UNCHANGED <<plan, route, calm>>

MissionEnded(c) ==
  /\ At(c, "wait")
  /\ Ended[NodeOf[c]]
  /\ Goto(c, "hold")
  /\ InNode
  /\ UNCHANGED <<plan, route, vehicle, upsets, historyVars>>

(* The call returns and its interface reports it to the dispatcher.        *)
Return(c) ==
  /\ Goto(c, "done")
  /\ running' = IF running = c THEN NoCall ELSE running

(* Variant: the flight leaves the vehicle to the mission it has ended.     *)
HoldNot(c) ==
  /\ At(c, "hold")
  /\ Return(c)
  /\ UNCHANGED <<plan, nodeVars, route, vehicle, closing, upsets, historyVars>>

Hold(c) ==
  /\ At(c, "hold")
  /\ \E went \in BOOLEAN :
       /\ Fault(went)
       /\ SetMode(went, "AUTO.LOITER")
       /\ failed' = (failed \/ ~went)
  /\ Return(c)
  /\ UNCHANGED <<plan, nodeVars, route, closing, calm, hindered>>

Land(c) ==
  /\ At(c, "land")
  /\ IF view[NodeOf[c]].state
     THEN UNCHANGED <<vehicle, upsets, hindered>>
     ELSE \E went \in BOOLEAN :
            /\ Fault(went)
            /\ SetMode(went, "AUTO.LAND")
            /\ hindered' = (hindered \/ ~went)
  /\ Goto(c, "landing")
  /\ InNode
  /\ UNCHANGED <<plan, route, calm, failed>>

(* Variant: the work begins once the vehicle is told to land.              *)
IsDownWhenTold(n) == TRUE

IsDown(n) == view[n].landed = "on ground"

Landed(c) ==
  /\ At(c, "landing")
  /\ IsDown(NodeOf[c])
  /\ Goto(c, "work")
  /\ InNode
  /\ UNCHANGED <<plan, route, vehicle, upsets, historyVars>>

(* The sleep for the duration of the action.                               *)
Work(c) ==
  /\ At(c, "work")
  /\ Return(c)
  /\ UNCHANGED <<plan, nodeVars, route, vehicle, closing, upsets, historyVars>>

CallStep(c) ==
  \/ CalcRoute(c) \/ IsFlying(c) \/ SetLoiter(c) \/ Arm(c) \/ Takeoff(c)
  \/ SendWPFile(c) \/ SetAuto(c) \/ MissionEnded(c) \/ Hold(c)
  \/ Land(c) \/ Landed(c) \/ Work(c)

-----------------------------------------------------------------------------
(* The end of a node.                                                      *)

Kill(n) == pc' = [c \in Calls |-> IF NodeOf[c] = n /\ Open(c) THEN "dead" ELSE pc[c]]

(* A region's name is read from a parameter that its action may not have,  *)
(* and a line of the route with fewer than three numbers past its last     *)
(* one: the process may die, with every call it serves.                    *)
Crash(c) ==
  /\ \/ KindOf[c] = "region" /\ pc[c] = "route"
     \/ pc[c] = "send" /\ route # NoCall
  /\ Kill(NodeOf[c])
  /\ closing' = closing \cup {NodeOf[c]}
  /\ failed' = (failed \/ \E d \in CallsAt(NodeOf[c]) : pc[d] \in {"wait", "hold"})
  /\ hindered' = TRUE
  /\ Upset
  /\ UNCHANGED <<plan, nodeVars, route, vehicle, running, calm>>

(* Variant: the handler only shuts the node down.                          *)
MySigintHandlerOnly(n) ==
  /\ Listening(n)
  /\ n \notin closing
  /\ closing' = closing \cup {n}
  /\ hindered' = TRUE
  /\ Upset
  /\ UNCHANGED <<plan, pc, nodeVars, route, vehicle, running, calm, failed>>

(* The handler of an interrupt, which runs while the threads go on, and    *)
(* the end of the process.                                                 *)
MySigintHandler(n) ==
  /\ Listening(n)
  /\ n \notin closing
  /\ closing' = closing \cup {n}
  /\ Upset
  /\ \E went \in BOOLEAN :
       /\ SetMode(went, "AUTO.LOITER")
       /\ failed' = (failed \/ ~went)
  /\ hindered' = TRUE
  /\ UNCHANGED <<plan, pc, nodeVars, route, running, calm>>

Shutdown(n) ==
  /\ n \in closing
  /\ \E c \in CallsAt(n) : Open(c)
  /\ Kill(n)
  /\ UNCHANGED <<plan, nodeVars, route, vehicle, closing, running, upsets, historyVars>>

-----------------------------------------------------------------------------
(* The environment: the autopilot, the battery monitor that lands it, the  *)
(* script that stops it after cancel_dispatch.                             *)

Fly ==
  /\ vehicle.mode = "AUTO.MISSION"
  /\ vehicle.armed
  /\ vehicle.next < vehicle.size
  /\ vehicle' = [vehicle EXCEPT !.next = @ + 1, !.in_air = TRUE]
  /\ reached' = Published(reached, vehicle.next)
  /\ UNCHANGED <<plan, pc, Ended, WPqtd, view, waypoints, route, closing, running, upsets,
                 historyVars>>

Touchdown ==
  /\ vehicle.mode = "AUTO.LAND"
  /\ vehicle.in_air \/ vehicle.armed
  /\ vehicle' = [vehicle EXCEPT !.in_air = FALSE, !.armed = FALSE]
  /\ UNCHANGED <<plan, pc, nodeVars, route, closing, running, upsets, historyVars>>

BatteryLow ==
  /\ Upset
  /\ vehicle.mode # "AUTO.LAND"
  /\ SetMode(TRUE, "AUTO.LAND")
  /\ hindered' = (hindered \/ \E c \in Flights : Open(c))
  /\ UNCHANGED <<plan, pc, nodeVars, route, closing, running, calm, failed>>

SetLoiterMode ==
  /\ Upset
  /\ running = NoCall
  /\ vehicle.mode # "AUTO.LOITER"
  /\ SetMode(TRUE, "AUTO.LOITER")
  /\ hindered' = (hindered \/ \E c \in Calls : Open(c))
  /\ UNCHANGED <<plan, pc, nodeVars, route, closing, running, calm, failed>>

FlightNext ==
  \/ \E n \in Nodes : Hear(n) \/ MySigintHandler(n) \/ Shutdown(n)
  \/ \E c \in Calls : Begin(c) \/ CallStep(c) \/ Crash(c)
  \/ Cancel \/ Fly \/ Touchdown \/ BatteryLow \/ SetLoiterMode

(* Spinners and calls go on, and the autopilot does as it is told; what  *)
(* fails, cancels, interrupts or lands need never happen.                  *)
FlightFairness ==
  /\ \A n \in Nodes : WF_flightVars(Hear(n))
  /\ \A c \in Calls : WF_flightVars(CallStep(c))
  /\ WF_flightVars(Fly \/ Touchdown)

FlightSpec == FlightInit /\ [][FlightNext]_flightVars /\ FlightFairness

-----------------------------------------------------------------------------
(* Every variable has its type; the autopilot's mission is the whole route *)
(* of one call, and its next waypoint is one of it or the end.             *)
NodeTypeOK ==
  /\ Ended \in [Nodes -> BOOLEAN]
  /\ WPqtd \in [Nodes -> Int]
  /\ view \in [Nodes -> [state : BOOLEAN, landed : {"undefined", "on ground", "in air"}]]
  /\ waypoints \in [Nodes -> Int]
  /\ reached \in [Nodes -> Int]

VehicleTypeOK ==
  /\ vehicle \in [mode : Modes, armed : BOOLEAN, in_air : BOOLEAN,
                  owner : Flights \cup {NoCall}, size : Nat, next : Nat]
  /\ vehicle.next <= vehicle.size
  /\ vehicle.size = IF vehicle.owner = NoCall THEN 0 ELSE SizeOf[vehicle.owner]

FlightTypeOK ==
  /\ plan \in Plans
  /\ pc \in [Calls -> Steps]
  /\ NodeTypeOK
  /\ route \in Flights \cup {NoCall}
  /\ VehicleTypeOK
  /\ closing \subseteq Nodes
  /\ running \in Calls \cup {NoCall}
  /\ upsets \in 0..plan.upsets
  /\ calm \subseteq Calls
  /\ failed \in BOOLEAN
  /\ hindered \in BOOLEAN

(* A flight about to report its end, which began at rest, was not joined   *)
(* by another call and whose route went up, has flown its own route to the *)
(* last waypoint: Ended, WPqtd and the messages of the missions before did *)
(* not end its wait early.                                                 *)
FlownToTheEnd ==
  \A c \in calm : pc[c] = "hold" => vehicle.owner = c /\ vehicle.next = vehicle.size

(* The battery is changed, the tank filled, the camera cleaned only on the *)
(* ground, when the action began at rest and no other call came.           *)
GroundedWork ==
  \A c \in calm : pc[c] = "work" /\ KindOf[c] = "ground" => ~vehicle.in_air

(* Whatever is cancelled, landed, interrupted or overtaken by other calls, *)
(* no mission is flown without a call that waits to put the vehicle on     *)
(* hold, unless the command to hold failed or the process that waits died. *)
MissionAttended ==
  vehicle.mode = "AUTO.MISSION" /\ ~failed => \E c \in Flights : pc[c] \in {"wait", "hold"}

(* Every call that begins comes back, also when it was cancelled and when  *)
(* commands to arm or take off failed, unless it is hindered: it did not   *)
(* begin at rest, or its upload, its start or its landing failed, or the   *)
(* vehicle was landed or stopped under it.                                 *)
CallsReturn == (\E c \in Calls : Open(c)) ~> (hindered \/ \A c \in Calls : ~Open(c))
=============================================================================
