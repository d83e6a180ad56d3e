--------------------------- MODULE MCFlightAction ---------------------------
(***************************************************************************)
(* Two flights of one node, of unlike length; a flight at a region and a   *)
(* ground action; with one upset each.  Two flights of two nodes, with     *)
(* nothing but the order of events to go wrong, begin in the air.          *)
(***************************************************************************)
EXTENDS FlightAction, TLC

CONSTANTS goto, region, base, c1, c2, c3, c4

MCNodes  == {goto, region, base}
MCCalls  == {c1, c2, c3, c4}
MCNodeOf == c1 :> goto @@ c2 :> goto @@ c3 :> region @@ c4 :> base
MCKindOf == c1 :> "go_to" @@ c2 :> "go_to" @@ c3 :> "region" @@ c4 :> "ground"
MCSizeOf == c1 :> 2 @@ c2 :> 3 @@ c3 :> 2 @@ c4 :> 2
MCPlans  == {[calls |-> {c1, c2}, upsets |-> 1, airborne |-> FALSE],
             [calls |-> {c3, c4}, upsets |-> 1, airborne |-> FALSE],
             [calls |-> {c1, c3}, upsets |-> 0, airborne |-> TRUE]}
=============================================================================
