------------------------- MODULE MCActionInterface -------------------------
(***************************************************************************)
(* One node with three threads, two calls of its action, one of another.   *)
(* The threads are alike, and so are the two calls.                        *)
(***************************************************************************)
EXTENDS ActionInterfaceHistory, TLC

CONSTANTS goto, image, c1, c2, c3, t1, t2, t3

MCInterfaces == {goto}
MCCalls   == {c1, c2, c3}
MCNameOf  == [c \in MCCalls |-> IF c = c3 THEN image ELSE goto]
MCThreads == {t1, t2, t3}
Alike     == Permutations({c1, c2}) \cup Permutations(MCThreads)
=============================================================================
