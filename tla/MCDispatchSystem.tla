-------------------------- MODULE MCDispatchSystem --------------------------
(***************************************************************************)
(* The dispatch system: a chain of two actions on two nodes dispatched     *)
(* once, and one action dispatched twice.  As the launch files have it,    *)
(* timeout_actions is off.                                                 *)
(***************************************************************************)
EXTENDS DispatchSystem, MCEsterelPlanDispatcher, TLC

CONSTANTS goto, image, t1, t2

OneThread   == {t1}
TwoThreads  == {t1, t2}
Alike       == Permutations(TwoThreads)

ChainPlan   == {EmptyPlan, Chain}
TwoNodes    == {goto, image}
ChainNames  == [p \in ChainPlan |-> [a \in MCActionIds |-> IF a = 0 THEN goto ELSE image]]

SinglePlan  == {EmptyPlan, Single}
OneNode     == {goto}
SingleNames == [p \in SinglePlan |-> [a \in MCActionIds |-> goto]]

(* What SuccessGenuine assumes of the plans, and what it tells apart.      *)
ASSUME NodesInOrder ==
  /\ InOrderAtEachNode
  /\ EndsBefore(Chain, 0, 1)
  /\ ~EndsBefore(Overlap, 0, 1) /\ ~EndsBefore(Overlap, 1, 0)

MCInit    == SystemInit /\ ~timeout_actions
ChainSpec == MCInit /\ [][SystemNext]_systemVars

(* As the scripts do it: the plan is published before its dispatch is      *)
(* requested, twice, and a dispatch is cancelled only while it runs.       *)
Scripted ==
  /\ plan' # plan => pc = "idle" /\ plan = EmptyPlan
  /\ plan_cancelled' /\ ~plan_cancelled => dispatching

TwiceSpec == MCInit /\ [][SystemNext /\ Scripted]_systemVars
=============================================================================
