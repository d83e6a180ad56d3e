--------------------------- MODULE PlanExecution ---------------------------
(***************************************************************************)
(* What a plan dispatcher owes the caller of dispatch_plan, free of how it *)
(* does it: one job at a time; an action starts once, only after the       *)
(* actions it depends on were reported achieved, never after a failure was *)
(* reported or the job was cancelled; and a job that was not cancelled     *)
(* succeeds only when every one of its actions was achieved.               *)
(***************************************************************************)
EXTENDS EsterelPlan

CONSTANTS Plans,   \* the plans that may be dispatched
          NoJob    \* no plan is being dispatched

VARIABLES
  job,         \* the plan being dispatched, or NoJob
  status,      \* what became of each action of the job
  cancelled,   \* the job was asked to stop
  verdict      \* what the last job that ended returned

jobVars == <<job, status, cancelled, verdict>>

Waiting  == [a \in ActionIds |-> "waiting"]

JobInit ==
  /\ job = NoJob
  /\ status = Waiting
  /\ cancelled = FALSE
  /\ verdict = "none"

Begin(p) ==
  /\ job = NoJob
  /\ job' = p
  /\ UNCHANGED <<status, cancelled, verdict>>

Start(a) ==
  /\ job # NoJob
  /\ ~cancelled
  /\ a \in Ids(job)
  /\ status[a] = "waiting"
  /\ \A b \in Predecessors(job, a) : status[b] = "achieved"
  /\ \A b \in Ids(job) : status[b] # "failed"
  /\ status' = [status EXCEPT ![a] = "running"]
  /\ UNCHANGED <<job, cancelled, verdict>>

Report(a, s) ==
  /\ status[a] = "running"
  /\ s \in {"achieved", "failed"}
  /\ status' = [status EXCEPT ![a] = s]
  /\ UNCHANGED <<job, cancelled, verdict>>

Cancel ==
  /\ job # NoJob
  /\ cancelled' = TRUE
  /\ UNCHANGED <<job, status, verdict>>

End(v) ==
  /\ job # NoJob
  /\ v = "success" => cancelled \/ \A a \in Ids(job) : status[a] = "achieved"
  /\ job' = NoJob
  /\ status' = Waiting
  /\ cancelled' = FALSE
  /\ verdict' = v

JobNext ==
  \/ \E p \in Plans : Begin(p)
  \/ \E a \in ActionIds : Start(a)
  \/ \E a \in ActionIds, s \in {"achieved", "failed"} : Report(a, s)
  \/ Cancel
  \/ \E v \in {"success", "failure"} : End(v)

JobSpec == JobInit /\ [][JobNext]_jobVars
=============================================================================
