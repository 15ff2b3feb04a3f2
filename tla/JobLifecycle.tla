------------------------------ MODULE JobLifecycle ------------------------------
(***************************************************************************)
(* What the jobs table and its worker promise about a create_instance job: *)
(* it is queued once, one job is worked on at a time, its flow is started  *)
(* at most once, a job whose flow has started is never put back, and a     *)
(* completed or failed job stays so.  A job is completed only after its    *)
(* flow ran.  A job that the worker abandons, because the process dies or  *)
(* a write to the table fails, stays running, is never taken up again, and *)
(* is failed by the recovery of a later start.                             *)
(***************************************************************************)
CONSTANT Job

VARIABLES
    status,   \* the status column of each job, "none" before it is queued
    active,   \* the job that the worker is working on, if any
    started   \* jobs whose flow has been started

jobVars == <<status, active, started>>

JobInit == status = [j \in Job |-> "none"] /\ active = {} /\ started = {}

Submit(j) ==
    /\ status[j] = "none"
    /\ status' = [status EXCEPT ![j] = "pending"]
    /\ UNCHANGED <<active, started>>

Claim(j) ==
    /\ active = {}
    /\ status[j] = "pending"
    /\ status' = [status EXCEPT ![j] = "running"]
    /\ active' = {j}
    /\ UNCHANGED started

Defer(j) ==
    /\ active = {j}
    /\ status[j] = "running" /\ j \notin started
    /\ status' = [status EXCEPT ![j] = "pending"]
    /\ active' = {}
    /\ UNCHANGED started

Start(j) ==
    /\ active = {j}
    /\ status[j] = "running" /\ j \notin started
    /\ started' = started \cup {j}
    /\ UNCHANGED <<status, active>>

Finish(j) ==
    /\ active = {j}
    /\ status[j] = "running" /\ j \in started
    /\ \E s \in {"completed", "failed"} : status' = [status EXCEPT ![j] = s]
    /\ active' = {}
    /\ UNCHANGED started

\* A crash, or a failing put-back or final write.
Abandon(j) ==
    /\ active = {j}
    /\ active' = {}
    /\ UNCHANGED <<status, started>>

\* At start-up, before any work: whatever was running has failed.
Recover ==
    /\ active = {}
    /\ status' = [j \in Job |-> IF status[j] = "running" THEN "failed" ELSE status[j]]
    /\ UNCHANGED <<active, started>>

JobNext ==
    \/ \E j \in Job :
          Submit(j) \/ Claim(j) \/ Defer(j) \/ Start(j) \/ Finish(j) \/ Abandon(j)
    \/ Recover

JobSpec == JobInit /\ [][JobNext]_jobVars

=============================================================================
