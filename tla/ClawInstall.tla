------------------------------- MODULE ClawInstall -------------------------------
(***************************************************************************)
(* Installing and uninstalling claw types: the claw store and its file,    *)
(* the install and uninstall rows of the jobs table, the request handlers  *)
(* of claw_store_service, the install worker, and the three start-up       *)
(* recoveries that run after a crash.                                      *)
(*                                                                         *)
(* The store and the jobs table are two stores without a common            *)
(* transaction; a step is one call on either of them.  Requests may arrive *)
(* from the moment the household router is up, which is before any         *)
(* recovery has run.  What an install does (download, verify, build) is    *)
(* abstracted to whether it leaves consistent artifacts on disk.           *)
(***************************************************************************)
EXTENDS Naturals, FiniteSets

CONSTANTS
    Claw,            \* claw types
    Supported,       \* those of tier Supported, which have pre-built goldens
    Job,             \* bound: ids of the jobs created in a behaviour
    Caller,          \* request handlers
    NoJob,           \* no job id
    MaxFileFaults,   \* bound: failing writes of the claw store's file
    MaxTableFaults,  \* bound: failing calls on the jobs table
    MaxCrashes       \* bound: crashes of the backend

ASSUME ClawAssumption == NoJob \notin Job /\ IsFiniteSet(Job) /\ Supported \subseteq Claw
ASSUME LimitAssumption ==
    MaxFileFaults \in Nat /\ MaxTableFaults \in Nat /\ MaxCrashes \in Nat

VARIABLES
    store,      \* ClawStore.state, the map in memory
    file,       \* the map in the state file
    artifacts,  \* claw types with a consistent golden on disk
    jobs,       \* the install and uninstall rows of the jobs table
    caller,     \* install_claw and uninstall_claw requests under way
    worker,     \* the install worker
    seeded,     \* seed_from_assets has run
    swept,      \* the jobs worker's fail_running_jobs has run
    inst,       \* claw types with an undeleted instance row
    creating,   \* creates that have passed the availability gate
    left,       \* what is left of the bounds
    behind,     \* history: a start-up write of the file has failed
    stale       \* history: jobs created by an earlier process

vars == <<store, file, artifacts, jobs, caller, worker, seeded, swept, inst,
          creating, left, behind, stale>>
storeVars == <<store, file, behind>>
instVars == <<inst, creating>>
bootVars == <<seeded, swept>>

-----------------------------------------------------------------------------
(* Types.                                                                  *)

Status == {"NotInstalled", "Installing", "Ready", "Failed", "Uninstalling"}
\* A missing entry of the map is NotInstalled.
Entry == [status : Status, job : Job \cup {NoJob}]
Plain(status) == [status |-> status, job |-> NoJob]

\* created is the second of created_at, by rank.
JobRow == [status : {"none", "pending", "running", "completed", "failed", "deleted"},
           type : {"install", "uninstall"}, claw : Claw, created : Nat]

CallerPC == {"idle", "count", "enqueue", "mark", "rollback"}
Request == [pc : CallerPC, type : {"install", "uninstall"}, claw : Claw,
            job : Job \cup {NoJob}]

WorkerPC == {"start", "reset", "idle", "message", "work", "mark", "markJob"}
InstallWorker == [pc : WorkerPC, job : Job \cup {NoJob}, seen : {"none", "running", "failed"},
                  ok : BOOLEAN]
StartWorker == [pc |-> "start", job |-> NoJob, seen |-> "none", ok |-> FALSE]

FileFault == left.file > 0 /\ left' = [left EXCEPT !.file = @ - 1]
TableFault == left.table > 0 /\ left' = [left EXCEPT !.table = @ - 1]
NoFault == UNCHANGED left

-----------------------------------------------------------------------------
(* The claw store.                                                         *)

\* set_state and mark_not_installed: the whole next map is written, then it
\* becomes the live map ...
set_state(c, entry) ==
    /\ NoFault
    /\ store' = [store EXCEPT ![c] = entry]
    /\ file' = store'
    /\ behind' = FALSE

\* Mutant: the live map is changed before the write that fails.
set_state_error_mutant(c, entry) ==
    /\ FileFault
    /\ store' = [store EXCEPT ![c] = entry]
    /\ UNCHANGED <<file, behind>>
\* ... and when the write fails nothing has changed.
set_state_error(c, entry) ==
    /\ FileFault
    /\ UNCHANGED storeVars

\* seed_from_assets and reset_stale_installing change the live map first, and
\* only log a failing write.
CommitThenPersist(next) ==
    /\ store' = next
    /\ IF next = store THEN NoFault /\ UNCHANGED <<file, behind>>
       ELSE \/ NoFault /\ file' = next /\ behind' = FALSE
            \/ FileFault /\ behind' = TRUE /\ UNCHANGED file

-----------------------------------------------------------------------------
(* The jobs table.                                                         *)

Pending == {j \in Job : jobs[j].status = "pending"}
Unfinished(c) == {j \in Job : jobs[j].claw = c /\ jobs[j].status \in {"pending", "running"}}

\* created_at has a resolution of one second: a job is created in the second of
\* the latest one or after it.
Latest == {k \in 0 .. Cardinality(Job) :
              /\ \A j \in Job : jobs[j].status # "none" => jobs[j].created <= k
              /\ k = 0 \/ \E j \in Job : jobs[j].status # "none" /\ jobs[j].created = k}
create_job(j, type, c) ==
    \E k \in Latest, d \in {0, 1} :
        jobs' = [jobs EXCEPT ![j] = [status |-> "pending", type |-> type, claw |-> c,
                                     created |-> k + d]]

\* claim_next_pending_by_types: an oldest pending job; ties in any order.
Claimable(j) == /\ jobs[j].status = "pending"
                /\ \A k \in Pending : jobs[j].created <= jobs[k].created

\* A full overwrite by id; no row is touched when it is gone.
update_job(j, status) ==
    IF jobs[j].status = "deleted" THEN jobs ELSE [jobs EXCEPT ![j].status = status]

FailAll(statuses) ==
    [j \in Job |-> IF jobs[j].status \in statuses
                   THEN [jobs[j] EXCEPT !.status = "failed"] ELSE jobs[j]]

-----------------------------------------------------------------------------
(* install_claw and uninstall_claw.                                        *)

CallerFrame == UNCHANGED <<artifacts, worker, bootVars, instVars, stale>>

Answer(h) == caller' = [caller EXCEPT ![h].pc = "idle", ![h].job = NoJob]

\* Ready and Installing claw types are answered at once.
InstallRequest(h, c) ==
    /\ caller[h].pc = "idle"
    /\ store[c].status \in {"NotInstalled", "Failed", "Uninstalling"}
    /\ caller' = [caller EXCEPT ![h] = [pc |-> "enqueue", type |-> "install",
                                        claw |-> c, job |-> NoJob]]
    /\ UNCHANGED <<storeVars, jobs, left>>
    /\ CallerFrame

UninstallRequest(h, c) ==
    /\ caller[h].pc = "idle"
    /\ store[c].status = "Ready"
    /\ caller' = [caller EXCEPT ![h] = [pc |-> "count", type |-> "uninstall",
                                        claw |-> c, job |-> NoJob]]
    /\ UNCHANGED <<storeVars, jobs, left>>
    /\ CallerFrame

\* count_by_claw_type: instances that still exist refuse the uninstall.
UninstallCount(h) ==
    /\ caller[h].pc = "count"
    /\ IF caller[h].claw \in inst THEN Answer(h)
       ELSE caller' = [caller EXCEPT ![h].pc = "enqueue"]
    /\ UNCHANGED <<storeVars, jobs, left>>
    /\ CallerFrame

\* The job is created before the claw store is told.
Enqueue(h) ==
    /\ caller[h].pc = "enqueue"
    /\ \/ /\ NoFault
          /\ \E j \in Job :
                /\ jobs[j].status = "none"
                /\ create_job(j, caller[h].type, caller[h].claw)
                /\ caller' = [caller EXCEPT ![h].pc = "mark", ![h].job = j]
       \/ /\ TableFault
          /\ Answer(h)
          /\ UNCHANGED jobs
    /\ UNCHANGED storeVars
    /\ CallerFrame

\* mark_installing or mark_uninstalling; a failure goes to the rollback.
Mark(h) ==
    LET entry == IF caller[h].type = "install"
                 THEN [status |-> "Installing", job |-> caller[h].job]
                 ELSE Plain("Uninstalling")
    IN /\ caller[h].pc = "mark"
       /\ \/ set_state(caller[h].claw, entry) /\ Answer(h)
          \/ /\ set_state_error(caller[h].claw, entry)
             /\ caller' = [caller EXCEPT ![h].pc = "rollback"]
       /\ UNCHANGED jobs
       /\ CallerFrame

\* delete_by_id, best effort, whatever has become of the job.
Rollback(h) ==
    /\ caller[h].pc = "rollback"
    /\ \/ NoFault /\ jobs' = update_job(caller[h].job, "deleted")
       \/ TableFault /\ UNCHANGED jobs
    /\ Answer(h)
    /\ UNCHANGED storeVars
    /\ CallerFrame

CallerStep(h) == UninstallCount(h) \/ Enqueue(h) \/ Mark(h) \/ Rollback(h)

-----------------------------------------------------------------------------
(* The install worker.                                                     *)

WorkerFrame == UNCHANGED <<caller, bootVars, instVars, stale>>

\* reset_stale_installing: the entry keeps its job_id.
ResetClaws ==
    /\ seeded
    /\ worker.pc = "start"
    /\ CommitThenPersist([c \in Claw |->
          IF store[c].status \in {"Installing", "Uninstalling"}
          THEN [store[c] EXCEPT !.status = "Failed"] ELSE store[c]])
    /\ worker' = [worker EXCEPT !.pc = "reset"]
    /\ UNCHANGED <<artifacts, jobs>>
    /\ WorkerFrame

\* Mutant: jobs that were never claimed survive the restart.
reset_stale_install_jobs_mutant == FailAll({"running"})
\* Pending and running install and uninstall jobs have failed.
reset_stale_install_jobs == FailAll({"pending", "running"})

ResetJobs ==
    /\ worker.pc = "reset"
    /\ \/ NoFault /\ jobs' = reset_stale_install_jobs
       \/ TableFault /\ UNCHANGED jobs
    /\ worker' = [worker EXCEPT !.pc = "idle"]
    /\ UNCHANGED <<storeVars, artifacts>>
    /\ WorkerFrame

\* Mutant: the claimed job is not remembered.
ClaimJob_mutant(j) ==
    /\ worker.pc = "idle"
    /\ Claimable(j)
    /\ jobs' = [jobs EXCEPT ![j].status = "running"]
    /\ worker' = [worker EXCEPT !.pc = "message", !.seen = "none"]
    /\ UNCHANGED <<storeVars, artifacts, left>>
    /\ WorkerFrame
\* claim_next_pending_by_types, one statement: the job is Running.
ClaimJob(j) ==
    /\ worker.pc = "idle"
    /\ Claimable(j)
    /\ jobs' = [jobs EXCEPT ![j].status = "running"]
    /\ worker' = [worker EXCEPT !.pc = "message", !.job = j, !.seen = "none"]
    /\ UNCHANGED <<storeVars, artifacts, left>>
    /\ WorkerFrame

\* run_install_claw refuses an unknown or uninstallable claw type, and one
\* without an install path, before it does anything else.
RefuseInstall ==
    /\ worker.pc = "message" /\ worker.seen = "none"
    /\ jobs[worker.job].type = "install"
    /\ worker' = [worker EXCEPT !.pc = "mark", !.ok = FALSE]
    /\ UNCHANGED <<storeVars, artifacts, jobs, left>>
    /\ WorkerFrame

\* update_job_message reads the row and writes all of it back.
ReadMessage ==
    /\ worker.pc = "message" /\ worker.seen = "none"
    /\ worker' = IF jobs[worker.job].status = "deleted" THEN [worker EXCEPT !.pc = "work"]
                 ELSE [worker EXCEPT !.seen = jobs[worker.job].status]
    /\ UNCHANGED <<storeVars, artifacts, jobs, left>>
    /\ WorkerFrame

WriteMessage ==
    /\ worker.pc = "message" /\ worker.seen # "none"
    /\ \/ NoFault /\ jobs' = update_job(worker.job, worker.seen)
       \/ TableFault /\ UNCHANGED jobs
    /\ worker' = [worker EXCEPT !.pc = "work", !.seen = "none"]
    /\ UNCHANGED <<storeVars, artifacts>>
    /\ WorkerFrame

\* The work itself: an install succeeds or fails, an uninstall removes the
\* artifacts as far as it can.
Work ==
    LET c == jobs[worker.job].claw IN
    /\ worker.pc = "work"
    /\ \E ok \in BOOLEAN :
          /\ worker' = [worker EXCEPT !.pc = "mark", !.ok = ok]
          /\ artifacts' = IF ~ok THEN artifacts
                          ELSE IF jobs[worker.job].type = "install"
                               THEN artifacts \cup {c} ELSE artifacts \ {c}
    /\ UNCHANGED <<storeVars, jobs, left>>
    /\ WorkerFrame

\* mark_ready, mark_failed or mark_not_installed; an error is only logged.
MarkClaw ==
    LET c == jobs[worker.job].claw
        entry == Plain(IF jobs[worker.job].type = "uninstall" THEN "NotInstalled"
                       ELSE IF worker.ok THEN "Ready" ELSE "Failed")
    IN
    /\ worker.pc = "mark"
    /\ set_state(c, entry) \/ set_state_error(c, entry)
    /\ worker' = [worker EXCEPT !.pc = "markJob"]
    /\ UNCHANGED <<artifacts, jobs>>
    /\ WorkerFrame

\* Mutant: a failed install keeps its job running.
MarkJob_mutant ==
    /\ worker.pc = "markJob"
    /\ \/ NoFault /\ jobs' = IF worker.ok THEN update_job(worker.job, "completed") ELSE jobs
       \/ TableFault /\ UNCHANGED jobs
    /\ worker' = [StartWorker EXCEPT !.pc = "idle"]
    /\ UNCHANGED <<storeVars, artifacts>>
    /\ WorkerFrame
\* mark_job_completed or mark_job_failed; an uninstall always completes.
MarkJob ==
    /\ worker.pc = "markJob"
    /\ \/ NoFault /\ jobs' = update_job(worker.job,
                        IF worker.ok \/ jobs[worker.job].type = "uninstall"
                        THEN "completed" ELSE "failed")
       \/ TableFault /\ UNCHANGED jobs
    /\ worker' = [StartWorker EXCEPT !.pc = "idle"]
    /\ UNCHANGED <<storeVars, artifacts>>
    /\ WorkerFrame

WorkerStep ==
    \/ ResetClaws \/ ResetJobs \/ (\E j \in Job : ClaimJob(j)) \/ RefuseInstall
    \/ ReadMessage \/ WriteMessage \/ Work \/ MarkClaw \/ MarkJob

-----------------------------------------------------------------------------
(* Start-up, the jobs worker's recovery, instances and crashes.            *)

\* seed_from_assets: a supported claw type that is not installed, or has failed,
\* and has its artifacts is Ready.
SeedFromAssets ==
    /\ ~seeded
    /\ seeded' = TRUE
    /\ CommitThenPersist([c \in Claw |->
          IF store[c].status \in {"NotInstalled", "Failed"} /\ c \in artifacts \cap Supported
          THEN Plain("Ready") ELSE store[c]])
    /\ UNCHANGED <<artifacts, jobs, caller, worker, swept, instVars, stale>>

\* fail_running_jobs of the jobs worker does not look at the type of a job.
FailRunningJobs ==
    /\ seeded /\ ~swept
    /\ swept' = TRUE
    /\ \/ NoFault /\ jobs' = FailAll({"running"})
       \/ TableFault /\ UNCHANGED jobs
    /\ UNCHANGED <<storeVars, artifacts, caller, worker, seeded, instVars, stale>>

BootStep == SeedFromAssets \/ FailRunningJobs

InstFrame == UNCHANGED <<storeVars, artifacts, jobs, caller, worker, bootVars, left, stale>>

\* create_instance_core: the gate reads the claw store, the insert comes later.
CreateGate(c) ==
    /\ store[c].status = "Ready"
    /\ creating' = creating \cup {c}
    /\ UNCHANGED inst
    /\ InstFrame

CreateInsert(c) ==
    /\ c \in creating
    /\ creating' = creating \ {c}
    /\ inst' = inst \cup {c}
    /\ InstFrame

DeleteInstance(c) ==
    /\ c \in inst
    /\ inst' = inst \ {c}
    /\ UNCHANGED creating
    /\ InstFrame

InstStep(c) == CreateGate(c) \/ CreateInsert(c) \/ DeleteInstance(c)

IdleCaller(h) == [caller[h] EXCEPT !.pc = "idle", !.job = NoJob]

\* The process dies and the next one reads the file.
Crash ==
    /\ left.crashes > 0
    /\ left' = [left EXCEPT !.crashes = @ - 1]
    /\ store' = file
    /\ behind' = FALSE
    /\ caller' = [h \in Caller |-> IdleCaller(h)]
    /\ worker' = StartWorker
    /\ seeded' = FALSE /\ swept' = FALSE
    /\ creating' = {}
    /\ stale' = {j \in Job : jobs[j].status # "none"}
    /\ UNCHANGED <<file, artifacts, jobs, inst>>

-----------------------------------------------------------------------------

Init ==
    \E c0 \in Claw :
    /\ store = [c \in Claw |-> Plain("NotInstalled")]
    /\ file = store
    /\ artifacts \in SUBSET Claw
    /\ jobs = [j \in Job |-> [status |-> "none", type |-> "install", claw |-> c0,
                              created |-> 0]]
    /\ caller = [h \in Caller |-> [pc |-> "idle", type |-> "install", claw |-> c0,
                                   job |-> NoJob]]
    /\ worker = StartWorker
    /\ seeded = FALSE /\ swept = FALSE
    /\ inst = {} /\ creating = {}
    /\ left = [file |-> MaxFileFaults, table |-> MaxTableFaults, crashes |-> MaxCrashes]
    /\ behind = FALSE
    /\ stale = {}

Next ==
    \/ \E h \in Caller :
          CallerStep(h) \/ \E c \in Claw : InstallRequest(h, c) \/ UninstallRequest(h, c)
    \/ WorkerStep
    \/ BootStep
    \/ \E c \in Claw : InstStep(c)
    \/ Crash

Spec == Init /\ [][Next]_vars

-----------------------------------------------------------------------------
(* Properties.                                                             *)

\* Every variable has its type, and a busy task knows its job.
TypeOK ==
    /\ store \in [Claw -> Entry] /\ file \in [Claw -> Entry]
    /\ artifacts \subseteq Claw
    /\ jobs \in [Job -> JobRow]
    /\ caller \in [Caller -> Request]
    /\ \A h \in Caller : caller[h].pc \in {"mark", "rollback"} => caller[h].job \in Job
    /\ worker \in InstallWorker
    /\ worker.pc \in {"message", "work", "mark", "markJob"} => worker.job \in Job
    /\ seeded \in BOOLEAN /\ swept \in BOOLEAN /\ behind \in BOOLEAN
    /\ inst \subseteq Claw /\ creating \subseteq Claw
    /\ left \in [file : Nat, table : Nat, crashes : Nat]
    /\ stale \subseteq Job

\* A failed mark leaves nothing behind (set_state: "On a persist failure the caller
\* sees Err AND get_status still reports the prior state"): what the store says is
\* what a restart would read, unless a start-up write failed and no later write has
\* repaired it.
StoreMatchesFile == ~behind => store = file

\* A claw type that is Installing names a job that exists: the rollback of one
\* request never removes the job that another request or the store refers to.
InstallingNamesJob ==
    \A c \in Claw : store[c].status = "Installing" =>
        store[c].job \in Job /\ jobs[store[c].job].status # "deleted"

\* No call on the jobs table has failed so far.  The worker only logs such a
\* failure, and leaves the job as it is until the next start.
TableSound == left.table = MaxTableFaults

\* A running job is the one the worker is at, also when the recovery of the other
\* worker or a rollback interferes; one left by a crash is failed by the recovery.
RunningJobHeld ==
    TableSound => \A j \in Job : jobs[j].status = "running" =>
        \/ worker.job = j
        \/ worker.pc \in {"start", "reset"} /\ j \in stale

\* A job of an earlier process is never run (reset_stale_install_jobs: the
\* scheduler would "try to run it against a store state that no longer makes
\* sense").
NoStaleJobRun == TableSound => worker.job \notin stale

\* What set_state and the handlers say of the two stores: a rollback "leaves both
\* stores consistent, with no transitional drift until the next startup reset".
\* A claw type that is Installing or Uninstalling has an unfinished job, unless
\* its request is still under way or the reset is yet to come.
NoTransitionalDrift ==
    \A c \in Claw : store[c].status \in {"Installing", "Uninstalling"} =>
        \/ Unfinished(c) # {}
        \/ worker.pc = "start"
        \/ worker.pc \in {"mark", "markJob"}
        \/ \E h \in Caller : caller[h].pc # "idle" /\ caller[h].claw = c

=============================================================================
