--------------------------- MODULE InstanceJobs_proofs ---------------------------
(***************************************************************************)
(* The pipeline, the worker and the recovery of InstanceLifecycle          *)
(* implement JobLifecycle, also when calls on the tables fail; and, from   *)
(* the same invariant, a lease whose row a rollback has erased is held by  *)
(* a restart, or its release has failed.                                   *)
(***************************************************************************)
EXTENDS InstanceLifecycle_proofs

\* The worker is at a job, before and after its flow was started.
Holding == {"claimed", "ready"}
Running == {"create", "activate", "finalize", "cleanup", "markJob"}

\* The job that the worker is at is running.
HeldInv == worker.pc \in Holding \cup Running => job[worker.inst] = "running"

\* A flow was started if and only if the job is past its Start.
StartedInv ==
    /\ worker.pc \in Holding => worker.inst \notin ran
    /\ worker.pc \in Running => worker.inst \in ran
    /\ \A i \in Inst : job[i] \in {"none", "pending"} => i \notin ran

\* A job belongs to a row, and a create that has not queued its job has none.
RowInv ==
    /\ \A i \in Inst : row[i] = "absent" => job[i] = "none"
    /\ \A i \in Inst : create[i].pc \in {"inserted", "rollback", "restore", "erase"} =>
          job[i] = "none" /\ row[i] # "absent"

JobsInv == TypeOK /\ HeldInv /\ StartedInv /\ RowInv

-----------------------------------------------------------------------------
(* What the steps do to rows.                                              *)

\* No row is erased by a step except by a rollback.
RowsStay == \A j \in Inst : row'[j] = "absent" => row[j] = "absent"

\* A status write touches no absent row and erases none.
LEMMA StatusKeepsRows ==
  ASSUME TypeOK, NEW i \in Inst, NEW status, status # "absent", row' = update_status(i, status)
  PROVE  RowsStay
<1>1. row \in [Inst -> RowStatus]
  BY DEF TypeOK
<1> QED
  BY <1>1 DEF update_status, RowsStay

\* Steps that leave jobs, worker and pipeline alone.
LEMMA QuietJobs ==
  ASSUME JobsInv, UNCHANGED <<job, ran, worker, create>>, RowsStay
  PROVE  HeldInv' /\ StartedInv' /\ RowInv'
<1>1. HeldInv' /\ StartedInv'
  BY DEF JobsInv, HeldInv, StartedInv
<1>2. RowInv'
  BY DEF JobsInv, RowInv, RowsStay
<1> QED
  BY <1>1, <1>2

\* Requests, the reaper, the reconciler, uninstalls, maintenance and start-up are
\* such steps.
LEMMA OthersAreQuiet ==
  ASSUME TypeOK,
         \/ \E o \in Op : OpStep(o) \/ \E k \in Requests, i \in Inst : OpRequest(o, k, i)
         \/ ReaperStep \/ ReconStep \/ EnvStep \/ BootStep \/ AutoStep
  PROVE  UNCHANGED <<job, ran, worker, create>> /\ RowsStay
<1>1. ASSUME NEW o \in Op,
             OpStep(o) \/ \E k \in Requests, i \in Inst : OpRequest(o, k, i)
      PROVE  UNCHANGED <<job, ran, worker, create>> /\ RowsStay
  <2> DEFINE i == op[o].inst
  <2>1. UNCHANGED <<job, ran, worker, create>>
    BY <1>1 DEF OpStep, OpRequest, RestartCheck, RestartAcquire, OpVm, OpCommit, OpPost,
       RestartUndo, OpFrame
  <2>2. ASSUME row' = row PROVE RowsStay
    BY <2>2 DEF RowsStay
  <2>3. ASSUME OpCommit(o) \/ OpPost(o) PROVE RowsStay
    <3>1. i \in Inst
      BY <2>3 DEF OpCommit, OpPost, TypeOK
    <3>2. row' = row \/ \E status \in {"stopped", "active"} : row' = update_status(i, status)
      BY <2>3 DEF OpCommit, OpPost, RowOutcome, soft_delete_status
    <3> QED
      BY <2>2, <3>1, <3>2, StatusKeepsRows
  <2>4. RowsStay
    BY <1>1, <2>2, <2>3 DEF OpStep, OpRequest, RestartCheck, RestartAcquire, OpVm,
       RestartUndo, dbVars
  <2> QED
    BY <2>1, <2>4
<1>2. ASSUME ReaperStep PROVE UNCHANGED <<job, ran, worker, create>> /\ RowsStay
  <2>1. UNCHANGED <<job, ran, worker, create>>
    BY <1>2 DEF ReaperStep, ReapScan, ReapRead, ReapMark, ReapRelease, ReaperFrame
  <2>2. ASSUME row' = row PROVE RowsStay
    BY <2>2 DEF RowsStay
  <2>3. ASSUME ReapMark PROVE RowsStay
    <3>1. reaper.cur \in Inst
      BY <2>3 DEF ReapMark, TypeOK
    <3>2. row' \in {row, update_status(reaper.cur, "failed")}
      BY <2>3 DEF ReapMark
    <3> QED
      BY <2>2, <3>1, <3>2, StatusKeepsRows
  <2>4. RowsStay
    BY <1>2, <2>2, <2>3 DEF ReaperStep, ReapScan, ReapRead, ReapRelease
  <2> QED
    BY <2>1, <2>4
<1>3. ASSUME ReconStep \/ EnvStep PROVE UNCHANGED <<job, ran, worker, create>> /\ RowsStay
  <2>1. UNCHANGED <<job, ran, worker, create, row>>
    BY <1>3 DEF ReconStep, ReconWake, ReconLock, ReconDecide, ReconLease, ReconRefill, ReconDone,
       ReconFrame, ReconTouches, EnvStep, Expire, UninstallCheck, UninstallStep,
       UninstallMark, UninstallRelease, MaintOn, MaintOff, EnvFrame
  <2> QED
    BY <2>1 DEF RowsStay
<1>4. ASSUME BootStep \/ AutoStep PROVE UNCHANGED <<job, ran, worker, create>> /\ RowsStay
  <2>1. UNCHANGED <<job, ran, worker, create>>
    BY <1>4 DEF BootStep, AutoStep, BootSnapshot, BootReconcile, AutoVm, AutoLease,
       BootTouches
  <2>2. ASSUME row' = row PROVE RowsStay
    BY <2>2 DEF RowsStay
  <2>3. ASSUME BootReconcile PROVE RowsStay
    <3>1. PICK stopped : row' = [i \in Inst |-> IF i \in stopped THEN "stopped" ELSE row[i]]
      BY <2>3 DEF BootReconcile
    <3> QED
      BY <3>1 DEF RowsStay
  <2>4. ASSUME NEW i \in Inst, row' = update_status(i, "active") PROVE RowsStay
    BY <2>4, StatusKeepsRows
  <2>5. RowsStay
    BY <1>4, <2>2, <2>3, <2>4 DEF BootStep, AutoStep, BootSnapshot, AutoVm, AutoLease
  <2> QED
    BY <2>1, <2>5
<1> QED
  BY <1>1, <1>2, <1>3, <1>4

-----------------------------------------------------------------------------
(* The steps that jobs are about.                                          *)

\* The create pipeline keeps the invariant, and queues each job once.
LEMMA CreateJobs ==
  ASSUME JobsInv, NEW i \in Inst, CreateAdmit(i) \/ CreateStep(i)
  PROVE  /\ HeldInv' /\ StartedInv' /\ RowInv'
         /\ Jobs!Submit(i) \/ UNCHANGED <<job, AtWork, ran>>
<1>1. /\ TypeOK /\ HeldInv /\ StartedInv /\ RowInv
      /\ row \in [Inst -> RowStatus] /\ job \in [Inst -> JobStatus]
      /\ create \in [Inst -> Creating]
  BY DEF JobsInv, TypeOK
<1>2. UNCHANGED <<worker, ran>>
  BY DEF CreateAdmit, CreateStep, CreateCheck, CreateMatch, CreateInsert,
     CreateEnqueue, RollbackRelease, RollbackRestore, RollbackErase, CreateQueuing,
     CreateFrame, CreateTouches
<1>3. \A j \in Inst : j # i => create'[j] = create[j] /\ row'[j] = row[j]
  BY <1>1 DEF CreateAdmit, CreateStep, CreateCheck, CreateMatch, CreateInsert,
     CreateEnqueue, RollbackRelease, RollbackRestore, RollbackErase, CreateQueuing,
     CreateReturn, dbVars, update_status
<1> DEFINE Late == {"inserted", "rollback", "restore", "erase"}
<1>4. ASSUME job' = job,
             row'[i] = "absent" => job[i] = "none",
             create'[i].pc \in Late => job[i] = "none" /\ row'[i] # "absent"
      PROVE  /\ HeldInv' /\ StartedInv' /\ RowInv'
             /\ Jobs!Submit(i) \/ UNCHANGED <<job, AtWork, ran>>
  <2>1. HeldInv' /\ StartedInv'
    BY <1>1, <1>2, <1>4 DEF HeldInv, StartedInv
  <2>2. RowInv'
    BY <1>1, <1>3, <1>4 DEF RowInv
  <2> QED
    BY <1>2, <1>4, <2>1, <2>2 DEF AtWork
<1>5. CASE CreateAdmit(i) \/ CreateCheck(i) \/ CreateMatch(i)
  <2>1. UNCHANGED <<job, row>>
    BY <1>5 DEF CreateAdmit, CreateCheck, CreateMatch, dbVars
  <2>2. create'[i].pc \notin Late
    BY <1>1, <1>5 DEF CreateAdmit, CreateCheck, CreateMatch, IdleCreate, Creating
  <2> QED
    BY <1>1, <1>4, <2>1, <2>2 DEF RowInv
<1>6. CASE CreateInsert(i)
  <2>1. job' = job
    BY <1>6 DEF CreateInsert
  <2>2. \/ row' = row /\ create'[i].pc = "idle"
        \/ row[i] = "absent" /\ row'[i] = "provisioning"
    BY <1>1, <1>6 DEF CreateInsert, CreateReturn, IdleCreate, dbVars
  <2> QED
    BY <1>1, <1>4, <2>1, <2>2 DEF RowInv
<1>7. CASE CreateEnqueue(i)
  <2>1. row' = row /\ create[i].pc = "inserted" /\ job[i] = "none" /\ row[i] # "absent"
    BY <1>1, <1>7 DEF CreateEnqueue, dbVars, RowInv
  <2>2. CASE job' = job
    BY <1>1, <1>4, <2>1, <2>2 DEF RowInv
  <2>3. CASE job' = [job EXCEPT ![i] = "pending"] /\ create' = [create EXCEPT ![i].pc = "queued"]
    <3>1. create'[i].pc = "queued"
      BY <1>1, <2>3 DEF Creating
    <3>2. job'[i] = "pending" /\ \A j \in Inst : j # i => job'[j] = job[j]
      BY <1>1, <2>3
    <3>3. i \notin ran /\ (worker.pc \in Holding \cup Running => worker.inst # i)
      BY <1>1, <2>1 DEF StartedInv, HeldInv
    <3>4. worker.pc \in Holding \cup Running => worker.inst \in Inst
      BY <1>1 DEF TypeOK, Holding, Running
    <3>5. HeldInv'
      BY <1>1, <1>2, <3>2, <3>3, <3>4 DEF HeldInv
    <3>6. StartedInv'
      BY <1>1, <1>2, <3>2, <3>3 DEF StartedInv
    <3>7. RowInv'
      BY <1>1, <1>3, <2>1, <3>1, <3>2 DEF RowInv
    <3>8. Jobs!Submit(i)
      BY <1>2, <2>1, <2>3 DEF Jobs!Submit, AtWork
    <3> QED
      BY <3>5, <3>6, <3>7, <3>8
  <2> QED
    BY <1>7, <2>2, <2>3 DEF CreateEnqueue
<1>8. CASE RollbackRelease(i) \/ RollbackRestore(i)
  <2>1. UNCHANGED <<job, row>> /\ job[i] = "none" /\ row[i] # "absent"
    BY <1>1, <1>8 DEF RollbackRelease, RollbackRestore, RowInv
  <2> QED
    BY <1>4, <2>1
<1>9. CASE RollbackErase(i)
  <2>1. job' = job /\ job[i] = "none" /\ create'[i].pc = "idle"
    BY <1>1, <1>9 DEF RollbackErase, CreateReturn, IdleCreate, RowInv
  <2> QED
    BY <1>4, <2>1
<1>10. CASE CreateQueuing(i)
  <2>1. job' = job /\ create'[i].pc = "idle"
    BY <1>1, <1>10 DEF CreateQueuing, CreateReturn, IdleCreate
  <2>2. RowsStay
    BY <1>1, <1>10, StatusKeepsRows DEF CreateQueuing, RowsStay
  <2> QED
    BY <1>1, <1>4, <2>1, <2>2 DEF RowsStay, RowInv
<1> QED
  BY <1>5, <1>6, <1>7, <1>8, <1>9, <1>10 DEF CreateStep

\* The worker keeps the invariant, and does with a job only what the table's
\* clients expect.
LEMMA WorkerJobs ==
  ASSUME JobsInv, WorkerStep
  PROVE  /\ HeldInv' /\ StartedInv' /\ RowInv'
         /\ Jobs!JobNext \/ UNCHANGED <<job, AtWork, ran>>
<1> DEFINE w == worker.inst
<1>1. /\ TypeOK /\ HeldInv /\ StartedInv /\ RowInv
      /\ job \in [Inst -> JobStatus] /\ worker \in Worker
      /\ worker.pc \notin {"start", "idle"} => w \in Inst
  BY DEF JobsInv, TypeOK
<1>2. create' = create
  BY DEF WorkerStep, WRecover, WClaim, WGate, WStart, WCreate, WCleanup, WActivate,
     WFinalize, WMarkJob, WMarkRow, WorkerFrame, WorkerTouches
<1>3. ASSUME RowsStay, \A j \in Inst : job[j] = "none" => job'[j] = "none" PROVE RowInv'
  BY <1>1, <1>2, <1>3 DEF RowsStay, RowInv
<1>4. CASE WRecover
  <2> DEFINE failed == [i \in Inst |-> IF job[i] = "running" THEN "failed" ELSE job[i]]
  <2>1. /\ row' = row /\ ran' = ran /\ worker.pc = "start" /\ worker'.pc = "idle"
        /\ job' \in {job, failed}
    BY <1>4 DEF WRecover, fail_running_jobs, IdleWorker, StartWorker, dbVars
  <2>2. HeldInv' /\ StartedInv'
    BY <1>1, <2>1 DEF HeldInv, StartedInv, Holding, Running
  <2>3. RowInv'
    BY <1>3, <2>1 DEF RowsStay
  <2>4. AtWork = {} /\ AtWork' = {}
    BY <2>1 DEF AtWork
  <2>5. job' = failed => Jobs!Recover
    BY <2>1, <2>4 DEF Jobs!Recover
  <2> QED
    BY <2>1, <2>2, <2>3, <2>4, <2>5 DEF Jobs!JobNext
<1>5. ASSUME NEW i \in Inst, WClaim(i)
      PROVE  HeldInv' /\ StartedInv' /\ RowInv' /\ Jobs!JobNext
  <2>1. /\ row' = row /\ ran' = ran /\ worker.pc = "idle" /\ job[i] = "pending"
        /\ job' = [job EXCEPT ![i] = "running"]
    BY <1>5 DEF WClaim, dbVars
  <2>2. worker'.pc = "claimed" /\ worker'.inst = i
    BY <1>1, <1>5 DEF WClaim, Worker
  <2>3. AtWork = {} /\ AtWork' = {i}
    BY <2>1, <2>2 DEF AtWork
  <2>4. HeldInv'
    BY <1>1, <2>1, <2>2, <2>3 DEF HeldInv, Holding, Running
  <2>5. StartedInv'
    BY <1>1, <2>1, <2>2 DEF StartedInv, Holding, Running
  <2>6. RowInv'
    BY <1>1, <1>3, <2>1 DEF RowsStay
  <2>7. Jobs!Claim(i)
    BY <2>1, <2>3 DEF Jobs!Claim
  <2> QED
    BY <2>4, <2>5, <2>6, <2>7 DEF Jobs!JobNext
<1>6. CASE WGate
  <2>1. row' = row /\ ran' = ran /\ worker.pc = "claimed" /\ w \in Inst /\ job[w] = "running"
        /\ w \notin ran
    BY <1>1, <1>6 DEF WGate, dbVars, HeldInv, StartedInv, Holding
  <2>2. CASE job' \in {job, [job EXCEPT ![w] = "pending"]} /\ worker' = IdleWorker
    <3>1. worker'.pc = "idle"
      BY <2>2 DEF IdleWorker, StartWorker
    <3>2. AtWork = {w} /\ AtWork' = {}
      BY <2>1, <3>1 DEF AtWork
    <3>3. HeldInv' /\ StartedInv'
      BY <1>1, <2>1, <2>2, <3>1 DEF HeldInv, StartedInv, Holding, Running
    <3>4. RowInv'
      BY <1>1, <1>3, <2>1, <2>2 DEF RowsStay
    <3>5. Jobs!Defer(w) \/ Jobs!Abandon(w)
      BY <2>1, <2>2, <3>2 DEF Jobs!Defer, Jobs!Abandon
    <3> QED
      BY <2>1, <3>3, <3>4, <3>5 DEF Jobs!JobNext
  <2>3. CASE job' = job /\ worker' = [worker EXCEPT !.pc = "ready"]
    <3>1. worker'.pc = "ready" /\ worker'.inst = w
      BY <1>1, <2>3 DEF Worker
    <3>2. HeldInv' /\ StartedInv'
      BY <1>1, <2>1, <2>3, <3>1 DEF HeldInv, StartedInv, Holding, Running
    <3>3. RowInv'
      BY <1>1, <1>3, <2>1, <2>3 DEF RowsStay
    <3>4. AtWork' = AtWork
      BY <2>1, <3>1 DEF AtWork
    <3> QED
      BY <2>1, <2>3, <3>2, <3>3, <3>4
  <2> QED
    BY <1>6, <2>2, <2>3 DEF WGate
<1>7. CASE WStart
  <2>1. /\ worker.pc = "ready" /\ w \in Inst /\ job[w] = "running" /\ w \notin ran
        /\ job' = job /\ ran' = ran \cup {w} /\ row' \in {row, update_status(w, "provisioning")}
    BY <1>1, <1>7 DEF WStart, HeldInv, StartedInv, Holding
  <2>2. worker'.pc = "create" /\ worker'.inst = w
    BY <1>1, <1>7 DEF WStart, Worker
  <2>3. HeldInv'
    BY <1>1, <2>1, <2>2 DEF HeldInv, Holding, Running
  <2>4. StartedInv'
    BY <1>1, <2>1, <2>2 DEF StartedInv, Holding, Running
  <2>5. RowInv'
    BY <1>1, <1>3, <2>1, StatusKeepsRows DEF RowsStay
  <2>6. Jobs!Start(w)
    BY <2>1, <2>2 DEF Jobs!Start, AtWork
  <2> QED
    BY <2>1, <2>3, <2>4, <2>5, <2>6 DEF Jobs!JobNext
<1>8. CASE WCreate \/ WCleanup \/ WActivate \/ WFinalize
  <2>1. /\ worker.pc \in Running /\ w \in Inst /\ UNCHANGED <<job, ran>>
    BY <1>1, <1>8 DEF WCreate, WCleanup, WActivate, WFinalize, Running
  <2>2. worker'.pc \in Running /\ worker'.inst = w
    BY <1>1, <1>8 DEF WCreate, WCleanup, WActivate, WFinalize, Worker, Running
  <2>3. HeldInv' /\ StartedInv'
    BY <1>1, <2>1, <2>2 DEF HeldInv, StartedInv, Holding, Running
  <2>4. RowsStay
    <3>1. row' = row \/ \E st \in {"failed", "provisioning", "active"} : row' = update_status(w, st)
      BY <1>8 DEF WCreate, WCleanup, WActivate, WFinalize, dbVars
    <3> QED
      BY <1>1, <2>1, <3>1, StatusKeepsRows DEF RowsStay
  <2>5. AtWork' = AtWork
    BY <2>1, <2>2 DEF AtWork, Running
  <2> QED
    BY <1>3, <2>1, <2>3, <2>4, <2>5
<1>9. CASE WMarkJob
  <2>1. /\ row' = row /\ ran' = ran /\ worker.pc = "markJob" /\ w \in Inst
        /\ job[w] = "running" /\ w \in ran
    BY <1>1, <1>9 DEF WMarkJob, dbVars, HeldInv, StartedInv, Running
  <2>2. job' = job \/ \E st \in {"completed", "failed"} : job' = [job EXCEPT ![w] = st]
    BY <1>9 DEF WMarkJob
  <2>3. worker'.pc = "markRow"
    BY <1>1, <1>9 DEF WMarkJob, Worker
  <2>4. AtWork = {w} /\ AtWork' = {}
    BY <2>1, <2>3 DEF AtWork
  <2>5. HeldInv' /\ StartedInv'
    BY <1>1, <2>1, <2>2, <2>3 DEF HeldInv, StartedInv, Holding, Running
  <2>6. RowInv'
    BY <1>1, <1>3, <2>1, <2>2 DEF RowsStay
  <2>7. Jobs!Finish(w) \/ Jobs!Abandon(w)
    BY <2>1, <2>2, <2>4 DEF Jobs!Finish, Jobs!Abandon
  <2> QED
    BY <2>1, <2>5, <2>6, <2>7 DEF Jobs!JobNext
<1>10. CASE WMarkRow
  <2>1. worker.pc = "markRow" /\ w \in Inst /\ UNCHANGED <<job, ran>>
    BY <1>1, <1>10 DEF WMarkRow
  <2>2. worker'.pc = "idle"
    BY <1>10 DEF WMarkRow, IdleWorker, StartWorker
  <2>3. HeldInv' /\ StartedInv'
    BY <1>1, <2>1, <2>2 DEF HeldInv, StartedInv, Holding, Running
  <2>4. RowsStay
    <3>1. row' = row \/ \E st \in {"active", "failed"} : row' = update_status(w, st)
      BY <1>10 DEF WMarkRow
    <3> QED
      BY <1>1, <2>1, <3>1, StatusKeepsRows DEF RowsStay
  <2>5. AtWork' = AtWork
    BY <2>1, <2>2 DEF AtWork
  <2> QED
    BY <1>3, <2>1, <2>3, <2>4, <2>5
<1> QED
  BY <1>4, <1>5, <1>6, <1>7, <1>8, <1>9, <1>10 DEF WorkerStep

\* A crash takes the worker away from its job, which stays running until the
\* next recovery.
LEMMA CrashJobs ==
  ASSUME JobsInv, Crash
  PROVE  HeldInv' /\ StartedInv' /\ RowInv' /\ (Jobs!JobNext \/ UNCHANGED <<job, AtWork, ran>>)
<1>1. worker'.pc = "start" /\ UNCHANGED <<job, ran, row>>
  BY DEF Crash, StartWorker, dbVars
<1>2. \A i \in Inst : create'[i].pc = "idle"
  BY DEF Crash, IdleCreate
<1>3. HeldInv' /\ StartedInv' /\ RowInv'
  BY <1>1, <1>2 DEF JobsInv, HeldInv, StartedInv, RowInv, Holding, Running
<1>4. AtWork' = {} /\ (AtWork = {} \/ (AtWork = {worker.inst} /\ worker.inst \in Inst))
  BY <1>1 DEF AtWork, JobsInv, TypeOK
<1>5. Jobs!JobNext \/ UNCHANGED <<job, AtWork, ran>>
  BY <1>1, <1>4 DEF Jobs!JobNext, Jobs!Abandon
<1> QED
  BY <1>3, <1>5

-----------------------------------------------------------------------------
(* The theorem.                                                            *)

\* The invariant is inductive, and under it every step is a job step or leaves
\* the jobs alone.
LEMMA JobsInductive ==
  ASSUME JobsInv, [Next]_vars
  PROVE  JobsInv' /\ [Jobs!JobNext]_<<job, AtWork, ran>>
<1>1. TypeOK'
  BY NextTypeOK DEF JobsInv
<1>2. HeldInv' /\ StartedInv' /\ RowInv' /\ (Jobs!JobNext \/ UNCHANGED <<job, AtWork, ran>>)
  <2>1. ASSUME NEW i \in Inst, CreateAdmit(i) \/ CreateStep(i)
        PROVE  HeldInv' /\ StartedInv' /\ RowInv' /\ (Jobs!JobNext \/ UNCHANGED <<job, AtWork, ran>>)
    BY <2>1, CreateJobs DEF Jobs!JobNext
  <2>2. CASE WorkerStep
    BY <2>2, WorkerJobs
  <2>3. CASE \/ \E o \in Op : OpStep(o) \/ \E k \in Requests, i \in Inst : OpRequest(o, k, i)
             \/ ReaperStep \/ ReconStep \/ EnvStep \/ BootStep \/ AutoStep
    <3>1. UNCHANGED <<job, ran, worker, create>> /\ RowsStay
      BY <2>3, OthersAreQuiet DEF JobsInv
    <3> QED
      BY <3>1, QuietJobs DEF AtWork
  <2>4. CASE Crash
    BY <2>4, CrashJobs
  <2>5. CASE UNCHANGED vars
    <3>1. UNCHANGED <<job, ran, worker, create>> /\ RowsStay
      BY <2>5 DEF vars, RowsStay
    <3> QED
      BY <3>1, QuietJobs DEF AtWork
  <2> QED
    BY <2>1, <2>2, <2>3, <2>4, <2>5 DEF Next
<1> QED
  BY <1>1, <1>2 DEF JobsInv

\* The create pipeline, the jobs worker, crashes, failing writes and the recovery
\* implement the job specification: a job is queued once, its flow starts at most
\* once, a job the worker has gone on from is not taken up again before a recovery
\* has failed it, and a finished job is never touched again.
THEOREM JobsRefinement == Spec => JobsImplemented
<1>1. Init => JobsInv /\ Jobs!JobInit
  <2> SUFFICES ASSUME Init PROVE JobsInv /\ Jobs!JobInit
    OBVIOUS
  <2>1. TypeOK
    BY InitTypeOK
  <2>2. HeldInv /\ StartedInv /\ RowInv
    BY DEF Init, HeldInv, StartedInv, RowInv, StartWorker, IdleCreate, Holding, Running
  <2>3. Jobs!JobInit
    BY DEF Init, Jobs!JobInit, AtWork, StartWorker
  <2> QED
    BY <2>1, <2>2, <2>3 DEF JobsInv
<1>2. JobsInv /\ [Next]_vars => JobsInv' /\ [Jobs!JobNext]_(Jobs!jobVars)
  BY JobsInductive DEF Jobs!jobVars
<1> QED
  BY <1>1, <1>2, PTL DEF Spec, JobsImplemented, Jobs!JobSpec

-----------------------------------------------------------------------------
(* Leases without a row.                                                   *)

NoCrashYet == "crash" \notin left.past

\* Only a restart goes through the capacity check and acquires a lease.
RestartInv == \A o \in Op : op[o].pc \in {"check", "acquire"} => op[o].kind = "restart"

\* A request whose flow found a state directory and started the VM.
Reviving(h) == h.kind \in {"restart", "rebuild"} /\ h.pc \in {"commit", "post"}

\* Before the first crash an instance without a job, which a rollback may still
\* erase, never had a directory, so that nothing made it active.
JoblessInv ==
    NoCrashYet => \A i \in Inst : job[i] = "none" =>
        /\ i \notin disk /\ row[i] # "active"
        /\ i \notin auto.todo /\ auto.cur # i
        /\ worker.pc = "markRow" => worker.inst # i
        /\ \A o \in Op : Reviving(op[o]) => op[o].inst # i

\* A restart that acquired the lease of i and has not given it back.
HoldsLease(h, i) ==
    h.kind = "restart" /\ h.inst = i /\ h.acquired /\ h.pc \in {"flow", "undo"}

\* The row of i is gone, or its rollback has done with the leases and goes on to
\* erase it.
Going(i) == row[i] = "absent" \/ create[i].pc \in {"restore", "erase"}

\* A lease that nobody has failed to release.
Loose(lease) == lease.st # "none" /\ lease.stray = "no"

LeaseInv ==
    NoCrashYet => \A i \in Inst : Going(i) /\ Loose(rt[i]) =>
        \E o \in Op : HoldsLease(op[o], i)

RowlessInv == JobsInv /\ RestartInv /\ JoblessInv /\ LeaseInv

\* Steps that create no lease of an instance and forget no failed release.
NoNewLease == \A j \in Inst : Loose(rt'[j]) => Loose(rt[j])

RowlessPreserved == RestartInv' /\ JoblessInv' /\ LeaseInv'

\* The releases and renewals of the lease table create no lease.
LEMMA TablesCreateNothing ==
  ASSUME TypeOK, NEW o \in Owner,
         rt' \in {rt, release_lease(o), extend_lease(o), finalize_lease(o)}
  PROVE  NoNewLease
<1>1. rt \in [Owner -> Lease] /\ Inst \subseteq Owner
  BY DEF TypeOK, Owner
<1>2. CASE rt' = rt
  BY <1>2 DEF NoNewLease
<1>3. CASE rt' = release_lease(o)
  BY <1>1, <1>3 DEF NoNewLease, Loose, release_lease, NoLease
<1>4. ASSUME NEW st, rt' = Renew(o, st) PROVE NoNewLease
  <2> DEFINE b == rt[o].checked /\ rt[o].st # "expired"
  <2>1. rt' = rt \/ (rt[o].st # "none" /\ rt' = [rt EXCEPT ![o].st = st, ![o].checked = b])
    BY <1>4 DEF Renew
  <2> HIDE DEF b
  <2>2. rt[o].st # "none" => \A j \in Inst : rt'[j].stray = rt[j].stray /\ (j # o => rt'[j] = rt[j])
    BY <1>1, <2>1 DEF Lease
  <2> QED
    BY <1>2, <2>1, <2>2 DEF NoNewLease, Loose
<1> QED
  BY <1>2, <1>3, <1>4 DEF extend_lease, finalize_lease

\* A status write changes the row of one instance.
LEMMA StatusOfOne ==
  ASSUME TypeOK, NEW i \in Inst, NEW status, row' = update_status(i, status)
  PROVE  /\ \A j \in Inst : j # i => row'[j] = row[j]
         /\ row'[i] = row[i] \/ row'[i] = status
<1>1. row \in [Inst -> RowStatus]
  BY DEF TypeOK
<1> QED
  BY <1>1 DEF update_status

\* A step that leaves requests and the pipeline alone, erases no row and creates
\* no lease finds every lease without a row as it was.
LEMMA QuietLeases ==
  ASSUME RowlessInv, NoCrashYet' => NoCrashYet, UNCHANGED <<op, create>>, RowsStay, NoNewLease
  PROVE  LeaseInv'
<1>1. LeaseInv
  BY DEF RowlessInv
<1> SUFFICES ASSUME NoCrashYet', NEW i \in Inst, Going(i)', Loose(rt'[i])
             PROVE  \E o \in Op : HoldsLease(op'[o], i)
  BY DEF LeaseInv
<1>2. Going(i) /\ Loose(rt[i])
  BY DEF Going, RowsStay, NoNewLease
<1> QED
  BY <1>1, <1>2 DEF LeaseInv

\* The create pipeline: an erase finds the leases of its rollback released, and a
\* lease that is there again belongs to a restart.
LEMMA CreateRowless ==
  ASSUME RowlessInv, NEW i \in Inst, CreateAdmit(i) \/ CreateStep(i)
  PROVE  RowlessPreserved
<1>1. /\ TypeOK /\ JobsInv /\ RestartInv /\ JoblessInv /\ LeaseInv /\ RowInv
      /\ row \in [Inst -> RowStatus] /\ job \in [Inst -> JobStatus]
      /\ rt \in [Owner -> Lease] /\ create \in [Inst -> Creating]
      /\ left \in Bounds
      /\ ClawOf[i] \in Claw /\ Inst \subseteq Owner /\ Claw \subseteq Owner
      /\ Inst \cap Claw = {}
  BY ShapeAssumption, FiniteAssumption DEF RowlessInv, JobsInv, TypeOK, Owner
<1>2. UNCHANGED <<worker, op, auto, disk>>
  BY DEF CreateAdmit, CreateStep, CreateCheck, CreateMatch, CreateInsert,
     CreateEnqueue, RollbackRelease, RollbackRestore, RollbackErase, CreateQueuing,
     CreateFrame, CreateTouches, hostVars
<1>3. "crash" \in left'.past <=> "crash" \in left.past
  <2>1. left' = left \/ Fault \/ TableFault
    BY DEF CreateAdmit, CreateStep, CreateCheck, CreateMatch, CreateInsert,
       CreateEnqueue, RollbackRelease, RollbackRestore, RollbackErase, CreateQueuing,
       CreateFrame, NoFault, request_matches_warm_pool_lease
  <2> QED
    BY <1>1, <2>1, FaultsCounted DEF NoFault, Bounds
<1>4. \A j \in Inst : j # i => create'[j] = create[j] /\ row'[j] = row[j]
  BY <1>1 DEF CreateAdmit, CreateStep, CreateCheck, CreateMatch, CreateInsert,
     CreateEnqueue, RollbackRelease, RollbackRestore, RollbackErase, CreateQueuing,
     CreateReturn, dbVars, update_status
<1>5. \A j \in Inst : job'[j] = "none" => job[j] = "none"
  BY <1>1 DEF CreateAdmit, CreateStep, CreateCheck, CreateMatch, CreateInsert,
     CreateEnqueue, RollbackRelease, RollbackRestore, RollbackErase, CreateQueuing
<1>6. row'[i] = "active" => row[i] = "active"
  BY <1>1 DEF CreateAdmit, CreateStep, CreateCheck, CreateMatch, CreateInsert,
     CreateEnqueue, RollbackRelease, RollbackRestore, RollbackErase, CreateQueuing,
     dbVars, update_status
<1>7. JoblessInv'
  BY <1>1, <1>2, <1>3, <1>4, <1>5, <1>6 DEF JoblessInv, NoCrashYet
<1>8. \A j \in Inst : j # i => rt'[j] = rt[j]
  <2>1. CASE rt' = rt
    BY <2>1
  <2>2. CASE CreateInsert(i)
    BY <1>1, <2>2 DEF CreateInsert, dbVars
  <2>3. CASE RollbackRelease(i)
    BY <1>1, <2>3 DEF RollbackRelease, release_lease, StrayLease
  <2>4. CASE RollbackRestore(i)
    BY <1>1, <2>4 DEF RollbackRestore, create_lease
  <2> QED
    BY <2>1, <2>2, <2>3, <2>4 DEF CreateAdmit, CreateStep, CreateCheck, CreateMatch,
       CreateEnqueue, RollbackErase, CreateQueuing, dbVars
<1>9. Going(i)' /\ Loose(rt'[i]) => Going(i) /\ Loose(rt[i])
  <2>1. CASE CreateAdmit(i) \/ CreateCheck(i) \/ CreateMatch(i)
    <3>1. UNCHANGED <<rt, row>> /\ create'[i].pc \notin {"restore", "erase"}
      BY <1>1, <2>1 DEF CreateAdmit, CreateCheck, CreateMatch, dbVars, IdleCreate, Creating
    <3> QED
      BY <3>1 DEF Going
  <2>2. CASE CreateInsert(i)
    <3>1. /\ create'[i].pc \notin {"restore", "erase"}
          /\ (row'[i] = "provisioning" \/ UNCHANGED <<row, rt>>)
      BY <1>1, <2>2 DEF CreateInsert, CreateReturn, dbVars, IdleCreate, Creating
    <3> QED
      BY <3>1 DEF Going
  <2>3. CASE CreateEnqueue(i)
    <3>1. UNCHANGED <<rt, row>> /\ create'[i].pc \notin {"restore", "erase"}
      BY <1>1, <2>3 DEF CreateEnqueue, dbVars, Creating
    <3> QED
      BY <3>1 DEF Going
  <2>4. CASE RollbackRelease(i)
    <3>1. rt' \in {release_lease(i), StrayLease(i)}
      BY <2>4 DEF RollbackRelease
    <3>2. ~Loose(rt'[i])
      BY <1>1, <3>1 DEF release_lease, StrayLease, NoLease, Loose, Lease
    <3> QED
      BY <3>2
  <2>5. CASE RollbackRestore(i)
    <3> DEFINE made == create_lease(ClawOf[i], create[i].covered)
    <3>1. made[i] = rt[i] /\ i # ClawOf[i]
      BY <1>1 DEF create_lease
    <3>2. rt' = rt \/ rt' = [made EXCEPT ![i].stray = IF made[i].stray = "kept" THEN "doubled"
                                                     ELSE made[i].stray]
      <4> HIDE DEF made
      <4> QED BY <2>5 DEF RollbackRestore, made
    <3>3. made \in [Owner -> Lease]
      BY <1>1, TableTypes DEF Creating
    <3>4. Loose(rt'[i]) => Loose(rt[i])
      <4> HIDE DEF made
      <4> QED BY <1>1, <3>1, <3>2, <3>3 DEF Loose, Lease
    <3>5. Going(i)
      BY <2>5 DEF RollbackRestore, Going
    <3> QED
      BY <3>4, <3>5
  <2>6. CASE RollbackErase(i)
    BY <2>6 DEF RollbackErase, Going
  <2>7. CASE CreateQueuing(i)
    <3>1. rt' = rt /\ create'[i].pc = "idle" /\ row' \in {row, update_status(i, "provisioning")}
      BY <1>1, <2>7 DEF CreateQueuing, CreateReturn, IdleCreate
    <3>2. RowsStay
      BY <1>1, <3>1, StatusKeepsRows DEF RowsStay
    <3> QED
      BY <3>1, <3>2 DEF RowsStay, Going
  <2> QED
    BY <2>1, <2>2, <2>3, <2>4, <2>5, <2>6, <2>7 DEF CreateStep
<1>10. \A j \in Inst : Going(j)' /\ Loose(rt'[j]) => Going(j) /\ Loose(rt[j])
  BY <1>4, <1>8, <1>9 DEF Going
<1>11. LeaseInv'
  BY <1>1, <1>2, <1>3, <1>10 DEF LeaseInv, NoCrashYet
<1> QED
  BY <1>1, <1>2, <1>3, <1>7, <1>11 DEF RowlessPreserved, RestartInv

\* The worker is at an instance with a job, which no rollback erases, and renews
\* or releases leases only.
LEMMA WorkerRowless ==
  ASSUME RowlessInv, WorkerStep
  PROVE  RowlessPreserved
<1> DEFINE w == worker.inst
<1>1. /\ TypeOK /\ JobsInv /\ RestartInv /\ JoblessInv /\ HeldInv
      /\ job \in [Inst -> JobStatus] /\ worker \in Worker
      /\ worker.pc \notin {"start", "idle"} => w \in Inst
      /\ left \in Bounds
      /\ Inst \subseteq Owner
  BY DEF RowlessInv, JobsInv, TypeOK, Owner
<1>2. UNCHANGED <<create, op, auto>>
  BY DEF WorkerStep, WRecover, WClaim, WGate, WStart, WCreate, WCleanup, WActivate,
     WFinalize, WMarkJob, WMarkRow, WorkerFrame, WorkerTouches
<1>3. "crash" \in left'.past <=> "crash" \in left.past
  <2>1. left' = left \/ Fault \/ TableFault
    BY DEF WorkerStep, WRecover, WClaim, WGate, WStart, WCreate, WCleanup, WActivate,
       WFinalize, WMarkJob, WMarkRow, WorkerFrame, NoFault
  <2> QED
    BY <1>1, <2>1, FaultsCounted DEF NoFault, Bounds
<1>4. \A j \in Inst : job'[j] = "none" => job[j] = "none"
  BY <1>1 DEF WorkerStep, WRecover, fail_running_jobs, WClaim, WGate, WStart, WCreate,
     WCleanup, WActivate, WFinalize, WMarkJob, WMarkRow
<1>5. worker.pc \in Running => job[w] = "running"
  BY <1>1 DEF HeldInv
<1>6. row' = row \/ worker.pc \notin {"start", "idle"}
  BY DEF WorkerStep, WRecover, WClaim, WGate, WStart, WCreate, WCleanup, WActivate,
     WFinalize, WMarkJob, WMarkRow, dbVars
<1>7. \/ row' = row
      \/ \E st \in {"provisioning", "failed"} : row' = update_status(w, st)
      \/ worker.pc \in {"activate", "markRow"} /\ row' = update_status(w, "active")
  BY DEF WorkerStep, WRecover, WClaim, WGate, WStart, WCreate, WCleanup, WActivate,
     WFinalize, WMarkJob, WMarkRow, dbVars
<1>8. RowsStay
  BY <1>1, <1>6, <1>7, StatusKeepsRows DEF RowsStay
<1>9. NoNewLease
  <2>1. rt' = rt \/ worker.pc \notin {"start", "idle"}
    BY DEF WorkerStep, WRecover, WClaim, WGate, WStart, WCreate, WCleanup, WActivate,
       WFinalize, WMarkJob, WMarkRow, dbVars
  <2>2. rt' \in {rt, release_lease(w), extend_lease(w), finalize_lease(w)}
    BY DEF WorkerStep, WRecover, WClaim, WGate, WStart, WCreate, WCleanup, WActivate,
       WFinalize, WMarkJob, WMarkRow, dbVars
  <2>3. CASE rt' = rt
    BY <2>3 DEF NoNewLease
  <2>4. CASE w \in Owner
    BY <1>1, <2>2, <2>4, TablesCreateNothing
  <2> QED
    BY <1>1, <2>1, <2>3, <2>4
<1>10. LeaseInv'
  BY <1>2, <1>3, <1>8, <1>9, QuietLeases DEF NoCrashYet
<1>11. disk' \subseteq disk \/ (worker.pc = "create" /\ disk' \subseteq disk \cup {w})
  BY DEF WorkerStep, WRecover, WClaim, WGate, WStart, WCreate, WCleanup, WActivate,
     WFinalize, WMarkJob, WMarkRow, hostVars
<1>12. worker'.pc = "markRow" => worker.pc = "markJob" /\ worker'.inst = w
  BY <1>1 DEF WorkerStep, WRecover, WClaim, WGate, WStart, WCreate, WCleanup, WActivate,
     WFinalize, WMarkJob, WMarkRow, Worker, IdleWorker, StartWorker
<1>13. JoblessInv'
  <2> SUFFICES ASSUME NoCrashYet', NEW i \in Inst, job'[i] = "none"
               PROVE  /\ i \notin disk' /\ row'[i] # "active"
                      /\ i \notin auto'.todo /\ auto'.cur # i
                      /\ worker'.pc = "markRow" => worker'.inst # i
                      /\ \A o \in Op : Reviving(op'[o]) => op'[o].inst # i
    BY DEF JoblessInv
  <2>1. job[i] = "none" /\ NoCrashYet
    BY <1>3, <1>4 DEF NoCrashYet
  <2>2. /\ i \notin disk /\ row[i] # "active"
        /\ i \notin auto.todo /\ auto.cur # i
        /\ worker.pc = "markRow" => w # i
        /\ \A o \in Op : Reviving(op[o]) => op[o].inst # i
    BY <1>1, <2>1 DEF JoblessInv
  <2>3. worker.pc \in Running => w # i
    BY <1>5, <2>1
  <2>4. i \notin disk'
    BY <1>11, <2>2, <2>3 DEF Running
  <2>5. row'[i] # "active"
    <3>1. CASE row' = row
      BY <2>2, <3>1
    <3>2. ASSUME w \in Inst, NEW st \in {"provisioning", "failed"}, row' = update_status(w, st)
          PROVE  row'[i] # "active"
      BY <1>1, <2>2, <3>2, StatusOfOne
    <3>3. ASSUME w \in Inst, w # i, row' = update_status(w, "active")
          PROVE  row'[i] # "active"
      BY <1>1, <2>2, <3>3, StatusOfOne
    <3> QED
      BY <1>1, <1>6, <1>7, <2>2, <2>3, <3>1, <3>2, <3>3 DEF Running
  <2>6. worker'.pc = "markRow" => worker'.inst # i
    BY <1>12, <2>3 DEF Running
  <2> QED
    BY <1>2, <2>2, <2>4, <2>5, <2>6
<1> QED
  BY <1>1, <1>2, <1>3, <1>10, <1>13 DEF RowlessPreserved, RestartInv

\* A request: a restart that acquires the lease holds it until it has given it
\* back, or until its flow has found the directory of an instance that has a job.
LEMMA OpRowless ==
  ASSUME RowlessInv, NEW o \in Op,
         OpStep(o) \/ \E k \in Requests, i \in Inst : OpRequest(o, k, i)
  PROVE  RowlessPreserved
<1> DEFINE h == op[o]
           i == h.inst
<1>1. /\ TypeOK /\ JobsInv /\ RestartInv /\ JoblessInv /\ LeaseInv /\ RowInv
      /\ rt \in [Owner -> Lease] /\ op \in [Op -> Handler]
      /\ h.pc # "idle" => i \in Inst
      /\ left \in Bounds
      /\ Inst \subseteq Owner
  BY DEF RowlessInv, JobsInv, TypeOK, Owner
<1>2. UNCHANGED <<job, ran, worker, create>> /\ RowsStay
  BY <1>1, OthersAreQuiet
<1>3. auto' = auto
  BY DEF OpStep, OpRequest, RestartCheck, RestartAcquire, OpVm, OpCommit, OpPost,
     RestartUndo, OpFrame
<1>4. "crash" \in left'.past <=> "crash" \in left.past
  <2>1. left' = left \/ left' = [left EXCEPT !.ops = @ - 1] \/ Fault \/ TableFault
    BY DEF OpStep, OpRequest, RestartCheck, RestartAcquire, OpVm, OpCommit, OpPost,
       RestartUndo, NoFault, request_matches_warm_pool_lease
  <2> QED
    BY <1>1, <2>1, FaultsCounted DEF NoFault, Bounds
<1>5. \A p \in Op : p # o => op'[p] = op[p]
  BY <1>1 DEF OpStep, OpRequest, RestartCheck, RestartAcquire, OpVm, OpCommit, OpPost,
     RestartUndo
<1>6. disk' \subseteq disk
  <2>1. CASE disk' = disk
    BY <2>1
  <2>2. CASE OpVm(o)
    <3>1. h.kind \in OpKind
      BY <1>1 DEF Handler
    <3>2. CASE disk' = disk
      BY <3>2
    <3>3. CASE FlowDone(h.kind, i)
      BY <3>1, <3>3 DEF FlowDone, OpKind
    <3> QED
      BY <2>2, <3>2, <3>3 DEF OpVm
  <2> QED
    BY <2>1, <2>2 DEF OpStep, OpRequest, RestartCheck, RestartAcquire, OpCommit, OpPost,
       RestartUndo, hostVars
\* What the handler is after the step.
<1>7. CASE \E k \in Requests, j \in Inst : OpRequest(o, k, j)
  <2>1. PICK k \in Requests, j \in Inst : OpRequest(o, k, j)
    BY <1>7
  <2>2. /\ op'[o].pc = (IF k = "restart" THEN "check" ELSE "flow") /\ op'[o].kind = k
        /\ ~HoldsLease(h, j) /\ h.pc = "idle" /\ UNCHANGED <<row, rt>>
    BY <1>1, <2>1 DEF OpRequest, IdleOp, dbVars, HoldsLease
  <2>3. RestartInv'
    BY <1>1, <1>5, <2>2 DEF RestartInv
  <2>4. ~Reviving(op'[o]) /\ \A l : ~HoldsLease(h, l)
    BY <2>2 DEF Reviving, HoldsLease
  <2>5. JoblessInv'
    BY <1>1, <1>2, <1>3, <1>4, <1>5, <1>6, <2>2, <2>4 DEF JoblessInv, NoCrashYet
  <2>6. LeaseInv'
    BY <1>1, <1>2, <1>4, <1>5, <2>2, <2>4 DEF LeaseInv, NoCrashYet, Going
  <2> QED
    BY <1>1, <1>4, <2>3, <2>5, <2>6 DEF RowlessPreserved
<1>8. CASE RestartCheck(o)
  <2>1. /\ \/ op'[o].pc \in {"flow", "acquire"} /\ op'[o].kind = h.kind
           \/ op'[o].pc = "idle"
        /\ h.pc = "check" /\ UNCHANGED <<row, rt>>
    BY <1>1, <1>8 DEF RestartCheck, IdleOp, dbVars, Handler
  <2>2. RestartInv'
    BY <1>1, <1>5, <2>1 DEF RestartInv
  <2>3. ~Reviving(op'[o]) /\ \A l : ~HoldsLease(h, l)
    BY <2>1 DEF Reviving, HoldsLease
  <2>4. JoblessInv'
    BY <1>1, <1>2, <1>3, <1>4, <1>5, <1>6, <2>1, <2>3 DEF JoblessInv, NoCrashYet
  <2>5. LeaseInv'
    BY <1>1, <1>2, <1>4, <1>5, <2>1, <2>3 DEF LeaseInv, NoCrashYet, Going
  <2> QED
    BY <1>1, <1>4, <2>2, <2>4, <2>5 DEF RowlessPreserved
<1>9. CASE RestartAcquire(o)
  <2>1. h.pc = "acquire" /\ h.kind = "restart" /\ i \in Inst /\ UNCHANGED row
    BY <1>1, <1>9 DEF RestartAcquire, RestartInv
  <2>2. \A l : ~HoldsLease(h, l)
    BY <2>1 DEF HoldsLease
  <2>3. CASE rt' = create_lease(i, ~h.matched)
             /\ op' = [op EXCEPT ![o].pc = "flow", ![o].acquired = TRUE]
    <3>1. op'[o].pc = "flow" /\ op'[o].kind = "restart" /\ op'[o].inst = i /\ op'[o].acquired
      BY <1>1, <2>1, <2>3 DEF Handler
    <3>2. \A j \in Inst : j # i => rt'[j] = rt[j]
      BY <1>1, <2>1, <2>3 DEF create_lease
    <3>3. RestartInv'
      BY <1>1, <1>5, <3>1 DEF RestartInv
    <3>4. JoblessInv'
      BY <1>1, <1>2, <1>3, <1>4, <1>5, <1>6, <2>1, <3>1 DEF JoblessInv, NoCrashYet, Reviving
    <3>5. HoldsLease(op'[o], i)
      BY <3>1 DEF HoldsLease
    <3>6. LeaseInv'
      BY <1>1, <1>2, <1>4, <1>5, <2>1, <2>2, <3>2, <3>5 DEF LeaseInv, NoCrashYet, Going
    <3> QED
      BY <1>1, <1>4, <3>3, <3>4, <3>6 DEF RowlessPreserved
  <2>4. CASE op' = [op EXCEPT ![o] = IdleOp] /\ rt' = rt
    <3>1. op'[o].pc = "idle"
      BY <1>1, <2>4 DEF IdleOp
    <3>2. RestartInv'
      BY <1>1, <1>5, <3>1 DEF RestartInv
    <3>3. JoblessInv'
      BY <1>1, <1>2, <1>3, <1>4, <1>5, <1>6, <2>1, <3>1 DEF JoblessInv, NoCrashYet, Reviving
    <3>4. LeaseInv'
      BY <1>1, <1>2, <1>4, <1>5, <2>1, <2>2, <2>4 DEF LeaseInv, NoCrashYet, Going
    <3> QED
      BY <1>1, <1>4, <3>2, <3>3, <3>4 DEF RowlessPreserved
  <2> QED
    BY <1>9, <2>3, <2>4 DEF RestartAcquire
<1>10. CASE OpVm(o)
  <2>1. h.pc = "flow" /\ i \in Inst /\ UNCHANGED <<row, rt>> /\ h.kind \in OpKind
    BY <1>1, <1>10 DEF OpVm, dbVars, Handler
  <2>2. CASE FlowDone(h.kind, i) /\ op' = [op EXCEPT ![o].pc = "commit"]
    <3>1. op'[o].pc = "commit" /\ op'[o].kind = h.kind /\ op'[o].inst = i
      BY <1>1, <2>2 DEF Handler
    <3>2. h.kind \in {"restart", "rebuild"} => i \in disk
      BY <2>2 DEF FlowDone
    <3>3. NoCrashYet /\ h.kind \in {"restart", "rebuild"} => job[i] # "none"
      BY <1>1, <2>1, <3>2 DEF JoblessInv
    <3>4. RestartInv'
      BY <1>1, <1>5, <3>1 DEF RestartInv
    <3>5. JoblessInv'
      BY <1>1, <1>2, <1>3, <1>4, <1>5, <1>6, <2>1, <3>1, <3>3
         DEF JoblessInv, NoCrashYet, Reviving
    <3>6. \A l \in Inst : HoldsLease(h, l) => l = i /\ h.kind = "restart"
      BY DEF HoldsLease
    <3>7. job[i] # "none" => ~Going(i)
      BY <1>1, <2>1 DEF RowInv, Going
    <3>8. LeaseInv'
      BY <1>1, <1>2, <1>4, <1>5, <2>1, <3>3, <3>6, <3>7 DEF LeaseInv, NoCrashYet, Going
    <3> QED
      BY <1>1, <1>4, <3>4, <3>5, <3>8 DEF RowlessPreserved
  <2>3. CASE op' = [op EXCEPT ![o] = IF h.acquired THEN [h EXCEPT !.pc = "undo"] ELSE IdleOp]
    <3>1. \/ /\ h.acquired /\ op'[o].pc = "undo" /\ op'[o].kind = h.kind
             /\ op'[o].inst = i /\ op'[o].acquired
          \/ ~h.acquired /\ op'[o].pc = "idle"
      BY <1>1, <2>3 DEF Handler, IdleOp
    <3>2. RestartInv'
      BY <1>1, <1>5, <3>1 DEF RestartInv
    <3>3. JoblessInv'
      BY <1>1, <1>2, <1>3, <1>4, <1>5, <1>6, <2>1, <3>1 DEF JoblessInv, NoCrashYet, Reviving
    <3>4. \A l \in Inst : HoldsLease(h, l) => HoldsLease(op'[o], l)
      BY <3>1 DEF HoldsLease
    <3>5. LeaseInv'
      BY <1>1, <1>2, <1>4, <1>5, <2>1, <3>4 DEF LeaseInv, NoCrashYet, Going
    <3> QED
      BY <1>1, <1>4, <3>2, <3>3, <3>5 DEF RowlessPreserved
  <2> QED
    BY <1>10, <2>2, <2>3 DEF OpVm
<1>11. CASE OpCommit(o) \/ OpPost(o)
  <2>1. h.pc \in {"commit", "post"} /\ i \in Inst
    BY <1>1, <1>11 DEF OpCommit, OpPost
  <2>2. \/ op'[o].pc = "post" /\ op'[o].kind = h.kind /\ op'[o].inst = i
        \/ op'[o].pc = "idle"
    BY <1>1, <1>11 DEF OpCommit, OpPost, Handler, IdleOp
  <2>3. NoNewLease
    BY <1>1, <1>11, <2>1, TablesCreateNothing DEF OpCommit, OpPost
  <2>4. RestartInv'
    BY <1>1, <1>5, <2>2 DEF RestartInv
  <2>5. \/ row' = row
        \/ \E st \in {"stopped", "active"} :
              row' = update_status(i, st) /\ (st = "active" => h.kind \in {"restart", "rebuild"})
    <3>1. h.kind \in OpKind
      BY <1>1 DEF Handler
    <3> QED
      BY <1>11, <3>1 DEF OpCommit, OpPost, RowOutcome, soft_delete_status, OpKind
  <2>6. \A j \in Inst : j # i => row'[j] = row[j]
    BY <1>1, <2>1, <2>5, StatusOfOne
  <2>7. row'[i] = "active" => row[i] = "active" \/ Reviving(h)
    BY <1>1, <2>1, <2>5, StatusOfOne DEF Reviving
  <2>8. Reviving(op'[o]) => Reviving(h) /\ op'[o].inst = i
    BY <2>1, <2>2 DEF Reviving
  <2>9. JoblessInv'
    BY <1>1, <1>2, <1>3, <1>4, <1>5, <1>6, <2>1, <2>6, <2>7, <2>8 DEF JoblessInv, NoCrashYet
  <2>10. \A l : ~HoldsLease(h, l)
    BY <2>1 DEF HoldsLease
  <2>11. LeaseInv'
    BY <1>1, <1>2, <1>4, <1>5, <2>3, <2>10 DEF LeaseInv, NoCrashYet, Going, RowsStay, NoNewLease
  <2> QED
    BY <1>1, <1>4, <2>4, <2>9, <2>11 DEF RowlessPreserved
<1>12. CASE RestartUndo(o)
  <2>1. /\ h.pc = "undo" /\ i \in Inst /\ row' = row /\ op'[o].pc = "idle"
        /\ rt' \in {release_lease(i), StrayLease(i)}
    BY <1>1, <1>12 DEF RestartUndo, IdleOp
  <2>2. ~Loose(rt'[i]) /\ \A j \in Inst : j # i => rt'[j] = rt[j]
    BY <1>1, <2>1 DEF release_lease, StrayLease, NoLease, Loose, Lease
  <2>3. RestartInv'
    BY <1>1, <1>5, <2>1 DEF RestartInv
  <2>4. JoblessInv'
    BY <1>1, <1>2, <1>3, <1>4, <1>5, <1>6, <2>1 DEF JoblessInv, NoCrashYet, Reviving
  <2>5. \A l \in Inst : HoldsLease(h, l) => l = i
    BY DEF HoldsLease
  <2>6. LeaseInv'
    BY <1>1, <1>2, <1>4, <1>5, <2>1, <2>2, <2>5 DEF LeaseInv, NoCrashYet, Going
  <2> QED
    BY <1>1, <1>4, <2>3, <2>4, <2>6 DEF RowlessPreserved
<1> QED
  BY <1>7, <1>8, <1>9, <1>10, <1>11, <1>12 DEF OpStep

\* The reaper, the reconciler, uninstalls and maintenance create no lease of an
\* instance and make no row active.
LEMMA OthersRowless ==
  ASSUME RowlessInv, ReaperStep \/ ReconStep \/ EnvStep
  PROVE  RowlessPreserved
<1>1. /\ TypeOK /\ JobsInv /\ RestartInv /\ JoblessInv
      /\ rt \in [Owner -> Lease] /\ row \in [Inst -> RowStatus]
      /\ left \in Bounds
      /\ Inst \subseteq Owner /\ Claw \subseteq Owner /\ Inst \cap Claw = {}
  BY FiniteAssumption DEF RowlessInv, JobsInv, TypeOK, Owner
<1>2. UNCHANGED <<job, ran, worker, create>> /\ RowsStay
  BY <1>1, OthersAreQuiet
<1>3. UNCHANGED <<op, auto, disk>>
  BY DEF ReaperStep, ReapScan, ReapRead, ReapMark, ReapRelease, ReaperFrame, ReconStep,
     ReconWake, ReconLock, ReconDecide, ReconLease, ReconRefill, ReconDone, ReconFrame, ReconTouches,
     EnvStep, Expire, UninstallCheck, UninstallStep, UninstallMark, UninstallRelease,
     MaintOn, MaintOff, EnvFrame, hostVars
<1>4. "crash" \in left'.past <=> "crash" \in left.past
  <2>1. left' = left \/ left' = [left EXCEPT !.maint = @ - 1] \/ Fault \/ TableFault
    BY DEF ReaperStep, ReapScan, ReapRead, ReapMark, ReapRelease, ReaperFrame, ReconStep,
       ReconWake, ReconLock, ReconDecide, ReconLease, ReconRefill, ReconDone, ReconFrame, NoFault,
       EnvStep, Expire, UninstallCheck, UninstallStep, UninstallMark, UninstallRelease,
       MaintOn, MaintOff
  <2> QED
    BY <1>1, <2>1, FaultsCounted DEF NoFault, Bounds
<1>5. \A j \in Inst : row'[j] = "active" => row[j] = "active"
  <2>1. CASE row' = row
    BY <2>1
  <2>2. CASE ReapMark
    <3>1. reaper.cur \in Inst
      BY <1>1, <2>2 DEF ReapMark, TypeOK
    <3> QED
      BY <1>1, <2>2, <3>1, StatusOfOne DEF ReapMark
  <2> QED
    BY <2>1, <2>2 DEF ReaperStep, ReapScan, ReapRead, ReapRelease, ReconStep,
       ReconWake, ReconLock, ReconDecide, ReconLease, ReconRefill, ReconDone, ReconFrame, ReconTouches,
       EnvStep, Expire, UninstallCheck, UninstallStep, UninstallMark, UninstallRelease,
       MaintOn, MaintOff, EnvFrame
<1>6. NoNewLease
  <2>1. CASE rt' = rt
    BY <2>1 DEF NoNewLease
  <2>2. CASE ReapRelease
    <3>1. reaper.cur \in Inst
      BY <1>1, <2>2 DEF ReapRelease, TypeOK
    <3> QED
      BY <1>1, <2>2, <3>1, TablesCreateNothing DEF ReapRelease
  <2>3. CASE ReconDecide
    BY <1>1, <2>3 DEF ReconDecide, release_orphaned_warm_pool_leases, NoNewLease, Loose, NoLease
  <2>4. ASSUME NEW c \in Claw, ReconLease(c) PROVE NoNewLease
    BY <1>1, <2>4 DEF ReconLease, create_lease, NoNewLease
  <2>5. CASE ReconRefill
    <3>1. recon.cur \in Claw
      BY <1>1, <2>5 DEF ReconRefill, TypeOK
    <3> QED
      BY <1>1, <2>1, <2>5, <3>1, TablesCreateNothing DEF ReconRefill
  <2>6. ASSUME NEW j \in Inst, Expire(j) PROVE NoNewLease
    BY <1>1, <2>6 DEF Expire, NoNewLease, Loose, Lease
  <2>7. ASSUME NEW c \in Claw, UninstallRelease(c) PROVE NoNewLease
    BY <1>1, <2>7, TablesCreateNothing DEF UninstallRelease
  <2> QED
    BY <2>1, <2>2, <2>3, <2>4, <2>5, <2>6, <2>7 DEF ReaperStep, ReapScan, ReapRead, ReapMark,
       ReconStep, ReconWake, ReconLock, ReconDone, EnvStep, UninstallCheck, UninstallStep,
       UninstallMark, MaintOn, MaintOff
<1>7. LeaseInv'
  BY <1>2, <1>3, <1>4, <1>6, QuietLeases DEF NoCrashYet
<1>8. JoblessInv'
  BY <1>1, <1>2, <1>3, <1>4, <1>5 DEF JoblessInv, NoCrashYet
<1> QED
  BY <1>1, <1>3, <1>4, <1>7, <1>8 DEF RowlessPreserved, RestartInv

\* Start-up and the auto-restart see active rows only, and those have jobs.
LEMMA BootRowless ==
  ASSUME RowlessInv, BootStep \/ AutoStep
  PROVE  RowlessPreserved
<1>1. /\ TypeOK /\ JobsInv /\ RestartInv /\ JoblessInv /\ LeaseInv /\ RowInv
      /\ rt \in [Owner -> Lease] /\ row \in [Inst -> RowStatus] /\ auto \in AutoRestart
      /\ left \in Bounds
      /\ Inst \subseteq Owner
  BY DEF RowlessInv, JobsInv, TypeOK, Owner
<1>2. UNCHANGED <<job, ran, worker, create>> /\ RowsStay
  BY <1>1, OthersAreQuiet
<1>3. UNCHANGED <<op, disk>>
  BY DEF BootStep, AutoStep, BootSnapshot, BootReconcile, AutoVm, AutoLease,
     BootTouches, hostVars
<1>4. "crash" \in left'.past <=> "crash" \in left.past
  <2>1. left' = left \/ Fault \/ TableFault
    BY DEF BootStep, AutoStep, BootSnapshot, BootReconcile, AutoVm, AutoLease,
       NoFault
  <2> QED
    BY <1>1, <2>1, FaultsCounted DEF NoFault, Bounds
<1>5. \A j \in auto'.todo : j \in auto.todo \/ row[j] = "active"
  BY <1>1 DEF BootStep, AutoStep, BootSnapshot, BootReconcile, AutoVm, AutoLease, AutoRestart
<1>6. auto'.cur \in {auto.cur, NoInst} \cup auto.todo
  BY <1>1 DEF BootStep, AutoStep, BootSnapshot, BootReconcile, AutoVm, AutoLease, AutoRestart
<1>7. \A j \in Inst : row'[j] = "active" => row[j] = "active" \/ j \in auto.todo
  <2>1. CASE row' = row
    BY <2>1
  <2>2. CASE BootReconcile
    BY <1>1, <2>2 DEF BootReconcile
  <2>3. ASSUME NEW j \in Inst, j \in auto.todo, row' = update_status(j, "active")
        PROVE  \A l \in Inst : row'[l] = "active" => row[l] = "active" \/ l \in auto.todo
    BY <1>1, <2>3, StatusOfOne
  <2> QED
    BY <2>1, <2>2, <2>3 DEF BootStep, AutoStep, BootSnapshot, AutoVm, AutoLease
<1>8. \A j \in Inst : j # NoInst
  BY HolderAssumption DEF NoInst
<1>9. JoblessInv'
  BY <1>1, <1>2, <1>3, <1>4, <1>5, <1>6, <1>7, <1>8 DEF JoblessInv, NoCrashYet
<1>10. CASE NoNewLease
  <2>1. LeaseInv'
    BY <1>2, <1>3, <1>4, <1>10, QuietLeases DEF NoCrashYet
  <2> QED
    BY <1>1, <1>3, <1>4, <1>9, <2>1 DEF RowlessPreserved, RestartInv
<1>11. CASE BootReconcile
  <2>1. NoNewLease
    BY <1>1, <1>11 DEF BootReconcile, NoNewLease, Loose, NoLease
  <2> QED
    BY <1>10, <2>1
<1>12. CASE AutoLease
  <2> DEFINE c == auto.cur
  <2>1. c \in Inst /\ row' = row
    BY <1>1, <1>12 DEF AutoLease, TypeOK
  <2>2. \A j \in Inst : j # c => rt'[j] = rt[j]
    BY <1>1, <1>12, <2>1 DEF AutoLease, create_lease
  <2>3. NoCrashYet => job[c] # "none"
    BY <1>1, <2>1 DEF JoblessInv
  <2>4. NoCrashYet => ~Going(c)
    BY <1>1, <2>1, <2>3 DEF RowInv, Going
  <2>5. LeaseInv'
    BY <1>1, <1>2, <1>3, <1>4, <2>1, <2>2, <2>4 DEF LeaseInv, NoCrashYet, Going
  <2> QED
    BY <1>1, <1>3, <1>4, <1>9, <2>5 DEF RowlessPreserved, RestartInv
<1>13. CASE rt' = rt
  <2>1. NoNewLease
    BY <1>13 DEF NoNewLease
  <2> QED
    BY <1>10, <2>1
<1> QED
  BY <1>11, <1>12, <1>13 DEF BootStep, AutoStep, BootSnapshot, AutoVm

\* A crash ends what the property speaks of.
LEMMA CrashRowless ==
  ASSUME RowlessInv, Crash
  PROVE  RowlessPreserved
<1>1. left \in Bounds
  BY DEF RowlessInv, JobsInv, TypeOK
<1>2. ~NoCrashYet'
  BY <1>1 DEF Crash, Bounds, NoCrashYet
<1>3. RestartInv'
  BY DEF Crash, RestartInv, IdleOp
<1> QED
  BY <1>2, <1>3 DEF RowlessPreserved, JoblessInv, LeaseInv

\* The invariant is inductive.
LEMMA RowlessInductive ==
  ASSUME RowlessInv, [Next]_vars
  PROVE  RowlessInv'
<1>1. JobsInv'
  BY JobsInductive DEF RowlessInv
<1>2. RowlessPreserved
  <2>1. ASSUME NEW i \in Inst, CreateAdmit(i) \/ CreateStep(i) PROVE RowlessPreserved
    BY <2>1, CreateRowless
  <2>2. CASE WorkerStep
    BY <2>2, WorkerRowless
  <2>3. ASSUME NEW o \in Op,
               OpStep(o) \/ \E k \in Requests, i \in Inst : OpRequest(o, k, i)
        PROVE  RowlessPreserved
    BY <2>3, OpRowless
  <2>4. CASE ReaperStep \/ ReconStep \/ EnvStep
    BY <2>4, OthersRowless
  <2>5. CASE BootStep \/ AutoStep
    BY <2>5, BootRowless
  <2>6. CASE Crash
    BY <2>6, CrashRowless
  <2>7. CASE UNCHANGED vars
    BY <2>7 DEF vars, RowlessInv, RowlessPreserved, RestartInv, JoblessInv,
       LeaseInv, NoCrashYet, Going
  <2> QED
    BY <2>1, <2>2, <2>3, <2>4, <2>5, <2>6, <2>7 DEF Next
<1> QED
  BY <1>1, <1>2 DEF RowlessInv, RowlessPreserved

\* As long as the process has not died, a runtime lease of an instance without a
\* row (which no row will ever make anybody release) belongs to a restart that is
\* still under way, or a rollback or such a restart failed to release it: the
\* rollback of the create pipeline releases before it erases, and only a restart
\* that read the row before it was erased acquires one later.
THEOREM RowlessLeases == Spec => []RowlessLeaseHeld
<1>1. Init => RowlessInv
  <2> SUFFICES ASSUME Init PROVE RowlessInv
    OBVIOUS
  <2>1. TypeOK
    BY InitTypeOK
  <2>2. HeldInv /\ StartedInv /\ RowInv
    BY DEF Init, HeldInv, StartedInv, RowInv, StartWorker, IdleCreate, Holding, Running
  <2>3. RestartInv
    BY DEF Init, RestartInv, IdleOp
  <2>4. \A i \in Inst : i # NoInst
    BY HolderAssumption DEF NoInst
  <2>5. JoblessInv
    BY <2>4 DEF Init, JoblessInv, Reviving, IdleOp, StartWorker
  <2>6. LeaseInv
    BY DEF Init, LeaseInv, NoLease, Owner, Loose
  <2> QED
    BY <2>1, <2>2, <2>3, <2>5, <2>6 DEF RowlessInv, JobsInv
<1>2. RowlessInv /\ [Next]_vars => RowlessInv'
  BY RowlessInductive
<1>3. RowlessInv => RowlessLeaseHeld
  BY DEF RowlessInv, LeaseInv, RowlessLeaseHeld, NoCrashYet, Going, Loose, HoldsLease
<1> QED
  BY <1>1, <1>2, <1>3, PTL DEF Spec

=============================================================================
