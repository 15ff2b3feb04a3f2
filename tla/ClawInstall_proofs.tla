--------------------------- MODULE ClawInstall_proofs ---------------------------
(* Proofs about ClawInstall.                                               *)
EXTENDS ClawInstall, FiniteSetTheorems, TLAPS

Busy == {"message", "work", "mark", "markJob"}

\* The worker's job: none before a claim, and a claimed job exists.  It may be
\* failed (by the other worker's recovery) or deleted (by a rollback) under way.
WorkerInv ==
    /\ worker.pc \in {"start", "reset", "idle"} => worker.job = NoJob
    /\ worker.pc \in Busy => jobs[worker.job].status # "none"
    /\ worker.pc = "message" =>
          jobs[worker.job].status \in {"running", "failed", "deleted"}

TypeInv == TypeOK /\ WorkerInv

\* The types of a row, a request and an entry.
LEMMA Plains == \A s \in Status : Plain(s) \in Entry
  BY DEF Plain, Entry

\* The helpers of the jobs table return a table, and touch only what they name.
LEMMA TableTypes ==
    ASSUME jobs \in [Job -> JobRow]
    PROVE  /\ \A j \in Job, s \in {"running", "completed", "failed", "deleted"} :
                 update_job(j, s) \in [Job -> JobRow]
           /\ \A S : FailAll(S) \in [Job -> JobRow]
  <1>1. \A j \in Job, s \in {"running", "completed", "failed", "deleted"} :
                 update_job(j, s) \in [Job -> JobRow]
    BY DEF update_job, JobRow
  <1>2. ASSUME NEW S PROVE FailAll(S) \in [Job -> JobRow]
    <2>1. \A j \in Job : [jobs[j] EXCEPT !.status = "failed"] \in JobRow
      BY DEF JobRow
    <2> QED BY <2>1 DEF FailAll
  <1> QED BY <1>1, <1>2

\* A new row is of the type, and the others stay.
LEMMA CreateJobType ==
    ASSUME jobs \in [Job -> JobRow], NEW j \in Job, NEW type \in {"install", "uninstall"},
           NEW c \in Claw, create_job(j, type, c)
    PROVE  /\ jobs' \in [Job -> JobRow]
           /\ jobs'[j].status = "pending"
           /\ \A k \in Job : k # j => jobs'[k] = jobs[k]
  <1>1. Cardinality(Job) \in Nat
    BY ClawAssumption, FS_CardinalityType
  <1>2. PICK k \in Latest, d \in {0, 1} :
          jobs' = [jobs EXCEPT ![j] = [status |-> "pending", type |-> type, claw |-> c,
                                       created |-> k + d]]
    BY DEF create_job
  <1>3. k \in Nat /\ k + d \in Nat
    BY <1>1, <1>2 DEF Latest
  <1>4. [status |-> "pending", type |-> type, claw |-> c, created |-> k + d] \in JobRow
    BY <1>3 DEF JobRow
  <1> QED BY <1>2, <1>4

Left == [file : Nat, table : Nat, crashes : Nat]

\* A failing call uses up one fault of its kind.
LEMMA FaultTypes ==
    ASSUME left \in Left
    PROVE  /\ FileFault => left' \in Left /\ left'.table = left.table
           /\ TableFault => left' \in Left /\ left'.table = left.table - 1
           /\ NoFault => left' = left
  <1>1. FileFault => left' \in Left /\ left'.table = left.table
    BY DEF FileFault, Left
  <1>2. TableFault => left' \in Left /\ left'.table = left.table - 1
    BY DEF TableFault, Left
  <1> QED BY <1>1, <1>2 DEF NoFault

\* What the recoveries of the claw store write has the type ...
LEMMA CommitTypes ==
    ASSUME TypeOK, NEW next \in [Claw -> Entry], CommitThenPersist(next)
    PROVE  /\ store' \in [Claw -> Entry] /\ file' \in [Claw -> Entry]
           /\ behind' \in BOOLEAN
           /\ left' \in Left /\ left'.table = left.table
  <1>1. left \in Left /\ store \in [Claw -> Entry] /\ file \in [Claw -> Entry]
        /\ behind \in BOOLEAN
    BY DEF TypeOK, Left
  <1>2. store' = next
    BY DEF CommitThenPersist
  <1>3. NoFault \/ FileFault
    BY DEF CommitThenPersist
  <1>4. file' \in {file, next} /\ behind' \in {behind, TRUE, FALSE}
    BY DEF CommitThenPersist
  <1> QED BY <1>1, <1>2, <1>3, <1>4, FaultTypes

\* ... and so has what a mark writes.
LEMMA MarkTypes ==
    ASSUME TypeOK, NEW c \in Claw, NEW entry \in Entry,
           set_state(c, entry) \/ set_state_error(c, entry)
    PROVE  /\ store' \in [Claw -> Entry] /\ file' \in [Claw -> Entry]
           /\ behind' \in BOOLEAN
           /\ left' \in Left /\ left'.table = left.table
  <1>1. left \in Left /\ store \in [Claw -> Entry] /\ file \in [Claw -> Entry]
        /\ behind \in BOOLEAN
    BY DEF TypeOK, Left
  <1>2. CASE set_state(c, entry)
    <2>1. store' = [store EXCEPT ![c] = entry] /\ file' = store' /\ behind' = FALSE /\ NoFault
      BY <1>2 DEF set_state
    <2>2. store' \in [Claw -> Entry]
      BY <1>1, <2>1
    <2> QED BY <1>1, <2>1, <2>2, FaultTypes
  <1>3. CASE set_state_error(c, entry)
    <2>1. store' = store /\ file' = file /\ behind' = behind /\ FileFault
      BY <1>3 DEF set_state_error, storeVars
    <2> QED BY <1>1, <2>1, FaultTypes
  <1> QED BY <1>2, <1>3

-----------------------------------------------------------------------------
(* Type correctness.                                                       *)

CallerT == /\ caller \in [Caller -> Request]
           /\ \A h \in Caller : caller[h].pc \in {"mark", "rollback"} => caller[h].job \in Job

\* How the other tasks change the status of a row while the worker is at work.
Moves ==
    \A j \in Job :
        \/ jobs'[j].status = jobs[j].status
        \/ jobs[j].status = "none" /\ jobs'[j].status = "pending"
        \/ jobs'[j].status = "deleted"
        \/ jobs[j].status \in {"pending", "running"} /\ jobs'[j].status = "failed"

\* A step that leaves the worker alone, and moves jobs only forward, keeps the worker's
\* type and what the worker knows of its job.
LEMMA WorkerKept ==
    ASSUME TypeInv, Moves, worker' = worker
    PROVE  WorkerInv'
  <1>1. worker.pc \in Busy => worker.job \in Job
    BY DEF TypeInv, TypeOK, Busy
  <1>2. CASE worker.pc \in Busy
    <2>1. worker.job \in Job /\ jobs[worker.job].status # "none"
      BY <1>1, <1>2 DEF TypeInv, WorkerInv
    <2>2. jobs'[worker.job].status # "none"
      BY <2>1 DEF Moves
    <2>3. worker.pc = "message" =>
              jobs'[worker.job].status \in {"running", "failed", "deleted"}
      BY <2>1 DEF Moves, TypeInv, WorkerInv
    <2> QED BY <1>2, <2>2, <2>3 DEF TypeInv, WorkerInv, Busy
  <1>3. CASE worker.pc \notin Busy
    BY <1>3 DEF TypeInv, WorkerInv, Busy
  <1> QED BY <1>2, <1>3

\* The helpers of the jobs table move rows in these ways only.
LEMMA TableMoves ==
    ASSUME jobs \in [Job -> JobRow]
    PROVE  /\ jobs' = jobs => Moves
           /\ \A j \in Job : jobs' = update_job(j, "deleted") => Moves
           /\ \A S \in SUBSET {"pending", "running"} : jobs' = FailAll(S) => Moves
  <1>1. jobs' = jobs => Moves
    BY DEF Moves
  <1>2. ASSUME NEW j \in Job, jobs' = update_job(j, "deleted") PROVE Moves
    BY <1>2 DEF Moves, update_job, JobRow
  <1>3. ASSUME NEW S \in SUBSET {"pending", "running"}, jobs' = FailAll(S) PROVE Moves
    <2>1. ASSUME NEW j \in Job PROVE
              \/ jobs'[j].status = jobs[j].status
              \/ jobs[j].status \in {"pending", "running"} /\ jobs'[j].status = "failed"
      <3>1. jobs'[j] = IF jobs[j].status \in S
                       THEN [jobs[j] EXCEPT !.status = "failed"] ELSE jobs[j]
        BY <1>3 DEF FailAll
      <3>2. [jobs[j] EXCEPT !.status = "failed"].status = "failed"
        BY DEF JobRow
      <3> QED BY <3>1, <3>2
    <2> QED BY <2>1 DEF Moves
  <1> QED BY <1>1, <1>2, <1>3

\* A request that is answered or that goes on keeps the type.
LEMMA CallerTypes ==
    ASSUME CallerT, NEW h \in Caller
    PROVE  /\ Answer(h) => CallerT'
           /\ caller' = [caller EXCEPT ![h].pc = "enqueue"] => CallerT'
           /\ caller[h].pc = "mark" /\ caller' = [caller EXCEPT ![h].pc = "rollback"] => CallerT'
           /\ \A j \in Job : caller' = [caller EXCEPT ![h].pc = "mark", ![h].job = j] => CallerT'
           /\ \A c \in Claw, p \in {"enqueue", "count"}, t \in {"install", "uninstall"} :
                 caller' = [caller EXCEPT ![h] = [pc |-> p, type |-> t, claw |-> c,
                                                  job |-> NoJob]] => CallerT'
  <1>1. caller[h] \in Request
    BY DEF CallerT
  <1>2. ASSUME Answer(h) PROVE CallerT'
    <2>1. [caller[h] EXCEPT !.pc = "idle", !.job = NoJob] \in Request
      BY <1>1 DEF Request, CallerPC
    <2>2. caller' = [caller EXCEPT ![h] = [caller[h] EXCEPT !.pc = "idle", !.job = NoJob]]
      BY <1>2 DEF Answer, CallerT
    <2>3. caller'[h].pc = "idle" /\ \A g \in Caller : g # h => caller'[g] = caller[g]
      BY <1>1, <2>2 DEF CallerT, Request
    <2> QED BY <2>1, <2>2, <2>3 DEF CallerT
  <1>3. caller' = [caller EXCEPT ![h].pc = "enqueue"] => CallerT'
    BY <1>1 DEF CallerT, Request, CallerPC
  <1>4. caller[h].pc = "mark" /\ caller' = [caller EXCEPT ![h].pc = "rollback"] => CallerT'
    BY <1>1 DEF CallerT, Request, CallerPC
  <1>5. ASSUME NEW j \in Job, caller' = [caller EXCEPT ![h].pc = "mark", ![h].job = j]
        PROVE  CallerT'
    BY <1>1, <1>5 DEF CallerT, Request, CallerPC
  <1>6. ASSUME NEW c \in Claw, NEW p \in {"enqueue", "count"}, NEW t \in {"install", "uninstall"},
               caller' = [caller EXCEPT ![h] = [pc |-> p, type |-> t, claw |-> c, job |-> NoJob]]
        PROVE  CallerT'
    BY <1>1, <1>6 DEF CallerT, Request, CallerPC
  <1> QED BY <1>2, <1>3, <1>4, <1>5, <1>6

\* The part of the state that no request touches keeps its type.
LEMMA CallerFrameTypes ==
    ASSUME TypeInv, CallerFrame, Moves, jobs' \in [Job -> JobRow], CallerT',
           store' \in [Claw -> Entry], file' \in [Claw -> Entry], behind' \in BOOLEAN,
           left' \in Left
    PROVE  TypeInv'
  <1>1. /\ artifacts' = artifacts /\ worker' = worker /\ seeded' = seeded /\ swept' = swept
        /\ inst' = inst /\ creating' = creating /\ stale' = stale
    BY DEF CallerFrame, bootVars, instVars
  <1>2. WorkerInv'
    BY <1>1, WorkerKept
  <1> QED BY <1>1, <1>2 DEF TypeInv, TypeOK, CallerT, Left

\* A step of install_claw or uninstall_claw keeps the types.
LEMMA CallerStepTypes ==
    ASSUME TypeInv, NEW h \in Caller,
           CallerStep(h) \/ \E c \in Claw : InstallRequest(h, c) \/ UninstallRequest(h, c)
    PROVE  TypeInv'
  <1> USE DEF TypeInv
  <1>1. /\ CallerT /\ left \in Left /\ jobs \in [Job -> JobRow]
        /\ store \in [Claw -> Entry] /\ file \in [Claw -> Entry] /\ behind \in BOOLEAN
    BY DEF TypeOK, CallerT, Left
  <1>2. caller[h] \in Request
    BY <1>1 DEF CallerT
  <1>3. jobs' = jobs => Moves
    BY <1>1, TableMoves
  <1>4. ASSUME NEW c \in Claw, InstallRequest(h, c) \/ UninstallRequest(h, c) PROVE TypeInv'
    <2>1. CallerT'
      BY <1>1, <1>4, CallerTypes DEF InstallRequest, UninstallRequest
    <2>2. UNCHANGED <<storeVars, jobs, left>> /\ CallerFrame
      BY <1>4 DEF InstallRequest, UninstallRequest
    <2> QED BY <1>1, <1>3, <2>1, <2>2, CallerFrameTypes DEF storeVars
  <1>5. CASE UninstallCount(h)
    <2>1. CallerT'
      BY <1>1, <1>5, CallerTypes DEF UninstallCount
    <2>2. UNCHANGED <<storeVars, jobs, left>> /\ CallerFrame
      BY <1>5 DEF UninstallCount
    <2> QED BY <1>1, <1>3, <2>1, <2>2, CallerFrameTypes DEF storeVars
  <1>6. CASE Enqueue(h)
    <2>1. UNCHANGED storeVars /\ CallerFrame
      BY <1>6 DEF Enqueue
    <2>2. CASE TableFault /\ Answer(h) /\ UNCHANGED jobs
      BY <1>1, <1>3, <2>1, <2>2, CallerTypes, FaultTypes, CallerFrameTypes DEF storeVars
    <2>3. CASE \E j \in Job : /\ NoFault
                              /\ jobs[j].status = "none"
                              /\ create_job(j, caller[h].type, caller[h].claw)
                              /\ caller' = [caller EXCEPT ![h].pc = "mark", ![h].job = j]
      <3>1. PICK j \in Job : /\ NoFault
                             /\ jobs[j].status = "none"
                             /\ create_job(j, caller[h].type, caller[h].claw)
                             /\ caller' = [caller EXCEPT ![h].pc = "mark", ![h].job = j]
        BY <2>3
      <3>2. PICK t \in {"install", "uninstall"}, c \in Claw :
                t = caller[h].type /\ c = caller[h].claw
        BY <1>2 DEF Request
      <3>3. /\ jobs' \in [Job -> JobRow] /\ jobs'[j].status = "pending"
            /\ \A k \in Job : k # j => jobs'[k] = jobs[k]
        BY <1>1, <3>1, <3>2, CreateJobType
      <3>4. Moves
        BY <3>1, <3>3 DEF Moves
      <3>5. CallerT'
        BY <1>1, <3>1, CallerTypes
      <3> QED BY <1>1, <2>1, <3>1, <3>3, <3>4, <3>5, FaultTypes, CallerFrameTypes
              DEF storeVars
    <2> QED BY <1>6, <2>2, <2>3 DEF Enqueue
  <1>7. CASE Mark(h)
    <2>1. caller[h].pc = "mark" /\ UNCHANGED jobs /\ CallerFrame /\ caller[h].claw \in Claw
      BY <1>2, <1>7 DEF Mark, Request
    <2>2. PICK entry \in Entry :
              \/ set_state(caller[h].claw, entry) /\ Answer(h)
              \/ /\ set_state_error(caller[h].claw, entry)
                 /\ caller' = [caller EXCEPT ![h].pc = "rollback"]
      <3>1. [status |-> "Installing", job |-> caller[h].job] \in Entry
        BY <1>2 DEF Entry, Status, Request
      <3>2. Plain("Uninstalling") \in Entry
        BY Plains DEF Status
      <3> QED BY <1>7, <3>1, <3>2 DEF Mark
    <2>3. CallerT'
      BY <1>1, <2>1, <2>2, CallerTypes
    <2>4. /\ store' \in [Claw -> Entry] /\ file' \in [Claw -> Entry]
          /\ behind' \in BOOLEAN /\ left' \in Left
      BY <2>1, <2>2, MarkTypes
    <2> QED BY <1>1, <1>3, <2>1, <2>3, <2>4, CallerFrameTypes
  <1>8. CASE Rollback(h)
    <2>1. caller[h].pc = "rollback" /\ UNCHANGED storeVars /\ CallerFrame /\ Answer(h)
      BY <1>8 DEF Rollback
    <2>2. caller[h].job \in Job
      BY <1>1, <2>1 DEF CallerT
    <2>3. \/ NoFault /\ jobs' = update_job(caller[h].job, "deleted")
          \/ TableFault /\ UNCHANGED jobs
      BY <1>8 DEF Rollback
    <2>4. jobs' \in [Job -> JobRow] /\ Moves
      BY <1>1, <1>3, <2>2, <2>3, TableTypes, TableMoves
    <2>5. left' \in Left
      BY <1>1, <2>3, FaultTypes
    <2> QED BY <1>1, <2>1, <2>4, <2>5, CallerTypes, CallerFrameTypes DEF storeVars
  <1> QED BY <1>4, <1>5, <1>6, <1>7, <1>8 DEF CallerStep

\* The part of the state that the worker never touches keeps its type.
LEMMA WorkerFrameTypes ==
    ASSUME TypeInv, WorkerFrame, jobs' \in [Job -> JobRow], artifacts' \subseteq Claw,
           store' \in [Claw -> Entry], file' \in [Claw -> Entry], behind' \in BOOLEAN,
           left' \in Left, worker' \in InstallWorker,
           worker'.pc \in Busy => worker'.job \in Job, WorkerInv'
    PROVE  TypeInv'
  BY DEF TypeInv, TypeOK, WorkerFrame, Left, bootVars, instVars, Busy

\* A step of the install worker keeps the types.
LEMMA WorkerStepTypes ==
    ASSUME TypeInv, WorkerStep
    PROVE  TypeInv'
  <1> USE DEF TypeInv
  <1>1. /\ left \in Left /\ jobs \in [Job -> JobRow] /\ worker \in InstallWorker
        /\ store \in [Claw -> Entry] /\ file \in [Claw -> Entry] /\ behind \in BOOLEAN
        /\ artifacts \subseteq Claw
    BY DEF TypeOK, Left
  <1>2. worker.pc \in Busy => worker.job \in Job
    BY DEF TypeOK, Busy
  <1>3. CASE ResetClaws
    <2> DEFINE next == [c \in Claw |->
                  IF store[c].status \in {"Installing", "Uninstalling"}
                  THEN [store[c] EXCEPT !.status = "Failed"] ELSE store[c]]
    <2>1. \A c \in Claw : [store[c] EXCEPT !.status = "Failed"] \in Entry
      BY <1>1 DEF Entry, Status
    <2>2. next \in [Claw -> Entry]
      BY <1>1, <2>1
    <2>3. CommitThenPersist(next)
      BY <1>3 DEF ResetClaws
    <2>4. /\ store' \in [Claw -> Entry] /\ file' \in [Claw -> Entry] /\ behind' \in BOOLEAN
          /\ left' \in Left
      <3> HIDE DEF next
      <3> QED BY <2>2, <2>3, CommitTypes
    <2>5. worker.pc = "start" /\ worker' = [worker EXCEPT !.pc = "reset"]
          /\ artifacts' = artifacts /\ jobs' = jobs /\ WorkerFrame
      BY <1>3 DEF ResetClaws
    <2>6. worker' \in InstallWorker /\ worker'.pc = "reset" /\ worker'.job = worker.job
      BY <1>1, <2>5 DEF InstallWorker, WorkerPC
    <2>7. WorkerInv' /\ worker'.pc \notin Busy
      BY <2>5, <2>6 DEF WorkerInv, Busy
    <2> QED BY <1>1, <2>4, <2>5, <2>6, <2>7, WorkerFrameTypes
  <1>4. CASE ResetJobs
    <2>1. worker.pc = "reset" /\ worker' = [worker EXCEPT !.pc = "idle"]
          /\ UNCHANGED <<storeVars, artifacts>> /\ WorkerFrame
      BY <1>4 DEF ResetJobs
    <2>2. jobs' \in [Job -> JobRow] /\ left' \in Left
      BY <1>1, <1>4, FaultTypes, TableTypes DEF ResetJobs, reset_stale_install_jobs
    <2>3. worker' \in InstallWorker /\ worker'.pc = "idle" /\ worker'.job = worker.job
      BY <1>1, <2>1 DEF InstallWorker, WorkerPC
    <2>4. WorkerInv' /\ worker'.pc \notin Busy
      BY <2>1, <2>3 DEF WorkerInv, Busy
    <2> QED BY <1>1, <2>1, <2>2, <2>3, <2>4, WorkerFrameTypes DEF storeVars
  <1>5. ASSUME NEW j \in Job, ClaimJob(j) PROVE TypeInv'
    <2>1. worker' = [worker EXCEPT !.pc = "message", !.job = j, !.seen = "none"]
          /\ jobs' = [jobs EXCEPT ![j].status = "running"]
          /\ UNCHANGED <<storeVars, artifacts, left>> /\ WorkerFrame
      BY <1>5 DEF ClaimJob
    <2>2. jobs' \in [Job -> JobRow] /\ jobs'[j].status = "running"
      BY <1>1, <2>1 DEF JobRow
    <2>3. worker' \in InstallWorker /\ worker'.pc = "message" /\ worker'.job = j
      BY <1>1, <2>1 DEF InstallWorker, WorkerPC
    <2>4. WorkerInv'
      BY <2>2, <2>3 DEF WorkerInv
    <2> QED BY <1>1, <2>1, <2>2, <2>3, <2>4, WorkerFrameTypes DEF storeVars
  <1>6. CASE RefuseInstall
    <2>1. worker.pc = "message" /\ worker' = [worker EXCEPT !.pc = "mark", !.ok = FALSE]
          /\ UNCHANGED <<storeVars, artifacts, jobs, left>> /\ WorkerFrame
      BY <1>6 DEF RefuseInstall
    <2>2. worker' \in InstallWorker /\ worker'.pc = "mark" /\ worker'.job = worker.job
      BY <1>1, <2>1 DEF InstallWorker, WorkerPC
    <2>3. WorkerInv' /\ worker'.job \in Job
      BY <1>2, <2>1, <2>2 DEF WorkerInv, Busy
    <2> QED BY <1>1, <2>1, <2>2, <2>3, WorkerFrameTypes DEF storeVars
  <1>7. CASE ReadMessage
    <2>1. worker.pc = "message" /\ worker.job \in Job
          /\ UNCHANGED <<storeVars, artifacts, jobs, left>> /\ WorkerFrame
      BY <1>2, <1>7 DEF ReadMessage, Busy
    <2>2. jobs[worker.job].status \in {"running", "failed", "deleted"}
      BY <2>1 DEF WorkerInv
    <2>3. CASE jobs[worker.job].status = "deleted"
      <3>1. worker' = [worker EXCEPT !.pc = "work"]
        BY <1>7, <2>3 DEF ReadMessage
      <3>2. worker' \in InstallWorker /\ worker'.pc = "work" /\ worker'.job = worker.job
        BY <1>1, <3>1 DEF InstallWorker, WorkerPC
      <3>3. WorkerInv' /\ worker'.job \in Job
        BY <2>1, <2>2, <3>2 DEF WorkerInv, Busy
      <3> QED BY <1>1, <2>1, <3>2, <3>3, WorkerFrameTypes DEF storeVars
    <2>4. CASE jobs[worker.job].status # "deleted"
      <3>1. worker' = [worker EXCEPT !.seen = jobs[worker.job].status]
        BY <1>7, <2>4 DEF ReadMessage
      <3>2. worker' \in InstallWorker /\ worker'.pc = "message" /\ worker'.job = worker.job
        BY <1>1, <2>1, <2>2, <2>4, <3>1 DEF InstallWorker, WorkerPC
      <3>3. WorkerInv' /\ worker'.job \in Job
        BY <2>1, <2>2, <3>2 DEF WorkerInv, Busy
      <3> QED BY <1>1, <2>1, <3>2, <3>3, WorkerFrameTypes DEF storeVars
    <2> QED BY <2>3, <2>4
  <1>8. CASE WriteMessage
    <2>1. worker.pc = "message" /\ worker.job \in Job /\ worker.seen \in {"running", "failed"}
          /\ worker' = [worker EXCEPT !.pc = "work", !.seen = "none"]
          /\ UNCHANGED <<storeVars, artifacts>> /\ WorkerFrame
      BY <1>1, <1>2, <1>8 DEF WriteMessage, Busy, InstallWorker
    <2>2. \/ NoFault /\ jobs' = update_job(worker.job, worker.seen)
          \/ TableFault /\ UNCHANGED jobs
      BY <1>8 DEF WriteMessage
    <2>3. jobs' \in [Job -> JobRow] /\ left' \in Left
      BY <1>1, <2>1, <2>2, FaultTypes, TableTypes
    <2>4. worker' \in InstallWorker /\ worker'.pc = "work" /\ worker'.job = worker.job
      BY <1>1, <2>1 DEF InstallWorker, WorkerPC
    <2>5. jobs[worker.job].status # "none"
      BY <2>1 DEF WorkerInv, Busy
    <2>6. jobs'[worker.job].status # "none"
      BY <1>1, <2>1, <2>2, <2>5 DEF update_job, JobRow
    <2>7. WorkerInv'
      BY <2>4, <2>6 DEF WorkerInv, Busy
    <2> QED BY <1>1, <2>1, <2>3, <2>4, <2>7, WorkerFrameTypes DEF storeVars
  <1>9. CASE Work
    <2>1. worker.pc = "work" /\ worker.job \in Job
          /\ UNCHANGED <<storeVars, jobs, left>> /\ WorkerFrame
      BY <1>2, <1>9 DEF Work, Busy
    <2>2. jobs[worker.job].claw \in Claw
      BY <1>1, <2>1 DEF JobRow
    <2>3. PICK ok \in BOOLEAN : worker' = [worker EXCEPT !.pc = "mark", !.ok = ok]
      BY <1>9 DEF Work
    <2>4. artifacts' \subseteq Claw
      BY <1>1, <1>9, <2>2 DEF Work
    <2>5. worker' \in InstallWorker /\ worker'.pc = "mark" /\ worker'.job = worker.job
      BY <1>1, <2>3 DEF InstallWorker, WorkerPC
    <2>6. WorkerInv'
      BY <2>1, <2>5 DEF WorkerInv, Busy
    <2> QED BY <1>1, <2>1, <2>4, <2>5, <2>6, WorkerFrameTypes DEF storeVars
  <1>10. CASE MarkClaw
    <2>1. worker.pc = "mark" /\ worker.job \in Job
          /\ worker' = [worker EXCEPT !.pc = "markJob"]
          /\ UNCHANGED <<artifacts, jobs>> /\ WorkerFrame
      BY <1>2, <1>10 DEF MarkClaw, Busy
    <2>2. jobs[worker.job].claw \in Claw
      BY <1>1, <2>1 DEF JobRow
    <2>3. PICK entry \in Entry : \/ set_state(jobs[worker.job].claw, entry)
                                 \/ set_state_error(jobs[worker.job].claw, entry)
      BY <1>10, Plains DEF MarkClaw, Status
    <2>4. /\ store' \in [Claw -> Entry] /\ file' \in [Claw -> Entry]
          /\ behind' \in BOOLEAN /\ left' \in Left
      BY <2>2, <2>3, MarkTypes
    <2>5. worker' \in InstallWorker /\ worker'.pc = "markJob" /\ worker'.job = worker.job
      BY <1>1, <2>1 DEF InstallWorker, WorkerPC
    <2>6. WorkerInv'
      BY <2>1, <2>5 DEF WorkerInv, Busy
    <2> QED BY <1>1, <2>1, <2>4, <2>5, <2>6, WorkerFrameTypes
  <1>11. CASE MarkJob
    <2>1. worker.pc = "markJob" /\ worker.job \in Job
          /\ worker' = [StartWorker EXCEPT !.pc = "idle"]
          /\ UNCHANGED <<storeVars, artifacts>> /\ WorkerFrame
      BY <1>2, <1>11 DEF MarkJob, Busy
    <2>2. jobs' \in [Job -> JobRow] /\ left' \in Left
      BY <1>1, <1>11, <2>1, FaultTypes, TableTypes DEF MarkJob
    <2>3. worker' \in InstallWorker /\ worker'.pc = "idle" /\ worker'.job = NoJob
      BY <2>1 DEF InstallWorker, WorkerPC, StartWorker
    <2>4. WorkerInv' /\ worker'.pc \notin Busy
      BY <2>3 DEF WorkerInv, Busy
    <2> QED BY <1>1, <2>1, <2>2, <2>3, <2>4, WorkerFrameTypes DEF storeVars
  <1> QED BY <1>3, <1>4, <1>5, <1>6, <1>7, <1>8, <1>9, <1>10, <1>11 DEF WorkerStep

\* Start-up, instances coming and going, and a crash keep the types.
LEMMA OtherStepTypes ==
    ASSUME TypeInv, BootStep \/ (\E c \in Claw : InstStep(c)) \/ Crash
    PROVE  TypeInv'
  <1> USE DEF TypeInv
  <1>1. /\ left \in Left /\ jobs \in [Job -> JobRow] /\ worker \in InstallWorker
        /\ store \in [Claw -> Entry] /\ file \in [Claw -> Entry] /\ behind \in BOOLEAN
        /\ artifacts \subseteq Claw /\ CallerT
    BY DEF TypeOK, Left, CallerT
  <1>2. CASE SeedFromAssets
    <2> DEFINE next == [c \in Claw |->
                  IF store[c].status \in {"NotInstalled", "Failed"}
                     /\ c \in artifacts \cap Supported
                  THEN Plain("Ready") ELSE store[c]]
    <2>1. Plain("Ready") \in Entry
      BY Plains DEF Status
    <2>2. next \in [Claw -> Entry]
      BY <1>1, <2>1
    <2>3. CommitThenPersist(next)
      BY <1>2 DEF SeedFromAssets
    <2>4. /\ store' \in [Claw -> Entry] /\ file' \in [Claw -> Entry] /\ behind' \in BOOLEAN
          /\ left' \in Left
      <3> HIDE DEF next
      <3> QED BY <2>2, <2>3, CommitTypes
    <2>5. /\ seeded' = TRUE
          /\ UNCHANGED <<artifacts, jobs, caller, worker, swept, instVars, stale>>
      BY <1>2 DEF SeedFromAssets
    <2>6. WorkerInv'
      BY <1>1, <2>5, TableMoves, WorkerKept
    <2> QED BY <2>4, <2>5, <2>6 DEF TypeOK, Left, instVars
  <1>3. CASE FailRunningJobs
    <2>1. /\ swept' = TRUE
          /\ UNCHANGED <<storeVars, artifacts, caller, worker, seeded, instVars, stale>>
      BY <1>3 DEF FailRunningJobs
    <2>2. \/ NoFault /\ jobs' = FailAll({"running"})
          \/ TableFault /\ UNCHANGED jobs
      BY <1>3 DEF FailRunningJobs
    <2>3. jobs' \in [Job -> JobRow] /\ left' \in Left
      BY <1>1, <2>2, FaultTypes, TableTypes
    <2>4. Moves
      BY <1>1, <2>2, TableMoves
    <2>5. WorkerInv'
      BY <2>1, <2>4, WorkerKept
    <2> QED BY <2>1, <2>3, <2>5 DEF TypeOK, Left, instVars, storeVars
  <1>4. ASSUME NEW c \in Claw, InstStep(c) PROVE TypeInv'
    <2>1. InstFrame /\ inst' \subseteq Claw /\ creating' \subseteq Claw
      BY <1>4 DEF InstStep, CreateGate, CreateInsert, DeleteInstance, TypeOK
    <2>2. UNCHANGED <<storeVars, artifacts, jobs, caller, worker, bootVars, left, stale>>
      BY <2>1 DEF InstFrame
    <2>3. WorkerInv'
      BY <1>1, <2>2, TableMoves, WorkerKept
    <2> QED BY <2>1, <2>2, <2>3 DEF TypeOK, storeVars, bootVars
  <1>5. CASE Crash
    <2>1. /\ store' = file /\ behind' = FALSE /\ worker' = StartWorker
          /\ seeded' = FALSE /\ swept' = FALSE /\ creating' = {}
          /\ UNCHANGED <<file, artifacts, jobs, inst>>
      BY <1>5 DEF Crash
    <2>2. stale' \subseteq Job
      BY <1>5 DEF Crash
    <2>3. left' \in Left
      BY <1>1, <1>5 DEF Crash, Left
    <2>4. \A h \in Caller : IdleCaller(h) \in Request /\ IdleCaller(h).pc = "idle"
      BY <1>1 DEF IdleCaller, CallerT, Request, CallerPC
    <2>5. CallerT'
      BY <1>5, <2>4 DEF Crash, CallerT
    <2>6. worker' \in InstallWorker /\ worker'.pc = "start" /\ worker'.job = NoJob
      BY <2>1 DEF StartWorker, InstallWorker, WorkerPC
    <2>7. WorkerInv'
      BY <2>6 DEF WorkerInv, Busy
    <2> QED BY <2>1, <2>2, <2>3, <2>5, <2>6, <2>7 DEF TypeOK, CallerT, Left
  <1> QED BY <1>2, <1>3, <1>4, <1>5 DEF BootStep

\* The type invariant is inductive.
LEMMA TypeStep ==
    ASSUME TypeInv, [Next]_vars
    PROVE  TypeInv'
  <1>1. CASE UNCHANGED vars
    BY <1>1 DEF vars, TypeInv, TypeOK, WorkerInv
  <1>2. CASE Next
    BY <1>2, CallerStepTypes, WorkerStepTypes, OtherStepTypes DEF Next
  <1> QED BY <1>1, <1>2

\* The first process starts well typed.
LEMMA TypeInitially == Init => TypeInv
  <1> SUFFICES ASSUME Init PROVE TypeInv
    OBVIOUS
  <1>1. PICK c0 \in Claw :
          /\ jobs = [j \in Job |-> [status |-> "none", type |-> "install", claw |-> c0,
                                    created |-> 0]]
          /\ caller = [h \in Caller |-> [pc |-> "idle", type |-> "install", claw |-> c0,
                                         job |-> NoJob]]
    BY DEF Init
  <1>2. Plain("NotInstalled") \in Entry
    BY Plains DEF Status
  <1>3. store \in [Claw -> Entry] /\ file \in [Claw -> Entry]
    BY <1>2 DEF Init
  <1>4. jobs \in [Job -> JobRow]
    BY <1>1 DEF JobRow
  <1>5. CallerT
    BY <1>1 DEF CallerT, Request, CallerPC
  <1>6. worker = StartWorker
    BY DEF Init
  <1>7. worker \in InstallWorker /\ worker.pc = "start" /\ worker.job = NoJob
    BY <1>6 DEF StartWorker, InstallWorker, WorkerPC
  <1>8. WorkerInv
    BY <1>7 DEF WorkerInv, Busy
  <1>9. /\ artifacts \subseteq Claw /\ seeded = FALSE /\ swept = FALSE /\ inst = {}
        /\ creating = {} /\ behind = FALSE /\ stale = {} /\ left \in Left
    BY LimitAssumption DEF Init, Left
  <1> QED BY <1>3, <1>4, <1>5, <1>7, <1>8, <1>9 DEF TypeInv, TypeOK, CallerT, Left

\* The strengthened type invariant holds throughout.
LEMMA TypeAlways == Spec => []TypeInv
  BY TypeInitially, TypeStep, PTL DEF Spec

\* Every reachable state of the claw installation has its type, for any number of
\* claw types, jobs and handlers and any number of faults.
THEOREM TypeCorrect == Spec => []TypeOK
  BY TypeAlways, PTL DEF TypeInv

-----------------------------------------------------------------------------
(* The store and its file.                                                 *)

\* The store and its file change together: in set_state both or neither, in the
\* start-up writes with a note when the file lags behind.
LEMMA MatchStep ==
    ASSUME StoreMatchesFile, [Next]_vars
    PROVE  StoreMatchesFile'
  <1>1. ASSUME NEW c, NEW entry, set_state(c, entry) \/ set_state_error(c, entry)
        PROVE  StoreMatchesFile'
    BY <1>1 DEF StoreMatchesFile, set_state, set_state_error, storeVars
  <1>2. ASSUME NEW next, CommitThenPersist(next)
        PROVE  StoreMatchesFile'
    BY <1>2 DEF StoreMatchesFile, CommitThenPersist
  <1>3. UNCHANGED storeVars => StoreMatchesFile'
    BY DEF StoreMatchesFile, storeVars
  <1>4. ASSUME NEW h \in Caller, CallerStep(h) PROVE StoreMatchesFile'
    <2>1. CASE Mark(h)
      BY <1>1, <2>1 DEF Mark
    <2>2. CASE UninstallCount(h) \/ Enqueue(h) \/ Rollback(h)
      BY <1>3, <2>2 DEF UninstallCount, Enqueue, Rollback, storeVars
    <2> QED BY <1>4, <2>1, <2>2 DEF CallerStep
  <1>5. ASSUME NEW h \in Caller, NEW c \in Claw, InstallRequest(h, c) \/ UninstallRequest(h, c)
        PROVE  StoreMatchesFile'
    BY <1>3, <1>5 DEF InstallRequest, UninstallRequest, storeVars
  <1>6. CASE WorkerStep
    <2>1. CASE ResetClaws
      BY <1>2, <2>1 DEF ResetClaws
    <2>2. CASE MarkClaw
      BY <1>1, <2>2 DEF MarkClaw
    <2>3. CASE ResetJobs \/ (\E j \in Job : ClaimJob(j)) \/ RefuseInstall \/ ReadMessage
               \/ WriteMessage \/ Work \/ MarkJob
      BY <1>3, <2>3 DEF ResetJobs, ClaimJob, RefuseInstall, ReadMessage, WriteMessage, Work,
                        MarkJob, storeVars
    <2> QED BY <1>6, <2>1, <2>2, <2>3 DEF WorkerStep
  <1>7. CASE BootStep
    BY <1>2, <1>3, <1>7 DEF BootStep, SeedFromAssets, FailRunningJobs, storeVars
  <1>8. ASSUME NEW c \in Claw, InstStep(c) PROVE StoreMatchesFile'
    BY <1>3, <1>8 DEF InstStep, CreateGate, CreateInsert, DeleteInstance, InstFrame, storeVars
  <1>9. CASE Crash
    BY <1>9 DEF Crash, StoreMatchesFile
  <1>10. CASE UNCHANGED vars
    BY <1>3, <1>10 DEF vars, storeVars
  <1> QED BY <1>4, <1>5, <1>6, <1>7, <1>8, <1>9, <1>10 DEF Next

\* What the claw store answers is what a restart would read, unless a start-up
\* write failed and nothing has been written since: persist-before-commit.
THEOREM StoreDurable == Spec => []StoreMatchesFile
  <1>1. Init => StoreMatchesFile
    BY DEF Init, StoreMatchesFile
  <1> QED BY <1>1, MatchStep, PTL DEF Spec

-----------------------------------------------------------------------------
(* Recovery of the jobs table.                                             *)

\* Jobs of an earlier process are not claimable once the recovery is through, the
\* worker has none of them, and a running job is the worker's or waits for the
\* recovery.
RecoveryInv ==
    /\ left.table <= MaxTableFaults
    /\ \A j \in stale : jobs[j].status # "none"
    /\ NoStaleJobRun
    /\ RunningJobHeld
    /\ TableSound /\ worker.pc \notin {"start", "reset"} =>
          \A j \in stale : jobs[j].status \notin {"pending", "running"}

\* A failed call on the table ends what is promised of it.
LEMMA RecoveryFaulted ==
    ASSUME TypeInv, RecoveryInv, TableFault, jobs' = jobs, stale' = stale
    PROVE  RecoveryInv'
  <1>1. left \in Left
    BY DEF TypeInv, TypeOK, Left
  <1>2. left'.table = left.table - 1 /\ left.table \in Nat
    BY <1>1, FaultTypes DEF Left
  <1>3. left'.table <= MaxTableFaults /\ left'.table # MaxTableFaults
    BY <1>2, LimitAssumption DEF RecoveryInv
  <1> QED BY <1>3 DEF RecoveryInv, NoStaleJobRun, RunningJobHeld, TableSound

\* A step of another task, or one of the worker that leaves the table alone.
LEMMA RecoveryKept ==
    ASSUME TypeInv, RecoveryInv, Moves, left'.table = left.table, stale' = stale,
           worker'.job = worker.job,
           worker'.pc \in {"start", "reset"} <=> worker.pc \in {"start", "reset"}
    PROVE  RecoveryInv'
  <1>1. stale \subseteq Job
    BY DEF TypeInv, TypeOK
  <1>2. TableSound' = TableSound
    BY DEF TableSound
  <1>3. \A j \in stale : jobs'[j].status # "none"
    BY <1>1 DEF RecoveryInv, Moves
  <1>4. NoStaleJobRun'
    BY <1>2 DEF RecoveryInv, NoStaleJobRun
  <1>5. \A j \in Job : jobs'[j].status = "running" => jobs[j].status = "running"
    BY DEF Moves
  <1>6. RunningJobHeld'
    BY <1>2, <1>5 DEF RecoveryInv, RunningJobHeld
  <1>7. \A j \in stale : jobs[j].status \notin {"pending", "running"} =>
                         jobs'[j].status \notin {"pending", "running"}
    BY <1>1 DEF RecoveryInv, Moves
  <1> QED BY <1>2, <1>3, <1>4, <1>6, <1>7 DEF RecoveryInv

\* Requests and their rollbacks keep the recovery invariant.
LEMMA CallerRecovery ==
    ASSUME TypeInv, RecoveryInv, NEW h \in Caller,
           CallerStep(h) \/ \E c \in Claw : InstallRequest(h, c) \/ UninstallRequest(h, c)
    PROVE  RecoveryInv'
  <1>1. left \in Left /\ jobs \in [Job -> JobRow] /\ caller[h] \in Request
        /\ (caller[h].pc = "rollback" => caller[h].job \in Job)
    BY DEF TypeInv, TypeOK, Left
  <1>2. CallerFrame
    BY DEF CallerStep, InstallRequest, UninstallRequest, UninstallCount, Enqueue, Mark, Rollback
  <1>3. worker' = worker /\ stale' = stale
    BY <1>2 DEF CallerFrame
  <1>4. ASSUME UNCHANGED jobs, left'.table = left.table PROVE RecoveryInv'
    BY <1>1, <1>3, <1>4, TableMoves, RecoveryKept
  <1>5. ASSUME NEW c \in Claw, InstallRequest(h, c) \/ UninstallRequest(h, c) PROVE RecoveryInv'
    BY <1>4, <1>5 DEF InstallRequest, UninstallRequest
  <1>6. CASE UninstallCount(h)
    BY <1>4, <1>6 DEF UninstallCount
  <1>7. CASE Enqueue(h)
    <2>1. CASE TableFault /\ UNCHANGED jobs
      BY <1>3, <2>1, RecoveryFaulted
    <2>2. CASE \E j \in Job : /\ NoFault
                              /\ jobs[j].status = "none"
                              /\ create_job(j, caller[h].type, caller[h].claw)
      <3>1. PICK j \in Job : /\ NoFault
                             /\ jobs[j].status = "none"
                             /\ create_job(j, caller[h].type, caller[h].claw)
        BY <2>2
      <3>2. PICK t \in {"install", "uninstall"}, c \in Claw :
                t = caller[h].type /\ c = caller[h].claw
        BY <1>1 DEF Request
      <3>3. /\ jobs'[j].status = "pending"
            /\ \A k \in Job : k # j => jobs'[k] = jobs[k]
        BY <1>1, <3>1, <3>2, CreateJobType
      <3>4. Moves
        BY <3>1, <3>3 DEF Moves
      <3> QED BY <1>3, <3>1, <3>4, RecoveryKept DEF NoFault
    <2> QED BY <1>7, <2>1, <2>2 DEF Enqueue
  <1>8. CASE Mark(h)
    <2>1. NoFault \/ FileFault
      BY <1>8 DEF Mark, set_state, set_state_error
    <2>2. left'.table = left.table
      BY <1>1, <2>1, FaultTypes
    <2>3. UNCHANGED jobs
      BY <1>8 DEF Mark
    <2> QED BY <1>4, <2>2, <2>3
  <1>9. CASE Rollback(h)
    <2>1. CASE TableFault /\ UNCHANGED jobs
      BY <1>3, <2>1, RecoveryFaulted
    <2>2. CASE NoFault /\ jobs' = update_job(caller[h].job, "deleted")
      <3>1. caller[h].job \in Job
        BY <1>1, <1>9 DEF Rollback
      <3> QED BY <1>1, <1>3, <2>2, <3>1, TableMoves, RecoveryKept DEF NoFault
    <2> QED BY <1>9, <2>1, <2>2 DEF Rollback
  <1> QED BY <1>5, <1>6, <1>7, <1>8, <1>9 DEF CallerStep

\* The resets, a claim and every later step of the install worker keep the recovery
\* invariant.
LEMMA WorkerRecovery ==
    ASSUME TypeInv, RecoveryInv, WorkerStep
    PROVE  RecoveryInv'
  <1>1. left \in Left /\ jobs \in [Job -> JobRow] /\ worker \in InstallWorker
        /\ stale \subseteq Job
    BY DEF TypeInv, TypeOK, Left
  <1>2. worker.pc \in Busy => worker.job \in Job
    BY DEF TypeInv, TypeOK, Busy
  <1>3. worker.pc \notin Busy => worker.job = NoJob
    BY <1>1 DEF TypeInv, WorkerInv, Busy, InstallWorker, WorkerPC
  <1>4. stale' = stale
    BY DEF WorkerStep, ResetClaws, ResetJobs, ClaimJob, RefuseInstall, ReadMessage,
           WriteMessage, Work, MarkClaw, MarkJob, WorkerFrame
  <1>5. ASSUME TableFault, UNCHANGED jobs PROVE RecoveryInv'
    BY <1>4, <1>5, RecoveryFaulted
  <1>6. ASSUME UNCHANGED jobs, left'.table = left.table, worker'.job = worker.job,
               worker'.pc \in {"start", "reset"} <=> worker.pc \in {"start", "reset"}
        PROVE  RecoveryInv'
    BY <1>1, <1>4, <1>6, TableMoves, RecoveryKept
  <1>7. CASE ResetClaws
    <2>1. NoFault \/ FileFault
      BY <1>7 DEF ResetClaws, CommitThenPersist
    <2>2. left'.table = left.table
      BY <1>1, <2>1, FaultTypes
    <2>3. jobs' = jobs /\ worker.pc = "start" /\ worker' = [worker EXCEPT !.pc = "reset"]
      BY <1>7 DEF ResetClaws
    <2>4. worker'.job = worker.job /\ worker'.pc = "reset"
      BY <1>1, <2>3 DEF InstallWorker
    <2> QED BY <1>6, <2>2, <2>3, <2>4
  <1>8. CASE ResetJobs
    <2>1. worker.pc = "reset" /\ worker' = [worker EXCEPT !.pc = "idle"]
      BY <1>8 DEF ResetJobs
    <2>2. worker'.job = NoJob
      BY <1>1, <1>3, <2>1 DEF InstallWorker, Busy
    <2>3. CASE NoFault /\ jobs' = reset_stale_install_jobs
      <3>1. ASSUME NEW j \in Job
            PROVE  /\ jobs'[j].status \notin {"pending", "running"}
                   /\ jobs[j].status # "none" => jobs'[j].status # "none"
        <4>1. jobs'[j] = IF jobs[j].status \in {"pending", "running"}
                         THEN [jobs[j] EXCEPT !.status = "failed"] ELSE jobs[j]
          BY <2>3 DEF reset_stale_install_jobs, FailAll
        <4>2. [jobs[j] EXCEPT !.status = "failed"].status = "failed"
          BY <1>1 DEF JobRow
        <4> QED BY <4>1, <4>2
      <3>2. NoJob \notin stale
        BY <1>1, ClawAssumption
      <3>3. left' = left
        BY <2>3 DEF NoFault
      <3>4. RunningJobHeld'
        BY <3>1 DEF RunningJobHeld
      <3>5. NoStaleJobRun'
        BY <1>4, <2>2, <3>2 DEF NoStaleJobRun
      <3> QED BY <1>1, <1>4, <3>1, <3>3, <3>4, <3>5 DEF RecoveryInv
    <2> QED BY <1>5, <1>8, <2>3 DEF ResetJobs
  <1>9. ASSUME NEW j \in Job, ClaimJob(j) PROVE RecoveryInv'
    <2>1. worker.pc = "idle" /\ jobs[j].status = "pending" /\ left' = left
          /\ worker' = [worker EXCEPT !.pc = "message", !.job = j, !.seen = "none"]
          /\ jobs' = [jobs EXCEPT ![j].status = "running"]
      BY <1>9 DEF ClaimJob, Claimable
    <2>2. worker'.job = j /\ worker'.pc = "message"
      BY <1>1, <2>1 DEF InstallWorker
    <2>3. jobs'[j].status = "running" /\ \A k \in Job : k # j => jobs'[k] = jobs[k]
      BY <1>1, <2>1 DEF JobRow
    <2>4. TableSound' = TableSound
      BY <2>1 DEF TableSound
    <2>5. TableSound => j \notin stale
      BY <2>1 DEF RecoveryInv
    <2>6. NoStaleJobRun'
      BY <1>4, <2>2, <2>4, <2>5 DEF NoStaleJobRun
    <2>7. RunningJobHeld'
      <3>1. ASSUME TableSound, NEW k \in Job, jobs'[k].status = "running" PROVE k = j
        <4>1. SUFFICES ASSUME k # j PROVE FALSE
          OBVIOUS
        <4>2. worker.job = k
          BY <2>1, <2>3, <3>1, <4>1 DEF RecoveryInv, RunningJobHeld
        <4> QED BY <1>3, <2>1, <4>2, ClawAssumption DEF Busy
      <3> QED BY <2>2, <2>4, <3>1 DEF RunningJobHeld
    <2>8. \A k \in stale : jobs'[k].status # "none"
      BY <1>1, <2>3 DEF RecoveryInv
    <2>9. TableSound => \A k \in stale : jobs'[k].status \notin {"pending", "running"}
      BY <1>1, <2>1, <2>3, <2>5 DEF RecoveryInv
    <2> QED BY <1>4, <2>1, <2>4, <2>6, <2>7, <2>8, <2>9 DEF RecoveryInv
  <1>10. CASE RefuseInstall
    <2>1. worker.pc = "message" /\ worker' = [worker EXCEPT !.pc = "mark", !.ok = FALSE]
          /\ jobs' = jobs /\ left' = left
      BY <1>10 DEF RefuseInstall
    <2>2. worker'.job = worker.job /\ worker'.pc = "mark"
      BY <1>1, <2>1 DEF InstallWorker
    <2> QED BY <1>6, <2>1, <2>2
  <1>11. CASE ReadMessage
    <2>1. worker.pc = "message" /\ jobs' = jobs /\ left' = left
      BY <1>11 DEF ReadMessage
    <2>2. worker'.job = worker.job /\ worker'.pc \in {"message", "work"}
      BY <1>1, <1>11, <2>1 DEF ReadMessage, InstallWorker
    <2> QED BY <1>6, <2>1, <2>2
  <1>12. CASE Work
    <2>1. PICK ok \in BOOLEAN : worker' = [worker EXCEPT !.pc = "mark", !.ok = ok]
      BY <1>12 DEF Work
    <2>2. worker.pc = "work" /\ jobs' = jobs /\ left' = left
      BY <1>12 DEF Work
    <2>3. worker'.job = worker.job /\ worker'.pc = "mark"
      BY <1>1, <2>1 DEF InstallWorker
    <2> QED BY <1>6, <2>2, <2>3
  <1>13. CASE MarkClaw
    <2>1. NoFault \/ FileFault
      BY <1>13 DEF MarkClaw, set_state, set_state_error
    <2>2. left'.table = left.table
      BY <1>1, <2>1, FaultTypes
    <2>3. worker.pc = "mark" /\ jobs' = jobs /\ worker' = [worker EXCEPT !.pc = "markJob"]
      BY <1>13 DEF MarkClaw
    <2>4. worker'.job = worker.job /\ worker'.pc = "markJob"
      BY <1>1, <2>3 DEF InstallWorker
    <2> QED BY <1>6, <2>2, <2>3, <2>4
  <1>14. ASSUME NEW s \in {"running", "completed", "failed", "deleted"}, worker.pc \in Busy,
                NoFault, jobs' = update_job(worker.job, s),
                \/ worker'.job = worker.job /\ worker'.pc \in Busy
                \/ s # "running" /\ worker'.job = NoJob /\ worker'.pc = "idle"
         PROVE  RecoveryInv'
    <2>1. worker.job \in Job /\ left' = left
      BY <1>2, <1>14 DEF NoFault
    <2>2. /\ jobs'[worker.job].status \in {s, "deleted"}
          /\ \A k \in Job : k # worker.job => jobs'[k] = jobs[k]
      BY <1>1, <1>14, <2>1 DEF update_job, JobRow
    <2>3. TableSound' = TableSound
      BY <2>1 DEF TableSound
    <2>4. TableSound => worker.job \notin stale
      BY DEF RecoveryInv, NoStaleJobRun
    <2>5. NoStaleJobRun'
      BY <1>1, <1>4, <1>14, <2>3, <2>4, ClawAssumption DEF NoStaleJobRun
    <2>6. ASSUME TableSound, NEW k \in Job, jobs'[k].status = "running" PROVE worker'.job = k
      <3>1. CASE k = worker.job
        BY <1>14, <2>2, <2>6, <3>1
      <3>2. CASE k # worker.job
        <4>1. jobs[k].status = "running"
          BY <2>2, <2>6, <3>2
        <4>2. worker.pc \in {"start", "reset"}
          BY <2>6, <3>2, <4>1 DEF RecoveryInv, RunningJobHeld
        <4> QED BY <1>14, <4>2 DEF Busy
      <3> QED BY <3>1, <3>2
    <2>7. RunningJobHeld'
      BY <2>3, <2>6 DEF RunningJobHeld
    <2>8. \A k \in stale : jobs'[k].status # "none"
      BY <1>1, <2>2 DEF RecoveryInv
    <2>9. TableSound => \A k \in stale : jobs'[k].status \notin {"pending", "running"}
      BY <1>1, <1>14, <2>2, <2>4 DEF RecoveryInv, Busy
    <2> QED BY <1>4, <2>1, <2>3, <2>5, <2>7, <2>8, <2>9 DEF RecoveryInv
  <1>15. CASE WriteMessage
    <2>1. CASE NoFault /\ jobs' = update_job(worker.job, worker.seen)
      <3>1. worker.pc = "message" /\ worker.seen \in {"running", "failed"}
            /\ worker' = [worker EXCEPT !.pc = "work", !.seen = "none"]
        BY <1>1, <1>15 DEF WriteMessage, InstallWorker
      <3>2. worker'.job = worker.job /\ worker'.pc = "work"
        BY <1>1, <3>1 DEF InstallWorker
      <3> QED BY <1>14, <2>1, <3>1, <3>2 DEF Busy
    <2> QED BY <1>5, <1>15, <2>1 DEF WriteMessage
  <1>16. CASE MarkJob
    <2>1. worker.pc = "markJob" /\ worker' = [StartWorker EXCEPT !.pc = "idle"]
      BY <1>16 DEF MarkJob
    <2>2. worker'.job = NoJob /\ worker'.pc = "idle"
      BY <2>1 DEF StartWorker
    <2>3. CASE TableFault /\ UNCHANGED jobs
      BY <1>5, <2>3
    <2>4. CASE ~(TableFault /\ UNCHANGED jobs)
      <3>1. PICK s \in {"completed", "failed"} : NoFault /\ jobs' = update_job(worker.job, s)
        BY <1>16, <2>4 DEF MarkJob
      <3> QED BY <1>14, <2>1, <2>2, <3>1 DEF Busy
    <2> QED BY <2>3, <2>4
  <1> QED BY <1>7, <1>8, <1>9, <1>10, <1>11, <1>12, <1>13, <1>15, <1>16 DEF WorkerStep

\* The recovery invariant is inductive.
LEMMA RecoveryStep ==
    ASSUME TypeInv, RecoveryInv, [Next]_vars
    PROVE  RecoveryInv'
  <1>1. left \in Left /\ jobs \in [Job -> JobRow]
    BY DEF TypeInv, TypeOK, Left
  <1>2. ASSUME UNCHANGED <<jobs, worker, stale>>, left'.table = left.table PROVE RecoveryInv'
    BY <1>1, <1>2, TableMoves, RecoveryKept
  <1>3. CASE SeedFromAssets
    <2>1. NoFault \/ FileFault
      BY <1>3 DEF SeedFromAssets, CommitThenPersist
    <2>2. left'.table = left.table
      BY <1>1, <2>1, FaultTypes
    <2> QED BY <1>2, <1>3, <2>2 DEF SeedFromAssets
  <1>4. CASE FailRunningJobs
    <2>1. worker' = worker /\ stale' = stale
      BY <1>4 DEF FailRunningJobs
    <2>2. CASE TableFault /\ UNCHANGED jobs
      BY <2>1, <2>2, RecoveryFaulted
    <2>3. CASE NoFault /\ jobs' = FailAll({"running"})
      BY <1>1, <2>1, <2>3, TableMoves, RecoveryKept DEF NoFault
    <2> QED BY <1>4, <2>2, <2>3 DEF FailRunningJobs
  <1>5. ASSUME NEW c \in Claw, InstStep(c) PROVE RecoveryInv'
    BY <1>2, <1>5 DEF InstStep, CreateGate, CreateInsert, DeleteInstance, InstFrame
  <1>6. CASE Crash
    <2>1. worker'.job = NoJob /\ worker'.pc = "start"
      BY <1>6 DEF Crash, StartWorker
    <2>2. jobs' = jobs /\ stale' = {j \in Job : jobs[j].status # "none"}
      BY <1>6 DEF Crash
    <2>3. left'.table = left.table
      BY <1>1, <1>6 DEF Crash, Left
    <2>4. NoStaleJobRun'
      BY <2>1, <2>2, ClawAssumption DEF NoStaleJobRun
    <2>5. RunningJobHeld'
      BY <2>1, <2>2 DEF RunningJobHeld
    <2> QED BY <2>1, <2>2, <2>3, <2>4, <2>5 DEF RecoveryInv
  <1>7. CASE UNCHANGED vars
    BY <1>2, <1>7 DEF vars
  <1> QED BY <1>3, <1>4, <1>5, <1>6, <1>7, CallerRecovery, WorkerRecovery DEF Next, BootStep

\* The recovery invariant holds throughout.
LEMMA RecoveryAlways == Spec => []RecoveryInv
  <1>1. Init => RecoveryInv
    BY LimitAssumption, ClawAssumption
       DEF Init, RecoveryInv, NoStaleJobRun, RunningJobHeld, StartWorker
  <1> QED BY <1>1, RecoveryStep, TypeAlways, PTL DEF Spec

\* As long as the jobs table answers, no install or uninstall job of an earlier
\* process is ever run, whenever requests arrive during start-up.
THEOREM StaleJobsNotRun == Spec => []NoStaleJobRun
  BY RecoveryAlways, PTL DEF RecoveryInv

\* ... and a running job is the one the worker holds.
THEOREM RunningJobsHeld == Spec => []RunningJobHeld
  BY RecoveryAlways, PTL DEF RecoveryInv

-----------------------------------------------------------------------------
(* Jobs that the claw store names.                                         *)

Live(j) == jobs[j].status \notin {"none", "deleted"}
Marking(h) == caller[h].pc \in {"mark", "rollback"}

EntryOK(e) == /\ e.status = "Installing" => e.job \in Job
              /\ e.job \in Job => Live(e.job)

\* A job that the store or the file names exists, and so does the job of a request
\* that has yet to mark the store.  Only that request may delete its job: no other
\* request has it, and neither the store nor the file names it before the mark.
NamesInv ==
    /\ \A c \in Claw : EntryOK(store[c]) /\ EntryOK(file[c])
    /\ \A h \in Caller : Marking(h) => Live(caller[h].job)
    /\ \A h \in Caller, c \in Claw :
          Marking(h) => caller[h].job \notin {store[c].job, file[c].job}
    /\ \A g, h \in Caller : Marking(g) /\ Marking(h) /\ g # h => caller[g].job # caller[h].job

\* Entries that name no job, or one that the store or the file named before.
Old == {e \in Entry : \/ e.job = NoJob /\ e.status # "Installing"
                      \/ \E c \in Claw : \/ e.status = "Failed" /\ e.job = store[c].job
                                         \/ e = store[c]
                                         \/ e = file[c]}

\* A job disappears only with the request that marks it.
Keeps == \A j \in Job : Live(j) /\ ~Live(j)' =>
            \E h \in Caller : Marking(h) /\ ~Marking(h)' /\ caller[h].job = j

\* A step that removes no job and writes only entries that were in the store or the
\* file before keeps the names invariant.
LEMMA NamesKept ==
    ASSUME TypeInv, NamesInv, Keeps,
           \A c \in Claw : store'[c] \in Old /\ file'[c] \in Old,
           \A h \in Caller : Marking(h)' => Marking(h) /\ caller'[h].job = caller[h].job
    PROVE  NamesInv'
  <1>1. \A h \in Caller : Marking(h) => caller[h].job \in Job
    BY DEF TypeInv, TypeOK, Marking
  <1>2. ASSUME NEW h \in Caller, Marking(h)' PROVE Live(caller[h].job)'
    <2>1. Marking(h) /\ caller'[h].job = caller[h].job
      BY <1>2
    <2>2. PICK j \in Job : j = caller[h].job
      BY <1>1, <2>1
    <2>3. Live(j)
      BY <2>1, <2>2 DEF NamesInv
    <2>4. Live(j)'
      <3>1. SUFFICES ASSUME ~Live(j)' PROVE FALSE
        OBVIOUS
      <3>2. PICK g \in Caller : Marking(g) /\ ~Marking(g)' /\ caller[g].job = j
        BY <2>3, <3>1 DEF Keeps
      <3> QED BY <1>2, <2>1, <2>2, <3>2 DEF NamesInv
    <2> QED BY <2>1, <2>2, <2>4 DEF Live
  <1>3. ASSUME NEW e \in Old
        PROVE  /\ e.status = "Installing" => e.job \in Job
               /\ e.job \in Job => Live(e.job)'
               /\ \A h \in Caller : Marking(h) => caller[h].job # e.job
    <2>1. CASE e.job = NoJob /\ e.status # "Installing"
      BY <1>1, <2>1, ClawAssumption
    <2>2. CASE \E c \in Claw : \/ e.status = "Failed" /\ e.job = store[c].job
                               \/ e = store[c]
                               \/ e = file[c]
      <3>1. PICK c \in Claw : \/ e.status = "Failed" /\ e.job = store[c].job
                              \/ e = store[c]
                              \/ e = file[c]
        BY <2>2
      <3>2. e.status = "Installing" => e.job \in Job
        BY <3>1 DEF NamesInv, EntryOK
      <3>3. \A h \in Caller : Marking(h) => caller[h].job # e.job
        BY <3>1 DEF NamesInv
      <3>4. ASSUME e.job \in Job PROVE Live(e.job)'
        <4>1. Live(e.job)
          BY <3>1, <3>4 DEF NamesInv, EntryOK
        <4>2. PICK j \in Job : j = e.job
          BY <3>4
        <4>3. Live(j)'
          BY <3>3, <4>1, <4>2 DEF Keeps
        <4> QED BY <4>2, <4>3
      <3> QED BY <3>2, <3>3, <3>4
    <2> QED BY <2>1, <2>2 DEF Old
  <1>4. \A c \in Claw : EntryOK(store[c])' /\ EntryOK(file[c])'
    BY <1>3 DEF EntryOK, Live
  <1>5. \A h \in Caller, c \in Claw :
            Marking(h)' => caller'[h].job \notin {store'[c].job, file'[c].job}
    BY <1>3
  <1>6. \A g, h \in Caller : Marking(g)' /\ Marking(h)' /\ g # h
            => caller'[g].job # caller'[h].job
    BY DEF NamesInv
  <1> QED BY <1>2, <1>4, <1>5, <1>6 DEF NamesInv

\* The helpers of the jobs table delete nothing that is live, but for delete_by_id.
LEMMA TableKeeps ==
    ASSUME jobs \in [Job -> JobRow]
    PROVE  /\ jobs' = jobs => Keeps
           /\ \A S \in SUBSET {"pending", "running"} : jobs' = FailAll(S) => Keeps
           /\ \A j \in Job, s \in {"running", "completed", "failed"} :
                 jobs' = update_job(j, s) => Keeps
  <1>1. jobs' = jobs => Keeps
    BY DEF Keeps, Live
  <1>2. ASSUME NEW S \in SUBSET {"pending", "running"}, jobs' = FailAll(S) PROVE Keeps
    <2>1. ASSUME NEW j \in Job, Live(j) PROVE Live(j)'
      <3>1. jobs'[j] = IF jobs[j].status \in S
                       THEN [jobs[j] EXCEPT !.status = "failed"] ELSE jobs[j]
        BY <1>2 DEF FailAll
      <3>2. [jobs[j] EXCEPT !.status = "failed"].status = "failed"
        BY DEF JobRow
      <3> QED BY <2>1, <3>1, <3>2 DEF Live
    <2> QED BY <2>1 DEF Keeps
  <1>3. ASSUME NEW j \in Job, NEW s \in {"running", "completed", "failed"},
               jobs' = update_job(j, s)
        PROVE  Keeps
    <2>1. \A k \in Job : Live(k) => Live(k)'
      BY <1>3 DEF update_job, Live, JobRow
    <2> QED BY <2>1 DEF Keeps
  <1> QED BY <1>1, <1>2, <1>3

\* Marks of the worker, and the two recoveries of the claw store, name no new job.
LEMMA OldEntries ==
    ASSUME TypeInv
    PROVE  /\ UNCHANGED storeVars => \A c \in Claw : store'[c] \in Old /\ file'[c] \in Old
           /\ \A c \in Claw, s \in Status \ {"Installing"} :
                 set_state(c, Plain(s)) \/ set_state_error(c, Plain(s))
                    => \A d \in Claw : store'[d] \in Old /\ file'[d] \in Old
           /\ \A next \in [Claw -> Old] : CommitThenPersist(next)
                    => \A d \in Claw : store'[d] \in Old /\ file'[d] \in Old
  <1>1. \A c \in Claw : store[c] \in Old /\ file[c] \in Old
    BY DEF TypeInv, TypeOK, Old
  <1>2. UNCHANGED storeVars => \A c \in Claw : store'[c] \in Old /\ file'[c] \in Old
    BY <1>1 DEF storeVars
  <1>3. ASSUME NEW c \in Claw, NEW s \in Status \ {"Installing"},
               set_state(c, Plain(s)) \/ set_state_error(c, Plain(s))
        PROVE  \A d \in Claw : store'[d] \in Old /\ file'[d] \in Old
    <2>1. Plain(s) \in Entry /\ Plain(s).job = NoJob /\ Plain(s).status = s
      BY Plains DEF Plain
    <2>2. Plain(s) \in Old
      BY <2>1 DEF Old
    <2>3. CASE set_state(c, Plain(s))
      <3>1. store' = [store EXCEPT ![c] = Plain(s)] /\ file' = store'
        BY <2>3 DEF set_state
      <3> HIDE DEF Plain
      <3> QED BY <1>1, <2>2, <3>1 DEF TypeInv, TypeOK
    <2> QED BY <1>2, <1>3, <2>3 DEF set_state_error
  <1>4. ASSUME NEW next \in [Claw -> Old], CommitThenPersist(next)
        PROVE  \A d \in Claw : store'[d] \in Old /\ file'[d] \in Old
    BY <1>1, <1>4 DEF CommitThenPersist
  <1> QED BY <1>2, <1>3, <1>4

\* The install worker removes no job and names none.
LEMMA WorkerNames ==
    ASSUME TypeInv, NamesInv, WorkerStep
    PROVE  NamesInv'
  <1>1. jobs \in [Job -> JobRow] /\ store \in [Claw -> Entry] /\ worker \in InstallWorker
    BY DEF TypeInv, TypeOK
  <1>2. worker.pc \in Busy => worker.job \in Job
    BY DEF TypeInv, TypeOK, Busy
  <1>3. caller' = caller
    BY DEF WorkerStep, ResetClaws, ResetJobs, ClaimJob, RefuseInstall, ReadMessage,
           WriteMessage, Work, MarkClaw, MarkJob, WorkerFrame
  <1>4. \A h \in Caller : Marking(h)' => Marking(h) /\ caller'[h].job = caller[h].job
    BY <1>3 DEF Marking
  <1>5. ASSUME Keeps, \A c \in Claw : store'[c] \in Old /\ file'[c] \in Old PROVE NamesInv'
    BY <1>4, <1>5, NamesKept
  <1>6. CASE ResetClaws
    <2> DEFINE next == [c \in Claw |->
                  IF store[c].status \in {"Installing", "Uninstalling"}
                  THEN [store[c] EXCEPT !.status = "Failed"] ELSE store[c]]
    <2>1. \A c \in Claw : /\ [store[c] EXCEPT !.status = "Failed"] \in Entry
                          /\ [store[c] EXCEPT !.status = "Failed"].status = "Failed"
                          /\ [store[c] EXCEPT !.status = "Failed"].job = store[c].job
      BY <1>1 DEF Entry, Status
    <2>2. \A c \in Claw : [store[c] EXCEPT !.status = "Failed"] \in Old /\ store[c] \in Old
      BY <1>1, <2>1 DEF Old
    <2>3. next \in [Claw -> Old]
      BY <2>2
    <2>4. CommitThenPersist(next) /\ jobs' = jobs
      BY <1>6 DEF ResetClaws
    <2> HIDE DEF next
    <2> QED BY <1>1, <1>5, <2>3, <2>4, OldEntries, TableKeeps
  <1>7. CASE MarkClaw
    <2>1. worker.job \in Job /\ jobs' = jobs
      BY <1>2, <1>7 DEF MarkClaw, Busy
    <2>2. PICK c \in Claw : c = jobs[worker.job].claw
      BY <1>1, <2>1 DEF JobRow
    <2>3. PICK s \in Status \ {"Installing"} : set_state(c, Plain(s)) \/ set_state_error(c, Plain(s))
      BY <1>7, <2>2 DEF MarkClaw, Status
    <2> QED BY <1>1, <1>5, <2>1, <2>3, OldEntries, TableKeeps
  <1>8. CASE ResetJobs
    BY <1>1, <1>5, <1>8, OldEntries, TableKeeps DEF ResetJobs, reset_stale_install_jobs, storeVars
  <1>9. ASSUME NEW j \in Job, ClaimJob(j) PROVE NamesInv'
    <2>1. UNCHANGED storeVars /\ jobs' = [jobs EXCEPT ![j].status = "running"]
          /\ jobs[j].status = "pending"
      BY <1>9 DEF ClaimJob, Claimable, storeVars
    <2>2. jobs' = update_job(j, "running")
      BY <2>1 DEF update_job
    <2> QED BY <1>1, <1>5, <2>1, <2>2, OldEntries, TableKeeps
  <1>10. CASE RefuseInstall \/ ReadMessage \/ Work
    BY <1>1, <1>5, <1>10, OldEntries, TableKeeps DEF RefuseInstall, ReadMessage, Work, storeVars
  <1>11. CASE WriteMessage
    <2>1. worker.job \in Job /\ worker.seen \in {"running", "failed"} /\ UNCHANGED storeVars
      BY <1>1, <1>2, <1>11 DEF WriteMessage, Busy, InstallWorker, storeVars
    <2>2. jobs' = jobs \/ jobs' = update_job(worker.job, worker.seen)
      BY <1>11 DEF WriteMessage
    <2> QED BY <1>1, <1>5, <2>1, <2>2, OldEntries, TableKeeps
  <1>12. CASE MarkJob
    <2>1. worker.job \in Job /\ UNCHANGED storeVars
      BY <1>2, <1>12 DEF MarkJob, Busy, storeVars
    <2>2. jobs' = jobs \/ \E s \in {"completed", "failed"} : jobs' = update_job(worker.job, s)
      BY <1>12 DEF MarkJob
    <2> QED BY <1>1, <1>5, <2>1, <2>2, OldEntries, TableKeeps
  <1> QED BY <1>6, <1>7, <1>8, <1>9, <1>10, <1>11, <1>12 DEF WorkerStep

\* A mark names the caller's own job; a rollback removes one that nobody names.
LEMMA CallerNames ==
    ASSUME TypeInv, NamesInv, NEW h \in Caller,
           CallerStep(h) \/ \E c \in Claw : InstallRequest(h, c) \/ UninstallRequest(h, c)
    PROVE  NamesInv'
  <1>1. /\ jobs \in [Job -> JobRow] /\ store \in [Claw -> Entry] /\ file \in [Claw -> Entry]
        /\ caller \in [Caller -> Request]
        /\ \A g \in Caller : Marking(g) => caller[g].job \in Job
    BY DEF TypeInv, TypeOK, Marking
  <1>2. caller[h] \in Request
    BY <1>1
  <1>3. Answer(h) => /\ ~Marking(h)'
                     /\ \A g \in Caller : g # h => caller'[g] = caller[g]
    BY <1>1, <1>2 DEF Answer, Marking, Request
  <1>4. ASSUME NEW c \in Claw, InstallRequest(h, c) \/ UninstallRequest(h, c) PROVE NamesInv'
    <2>1. UNCHANGED storeVars /\ jobs' = jobs
      BY <1>4 DEF InstallRequest, UninstallRequest, storeVars
    <2>2. ~Marking(h)' /\ \A g \in Caller : g # h => caller'[g] = caller[g]
      BY <1>1, <1>4 DEF InstallRequest, UninstallRequest, Marking
    <2> QED BY <1>1, <2>1, <2>2, OldEntries, TableKeeps, NamesKept DEF Marking
  <1>5. CASE UninstallCount(h)
    <2>1. UNCHANGED storeVars /\ jobs' = jobs
      BY <1>5 DEF UninstallCount, storeVars
    <2>2. ~Marking(h)' /\ \A g \in Caller : g # h => caller'[g] = caller[g]
      BY <1>1, <1>2, <1>3, <1>5 DEF UninstallCount, Marking, Request
    <2> QED BY <1>1, <2>1, <2>2, OldEntries, TableKeeps, NamesKept DEF Marking
  <1>6. CASE Enqueue(h)
    <2>1. UNCHANGED storeVars
      BY <1>6 DEF Enqueue, storeVars
    <2>2. CASE Answer(h) /\ UNCHANGED jobs
      BY <1>1, <1>3, <2>1, <2>2, OldEntries, TableKeeps, NamesKept DEF Marking
    <2>3. CASE \E j \in Job : /\ jobs[j].status = "none"
                              /\ create_job(j, caller[h].type, caller[h].claw)
                              /\ caller' = [caller EXCEPT ![h].pc = "mark", ![h].job = j]
      <3>1. PICK j \in Job : /\ jobs[j].status = "none"
                             /\ create_job(j, caller[h].type, caller[h].claw)
                             /\ caller' = [caller EXCEPT ![h].pc = "mark", ![h].job = j]
        BY <2>3
      <3>2. PICK t \in {"install", "uninstall"}, c \in Claw :
                t = caller[h].type /\ c = caller[h].claw
        BY <1>2 DEF Request
      <3>3. jobs'[j].status = "pending" /\ \A k \in Job : k # j => jobs'[k] = jobs[k]
        BY <1>1, <3>1, <3>2, CreateJobType
      <3>4. /\ caller'[h].job = j
            /\ \A g \in Caller : g # h => caller'[g] = caller[g]
        BY <1>1, <1>2, <3>1 DEF Request
      <3>5. ~Live(j) /\ Live(j)' /\ \A k \in Job : Live(k) => Live(k)'
        BY <3>1, <3>3 DEF Live
      <3>6. \A g \in Caller : Marking(g)' /\ g # h => Marking(g) /\ caller'[g].job = caller[g].job
        BY <3>4 DEF Marking
      <3>7. \A c2 \in Claw : EntryOK(store[c2])' /\ EntryOK(file[c2])'
        BY <2>1, <3>5 DEF NamesInv, EntryOK, storeVars, Live
      <3>8. \A g \in Caller : Marking(g)' => Live(caller[g].job)'
        <4>1. ASSUME NEW g \in Caller, g # h, Marking(g)' PROVE Live(caller[g].job)'
          <5>1. Marking(g) /\ caller'[g].job = caller[g].job /\ caller[g].job \in Job
            BY <1>1, <3>6, <4>1
          <5> QED BY <3>5, <5>1 DEF NamesInv, Live
        <4> QED BY <3>4, <3>5, <4>1 DEF Live
      <3>9. \A c2 \in Claw : j \notin {store[c2].job, file[c2].job}
        BY <3>5 DEF NamesInv, EntryOK
      <3>10. \A g \in Caller, c2 \in Claw :
                Marking(g)' => caller'[g].job \notin {store'[c2].job, file'[c2].job}
        BY <2>1, <3>4, <3>6, <3>9 DEF NamesInv, storeVars
      <3>11. \A g \in Caller : Marking(g)' /\ g # h => caller'[g].job # j
        BY <3>5, <3>6 DEF NamesInv
      <3>12. \A f, g \in Caller : Marking(f)' /\ Marking(g)' /\ f # g
                => caller'[f].job # caller'[g].job
        BY <3>4, <3>6, <3>11 DEF NamesInv
      <3> QED BY <3>7, <3>8, <3>10, <3>12 DEF NamesInv
    <2> QED BY <1>6, <2>2, <2>3 DEF Enqueue
  <1>7. CASE Mark(h)
    <2>1. caller[h].pc = "mark" /\ jobs' = jobs /\ caller[h].claw \in Claw
          /\ Marking(h) /\ caller[h].job \in Job
      BY <1>1, <1>2, <1>7 DEF Mark, Marking, Request
    <2>2. CASE UNCHANGED storeVars /\ caller' = [caller EXCEPT ![h].pc = "rollback"]
      <3>1. \A g \in Caller : Marking(g)' => Marking(g) /\ caller'[g].job = caller[g].job
        BY <1>1, <1>2, <2>1, <2>2 DEF Marking, Request
      <3> QED BY <1>1, <2>1, <2>2, <3>1, OldEntries, TableKeeps, NamesKept
    <2>3. CASE set_state(caller[h].claw, Plain("Uninstalling")) /\ Answer(h)
      <3>1. \A d \in Claw : store'[d] \in Old /\ file'[d] \in Old
        BY <2>1, <2>3, OldEntries DEF Status
      <3>2. Keeps
        BY <1>1, <2>1, TableKeeps
      <3>3. \A g \in Caller : Marking(g)' => Marking(g) /\ caller'[g].job = caller[g].job
        BY <1>3, <2>3 DEF Marking
      <3> QED BY <3>1, <3>2, <3>3, NamesKept
    <2>4. CASE set_state(caller[h].claw, [status |-> "Installing", job |-> caller[h].job])
               /\ Answer(h)
      <3>1. /\ store' = [store EXCEPT ![caller[h].claw] =
                            [status |-> "Installing", job |-> caller[h].job]]
            /\ file' = store'
        BY <2>4 DEF set_state
      <3>2. \A g \in Caller : Marking(g)' =>
                g # h /\ Marking(g) /\ caller'[g].job = caller[g].job
        BY <1>3, <2>4 DEF Marking
      <3>3. \A c \in Claw :
               \/ /\ store'[c].status = "Installing" /\ store'[c].job = caller[h].job
                  /\ file'[c] = store'[c]
               \/ store'[c] = store[c] /\ file'[c] = store[c]
        BY <1>1, <2>1, <3>1
      <3>4. Live(caller[h].job)
        BY <2>1 DEF NamesInv
      <3>5. \A c \in Claw : EntryOK(store[c])' /\ EntryOK(file[c])'
        BY <2>1, <3>3, <3>4 DEF NamesInv, EntryOK, Live
      <3>6. \A g \in Caller : Marking(g)' => Live(caller[g].job)'
        BY <2>1, <3>2 DEF NamesInv, Live
      <3>7. \A g \in Caller, c \in Claw :
                Marking(g)' => caller'[g].job \notin {store'[c].job, file'[c].job}
        BY <2>1, <3>2, <3>3 DEF NamesInv
      <3>8. \A f, g \in Caller : Marking(f)' /\ Marking(g)' /\ f # g
                => caller'[f].job # caller'[g].job
        BY <3>2 DEF NamesInv
      <3> QED BY <3>5, <3>6, <3>7, <3>8 DEF NamesInv
    <2> QED BY <1>7, <2>2, <2>3, <2>4 DEF Mark, set_state_error
  <1>8. CASE Rollback(h)
    <2>1. Marking(h) /\ caller[h].job \in Job /\ UNCHANGED storeVars
          /\ ~Marking(h)' /\ \A g \in Caller : g # h => caller'[g] = caller[g]
      BY <1>1, <1>3, <1>8 DEF Rollback, Marking, storeVars
    <2>2. jobs' = jobs \/ jobs' = update_job(caller[h].job, "deleted")
      BY <1>8 DEF Rollback
    <2>3. \A k \in Job : k # caller[h].job => jobs'[k] = jobs[k]
      BY <1>1, <2>1, <2>2 DEF update_job
    <2>4. Keeps
      BY <2>1, <2>3 DEF Keeps, Live
    <2>5. \A g \in Caller : Marking(g)' => Marking(g) /\ caller'[g].job = caller[g].job
      BY <2>1 DEF Marking
    <2> QED BY <2>1, <2>4, <2>5, OldEntries, NamesKept
  <1> QED BY <1>4, <1>5, <1>6, <1>7, <1>8 DEF CallerStep

\* The names invariant is inductive.
LEMMA NamesStep ==
    ASSUME TypeInv, NamesInv, [Next]_vars
    PROVE  NamesInv'
  <1>1. /\ jobs \in [Job -> JobRow] /\ store \in [Claw -> Entry] /\ file \in [Claw -> Entry]
        /\ caller \in [Caller -> Request]
    BY DEF TypeInv, TypeOK
  <1>2. ASSUME caller' = caller, Keeps, \A c \in Claw : store'[c] \in Old /\ file'[c] \in Old
        PROVE  NamesInv'
    BY <1>2, NamesKept DEF Marking
  <1>3. CASE SeedFromAssets
    <2> DEFINE next == [c \in Claw |->
                  IF store[c].status \in {"NotInstalled", "Failed"}
                     /\ c \in artifacts \cap Supported
                  THEN Plain("Ready") ELSE store[c]]
    <2>1. Plain("Ready") \in Entry /\ Plain("Ready").job = NoJob
          /\ Plain("Ready").status = "Ready"
      BY Plains DEF Status, Plain
    <2>2. Plain("Ready") \in Old /\ \A c \in Claw : store[c] \in Old
      BY <1>1, <2>1 DEF Old
    <2>3. next \in [Claw -> Old]
      BY <2>2
    <2>4. CommitThenPersist(next) /\ jobs' = jobs /\ caller' = caller
      BY <1>3 DEF SeedFromAssets
    <2> HIDE DEF next
    <2> QED BY <1>1, <1>2, <2>3, <2>4, OldEntries, TableKeeps
  <1>4. CASE FailRunningJobs
    <2>1. UNCHANGED storeVars /\ caller' = caller
          /\ (jobs' = jobs \/ jobs' = FailAll({"running"}))
      BY <1>4 DEF FailRunningJobs, storeVars
    <2> QED BY <1>1, <1>2, <2>1, OldEntries, TableKeeps
  <1>5. ASSUME NEW c \in Claw, InstStep(c) PROVE NamesInv'
    <2>1. UNCHANGED storeVars /\ caller' = caller /\ jobs' = jobs
      BY <1>5 DEF InstStep, CreateGate, CreateInsert, DeleteInstance, InstFrame, storeVars
    <2> QED BY <1>1, <1>2, <2>1, OldEntries, TableKeeps
  <1>6. CASE Crash
    <2>1. store' = file /\ file' = file /\ jobs' = jobs
      BY <1>6 DEF Crash
    <2>2. \A h \in Caller : ~Marking(h)'
      BY <1>1, <1>6 DEF Crash, IdleCaller, Marking, Request
    <2>3. \A c \in Claw : store'[c] \in Old /\ file'[c] \in Old
      BY <1>1, <2>1 DEF Old
    <2> QED BY <1>1, <2>1, <2>2, <2>3, TableKeeps, NamesKept
  <1>7. CASE UNCHANGED vars
    <2>1. UNCHANGED storeVars /\ caller' = caller /\ jobs' = jobs
      BY <1>7 DEF vars, storeVars
    <2> QED BY <1>1, <1>2, <2>1, OldEntries, TableKeeps
  <1> QED BY <1>3, <1>4, <1>5, <1>6, <1>7, CallerNames, WorkerNames DEF Next, BootStep

\* A claw type that is Installing names an install job that exists, however
\* requests, rollbacks, failing writes, crashes and recoveries interleave.
THEOREM InstallingJobsExist == Spec => []InstallingNamesJob
  <1>1. Init => NamesInv
    BY ClawAssumption DEF Init, NamesInv, EntryOK, Marking, Plain
  <1>2. NamesInv => InstallingNamesJob
    BY DEF NamesInv, EntryOK, Live, InstallingNamesJob
  <1> QED BY <1>1, <1>2, NamesStep, TypeAlways, PTL DEF Spec

=============================================================================
