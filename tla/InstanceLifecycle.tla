--------------------------- MODULE InstanceLifecycle ---------------------------
(***************************************************************************)
(* The life of an instance on one host: the create pipeline of the admin   *)
(* backend, the jobs worker that runs the create flow, the stop, restart,  *)
(* rebuild and delete requests, the lease reaper, the warm-pool            *)
(* reconciler, and what a crash and the start-up that follows it do.       *)
(*                                                                         *)
(* They meet in four places: the instances and resource_leases tables, the *)
(* jobs table, the capacity lock and the executor mutex.  A step below is  *)
(* one stretch of code between two points where another task may run: a    *)
(* call on a table, a lock acquisition, or a call to the VM runner.        *)
(* Consecutive writes that one flow makes under the executor mutex are one *)
(* step where no other task can tell them apart.                           *)
(*                                                                         *)
(* Data that no property tells apart is abstracted.  CPU and RAM are       *)
(* counted in slots, one per lease; a request is "slot sized" when it asks *)
(* for exactly the warm-pool shape.  Clocks are abstracted to the moment a *)
(* lease passes its expires_at.                                            *)
(***************************************************************************)
EXTENDS Naturals, FiniteSets

CONSTANTS
    Inst,            \* instance ids that clients may ask to create
    Claw,            \* claw types; each has one warm-pool slot
    ClawOf,          \* the claw type of each instance
    SlotSized,       \* instances whose request has the shape of a warm slot
    Budget,          \* slots that the CPU and RAM budget admits
    Op,              \* request handlers for stop, restart, rebuild, delete
    Requests,        \* bound: the kinds of such requests that clients make
    Quotas           \* bound: how many such requests, crashes of the backend, failing
                     \* calls to the VM runner, steps with failing calls on a table and
                     \* maintenance windows one behaviour may contain

ASSUME FiniteAssumption ==
    /\ IsFiniteSet(Inst) /\ IsFiniteSet(Claw)
    /\ Inst \cap Claw = {}
ASSUME ShapeAssumption ==
    /\ ClawOf \in [Inst -> Claw]
    /\ SlotSized \subseteq Inst
    /\ Requests \subseteq {"stop", "restart", "rebuild", "delete"}
ASSUME BoundAssumption ==
    /\ Budget \in Nat
    /\ Quotas \subseteq [ops : Nat, crashes : Nat, faults : Nat, tables : Nat, maint : Nat]
ASSUME HolderAssumption ==
    /\ Inst \cap Op = {}
    /\ {"nobody", "worker", "boot", "reconciler"} \cap (Inst \cup Claw \cup Op) = {}

VARIABLES
    \* The instances and resource_leases tables.
    row,        \* status of each instance row, "absent" when there is no row
    deleted,    \* rows with deleted_at set
    rt,         \* the unreleased runtime lease of each owner
    storage,    \* instances with an unreleased storage lease
    \* The jobs table: the create_instance job of each instance.
    job,
    \* What the VM runner has on the host.
    vm,         \* instances with a running VM
    disk,       \* instances with a state directory
    \* The claw store, the uninstalls under way, and the maintenance file.
    installed,  \* claw types marked Ready
    uninst,     \* where the uninstall of each claw type stands
    maint,      \* maintenance state is Active
    \* Locks.
    capLock,    \* holder of capacity_lock
    execLock,   \* holder of the executor mutex
    \* Tasks of the backend process.
    mode,       \* where start-up stands
    create,     \* create_instance_core, one per instance id
    worker,     \* the jobs worker
    op,         \* stop / restart / rebuild / delete handlers
    recon,      \* the warm-pool reconciler
    reaper,     \* the lease reaper
    auto,       \* the auto-restart task, and the VMs that died in a crash
    left,       \* what is left of the quota; history: what of it was used in the past
    ran         \* history: jobs whose create flow was started

dbVars   == <<row, deleted, rt, storage>>
hostVars == <<vm, disk>>
envVars  == <<installed, uninst, maint, mode>>
vars == <<row, deleted, rt, storage, job, vm, disk, installed, uninst, maint,
          capLock, execLock, mode, create, worker, op, recon, reaper, auto,
          left, ran>>

-----------------------------------------------------------------------------
(* Types.                                                                  *)

Owner == Inst \cup Claw
NoInst == "nobody"
RowStatus == {"absent", "provisioning", "active", "stopped", "failed"}
JobStatus == {"none", "pending", "running", "completed", "failed"}
OpKind == {"stop", "restart", "rebuild", "delete"}

\* A runtime lease: without expires_at it is final.  The other fields are history.
\* checked: the grant rests on a capacity check that counted this slot.  stray: a
\* rollback or a failed restart tried to release the lease and the call failed; it
\* is "doubled" when the rollback gave its slot back to the warm pool nevertheless.
Lease == [st : {"none", "ttl", "expired", "final"}, checked : BOOLEAN,
          stray : {"no", "kept", "doubled"}]
NoLease == [st |-> "none", checked |-> FALSE, stray |-> "no"]

\* matched: what check_capacity saw of the warm lease; warm: use_warm_pool,
\* which the create pipeline evaluates again after the check.  covered is
\* history: the inserted lease rests on a check.
CreatePC == {"idle", "admitted", "checked", "matched", "inserted", "rollback",
             "restore", "erase", "queued"}
Creating == [pc : CreatePC, matched : BOOLEAN, warm : BOOLEAN, covered : BOOLEAN]
IdleCreate == [pc |-> "idle", matched |-> FALSE, warm |-> FALSE, covered |-> FALSE]

WorkerPC == {"start", "idle", "claimed", "ready", "create", "activate",
             "finalize", "cleanup", "markJob", "markRow"}
Worker == [pc : WorkerPC, inst : Inst \cup {NoInst}, ok : BOOLEAN]
StartWorker == [pc |-> "start", inst |-> NoInst, ok |-> FALSE]
IdleWorker == [StartWorker EXCEPT !.pc = "idle"]

OpPC == {"idle", "check", "acquire", "flow", "commit", "post", "undo"}
Handler == [pc : OpPC, kind : OpKind, inst : Inst \cup {NoInst},
            matched : BOOLEAN, acquired : BOOLEAN]
IdleOp == [pc |-> "idle", kind |-> "stop", inst |-> NoInst,
           matched |-> FALSE, acquired |-> FALSE]

Reconciler == [pc : {"idle", "wait", "probe", "fill", "refill"},
               targets : SUBSET Claw, cur : Claw \cup {NoInst}]
IdleRecon == [pc |-> "idle", targets |-> {}, cur |-> NoInst]

Reaper == [pc : {"idle", "scan", "mark", "release"},
           todo : SUBSET Inst, cur : Inst \cup {NoInst}, all : BOOLEAN]
IdleReaper == [pc |-> "idle", todo |-> {}, cur |-> NoInst, all |-> FALSE]

AutoRestart == [todo : SUBSET Inst, cur : Inst \cup {NoInst}, dead : SUBSET Inst]

\* What is left of each bound, and what has happened.
Bounds == [ops : Nat, crashes : Nat, faults : Nat, tables : Nat, maint : Nat,
           past : SUBSET {"crash", "table"}]

\* A call to the VM runner that fails uses up one of the faults.
Fault == left.faults > 0 /\ left' = [left EXCEPT !.faults = @ - 1]
\* A call on the instances, leases or jobs table that fails changes nothing.  Most
\* callers only log it and go on; a read that fails and changes nothing is no step.
TableFault ==
    left.tables > 0 /\ left' = [left EXCEPT !.tables = @ - 1, !.past = @ \cup {"table"}]
NoFault == UNCHANGED left

-----------------------------------------------------------------------------
(* Operations of the lease and instance tables.                            *)

\* The leases that capacity decisions see: unreleased and not past expires_at.
ActiveLeases(leases) == {o \in Owner : leases[o].st \in {"ttl", "final"}}

\* ... those that a capacity check stands behind ...
CheckedLeases(leases) == {o \in ActiveLeases(leases) : leases[o].checked}

\* ... and those whose slot the warm pool got back as well.
DoubledLeases(leases) == {o \in CheckedLeases(leases) : leases[o].stray = "doubled"}
AdmittedLeases(leases) == CheckedLeases(leases) \ DoubledLeases(leases)

sum_active_runtime_leases(leases) == Cardinality(ActiveLeases(leases))

has_active_lease(o) == rt[o].st \in {"ttl", "final"}

\* The unique index admits one unreleased lease per owner, expired or not.
CanCreateLease(o) == rt[o].st = "none"

create_lease(o, checked) ==
    [rt EXCEPT ![o] = [st |-> "final", checked |-> checked, stray |-> "no"]]

release_lease(o) == [rt EXCEPT ![o] = NoLease]
\* A release that fails and is not repeated.
StrayLease(o) ==
    IF rt[o].st = "none" \/ rt[o].stray # "no" THEN rt ELSE [rt EXCEPT ![o].stray = "kept"]

\* A write to expires_at of the unreleased lease, if there is one.  A lease that
\* had stopped counting and counts again is not checked again.
Renew(o, st) ==
    IF rt[o].st = "none" THEN rt
    ELSE [rt EXCEPT ![o].st = st,
                    ![o].checked = rt[o].checked /\ rt[o].st # "expired"]
extend_lease(o) == Renew(o, "ttl")
finalize_lease(o) == Renew(o, "final")

\* UPDATE ... WHERE id = ?: no row is touched when there is none.
update_status(i, status) ==
    IF row[i] = "absent" THEN row ELSE [row EXCEPT ![i] = status]

\* Mutant: writes a status that the schema does not know.
soft_delete_status_mutant(i) == update_status(i, "deleted")
\* soft_delete keeps the row for audit, with status stopped.
soft_delete_status(i) == update_status(i, "stopped")

-----------------------------------------------------------------------------
(* The capacity guard.                                                     *)

HasWarmMatch(i) == i \in SlotSized /\ has_active_lease(ClawOf[i])
\* A lookup that fails counts as no match.
request_matches_warm_pool_lease(i, matched) ==
    \/ NoFault /\ matched = HasWarmMatch(i)
    \/ TableFault /\ HasWarmMatch(i) /\ ~matched

\* Mutant: the request itself is not counted.
check_capacity_mutant(matched) == sum_active_runtime_leases(rt) <= Budget
\* check_capacity: a request that matches a warm lease adds nothing.
check_capacity(matched) ==
    sum_active_runtime_leases(rt) + (IF matched THEN 0 ELSE 1) <= Budget

-----------------------------------------------------------------------------
(* create_instance_core.  The capacity lock is held from the check to the  *)
(* return, whichever way it returns.                                       *)

CreateTouches == UNCHANGED <<hostVars, envVars, execLock, worker, op, recon,
                             reaper, auto, ran>>
CreateFrame == CreateTouches /\ NoFault

\* The availability gate, then find_conflict, which also sees deleted rows.
CreateAdmit(i) ==
    /\ create[i].pc = "idle"
    /\ ClawOf[i] \in installed
    /\ ~maint
    /\ row[i] = "absent"
    /\ create' = [create EXCEPT ![i].pc = "admitted"]
    /\ UNCHANGED <<dbVars, job, capLock>>
    /\ CreateFrame

\* CPU and RAM decide here; the disk, macOS-slot and host-memory checks, or a
\* failing sum, may refuse whatever the leases say.
CreateCheck(i) ==
    /\ create[i].pc = "admitted"
    /\ capLock = "nobody"
    /\ \/ \E matched \in BOOLEAN :
             /\ request_matches_warm_pool_lease(i, matched)
             /\ check_capacity(matched)
             /\ capLock' = i
             /\ create' = [create EXCEPT ![i].pc = "checked", ![i].matched = matched]
       \/ /\ create' = [create EXCEPT ![i] = IdleCreate]
          /\ NoFault
          /\ UNCHANGED capLock
    /\ UNCHANGED <<dbVars, job>>
    /\ CreateTouches

\* use_warm_pool: the warm lease is looked up a second time.
CreateMatch(i) ==
    /\ create[i].pc = "checked"
    /\ \E warm \in BOOLEAN :
          /\ request_matches_warm_pool_lease(i, warm)
          /\ create' = [create EXCEPT ![i].pc = "matched", ![i].warm = warm]
    /\ UNCHANGED <<dbVars, job, capLock>>
    /\ CreateTouches

\* The return drops the guard of the capacity lock.
CreateReturn(i) ==
    /\ create' = [create EXCEPT ![i] = IdleCreate]
    /\ capLock' = "nobody"

\* insert_with_leases or insert_with_warm_pool_leases, one transaction: row,
\* runtime lease with a TTL, storage lease.  The warm variant takes over the
\* warm lease and fails when it is gone.  A failing transaction leaves nothing.
CreateInsert(i) ==
    LET c == ClawOf[i]
        new == [st |-> "ttl", stray |-> "no",
                checked |-> IF create[i].warm THEN rt[c].checked
                            ELSE ~create[i].matched]
        ok == /\ row[i] = "absent" /\ rt[i].st = "none" /\ i \notin storage
              /\ create[i].warm => rt[c].st # "none"
    IN /\ create[i].pc = "matched"
       /\ \/ /\ ok
             /\ NoFault
             /\ row' = [row EXCEPT ![i] = "provisioning"]
             /\ rt' = [o \in Owner |->
                          IF o = i THEN new
                          ELSE IF o = c /\ create[i].warm THEN NoLease
                          ELSE rt[o]]
             /\ storage' = storage \cup {i}
             /\ create' = [create EXCEPT ![i].pc = "inserted",
                                         ![i].covered = new.checked]
             /\ UNCHANGED <<deleted, capLock>>
          \/ /\ (~ok /\ NoFault) \/ TableFault
             /\ CreateReturn(i)
             /\ UNCHANGED dbVars
       /\ UNCHANGED job
       /\ CreateTouches

\* set_owner, then jobs.create; either may fail, and the row is rolled back.
CreateEnqueue(i) ==
    /\ create[i].pc = "inserted"
    /\ \/ /\ NoFault
          /\ job' = [job EXCEPT ![i] = "pending"]
          /\ create' = [create EXCEPT ![i].pc = "queued"]
       \/ /\ TableFault
          /\ create' = [create EXCEPT ![i].pc = "rollback"]
          /\ UNCHANGED job
    /\ UNCHANGED <<dbVars, capLock>>
    /\ CreateTouches

\* rollback_instance_db: the row is read if a warm lease is to be put back, then
\* release_all_leases.  A failing read skips the warm lease, a failing release is
\* only logged ...
RollbackRelease(i) ==
    /\ create[i].pc = "rollback"
    /\ \E read, released \in BOOLEAN :
          /\ IF read /\ released THEN NoFault ELSE TableFault
          /\ rt' = IF released THEN release_lease(i) ELSE StrayLease(i)
          /\ storage' = IF released THEN storage \ {i} ELSE storage
          /\ create' = [create EXCEPT ![i].pc = IF create[i].warm /\ read THEN "restore"
                                                ELSE "erase"]
    /\ UNCHANGED <<row, deleted, job, capLock>>
    /\ CreateTouches

\* ... then the warm lease is put back, whatever became of the release, unless
\* another one is in its place ...
RollbackRestore(i) ==
    LET c == ClawOf[i] IN
    /\ create[i].pc = "restore"
    /\ \/ /\ NoFault
          /\ CanCreateLease(c)
          /\ rt' = [create_lease(c, create[i].covered) EXCEPT
                       ![i].stray = IF @ = "kept" THEN "doubled" ELSE @]
       \/ /\ (~CanCreateLease(c) /\ NoFault) \/ TableFault
          /\ UNCHANGED rt
    /\ create' = [create EXCEPT ![i].pc = "erase"]
    /\ UNCHANGED <<row, deleted, storage, job, capLock>>
    /\ CreateTouches

\* ... then the row is deleted, or marked Failed, or neither works.
RollbackErase(i) ==
    /\ create[i].pc = "erase"
    /\ \/ /\ NoFault
          /\ row' = [row EXCEPT ![i] = "absent"]
          /\ deleted' = deleted \ {i}
       \/ /\ TableFault
          /\ row' \in {row, update_status(i, "failed")}
          /\ UNCHANGED deleted
    /\ CreateReturn(i)
    /\ UNCHANGED <<rt, storage, job>>
    /\ CreateTouches

\* The "queuing" phase is written after the job can be claimed.
CreateQueuing(i) ==
    /\ create[i].pc = "queued"
    /\ \/ NoFault /\ row' = update_status(i, "provisioning")
       \/ TableFault /\ UNCHANGED row
    /\ CreateReturn(i)
    /\ UNCHANGED <<deleted, rt, storage, job>>
    /\ CreateTouches

CreateStep(i) ==
    \/ CreateCheck(i) \/ CreateMatch(i) \/ CreateInsert(i) \/ CreateEnqueue(i)
    \/ RollbackRelease(i) \/ RollbackRestore(i) \/ RollbackErase(i)
    \/ CreateQueuing(i)

-----------------------------------------------------------------------------
(* The jobs worker and the create flow of the executor.                    *)

WorkerTouches == UNCHANGED <<envVars, capLock, create, op, recon, reaper, auto>>
WorkerFrame == WorkerTouches /\ NoFault

\* Mutant: interrupted jobs are queued again.
fail_running_jobs_requeue ==
    job' = [i \in Inst |-> IF job[i] = "running" THEN "pending" ELSE job[i]]
\* Mutant: interrupted jobs are left running.
fail_running_jobs_skip == job' = job
\* fail_running_jobs: what a previous process was running never completes.
fail_running_jobs ==
    job' = [i \in Inst |-> IF job[i] = "running" THEN "failed" ELSE job[i]]

\* The recovery is only logged when it fails: stale jobs stay running.
WRecover ==
    /\ mode = "up"
    /\ worker.pc = "start"
    /\ \/ NoFault /\ fail_running_jobs
       \/ TableFault /\ UNCHANGED job
    /\ worker' = IdleWorker
    /\ UNCHANGED <<dbVars, hostVars, execLock, ran>>
    /\ WorkerTouches

WClaim(i) ==
    /\ worker.pc = "idle"
    /\ job[i] = "pending"
    /\ job' = [job EXCEPT ![i] = "running"]
    /\ worker' = [worker EXCEPT !.pc = "claimed", !.inst = i]
    /\ UNCHANGED <<dbVars, hostVars, execLock, ran>>
    /\ WorkerFrame

\* The maintenance gate: the job goes back to pending, or the flow may start.  A
\* job that could not be put back stays running, and the worker takes the next.
WGate ==
    /\ worker.pc = "claimed"
    /\ \/ /\ maint
          /\ \/ NoFault /\ job' = [job EXCEPT ![worker.inst] = "pending"]
             \/ TableFault /\ UNCHANGED job
          /\ worker' = IdleWorker
       \/ /\ ~maint
          /\ NoFault
          /\ worker' = [worker EXCEPT !.pc = "ready"]
          /\ UNCHANGED job
    /\ UNCHANGED <<dbVars, hostVars, execLock, ran>>
    /\ WorkerTouches

\* create_vm: status "pulling", then the lease gets another 20 minutes.
WStart ==
    /\ worker.pc = "ready"
    /\ execLock = "nobody"
    /\ execLock' = "worker"
    /\ \/ /\ NoFault
          /\ row' = update_status(worker.inst, "provisioning")
          /\ rt' = extend_lease(worker.inst)
       \/ /\ TableFault
          /\ row' \in {row, update_status(worker.inst, "provisioning")}
          /\ rt' \in {rt, extend_lease(worker.inst)}
    /\ ran' = ran \cup {worker.inst}
    /\ worker' = [worker EXCEPT !.pc = "create"]
    /\ UNCHANGED <<deleted, storage, job, hostVars>>
    /\ WorkerTouches

\* The VM runner's Create; a failure may leave a VM or a directory behind.
WCreate ==
    LET i == worker.inst IN
    /\ worker.pc = "create"
    /\ \/ /\ NoFault
          /\ vm' = vm \cup {i}
          /\ disk' = disk \cup {i}
          /\ worker' = [worker EXCEPT !.pc = "activate"]
       \/ /\ Fault
          /\ disk' \in {disk, disk \cup {i}}
          /\ vm' \in {vm, vm \cup {i}}
          /\ i \in vm' => i \in disk'
          /\ worker' = [worker EXCEPT !.pc = "cleanup"]
    /\ UNCHANGED <<dbVars, job, execLock, ran>>
    /\ WorkerTouches

\* Delete, then every lease of the instance is released, both best effort.  A port
\* conflict ends with the row Failed here, other errors in mark_failed.
WCleanup ==
    LET i == worker.inst IN
    /\ worker.pc = "cleanup"
    /\ \E released \in BOOLEAN :
          /\ \/ vm' = vm \ {i} /\ disk' = disk \ {i} /\ (IF released THEN NoFault ELSE TableFault)
             \/ UNCHANGED hostVars /\ (IF released THEN Fault ELSE TableFault)
          /\ rt' = IF released THEN release_lease(i) ELSE rt
          /\ storage' = IF released THEN storage \ {i} ELSE storage
    /\ row' \in {row, update_status(i, "failed")}
    /\ execLock' = "nobody"
    /\ worker' = [worker EXCEPT !.pc = "markJob", !.ok = FALSE]
    /\ UNCHANGED <<deleted, job, ran>>
    /\ WorkerTouches

\* set_active: the row first, provisioning and then active ...
WActivate ==
    /\ worker.pc = "activate"
    /\ \/ NoFault /\ row' = update_status(worker.inst, "active")
       \/ TableFault /\ row' \in {row, update_status(worker.inst, "provisioning")}
    /\ worker' = [worker EXCEPT !.pc = "finalize"]
    /\ UNCHANGED <<deleted, rt, storage, hostVars, job, execLock, ran>>
    /\ WorkerTouches

\* ... then the lease loses its expiry.
WFinalize ==
    /\ worker.pc = "finalize"
    /\ \/ NoFault /\ rt' = finalize_lease(worker.inst)
       \/ TableFault /\ UNCHANGED rt
    /\ execLock' = "nobody"
    /\ worker' = [worker EXCEPT !.pc = "markJob", !.ok = TRUE]
    /\ UNCHANGED <<row, deleted, storage, hostVars, job, ran>>
    /\ WorkerTouches

\* mark_completed and mark_failed: the job first, the row after it.  A failing
\* write is logged; the job stays running and the worker goes on.
WMarkJob ==
    /\ worker.pc = "markJob"
    /\ \/ /\ NoFault
          /\ job' = [job EXCEPT ![worker.inst] = IF worker.ok THEN "completed" ELSE "failed"]
       \/ TableFault /\ UNCHANGED job
    /\ worker' = [worker EXCEPT !.pc = "markRow"]
    /\ UNCHANGED <<dbVars, hostVars, execLock, ran>>
    /\ WorkerTouches

WMarkRow ==
    /\ worker.pc = "markRow"
    /\ \/ NoFault /\ row' = update_status(worker.inst, IF worker.ok THEN "active" ELSE "failed")
       \/ TableFault /\ UNCHANGED row
    /\ worker' = IdleWorker
    /\ UNCHANGED <<deleted, rt, storage, hostVars, job, execLock, ran>>
    /\ WorkerTouches

WorkerStep ==
    \/ WRecover \/ (\E i \in Inst : WClaim(i)) \/ WGate \/ WStart \/ WCreate
    \/ WCleanup \/ WActivate \/ WFinalize \/ WMarkJob \/ WMarkRow

-----------------------------------------------------------------------------
(* Stop, restart, rebuild and delete requests.                             *)

OpFrame == UNCHANGED <<job, installed, uninst, maint, mode, create, worker,
                       recon, reaper, auto, ran>>

\* require_instance: the row is read once, deleted or not.
OpRequest(o, kind, i) ==
    /\ op[o].pc = "idle"
    /\ left.ops > 0
    /\ row[i] # "absent"
    /\ op' = [op EXCEPT ![o] = [IdleOp EXCEPT
                  !.pc = IF kind = "restart" THEN "check" ELSE "flow",
                  !.kind = kind, !.inst = i]]
    /\ left' = [left EXCEPT !.ops = @ - 1]
    /\ UNCHANGED <<dbVars, hostVars, capLock, execLock>>
    /\ OpFrame

\* restart under the capacity lock: a lease that counts is enough, otherwise
\* capacity is checked, with the claw type, so that a warm lease matches.
RestartCheck(o) ==
    LET i == op[o].inst IN
    /\ op[o].pc = "check"
    /\ capLock = "nobody"
    /\ \/ /\ has_active_lease(i)
          /\ NoFault
          /\ op' = [op EXCEPT ![o].pc = "flow"]
          /\ UNCHANGED capLock
       \/ /\ ~has_active_lease(i)
          /\ \E matched \in BOOLEAN :
                /\ request_matches_warm_pool_lease(i, matched)
                /\ check_capacity(matched)
                /\ op' = [op EXCEPT ![o].pc = "acquire", ![o].matched = matched]
          /\ capLock' = o
       \/ /\ (~has_active_lease(i) /\ NoFault) \/ TableFault
          /\ op' = [op EXCEPT ![o] = IdleOp]
          /\ UNCHANGED capLock
    /\ UNCHANGED <<dbVars, hostVars, execLock>>
    /\ OpFrame

\* A new lease; it fails on an expired lease that nobody has released yet.
RestartAcquire(o) ==
    LET i == op[o].inst IN
    /\ op[o].pc = "acquire"
    /\ capLock' = "nobody"
    /\ \/ /\ CanCreateLease(i)
          /\ NoFault
          /\ rt' = create_lease(i, ~op[o].matched)
          /\ op' = [op EXCEPT ![o].pc = "flow", ![o].acquired = TRUE]
       \/ /\ (~CanCreateLease(i) /\ NoFault) \/ TableFault
          /\ op' = [op EXCEPT ![o] = IdleOp]
          /\ UNCHANGED rt
    /\ UNCHANGED <<row, deleted, storage, hostVars, execLock>>
    /\ OpFrame

\* What the VM runner may leave behind when a flow of this kind succeeds.
FlowDone(kind, i) ==
    CASE kind = "stop" -> vm' = vm \ {i} /\ disk' = disk
      [] kind \in {"restart", "rebuild"} ->
            i \in disk /\ vm' = vm \cup {i} /\ disk' = disk
      [] kind = "delete" -> vm' \in {vm, vm \ {i}} /\ disk' \in {disk, disk \ {i}}

\* The VM part of a flow.  stop, restart and rebuild may fail, delete goes on.
OpVm(o) ==
    LET k == op[o].kind  i == op[o].inst IN
    /\ op[o].pc = "flow"
    /\ execLock = "nobody"
    /\ \/ /\ NoFault
          /\ FlowDone(k, i)
          /\ execLock' = o
          /\ op' = [op EXCEPT ![o].pc = "commit"]
       \/ /\ k # "delete"
          /\ (k # "stop" /\ i \notin disk /\ NoFault) \/ Fault
          /\ vm' \in IF k = "stop" THEN {vm} ELSE {vm, vm \ {i}}
          /\ op' = [op EXCEPT ![o] = IF op[o].acquired
                                     THEN [op[o] EXCEPT !.pc = "undo"] ELSE IdleOp]
          /\ UNCHANGED <<disk, execLock>>
    /\ UNCHANGED <<dbVars, capLock>>
    /\ OpFrame

\* The status a flow ends with; delete also sets deleted_at.
RowOutcome(kind, i) ==
    /\ row' = IF kind = "delete" THEN soft_delete_status(i)
              ELSE update_status(i, IF kind = "stop" THEN "stopped" ELSE "active")
    /\ deleted' = IF kind = "delete" /\ row[i] # "absent" THEN deleted \cup {i}
                  ELSE deleted

\* The tables part of a flow; each write is best effort.  Delete keeps the storage
\* lease when cleanup_fs failed, which it may also do after the directory is gone.
OpCommit(o) ==
    LET k == op[o].kind  i == op[o].inst
        freed == IF k \in {"stop", "delete"} THEN release_lease(i) ELSE rt
    IN
    /\ op[o].pc = "commit"
    /\ \/ NoFault /\ RowOutcome(k, i) /\ rt' = freed
       \/ /\ TableFault
          /\ RowOutcome(k, i) \/ UNCHANGED <<row, deleted>>
          /\ rt' \in {rt, freed}
    /\ storage' \in IF k = "delete"
                    THEN {storage} \cup (IF i \in disk THEN {} ELSE {storage \ {i}})
                    ELSE {storage}
    /\ execLock' = "nobody"
    /\ op' = [op EXCEPT ![o].pc = "post"]
    /\ UNCHANGED <<hostVars, capLock>>
    /\ OpFrame

\* The handler writes the outcome once more, outside the executor mutex.
OpPost(o) ==
    /\ op[o].pc = "post"
    /\ \/ NoFault /\ RowOutcome(op[o].kind, op[o].inst)
       \/ TableFault /\ UNCHANGED <<row, deleted>>
    /\ op' = [op EXCEPT ![o] = IdleOp]
    /\ UNCHANGED <<rt, storage, hostVars, capLock, execLock>>
    /\ OpFrame

\* Mutant: a failed restart keeps the lease it acquired.
RestartUndo_mutant(o) ==
    /\ op[o].pc = "undo"
    /\ op' = [op EXCEPT ![o] = IdleOp]
    /\ UNCHANGED <<dbVars, hostVars, capLock, execLock, left>>
    /\ OpFrame
\* A failed restart gives back the lease it acquired, and ignores whether that
\* worked.
RestartUndo(o) ==
    /\ op[o].pc = "undo"
    /\ \/ NoFault /\ rt' = release_lease(op[o].inst)
       \/ TableFault /\ rt' = StrayLease(op[o].inst)
    /\ op' = [op EXCEPT ![o] = IdleOp]
    /\ UNCHANGED <<row, deleted, storage, hostVars, capLock, execLock>>
    /\ OpFrame

OpStep(o) ==
    \/ RestartCheck(o) \/ RestartAcquire(o) \/ OpVm(o) \/ OpCommit(o)
    \/ OpPost(o) \/ RestartUndo(o)

-----------------------------------------------------------------------------
(* The lease clock and the lease reaper.                                   *)

\* No call in a flow has a deadline, so a TTL may run out at any moment.
Expire(i) ==
    /\ rt[i].st = "ttl"
    /\ rt' = [rt EXCEPT ![i].st = "expired"]
    /\ UNCHANGED <<row, deleted, storage, job, hostVars, envVars, capLock, execLock,
                   create, worker, op, recon, reaper, auto, left, ran>>

ReaperFrame == UNCHANGED <<deleted, job, hostVars, envVars, capLock, execLock,
                           create, worker, op, recon, auto, ran>>

ReapScan ==
    /\ mode = "up"
    /\ reaper.pc = "idle"
    /\ \E i \in Inst : rt[i].st = "expired"
    /\ reaper' = [IdleReaper EXCEPT !.pc = "scan",
                      !.todo = {i \in Inst : rt[i].st = "expired"}]
    /\ UNCHANGED <<row, rt, storage, left>>
    /\ ReaperFrame

\* Mutant: a lease whose row is not provisioning is left alone.
ReapRead_mutant(i) ==
    /\ reaper.pc = "scan"
    /\ i \in reaper.todo
    /\ reaper' = [reaper EXCEPT
                     !.pc = IF row[i] = "provisioning" THEN "mark"
                            ELSE IF reaper.todo = {i} THEN "idle" ELSE "scan",
                     !.todo = @ \ {i},
                     !.cur = IF row[i] = "provisioning" THEN i ELSE NoInst]
    /\ UNCHANGED <<row, rt, storage, left>>
    /\ ReaperFrame
\* The row decides what to do with the next lease of the scan, and a row that
\* cannot be read counts as a finished one; the lease itself is not read again.
ReapRead(i) ==
    /\ reaper.pc = "scan"
    /\ i \in reaper.todo
    /\ \/ /\ NoFault
          /\ reaper' = [pc |-> IF row[i] = "provisioning" THEN "mark" ELSE "release",
                        todo |-> reaper.todo \ {i}, cur |-> i, all |-> row[i] = "absent"]
       \/ /\ TableFault
          /\ reaper' = [pc |-> "release", todo |-> reaper.todo \ {i}, cur |-> i,
                        all |-> FALSE]
    /\ UNCHANGED <<row, rt, storage>>
    /\ ReaperFrame

ReapMark ==
    /\ reaper.pc = "mark"
    /\ \/ NoFault /\ row' = update_status(reaper.cur, "failed")
       \/ TableFault /\ UNCHANGED row
    /\ reaper' = [reaper EXCEPT !.pc = "release"]
    /\ UNCHANGED <<rt, storage>>
    /\ ReaperFrame

\* release_all_leases when there was no row, else the runtime lease only.  What
\* could not be released is found again by the next scan.
ReapRelease ==
    /\ reaper.pc = "release"
    /\ \/ /\ NoFault
          /\ rt' = release_lease(reaper.cur)
          /\ storage' = IF reaper.all THEN storage \ {reaper.cur} ELSE storage
       \/ TableFault /\ UNCHANGED <<rt, storage>>
    /\ reaper' = IF reaper.todo = {} THEN IdleReaper
                 ELSE [reaper EXCEPT !.pc = "scan", !.cur = NoInst, !.all = FALSE]
    /\ UNCHANGED row
    /\ ReaperFrame

ReaperStep == ReapScan \/ (\E i \in Inst : ReapRead(i)) \/ ReapMark \/ ReapRelease

-----------------------------------------------------------------------------
(* The warm-pool reconciler.  It waits for the executor mutex while it     *)
(* holds the capacity lock.                                                *)

ReconTouches == UNCHANGED <<row, deleted, storage, job, hostVars, envVars, create,
                            worker, op, reaper, auto, ran>>
ReconFrame == ReconTouches /\ NoFault

\* A cycle is skipped while maintenance is active ...
ReconWake ==
    /\ mode = "up"
    /\ recon.pc = "idle"
    /\ ~maint
    /\ recon' = [recon EXCEPT !.pc = "wait"]
    /\ UNCHANGED <<rt, capLock, execLock>>
    /\ ReconFrame

\* ... which is not looked at again after the wait for the lock.
ReconLock ==
    /\ recon.pc = "wait"
    /\ capLock = "nobody"
    /\ capLock' = "reconciler"
    /\ recon' = [recon EXCEPT !.pc = "probe"]
    /\ UNCHANGED <<rt, execLock>>
    /\ ReconFrame

\* Mutant: the safety net is missing.
release_orphaned_warm_pool_leases_mutant(failed) == rt
\* Warm leases of claw types that are not Ready are released, but for those whose
\* release fails.
release_orphaned_warm_pool_leases(failed) ==
    [o \in Owner |-> IF o \in (Claw \ installed) \ failed THEN NoLease ELSE rt[o]]

\* Mutant: the refill does not look at the budget.
RefillChoices_mutant(leases) ==
    SUBSET {c \in installed : leases[c].st \notin {"ttl", "final"}}
\* decide_refill_targets: Ready claw types without an active lease whose slot the
\* VM runner reports empty (any of them may be), as many as the budget admits.
RefillChoices(leases) ==
    {t \in SUBSET {c \in installed : leases[c].st \notin {"ttl", "final"}} :
        \/ t = {}
        \/ sum_active_runtime_leases(leases) + Cardinality(t) <= Budget}

\* The slots are probed under the executor mutex; then orphans go, and the
\* targets of this cycle are fixed.  When the host or the sum of the leases cannot
\* be read, the cycle ends as it does without targets.
ReconDecide ==
    /\ recon.pc = "probe"
    /\ execLock = "nobody"
    /\ \E failed \in SUBSET Claw :
          LET leases == release_orphaned_warm_pool_leases(failed) IN
          /\ IF failed = {} THEN NoFault ELSE TableFault
          /\ rt' = leases
          /\ \E t \in RefillChoices(leases) :
                recon' = [recon EXCEPT !.pc = "fill", !.targets = t]
    /\ UNCHANGED <<capLock, execLock>>
    /\ ReconTouches

\* The lease is created before the refill is dispatched; a target is skipped when
\* that fails, as for a duplicate.
ReconLease(c) ==
    /\ recon.pc = "fill"
    /\ c \in recon.targets
    /\ execLock = "nobody"
    /\ \/ /\ CanCreateLease(c)
          /\ NoFault
          /\ rt' = create_lease(c, TRUE)
          /\ recon' = [pc |-> "refill", targets |-> recon.targets \ {c}, cur |-> c]
          /\ execLock' = "reconciler"
       \/ /\ (~CanCreateLease(c) /\ NoFault) \/ TableFault
          /\ recon' = [recon EXCEPT !.targets = @ \ {c}]
          /\ UNCHANGED <<rt, execLock>>
    /\ UNCHANGED capLock
    /\ ReconTouches

\* The refill call succeeds, or its lease is released; when the release fails too,
\* the lease stays, as if the refill had succeeded.
ReconRefill ==
    /\ recon.pc = "refill"
    /\ \/ NoFault /\ UNCHANGED rt
       \/ Fault /\ rt' = release_lease(recon.cur)
    /\ recon' = [recon EXCEPT !.pc = "fill", !.cur = NoInst]
    /\ execLock' = "nobody"
    /\ UNCHANGED capLock
    /\ ReconTouches

\* Mutant: the guard of the capacity lock outlives the cycle.
ReconDone_mutant ==
    /\ recon.pc = "fill"
    /\ recon.targets = {}
    /\ recon' = [IdleRecon EXCEPT !.pc = "probe"]
    /\ UNCHANGED <<rt, capLock, execLock>>
    /\ ReconFrame
\* The end of the cycle drops the guard of the capacity lock.
ReconDone ==
    /\ recon.pc = "fill"
    /\ recon.targets = {}
    /\ recon' = IdleRecon
    /\ capLock' = "nobody"
    /\ UNCHANGED <<rt, execLock>>
    /\ ReconFrame

ReconStep == ReconWake \/ ReconLock \/ ReconDecide \/ (\E c \in Claw : ReconLease(c))
             \/ ReconRefill \/ ReconDone

-----------------------------------------------------------------------------
(* Uninstalling a claw type, and maintenance windows.                      *)

EnvFrame == UNCHANGED <<row, deleted, storage, job, hostVars, capLock, execLock, mode,
                        create, worker, op, recon, reaper, auto, ran>>

\* uninstall_claw: the claw type is Ready and has no instance ...
UninstallCheck(c) ==
    /\ uninst[c] = "idle"
    /\ c \in installed
    /\ \A i \in Inst : ClawOf[i] = c => row[i] = "absent" \/ i \in deleted
    /\ uninst' = [uninst EXCEPT ![c] = "checked"]
    /\ UNCHANGED <<rt, installed, maint, left>>
    /\ EnvFrame

\* ... and, after the job is queued, it stops being Ready.
UninstallMark(c) ==
    /\ uninst[c] = "checked"
    /\ installed' = installed \ {c}
    /\ uninst' = [uninst EXCEPT ![c] = "marked"]
    /\ UNCHANGED <<rt, maint, left>>
    /\ EnvFrame

\* run_uninstall_claw: NotInstalled, then the warm lease is released, without
\* the capacity lock; a failing release is only logged.
UninstallRelease(c) ==
    /\ uninst[c] = "marked"
    /\ \/ NoFault /\ rt' = release_lease(c)
       \/ TableFault /\ UNCHANGED rt
    /\ uninst' = [uninst EXCEPT ![c] = "idle"]
    /\ UNCHANGED <<installed, maint>>
    /\ EnvFrame

UninstallStep(c) == UninstallMark(c) \/ UninstallRelease(c)

MaintOn ==
    /\ ~maint
    /\ left.maint > 0
    /\ maint' = TRUE
    /\ left' = [left EXCEPT !.maint = @ - 1]
    /\ UNCHANGED <<rt, installed, uninst>>
    /\ EnvFrame

MaintOff ==
    /\ maint
    /\ maint' = FALSE
    /\ UNCHANGED <<rt, installed, uninst, left>>
    /\ EnvFrame

\* What the tasks above do not control.
EnvStep ==
    \/ \E i \in Inst : Expire(i)
    \/ \E c \in Claw : UninstallCheck(c) \/ UninstallStep(c)
    \/ MaintOn \/ MaintOff

-----------------------------------------------------------------------------
(* Crash and start-up.                                                     *)

\* Every task and lock is gone; the tables, the claw store and the maintenance
\* file stay.  VMs outlive the backend unless the host went down with it, and an
\* interrupted Create may leave a directory.
Crash ==
    /\ left.crashes > 0
    /\ left' = [left EXCEPT !.crashes = @ - 1, !.past = @ \cup {"crash"}]
    /\ mode' = "booting"
    /\ capLock' = "nobody"
    /\ execLock' = "nobody"
    /\ create' = [i \in Inst |-> IdleCreate]
    /\ worker' = StartWorker
    /\ op' = [o \in Op |-> IdleOp]
    /\ recon' = IdleRecon
    /\ reaper' = IdleReaper
    /\ uninst' = [c \in Claw |-> "idle"]
    /\ vm' \in {vm, {}}
    /\ disk' \in {disk} \cup (IF worker.pc = "create" THEN {disk \cup {worker.inst}} ELSE {})
    /\ auto' = [todo |-> {}, cur |-> NoInst, dead |-> auto.dead \cup (vm \ vm')]
    /\ UNCHANGED <<dbVars, job, installed, maint, ran>>

BootTouches == UNCHANGED <<deleted, storage, job, installed, uninst, maint, capLock,
                           create, worker, op, recon, reaper, ran>>

\* previously_active, read before the sweep; empty when the read fails.
BootSnapshot ==
    /\ mode = "booting"
    /\ mode' = "sweeping"
    /\ \/ NoFault /\ auto' = [auto EXCEPT !.todo = {i \in Inst \ deleted : row[i] = "active"}]
       \/ TableFault /\ UNCHANGED auto
    /\ UNCHANGED <<row, rt, hostVars, execLock>>
    /\ BootTouches

\* sweep_orphans finds the dead VMs; reconcile_after_sweep stops Active rows of
\* those (phase A) and undeleted ones without a directory (phase B).
DeadRows ==
    {i \in Inst : /\ row[i] = "active"
                  /\ \/ i \in disk /\ i \in auto.dead \ vm
                     \/ i \notin disk /\ i \notin deleted}

\* A row that could not be read or written keeps its lease; a release that fails
\* is only logged.
BootReconcile ==
    /\ mode = "sweeping"
    /\ mode' = "up"
    /\ \E stopped \in SUBSET DeadRows :
          \E released \in SUBSET stopped :
             /\ IF released = DeadRows THEN NoFault ELSE TableFault
             /\ row' = [i \in Inst |-> IF i \in stopped THEN "stopped" ELSE row[i]]
             /\ rt' = [o \in Owner |-> IF o \in released THEN NoLease ELSE rt[o]]
    /\ auto' = [auto EXCEPT !.dead = {}]
    /\ UNCHANGED <<hostVars, execLock>>
    /\ BootTouches

\* The auto-restart task: the restart flow, under the executor mutex ...
AutoVm(i) ==
    /\ mode = "up"
    /\ i \in auto.todo
    /\ execLock = "nobody"
    /\ \/ /\ i \in disk
          /\ vm' = vm \cup {i}
          /\ \/ NoFault /\ row' = update_status(i, "active")
             \/ TableFault /\ UNCHANGED row
          /\ execLock' = "boot"
          /\ auto' = [auto EXCEPT !.todo = @ \ {i}, !.cur = i]
       \/ /\ (i \notin disk /\ NoFault) \/ Fault
          /\ vm' \in {vm, vm \ {i}}
          /\ auto' = [auto EXCEPT !.todo = @ \ {i}]
          /\ UNCHANGED <<row, execLock>>
    /\ UNCHANGED <<rt, disk, mode>>
    /\ BootTouches

\* ... then ensure_restarted_runtime_lease, without a capacity check.
AutoLease ==
    /\ execLock = "boot"
    /\ \/ /\ NoFault
          /\ rt' = IF CanCreateLease(auto.cur) THEN create_lease(auto.cur, FALSE) ELSE rt
       \/ TableFault /\ UNCHANGED rt
    /\ execLock' = "nobody"
    /\ auto' = [auto EXCEPT !.cur = NoInst]
    /\ UNCHANGED <<row, hostVars, mode>>
    /\ BootTouches

BootStep == BootSnapshot \/ BootReconcile
AutoStep == AutoLease \/ (\E i \in Inst : AutoVm(i))

-----------------------------------------------------------------------------

Init ==
    /\ row = [i \in Inst |-> "absent"]
    /\ deleted = {}
    /\ rt = [o \in Owner |-> NoLease]
    /\ storage = {}
    /\ job = [i \in Inst |-> "none"]
    /\ vm = {} /\ disk = {}
    /\ installed = Claw
    /\ uninst = [c \in Claw |-> "idle"]
    /\ maint = FALSE
    /\ capLock = "nobody" /\ execLock = "nobody"
    /\ mode = "booting"
    /\ create = [i \in Inst |-> IdleCreate]
    /\ worker = StartWorker
    /\ op = [o \in Op |-> IdleOp]
    /\ recon = IdleRecon
    /\ reaper = IdleReaper
    /\ auto = [todo |-> {}, cur |-> NoInst, dead |-> {}]
    /\ \E q \in Quotas :
          left = [ops |-> q.ops, crashes |-> q.crashes, faults |-> q.faults,
                  tables |-> q.tables, maint |-> q.maint, past |-> {}]
    /\ ran = {}

Next ==
    \/ \E i \in Inst : CreateAdmit(i) \/ CreateStep(i)
    \/ WorkerStep
    \/ \E o \in Op : OpStep(o) \/ \E k \in Requests, i \in Inst : OpRequest(o, k, i)
    \/ ReaperStep
    \/ ReconStep
    \/ EnvStep
    \/ Crash \/ BootStep \/ AutoStep

\* Tasks that were started go on.  capacity_lock is a FIFO lock, and no holder of
\* the executor mutex takes it again without a pause, so a task that keeps
\* finding a lock free gets it (SF); the other steps wait for nothing (WF).
\* Clients need not ask for anything; a maintenance window ends.  Of the auto-restart
\* task it is enough that it lets go of the executor mutex.  No failure is fair.
Fairness ==
    /\ \A i \in Inst : SF_vars(CreateStep(i)) /\ WF_vars(Expire(i))
    /\ SF_vars(WorkerStep)
    /\ \A o \in Op : SF_vars(OpStep(o))
    /\ WF_vars(ReaperStep)
    /\ SF_vars(ReconStep)
    /\ \A c \in Claw : WF_vars(UninstallStep(c))
    /\ WF_vars(MaintOff)
    /\ WF_vars(BootStep)
    /\ WF_vars(AutoLease)

Spec == Init /\ [][Next]_vars
FairSpec == Spec /\ Fairness

-----------------------------------------------------------------------------
(* Properties.                                                             *)

\* Every variable has its type, and a task that is busy knows its instance.
TypeOK ==
    /\ row \in [Inst -> RowStatus]
    /\ deleted \subseteq Inst
    /\ rt \in [Owner -> Lease]
    /\ storage \subseteq Inst
    /\ job \in [Inst -> JobStatus]
    /\ vm \subseteq Inst /\ disk \subseteq Inst
    /\ installed \subseteq Claw
    /\ uninst \in [Claw -> {"idle", "checked", "marked"}]
    /\ maint \in BOOLEAN
    /\ capLock \in {"nobody", "reconciler"} \cup Inst \cup Op
    /\ execLock \in {"nobody", "worker", "boot", "reconciler"} \cup Op
    /\ mode \in {"booting", "sweeping", "up"}
    /\ create \in [Inst -> Creating]
    /\ worker \in Worker
    /\ worker.pc \notin {"start", "idle"} => worker.inst \in Inst
    /\ op \in [Op -> Handler]
    /\ \A o \in Op : op[o].pc # "idle" => op[o].inst \in Inst
    /\ recon \in Reconciler
    /\ recon.pc = "refill" => recon.cur \in Claw
    /\ reaper \in Reaper
    /\ reaper.pc \in {"mark", "release"} => reaper.cur \in Inst
    /\ auto \in AutoRestart
    /\ execLock = "boot" => auto.cur \in Inst
    /\ left \in Bounds
    /\ ran \subseteq Inst

\* The capacity lock serialises check and grant against over-commit
\* (create_instance_core, restart_instance_for_row, the warm-pool reconciler):
\* the leases that were granted on the strength of a capacity check never add up
\* to more than the budget, whatever expires, is released, renewed, transferred
\* from the warm pool or rolled back in between.  The one exception are leases that
\* a rollback failed to release before it gave their slot back to the warm pool:
\* each of those is counted twice, and nothing else is.
AdmittedWithinBudget ==
    Cardinality(CheckedLeases(rt)) <= Budget + Cardinality(DoubledLeases(rt))

\* Whoever is between check and grant holds the capacity lock.
LockInv ==
    /\ \A i \in Inst :
          create[i].pc \in {"checked", "matched", "inserted", "rollback", "restore",
                            "erase", "queued"} => capLock = i
    /\ \A o \in Op : op[o].pc = "acquire" => capLock = o
    /\ recon.pc \notin {"idle", "wait"} => capLock = "reconciler"

\* Warm leases have no expiry, and no failed release is ever held against them.
WarmLeaseInv == \A c \in Claw : rt[c].st \in {"none", "final"} /\ rt[c].stray = "no"

Fits(k) == Cardinality(AdmittedLeases(rt)) + k <= Budget

CreatePromise(i) ==
    LET c == create[i] IN
    /\ c.pc = "checked" /\ ~c.matched => Fits(1)
    /\ c.pc = "matched" /\ ~c.matched /\ ~c.warm => Fits(1)
    /\ c.pc \in {"inserted", "rollback", "restore"} /\ c.warm /\ c.covered =>
          Cardinality(AdmittedLeases(rt) \ {i}) + 1 <= Budget
    /\ c.pc = "restore" => c.warm /\ (i \in AdmittedLeases(rt) => rt[i].stray # "no")
RestartPromise(o) == op[o].pc = "acquire" /\ ~op[o].matched => Fits(1)
ReconPromise == recon.pc \in {"fill", "refill"} => Fits(Cardinality(recon.targets))

\* Why AdmittedWithinBudget holds: what a capacity check has promised still fits
\* when the promise is used, however many table calls, waits for the executor
\* mutex and releases by tasks without the lock lie in between.  A create and a
\* restart that were checked cold have one slot, the reconciler one for each
\* target of its cycle, and a create that took over a warm lease can put it back in
\* place of its own, which it has released by then or failed to release.
CapacityPromisesKept ==
    /\ Fits(0)
    /\ \A i \in Inst : CreatePromise(i)
    /\ \A o \in Op : RestartPromise(o)
    /\ ReconPromise

\* What check_capacity says of a request that matches a warm slot: it adds
\* nothing "because the warm pool lease will be transferred, not added".  A grant
\* to a restart that was checked that way leaves the warm lease gone.
WarmMatchTransferred ==
    [][\A o \in Op :
          (op[o].pc = "acquire" /\ op[o].matched /\ op'[o].acquired)
              => rt'[ClawOf[op[o].inst]].st = "none"]_vars

\* The create jobs of the jobs table, as the table's clients understand them:
\* every step of the pipeline, the worker, a crash or the recovery, failing writes
\* included, is a step of JobLifecycle or leaves the jobs alone.
AtWork == IF worker.pc \in {"start", "idle", "markRow"} THEN {} ELSE {worker.inst}
Jobs == INSTANCE JobLifecycle WITH Job <- Inst, status <- job, active <- AtWork,
                                   started <- ran
JobsImplemented == Jobs!JobSpec

\* A create request that reached the pipeline is answered: the capacity lock is
\* never held by a task that waits for a task that waits for it.
CreateAnswered == \A i \in Inst : (create[i].pc # "idle") ~> (create[i].pc = "idle")

\* The worker has gone on from a job that is still running, after a write failed.
Stranded(i) ==
    /\ job[i] = "running" /\ i \notin AtWork /\ worker.pc # "start"
    /\ "table" \in left.past

\* A queued job is completed or failed in the end, across maintenance deferrals,
\* crashes and recovery.  Only a failing write to the jobs table leaves it running,
\* until the next start at best.
JobsSettle ==
    \A i \in Inst : (job[i] \in {"pending", "running"})
                      ~> (job[i] \in {"completed", "failed"} \/ Stranded(i))

\* A provisioning lease does not linger: it becomes permanent or it is released,
\* also when its flow died with the process (the reaper's purpose).
LeasesSettle ==
    \A i \in Inst : (rt[i].st \in {"ttl", "expired"}) ~> (rt[i].st \in {"none", "final"})

\* The warm lease of a claw type that is no longer Ready is released, also when
\* the uninstall was cut off, or when a rollback or a refill that was already
\* decided creates the lease after the uninstall released it.
OrphanWarmLeasesReleased ==
    \A c \in Claw : (c \notin installed) ~> (rt[c].st = "none")

\* A runtime lease of an instance without a row has an owner that gives it back: a
\* restart that read the row before a rollback erased it acquires the lease, and is
\* still under way, as long as the process has not died.  Else a rollback or that
\* restart tried to release the lease and the call failed.
RowlessLeaseHeld ==
    "crash" \notin left.past =>
        \A i \in Inst : row[i] = "absent" /\ rt[i].st # "none" =>
            \/ rt[i].stray # "no"
            \/ \E o \in Op : op[o].kind = "restart" /\ op[o].inst = i /\ op[o].pc # "idle"

=============================================================================
