----------------------- MODULE InstanceLifecycle_proofs -----------------------
(***************************************************************************)
(* Proofs about InstanceLifecycle, for every set of instances, claw types  *)
(* and handlers, every budget and every bound: type correctness, the       *)
(* capacity invariant, and the implementation of JobLifecycle.             *)
(***************************************************************************)
EXTENDS InstanceLifecycle, FiniteSetTheorems, TLAPS

-----------------------------------------------------------------------------
(* Type correctness.                                                       *)

\* The tables, locks and tasks of a freshly installed host have their types.
LEMMA InitTypeOK == Init => TypeOK
<1> SUFFICES ASSUME Init PROVE TypeOK
  OBVIOUS
<1>1. row \in [Inst -> RowStatus] /\ rt \in [Owner -> Lease] /\ job \in [Inst -> JobStatus]
  BY DEF Init, RowStatus, Lease, NoLease, JobStatus
<1>2. create \in [Inst -> Creating]
  BY DEF Init, IdleCreate, Creating, CreatePC
<1>3. worker \in Worker /\ worker.pc \in {"start", "idle"}
  BY DEF Init, StartWorker, Worker, WorkerPC, NoInst
<1>4. op \in [Op -> Handler] /\ \A o \in Op : op[o].pc = "idle"
  BY DEF Init, IdleOp, Handler, OpPC, OpKind, NoInst
<1>5. recon \in Reconciler /\ recon.pc = "idle"
  BY DEF Init, IdleRecon, Reconciler, NoInst
<1>6. reaper \in Reaper /\ reaper.pc = "idle"
  BY DEF Init, IdleReaper, Reaper, NoInst
<1>7. auto \in AutoRestart
  BY DEF Init, AutoRestart, NoInst
<1>8. left \in Bounds
  BY BoundAssumption DEF Init, Bounds
<1> QED
  BY <1>1, <1>2, <1>3, <1>4, <1>5, <1>6, <1>7, <1>8 DEF Init, TypeOK

\* A step that fails or does not leaves a sound account of the quota, and no crash in it.
LEMMA FaultsCounted ==
  ASSUME left \in Bounds, NoFault \/ Fault \/ TableFault
  PROVE  left' \in Bounds /\ ("crash" \in left'.past <=> "crash" \in left.past)
<1>1. CASE NoFault
  BY <1>1 DEF NoFault
<1>2. CASE Fault
  BY <1>2 DEF Fault, Bounds
<1>3. CASE TableFault
  <2>1. \A n \in Nat, p \in SUBSET {"crash", "table"} :
           [left EXCEPT !.tables = n, !.past = p] \in Bounds
    BY DEF Bounds
  <2>2. left.tables - 1 \in Nat /\ left.past \cup {"table"} \in SUBSET {"crash", "table"}
    BY <1>3 DEF TableFault, Bounds
  <2>3. left' = [left EXCEPT !.tables = left.tables - 1, !.past = left.past \cup {"table"}]
    BY <1>3 DEF TableFault
  <2>4. left'.past = left.past \cup {"table"}
    BY <2>3 DEF Bounds
  <2> QED
    BY <2>1, <2>2, <2>3, <2>4
<1> QED
  BY <1>1, <1>2, <1>3

\* The operators on the lease and instance tables return such tables.
LEMMA TableTypes ==
  ASSUME TypeOK, NEW o \in Owner, NEW i \in Inst
  PROVE  /\ \A b \in BOOLEAN : create_lease(o, b) \in [Owner -> Lease]
         /\ release_lease(o) \in [Owner -> Lease]
         /\ StrayLease(o) \in [Owner -> Lease]
         /\ extend_lease(o) \in [Owner -> Lease]
         /\ finalize_lease(o) \in [Owner -> Lease]
         /\ \A s \in RowStatus : update_status(i, s) \in [Inst -> RowStatus]
         /\ soft_delete_status(i) \in [Inst -> RowStatus]
<1>1. rt \in [Owner -> Lease] /\ row \in [Inst -> RowStatus]
  BY DEF TypeOK
<1>2. \A b \in BOOLEAN : create_lease(o, b) \in [Owner -> Lease]
  BY <1>1 DEF create_lease, Lease
<1>3. release_lease(o) \in [Owner -> Lease]
  BY <1>1 DEF release_lease, NoLease, Lease
<1>4. StrayLease(o) \in [Owner -> Lease]
  BY <1>1 DEF StrayLease, Lease
<1>5. \A st \in {"ttl", "final"} : Renew(o, st) \in [Owner -> Lease]
  BY <1>1 DEF Renew, Lease
<1>6. \A s \in RowStatus : update_status(i, s) \in [Inst -> RowStatus]
  BY <1>1 DEF update_status
<1> QED
  BY <1>2, <1>3, <1>4, <1>5, <1>6 DEF extend_lease, finalize_lease, soft_delete_status, RowStatus

\* The create pipeline keeps the types.
LEMMA CreateTypes ==
  ASSUME TypeOK, NEW i \in Inst, CreateAdmit(i) \/ CreateStep(i)
  PROVE  TypeOK'
<1> USE DEF dbVars, hostVars, envVars, CreateFrame, CreateTouches, NoFault, Fault, TableFault
<1>1. CASE CreateAdmit(i)
  <2>1. create' \in [Inst -> Creating]
    <3>1. create \in [Inst -> Creating]
      BY DEF TypeOK
    <3>2. create' \in {[create EXCEPT ![i].pc = "admitted"]}
      BY <1>1 DEF CreateAdmit
    <3> QED
      BY <3>1, <3>2 DEF Creating, CreatePC
  <2>2. UNCHANGED <<row, deleted, rt, storage, job, vm, disk, installed, uninst,
                    maint, capLock, execLock, mode, worker, op, recon, reaper,
                    auto, left, ran>>
    BY <1>1 DEF CreateAdmit
  <2> QED
    BY <2>1, <2>2 DEF TypeOK
<1>2. CASE CreateCheck(i)
  <2>1. create' \in [Inst -> Creating]
    <3>1. create \in [Inst -> Creating]
      BY DEF TypeOK
    <3>2. \/ \E b \in BOOLEAN :
                create' = [create EXCEPT ![i].pc = "checked", ![i].matched = b]
          \/ create' = [create EXCEPT ![i] = IdleCreate]
      BY <1>2 DEF CreateCheck
    <3>3. CASE create' = [create EXCEPT ![i] = IdleCreate]
      BY <3>1, <3>3 DEF Creating, CreatePC, IdleCreate
    <3> QED
      BY <3>1, <3>2, <3>3 DEF Creating, CreatePC
  <2>2. capLock' \in {capLock, i}
    BY <1>2 DEF CreateCheck
  <2>3. UNCHANGED <<row, deleted, rt, storage, job, vm, disk, installed,
                    uninst, maint, execLock, mode, worker, op, recon, reaper,
                    auto, ran>>
    BY <1>2 DEF CreateCheck
  <2>4. left' \in Bounds
    BY <1>2, FaultsCounted DEF CreateCheck, request_matches_warm_pool_lease, TypeOK
  <2> QED
    BY <2>1, <2>2, <2>3, <2>4 DEF TypeOK
<1>3. CASE CreateMatch(i)
  <2>1. create' \in [Inst -> Creating]
    <3>1. create \in [Inst -> Creating]
      BY DEF TypeOK
    <3>2. PICK b \in BOOLEAN :
             create' = [create EXCEPT ![i].pc = "matched", ![i].warm = b]
      BY <1>3 DEF CreateMatch
    <3> QED
      BY <3>1, <3>2 DEF Creating, CreatePC
  <2>2. UNCHANGED <<row, deleted, rt, storage, job, vm, disk, installed,
                    uninst, maint, capLock, execLock, mode, worker, op,
                    recon, reaper, auto, ran>>
    BY <1>3 DEF CreateMatch
  <2>3. left' \in Bounds
    BY <1>3, FaultsCounted DEF CreateMatch, request_matches_warm_pool_lease, TypeOK
  <2> QED
    BY <2>1, <2>2, <2>3 DEF TypeOK
<1>4. CASE CreateInsert(i)
  <2>1. rt[ClawOf[i]].checked \in BOOLEAN /\ create[i].matched \in BOOLEAN /\ create[i].warm \in BOOLEAN
    BY ShapeAssumption DEF TypeOK, Owner, Creating, Lease
  <2>2. create' \in [Inst -> Creating]
    <3>1. create \in [Inst -> Creating]
      BY DEF TypeOK
    <3>2. \/ create' = [create EXCEPT ![i] = IdleCreate]
          \/ \E b \in BOOLEAN : create' = [create EXCEPT ![i].pc = "inserted", ![i].covered = b]
      BY <1>4, <2>1 DEF CreateInsert, CreateReturn
    <3>3. CASE create' = [create EXCEPT ![i] = IdleCreate]
      BY <3>1, <3>3 DEF Creating, CreatePC, IdleCreate
    <3> QED
      BY <3>1, <3>2, <3>3 DEF Creating, CreatePC
  <2>3. rt' \in [Owner -> Lease]
    <3>1. rt \in [Owner -> Lease] /\ NoLease \in Lease
      BY DEF TypeOK, NoLease, Lease
    <3> DEFINE new == [st |-> "ttl", stray |-> "no",
                       checked |-> IF create[i].warm THEN rt[ClawOf[i]].checked
                                   ELSE ~create[i].matched]
    <3>2. new \in Lease
      BY <2>1 DEF Lease
    <3>3. \/ rt' = rt
          \/ rt' = [o \in Owner |->
                       IF o = i THEN new
                       ELSE IF o = ClawOf[i] /\ create[i].warm THEN NoLease
                       ELSE rt[o]]
      BY <1>4 DEF CreateInsert
    <3> HIDE DEF new
    <3> QED
      BY <3>1, <3>2, <3>3
  <2>4. row' \in [Inst -> RowStatus]
    BY <1>4 DEF CreateInsert, TypeOK, RowStatus
  <2>5. capLock' \in {"nobody", capLock}
    BY <1>4 DEF CreateInsert, CreateReturn
  <2>6. storage' \subseteq Inst
    BY <1>4 DEF CreateInsert, TypeOK
  <2>7. UNCHANGED <<deleted, job, vm, disk, installed, uninst, maint,
                    execLock, mode, worker, op, recon, reaper, auto, ran>>
    BY <1>4 DEF CreateInsert, CreateReturn
  <2>8. left' \in Bounds
    BY <1>4, FaultsCounted DEF CreateInsert, TypeOK
  <2> QED
    BY <2>1, <2>2, <2>3, <2>4, <2>5, <2>6, <2>7, <2>8 DEF TypeOK
<1>5. CASE CreateEnqueue(i)
  <2>1. create' \in [Inst -> Creating]
    <3>1. create \in [Inst -> Creating]
      BY DEF TypeOK
    <3>2. create' \in {[create EXCEPT ![i].pc = "queued"], [create EXCEPT ![i].pc = "rollback"]}
      BY <1>5 DEF CreateEnqueue
    <3> QED
      BY <3>1, <3>2 DEF Creating, CreatePC
  <2>2. left' \in Bounds
    BY <1>5, FaultsCounted DEF CreateEnqueue, TypeOK
  <2>3. job' \in [Inst -> JobStatus]
    BY <1>5 DEF CreateEnqueue, TypeOK, JobStatus
  <2>4. UNCHANGED <<row, deleted, rt, storage, vm, disk, installed, uninst,
                    maint, capLock, execLock, mode, worker, op, recon, reaper,
                    auto, ran>>
    BY <1>5 DEF CreateEnqueue
  <2> QED
    BY <2>1, <2>2, <2>3, <2>4 DEF TypeOK
<1>6. CASE RollbackRelease(i)
  <2>1. create' \in [Inst -> Creating]
    <3>1. create \in [Inst -> Creating]
      BY DEF TypeOK
    <3>2. create' \in {[create EXCEPT ![i].pc = "restore"], [create EXCEPT ![i].pc = "erase"]}
      BY <1>6 DEF RollbackRelease
    <3> QED
      BY <3>1, <3>2 DEF Creating, CreatePC
  <2>2. rt' \in [Owner -> Lease]
    <3>1. release_lease(i) \in [Owner -> Lease] /\ StrayLease(i) \in [Owner -> Lease]
      BY TableTypes DEF Owner
    <3> QED
      BY <1>6, <3>1 DEF RollbackRelease
  <2>3. storage' \subseteq Inst
    BY <1>6 DEF RollbackRelease, TypeOK
  <2>4. UNCHANGED <<row, deleted, job, vm, disk, installed, uninst, maint,
                    capLock, execLock, mode, worker, op, recon, reaper, auto,
                    ran>>
    BY <1>6 DEF RollbackRelease
  <2>5. left' \in Bounds
    BY <1>6, FaultsCounted DEF RollbackRelease, TypeOK
  <2> QED
    BY <2>1, <2>2, <2>3, <2>4, <2>5 DEF TypeOK
<1>7. CASE RollbackRestore(i)
  <2>1. create' \in [Inst -> Creating]
    <3>1. create \in [Inst -> Creating]
      BY DEF TypeOK
    <3>2. create' \in {[create EXCEPT ![i].pc = "erase"]}
      BY <1>7 DEF RollbackRestore
    <3> QED
      BY <3>1, <3>2 DEF Creating, CreatePC
  <2>2. rt' \in [Owner -> Lease]
    <3>1. ClawOf[i] \in Owner /\ create[i].covered \in BOOLEAN
      BY ShapeAssumption DEF TypeOK, Creating, Owner
    <3> DEFINE made == create_lease(ClawOf[i], create[i].covered)
    <3>2. made \in [Owner -> Lease] /\ rt \in [Owner -> Lease] /\ i \in Owner
      BY <3>1, TableTypes DEF TypeOK, Owner
    <3>3. \/ rt' = rt
          \/ \E x \in {"no", "kept", "doubled"} : rt' = [made EXCEPT ![i].stray = x]
      <4>1. made[i].stray \in {"no", "kept", "doubled"}
        BY <3>2 DEF Lease
      <4> HIDE DEF made
      <4>2. \/ rt' = rt
            \/ rt' = [made EXCEPT ![i].stray = IF made[i].stray = "kept" THEN "doubled"
                                              ELSE made[i].stray]
        BY <1>7 DEF RollbackRestore, made
      <4> QED
        BY <4>1, <4>2
    <3> HIDE DEF made
    <3> QED
      BY <3>2, <3>3 DEF Lease
  <2>3. UNCHANGED <<row, deleted, storage, job, vm, disk, installed, uninst,
                    maint, capLock, execLock, mode, worker, op, recon,
                    reaper, auto, ran>>
    BY <1>7 DEF RollbackRestore
  <2>4. left' \in Bounds
    BY <1>7, FaultsCounted DEF RollbackRestore, TypeOK
  <2> QED
    BY <2>1, <2>2, <2>3, <2>4 DEF TypeOK
<1>8. CASE RollbackErase(i)
  <2>1. create' \in [Inst -> Creating] /\ capLock' = "nobody"
    <3>1. create \in [Inst -> Creating]
      BY DEF TypeOK
    <3>2. create' = [create EXCEPT ![i] = IdleCreate] /\ capLock' = "nobody"
      BY <1>8 DEF RollbackErase, CreateReturn
    <3> QED
      BY <3>1, <3>2 DEF Creating, CreatePC, IdleCreate
  <2>2. row' \in [Inst -> RowStatus] /\ deleted' \subseteq Inst
    <3>1. update_status(i, "failed") \in [Inst -> RowStatus]
      BY TableTypes DEF RowStatus, Owner
    <3>2. [row EXCEPT ![i] = "absent"] \in [Inst -> RowStatus]
      BY DEF TypeOK, RowStatus
    <3> QED
      BY <1>8, <3>1, <3>2 DEF RollbackErase, TypeOK
  <2>3. left' \in Bounds
    BY <1>8, FaultsCounted DEF RollbackErase, TypeOK
  <2>4. UNCHANGED <<rt, storage, job, vm, disk, installed, uninst, maint,
                    execLock, mode, worker, op, recon, reaper, auto, ran>>
    BY <1>8 DEF RollbackErase, CreateReturn
  <2> QED
    BY <2>1, <2>2, <2>3, <2>4 DEF TypeOK
<1>9. CASE CreateQueuing(i)
  <2>1. create' \in [Inst -> Creating] /\ capLock' = "nobody"
    <3>1. create \in [Inst -> Creating]
      BY DEF TypeOK
    <3>2. create' = [create EXCEPT ![i] = IdleCreate] /\ capLock' = "nobody"
      BY <1>9 DEF CreateQueuing, CreateReturn
    <3> QED
      BY <3>1, <3>2 DEF Creating, CreatePC, IdleCreate
  <2>2. row' \in [Inst -> RowStatus]
    BY <1>9, TableTypes DEF CreateQueuing, RowStatus, Owner, TypeOK
  <2>3. UNCHANGED <<deleted, rt, storage, job, vm, disk, installed, uninst,
                    maint, execLock, mode, worker, op, recon, reaper, auto,
                    ran>>
    BY <1>9 DEF CreateQueuing, CreateReturn
  <2>4. left' \in Bounds
    BY <1>9, FaultsCounted DEF CreateQueuing, TypeOK
  <2> QED
    BY <2>1, <2>2, <2>3, <2>4 DEF TypeOK
<1> QED
  BY <1>1, <1>2, <1>3, <1>4, <1>5, <1>6, <1>7, <1>8, <1>9 DEF CreateStep

\* The jobs worker and the create flow keep the types.
LEMMA WorkerTypes ==
  ASSUME TypeOK, WorkerStep
  PROVE  TypeOK'
<1> USE DEF dbVars, hostVars, envVars, WorkerFrame, WorkerTouches, NoFault, Fault, TableFault
<1>1. CASE WRecover
  <2>1. worker' \in Worker /\ (worker'.pc \notin {"start", "idle"} => worker'.inst \in Inst)
    BY <1>1 DEF WRecover, TypeOK, Worker, WorkerPC, IdleWorker, StartWorker, NoInst
  <2>2. job' \in [Inst -> JobStatus]
    BY <1>1 DEF WRecover, fail_running_jobs, TypeOK, JobStatus
  <2>3. UNCHANGED <<row, deleted, rt, storage, vm, disk, installed, uninst,
                    maint, capLock, execLock, mode, create, op, recon,
                    reaper, auto, ran>>
    BY <1>1 DEF WRecover
  <2>4. left' \in Bounds
    BY <1>1, FaultsCounted DEF WRecover, TypeOK
  <2> QED
    BY <2>1, <2>2, <2>3, <2>4 DEF TypeOK
<1>2. CASE (\E i \in Inst : WClaim(i))
  <2>1. worker' \in Worker /\ (worker'.pc \notin {"start", "idle"} => worker'.inst \in Inst)
    BY <1>2 DEF WClaim, TypeOK, Worker, WorkerPC, IdleWorker, StartWorker, NoInst
  <2>2. job' \in [Inst -> JobStatus]
    BY <1>2 DEF WClaim, TypeOK, JobStatus
  <2>3. UNCHANGED <<row, deleted, rt, storage, vm, disk, installed, uninst,
                    maint, capLock, execLock, mode, create, op, recon, reaper,
                    auto, left, ran>>
    BY <1>2 DEF WClaim
  <2> QED
    BY <2>1, <2>2, <2>3 DEF TypeOK
<1>3. CASE WGate
  <2>1. worker' \in Worker /\ (worker'.pc \notin {"start", "idle"} => worker'.inst \in Inst)
    BY <1>3 DEF WGate, TypeOK, Worker, WorkerPC, IdleWorker, StartWorker, NoInst
  <2>2. job' \in [Inst -> JobStatus]
    BY <1>3 DEF WGate, TypeOK, JobStatus
  <2>3. UNCHANGED <<row, deleted, rt, storage, vm, disk, installed, uninst,
                    maint, capLock, execLock, mode, create, op, recon,
                    reaper, auto, ran>>
    BY <1>3 DEF WGate
  <2>4. left' \in Bounds
    BY <1>3, FaultsCounted DEF WGate, TypeOK
  <2> QED
    BY <2>1, <2>2, <2>3, <2>4 DEF TypeOK
<1>4. CASE WStart
  <2>1. worker.inst \in Inst /\ worker.inst \in Owner
    BY <1>4 DEF WStart, TypeOK, Owner
  <2>2. worker' \in Worker /\ (worker'.pc \notin {"start", "idle"} => worker'.inst \in Inst)
    BY <1>4 DEF WStart, TypeOK, Worker, WorkerPC, IdleWorker, StartWorker, NoInst
  <2>3. row' \in [Inst -> RowStatus]
    BY <1>4, <2>1, TableTypes DEF WStart, TypeOK, RowStatus, Owner
  <2>4. rt' \in [Owner -> Lease]
    BY <1>4, <2>1, TableTypes DEF WStart, TypeOK
  <2>5. ran' \subseteq Inst /\ execLock' = "worker"
    BY <1>4, <2>1 DEF WStart, TypeOK
  <2>6. UNCHANGED <<deleted, storage, job, vm, disk, installed, uninst,
                    maint, capLock, mode, create, op, recon, reaper, auto>>
    BY <1>4 DEF WStart
  <2>7. left' \in Bounds
    BY <1>4, FaultsCounted DEF WStart, TypeOK
  <2> QED
    BY <2>1, <2>2, <2>3, <2>4, <2>5, <2>6, <2>7 DEF TypeOK
<1>5. CASE WCreate
  <2>1. worker.inst \in Inst /\ worker.inst \in Owner
    BY <1>5 DEF WCreate, TypeOK, Owner
  <2>2. worker' \in Worker /\ (worker'.pc \notin {"start", "idle"} => worker'.inst \in Inst)
    BY <1>5 DEF WCreate, TypeOK, Worker, WorkerPC, IdleWorker, StartWorker, NoInst
  <2>3. vm' \subseteq Inst /\ disk' \subseteq Inst
    BY <1>5, <2>1 DEF WCreate, TypeOK
  <2>4. left' \in Bounds
    BY <1>5, FaultsCounted DEF WCreate, TypeOK
  <2>5. UNCHANGED <<row, deleted, rt, storage, job, installed, uninst, maint,
                    capLock, execLock, mode, create, op, recon, reaper, auto,
                    ran>>
    BY <1>5 DEF WCreate
  <2> QED
    BY <2>1, <2>2, <2>3, <2>4, <2>5 DEF TypeOK
<1>6. CASE WCleanup
  <2>1. worker.inst \in Inst /\ worker.inst \in Owner
    BY <1>6 DEF WCleanup, TypeOK, Owner
  <2>2. worker' \in Worker /\ (worker'.pc \notin {"start", "idle"} => worker'.inst \in Inst)
    BY <1>6 DEF WCleanup, TypeOK, Worker, WorkerPC, IdleWorker, StartWorker, NoInst
  <2>3. row' \in [Inst -> RowStatus]
    BY <1>6, <2>1, TableTypes DEF WCleanup, TypeOK, RowStatus, Owner
  <2>4. rt' \in [Owner -> Lease]
    BY <1>6, <2>1, TableTypes DEF WCleanup, TypeOK
  <2>5. vm' \subseteq Inst /\ disk' \subseteq Inst /\ storage' \subseteq Inst /\ execLock' = "nobody"
    BY <1>6 DEF WCleanup, TypeOK
  <2>6. left' \in Bounds
    BY <1>6, FaultsCounted DEF WCleanup, TypeOK
  <2>7. UNCHANGED <<deleted, job, installed, uninst, maint, capLock, mode,
                    create, op, recon, reaper, auto, ran>>
    BY <1>6 DEF WCleanup
  <2> QED
    BY <2>1, <2>2, <2>3, <2>4, <2>5, <2>6, <2>7 DEF TypeOK
<1>7. CASE WActivate
  <2>1. worker.inst \in Inst /\ worker.inst \in Owner
    BY <1>7 DEF WActivate, TypeOK, Owner
  <2>2. worker' \in Worker /\ (worker'.pc \notin {"start", "idle"} => worker'.inst \in Inst)
    BY <1>7 DEF WActivate, TypeOK, Worker, WorkerPC, IdleWorker, StartWorker, NoInst
  <2>3. row' \in [Inst -> RowStatus]
    BY <1>7, <2>1, TableTypes DEF WActivate, TypeOK, RowStatus, Owner
  <2>4. UNCHANGED <<deleted, rt, storage, job, vm, disk, installed, uninst,
                    maint, capLock, execLock, mode, create, op, recon,
                    reaper, auto, ran>>
    BY <1>7 DEF WActivate
  <2>5. left' \in Bounds
    BY <1>7, FaultsCounted DEF WActivate, TypeOK
  <2> QED
    BY <2>1, <2>2, <2>3, <2>4, <2>5 DEF TypeOK
<1>8. CASE WFinalize
  <2>1. worker.inst \in Inst /\ worker.inst \in Owner
    BY <1>8 DEF WFinalize, TypeOK, Owner
  <2>2. worker' \in Worker /\ (worker'.pc \notin {"start", "idle"} => worker'.inst \in Inst)
    BY <1>8 DEF WFinalize, TypeOK, Worker, WorkerPC, IdleWorker, StartWorker, NoInst
  <2>3. rt' \in [Owner -> Lease]
    BY <1>8, <2>1, TableTypes DEF WFinalize, TypeOK
  <2>4. execLock' = "nobody"
    BY <1>8 DEF WFinalize
  <2>5. UNCHANGED <<row, deleted, storage, job, vm, disk, installed, uninst,
                    maint, capLock, mode, create, op, recon, reaper, auto, ran>>
    BY <1>8 DEF WFinalize
  <2>6. left' \in Bounds
    BY <1>8, FaultsCounted DEF WFinalize, TypeOK
  <2> QED
    BY <2>1, <2>2, <2>3, <2>4, <2>5, <2>6 DEF TypeOK
<1>9. CASE WMarkJob
  <2>1. worker' \in Worker /\ (worker'.pc \notin {"start", "idle"} => worker'.inst \in Inst)
    BY <1>9 DEF WMarkJob, TypeOK, Worker, WorkerPC, IdleWorker, StartWorker, NoInst
  <2>2. job' \in [Inst -> JobStatus]
    BY <1>9 DEF WMarkJob, TypeOK, JobStatus
  <2>3. UNCHANGED <<row, deleted, rt, storage, vm, disk, installed, uninst,
                    maint, capLock, execLock, mode, create, op, recon,
                    reaper, auto, ran>>
    BY <1>9 DEF WMarkJob
  <2>4. left' \in Bounds
    BY <1>9, FaultsCounted DEF WMarkJob, TypeOK
  <2> QED
    BY <2>1, <2>2, <2>3, <2>4 DEF TypeOK
<1>10. CASE WMarkRow
  <2>1. worker.inst \in Inst /\ worker.inst \in Owner
    BY <1>10 DEF WMarkRow, TypeOK, Owner
  <2>2. worker' \in Worker /\ (worker'.pc \notin {"start", "idle"} => worker'.inst \in Inst)
    BY <1>10 DEF WMarkRow, TypeOK, Worker, WorkerPC, IdleWorker, StartWorker, NoInst
  <2>3. row' \in [Inst -> RowStatus]
    BY <1>10, <2>1, TableTypes DEF WMarkRow, TypeOK, RowStatus, Owner
  <2>4. UNCHANGED <<deleted, rt, storage, job, vm, disk, installed, uninst,
                    maint, capLock, execLock, mode, create, op, recon,
                    reaper, auto, ran>>
    BY <1>10 DEF WMarkRow
  <2>5. left' \in Bounds
    BY <1>10, FaultsCounted DEF WMarkRow, TypeOK
  <2> QED
    BY <2>1, <2>2, <2>3, <2>4, <2>5 DEF TypeOK
<1> QED
  BY <1>1, <1>2, <1>3, <1>4, <1>5, <1>6, <1>7, <1>8, <1>9, <1>10 DEF WorkerStep

\* Stop, restart, rebuild and delete requests keep the types.
LEMMA OpTypes ==
  ASSUME TypeOK, NEW o \in Op,
         OpStep(o) \/ \E k \in Requests, i \in Inst : OpRequest(o, k, i)
  PROVE  TypeOK'
<1> USE DEF dbVars, hostVars, OpFrame, NoFault, Fault, TableFault
<1>1. CASE (\E k \in Requests, i \in Inst : OpRequest(o, k, i))
  <2>1. op' \in [Op -> Handler] /\ (\A p \in Op : op'[p].pc # "idle" => op'[p].inst \in Inst)
    <3>1. op \in [Op -> Handler] /\ \A p \in Op : op[p].pc # "idle" => op[p].inst \in Inst
      BY DEF TypeOK
    <3>2. PICK k \in OpKind, i \in Inst : OpRequest(o, k, i)
      BY <1>1, ShapeAssumption DEF OpKind
    <3> DEFINE h == [IdleOp EXCEPT !.pc = IF k = "restart" THEN "check" ELSE "flow",
                                   !.kind = k, !.inst = i]
    <3>3. h \in Handler /\ h.inst \in Inst
      BY DEF Handler, OpPC, OpKind, IdleOp, NoInst
    <3>4. op' = [op EXCEPT ![o] = h]
      BY <3>2 DEF OpRequest
    <3> HIDE DEF h
    <3> QED
      BY <3>1, <3>3, <3>4
  <2>2. left' \in Bounds
    <3>1. left \in Bounds
      BY DEF TypeOK
    <3>2. left.ops > 0 /\ left' = [left EXCEPT !.ops = left.ops - 1]
      BY <1>1 DEF OpRequest
    <3> QED
      BY <3>1, <3>2 DEF Bounds
  <2>3. UNCHANGED <<row, deleted, rt, storage, job, vm, disk, installed, uninst,
                    maint, capLock, execLock, mode, create, worker, recon,
                    reaper, auto, ran>>
    BY <1>1 DEF OpRequest
  <2> QED
    BY <2>1, <2>2, <2>3 DEF TypeOK
<1>2. CASE RestartCheck(o)
  <2>1. op' \in [Op -> Handler] /\ (\A p \in Op : op'[p].pc # "idle" => op'[p].inst \in Inst)
    <3>1. op \in [Op -> Handler] /\ \A p \in Op : op[p].pc # "idle" => op[p].inst \in Inst
      BY DEF TypeOK
    <3>2. /\ op[o].pc = "check"
          /\ \/ op' = [op EXCEPT ![o].pc = "flow"]
             \/ \E b \in BOOLEAN : op' = [op EXCEPT ![o].pc = "acquire", ![o].matched = b]
             \/ op' = [op EXCEPT ![o] = IdleOp]
      BY <1>2 DEF RestartCheck
    <3>3. CASE op' = [op EXCEPT ![o].pc = "flow"]
      BY <3>1, <3>2, <3>3 DEF Handler, OpPC
    <3>4. CASE \E b \in BOOLEAN : op' = [op EXCEPT ![o].pc = "acquire", ![o].matched = b]
      <4>1. PICK b \in BOOLEAN : op' = [op EXCEPT ![o].pc = "acquire", ![o].matched = b]
        BY <3>4
      <4> QED
        BY <3>1, <3>2, <4>1 DEF Handler, OpPC
    <3>5. CASE op' = [op EXCEPT ![o] = IdleOp]
      BY <3>1, <3>5 DEF Handler, OpPC, OpKind, IdleOp, NoInst
    <3> QED
      BY <3>2, <3>3, <3>4, <3>5
  <2>2. capLock' \in {capLock, o}
    BY <1>2 DEF RestartCheck
  <2>3. UNCHANGED <<row, deleted, rt, storage, job, vm, disk, installed,
                    uninst, maint, execLock, mode, create, worker, recon,
                    reaper, auto, ran>>
    BY <1>2 DEF RestartCheck
  <2>4. left' \in Bounds
    BY <1>2, FaultsCounted DEF RestartCheck, request_matches_warm_pool_lease, TypeOK
  <2> QED
    BY <2>1, <2>2, <2>3, <2>4 DEF TypeOK
<1>3. CASE RestartAcquire(o)
  <2>1. op[o].inst \in Inst /\ op[o].inst \in Owner
    BY <1>3 DEF RestartAcquire, TypeOK, Owner
  <2>2. op' \in [Op -> Handler] /\ (\A p \in Op : op'[p].pc # "idle" => op'[p].inst \in Inst)
    <3>1. op \in [Op -> Handler] /\ \A p \in Op : op[p].pc # "idle" => op[p].inst \in Inst
      BY DEF TypeOK
    <3>2. \/ op' = [op EXCEPT ![o].pc = "flow", ![o].acquired = TRUE]
          \/ op' = [op EXCEPT ![o] = IdleOp]
      BY <1>3 DEF RestartAcquire
    <3>3. CASE op' = [op EXCEPT ![o].pc = "flow", ![o].acquired = TRUE]
      BY <3>1, <3>3, <2>1 DEF Handler, OpPC
    <3>4. CASE op' = [op EXCEPT ![o] = IdleOp]
      BY <3>1, <3>4, <2>1 DEF Handler, OpPC, OpKind, IdleOp, NoInst
    <3> QED
      BY <3>2, <3>3, <3>4
  <2>3. rt' \in [Owner -> Lease]
    <3>1. (~op[o].matched) \in BOOLEAN
      OBVIOUS
    <3>2. create_lease(op[o].inst, ~op[o].matched) \in [Owner -> Lease]
      BY <2>1, <3>1, TableTypes
    <3> QED
      BY <1>3, <3>2 DEF RestartAcquire, TypeOK
  <2>4. capLock' = "nobody"
    BY <1>3 DEF RestartAcquire
  <2>5. UNCHANGED <<row, deleted, storage, job, vm, disk, installed, uninst,
                    maint, execLock, mode, create, worker, recon, reaper,
                    auto, ran>>
    BY <1>3 DEF RestartAcquire
  <2>6. left' \in Bounds
    BY <1>3, FaultsCounted DEF RestartAcquire, TypeOK
  <2> QED
    BY <2>1, <2>2, <2>3, <2>4, <2>5, <2>6 DEF TypeOK
<1>4. CASE OpVm(o)
  <2>1. op[o].inst \in Inst /\ op[o].inst \in Owner
    BY <1>4 DEF OpVm, TypeOK, Owner
  <2>2. op' \in [Op -> Handler] /\ (\A p \in Op : op'[p].pc # "idle" => op'[p].inst \in Inst)
    <3>1. op \in [Op -> Handler] /\ \A p \in Op : op[p].pc # "idle" => op[p].inst \in Inst
      BY DEF TypeOK
    <3>2. \/ op' = [op EXCEPT ![o].pc = "commit"]
          \/ op' = [op EXCEPT ![o] = IdleOp]
          \/ op' = [op EXCEPT ![o] = [op[o] EXCEPT !.pc = "undo"]]
      BY <1>4 DEF OpVm
    <3>3. CASE op' = [op EXCEPT ![o].pc = "commit"]
      BY <3>1, <3>3, <2>1 DEF Handler, OpPC
    <3>4. CASE op' = [op EXCEPT ![o] = IdleOp]
      BY <3>1, <3>4, <2>1 DEF Handler, OpPC, OpKind, IdleOp, NoInst
    <3>5. CASE op' = [op EXCEPT ![o] = [op[o] EXCEPT !.pc = "undo"]]
      BY <3>1, <3>5, <2>1 DEF Handler, OpPC
    <3> QED
      BY <3>2, <3>3, <3>4, <3>5
  <2>3. vm' \subseteq Inst /\ disk' \subseteq Inst
    <3>1. op[o].kind \in OpKind
      BY DEF TypeOK, Handler
    <3> QED
      BY <1>4, <2>1, <3>1 DEF OpVm, FlowDone, OpKind, TypeOK
  <2>4. execLock' \in {execLock, o} /\ (execLock' = "boot" => execLock = "boot")
    BY <1>4, HolderAssumption DEF OpVm
  <2>5. left' \in Bounds
    BY <1>4, FaultsCounted DEF OpVm, TypeOK
  <2>6. UNCHANGED <<row, deleted, rt, storage, job, installed, uninst, maint,
                    capLock, mode, create, worker, recon, reaper, auto, ran>>
    BY <1>4 DEF OpVm
  <2> QED
    BY <2>1, <2>2, <2>3, <2>4, <2>5, <2>6 DEF TypeOK
<1>5. CASE OpCommit(o)
  <2>1. op[o].inst \in Inst /\ op[o].inst \in Owner
    BY <1>5 DEF OpCommit, TypeOK, Owner
  <2>2. op' \in [Op -> Handler] /\ (\A p \in Op : op'[p].pc # "idle" => op'[p].inst \in Inst)
    <3>1. op \in [Op -> Handler] /\ \A p \in Op : op[p].pc # "idle" => op[p].inst \in Inst
      BY DEF TypeOK
    <3>2. \/ op' = [op EXCEPT ![o].pc = "post"]
      BY <1>5 DEF OpCommit
    <3>3. CASE op' = [op EXCEPT ![o].pc = "post"]
      BY <3>1, <3>3, <2>1 DEF Handler, OpPC
    <3> QED
      BY <3>2, <3>3
  <2>3. row' \in [Inst -> RowStatus] /\ deleted' \subseteq Inst
    <3>1. /\ soft_delete_status(op[o].inst) \in [Inst -> RowStatus]
          /\ update_status(op[o].inst, "stopped") \in [Inst -> RowStatus]
          /\ update_status(op[o].inst, "active") \in [Inst -> RowStatus]
      BY <2>1, TableTypes DEF RowStatus
    <3> QED
      BY <1>5, <2>1, <3>1 DEF OpCommit, RowOutcome, TypeOK
  <2>4. rt' \in [Owner -> Lease]
    BY <1>5, <2>1, TableTypes DEF OpCommit, TypeOK
  <2>5. storage' \subseteq Inst /\ execLock' = "nobody"
    BY <1>5 DEF OpCommit, TypeOK
  <2>6. UNCHANGED <<job, vm, disk, installed, uninst, maint, capLock, mode,
                    create, worker, recon, reaper, auto, ran>>
    BY <1>5 DEF OpCommit
  <2>7. left' \in Bounds
    BY <1>5, FaultsCounted DEF OpCommit, TypeOK
  <2> QED
    BY <2>1, <2>2, <2>3, <2>4, <2>5, <2>6, <2>7 DEF TypeOK
<1>6. CASE OpPost(o)
  <2>1. op[o].inst \in Inst /\ op[o].inst \in Owner
    BY <1>6 DEF OpPost, TypeOK, Owner
  <2>2. op' \in [Op -> Handler] /\ (\A p \in Op : op'[p].pc # "idle" => op'[p].inst \in Inst)
    <3>1. op \in [Op -> Handler] /\ \A p \in Op : op[p].pc # "idle" => op[p].inst \in Inst
      BY DEF TypeOK
    <3>2. \/ op' = [op EXCEPT ![o] = IdleOp]
      BY <1>6 DEF OpPost
    <3>3. CASE op' = [op EXCEPT ![o] = IdleOp]
      BY <3>1, <3>3 DEF Handler, OpPC, OpKind, IdleOp, NoInst
    <3> QED
      BY <3>2, <3>3
  <2>3. row' \in [Inst -> RowStatus] /\ deleted' \subseteq Inst
    <3>1. /\ soft_delete_status(op[o].inst) \in [Inst -> RowStatus]
          /\ update_status(op[o].inst, "stopped") \in [Inst -> RowStatus]
          /\ update_status(op[o].inst, "active") \in [Inst -> RowStatus]
      BY <2>1, TableTypes DEF RowStatus
    <3> QED
      BY <1>6, <2>1, <3>1 DEF OpPost, RowOutcome, TypeOK
  <2>4. UNCHANGED <<rt, storage, job, vm, disk, installed, uninst, maint,
                    capLock, execLock, mode, create, worker, recon, reaper,
                    auto, ran>>
    BY <1>6 DEF OpPost
  <2>5. left' \in Bounds
    BY <1>6, FaultsCounted DEF OpPost, TypeOK
  <2> QED
    BY <2>1, <2>2, <2>3, <2>4, <2>5 DEF TypeOK
<1>7. CASE RestartUndo(o)
  <2>1. op[o].inst \in Inst /\ op[o].inst \in Owner
    BY <1>7 DEF RestartUndo, TypeOK, Owner
  <2>2. op' \in [Op -> Handler] /\ (\A p \in Op : op'[p].pc # "idle" => op'[p].inst \in Inst)
    <3>1. op \in [Op -> Handler] /\ \A p \in Op : op[p].pc # "idle" => op[p].inst \in Inst
      BY DEF TypeOK
    <3>2. \/ op' = [op EXCEPT ![o] = IdleOp]
      BY <1>7 DEF RestartUndo
    <3>3. CASE op' = [op EXCEPT ![o] = IdleOp]
      BY <3>1, <3>3 DEF Handler, OpPC, OpKind, IdleOp, NoInst
    <3> QED
      BY <3>2, <3>3
  <2>3. rt' \in [Owner -> Lease]
    BY <1>7, <2>1, TableTypes DEF RestartUndo
  <2>4. UNCHANGED <<row, deleted, storage, job, vm, disk, installed, uninst,
                    maint, capLock, execLock, mode, create, worker, recon,
                    reaper, auto, ran>>
    BY <1>7 DEF RestartUndo
  <2>5. left' \in Bounds
    BY <1>7, FaultsCounted DEF RestartUndo, TypeOK
  <2> QED
    BY <2>1, <2>2, <2>3, <2>4, <2>5 DEF TypeOK
<1> QED
  BY <1>1, <1>2, <1>3, <1>4, <1>5, <1>6, <1>7 DEF OpStep

\* The lease reaper keeps the types.
LEMMA ReaperTypes ==
  ASSUME TypeOK, ReaperStep
  PROVE  TypeOK'
<1> USE DEF hostVars, envVars, ReaperFrame, NoFault, TableFault
<1>1. CASE ReapScan
  <2>1. reaper' \in Reaper /\ (reaper'.pc \in {"mark", "release"} => reaper'.cur \in Inst)
    BY <1>1 DEF ReapScan, TypeOK, Reaper, IdleReaper, NoInst
  <2>2. UNCHANGED <<row, deleted, rt, storage, job, vm, disk, installed, uninst,
                    maint, capLock, execLock, mode, create, worker, op, recon,
                    auto, left, ran>>
    BY <1>1 DEF ReapScan
  <2> QED
    BY <2>1, <2>2 DEF TypeOK
<1>2. CASE (\E i \in Inst : ReapRead(i))
  <2>1. reaper' \in Reaper /\ (reaper'.pc \in {"mark", "release"} => reaper'.cur \in Inst)
    <3>1. PICK i \in Inst : ReapRead(i)
      BY <1>2
    <3>2. (row[i] = "absent") \in BOOLEAN
      OBVIOUS
    <3>3. \E p \in {"mark", "release"}, b \in BOOLEAN :
             reaper' = [pc |-> p, todo |-> reaper.todo \ {i}, cur |-> i, all |-> b]
      BY <3>1, <3>2 DEF ReapRead
    <3> QED
      BY <3>3 DEF TypeOK, Reaper
  <2>2. UNCHANGED <<row, deleted, rt, storage, job, vm, disk, installed,
                    uninst, maint, capLock, execLock, mode, create, worker,
                    op, recon, auto, ran>>
    BY <1>2 DEF ReapRead
  <2>3. left' \in Bounds
    BY <1>2, FaultsCounted DEF ReapRead, TypeOK
  <2> QED
    BY <2>1, <2>2, <2>3 DEF TypeOK
<1>3. CASE ReapMark
  <2>1. reaper.cur \in Inst /\ reaper.cur \in Owner
    BY <1>3 DEF ReapMark, TypeOK, Owner
  <2>2. reaper' \in Reaper /\ (reaper'.pc \in {"mark", "release"} => reaper'.cur \in Inst)
    BY <1>3 DEF ReapMark, TypeOK, Reaper, IdleReaper, NoInst
  <2>3. row' \in [Inst -> RowStatus]
    BY <1>3, <2>1, TableTypes DEF ReapMark, RowStatus, TypeOK
  <2>4. UNCHANGED <<deleted, rt, storage, job, vm, disk, installed, uninst,
                    maint, capLock, execLock, mode, create, worker, op,
                    recon, auto, ran>>
    BY <1>3 DEF ReapMark
  <2>5. left' \in Bounds
    BY <1>3, FaultsCounted DEF ReapMark, TypeOK
  <2> QED
    BY <2>1, <2>2, <2>3, <2>4, <2>5 DEF TypeOK
<1>4. CASE ReapRelease
  <2>1. reaper.cur \in Inst /\ reaper.cur \in Owner
    BY <1>4 DEF ReapRelease, TypeOK, Owner
  <2>2. reaper' \in Reaper /\ (reaper'.pc \in {"mark", "release"} => reaper'.cur \in Inst)
    BY <1>4 DEF ReapRelease, TypeOK, Reaper, IdleReaper, NoInst
  <2>3. rt' \in [Owner -> Lease]
    BY <1>4, <2>1, TableTypes DEF ReapRelease, TypeOK
  <2>4. storage' \subseteq Inst
    BY <1>4 DEF ReapRelease, TypeOK
  <2>5. UNCHANGED <<row, deleted, job, vm, disk, installed, uninst, maint,
                    capLock, execLock, mode, create, worker, op, recon, auto,
                    ran>>
    BY <1>4 DEF ReapRelease
  <2>6. left' \in Bounds
    BY <1>4, FaultsCounted DEF ReapRelease, TypeOK
  <2> QED
    BY <2>1, <2>2, <2>3, <2>4, <2>5, <2>6 DEF TypeOK
<1> QED
  BY <1>1, <1>2, <1>3, <1>4 DEF ReaperStep

\* The warm-pool reconciler keeps the types.
LEMMA ReconTypes ==
  ASSUME TypeOK, ReconStep
  PROVE  TypeOK'
<1> USE DEF hostVars, envVars, ReconFrame, ReconTouches, NoFault, Fault, TableFault
<1>1. CASE ReconWake
  <2>1. recon' \in Reconciler /\ (recon'.pc = "refill" => recon'.cur \in Claw)
    BY <1>1 DEF ReconWake, TypeOK, Reconciler, IdleRecon, NoInst
  <2>2. UNCHANGED <<row, deleted, rt, storage, job, vm, disk, installed, uninst,
                    maint, capLock, execLock, mode, create, worker, op, reaper,
                    auto, left, ran>>
    BY <1>1 DEF ReconWake
  <2> QED
    BY <2>1, <2>2 DEF TypeOK
<1>6. CASE ReconLock
  <2>1. recon' \in Reconciler /\ (recon'.pc = "refill" => recon'.cur \in Claw)
    BY <1>6 DEF ReconLock, TypeOK, Reconciler, IdleRecon, NoInst
  <2>2. capLock' = "reconciler"
    BY <1>6 DEF ReconLock
  <2>3. UNCHANGED <<row, deleted, rt, storage, job, vm, disk, installed, uninst,
                    maint, execLock, mode, create, worker, op, reaper, auto,
                    left, ran>>
    BY <1>6 DEF ReconLock
  <2> QED
    BY <2>1, <2>2, <2>3 DEF TypeOK
<1>2. CASE ReconDecide
  <2>1. recon' \in Reconciler /\ (recon'.pc = "refill" => recon'.cur \in Claw)
    <3>1. PICK failed \in SUBSET Claw :
             \E t \in RefillChoices(release_orphaned_warm_pool_leases(failed)) :
                recon' = [recon EXCEPT !.pc = "fill", !.targets = t]
      BY <1>2 DEF ReconDecide
    <3>2. PICK t \in RefillChoices(release_orphaned_warm_pool_leases(failed)) :
             recon' = [recon EXCEPT !.pc = "fill", !.targets = t]
      BY <3>1
    <3>3. t \subseteq Claw
      BY DEF RefillChoices, TypeOK
    <3> QED
      BY <3>2, <3>3 DEF TypeOK, Reconciler
  <2>2. rt' \in [Owner -> Lease]
    BY <1>2 DEF ReconDecide, release_orphaned_warm_pool_leases, TypeOK, Lease, NoLease
  <2>3. UNCHANGED <<row, deleted, storage, job, vm, disk, installed, uninst,
                    maint, capLock, execLock, mode, create, worker, op,
                    reaper, auto, ran>>
    BY <1>2 DEF ReconDecide
  <2>4. left' \in Bounds
    BY <1>2, FaultsCounted DEF ReconDecide, TypeOK
  <2> QED
    BY <2>1, <2>2, <2>3, <2>4 DEF TypeOK
<1>3. CASE (\E c \in Claw : ReconLease(c))
  <2>1. recon' \in Reconciler /\ (recon'.pc = "refill" => recon'.cur \in Claw)
    <3>1. PICK c \in Claw : ReconLease(c)
      BY <1>3
    <3>2. \/ recon' = [pc |-> "refill", targets |-> recon.targets \ {c}, cur |-> c]
          \/ recon' = [recon EXCEPT !.targets = recon.targets \ {c}]
      BY <3>1 DEF ReconLease
    <3> QED
      BY <3>2 DEF TypeOK, Reconciler
  <2>2. rt' \in [Owner -> Lease]
    <3>1. PICK c \in Claw : ReconLease(c)
      BY <1>3
    <3>2. \A i \in Inst : create_lease(c, TRUE) \in [Owner -> Lease]
      BY TableTypes DEF Owner
    <3>3. create_lease(c, TRUE) \in [Owner -> Lease]
      BY DEF create_lease, TypeOK, Lease
    <3> QED
      BY <3>1, <3>3 DEF ReconLease, TypeOK
  <2>3. execLock' \in {execLock, "reconciler"}
    BY <1>3 DEF ReconLease
  <2>4. UNCHANGED <<row, deleted, storage, job, vm, disk, installed, uninst,
                    maint, capLock, mode, create, worker, op, reaper, auto,
                    ran>>
    BY <1>3 DEF ReconLease
  <2>5. left' \in Bounds
    BY <1>3, FaultsCounted DEF ReconLease, TypeOK
  <2> QED
    BY <2>1, <2>2, <2>3, <2>4, <2>5 DEF TypeOK
<1>4. CASE ReconRefill
  <2>1. recon' \in Reconciler /\ (recon'.pc = "refill" => recon'.cur \in Claw)
    BY <1>4 DEF ReconRefill, TypeOK, Reconciler, IdleRecon, NoInst
  <2>2. rt' \in [Owner -> Lease]
    <3>1. rt \in [Owner -> Lease] /\ NoLease \in Lease
      BY DEF TypeOK, NoLease, Lease
    <3>2. rt' = rt \/ \E x : rt' = [rt EXCEPT ![x] = NoLease]
      BY <1>4 DEF ReconRefill, release_lease
    <3> QED
      BY <3>1, <3>2
  <2>3. execLock' = "nobody"
    BY <1>4 DEF ReconRefill
  <2>4. left' \in Bounds
    BY <1>4, FaultsCounted DEF ReconRefill, TypeOK
  <2>5. UNCHANGED <<row, deleted, storage, job, vm, disk, installed, uninst,
                    maint, capLock, mode, create, worker, op, reaper, auto, ran>>
    BY <1>4 DEF ReconRefill
  <2> QED
    BY <2>1, <2>2, <2>3, <2>4, <2>5 DEF TypeOK
<1>5. CASE ReconDone
  <2>1. recon' \in Reconciler /\ (recon'.pc = "refill" => recon'.cur \in Claw)
    BY <1>5 DEF ReconDone, TypeOK, Reconciler, IdleRecon, NoInst
  <2>2. capLock' = "nobody"
    BY <1>5 DEF ReconDone
  <2>3. UNCHANGED <<row, deleted, rt, storage, job, vm, disk, installed, uninst,
                    maint, execLock, mode, create, worker, op, reaper, auto,
                    left, ran>>
    BY <1>5 DEF ReconDone
  <2> QED
    BY <2>1, <2>2, <2>3 DEF TypeOK
<1> QED
  BY <1>1, <1>2, <1>3, <1>4, <1>5, <1>6 DEF ReconStep

\* Expiry, uninstalls and maintenance windows keep the types.
LEMMA EnvTypes ==
  ASSUME TypeOK, EnvStep
  PROVE  TypeOK'
<1> USE DEF hostVars, envVars, NoFault, TableFault
<1>1. CASE (\E i \in Inst : Expire(i))
  <2>1. rt' \in [Owner -> Lease]
    <3>1. PICK i \in Inst : rt' = [rt EXCEPT ![i].st = "expired"]
      BY <1>1 DEF Expire
    <3>2. rt \in [Owner -> Lease]
      BY DEF TypeOK
    <3> QED
      BY <3>1, <3>2 DEF Lease
  <2>2. UNCHANGED <<row, deleted, storage, job, vm, disk, installed, uninst,
                    maint, capLock, execLock, mode, create, worker, op, recon,
                    reaper, auto, left, ran>>
    BY <1>1 DEF Expire
  <2> QED
    BY <2>1, <2>2 DEF TypeOK
<1>2. CASE (\E c \in Claw : UninstallCheck(c))
  <2>1. uninst' \in [Claw -> {"idle", "checked", "marked"}]
    BY <1>2 DEF UninstallCheck, TypeOK
  <2>2. UNCHANGED <<row, deleted, rt, storage, job, vm, disk, installed, maint,
                    capLock, execLock, mode, create, worker, op, recon, reaper,
                    auto, left, ran>>
    BY <1>2 DEF UninstallCheck, EnvFrame
  <2> QED
    BY <2>1, <2>2 DEF TypeOK
<1>3. CASE (\E c \in Claw : UninstallMark(c))
  <2>1. uninst' \in [Claw -> {"idle", "checked", "marked"}]
    BY <1>3 DEF UninstallMark, TypeOK
  <2>2. installed' \subseteq Claw
    BY <1>3 DEF UninstallMark, TypeOK
  <2>3. UNCHANGED <<row, deleted, rt, storage, job, vm, disk, maint, capLock,
                    execLock, mode, create, worker, op, recon, reaper, auto,
                    left, ran>>
    BY <1>3 DEF UninstallMark, EnvFrame
  <2> QED
    BY <2>1, <2>2, <2>3 DEF TypeOK
<1>4. CASE (\E c \in Claw : UninstallRelease(c))
  <2>1. uninst' \in [Claw -> {"idle", "checked", "marked"}]
    BY <1>4 DEF UninstallRelease, TypeOK
  <2>2. rt' \in [Owner -> Lease]
    <3>1. rt \in [Owner -> Lease] /\ NoLease \in Lease
      BY DEF TypeOK, NoLease, Lease
    <3>2. rt' = rt \/ \E x : rt' = [rt EXCEPT ![x] = NoLease]
      BY <1>4 DEF UninstallRelease, release_lease
    <3> QED
      BY <3>1, <3>2
  <2>3. UNCHANGED <<row, deleted, storage, job, vm, disk, installed, maint,
                    capLock, execLock, mode, create, worker, op, recon,
                    reaper, auto, ran>>
    BY <1>4 DEF UninstallRelease, EnvFrame
  <2>4. left' \in Bounds
    BY <1>4, FaultsCounted DEF UninstallRelease, TypeOK
  <2> QED
    BY <2>1, <2>2, <2>3, <2>4 DEF TypeOK
<1>5. CASE MaintOn
  <2>1. maint' \in BOOLEAN
    BY <1>5 DEF MaintOn
  <2>2. left' \in Bounds
    BY <1>5 DEF MaintOn, TypeOK, Bounds
  <2>3. UNCHANGED <<row, deleted, rt, storage, job, vm, disk, installed, uninst,
                    capLock, execLock, mode, create, worker, op, recon, reaper,
                    auto, ran>>
    BY <1>5 DEF MaintOn, EnvFrame
  <2> QED
    BY <2>1, <2>2, <2>3 DEF TypeOK
<1>6. CASE MaintOff
  <2>1. maint' \in BOOLEAN
    BY <1>6 DEF MaintOff
  <2>2. UNCHANGED <<row, deleted, rt, storage, job, vm, disk, installed, uninst,
                    capLock, execLock, mode, create, worker, op, recon, reaper,
                    auto, left, ran>>
    BY <1>6 DEF MaintOff, EnvFrame
  <2> QED
    BY <2>1, <2>2 DEF TypeOK
<1> QED
  BY <1>1, <1>2, <1>3, <1>4, <1>5, <1>6 DEF EnvStep, UninstallStep

\* A crash, the start-up after it and the auto-restart task keep the types.
LEMMA BootTypes ==
  ASSUME TypeOK, Crash \/ BootStep \/ AutoStep
  PROVE  TypeOK'
<1> USE DEF dbVars, hostVars, envVars, BootTouches, NoFault, Fault, TableFault
<1>1. CASE Crash
  <2>1. worker' \in Worker /\ worker'.pc = "start"
    BY <1>1 DEF Crash, StartWorker, Worker, WorkerPC, NoInst
  <2>2. create' \in [Inst -> Creating]
    BY <1>1 DEF Crash, IdleCreate, Creating, CreatePC
  <2>3. op' \in [Op -> Handler] /\ \A o \in Op : op'[o].pc = "idle"
    BY <1>1 DEF Crash, IdleOp, Handler, OpPC, OpKind, NoInst
  <2>4. recon' \in Reconciler /\ recon'.pc = "idle"
    BY <1>1 DEF Crash, IdleRecon, Reconciler, NoInst
  <2>5. reaper' \in Reaper /\ reaper'.pc = "idle"
    BY <1>1 DEF Crash, IdleReaper, Reaper, NoInst
  <2>6. vm' \subseteq Inst /\ disk' \subseteq Inst
    BY <1>1 DEF Crash, TypeOK
  <2>7. auto' \in AutoRestart
    BY <1>1 DEF Crash, TypeOK, AutoRestart, NoInst
  <2>8. left' \in Bounds
    <3>1. left \in Bounds
      BY DEF TypeOK
    <3>2. \A n \in Nat, p \in SUBSET {"crash", "table"} :
             [left EXCEPT !.crashes = n, !.past = p] \in Bounds
      BY <3>1 DEF Bounds
    <3>3. left.crashes - 1 \in Nat /\ left.past \cup {"crash"} \in SUBSET {"crash", "table"}
      BY <1>1, <3>1 DEF Crash, Bounds
    <3>4. left' = [left EXCEPT !.crashes = left.crashes - 1, !.past = left.past \cup {"crash"}]
      BY <1>1 DEF Crash
    <3> QED
      BY <3>2, <3>3, <3>4
  <2>9. uninst' \in [Claw -> {"idle", "checked", "marked"}] /\ mode' = "booting"
         /\ capLock' = "nobody" /\ execLock' = "nobody"
    BY <1>1 DEF Crash
  <2>10. UNCHANGED <<row, deleted, rt, storage, job, installed, maint, ran>>
    BY <1>1 DEF Crash
  <2> QED
    BY <2>1, <2>2, <2>3, <2>4, <2>5, <2>6, <2>7, <2>8, <2>9, <2>10 DEF TypeOK
<1>2. CASE BootSnapshot
  <2>1. mode' = "sweeping" /\ auto'.cur = auto.cur
    BY <1>2 DEF BootSnapshot, TypeOK, AutoRestart
  <2>2. auto' \in AutoRestart
    BY <1>2 DEF BootSnapshot, TypeOK, AutoRestart
  <2>3. UNCHANGED <<row, deleted, rt, storage, job, vm, disk, installed,
                    uninst, maint, capLock, execLock, create, worker, op,
                    recon, reaper, ran>>
    BY <1>2 DEF BootSnapshot
  <2>4. left' \in Bounds
    BY <1>2, FaultsCounted DEF BootSnapshot, TypeOK
  <2> QED
    BY <2>1, <2>2, <2>3, <2>4 DEF TypeOK
<1>3. CASE BootReconcile
  <2>1. mode' = "up" /\ auto'.cur = auto.cur
    BY <1>3 DEF BootReconcile, TypeOK, AutoRestart
  <2>2. auto' \in AutoRestart
    BY <1>3 DEF BootReconcile, TypeOK, AutoRestart
  <2>3. row' \in [Inst -> RowStatus]
    BY <1>3 DEF BootReconcile, TypeOK, RowStatus
  <2>4. rt' \in [Owner -> Lease]
    BY <1>3 DEF BootReconcile, TypeOK, NoLease, Lease
  <2>5. UNCHANGED <<deleted, storage, job, vm, disk, installed, uninst,
                    maint, capLock, execLock, create, worker, op, recon,
                    reaper, ran>>
    BY <1>3 DEF BootReconcile
  <2>6. left' \in Bounds
    BY <1>3, FaultsCounted DEF BootReconcile, TypeOK
  <2> QED
    BY <2>1, <2>2, <2>3, <2>4, <2>5, <2>6 DEF TypeOK
<1>4. CASE AutoLease
  <2>1. auto' \in AutoRestart
    BY <1>4 DEF AutoLease, TypeOK, AutoRestart, NoInst
  <2>2. rt' \in [Owner -> Lease]
    <3>1. auto.cur \in Inst /\ auto.cur \in Owner /\ rt \in [Owner -> Lease]
      BY <1>4 DEF AutoLease, TypeOK, Owner
    <3>2. create_lease(auto.cur, FALSE) \in [Owner -> Lease]
      BY <3>1, TableTypes
    <3>3. rt' = rt \/ rt' = create_lease(auto.cur, FALSE)
      BY <1>4 DEF AutoLease
    <3> QED
      BY <3>1, <3>2, <3>3
  <2>3. execLock' = "nobody"
    BY <1>4 DEF AutoLease
  <2>4. UNCHANGED <<row, deleted, storage, job, vm, disk, installed, uninst,
                    maint, capLock, mode, create, worker, op, recon, reaper,
                    ran>>
    BY <1>4 DEF AutoLease
  <2>5. left' \in Bounds
    BY <1>4, FaultsCounted DEF AutoLease, TypeOK
  <2> QED
    BY <2>1, <2>2, <2>3, <2>4, <2>5 DEF TypeOK
<1>5. CASE (\E i \in Inst : AutoVm(i))
  <2>1. auto' \in AutoRestart /\ (execLock' = "boot" => auto'.cur \in Inst)
    <3>1. PICK i \in Inst : AutoVm(i)
      BY <1>5
    <3>2. auto \in AutoRestart
      BY DEF TypeOK
    <3>3. \/ auto' = [auto EXCEPT !.todo = auto.todo \ {i}, !.cur = i]
          \/ auto' = [auto EXCEPT !.todo = auto.todo \ {i}] /\ execLock' = "nobody"
      BY <3>1 DEF AutoVm
    <3> QED
      BY <3>2, <3>3 DEF AutoRestart
  <2>2. row' \in [Inst -> RowStatus]
    BY <1>5, TableTypes DEF AutoVm, TypeOK, RowStatus, Owner
  <2>3. vm' \subseteq Inst /\ execLock' \in {execLock, "boot"}
    BY <1>5 DEF AutoVm, TypeOK
  <2>4. left' \in Bounds
    BY <1>5, FaultsCounted DEF AutoVm, TypeOK
  <2>5. UNCHANGED <<deleted, rt, storage, job, disk, installed, uninst, maint,
                    capLock, mode, create, worker, op, recon, reaper, ran>>
    BY <1>5 DEF AutoVm
  <2> QED
    BY <2>1, <2>2, <2>3, <2>4, <2>5 DEF TypeOK
<1> QED
  BY <1>1, <1>2, <1>3, <1>4, <1>5 DEF BootStep, AutoStep

\* Every action keeps the types.
LEMMA NextTypeOK == TypeOK /\ [Next]_vars => TypeOK'
<1> SUFFICES ASSUME TypeOK, [Next]_vars
             PROVE  TypeOK'
  OBVIOUS
<1>1. CASE \E i \in Inst : CreateAdmit(i) \/ CreateStep(i)
  BY <1>1, CreateTypes
<1>2. CASE WorkerStep
  BY <1>2, WorkerTypes
<1>3. CASE \E o \in Op : OpStep(o) \/ \E k \in Requests, i \in Inst : OpRequest(o, k, i)
  BY <1>3, OpTypes
<1>4. CASE ReaperStep
  BY <1>4, ReaperTypes
<1>5. CASE ReconStep
  BY <1>5, ReconTypes
<1>6. CASE EnvStep
  BY <1>6, EnvTypes
<1>7. CASE Crash \/ BootStep \/ AutoStep
  BY <1>7, BootTypes
<1>8. CASE UNCHANGED vars
  BY <1>8 DEF vars, TypeOK
<1> QED
  BY <1>1, <1>2, <1>3, <1>4, <1>5, <1>6, <1>7, <1>8 DEF Next

\* Type correctness: in every reachable state of the instance pipeline the tables,
\* the locks and the tasks have their types, and a busy task knows its instance.
THEOREM TypeCorrect == Spec => []TypeOK
  BY InitTypeOK, NextTypeOK, PTL DEF Spec

=============================================================================
