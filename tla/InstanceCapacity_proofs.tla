------------------------ MODULE InstanceCapacity_proofs ------------------------
(***************************************************************************)
(* The capacity invariant of InstanceLifecycle: leases that were granted   *)
(* on a capacity check never exceed the budget, but for those whose slot   *)
(* a rollback gave to the warm pool after it had failed to release them.   *)
(*                                                                         *)
(* The inductive invariant adds what makes it inductive: whoever is        *)
(* between check and grant holds the capacity lock, warm leases do not     *)
(* expire, and what each check promised still fits.  Most actions only     *)
(* shrink the set of admitted leases, grant no checked lease and promise   *)
(* nothing new; the few that check, grant or transfer are treated one by   *)
(* one.                                                                    *)
(***************************************************************************)
EXTENDS InstanceLifecycle_proofs

CapacityInv == TypeOK /\ LockInv /\ WarmLeaseInv /\ CapacityPromisesKept

Admitted == AdmittedLeases(rt)

\* Instance leases that are still admitted do not forget a failed release.
Tame(leases) ==
    \A i \in Inst : i \in AdmittedLeases(leases) /\ rt[i].stray # "no" => leases[i].stray # "no"

-----------------------------------------------------------------------------
(* Counting admitted leases.                                               *)

\* There are finitely many admitted leases, and fewer of fewer.
LEMMA AdmittedCount ==
  ASSUME NEW leases
  PROVE  /\ IsFiniteSet(AdmittedLeases(leases))
         /\ AdmittedLeases(leases) \subseteq Owner
         /\ Cardinality(AdmittedLeases(leases)) \in Nat
         /\ \A S \in SUBSET AdmittedLeases(leases) :
               IsFiniteSet(S) /\ Cardinality(S) \in Nat
               /\ Cardinality(S) <= Cardinality(AdmittedLeases(leases))
<1>1. IsFiniteSet(Owner)
  BY FiniteAssumption, FS_Union DEF Owner
<1>2. AdmittedLeases(leases) \subseteq Owner
  BY DEF AdmittedLeases, CheckedLeases, DoubledLeases, ActiveLeases
<1>3. IsFiniteSet(AdmittedLeases(leases))
  BY <1>1, <1>2, FS_Subset
<1>4. \A S \in SUBSET AdmittedLeases(leases) :
         IsFiniteSet(S) /\ Cardinality(S) <= Cardinality(AdmittedLeases(leases))
  BY <1>3, FS_Subset
<1> QED
  BY <1>2, <1>3, <1>4, FS_CardinalityType

\* A reconciler cycle has finitely many targets.
LEMMA TargetCount ==
  ASSUME TypeOK
  PROVE  IsFiniteSet(recon.targets) /\ Cardinality(recon.targets) \in Nat
<1>1. recon.targets \subseteq Claw
  BY DEF TypeOK, Reconciler
<1> QED
  BY <1>1, FiniteAssumption, FS_Subset, FS_CardinalityType

\* A renewal writes the expiry and the history of the check, and nothing else.
LEMMA RenewShape ==
  ASSUME TypeOK, NEW o \in Owner, NEW st, rt[o].st # "none"
  PROVE  Renew(o, st) = [rt EXCEPT ![o] =
             [st |-> st, checked |-> rt[o].checked /\ rt[o].st # "expired", stray |-> rt[o].stray]]
<1> DEFINE b == rt[o].checked /\ rt[o].st # "expired"
<1>1. rt \in [Owner -> Lease] /\ rt[o] \in Lease
  BY DEF TypeOK
<1>2. Renew(o, st) = [rt EXCEPT ![o] = [[rt[o] EXCEPT !.st = st] EXCEPT !.checked = b]]
  <2>1. Renew(o, st) = [rt EXCEPT ![o].st = st, ![o].checked = b]
    BY DEF Renew
  <2> HIDE DEF b
  <2> QED BY <1>1, <2>1 DEF Lease
<1>3. [[rt[o] EXCEPT !.st = st] EXCEPT !.checked = b]
        = [st |-> st, checked |-> b, stray |-> rt[o].stray]
  <2>1. PICK x, y, z : rt[o] = [st |-> x, checked |-> y, stray |-> z]
    BY <1>1 DEF Lease
  <2> HIDE DEF b
  <2>2. [[rt[o] EXCEPT !.st = st] EXCEPT !.checked = b] = [st |-> st, checked |-> b, stray |-> z]
    <3>1. [rt[o] EXCEPT !.st = st] = [st |-> st, checked |-> y, stray |-> z]
      BY <2>1
    <3>2. [[st |-> st, checked |-> y, stray |-> z] EXCEPT !.checked = b]
            = [st |-> st, checked |-> b, stray |-> z]
      OBVIOUS
    <3> QED BY <3>1, <3>2
  <2>3. rt[o].stray = z
    BY <2>1
  <2> QED BY <2>2, <2>3
<1> QED
  <2> HIDE DEF b
  <2>1. Renew(o, st) = [rt EXCEPT ![o] = [st |-> st, checked |-> b, stray |-> rt[o].stray]]
    BY <1>2, <1>3
  <2> QED BY <2>1 DEF b

\* A release or a renewal admits nothing: a renewed lease that had expired stays
\* unchecked.
LEMMA TableShrinks ==
  ASSUME TypeOK, NEW o \in Owner
  PROVE  /\ AdmittedLeases(release_lease(o)) \subseteq Admitted
         /\ AdmittedLeases(extend_lease(o)) \subseteq Admitted
         /\ AdmittedLeases(finalize_lease(o)) \subseteq Admitted
         /\ o \notin AdmittedLeases(release_lease(o))
         /\ AdmittedLeases(create_lease(o, FALSE)) \subseteq Admitted
         /\ AdmittedLeases(create_lease(o, TRUE)) \subseteq Admitted \cup {o}
         /\ AdmittedLeases(StrayLease(o)) \subseteq Admitted
<1>1. rt \in [Owner -> Lease]
  BY DEF TypeOK
<1>2. /\ AdmittedLeases(release_lease(o)) \subseteq Admitted
      /\ o \notin AdmittedLeases(release_lease(o))
  BY <1>1 DEF AdmittedLeases, CheckedLeases, DoubledLeases, ActiveLeases, Admitted, release_lease, NoLease
<1>3. \A st : AdmittedLeases(Renew(o, st)) \subseteq Admitted
  <2> SUFFICES ASSUME NEW st, NEW p \in AdmittedLeases(Renew(o, st))
               PROVE  p \in Admitted
    OBVIOUS
  <2>1. CASE rt[o].st = "none"
    BY <2>1 DEF Renew, Admitted
  <2>2. CASE rt[o].st # "none"
    <3> DEFINE b == rt[o].checked /\ rt[o].st # "expired"
               new == [st |-> st, checked |-> b, stray |-> rt[o].stray]
    <3>1. Renew(o, st) = [rt EXCEPT ![o] = new]
      BY <2>2, RenewShape
    <3>2. CASE p = o
      <4>1. rt[o].checked /\ rt[o].st # "expired"
        <5>1. Renew(o, st)[o].checked
          BY <3>2, Zenon DEF AdmittedLeases, CheckedLeases
        <5>2. new.checked = b
          <6> HIDE DEF b
          <6> QED BY SMT
        <5>3. Renew(o, st)[o] = new
          <6> HIDE DEF new
          <6> QED BY <1>1, <3>1
        <5>4. new.checked
          <6> HIDE DEF new
          <6> QED BY <5>1, <5>3, Zenon
        <5> HIDE DEF new
        <5>5. b
          <6> HIDE DEF b
          <6> QED BY <5>2, <5>4, Zenon
        <5> QED
          BY <5>5
      <4>2. rt[o].st \in {"ttl", "final"}
        BY <1>1, <2>2, <4>1 DEF Lease
      <4>3. rt[o].stray # "doubled"
        <5>1. Renew(o, st)[o].stray # "doubled"
          BY <3>2, Zenon DEF AdmittedLeases, DoubledLeases
        <5>2. Renew(o, st)[o] = new
          <6> HIDE DEF new
          <6> QED BY <1>1, <3>1
        <5>3. new.stray = rt[o].stray
          <6> HIDE DEF b
          <6> QED BY SMT
        <5> HIDE DEF new
        <5> QED
          BY <5>1, <5>2, <5>3
      <4> QED
        BY <3>2, <4>1, <4>2, <4>3 DEF Admitted, AdmittedLeases, CheckedLeases, DoubledLeases, ActiveLeases
    <3>3. CASE p # o
      BY <1>1, <3>1, <3>3 DEF AdmittedLeases, CheckedLeases, DoubledLeases, ActiveLeases, Admitted
    <3> QED
      BY <3>2, <3>3
  <2> QED
    BY <2>1, <2>2
<1>4. /\ AdmittedLeases(create_lease(o, FALSE)) \subseteq Admitted
      /\ AdmittedLeases(create_lease(o, TRUE)) \subseteq Admitted \cup {o}
  BY <1>1 DEF AdmittedLeases, CheckedLeases, DoubledLeases, ActiveLeases, Admitted, create_lease
<1>5. AdmittedLeases(StrayLease(o)) \subseteq Admitted
  BY <1>1 DEF AdmittedLeases, CheckedLeases, DoubledLeases, ActiveLeases, Admitted, StrayLease
<1> QED
  BY <1>2, <1>3, <1>4, <1>5 DEF extend_lease, finalize_lease

\* Only a release or a grant forgets a failed release.
LEMMA TableTame ==
  ASSUME TypeOK, NEW o \in Owner
  PROVE  /\ Tame(rt) /\ Tame(release_lease(o)) /\ Tame(StrayLease(o))
         /\ Tame(extend_lease(o)) /\ Tame(finalize_lease(o))
         /\ Tame(create_lease(o, FALSE))
         /\ \A b : o \notin Inst => Tame(create_lease(o, b))
<1>1. rt \in [Owner -> Lease] /\ Inst \subseteq Owner
  BY DEF TypeOK, Owner
<1>2. Tame(rt)
  BY DEF Tame
<1>3. Tame(release_lease(o))
  BY <1>1 DEF Tame, release_lease, NoLease, AdmittedLeases, CheckedLeases
<1>4. Tame(StrayLease(o))
  <2>1. \A i \in Inst : rt[i].stray # "no" => StrayLease(o)[i].stray # "no"
    BY <1>1 DEF StrayLease, Lease
  <2> QED
    BY <2>1 DEF Tame
<1>5. \A st : Tame(Renew(o, st))
  <2> SUFFICES ASSUME NEW st, NEW i \in Inst
               PROVE  Renew(o, st)[i].stray = rt[i].stray
    BY DEF Tame
  <2> DEFINE b == rt[o].checked /\ rt[o].st # "expired"
             new == [st |-> st, checked |-> b, stray |-> rt[o].stray]
  <2>1. Renew(o, st) = rt \/ Renew(o, st) = [rt EXCEPT ![o] = new]
    <3>1. CASE rt[o].st = "none"
      BY <3>1 DEF Renew
    <3>2. CASE rt[o].st # "none"
      BY <3>2, RenewShape
    <3> QED
      BY <3>1, <3>2
  <2>2. new.stray = rt[o].stray
    <3> HIDE DEF b
    <3> QED BY SMT
  <2> HIDE DEF new
  <2> QED
    BY <1>1, <2>1, <2>2
<1>6. Tame(create_lease(o, FALSE))
  BY <1>1 DEF Tame, create_lease, AdmittedLeases, CheckedLeases
<1>7. ASSUME NEW b, o \notin Inst PROVE Tame(create_lease(o, b))
  <2>1. \A i \in Inst : create_lease(o, b)[i] = rt[i]
    BY <1>1, <1>7 DEF create_lease
  <2> QED
    BY <2>1 DEF Tame
<1> QED
  BY <1>2, <1>3, <1>4, <1>5, <1>6, <1>7 DEF extend_lease, finalize_lease

-----------------------------------------------------------------------------
(* Steps that promise nothing new.                                         *)

\* A step that admits no lease, and whose new promises are kept, keeps them all.
LEMMA ShrinkKeepsPromises ==
  ASSUME TypeOK, CapacityPromisesKept,
         AdmittedLeases(rt') \subseteq Admitted, Tame(rt'),
         \A i \in Inst : create'[i] = create[i] \/ CreatePromise(i)',
         \A o \in Op : op'[o] = op[o] \/ RestartPromise(o)',
         recon' = recon \/ ReconPromise'
  PROVE  CapacityPromisesKept'
<1> DEFINE n == Cardinality(AdmittedLeases(rt))
           m == Cardinality(AdmittedLeases(rt'))
<1>1. n \in Nat /\ m \in Nat /\ m <= n
  BY AdmittedCount DEF Admitted
<1>2. ASSUME NEW i \in Inst
      PROVE  /\ Cardinality(AdmittedLeases(rt') \ {i}) \in Nat
             /\ Cardinality(AdmittedLeases(rt) \ {i}) \in Nat
             /\ Cardinality(AdmittedLeases(rt') \ {i}) <= Cardinality(AdmittedLeases(rt) \ {i})
  <2>1. IsFiniteSet(AdmittedLeases(rt) \ {i})
    BY AdmittedCount
  <2>2. (AdmittedLeases(rt') \ {i}) \in SUBSET (AdmittedLeases(rt) \ {i})
    BY DEF Admitted
  <2> QED
    BY <2>1, <2>2, FS_Subset, FS_CardinalityType
<1>3. Cardinality(recon.targets) \in Nat
  BY TargetCount
<1>4. \A k \in Nat : Fits(k) => Fits(k)'
  <2> SUFFICES ASSUME NEW k \in Nat, n + k <= Budget
               PROVE  m + k <= Budget
    BY DEF Fits
  <2> QED
    BY <1>1, BoundAssumption
<1>5. Fits(0)'
  BY <1>4 DEF CapacityPromisesKept
<1>6. ASSUME NEW i \in Inst PROVE CreatePromise(i)'
  <2>1. CASE create'[i] = create[i]
    <3> DEFINE c == create[i]
               a == Cardinality(AdmittedLeases(rt) \ {i})
               b == Cardinality(AdmittedLeases(rt') \ {i})
    <3>1. /\ c.pc = "checked" /\ ~c.matched => Fits(1)
          /\ c.pc = "matched" /\ ~c.matched /\ ~c.warm => Fits(1)
          /\ c.pc \in {"inserted", "rollback", "restore"} /\ c.warm /\ c.covered =>
                a + 1 <= Budget
          /\ c.pc = "restore" => c.warm /\ (i \in AdmittedLeases(rt) => rt[i].stray # "no")
      BY DEF CapacityPromisesKept, CreatePromise
    <3>2. Fits(1) => Fits(1)'
      BY <1>4
    <3>3. a + 1 <= Budget => b + 1 <= Budget
      <4>1. a \in Nat /\ b \in Nat /\ b <= a
        BY <1>2
      <4> HIDE DEF a, b
      <4> QED
        BY <4>1, BoundAssumption
    <3>4. (i \in AdmittedLeases(rt) => rt[i].stray # "no")
             => (i \in AdmittedLeases(rt') => rt'[i].stray # "no")
      BY Zenon DEF Tame, Admitted
    <3> HIDE DEF a, c
    <3>5. create'[i] = c
      BY <2>1 DEF c
    <3> QED
      BY <3>1, <3>2, <3>3, <3>4, <3>5, Zenon DEF CreatePromise
  <2> QED
    BY <2>1
<1>7. ASSUME NEW o \in Op PROVE RestartPromise(o)'
  BY <1>4 DEF CapacityPromisesKept, RestartPromise
<1>8. ReconPromise'
  BY <1>3, <1>4 DEF CapacityPromisesKept, ReconPromise
<1> QED
  BY <1>5, <1>6, <1>7, <1>8 DEF CapacityPromisesKept

-----------------------------------------------------------------------------
(* The lock discipline.                                                    *)

\* A step that leaves the lock and its users alone keeps the discipline.
LEMMA LockFrame ==
  ASSUME LockInv, UNCHANGED <<capLock, create, op, recon>>
  PROVE  LockInv'
  BY DEF LockInv

\* The holder of the capacity lock is alone between check and grant.
LEMMA HolderAlone ==
  ASSUME TypeOK, LockInv
  PROVE  /\ \A i, j \in Inst : capLock = i /\ i # j => create[j].pc \in {"idle", "admitted"}
         /\ \A i \in Inst : capLock = i => recon.pc \in {"idle", "wait"} /\ \A o \in Op : op[o].pc # "acquire"
         /\ \A o \in Op : capLock = o =>
               /\ recon.pc \in {"idle", "wait"}
               /\ \A i \in Inst : create[i].pc \in {"idle", "admitted"}
               /\ \A p \in Op : p # o => op[p].pc # "acquire"
         /\ capLock \in {"nobody", "reconciler"} =>
               /\ \A i \in Inst : create[i].pc \in {"idle", "admitted"}
               /\ \A o \in Op : op[o].pc # "acquire"
         /\ capLock = "nobody" => recon.pc \in {"idle", "wait"}
<1>1. \A i \in Inst : create[i].pc \in CreatePC
  BY DEF TypeOK, Creating
<1>2. \A i \in Inst, o \in Op : i # o /\ i # "nobody" /\ i # "reconciler"
                                /\ o # "nobody" /\ o # "reconciler"
  BY HolderAssumption
<1>3. \A i \in Inst : capLock # i => create[i].pc \in {"idle", "admitted"}
  BY <1>1 DEF LockInv, CreatePC
<1>4. \A o \in Op : capLock # o => op[o].pc # "acquire"
  BY DEF LockInv
<1>5. capLock # "reconciler" => recon.pc \in {"idle", "wait"}
  BY DEF LockInv
<1>6. \A i, j \in Inst : capLock = i /\ i # j => create[j].pc \in {"idle", "admitted"}
  BY <1>3
<1>7. \A i \in Inst : capLock = i => recon.pc \in {"idle", "wait"} /\ \A o \in Op : op[o].pc # "acquire"
  BY <1>4, <1>5, HolderAssumption
<1>8. ASSUME NEW o \in Op, capLock = o
      PROVE  /\ recon.pc \in {"idle", "wait"}
             /\ \A i \in Inst : create[i].pc \in {"idle", "admitted"}
             /\ \A p \in Op : p # o => op[p].pc # "acquire"
  BY <1>2, <1>3, <1>4, <1>5, <1>8, HolderAssumption
<1>9. ASSUME capLock \in {"nobody", "reconciler"}
      PROVE  /\ \A i \in Inst : create[i].pc \in {"idle", "admitted"}
             /\ \A o \in Op : op[o].pc # "acquire"
  BY <1>3, <1>4, <1>9, HolderAssumption
<1> QED
  BY <1>5, <1>6, <1>7, <1>8, <1>9

\* Every step keeps the lock discipline: only a task that finds the lock free
\* takes it, and only its holder gives it back.
LEMMA LockPreserved ==
  ASSUME TypeOK, LockInv, Next
  PROVE  LockInv'
<1>1. create \in [Inst -> Creating] /\ op \in [Op -> Handler] /\ recon \in Reconciler
  BY DEF TypeOK
<1>2. ASSUME NEW i \in Inst, CreateAdmit(i) \/ CreateStep(i) PROVE LockInv'
  <2>1. UNCHANGED <<op, recon>>
    BY <1>2 DEF CreateAdmit, CreateStep, CreateCheck, CreateMatch, CreateInsert,
         CreateEnqueue, RollbackRelease, RollbackRestore, RollbackErase, CreateQueuing,
         CreateFrame, CreateTouches
  <2>2. \A j \in Inst : j # i => create'[j] = create[j]
    BY <1>1, <1>2 DEF CreateAdmit, CreateStep, CreateCheck, CreateMatch, CreateInsert,
         CreateEnqueue, RollbackRelease, RollbackRestore, RollbackErase, CreateQueuing,
         CreateReturn
  <2>3. \/ capLock' = capLock /\ create'[i].pc \in {"idle", "admitted"}
        \/ capLock' = i /\ capLock \in {"nobody", i}
        \/ capLock = i /\ create'[i].pc = "idle"
    <3>1. CreateAdmit(i) => capLock' = capLock /\ create'[i].pc \in {"idle", "admitted"}
      BY <1>1 DEF CreateAdmit
    <3>2. CreateCheck(i) => \/ capLock = "nobody" /\ capLock' = i
                            \/ capLock' = capLock /\ create'[i].pc = "idle"
      BY <1>1 DEF CreateCheck, IdleCreate
    <3>3. CreateMatch(i) \/ CreateEnqueue(i) \/ RollbackRelease(i) \/ RollbackRestore(i)
            => capLock = i /\ capLock' = i
      BY DEF CreateMatch, CreateEnqueue, RollbackRelease, RollbackRestore, LockInv
    <3>4. CreateInsert(i) => capLock = i /\ (capLock' = i \/ create'[i].pc = "idle")
      BY <1>1 DEF CreateInsert, CreateReturn, IdleCreate, LockInv
    <3>5. RollbackErase(i) \/ CreateQueuing(i) => capLock = i /\ create'[i].pc = "idle"
      BY <1>1 DEF RollbackErase, CreateQueuing, CreateReturn, IdleCreate, LockInv
    <3> QED
      BY <1>2, <3>1, <3>2, <3>3, <3>4, <3>5 DEF CreateStep
  <2>4. \A j \in Inst : j # i => create'[j].pc \in {"idle", "admitted"} \/ capLock \in Inst \ {i}
    BY <2>2, HolderAlone, <1>1 DEF LockInv, Creating, CreatePC
  <2> QED
    BY <2>1, <2>2, <2>3, HolderAlone, HolderAssumption DEF LockInv
<1>3. ASSUME WorkerStep PROVE LockInv'
  BY <1>3, LockFrame DEF WorkerStep, WRecover, WClaim, WGate, WStart, WCreate, WCleanup,
     WActivate, WFinalize, WMarkJob, WMarkRow, WorkerFrame, WorkerTouches
<1>4. ASSUME NEW o \in Op, OpStep(o) \/ \E k \in Requests, i \in Inst : OpRequest(o, k, i)
      PROVE  LockInv'
  <2>1. UNCHANGED <<create, recon>>
    BY <1>4 DEF OpStep, OpRequest, RestartCheck, RestartAcquire, OpVm, OpCommit, OpPost,
         RestartUndo, OpFrame
  <2>2. \A p \in Op : p # o => op'[p] = op[p]
    BY <1>1, <1>4 DEF OpStep, OpRequest, RestartCheck, RestartAcquire, OpVm, OpCommit, OpPost,
         RestartUndo
  <2>3. \/ capLock' = capLock /\ op'[o].pc # "acquire"
        \/ capLock = "nobody" /\ capLock' = o
        \/ capLock = o /\ op'[o].pc # "acquire"
    <3>1. (\E k \in Requests, i \in Inst : OpRequest(o, k, i)) =>
             capLock' = capLock /\ op'[o].pc # "acquire"
      BY <1>1 DEF OpRequest, IdleOp
    <3>2. RestartCheck(o) => \/ capLock = "nobody" /\ capLock' = o
                             \/ capLock' = capLock /\ op'[o].pc # "acquire"
      <4> SUFFICES ASSUME RestartCheck(o)
                   PROVE  \/ capLock = "nobody" /\ capLock' = o
                          \/ capLock' = capLock /\ op'[o].pc # "acquire"
        OBVIOUS
      <4>1. \/ capLock = "nobody" /\ capLock' = o
            \/ capLock' = capLock /\ op' = [op EXCEPT ![o].pc = "flow"]
            \/ capLock' = capLock /\ op' = [op EXCEPT ![o] = IdleOp]
        BY DEF RestartCheck
      <4> QED
        BY <1>1, <4>1 DEF IdleOp, Handler
    <3>3. RestartAcquire(o) => capLock = o /\ op'[o].pc # "acquire"
      BY <1>1 DEF RestartAcquire, IdleOp, Handler, LockInv
    <3>4. OpVm(o) => capLock' = capLock /\ op'[o].pc # "acquire"
      <4> SUFFICES ASSUME OpVm(o) PROVE op'[o].pc # "acquire" /\ capLock' = capLock
        OBVIOUS
      <4>1. op'[o] \in {[op[o] EXCEPT !.pc = "commit"], [op[o] EXCEPT !.pc = "undo"], IdleOp}
        BY <1>1 DEF OpVm
      <4>2. op[o] \in Handler
        BY <1>1
      <4> QED
        BY <4>1, <4>2 DEF OpVm, IdleOp, Handler
    <3>5. OpCommit(o) \/ OpPost(o) \/ RestartUndo(o) => capLock' = capLock /\ op'[o].pc # "acquire"
      BY <1>1 DEF OpCommit, OpPost, RestartUndo, IdleOp, Handler
    <3> QED
      BY <1>4, <3>1, <3>2, <3>3, <3>4, <3>5 DEF OpStep
  <2> QED
    BY <2>1, <2>2, <2>3, HolderAlone, HolderAssumption DEF LockInv
<1>5. ASSUME ReaperStep PROVE LockInv'
  BY <1>5, LockFrame DEF ReaperStep, ReapScan, ReapRead, ReapMark, ReapRelease, ReaperFrame
<1>6. ASSUME ReconStep PROVE LockInv'
  <2>1. UNCHANGED <<create, op>>
    BY <1>6 DEF ReconStep, ReconWake, ReconLock, ReconDecide, ReconLease, ReconRefill, ReconDone,
         ReconFrame, ReconTouches
  <2>2. \/ capLock' = capLock /\ recon.pc = "idle" /\ recon'.pc = "wait"
        \/ capLock' = "reconciler" /\ capLock \in {"nobody", "reconciler"}
        \/ capLock = "reconciler" /\ recon'.pc \in {"idle", "wait"}
    <3>1. ReconWake => capLock' = capLock /\ recon.pc = "idle" /\ recon'.pc = "wait"
      BY <1>1 DEF ReconWake, Reconciler
    <3>2. ReconLock => capLock' = "reconciler" /\ capLock = "nobody"
      BY DEF ReconLock
    <3>3. ReconDecide \/ (\E c \in Claw : ReconLease(c)) \/ ReconRefill =>
             capLock = "reconciler" /\ capLock' = "reconciler"
      BY DEF ReconDecide, ReconLease, ReconRefill, LockInv
    <3>4. ReconDone => capLock = "reconciler" /\ recon'.pc \in {"idle", "wait"}
      BY DEF ReconDone, IdleRecon, LockInv
    <3> QED
      BY <1>6, <3>1, <3>2, <3>3, <3>4 DEF ReconStep
  <2> QED
    BY <2>1, <2>2, HolderAlone DEF LockInv
<1>7. ASSUME EnvStep PROVE LockInv'
  BY <1>7, LockFrame DEF EnvStep, Expire, UninstallCheck, UninstallStep, UninstallMark,
     UninstallRelease, MaintOn, MaintOff, EnvFrame
<1>8. ASSUME Crash PROVE LockInv'
  BY <1>8 DEF Crash, IdleCreate, IdleOp, IdleRecon, LockInv
<1>9. ASSUME BootStep \/ AutoStep PROVE LockInv'
  BY <1>9, LockFrame DEF BootStep, AutoStep, BootSnapshot, BootReconcile, AutoVm, AutoLease,
     BootTouches
<1> QED
  BY <1>2, <1>3, <1>4, <1>5, <1>6, <1>7, <1>8, <1>9 DEF Next

-----------------------------------------------------------------------------
(* Steps of tasks that check nothing.                                      *)

Warm(leases) ==
    \A c \in Claw : leases[c].st \in {"none", "final"} /\ leases[c].stray = "no"

\* Releases, grants and renewals of instance leases leave warm leases without
\* expiry.
LEMMA WarmTables ==
  ASSUME TypeOK, WarmLeaseInv, NEW o \in Owner, NEW b
  PROVE  /\ Warm(rt) /\ Warm(release_lease(o)) /\ Warm(create_lease(o, b))
         /\ o \in Inst => Warm(extend_lease(o)) /\ Warm(finalize_lease(o))
         /\ o \in Inst => Warm(StrayLease(o))
<1>1. rt \in [Owner -> Lease] /\ Claw \subseteq Owner
  BY DEF TypeOK, Owner
<1>2. Warm(rt)
  BY DEF Warm, WarmLeaseInv
<1>3. Warm(release_lease(o))
  BY <1>1, <1>2 DEF Warm, release_lease, NoLease
<1>4. Warm(create_lease(o, b))
  <2> SUFFICES ASSUME NEW c \in Claw
               PROVE  /\ create_lease(o, b)[c].st \in {"none", "final"}
                      /\ create_lease(o, b)[c].stray = "no"
    BY DEF Warm
  <2>1. create_lease(o, b)[c] \in {rt[c], [st |-> "final", checked |-> b, stray |-> "no"]}
    BY <1>1 DEF create_lease
  <2> QED
    BY <1>2, <2>1 DEF Warm
<1>5. \A st : o \in Inst => Warm(Renew(o, st))
  <2> SUFFICES ASSUME NEW st, o \in Inst, NEW c \in Claw PROVE Renew(o, st)[c] = rt[c]
    BY <1>2 DEF Warm
  <2>1. c # o
    BY FiniteAssumption
  <2> QED
    BY <1>1, <2>1 DEF Renew
<1>6. o \in Inst => Warm(StrayLease(o))
  BY <1>1, <1>2, FiniteAssumption DEF Warm, StrayLease
<1> QED
  BY <1>2, <1>3, <1>4, <1>5, <1>6 DEF extend_lease, finalize_lease

\* A step of a task outside the create, restart and reconciler pipelines that
\* releases or renews leases, or grants unchecked ones, keeps the invariant.
LEMMA QuietStep ==
  ASSUME CapacityInv, UNCHANGED <<create, op, recon>>,
         AdmittedLeases(rt') \subseteq Admitted, Warm(rt'), Tame(rt')
  PROVE  WarmLeaseInv' /\ CapacityPromisesKept'
<1>1. WarmLeaseInv'
  BY DEF Warm, WarmLeaseInv
<1>2. CapacityPromisesKept'
  BY ShrinkKeepsPromises DEF CapacityInv
<1> QED
  BY <1>1, <1>2

\* The jobs worker only releases and renews.
LEMMA WorkerKeeps ==
  ASSUME CapacityInv, WorkerStep
  PROVE  WarmLeaseInv' /\ CapacityPromisesKept'
<1> DEFINE i == worker.inst
<1>1. UNCHANGED <<create, op, recon>>
  BY DEF WorkerStep, WRecover, WClaim, WGate, WStart, WCreate, WCleanup, WActivate,
     WFinalize, WMarkJob, WMarkRow, WorkerFrame, WorkerTouches
<1>2. \/ rt' = rt
      \/ i \in Inst /\ rt' \in {extend_lease(i), finalize_lease(i), release_lease(i)}
  <2>1. WRecover \/ (\E j \in Inst : WClaim(j)) \/ WGate \/ WCreate \/ WActivate
          \/ WMarkJob \/ WMarkRow => rt' = rt
    BY DEF WRecover, WClaim, WGate, WCreate, WActivate, WMarkJob, WMarkRow, dbVars
  <2>2. WStart => i \in Inst /\ rt' \in {rt, extend_lease(i)}
    BY DEF WStart, CapacityInv, TypeOK
  <2>3. WFinalize => i \in Inst /\ rt' \in {rt, finalize_lease(i)}
    BY DEF WFinalize, CapacityInv, TypeOK
  <2>4. WCleanup => i \in Inst /\ rt' \in {rt, release_lease(i)}
    BY DEF WCleanup, CapacityInv, TypeOK
  <2> QED
    BY <2>1, <2>2, <2>3, <2>4 DEF WorkerStep
<1>3. TypeOK /\ WarmLeaseInv
  BY DEF CapacityInv
<1>4. CASE rt' = rt
  BY <1>1, <1>3, <1>4, QuietStep DEF Admitted, Warm, WarmLeaseInv, Tame
<1>5. CASE i \in Inst /\ rt' \in {extend_lease(i), finalize_lease(i), release_lease(i)}
  <2>1. i \in Owner
    BY <1>5 DEF Owner
  <2> QED
    BY <1>1, <1>3, <1>5, <2>1, TableShrinks, TableTame, WarmTables, QuietStep
<1> QED
  BY <1>2, <1>4, <1>5

\* The reaper only releases.
LEMMA ReaperKeeps ==
  ASSUME CapacityInv, ReaperStep
  PROVE  WarmLeaseInv' /\ CapacityPromisesKept'
<1>1. UNCHANGED <<create, op, recon>>
  BY DEF ReaperStep, ReapScan, ReapRead, ReapMark, ReapRelease, ReaperFrame
<1>2. rt' = rt \/ (reaper.cur \in Owner /\ rt' = release_lease(reaper.cur))
  BY DEF ReaperStep, ReapScan, ReapRead, ReapMark, ReapRelease, CapacityInv, TypeOK, Owner
<1>3. TypeOK /\ WarmLeaseInv
  BY DEF CapacityInv
<1>4. CASE rt' = rt
  BY <1>1, <1>3, <1>4, QuietStep DEF Admitted, Warm, WarmLeaseInv, Tame
<1>5. CASE reaper.cur \in Owner /\ rt' = release_lease(reaper.cur)
  BY <1>1, <1>3, <1>5, TableShrinks, TableTame, WarmTables, QuietStep
<1> QED
  BY <1>2, <1>4, <1>5

\* Expiry and uninstalls only take leases away.
LEMMA EnvKeeps ==
  ASSUME CapacityInv, EnvStep
  PROVE  WarmLeaseInv' /\ CapacityPromisesKept'
<1>1. UNCHANGED <<create, op, recon>>
  BY DEF EnvStep, Expire, UninstallCheck, UninstallStep, UninstallMark, UninstallRelease,
     MaintOn, MaintOff, EnvFrame
<1>2. TypeOK /\ WarmLeaseInv /\ rt \in [Owner -> Lease]
  BY DEF CapacityInv, TypeOK
<1>3. ASSUME NEW i \in Inst, Expire(i) PROVE WarmLeaseInv' /\ CapacityPromisesKept'
  <2>1. i \in Owner /\ Claw \subseteq Owner /\ i \notin Claw
    BY FiniteAssumption DEF Owner
  <2>2. rt' = [rt EXCEPT ![i] = [rt[i] EXCEPT !.st = "expired"]]
    BY <1>3 DEF Expire
  <2>3. AdmittedLeases(rt') \subseteq Admitted
    <3> SUFFICES ASSUME NEW o \in AdmittedLeases(rt') PROVE o \in Admitted
      OBVIOUS
    <3>1. o \in Owner /\ rt'[o].st \in {"ttl", "final"}
      BY DEF AdmittedLeases, CheckedLeases, DoubledLeases, ActiveLeases
    <3>2. o # i
      BY <1>2, <2>1, <2>2, <3>1 DEF Lease
    <3>3. rt'[o] = rt[o]
      BY <1>2, <2>1, <2>2, <3>1, <3>2
    <3> QED
      BY <3>3, Zenon DEF AdmittedLeases, CheckedLeases, DoubledLeases, ActiveLeases, Admitted
  <2>4. Warm(rt')
    BY <1>2, <2>1, <2>2 DEF Warm, WarmLeaseInv
  <2>5. Tame(rt')
    BY <1>2, <2>1, <2>2 DEF Tame, Lease, Owner
  <2> QED
    BY <1>1, <2>3, <2>4, <2>5, QuietStep
<1>4. ASSUME NEW c \in Claw, UninstallRelease(c) PROVE WarmLeaseInv' /\ CapacityPromisesKept'
  <2>1. c \in Owner /\ rt' \in {rt, release_lease(c)}
    BY <1>4 DEF UninstallRelease, Owner
  <2>2. CASE rt' = rt
    BY <1>1, <1>2, <2>2, QuietStep DEF Admitted, Warm, WarmLeaseInv, Tame
  <2>3. CASE rt' = release_lease(c)
    BY <1>1, <1>2, <2>1, <2>3, TableShrinks, TableTame, WarmTables, QuietStep
  <2> QED
    BY <2>1, <2>2, <2>3
<1>5. ASSUME rt' = rt PROVE WarmLeaseInv' /\ CapacityPromisesKept'
  BY <1>1, <1>2, <1>5, QuietStep DEF Admitted, Warm, WarmLeaseInv, Tame
<1> QED
  BY <1>3, <1>4, <1>5 DEF EnvStep, UninstallCheck, UninstallStep, UninstallMark, MaintOn, MaintOff

\* A crash ends every pipeline; start-up releases leases, and grants only
\* unchecked ones.
LEMMA BootKeeps ==
  ASSUME CapacityInv, Crash \/ BootStep \/ AutoStep
  PROVE  WarmLeaseInv' /\ CapacityPromisesKept'
<1>1. TypeOK /\ WarmLeaseInv /\ rt \in [Owner -> Lease]
  BY DEF CapacityInv, TypeOK
<1>2. CASE Crash
  <2>1. rt' = rt
    BY <1>2 DEF Crash, dbVars
  <2>2. /\ \A i \in Inst : CreatePromise(i)'
        /\ \A o \in Op : RestartPromise(o)'
        /\ ReconPromise'
    BY <1>2 DEF Crash, CreatePromise, RestartPromise, ReconPromise, IdleCreate, IdleOp, IdleRecon
  <2> QED
    BY <1>1, <2>1, <2>2, ShrinkKeepsPromises DEF Admitted, Tame, WarmLeaseInv, CapacityInv
<1>3. CASE BootStep \/ AutoStep
  <2>1. UNCHANGED <<create, op, recon>>
    BY <1>3 DEF BootStep, AutoStep, BootSnapshot, BootReconcile, AutoVm, AutoLease,
       BootTouches
  <2>2. CASE rt' = rt
    BY <1>1, <2>1, <2>2, QuietStep DEF Admitted, Warm, WarmLeaseInv, Tame
  <2>3. CASE BootReconcile
    <3>1. PICK freed : rt' = [o \in Owner |-> IF o \in freed THEN NoLease ELSE rt[o]]
      BY <2>3 DEF BootReconcile
    <3>2. AdmittedLeases(rt') \subseteq Admitted
      BY <3>1 DEF AdmittedLeases, CheckedLeases, DoubledLeases, ActiveLeases, Admitted, NoLease
    <3>3. Warm(rt')
      BY <1>1, <3>1 DEF Warm, WarmLeaseInv, NoLease, Owner
    <3>4. Tame(rt')
      BY <3>1 DEF Tame, AdmittedLeases, CheckedLeases, NoLease, Owner
    <3> QED
      BY <2>1, <3>2, <3>3, <3>4, QuietStep
  <2>4. CASE AutoLease /\ rt' # rt
    <3>1. auto.cur \in Owner
      BY <1>1, <2>4 DEF AutoLease, TypeOK, Owner
    <3>2. rt' = create_lease(auto.cur, FALSE)
      BY <2>4 DEF AutoLease
    <3> QED
      BY <1>1, <2>1, <3>1, <3>2, TableShrinks, TableTame, WarmTables, QuietStep
  <2> QED
    BY <1>3, <2>2, <2>3, <2>4 DEF BootStep, AutoStep, BootSnapshot, AutoVm
<1> QED
  BY <1>2, <1>3

-----------------------------------------------------------------------------
(* Steps of the pipelines that check and grant.                            *)

\* A capacity check that counts the request leaves room for one more lease.
LEMMA CheckPromises ==
  ASSUME TypeOK, check_capacity(FALSE)
  PROVE  Fits(1)
<1> DEFINE A == AdmittedLeases(rt)  L == ActiveLeases(rt)
<1>1. L \subseteq Owner /\ A \in SUBSET L
  BY DEF AdmittedLeases, CheckedLeases, DoubledLeases, ActiveLeases
<1>2. IsFiniteSet(Owner)
  BY FiniteAssumption, FS_Union DEF Owner
<1>3. IsFiniteSet(L)
  BY <1>1, <1>2, FS_Subset
<1>4. Cardinality(L) \in Nat /\ Cardinality(A) \in Nat /\ Cardinality(A) <= Cardinality(L)
  BY <1>1, <1>3, FS_Subset, FS_CardinalityType
<1>5. Cardinality(L) + 1 <= Budget
  BY DEF check_capacity, sum_active_runtime_leases
<1> HIDE DEF L
<1> QED
  BY <1>4, <1>5, BoundAssumption DEF Fits

\* One more admitted lease uses up one free slot.
LEMMA GrantFits ==
  ASSUME NEW o, NEW k \in Nat, Fits(k + 1),
         AdmittedLeases(rt') \subseteq Admitted \cup {o}
  PROVE  Fits(k)'
<1> DEFINE A == AdmittedLeases(rt)  B == AdmittedLeases(rt')
<1>1. IsFiniteSet(A) /\ Cardinality(A) \in Nat /\ Cardinality(B) \in Nat
  BY AdmittedCount
<1>2. /\ IsFiniteSet(A \cup {o})
      /\ Cardinality(A \cup {o}) \in {Cardinality(A), Cardinality(A) + 1}
  BY <1>1, FS_AddElement
<1>3. Cardinality(B) <= Cardinality(A \cup {o})
  <2>1. B \in SUBSET (A \cup {o})
    BY DEF Admitted
  <2> QED
    BY <1>2, <2>1, FS_Subset
<1>4. Cardinality(A) + (k + 1) <= Budget
  BY DEF Fits
<1>5. Cardinality(B) + k <= Budget
  <2> HIDE DEF A, B
  <2> QED
    BY <1>1, <1>2, <1>3, <1>4, BoundAssumption
<1> QED
  BY <1>5 DEF Fits

\* Taking an admitted lease out makes room for it.
LEMMA TakeOut ==
  ASSUME NEW o, o \in Admitted
  PROVE  /\ IsFiniteSet(Admitted \ {o})
         /\ Cardinality(Admitted \ {o}) \in Nat
         /\ Cardinality(Admitted) = Cardinality(Admitted \ {o}) + 1
<1>1. IsFiniteSet(Admitted)
  BY AdmittedCount DEF Admitted
<1>2. IsFiniteSet(Admitted \ {o}) /\ Cardinality(Admitted \ {o}) = Cardinality(Admitted) - 1
  BY <1>1, FS_RemoveElement
<1>3. Cardinality(Admitted) \in Nat /\ Cardinality(Admitted \ {o}) \in Nat
  BY <1>1, <1>2, FS_CardinalityType
<1> QED
  BY <1>2, <1>3

\* Once nobody is between check and grant, it is enough that the admitted
\* leases fit.
LEMMA NoPromises ==
  ASSUME Fits(0)',
         \A i \in Inst : create'[i].pc \notin {"checked", "matched", "inserted", "rollback", "restore"},
         \A o \in Op : op'[o].pc # "acquire",
         recon'.pc \in {"idle", "wait"}
  PROVE  CapacityPromisesKept'
  BY DEF CapacityPromisesKept, CreatePromise, RestartPromise, ReconPromise

\* The insert transaction spends the promise of the check, or moves the slot of
\* the warm lease, and then owes that slot to a rollback.
LEMMA InsertKeeps ==
  ASSUME CapacityInv, NEW i \in Inst, CreateInsert(i)
  PROVE  WarmLeaseInv' /\ CapacityPromisesKept'
<1> DEFINE c == ClawOf[i]
           w == create[i].warm
           v == IF w THEN rt[c].checked ELSE ~create[i].matched
           new == [st |-> "ttl", stray |-> "no", checked |-> v]
<1>1. /\ TypeOK /\ LockInv /\ WarmLeaseInv /\ CapacityPromisesKept
      /\ rt \in [Owner -> Lease] /\ create \in [Inst -> Creating]
      /\ c \in Claw /\ c \in Owner /\ i \in Owner /\ i \notin Claw
  BY ShapeAssumption, FiniteAssumption DEF CapacityInv, TypeOK, Owner
<1>2. create[i].pc = "matched" /\ UNCHANGED <<op, recon>>
  BY DEF CreateInsert, CreateFrame, CreateTouches
<1>3. CASE rt' = rt /\ create' = [create EXCEPT ![i] = IdleCreate]
  <2>1. \A j \in Inst : create'[j] = create[j] \/ CreatePromise(j)'
    BY <1>1, <1>3 DEF CreatePromise, IdleCreate
  <2>2. CapacityPromisesKept'
    BY <1>1, <1>2, <1>3, <2>1, ShrinkKeepsPromises DEF Admitted, Tame
  <2> QED
    BY <1>1, <1>3, <2>2 DEF WarmLeaseInv
<1>4. CASE /\ rt' = [o \in Owner |-> IF o = i THEN new
                                     ELSE IF o = c /\ w THEN NoLease ELSE rt[o]]
           /\ w => rt[c].st # "none"
           /\ create' = [create EXCEPT ![i].pc = "inserted", ![i].covered = v]
  <2>1. /\ \A j \in Inst : j # i => create'[j].pc \in {"idle", "admitted"}
        /\ recon'.pc \in {"idle", "wait"}
        /\ \A o \in Op : op'[o].pc # "acquire"
    <3>1. capLock = i
      BY <1>1, <1>2 DEF LockInv
    <3> HIDE DEF v
    <3> QED
      BY <1>1, <1>2, <1>4, <3>1, HolderAlone
  <2>2. WarmLeaseInv'
    <3> HIDE DEF new, w
    <3> QED
      BY <1>1, <1>4 DEF WarmLeaseInv, NoLease, Owner
  <2>3. \A o \in AdmittedLeases(rt') : o \in Admitted \/ (o = i /\ v)
    <3> SUFFICES ASSUME NEW o \in AdmittedLeases(rt'), ~(o = i /\ v)
                 PROVE  o \in Admitted
      OBVIOUS
    <3>1. /\ o \in Owner /\ rt'[o].checked /\ rt'[o].st \in {"ttl", "final"}
          /\ rt'[o].stray # "doubled"
      BY Zenon DEF AdmittedLeases, CheckedLeases, DoubledLeases, ActiveLeases
    <3>2. o # i
      <4> SUFFICES ASSUME o = i PROVE FALSE
        OBVIOUS
      <4>1. rt'[i] = new
        <5> HIDE DEF new
        <5> QED BY <1>1, <1>4
      <4>2. new.checked = v
        <5> HIDE DEF v
        <5> QED BY SMT
      <4> HIDE DEF new, v
      <4> QED
        BY <3>1, <4>1, <4>2, Zenon
    <3>3. rt'[o] = rt[o]
      <4>1. rt'[o] = IF o = c /\ w THEN NoLease ELSE rt[o]
        <5> HIDE DEF new, w, c
        <5> QED BY <1>4, <3>1, <3>2
      <4>2. NoLease.st = "none"
        BY DEF NoLease
      <4> QED
        BY <3>1, <4>1, <4>2
    <3> QED
      BY <3>1, <3>3, Zenon DEF Admitted, AdmittedLeases, CheckedLeases, DoubledLeases, ActiveLeases
  <2>4. w => c \notin AdmittedLeases(rt')
    <3> SUFFICES ASSUME w PROVE rt'[c].st = "none"
      BY DEF AdmittedLeases, CheckedLeases, DoubledLeases, ActiveLeases
    <3>1. rt'[c] = NoLease
      <4> HIDE DEF new
      <4> QED BY <1>1, <1>4
    <3> QED
      BY <3>1 DEF NoLease
  <2>5. /\ create'[i].pc = "inserted" /\ create'[i].warm = w
        /\ create'[i].covered = v
    <3> HIDE DEF v
    <3> QED BY <1>1, <1>4 DEF Creating
  <2>6. Fits(0)
    BY <1>1 DEF CapacityPromisesKept
  <2>10. rt'[i].checked = v
    <3>1. rt'[i] = new
      <4> HIDE DEF new
      <4> QED BY <1>1, <1>4
    <3>2. new.checked = v
      <4> HIDE DEF v
      <4> QED BY SMT
    <3> HIDE DEF new, v
    <3> QED
      BY <3>1, <3>2
  <2>7. CASE ~v
    <3>1. AdmittedLeases(rt') \subseteq Admitted
      BY <2>3, <2>7
    <3>2. CreatePromise(i)'
      <4> HIDE DEF v, w
      <4>1. ~create'[i].covered
        BY <2>5, <2>7, Zenon
      <4> QED
        BY <2>5, <4>1 DEF CreatePromise
    <3>3. \A j \in Inst : CreatePromise(j)'
      <4> SUFFICES ASSUME NEW j \in Inst, j # i PROVE CreatePromise(j)'
        BY <3>2
      <4> QED
        BY <2>1 DEF CreatePromise
    <3>4. Tame(rt')
      <4> SUFFICES ASSUME NEW j \in Inst, j \in AdmittedLeases(rt') PROVE rt'[j] = rt[j]
        BY DEF Tame
      <4>1. j # i
        BY <2>10, <2>7, Zenon DEF AdmittedLeases, CheckedLeases
      <4>2. j # c /\ j \in Owner
        BY <1>1, FiniteAssumption DEF Owner
      <4> HIDE DEF new, w, c
      <4> QED
        BY <1>4, <4>1, <4>2
    <3> QED
      BY <1>1, <1>2, <2>2, <3>1, <3>3, <3>4, ShrinkKeepsPromises
  <2>8. CASE v /\ ~w
    <3>1. ~create[i].matched
      BY <2>8
    <3>2. Fits(1)
      BY <1>1, <1>2, <2>8, <3>1 DEF CapacityPromisesKept, CreatePromise
    <3>3. AdmittedLeases(rt') \subseteq Admitted \cup {i}
      BY <2>3
    <3>4. Fits(0)'
      BY <3>2, <3>3, GrantFits
    <3>5. CreatePromise(i)'
      <4> HIDE DEF v, w
      <4>1. ~create'[i].warm
        BY <2>5, <2>8, Zenon
      <4> QED
        BY <2>5, <4>1 DEF CreatePromise
    <3>6. \A j \in Inst : CreatePromise(j)'
      <4> SUFFICES ASSUME NEW j \in Inst, j # i PROVE CreatePromise(j)'
        BY <3>5
      <4> QED
        BY <2>1 DEF CreatePromise
    <3> QED
      BY <2>1, <2>2, <3>4, <3>6 DEF CapacityPromisesKept, RestartPromise, ReconPromise
  <2>9. CASE v /\ w
    <3>1. c \in Admitted
      <4>1. rt[c].st = "final" /\ rt[c].stray = "no"
        BY <1>1, <1>4, <2>9 DEF WarmLeaseInv
      <4>2. rt[c].checked
        BY <2>9
      <4> QED
        BY <1>1, <4>1, <4>2 DEF Admitted, AdmittedLeases, CheckedLeases, DoubledLeases, ActiveLeases
    <3> DEFINE R == Admitted \ {c}
               B == AdmittedLeases(rt')
    <3>2. IsFiniteSet(R) /\ Cardinality(R) \in Nat /\ Cardinality(R) + 1 <= Budget
      <4>1. Cardinality(Admitted) + 0 <= Budget /\ Cardinality(Admitted) \in Nat
        BY <2>6, AdmittedCount DEF Fits, Admitted
      <4>2. IsFiniteSet(R) /\ Cardinality(R) \in Nat /\ Cardinality(Admitted) = Cardinality(R) + 1
        BY <3>1, TakeOut
      <4> HIDE DEF R
      <4> QED
        BY <4>1, <4>2, BoundAssumption
    <3>3. B \ {i} \in SUBSET R /\ B \subseteq R \cup {i}
      BY <2>3, <2>4, <2>9
    <3>4. Cardinality(B \ {i}) \in Nat /\ Cardinality(B \ {i}) + 1 <= Budget
      <4>1. Cardinality(B \ {i}) <= Cardinality(R) /\ IsFiniteSet(B \ {i})
        BY <3>2, <3>3, FS_Subset
      <4>2. Cardinality(B \ {i}) \in Nat
        BY <4>1, FS_CardinalityType
      <4> HIDE DEF B, R
      <4> QED
        BY <3>2, <4>1, <4>2, BoundAssumption
    <3>5. Fits(0)'
      <4>1. IsFiniteSet(B) /\ Cardinality(B) \in Nat
        BY AdmittedCount
      <4>2. Cardinality(B) \in {Cardinality(B \ {i}), Cardinality(B \ {i}) + 1}
        <5> HIDE DEF B
        <5>1. CASE i \in B
          <6>1. Cardinality(B \ {i}) = Cardinality(B) - 1
            BY <4>1, <5>1, FS_RemoveElement
          <6> QED
            BY <3>4, <4>1, <6>1
        <5>2. CASE i \notin B
          <6>1. B \ {i} = B
            BY <5>2
          <6> QED
            BY <6>1
        <5> QED
          BY <5>1, <5>2
      <4>3. Cardinality(B) <= Budget
        <5> HIDE DEF B
        <5> QED BY <3>4, <4>1, <4>2, BoundAssumption
      <4> QED
        BY <4>1, <4>3, BoundAssumption DEF Fits
    <3>6. CreatePromise(i)'
      BY <2>5, <3>4 DEF CreatePromise
    <3>7. \A j \in Inst : CreatePromise(j)'
      <4> SUFFICES ASSUME NEW j \in Inst, j # i PROVE CreatePromise(j)'
        BY <3>6
      <4> QED
        BY <2>1 DEF CreatePromise
    <3> QED
      BY <2>1, <2>2, <3>5, <3>7 DEF CapacityPromisesKept, RestartPromise, ReconPromise
  <2> QED
    BY <2>7, <2>8, <2>9
<1> QED
  <2>1. new.checked = v
    <3> HIDE DEF v
    <3> QED BY SMT
  <2> QED
    BY <1>3, <1>4, <2>1 DEF CreateInsert, CreateReturn, dbVars

\* The other steps of the create pipeline check and roll back.
LEMMA CreateKeeps ==
  ASSUME CapacityInv, NEW i \in Inst, CreateAdmit(i) \/ CreateStep(i)
  PROVE  WarmLeaseInv' /\ CapacityPromisesKept'
<1> DEFINE c == ClawOf[i]
<1>1. /\ TypeOK /\ LockInv /\ WarmLeaseInv /\ CapacityPromisesKept
      /\ rt \in [Owner -> Lease] /\ create \in [Inst -> Creating]
      /\ c \in Owner /\ i \in Owner
  BY ShapeAssumption DEF CapacityInv, TypeOK, Owner
<1>2. UNCHANGED <<op, recon>>
  BY DEF CreateAdmit, CreateStep, CreateCheck, CreateMatch, CreateInsert,
     CreateEnqueue, RollbackRelease, RollbackRestore, RollbackErase, CreateQueuing,
     CreateFrame, CreateTouches
<1>3. \A j \in Inst : j # i => create'[j] = create[j]
  BY <1>1 DEF CreateAdmit, CreateStep, CreateCheck, CreateMatch, CreateInsert,
     CreateEnqueue, RollbackRelease, RollbackRestore, RollbackErase, CreateQueuing,
     CreateReturn
<1>4. CreatePromise(i)
  BY <1>1 DEF CapacityPromisesKept
<1>5. ASSUME rt' = rt, CreatePromise(i)' PROVE WarmLeaseInv' /\ CapacityPromisesKept'
  <2>1. WarmLeaseInv'
    BY <1>1, <1>5 DEF WarmLeaseInv
  <2>2. \A j \in Inst : create'[j] = create[j] \/ CreatePromise(j)'
    BY <1>3, <1>5
  <2> QED
    BY <1>1, <1>2, <1>5, <2>1, <2>2, ShrinkKeepsPromises DEF Admitted, Tame
<1>6. CASE CreateAdmit(i) \/ RollbackErase(i) \/ CreateQueuing(i)
  <2>1. rt' = rt
    BY <1>6 DEF CreateAdmit, RollbackErase, CreateQueuing, dbVars
  <2>2. create'[i].pc \in {"idle", "admitted"}
    BY <1>1, <1>6 DEF CreateAdmit, RollbackErase, CreateQueuing, CreateReturn, IdleCreate,
       Creating
  <2> QED
    BY <1>5, <2>1, <2>2 DEF CreatePromise
<1>7. CASE CreateCheck(i)
  <2>1. rt' = rt
    BY <1>7 DEF CreateCheck, dbVars
  <2>2. CASE create' = [create EXCEPT ![i] = IdleCreate]
    <3>1. create'[i].pc = "idle"
      BY <1>1, <2>2 DEF IdleCreate
    <3> QED
      BY <1>5, <2>1, <3>1 DEF CreatePromise
  <2>3. CASE \E m \in BOOLEAN : /\ check_capacity(m)
                                 /\ create' = [create EXCEPT ![i].pc = "checked", ![i].matched = m]
    <3>1. PICK m \in BOOLEAN : /\ check_capacity(m)
                               /\ create' = [create EXCEPT ![i].pc = "checked", ![i].matched = m]
      BY <2>3
    <3>2. create'[i].pc = "checked" /\ create'[i].matched = m
      BY <1>1, <3>1 DEF Creating
    <3>3. m = FALSE => Fits(1)
      BY <1>1, <3>1, CheckPromises
    <3>4. Fits(1) => Fits(1)'
      BY <2>1 DEF Fits
    <3>5. CreatePromise(i)'
      BY <3>2, <3>3, <3>4 DEF CreatePromise
    <3> QED
      BY <1>5, <2>1, <3>5
  <2> QED
    BY <1>7, <2>2, <2>3 DEF CreateCheck
<1>8. CASE CreateMatch(i)
  <2>1. rt' = rt /\ create[i].pc = "checked"
    BY <1>8 DEF CreateMatch, dbVars
  <2>2. create'[i].pc = "matched" /\ create'[i].matched = create[i].matched
    <3>1. PICK m \in BOOLEAN : create' = [create EXCEPT ![i].pc = "matched", ![i].warm = m]
      BY <1>8 DEF CreateMatch
    <3> QED
      BY <1>1, <3>1 DEF Creating
  <2>3. ~create[i].matched => Fits(1)
    BY <1>4, <2>1 DEF CreatePromise
  <2>4. Fits(1) => Fits(1)'
    BY <2>1 DEF Fits
  <2> QED
    BY <1>5, <2>1, <2>2, <2>3, <2>4 DEF CreatePromise
<1>9. CASE CreateInsert(i)
  BY <1>9, InsertKeeps
<1>10. CASE CreateEnqueue(i)
  <2>1. rt' = rt /\ create[i].pc = "inserted"
    BY <1>10 DEF CreateEnqueue, dbVars
  <2>2. CASE create' = [create EXCEPT ![i].pc = "queued"]
    BY <1>1, <1>5, <2>1, <2>2 DEF CreatePromise, Creating
  <2>3. CASE create' = [create EXCEPT ![i].pc = "rollback"]
    <3>1. /\ create'[i].pc = "rollback" /\ create'[i].warm = create[i].warm
          /\ create'[i].covered = create[i].covered
      BY <1>1, <2>3 DEF Creating
    <3>2. CreatePromise(i)'
      BY <1>4, <2>1, <3>1 DEF CreatePromise
    <3> QED
      BY <1>5, <2>1, <3>2
  <2> QED
    BY <1>10, <2>2, <2>3 DEF CreateEnqueue
<1>11. CASE RollbackRelease(i)
  <2>1. rt' \in {release_lease(i), StrayLease(i)} /\ create[i].pc = "rollback"
    BY <1>11 DEF RollbackRelease
  <2>2. WarmLeaseInv'
    BY <1>1, <2>1, WarmTables DEF WarmLeaseInv, Warm
  <2>3. AdmittedLeases(rt') \subseteq Admitted /\ Tame(rt')
    BY <1>1, <2>1, TableShrinks, TableTame
  <2>4. /\ create'[i].pc = "erase" \/ (create'[i].pc = "restore" /\ create[i].warm)
        /\ create'[i].warm = create[i].warm /\ create'[i].covered = create[i].covered
    <3>1. \/ create' = [create EXCEPT ![i].pc = "erase"]
          \/ create' = [create EXCEPT ![i].pc = "restore"] /\ create[i].warm
      BY <1>11 DEF RollbackRelease
    <3> QED
      BY <1>1, <3>1 DEF Creating
  <2>5. i \in AdmittedLeases(rt') => rt'[i].stray # "no"
    <3>1. CASE rt' = release_lease(i)
      BY <1>1, <3>1, TableShrinks
    <3>2. CASE rt' = StrayLease(i)
      <4> SUFFICES ASSUME i \in AdmittedLeases(rt'), rt'[i].stray = "no" PROVE FALSE
        OBVIOUS
      <4>1. rt'[i].st # "none"
        BY Zenon DEF AdmittedLeases, CheckedLeases, ActiveLeases
      <4> QED
        BY <1>1, <3>2, <4>1 DEF StrayLease, Lease
    <3> QED
      BY <2>1, <3>1, <3>2
  <2>6. create[i].warm /\ create[i].covered =>
           Cardinality(AdmittedLeases(rt') \ {i}) + 1 <= Budget
    <3> SUFFICES ASSUME create[i].warm /\ create[i].covered
                 PROVE  Cardinality(AdmittedLeases(rt') \ {i}) + 1 <= Budget
      OBVIOUS
    <3> DEFINE A == AdmittedLeases(rt) \ {i}
               B == AdmittedLeases(rt') \ {i}
    <3>1. Cardinality(A) + 1 <= Budget
      BY <1>4, <2>1 DEF CreatePromise
    <3>2. IsFiniteSet(A)
      BY AdmittedCount
    <3>3. B \in SUBSET A
      BY <2>3 DEF Admitted
    <3>4. Cardinality(A) \in Nat /\ Cardinality(B) \in Nat /\ Cardinality(B) <= Cardinality(A)
      BY <3>2, <3>3, FS_Subset, FS_CardinalityType
    <3> HIDE DEF A, B
    <3> QED
      BY <3>1, <3>4, BoundAssumption DEF B
  <2>7. CreatePromise(i)'
    BY <2>4, <2>5, <2>6 DEF CreatePromise
  <2>8. \A j \in Inst : create'[j] = create[j] \/ CreatePromise(j)'
    BY <1>3, <2>7
  <2> QED
    BY <1>1, <1>2, <2>2, <2>3, <2>8, ShrinkKeepsPromises
<1>12. CASE RollbackRestore(i)
  <2> DEFINE made == create_lease(c, create[i].covered)
             mark == IF made[i].stray = "kept" THEN "doubled" ELSE made[i].stray
  <2>1. create[i].pc = "restore" /\ capLock = i
    BY <1>1, <1>12 DEF RollbackRestore, LockInv
  <2>2. create'[i].pc = "erase"
    BY <1>1, <1>12 DEF RollbackRestore, Creating
  <2>3. rt' = rt \/ rt' = [made EXCEPT ![i].stray = mark]
    <3> HIDE DEF made
    <3> QED BY <1>12 DEF RollbackRestore, made
  <2>4. \A j \in Inst : create'[j] = create[j] \/ CreatePromise(j)'
    BY <1>3, <2>2 DEF CreatePromise
  <2>5. CASE rt' = rt
    BY <1>1, <1>2, <2>4, <2>5, ShrinkKeepsPromises DEF Admitted, Tame, WarmLeaseInv
  <2>6. CASE rt' = [made EXCEPT ![i].stray = mark]
    <3>1. create[i].covered \in BOOLEAN /\ c \in Claw /\ i # c
      BY <1>1, ShapeAssumption, FiniteAssumption DEF Creating
    <3>2. made \in [Owner -> Lease] /\ made[i] = rt[i]
      BY <1>1, <3>1, TableTypes DEF create_lease
    <3>3. /\ \A o \in Owner : o # i => rt'[o] = made[o]
          /\ rt'[i].stray = mark
      <4> HIDE DEF made, mark
      <4> QED BY <1>1, <2>6, <3>2 DEF Lease
    <3>4. AdmittedLeases(rt') \subseteq AdmittedLeases(made) /\ i \notin AdmittedLeases(rt')
      <4>1. /\ rt'[i].st = made[i].st /\ rt'[i].checked = made[i].checked
            /\ made[i].stray = "doubled" => rt'[i].stray = "doubled"
        <5>1. made[i].stray = "doubled" => mark = "doubled"
          BY <3>2
        <5> HIDE DEF made, mark
        <5> QED BY <1>1, <2>6, <3>2, <3>3, <5>1 DEF Lease
      <4>2. AdmittedLeases(rt') \subseteq AdmittedLeases(made)
        <5> SUFFICES ASSUME NEW o \in AdmittedLeases(rt') PROVE o \in AdmittedLeases(made)
          OBVIOUS
        <5> HIDE DEF made
        <5>1. CASE o = i
          BY <4>1, <5>1, Zenon DEF AdmittedLeases, CheckedLeases, DoubledLeases, ActiveLeases
        <5>2. CASE o # i
          <6>1. rt'[o] = made[o]
            BY <3>3, <5>2 DEF AdmittedLeases, CheckedLeases, ActiveLeases
          <6> QED
            BY <6>1, Zenon DEF AdmittedLeases, CheckedLeases, DoubledLeases, ActiveLeases
        <5> QED
          BY <5>1, <5>2
      <4>3. i \notin AdmittedLeases(rt')
        <5> SUFFICES ASSUME i \in AdmittedLeases(rt') PROVE FALSE
          OBVIOUS
        <5>1. i \in AdmittedLeases(made)
          BY <4>2
        <5>2. i \in AdmittedLeases(rt)
          <6> HIDE DEF made
          <6> QED
            BY <3>2, <5>1, Zenon DEF AdmittedLeases, CheckedLeases, DoubledLeases, ActiveLeases
        <5>3. rt[i].stray # "no"
          BY <1>4, <2>1, <5>2 DEF CreatePromise
        <5>4. made[i].stray \in {"kept", "doubled"}
          <6>1. made[i].stray \in {"no", "kept", "doubled"} /\ made[i].stray # "no"
            <7> HIDE DEF made
            <7> QED BY <1>1, <3>2, <5>3 DEF Lease
          <6> QED
            BY <6>1
        <5>5. rt'[i].stray = "doubled"
          BY <3>3, <5>4
        <5> QED
          BY <5>5, Zenon DEF AdmittedLeases, DoubledLeases
      <4> QED
        BY <4>2, <4>3
    <3>5. WarmLeaseInv'
      <4>1. Warm(made)
        BY <1>1, WarmTables
      <4>2. \A d \in Claw : rt'[d] = made[d]
        BY <3>3, FiniteAssumption DEF Owner
      <4> QED
        BY <4>1, <4>2 DEF Warm, WarmLeaseInv
    <3>6. CASE create[i].covered = FALSE
      <4>1. AdmittedLeases(rt') \subseteq Admitted
        BY <1>1, <3>4, <3>6, TableShrinks
      <4>2. Tame(rt')
        <5> SUFFICES ASSUME NEW j \in Inst, j # i PROVE rt'[j] = rt[j]
          BY <3>4 DEF Tame
        <5> QED
          BY <1>1, <3>1, <3>3, FiniteAssumption DEF create_lease, Owner
      <4> QED
        BY <1>1, <1>2, <2>4, <3>5, <4>1, <4>2, ShrinkKeepsPromises
    <3>7. CASE create[i].covered = TRUE
      <4> DEFINE A == AdmittedLeases(rt) \ {i}
                 B == AdmittedLeases(rt')
      <4>1. B \subseteq A \cup {c}
        BY <1>1, <3>4, <3>7, TableShrinks DEF Admitted
      <4>2. Cardinality(A) + 1 <= Budget
        BY <1>4, <2>1, <3>7 DEF CreatePromise
      <4>3. IsFiniteSet(A) /\ Cardinality(A) \in Nat /\ Cardinality(B) \in Nat
        BY AdmittedCount
      <4>4. /\ IsFiniteSet(A \cup {c})
            /\ Cardinality(A \cup {c}) \in {Cardinality(A), Cardinality(A) + 1}
        <5> HIDE DEF A
        <5> QED BY <4>3, FS_AddElement
      <4>5. Cardinality(B) <= Cardinality(A \cup {c})
        <5> HIDE DEF A, B
        <5> QED BY <4>1, <4>4, FS_Subset
      <4>6. Cardinality(B) + 0 <= Budget
        <5> HIDE DEF A, B
        <5> QED BY <4>2, <4>3, <4>4, <4>5, BoundAssumption
      <4>7. Fits(0)'
        BY <4>6 DEF Fits
      <4>8. /\ \A j \in Inst : create'[j].pc \notin {"checked", "matched", "inserted", "rollback", "restore"}
            /\ \A o \in Op : op'[o].pc # "acquire"
            /\ recon'.pc \in {"idle", "wait"}
        BY <1>1, <1>2, <1>3, <2>1, <2>2, HolderAlone
      <4> QED
        BY <3>5, <4>7, <4>8, NoPromises
    <3> QED
      BY <3>1, <3>6, <3>7
  <2> QED
    BY <2>3, <2>5, <2>6
<1> QED
  BY <1>6, <1>7, <1>8, <1>9, <1>10, <1>11, <1>12 DEF CreateStep

\* A restart checks, grants, or gives back what it was granted.
LEMMA OpKeeps ==
  ASSUME CapacityInv, NEW o \in Op,
         OpStep(o) \/ \E k \in Requests, i \in Inst : OpRequest(o, k, i)
  PROVE  WarmLeaseInv' /\ CapacityPromisesKept'
<1> DEFINE i == op[o].inst
<1>1. /\ TypeOK /\ LockInv /\ WarmLeaseInv /\ CapacityPromisesKept
      /\ rt \in [Owner -> Lease] /\ op \in [Op -> Handler]
      /\ op[o].pc # "idle" => i \in Inst /\ i \in Owner
  BY DEF CapacityInv, TypeOK, Owner
<1>2. UNCHANGED <<create, recon>>
  BY DEF OpStep, OpRequest, RestartCheck, RestartAcquire, OpVm, OpCommit, OpPost,
     RestartUndo, OpFrame
<1>3. \A p \in Op : p # o => op'[p] = op[p]
  BY <1>1 DEF OpStep, OpRequest, RestartCheck, RestartAcquire, OpVm, OpCommit, OpPost,
     RestartUndo
<1>4. ASSUME rt' = rt \/ (i \in Inst /\ rt' \in {release_lease(i), StrayLease(i)}),
             RestartPromise(o)'
      PROVE  WarmLeaseInv' /\ CapacityPromisesKept'
  <2> i \in Inst => i \in Owner
    BY DEF Owner
  <2>1. AdmittedLeases(rt') \subseteq Admitted /\ Tame(rt')
    BY <1>1, <1>4, TableShrinks, TableTame DEF Admitted, Tame
  <2>2. WarmLeaseInv'
    BY <1>1, <1>4, WarmTables DEF WarmLeaseInv, Warm
  <2>3. \A p \in Op : op'[p] = op[p] \/ RestartPromise(p)'
    BY <1>3, <1>4
  <2> QED
    BY <1>1, <1>2, <2>1, <2>2, <2>3, ShrinkKeepsPromises
<1>5. ASSUME NEW k \in Requests, NEW j \in Inst, OpRequest(o, k, j)
      PROVE  WarmLeaseInv' /\ CapacityPromisesKept'
  <2>1. rt' = rt
    BY <1>5 DEF OpRequest, dbVars
  <2>2. op'[o].pc # "acquire"
    BY <1>1, <1>5 DEF OpRequest, IdleOp
  <2> QED
    BY <1>4, <2>1, <2>2 DEF RestartPromise
<1>6. CASE RestartCheck(o)
  <2>1. rt' = rt
    BY <1>6 DEF RestartCheck, dbVars
  <2>2. CASE op' = [op EXCEPT ![o].pc = "flow"] \/ op' = [op EXCEPT ![o] = IdleOp]
    <3>1. op'[o].pc # "acquire"
      BY <1>1, <2>2 DEF IdleOp, Handler
    <3> QED
      BY <1>4, <2>1, <3>1 DEF RestartPromise
  <2>3. CASE \E m \in BOOLEAN : /\ check_capacity(m)
                                 /\ op' = [op EXCEPT ![o].pc = "acquire", ![o].matched = m]
    <3>1. PICK m \in BOOLEAN : /\ check_capacity(m)
                               /\ op' = [op EXCEPT ![o].pc = "acquire", ![o].matched = m]
      BY <2>3
    <3>2. op'[o].matched = m
      BY <1>1, <3>1 DEF Handler
    <3>3. m = FALSE => Fits(1)
      BY <1>1, <3>1, CheckPromises
    <3>4. Fits(1) => Fits(1)'
      BY <2>1 DEF Fits
    <3>5. RestartPromise(o)'
      BY <3>2, <3>3, <3>4 DEF RestartPromise
    <3> QED
      BY <1>4, <2>1, <3>5
  <2> QED
    BY <1>6, <2>2, <2>3 DEF RestartCheck
<1>7. CASE RestartAcquire(o)
  <2>1. op[o].pc = "acquire" /\ capLock = o /\ i \in Owner
    BY <1>1, <1>7 DEF RestartAcquire, LockInv
  <2>2. op'[o].pc # "acquire"
    BY <1>1, <1>7 DEF RestartAcquire, IdleOp, Handler
  <2>3. CASE rt' = rt
    BY <1>4, <2>2, <2>3 DEF RestartPromise
  <2>4. CASE rt' = create_lease(i, ~op[o].matched)
    <3>1. WarmLeaseInv'
      BY <1>1, <2>1, <2>4, WarmTables DEF WarmLeaseInv, Warm
    <3>2. op[o].matched \in BOOLEAN
      BY <1>1 DEF Handler
    <3>3. CASE op[o].matched = TRUE
      <4>1. rt' = create_lease(i, FALSE)
        BY <2>4, <3>3
      <4>2. AdmittedLeases(rt') \subseteq Admitted /\ Tame(rt')
        BY <1>1, <2>1, <4>1, TableShrinks, TableTame
      <4>3. \A p \in Op : op'[p] = op[p] \/ RestartPromise(p)'
        BY <1>3, <2>2 DEF RestartPromise
      <4> QED
        BY <1>1, <1>2, <3>1, <4>2, <4>3, ShrinkKeepsPromises
    <3>4. CASE op[o].matched = FALSE
      <4>1. rt' = create_lease(i, TRUE)
        BY <2>4, <3>4
      <4>2. AdmittedLeases(rt') \subseteq Admitted \cup {i}
        BY <1>1, <2>1, <4>1, TableShrinks
      <4>3. Fits(1)
        BY <1>1, <2>1, <3>4 DEF CapacityPromisesKept, RestartPromise
      <4>4. Fits(0)'
        BY <4>2, <4>3, GrantFits
      <4>5. /\ \A j \in Inst : create'[j].pc \notin {"checked", "matched", "inserted", "rollback", "restore"}
            /\ \A p \in Op : op'[p].pc # "acquire"
            /\ recon'.pc \in {"idle", "wait"}
        BY <1>1, <1>2, <1>3, <2>1, <2>2, HolderAlone
      <4> QED
        BY <3>1, <4>4, <4>5, NoPromises
    <3> QED
      BY <3>2, <3>3, <3>4
  <2> QED
    BY <1>7, <2>3, <2>4 DEF RestartAcquire
<1>8. CASE OpVm(o)
  <2>1. rt' = rt
    BY <1>8 DEF OpVm, dbVars
  <2>2. op'[o] \in {[op[o] EXCEPT !.pc = "commit"], [op[o] EXCEPT !.pc = "undo"], IdleOp}
    BY <1>1, <1>8 DEF OpVm
  <2>3. op[o] \in Handler
    BY <1>1
  <2>4. op'[o].pc # "acquire"
    BY <2>2, <2>3 DEF IdleOp, Handler
  <2> QED
    BY <1>4, <2>1, <2>4 DEF RestartPromise
<1>9. CASE OpCommit(o) \/ OpPost(o) \/ RestartUndo(o)
  <2>1. rt' = rt \/ (i \in Inst /\ rt' \in {release_lease(i), StrayLease(i)})
    BY <1>1, <1>9 DEF OpCommit, OpPost, RestartUndo
  <2>2. op'[o].pc # "acquire"
    BY <1>1, <1>9 DEF OpCommit, OpPost, RestartUndo, IdleOp, Handler
  <2> QED
    BY <1>4, <2>1, <2>2 DEF RestartPromise
<1> QED
  BY <1>5, <1>6, <1>7, <1>8, <1>9 DEF OpStep

\* The reconciler fixes its targets once, and every grant uses up one of them.
LEMMA ReconKeeps ==
  ASSUME CapacityInv, ReconStep
  PROVE  WarmLeaseInv' /\ CapacityPromisesKept'
<1>1. /\ TypeOK /\ LockInv /\ WarmLeaseInv /\ CapacityPromisesKept
      /\ rt \in [Owner -> Lease] /\ recon \in Reconciler /\ Claw \subseteq Owner
  BY DEF CapacityInv, TypeOK, Owner
<1>2. UNCHANGED <<create, op>>
  BY DEF ReconStep, ReconWake, ReconLock, ReconDecide, ReconLease, ReconRefill, ReconDone,
     ReconFrame, ReconTouches
<1>3. ASSUME AdmittedLeases(rt') \subseteq Admitted, Tame(rt'), Warm(rt'), ReconPromise'
      PROVE  WarmLeaseInv' /\ CapacityPromisesKept'
  BY <1>1, <1>2, <1>3, ShrinkKeepsPromises DEF Warm, WarmLeaseInv
<1>4. Warm(rt)
  BY <1>1 DEF Warm, WarmLeaseInv
<1>5. CASE ReconWake \/ ReconLock \/ ReconDone
  <2>1. rt' = rt /\ recon'.pc \in {"wait", "probe", "idle"}
    BY <1>1, <1>5 DEF ReconWake, ReconLock, ReconDone, IdleRecon, Reconciler
  <2> QED
    BY <1>3, <1>4, <2>1 DEF Admitted, Tame, ReconPromise
<1>6. CASE ReconDecide
  <2>1. PICK t \in RefillChoices(rt') : recon' = [recon EXCEPT !.pc = "fill", !.targets = t]
    BY <1>6 DEF ReconDecide
  <2>2. PICK freed \in SUBSET Claw :
           rt' = [o \in Owner |-> IF o \in freed THEN NoLease ELSE rt[o]]
    BY <1>6 DEF ReconDecide, release_orphaned_warm_pool_leases
  <2>3. AdmittedLeases(rt') \subseteq Admitted
    BY <2>2 DEF AdmittedLeases, CheckedLeases, DoubledLeases, ActiveLeases, Admitted, NoLease
  <2>4. Warm(rt') /\ Tame(rt')
    BY <1>1, <1>4, <2>2, FiniteAssumption DEF Warm, Tame, NoLease, Owner
  <2>5. recon'.targets = t
    BY <1>1, <2>1 DEF Reconciler
  <2> DEFINE A == AdmittedLeases(rt')  L == ActiveLeases(rt')
  <2>6. Cardinality(A) \in Nat /\ Cardinality(L) \in Nat /\ Cardinality(A) <= Cardinality(L)
    <3>1. L \subseteq Owner /\ A \in SUBSET L
      BY DEF AdmittedLeases, CheckedLeases, DoubledLeases, ActiveLeases
    <3>2. IsFiniteSet(Owner)
      BY FiniteAssumption, FS_Union DEF Owner
    <3>3. IsFiniteSet(L)
      BY <3>1, <3>2, FS_Subset
    <3> QED
      BY <3>1, <3>3, FS_Subset, FS_CardinalityType
  <2>7. CASE t = {}
    <3>1. Cardinality(t) = 0
      BY <2>7, FS_EmptySet
    <3>2. Cardinality(Admitted) \in Nat /\ Cardinality(A) <= Cardinality(Admitted)
      BY <2>3, AdmittedCount DEF Admitted
    <3>3. Cardinality(Admitted) + 0 <= Budget
      BY <1>1 DEF CapacityPromisesKept, Fits, Admitted
    <3>4. Cardinality(A) + Cardinality(t) <= Budget
      <4> HIDE DEF A
      <4> QED BY <2>6, <3>1, <3>2, <3>3, BoundAssumption
    <3> QED
      BY <1>3, <2>3, <2>4, <2>5, <3>4 DEF ReconPromise, Fits
  <2>8. CASE Cardinality(L) + Cardinality(t) <= Budget
    <3>1. Cardinality(t) \in Nat
      <4>1. t \subseteq Claw
        BY <1>1 DEF RefillChoices, TypeOK
      <4> QED
        BY <4>1, FiniteAssumption, FS_Subset, FS_CardinalityType
    <3>2. Cardinality(A) + Cardinality(t) <= Budget
      <4> HIDE DEF A, L
      <4> QED BY <2>6, <2>8, <3>1, BoundAssumption
    <3> QED
      BY <1>3, <2>3, <2>4, <2>5, <3>2 DEF ReconPromise, Fits
  <2> QED
    BY <2>7, <2>8 DEF RefillChoices, sum_active_runtime_leases
<1>7. ASSUME NEW c \in Claw, ReconLease(c) PROVE WarmLeaseInv' /\ CapacityPromisesKept'
  <2>1. recon.pc = "fill" /\ c \in recon.targets /\ c \in Owner
    BY <1>1, <1>7 DEF ReconLease
  <2>2. PICK k \in Nat : /\ k = Cardinality(recon.targets \ {c})
                         /\ Cardinality(recon.targets) = k + 1
    <3> DEFINE n == Cardinality(recon.targets \ {c})
    <3>1. IsFiniteSet(recon.targets) /\ Cardinality(recon.targets) \in Nat
      BY <1>1, TargetCount
    <3>2. IsFiniteSet(recon.targets \ {c}) /\ n = Cardinality(recon.targets) - 1
      BY <2>1, <3>1, FS_RemoveElement
    <3>3. n \in Nat
      BY <3>2, FS_CardinalityType
    <3>4. Cardinality(recon.targets) = n + 1
      <4> HIDE DEF n
      <4> QED BY <3>1, <3>2, <3>3
    <3> QED
      BY <3>3, <3>4
  <2>3. Fits(k + 1)
    BY <1>1, <2>1, <2>2 DEF CapacityPromisesKept, ReconPromise
  <2>4. recon'.targets = recon.targets \ {c}
    <3>1. \/ recon' = [pc |-> "refill", targets |-> recon.targets \ {c}, cur |-> c]
          \/ recon' = [recon EXCEPT !.targets = recon.targets \ {c}]
      BY <1>7 DEF ReconLease
    <3> QED
      BY <1>1, <3>1 DEF Reconciler
  <2>5. rt' = rt \/ rt' = create_lease(c, TRUE)
    BY <1>7 DEF ReconLease
  <2>6. AdmittedLeases(rt') \subseteq Admitted \cup {c}
    BY <1>1, <2>1, <2>5, TableShrinks DEF Admitted
  <2>7. Warm(rt')
    BY <1>1, <1>4, <2>1, <2>5, WarmTables
  <2>8. Fits(k)'
    BY <2>3, <2>6, GrantFits
  <2>9. Fits(Cardinality(recon.targets))'
    BY <2>2, <2>4, <2>8 DEF Fits
  <2>10. Fits(0)'
    <3>1. Cardinality(AdmittedLeases(rt')) \in Nat
      BY AdmittedCount
    <3>2. Cardinality(AdmittedLeases(rt')) + k <= Budget
      BY <2>8 DEF Fits
    <3> QED
      BY <3>1, <3>2, BoundAssumption DEF Fits
  <2>11. /\ \A i \in Inst : create'[i].pc \in {"idle", "admitted"}
         /\ \A o \in Op : op'[o].pc # "acquire"
    BY <1>1, <1>2, <2>1, HolderAlone DEF LockInv
  <2> QED
    BY <2>7, <2>9, <2>10, <2>11
       DEF CapacityPromisesKept, CreatePromise, RestartPromise, ReconPromise, Warm, WarmLeaseInv
<1>8. CASE ReconRefill
  <2>1. recon.pc = "refill" /\ recon.cur \in Owner
    BY <1>1, <1>8 DEF ReconRefill, TypeOK
  <2>2. rt' = rt \/ rt' = release_lease(recon.cur)
    BY <1>8 DEF ReconRefill
  <2>3. AdmittedLeases(rt') \subseteq Admitted /\ Warm(rt') /\ Tame(rt')
    BY <1>1, <1>4, <2>1, <2>2, TableShrinks, TableTame, WarmTables DEF Admitted, Tame
  <2>4. recon'.targets = recon.targets
    BY <1>1, <1>8 DEF ReconRefill, Reconciler
  <2>5. Fits(Cardinality(recon.targets))
    BY <1>1, <2>1 DEF CapacityPromisesKept, ReconPromise
  <2>6. Fits(Cardinality(recon.targets))'
    <3> DEFINE a == Cardinality(AdmittedLeases(rt))
               b == Cardinality(AdmittedLeases(rt'))
               t == Cardinality(recon.targets)
    <3>1. a \in Nat /\ b \in Nat /\ b <= a /\ t \in Nat
      BY <1>1, <2>3, AdmittedCount, TargetCount DEF Admitted
    <3>2. a + t <= Budget
      BY <2>5 DEF Fits
    <3>3. b + t <= Budget
      <4> HIDE DEF a, b, t
      <4> QED BY <3>1, <3>2, BoundAssumption
    <3> QED
      BY <2>4, <3>3 DEF Fits
  <2> QED
    BY <1>3, <2>3, <2>6 DEF ReconPromise
<1> QED
  BY <1>5, <1>6, <1>7, <1>8 DEF ReconStep

-----------------------------------------------------------------------------
(* The theorem.                                                            *)

\* The invariant is inductive.
LEMMA CapacityInductive ==
  ASSUME CapacityInv, [Next]_vars
  PROVE  CapacityInv'
<1>1. TypeOK'
  BY NextTypeOK DEF CapacityInv
<1>2. CASE Next
  <2>1. LockInv'
    BY <1>2, LockPreserved DEF CapacityInv
  <2>2. WarmLeaseInv' /\ CapacityPromisesKept'
    BY <1>2, CreateKeeps, WorkerKeeps, OpKeeps, ReaperKeeps, ReconKeeps, EnvKeeps, BootKeeps
       DEF Next
  <2> QED
    BY <1>1, <2>1, <2>2 DEF CapacityInv
<1>3. CASE UNCHANGED vars
  <2>1. UNCHANGED <<rt, capLock, create, op, recon>>
    BY <1>3 DEF vars
  <2>2. LockInv'
    BY <2>1, LockFrame DEF CapacityInv
  <2>3. WarmLeaseInv' /\ CapacityPromisesKept'
    BY <2>1, QuietStep DEF CapacityInv, Admitted, Warm, WarmLeaseInv, Tame
  <2> QED
    BY <1>1, <2>2, <2>3 DEF CapacityInv
<1> QED
  BY <1>2, <1>3

\* It holds initially: nothing is leased and nobody holds the lock.
LEMMA CapacityInitially ==
  ASSUME Init
  PROVE  CapacityInv
<1>1. TypeOK
  BY InitTypeOK
<1>2. LockInv /\ WarmLeaseInv
  BY DEF Init, LockInv, WarmLeaseInv, IdleCreate, IdleOp, IdleRecon, NoLease, Owner
<1>3. AdmittedLeases(rt) = {}
  BY DEF Init, AdmittedLeases, CheckedLeases, DoubledLeases, ActiveLeases, NoLease
<1>4. Fits(0)
  BY <1>3, FS_EmptySet, BoundAssumption DEF Fits
<1>5. CapacityPromisesKept
  BY <1>4 DEF Init, CapacityPromisesKept, CreatePromise, RestartPromise, ReconPromise,
     IdleCreate, IdleOp, IdleRecon
<1> QED
  BY <1>1, <1>2, <1>5 DEF CapacityInv

\* For any number of instances, claw types, handlers, faults and crashes, and
\* for every budget: what capacity checks promise to creates, restarts and the
\* reconciler is there when they use it.
THEOREM PromisesKept == Spec => []CapacityPromisesKept
<1>1. Init => CapacityInv
  BY CapacityInitially
<1>2. CapacityInv /\ [Next]_vars => CapacityInv'
  BY CapacityInductive
<1>3. CapacityInv => CapacityPromisesKept
  BY DEF CapacityInv
<1> QED
  BY <1>1, <1>2, <1>3, PTL DEF Spec

\* ... and so the leases granted on a capacity check never exceed the budget, but for
\* those that a rollback failed to release and gave back to the warm pool.
THEOREM CapacityNeverOvercommitted == Spec => []AdmittedWithinBudget
<1>1. CapacityPromisesKept => AdmittedWithinBudget
  <2> SUFFICES ASSUME CapacityPromisesKept PROVE AdmittedWithinBudget
    OBVIOUS
  <2> DEFINE A == AdmittedLeases(rt)  D == DoubledLeases(rt)  S == CheckedLeases(rt)
  <2>1. D \subseteq S /\ A = S \ D /\ S \subseteq Owner
    BY DEF AdmittedLeases, DoubledLeases, CheckedLeases, ActiveLeases
  <2>2. IsFiniteSet(Owner)
    BY FiniteAssumption, FS_Union DEF Owner
  <2>3. IsFiniteSet(S) /\ IsFiniteSet(D)
    BY <2>1, <2>2, FS_Subset
  <2> HIDE DEF A, D, S
  <2>4. S = A \cup D /\ IsFiniteSet(A) /\ A \cap D = {}
    BY <2>1, <2>3, FS_Subset
  <2>5. Cardinality(S) = Cardinality(A) + Cardinality(D)
    <3>1. Cardinality(A \cup D) = Cardinality(A) + Cardinality(D) - Cardinality(A \cap D)
      BY <2>3, <2>4, FS_Union
    <3>2. Cardinality(A \cap D) = 0
      BY <2>4, FS_EmptySet
    <3>3. Cardinality(A) \in Nat /\ Cardinality(D) \in Nat
      BY <2>3, <2>4, FS_CardinalityType
    <3> QED
      BY <2>4, <3>1, <3>2, <3>3
  <2>6. Cardinality(A) \in Nat /\ Cardinality(D) \in Nat /\ Cardinality(A) + 0 <= Budget
    BY <2>3, <2>4, FS_CardinalityType DEF CapacityPromisesKept, Fits, A
  <2>7. Cardinality(S) <= Budget + Cardinality(D)
    BY <2>5, <2>6, BoundAssumption
  <2> QED
    BY <2>7 DEF AdmittedWithinBudget, S, D
<1> QED
  BY <1>1, PromisesKept, PTL

=============================================================================
