# theyOS admin backend: TLA+ models, checks and proofs

theyOS runs *claws* (agents, each in a VM of its own) on a host. The admin
backend (`src/admin/rust/server-rs`) creates, stops, restarts, rebuilds and
deletes their instances, decides whether there is capacity for them, keeps a
pool of warm VMs, installs and uninstalls claw types, and recovers all of this
after a crash. Hosts form *households*: a machine joins one through an install
transaction, and sessions between machines consume signed intents once and are
signed with a delegated key whose generations a control record governs. The
shells of local terminals belong to a supervisor process of their own. This
directory models these parts, model-checks them with TLC and proves their main
safety properties with TLAPS.

Paths below are relative to `src/admin/rust/` unless they start with `src/`.

| file | what it is |
|---|---|
| `InstanceLifecycle.tla` | instances, leases, jobs and everything that acts on them |
| `JobLifecycle.tla` | abstract specification: what a create job may do |
| `ClawInstall.tla` | claw store, install and uninstall jobs, the install worker |
| `HouseholdInstall.tla` | the install transaction of a machine that joins a household, its recovery, teardown |
| `AtomicInstall.tla` | abstract specification: what an installation promises |
| `NonceLedger.tla` | the replay ledger of connection intents |
| `PtyBroker.tla` | the PTY supervisor: execution tickets, session registry, output archives |
| `SignerControl.tla` | the control record of the session signer, its keys, its collector and signing |
| `MCInstance.tla`, `MCClaw.tla`, `MCHousehold.tla`, `MCNonce.tla`, `MCPty.tla`, `MCSigner.tla` | small sets for TLC |
| `*.cfg` | one TLC run each |
| `InstanceLifecycle_proofs.tla` | type correctness of `InstanceLifecycle` |
| `InstanceCapacity_proofs.tla` | no over-commit, for every budget |
| `InstanceJobs_proofs.tla` | `InstanceLifecycle` implements `JobLifecycle`; leases without a row |
| `ClawInstall_proofs.tla` | type correctness and four invariants of `ClawInstall` |
| `HouseholdInstall_proofs.tla` | every safety property of `HouseholdInstall`; it implements `AtomicInstall` |
| `NonceLedger_proofs.tla` | every safety property of `NonceLedger`, and the fence of a teardown |
| `PtyBroker_proofs.tla` | every safety property of `PtyBroker` |
| `SignerControl_proofs.tla` | every safety property of `SignerControl` |
| `PROJECT.json` | components, runs, mutants, map to the source, findings, hazards, theorems |

## 1. Inventory

### The instance core

**State.** The `instances` table (status, `deleted_at`), the `resource_leases`
table (a runtime and a storage lease per instance, one runtime lease per warm
slot; a unique index allows one unreleased lease per owner and kind), the `jobs`
table, the claw store (a map with a JSON file behind it), the maintenance file,
and what the VM runner has on the host (VMs and state directories).

**Tasks.** All in one process, over a multi-threaded runtime:

| task | code | what it does |
|---|---|---|
| create request | `server-rs/src/instance_create.rs` | gate, conflict, capacity check, insert row and leases, queue a job, roll back |
| jobs worker | `server-rs/src/jobs_worker.rs`, `executor-rs/src/flows/create.rs` | recover, claim, maintenance gate, create flow, mark job and row |
| stop, restart, rebuild, delete | `server-rs/src/handlers_instances.rs`, `executor-rs/src/flows/` | the flow under the executor mutex; restart also checks and leases capacity |
| lease reaper | `server-rs/src/lease_reaper.rs` | releases provisioning leases that ran out |
| warm-pool reconciler | `server-rs/src/warm_pool_reconciler.rs` | releases orphaned warm leases, leases and fills empty slots |
| install, uninstall requests | `server-rs/src/claw_store_service.rs` | queue a job, then mark the claw store, roll the job back on failure |
| install worker | `server-rs/src/install_worker.rs` | reset, claim, install or remove artifacts, mark store and job |
| start-up | `server-rs/src/main.rs`, `server-rs/src/reconcile.rs` | snapshot, sweep, reconcile, auto-restart, seed, start the workers |

**Interaction.** Two locks: `capacity_lock` (asynchronous, FIFO) from capacity
check to grant, and the executor mutex around each flow. The reconciler holds
the first while it waits for the second. The tables have no transaction across
calls, except the insert of a row with its leases. The claw store and the jobs
table are two stores with no common transaction at all.

**What is hard here.** Check and use of capacity with table calls and lock waits
in between; a lease that expires, is renewed or is reaped while its flow is still
at work; a warm lease that is released without the lock; rollbacks that run half
way; crashes between any two table calls; two recoveries at start-up that run
beside request handlers and beside each other; work queued before the store that
describes it is told.

**What makes it correct.** Checked grants stay within the budget; a create job
runs at most once and settles; a lease that is not final goes away or becomes
final; no request waits for ever; the claw store, its file and the jobs table
agree as far as the code says they do; a job of a previous process is never run.

### Joining a household

**State.** The state root of a machine: the lifecycle generation, the install
breadcrumb, the terminal record, the delivery record, the bootstrap state, the
household directory (certificates, machine id, shard, and the household record,
which is the commit marker), and the pairing window of one generation. The daemon
and the install command each keep a window, a bootstrap state and an identity in
memory.

**Operations.** Start-up with its recoveries, `install` (stage, wait, serve), the
finalize request of the founder (look up a retained result, or install), the
reissue of a pairing code, the local stage route, teardown. All run under the
exclusive lifecycle lock of the state root.

**Interaction.** The founder posts the finalize request over the network and
retries it; only a process that started after the generation was rotated answers
with the Ack. The nonce ledger takes the same lifecycle lock, shared.

**What is hard here.** Seven files in two directories, each written by rename and
barrier; a kill or a power loss between any two of them, or between a rename and
its barrier; a process that holds the window of a retired generation; a lost Ack;
other commands on the same state root.

**What makes it correct.** The installation happens entirely or not at all; no
start-up refuses what a crash left; what the founder was told survives a power
loss; a committed household is answered to whoever restarts the daemon and asks
again for long enough.

### The nonce ledger

**State.** One record of consumed nonces, a marker in the lock file (initializing,
clean, dirty), a worker with a queue of one request in each process, the trusted
wall floor. **Operations.** Open (initialise or recover), consume (queue, locks,
load, decide, dirty, replace, clean), give up at a deadline, teardown of the
household. **Interaction.** Processes share the files through the lock; sessions
reach the worker through the queue; a teardown detaches the directory.
**What is hard.** A visible record that was never synced; a barrier that fails
after the rename; a request that is served after its session gave up, or with a
floor that time has overtaken; a crash in the first initialisation.
**What makes it correct.** A nonce is committed once and stays consumed; a session
that was refused has not consumed; no fault leaves files that an open refuses.

### The PTY supervisor

**State.** Ticket files (one per intent), the registry (current session of each
conversation, replaced ones, intents whose CREATE can reconnect), the sessions
with their processes and reader threads, the output logs.
**Operations.** issue intent, CREATE, CANCEL, CLOSE, ATTACH, the pruning of the
registry and the archives (at every CREATE and every 60 s), start of the broker.
**Interaction.** The engine and the apps send one request per connection and may
give up on it; the broker outlives them. Requests are serialised by the registry
mutex; reader threads, kill escalations and attached streams are not.
**What is hard.** A CREATE that arrives after its CANCEL, twice, or after a
restart; a death between the consumption of a ticket and the spawn; barriers that
fail; collection of tickets while sessions run; pruning beside sessions that drain
and streams that replay.
**What makes it correct.** A command starts at most once; an answered cancel holds;
a shell that runs can be reached and reconnected to; output that is written or
read is not removed; the slots of completed sessions come back.

### The signer control record

**State.** One record per identity and purpose, replaced as a whole on disk: epoch,
high-water mark of the generations, authority (empty, active, revoked), live
generations with their delegations, the pending operation, the keys to be
collected, the results of recent requests; and the keys in a secret backend.
**Operations.** Record an intent, create and observe its key, activate, revoke,
reactivate, expire, acknowledge a result; the tick of the collector (inspect,
destroy, resolve) and its removal pass; load a capability and sign.
**Interaction.** Commits hold an exclusive guard, a signature holds it shared;
backend and roster are called with no guard held; a lease on the roster covers the
commit of an activation and a signature.
**What is hard.** A commit that fails after its rename; tokens, capabilities and
inspections that are stale when used; a key that is created after its operation was
revoked; a key that is destroyed for the sake of a record that a crash takes back;
lists at their limit.
**What makes it correct.** The record stays readable; a revocation always goes
through and holds; no live generation loses its key and no key is forgotten; one
generation, one key.

### The rest of the repository

The rest of `household-rs` (machine and device pairing on the founder's side,
session registry, roster, secure upgrade, owner events), `mesh-session-core-rs`
(session authentication and rekey), `vmrunner-rs` and
`vmrunner-macos-rs` (VM creation, warm slots), the segmented log and the in-process
terminals of `terminal-rs`, `session-rs`, key stores, the LLM proxy, builders,
updaters, the network bridges and relays, the launcher and the frontend.
`PROJECT.json` lists each with what is modelled of it or why it is not.

## 2. The models

A step is one stretch of code between two points where another task may run: a
call on a table, a lock acquisition, or a call to the VM runner. Where one flow
makes consecutive writes under the executor mutex that nobody else can tell
apart, they are one step.

### InstanceLifecycle

| variables | code |
|---|---|
| `row`, `deleted` | `instances.status`, `deleted_at` |
| `rt`, `storage` | unreleased runtime and storage leases (`store-rs/src/instance_db.rs`) |
| `job` | the `create_instance` job of each instance (`jobs-rs/src/lib.rs`) |
| `vm`, `disk` | what the VM runner has on the host (external) |
| `installed`, `uninst`, `maint` | Ready claw types, uninstalls under way, maintenance Active |
| `capLock`, `execLock` | holders of `capacity_lock` and of the executor mutex |
| `mode`, `auto` | start-up phase; the auto-restart task |
| `create`, `worker`, `op`, `recon`, `reaper` | program counters and locals of the tasks |
| `left`, `ran` | what is left of the bounds and which were used; history: jobs whose flow was started |

Abstractions, and why they are sound for the properties:

* CPU and RAM are counted in slots, one per lease. Every formula of
  `check_capacity` is a sum of leases compared with a budget.
  Disk, macOS slots and host memory may refuse a request at any time
  (`CreateCheck`, `RestartCheck` always have a refusing branch).
* A request is *slot sized* or not; only slot-sized ones match a warm lease.
* A lease is without expiry (`final`), with one in the future (`ttl`), or past it
  (`expired`). No call in a flow has a deadline, so a TTL may run out at any
  moment: `Expire` is not tied to a clock.
* `checked` of a lease is history: its grant rests on a capacity check that
  counted it. Leases of the auto-restart task, of restarts that were admitted as
  warm matches, of creates whose warm lease vanished between check and insert, and
  leases that came back to life after they expired are not `checked`. `stray` is
  history too: `kept` if a release of the lease was tried, failed and will not be
  tried again (`RollbackRelease`, `RestartUndo`), `doubled` if the rollback then gave
  the slot back to the warm pool as well (`instance_create.rs:64-87`).
* Every call on a table may fail (`TableFault`), and what the code does then is part
  of the action: create rolls back, a rollback and a restart's undo leave the lease,
  the worker logs and goes on with the job left running, its recovery, its put-back
  and its marks included, start-up and reaper skip the row. A read that fails and
  changes nothing is no step.
* The reconciler reads the blocks on creation (maintenance) before it waits for the
  capacity lock and not again (`ReconWake`, `ReconLock`). The warm pool is taken as enabled
  (`warm_pool_reconciler.rs:28-48`); without it there is no reconciler and no warm
  lease.
* The statuses are what `update_status` writes; phases and messages are dropped.
* The VM runner is external: a failing Create may leave a VM or a directory, a
  delete may leave either, stop, restart and rebuild may fail.
* A crash loses tasks and locks and keeps the tables and the files; VMs survive
  unless the host went down too.

### JobLifecycle

What the clients of the jobs table rely on: queued once, one job worked on at a
time, started at most once, deferred only before it starts, finished only after
it started, failed by recovery, never changed afterwards. A job may be abandoned: a
crash, or a put-back or final write that fails (`jobs_worker.rs:104-113`, `336-352`,
`417-430`), leaves it running; the worker takes up others but never this one again,
and a later start's recovery fails it. `JobsImplemented` in `InstanceLifecycle` is
this specification with `status <- job`, `active <- AtWork` (the job in the worker's
hands) and `started <- ran`.

### ClawInstall

| variables | code |
|---|---|
| `store`, `file` | `ClawStore.state` and its JSON file (`claw-rs/src/store.rs`) |
| `artifacts` | claw types whose golden on disk is consistent |
| `jobs` | install and uninstall rows, with the second of `created_at` |
| `caller` | `install_claw`, `uninstall_claw` under way |
| `worker` | the install worker; `seen` is the status that a message update has read |
| `seeded`, `swept` | `seed_from_assets` and the jobs worker's `fail_running_jobs` have run |
| `inst`, `creating` | instances of a claw type, creates past the availability gate |
| `left`, `behind`, `stale` | bounds; history: a start-up write of the file failed; jobs of earlier processes |

`set_state` writes the file before it changes the map; `seed_from_assets` and
`reset_stale_installing` change the map first and only log a failing write. The
household router is up before any recovery (`server-rs/src/main.rs:385`), so
requests are not guarded by the start-up phase. Download, verification and build
are abstracted to whether they leave consistent artifacts. A message update reads
the whole row and writes all of it back, so its two halves are two steps.

`inst` and `creating` are there because an uninstall counts instances: the count,
the job and the mark are three steps (`claw_store_service.rs:158-188`), and a
create reads the store in its availability gate long before it inserts its row
(`instance_create.rs:368-440`, `615-662`). A gate that passed, an uninstall that
counted nothing, then the insert: the worker removes the artifacts of a claw type
that has an instance, which `count_by_claw_type` is meant to prevent
(`store-rs/src/instance_db.rs:2845`). The behaviour is in the model; no property
is stated that it would violate.

### HouseholdInstall and AtomicInstall

| variables | code |
|---|---|
| `vis`, `dur` | the files as processes read them, and as a power loss would leave them |
| `run` | the transaction under the lifecycle lock: process, operation, step, request |
| `mem` | window, bootstrap state and identity in the daemon and the install command |
| `minted` | generations drawn (`rotate_lifecycle_generation`, reservation of the terminal one) |
| `used`, `sent`, `heard` | requests shown to the founder; Acks given away; Acks that arrived |
| `refused`, `foreign` | history: a recovery failed closed; a command swept evidence |

* A write has three outcomes: renamed and synced, not done, renamed and not synced.
  A kill between rename and barrier is the third outcome followed by a crash.
  Entries of the state root share one barrier; what lies in the renamed directory
  goes with its entry.
* The bootstrap states before an installation are one state (`early`), and
  `AwaitingOwner` counts as Staging, `Aborted` as Idle. `Recovering` is a state of
  the owner's flow and is left out.
* A request stands for a join request together with its finalize request, marker
  and Ack bytes; requests of another household differ from it in nothing else.
* The install command, once it has staged, serves like the daemon.
* `Ack` sets the bootstrap state in memory to Ready only where the process goes
  through the restart branch (step `publish`, `handlers_pair_machine.rs:1468-1498`);
  a process that replays an Ack for a result it finds on disk leaves its memory alone.
* `RestartDaemon` is the operator's. The daemon's `runtime_signal` is `None`
  (`household_bootstrap.rs:2290`, `2425`): it answers that a restart is required and
  serves on. Only the install command re-executes itself (`install_cli.rs:931-939`).
* In `FirstAttempt` the failure of `verify_installed_household_for_finalize`
  (`handlers_pair_machine.rs:1664-1675`) and the answer Committed without an Ack end
  like any other failed attempt: the founder has no Ack and may ask again.
* The local stage route (`handlers_bootstrap.rs:1161`) takes the lifecycle lock
  exclusively and then calls a function that takes it shared through another
  descriptor. It waits for itself until its 30 s run out, and answers an error:
  `LocalStageTimeout` has no other outcome.

`AtomicInstall` is one variable for the household, one for its completion and the
set of requests the founder was told of. `InstallImplemented` maps `dur` to it:
the promotion of the marker installs, Ready completes, the rename of a teardown
removes.

### NonceLedger

| variables | code |
|---|---|
| `vis`, `dur` | record and marker (`household-rs/src/mesh_intent_nonce_ledger.rs`) |
| `holder`, `torn` | the ledger lock; the household was detached by a teardown |
| `proc`, `queue` | worker and one-place queue of each process |
| `caller` | sessions in `consume`, with the floor they took on entry (`intent_nonce_ledger_bridge.rs`) |
| `clock` | the trusted wall floor of the roster |
| `won`, `seen`, `maybe`, `gone`, `top`, `stale`, `corrupt` | history: answers, removed rows, overtaken floors, a failed open |

One nonce per intent. The marker is truncated and rewritten in place, so a fault
or a power loss may leave it empty or cut; the record is replaced through a
temporary file. The generation counter of the record, the temporary file, the
creation of lock file and anchor, and the reopening inside one process are folded
into the steps around them.

### PtyBroker

| variables | code |
|---|---|
| `ticket`, `owner` | ticket files and their conversation (`terminal-rs/src/supervisor_intents.rs`) |
| `after` | the contents a power loss may leave of each ticket |
| `sessions`, `retiring`, `cache` | `Registry` (`terminal-rs/src/supervisor.rs`) |
| `lock` | a CREATE between `consume` and the registration of its session |
| `st`, `intentOf` | closed flag and completion of each `PtySession`; the intent of its Entry |
| `reader` | a stream that holds the Entry |
| `dirs` | output logs on disk (`supervisor_archives.rs`) |
| `up`, `left` | a broker serves; bounds |
| `cancelled`, `barrierLost` | history: answered cancels; a failed barrier of a collection |

* Callers have no state: a CREATE or CANCEL may be handled at any time after the
  intent was issued, any number of times, which covers late, lost, repeated and
  reordered requests. A refused request leaves the state as it is (the pruning
  before some refusals is `Maintain`), so it is not a step. A CREATE with another
  digest is refused that way.
* `after` is a set: the record of an issued ticket is never synced, so it may be
  missing, incomplete or there; a rename adds a content, a barrier of the directory
  removes the old ones.
* Under the registry mutex the flags of sessions only move one way, so the checks
  of a CREATE and its insertion are one step but for the spawn.
* File ages choose what is collected first; clocks may be wrong, so any choice is
  allowed. The byte budget of the archive may remove more than the count.
* A death of the broker closes the terminals, which hangs up their shells; a power
  loss may lose any log. The orderly drop of the broker (`Drop`) only happens when
  an embedding test aborts the service and is left out; a second broker is kept
  out by `.broker.lock`.
* The offsets of a replay are left out: a stream is attached or gone.
* A closed session drains (`KillDrained`) or does not. `close` signals the processes
  listed on the terminal and escalates only while the child is in its slot
  (`pty.rs:595-626`); the reader thread takes the child and waits for it
  (`pty.rs:1017-1024`), and a descendant in a session of its own that keeps the
  terminal open keeps the master from its end (`pty.rs:984-985`).

### SignerControl

| variables | code |
|---|---|
| `disk`, `survivors` | the record that is read, and the records a crash may leave (`mesh-session-control-model-rs/src/store.rs`, `commit.rs`) |
| `present`, `made`, `lagging` | keys in the secret backend; how many each slot has had; keys an inspection may still miss |
| `worker` | callers that create the key of an operation they were given, and record it (`KeyObserved`) |
| `act`, `gc`, `signer` | `activate_from_key_observed`, `gc_worker_tick`, `load_signer_capability` with `sign_checked` |
| `roster`, `now` | revision and standing of the delegating machine; the clock |
| `told`, `bound`, `late` | history: answers given; keys that were live; keys created after a preemption |

* Each transition of `apply` is an operator from a record to the set of its
  results. A transition that is refused changes nothing and is not a step.
* A commit is one step: it holds the exclusive guard from its reading to its last
  attempt. When all attempts fail, the record is unchanged, or renamed and not known
  to be synced. A later commit that succeeds settles which record survives.
* Checks that hold no guard are one step with the reading they belong to, since the
  code compares what they rest on (revision of the roster, operation, generation)
  under the lease and the guard before it acts.
* The revision of the record only serves to refuse the token of a worker; each
  worker keeps whether its token is still current.
* The backend follows the contract of the `SecretBackend` trait: a key is created
  once while it is there, an answer may be lost, an inspection may miss a new key
  until the tick is over or find the slot ambiguous, a destruction may be incomplete
  or meet another key. The production roster (`keystore-rs/src/mesh_session_bridge.rs`)
  grants no lease yet; the model follows the `RosterLookup` trait.
* An activation that finds itself recorded answers Ok from an unguarded reading
  (`activate.rs:134-146`), without the write that `commit.rs:15-20` asks for before an
  uncertain outcome is closed. `AnswersSurvive` does not cover that answer, and would
  not hold for it: an activation whose commit failed after its rename, the same
  request again, a crash.

## 3. Runs

| run | instance | properties | expected |
|---|---|---|---|
| `instance_capacity` | 1 instance, 1 claw type, budget 1; a request with 2 failing table calls, or with a crash and a VM-runner fault; or these three troubles without a request | `TypeOK`, `AdmittedWithinBudget`, `CapacityPromisesKept`, `RowlessLeaseHeld` | pass |
| `instance_contention` | 2 instances (1 slot sized), 1 claw type, budget 2 | `CreateAnswered` | pass |
| `instance_liveness` | 1 instance, 1 crash, 1 failing table call, 1 maintenance window | `JobsImplemented`, `JobsSettle`, `LeasesSettle`, `OrphanWarmLeasesReleased` | pass |
| `claw_install` | 1 claw type, 2 jobs, 2 handlers, 1 file fault, 1 table fault, 1 crash | `TypeOK`, `StoreMatchesFile`, `InstallingNamesJob`, `RunningJobHeld`, `NoStaleJobRun` | pass |
| `household_install` | 2 requests, 1 fault, 1 crash or power loss, 1 lost Ack | `TypeOK`, `RecoveryNeverRefuses`, `AckBacked`, `OneAckPerInstall`, `InstallAnswered`, `InstallImplemented` | pass |
| `nonce_ledger` | 2 intents, 2 processes with a session each, capacity 2, time 0 to 2, 1 fault, 1 crash or power loss, 1 session that gives up | `TypeOK`, `AnsweredDurable`, `CommittedOnce`, `NoSilentConsume`, `NeverCorrupt`, `DetachedUntouched` | pass |
| `pty_broker` | 1 conversation, 3 intents, ticket limit 1, 2 instances, 2 slots, archive limit 0, 1 storage error, 2 deaths or power losses | `TypeOK`, `AtMostOnce`, `CancelFences`, `OpenReachable`, `OutputKept`, `SlotsReclaimed` | pass |
| `signer_control` | 3 transactions, 2 generations, 3 epochs, 1 key worker, cap 2, 1 retained result, 2 keys per slot; a failed commit with a crash or an expiry, a moving roster or an expiry under the signer | `TypeOK`, `RecordLoads`, `RevokeNeverBlocked`, `RelyOnPresentKeys`, `KeysTracked`, `SigningFenced`, `AnswersSurvive`, `OneKeyPerGeneration` | pass |
| `restart_overcommit` | 1 instance, stop and restart, budget 1 | `WarmMatchTransferred` | violation |
| `claw_drift` | 1 claw type, 1 job, 1 handler | `NoTransitionalDrift` | violation |
| `household_reissue` | as `household_install` | `RecoveryEvidenceKept` | violation |
| `nonce_floor` | as `nonce_ledger` | `ExactlyOneCommitted` | violation |

**Bounds.** `Inst`, `Claw`, `Op`, `Job`, `Caller` bound who takes part; `Quotas` of
`InstanceLifecycle` (requests, crashes, failing VM-runner calls, steps with failing
table calls, maintenance windows) and `MaxFileFaults`, `MaxTableFaults`, `MaxCrashes`
of `ClawInstall` bound what a behaviour may contain. A behaviour starts with one of
the quotas of its run; several keep a run small where all the trouble at once
would not. Over-commit needs two owners against a budget
that holds one: an instance and a warm slot, with one slot to share, and a restart
that overlaps the create, its rollback or the crash. Two failing table calls are what
a doubled lease needs, one that makes the create roll back and one that makes the
rollback's release fail. A circular wait needs two creates, the worker and the
reconciler with warm slots to fill: two instances, one claw type, two slots. The job
properties need one job, one crash and one failing write. The two stores need two
requests for one claw type, one failing write and one crash. The
proofs of these two modules hold for every value of all of these.

In `HouseholdInstall`, `MaxFaults`, `MaxCrashes` and `MaxLost` bound failing reads,
writes and barriers, deaths and power losses, and lost Acks: two requests let an
installation follow another, and one fault with one power loss reaches every
visible but unsynced file. Generations are drawn only by rotations, so they need
no bound. In `NonceLedger`, `MaxTime` lets the floor pass the first intent and not
the second, and two processes with a session each are what a shared file needs; a
capacity of two holds both rows, and a full record refuses without a change. In
`PtyBroker`, a ticket limit of one makes every second issue a collection and lets
one open session exhaust the limit; three intents allow a cancel, a collection and
a retry of different ones; two instances and two slots make a replaced session
count; an archive limit of zero removes whatever may be removed. Each instance is
attached to once, because a client that attaches in a loop keeps a completed
session registered for as long as it likes.

In `SignerControl`, two generations and three epochs allow create, revoke and
reactivate, or a rotation followed by a revocation, with the keys of the first
generation still in collection. With one retained result every later one must
evict it, which takes an acknowledgement or an urgent push; three transactions are
the least with which a reactivated operation can be activated. `Budgets` says which
rare events one behaviour may have: each of the four covers a pair that interacts.

**Fairness.** Started tasks go on (`WF`); a task that keeps finding a lock free
gets it (`SF`): `capacity_lock` is a FIFO lock, and no holder of the executor
mutex takes it again without a pause. The auto-restart task lets go of the executor
mutex. A lease with a TTL runs out in the end and a maintenance window ends. Clients,
crashes and failing calls are never forced; a behaviour has finitely many of them.
That a step after a call to the VM runner is taken assumes that the call returns: the
client sets no deadline.

In `HouseholdInstall` the only fairness is the code's: the holder of the lifecycle
lock goes on (`WF`). What the code does not provide is a hypothesis of
`InstallAnswered` (`Persistent`): somebody starts a daemon that is down, as its
service manager does with one that exited; somebody restarts a daemon that answers
that a restart is required, which the daemon never does itself; and somebody asks
again until the answer comes, while the founder's own loop gives up after 300 s
(`household-rs/src/pair_machine.rs:1881`, `2153-2158`). In `PtyBroker` the CREATE
under the mutex, a reader thread that has published its completion, streams of
completed sessions and the maintenance tick go on (`WF`); neither clients nor the
drain of a closed session are forced. `NonceLedger`, `ClawInstall` and `SignerControl` have no liveness property: a
request of the ledger ends at its deadline, an install job that the worker cannot
mark waits for the next start, and the signer waits for its callers.

**Deadlock.** The instance runs check for deadlock. The claw runs do not: job ids
are a bound, and a host where they are used up and no client asks for anything
may stop. The nonce runs do not either: after a teardown nothing is left to do; nor the signer
run, where epochs and generations are bounds.
The household and PTY runs do.

**Mutants.** Every property of a passing run has a mutant of a mapped definition
that breaks it (`PROJECT.json`, "mutants"): a capacity check that forgets the
request, a refill that ignores the budget, recovery that requeues or skips, a
capacity lock that outlives the reconciler's cycle, a reaper that leaves failed rows alone, a missing orphan
release, a restart that keeps its lease, a store that changes before its failing
write, a reset that forgets pending jobs, a failed install that keeps its job
running, a recovery that rolls back after the commit marker, a window that is not
compared with its generation, a record replaced before its marker is dirty, a
rename without its barrier, a collection synced before its unlinks, a pruning that
takes a closed session for a completed one, a result list that refuses an urgent
push, a collector that acts on an unsynced record or believes one absent reading, a
signer that does not ask the roster again, a replay answered without a write, a
generation that starts again after a revocation.

### What the passing runs show

* `AdmittedWithinBudget`: whatever expires, is reaped, renewed, transferred, rolled
  back or cut off by a crash, leases granted on a capacity check fit the budget, but
  for one each time a rollback failed to release a lease and gave its slot to the
  warm pool all the same. It is a statement about checked leases: those that are
  granted without a check of their own (auto-restart, a restart admitted as a warm
  match, see above) may exceed the budget on top of it, and `restart_overcommit`
  shows one that does.
  `CapacityPromisesKept` is why: each task between check and grant has been
  promised a number of slots, and the promises of the one holder of the lock
  still fit, although the reaper, the worker, an uninstall and the auto-restart
  task change leases without the lock.
* `JobsImplemented`, `JobsSettle`: no create flow runs twice, and no job is lost
  to a deferral or a crash. A failing write does strand a job (`Stranded`): it stays
  running until the next start, and the worker goes on to the next one.
* `CreateAnswered`: the reconciler's wait for the executor mutex under the
  capacity lock never closes a cycle.
* `LeasesSettle`, `OrphanWarmLeasesReleased`: no provisioning lease and no orphaned
  warm lease blocks capacity for ever.
  `RowlessLeaseHeld`: a restart that overlaps a rollback gives back the lease of a
  row that is gone, as long as the process lives and the release does not fail. When
  it fails, nobody tries again: the lease is final and has no row.
* `StoreMatchesFile`, `InstallingNamesJob`: a failing write of the store leaves
  nothing behind, and its rollback never takes away a job that is named elsewhere.
* `RunningJobHeld`, `NoStaleJobRun`: the recoveries, a message update that writes
  back an old status, and rollbacks leave no orphaned running job, and no job of
  an earlier process is run. Both are stated for behaviours in which no call on
  the jobs table has failed (`TableSound`): the worker only logs such a failure
  and leaves the job as it is until the next start.

* `InstallImplemented`: whatever the interleaving of transactions, failed barrier,
  kill and power loss, what survives is a household that was installed at once, and
  that only a teardown of a completed installation removes. `RecoveryNeverRefuses`,
  `AckBacked`, `OneAckPerInstall`: start-ups accept what they find, an Ack is backed
  by durable files, and no request is installed twice. `InstallAnswered`: no fault or
  crash leads to files from which restarts and retries do not get the Ack of a
  committed household. It is conditional on these, which the code leaves to others.
* `AnsweredDurable`, `CommittedOnce`, `NoSilentConsume`, `NeverCorrupt`,
  `DetachedUntouched`: what the ledger answered holds across processes and power
  losses. `CommittedOnce` is stated for behaviours in which no request is served
  with a floor that another one has overtaken; `nonce_floor` shows why.
* `AtMostOnce`, `CancelFences`: the ticket protocol. The second is stated for
  behaviours in which the barrier of every collection came through. When it fails
  (`supervisor_intents.rs:109`), the unlinked tickets look absent, the next issue
  does not synchronise again, and a CANCEL is answered Ok for "missing" records that
  "cannot authorize CREATE" (`supervisor_intents.rs:237`); a power loss brings the
  issued record back, and a late CREATE runs. TLC finds this with the proviso
  dropped: one failing barrier, one power loss, one conversation.
* `OpenReachable`, `OutputKept`, `SlotsReclaimed`: collection and pruning never lose
  a running shell or output in use, and a completed session gives its slot back. One
  that was closed and never completes keeps it.
* `RecordLoads`, `RevokeNeverBlocked`: no sequence of legal transitions leads to a
  record that is read as corrupt or that refuses a revocation. `RelyOnPresentKeys`,
  `KeysTracked`: the two sides of collection. A key that a worker creates after its
  operation was preempted and its slot confirmed absent is nobody's; `KeysTracked`
  excepts exactly these (`late`). `SigningFenced`, `AnswersSurvive`: lease, guard,
  second reading and rewrite do what they are for, within one process (section 5).
  `OneKeyPerGeneration`: the
  high-water mark is durable before a key is made for it.

### What the other four runs show

* `restart_overcommit`: `check_capacity` counts 0 for a request that matches a
  warm slot "because the warm pool lease will be transferred"; a restart is
  checked that way and then creates a lease of its own.
* `claw_drift`: the worker may finish a job before the handler marks the store
  Installing, and a request may fall between the two start-up resets. The claw
  type then stays Installing until the next start.
* `household_reissue`: the command that reissues a pairing code opens the current
  namespace without recovering an interrupted install first, and sweeps the window
  that the recovery needs. Every later start fails closed.
* `nonce_floor`: a request waits with the floor it took on entry while another
  process removes the expired row of its nonce; the nonce is committed twice.

Four behaviours of the code that contradict a remark of it have no run of their
own: the uninstall race, the failing barrier of a ticket collection and the
replayed activation, all described above; and the create flow, which releases the storage lease of
a directory that is still there when Create and then Delete fail
(`executor-rs/src/flows/create.rs:299`; the reaper's remark at
`server-rs/src/lease_reaper.rs:5-6`). A fifth follows from `CreateAdmitted`:
`ensure_session` (`server-rs/src/mac_host_supervised.rs:112-114`) is called
idempotent, "a second WebSocket on the same session shares the shell", but of two
that find no session the slower CREATE is refused with `session_exists`.

## 4. Proofs

Assumptions: the sets are finite where something is counted, the names of lock
holders are distinct, and the bounds are naturals (`FiniteAssumption`,
`ShapeAssumption`, `BoundAssumption`, `HolderAssumption`; `ClawAssumption`,
`LimitAssumption`). `InstallAssumption` says that `NoReq` is no request and that the
bounds are naturals, `LedgerAssumption` says that there is an intent and that
expiries and floors are naturals, `PtyAssumption` that `NoConv` is no conversation,
`SignerAssumption` that the epochs and the two list limits are at least one. TLC
evaluates them in every run.

| theorem | property | argument |
|---|---|---|
| `InstanceLifecycle_proofs!TypeCorrect` | `TypeOK` | inductive as it stands, one lemma per task |
| `InstanceCapacity_proofs!PromisesKept` | `CapacityPromisesKept` | `CapacityInv` |
| `InstanceCapacity_proofs!CapacityNeverOvercommitted` | `AdmittedWithinBudget` | follows from the same invariant |
| `InstanceJobs_proofs!JobsRefinement` | `JobsImplemented` | `JobsInv`, then step simulation |
| `InstanceJobs_proofs!RowlessLeases` | `RowlessLeaseHeld` | `RowlessInv` |
| `ClawInstall_proofs!TypeCorrect` | `TypeOK` | `TypeInv` |
| `ClawInstall_proofs!StoreDurable` | `StoreMatchesFile` | inductive as it stands |
| `ClawInstall_proofs!StaleJobsNotRun` | `NoStaleJobRun` | `RecoveryInv` |
| `ClawInstall_proofs!RunningJobsHeld` | `RunningJobHeld` | `RecoveryInv` |
| `ClawInstall_proofs!InstallingJobsExist` | `InstallingNamesJob` | `NamesInv` |
| `HouseholdInstall_proofs!TypeCorrect` | `TypeOK` | `InstallInv` |
| `HouseholdInstall_proofs!RecoveryAccepts` | `RecoveryNeverRefuses` | `InstallInv`, parts `DiskInv`, `StepInv` |
| `HouseholdInstall_proofs!AcksBacked` | `AckBacked` | `InstallInv`, part `DiskInv` |
| `HouseholdInstall_proofs!OneAck` | `OneAckPerInstall` | `InstallInv`, parts `SentInv`, `WindowInv` |
| `HouseholdInstall_proofs!InstallRefinement` | `InstallImplemented` | `InstallInv`, then step simulation |
| `NonceLedger_proofs!TypeCorrect` | `TypeOK` | `LedgerInv` |
| `NonceLedger_proofs!AnswersDurable` | `AnsweredDurable` | `LedgerInv`, part `DurableInv` |
| `NonceLedger_proofs!OneCommit` | `CommittedOnce` | `LedgerInv`, part `WonInv` |
| `NonceLedger_proofs!RefusedNotConsumed` | `NoSilentConsume` | `LedgerInv`, part `RequestInv` |
| `NonceLedger_proofs!OpensSound` | `NeverCorrupt` | `LedgerInv`, part `FileInv` |
| `NonceLedger_proofs!TeardownFences` | `DetachedUntouched` | action property, from `LockInv` |
| `PtyBroker_proofs!TypeCorrect` | `TypeOK` | `BrokerInv` |
| `PtyBroker_proofs!StartsOnce` | `AtMostOnce` | `BrokerInv`, parts `CreateInv`, `SpentInv` |
| `PtyBroker_proofs!CancelHolds` | `CancelFences` | `BrokerInv`, part `SpentInv` |
| `PtyBroker_proofs!ShellsReachable` | `OpenReachable` | `BrokerInv`, part `RegistryInv` |
| `PtyBroker_proofs!LogsKept` | `OutputKept` | `BrokerInv`, part `RegistryInv` |
| `SignerControl_proofs!TypeCorrect` | `TypeOK` | `ControlInv` |
| `SignerControl_proofs!RecordsLoad` | `RecordLoads` | every well-formed record passes the checks of a load |
| `SignerControl_proofs!RevokeAlwaysAccepted` | `RevokeNeverBlocked` | an urgent push always has a result |
| `SignerControl_proofs!KeysPresent` | `RelyOnPresentKeys` | `ControlInv`, parts `CollectorInv`, `ChainInv` |
| `SignerControl_proofs!NoKeyForgotten` | `KeysTracked` | `ControlInv`, parts `LagInv`, `WorkerInv` |
| `SignerControl_proofs!SigningHolds` | `SigningFenced` | `ControlInv`, part `SignerInv` |
| `SignerControl_proofs!AnswersKept` | `AnswersSurvive` | `ControlInv`, part `AnswerInv` |
| `SignerControl_proofs!OneKey` | `OneKeyPerGeneration` | `ControlInv`, part `BoundInv` |

* `CapacityInv == TypeOK /\ LockInv /\ WarmLeaseInv /\ CapacityPromisesKept`.
  The budget alone is not inductive: a grant needs the promise of its check
  (`CapacityPromisesKept`), a promise is only safe if nobody else is between check
  and grant (`LockInv`), and a transferred warm lease counts only because warm
  leases never expire and are never stray (`WarmLeaseInv`). The promise counts
  `AdmittedLeases`, the checked ones without the doubled ones: in the step that
  restores a warm slot beside a lease that was not released, that lease leaves the
  count as the warm one enters it, so the promise stays a plain bound by `Budget`.
  `ShrinkKeepsPromises` covers every step
  that only removes or renews leases; `CheckPromises`, `GrantFits`, `InsertKeeps`
  cover the steps that make and use a promise.
* `JobsInv == TypeOK /\ HeldInv /\ StartedInv /\ RowInv`: the job in the worker's
  hands is running (the converse does not hold, a running job may have been
  abandoned), it has started exactly in the later phases, and an instance that could be created again has no job yet. The last one
  is why a job id is queued once: rows are only erased by a rollback, which runs
  before a job exists.
* `RowlessInv` adds to `JobsInv` what holds before the first crash. `JoblessInv`: an
  instance without a job, which a rollback may still erase, never had a state
  directory, so that neither a restart's flow nor the auto-restart task made it
  active. `LeaseInv`: from the moment a rollback has released the leases, one that is
  there and is not stray (`Loose`) belongs to a restart that acquired it and has not
  given it back.
  `RowlessLeaseHeld` itself is not inductive, as it says nothing of the rollback that
  is about to erase the row. TLC checked the invariant with two handlers at once.
* `TypeInv == TypeOK /\ WorkerInv` ties the worker's phase to its job.
* `RecoveryInv` adds that, once the reset is through, no job of an earlier process
  is pending or running.
* `NamesInv`: a request that has created a job and not yet marked the store is the
  only one that knows the job, so its rollback deletes what nobody names.
* `InstallInv`. A power loss keeps, of each file, what is durable or what is visible,
  so what must be right is every disk it may leave. `IsMix` says which disks these are
  and `DiskInv` that each of them is `Good`: it names no generation ahead of its own
  (`GensOK`), its breadcrumb can be rolled back or forward (`CrumbOK`), and a result of
  the current generation has its household, and Ready and the Ack have the delivery
  record (`ResultOK`). A write changes one file, so a new disk differs from an old one
  in that file (`WriteMix`), and one lemma per written record shows it good again. Not
  every pair of files may be out of step: `LagInv` lists what may be visible and not
  durable, in the order the barriers enforce. The order of the steps is carried by
  `StepInv`, what the holder of the lock has established where it stands
  (`Established`), which nothing but its own steps may disturb, and `MemInv` says what
  the windows and the identity that a process remembers are still worth.
  `RecoveryNeverRefuses` is then a case analysis of the recovery over a good disk.
  `OneAckPerInstall` needs in addition that a request is staged in one generation only
  (`WindowInv`, over every record that can name it) and that one installation is over
  before the next begins (`SentInv`).
* `InstallSimulation`. Of all steps only three kinds change what `AtomicInstall` sees:
  `DurableStep` says that the durable household stays, or is committed by a marker that
  the durable breadcrumb names, or was finished and is detached. A breadcrumb that is
  still there is not finished and was not answered (`FreshInstall`), so the second is
  an `Install` of a request nobody was told of.
* `LedgerInv`. A worker reads, decides and writes in separate steps, so the proof
  carries what the holder of the lock has established so far (`Established`), that
  there is one holder and that a teardown waits for it (`LockInv`), and that a clean
  marker vouches for a record that is durable (`FileInv`). `CommittedOnce` needs that
  a row is removed only below a floor that was written (`GoneInv`) and that a request
  has not expired by its own floor (`RequestInv`); it is claimed, as in the run, only
  while no later request came with an older floor. The proof of `NeverCorrupt`
  corrected the model, in which a power loss could leave some bytes of a marker in a
  file that had only been truncated; `Torn` now says what a write cut short leaves.
* `BrokerInv`. `after` is the set of contents a ticket may have after a power loss.
  Once an intent has started something, "issued" is in no such set (`SpentInv`), and
  a CREATE that is between consume and spawn holds an intent that is consumed in all of
  them (`CreateInv`). `TicketMove` lists what any step may do to one ticket; every
  action is shown to be of that form once, and the invariants follow from the form.
* `ControlInv`. A transition of the record leaves two records a crash may choose from
  (`survivors`). `RecordOK` is what any of them satisfies; that a load accepts it, and
  that the transition functions preserve it, are lemmas over the operators alone
  (`WellFormedLoads`, the facts of `push_bounded_terminal`, of `Drop` and of each
  mutation). `ChainInv` says that no survivor is ahead of the disk, which is what
  allows the worker and the collector, who act on a record they read earlier, to be
  right about every survivor: the worker's operation cannot be undone (`WorkerInv`)
  and the collector's slot can never become live again (`CollectorInv`, `Past`).

Only model-checked: all liveness properties (out of the prover's reach) and the four
violations. Every safety property of a passing run is also a theorem.

## 5. Not modelled

In the modelled components: input validation and wording, the rate limit, ports
and IP addresses, `desired_state`, users and sharing, the disk formula, the macOS
variants of seed and install (same pattern), phases and messages of a row. A
stretch of code that fails between two modelled calls for a reason of its own
(a poisoned mutex, a panicked blocking task) is not modelled, nor is a client that
disconnects and thereby drops the future of its handler at an await. Calls to the VM
runner return, and the warm pool is enabled.
The port-conflict retries of the create flow are abstracted to its final
outcome. Of the household: the founder's side of pairing, device admission, the
identity watcher, and the first household of a fresh machine. Of the supervisor:
input, resize, the replay of a log and its rotation, and the in-process terminals.
Of the signer: several identities and purposes, signatures and scopes of a
delegation, temporary files and their sweep, the watchdog of a signature, and a
second process. `MeshSignerLocks` (`locks.rs:65-114`) excludes within one process,
while the store provides for several that replace the record (`store.rs:352-361`):
`Exclusive`, and with it `SigningFenced` and its theorem, are about one process.
Outside: see the components marked `not_modelled` in `PROJECT.json`.

## 6. Plan

Done: the instance core and the claw store with the abstract job specification and
the proofs of their safety invariants; the household install transaction with its
abstract specification; the nonce ledger; the PTY supervisor; the signer control
record. Next, in this order:

1. **Machine pairing and device admission** (`household-rs/src/pair_machine.rs`,
   `pair_device.rs`, `device_admission.rs`): windows, one-time use, expiry,
   retries of what was already done, composed with the candidate's side.
2. **Replay of a terminal** (`terminal-rs/src/segmented_log.rs`, `stream_session`):
   offsets, rotation and lag, so that a stream is contiguous or says where it is not.
3. **VM runner** (`vmrunner-rs/src/create_guard.rs`, `warm_pool.rs`): the guard's
   clean-up, claim and refill of a warm slot; to refine the external VM runner of
   `InstanceLifecycle`.
4. **Mesh session authentication and rekey** (`mesh-session-core-rs`), composed with
   `SignerControl` and `NonceLedger`.
