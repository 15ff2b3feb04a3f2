----------------------------- MODULE SignerControl -----------------------------
(* The control record of the mesh session signer (mesh-session-control-model-rs,
   compiled into keystore-rs): which generation of the signing key is live, the
   operation under way that creates the next one, the keys waiting to be destroyed
   and the results of recent requests; the store that replaces the record as a
   whole; and the actors that work on it: clients, workers that create keys, the
   activation, the garbage collector and the signer.

   A transition of the record is an operator that yields the set of its results:
   empty when `apply` returns an error, else the one new record. An error changes
   nothing and is not a step.

   A commit runs under the exclusive guard and is one step. It either reports
   Committed, and then a crash can only leave the new record, or it fails after its
   attempts: the record that is read may then be the old or the new one, and a crash
   may leave either (survivors). The guard is refused while the signer holds it
   shared.

   A slot is named by its generation and its transaction; identity, purpose, kind
   of backend and reason of a revocation are the same throughout. A delegation is
   the time it ends. The revision of the record is only compared with the one a key
   worker read, so each worker keeps whether its revision is still the current one
   instead.                                                                     *)
EXTENDS Naturals, Sequences, FiniteSets, Functions

CONSTANTS
    Txn,          \* transaction ids
    Worker,       \* workers that create keys
    None,         \* no pending operation
    MaxGen,       \* generations
    MaxEpoch,     \* epochs
    Delegation,   \* times at which a delegation may end
    MaxCap,       \* max_cap, injected by the caller
    MaxTerminals, \* MAX_RECENT_TERMINAL_RESULTS
    MaxKeys,      \* keys created at one slot
    Budgets       \* how many of the rare events one behaviour may have

Gen == 1..MaxGen
Slot == Gen \X Txn

\* faults: failed commits and ambiguous inspections; crashes; changes of the roster;
\* ticks of the clock; capabilities that are loaded.
Budget == [faults : Nat, crashes : Nat, roster : Nat, ticks : Nat, loads : Nat]

PendingOps == [txn : Txn, kind : {"create", "rotate", "reactivate"}, gen : Gen,
               epoch : 1..MaxEpoch, phase : {"intent", "observed"}, key : 0..MaxKeys]

ASSUME SignerAssumption ==
    /\ MaxGen \in Nat /\ MaxGen > 1 /\ MaxEpoch \in Nat \ {0} /\ MaxCap \in Nat
    /\ MaxTerminals \in Nat \ {0} /\ MaxKeys \in Nat
    /\ Delegation \subseteq Nat /\ Budgets \subseteq Budget
    /\ None \notin PendingOps /\ None \notin Slot

VARIABLES
    disk,       \* the record load_canonical reads
    survivors,  \* the records a crash may leave in its place
    present,    \* slots of the secret backend that hold a key
    made,       \* keys created at each slot so far; a present key is the last one
    lagging,    \* slots whose key inspect may still report as absent
    worker,     \* key workers, with the pending operation they were given
    act,        \* activate_from_key_observed
    gc,         \* gc_worker_tick
    signer,     \* load_signer_capability and sign_checked
    roster,     \* the roster's currency of the delegating machine
    now,        \* the clock
    left,       \* the rare events still to come
    told,       \* history: what answers promised
    bound,      \* history: every <<generation, key>> that was ever live
    late        \* history: slots where a preempted worker created a key

record == <<disk, survivors>>
backend == <<present, made, lagging>>
history == <<told, bound, late>>
vars == <<record, backend, worker, act, gc, signer, roster, now, left, history>>

-------------------------------------------------------------------------------
(* The record.  live, gc and terminals are vectors. An entry of gc has the state
   awaiting or unconfirmed (AwaitingInspection, AbsentUnconfirmed), pending, done
   or quarantine (Bound, with its key), absent or conflict.                     *)

bootstrap ==
    [epoch |-> 1, hw |-> 1, auth |-> "empty", current |-> 0, live |-> <<>>,
     pending |-> None, gc |-> <<>>, terminals |-> <<>>]

SlotOf(x) == <<x.gen, x.txn>>

\* ExactBinding: the key is the k-th one created at its slot.
Entry(x, st, k) == [gen |-> x.gen, txn |-> x.txn, st |-> st, key |-> k]

Clean(e) == e.st \in {"done", "absent"}

cap_occupancy(r) ==
    Len(r.live) + (IF r.pending = None THEN 0 ELSE 1)
                + Cardinality({i \in DOMAIN r.gc : ~Clean(r.gc[i])})

\* The slots a record names, with repetitions.
SlotsOf(r) ==
    LET all == r.live \o r.gc \o (IF r.pending = None THEN <<>> ELSE <<r.pending>>)
    IN [i \in DOMAIN all |-> SlotOf(all[i])]

Distinct(s) == \A i, j \in DOMAIN s : s[i] = s[j] => i = j

\* A record for which this is false is read as Corrupt, for good.
invariants_hold(r) ==
    /\ (r.auth = "active") <=> (r.current # 0)
    /\ r.current # 0 => r.current <= r.hw /\ \E g \in Range(r.live) : g.gen = r.current
    /\ Distinct([i \in DOMAIN r.live |-> r.live[i].gen])
    /\ \A x \in Range(r.live) \cup Range(r.gc) : x.gen <= r.hw
    /\ Distinct(SlotsOf(r))
    /\ r.pending # None =>
        /\ r.pending.epoch = r.epoch /\ r.pending.gen <= r.hw
        /\ r.pending.phase = "observed" <=> r.pending.key # 0
        /\ <<r.auth, r.pending.kind>> \in {<<"empty", "create">>, <<"active", "rotate">>,
                                           <<"revoked", "reactivate">>}
    /\ Len(r.terminals) <= MaxTerminals
    /\ Distinct([i \in DOMAIN r.terminals |-> r.terminals[i].txn])

Terminals(r, t) == {x \in Range(r.terminals) : x.txn = t}

Drop(s, i) == SubSeq(s, 1, i - 1) \o SubSeq(s, i + 1, Len(s))

\* Mutant: an urgent push is refused like any other.
push_bounded_terminal_mutant(v, x, urgent) ==
    LET acked == {i \in DOMAIN v : v[i].acked}
        first == CHOOSE i \in acked : \A j \in acked : i <= j
    IN CASE Len(v) < MaxTerminals -> {Append(v, x)}
         [] Len(v) >= MaxTerminals /\ acked # {} -> {Append(Drop(v, first), x)}
         [] OTHER -> {}

\* At the limit the oldest acknowledged result makes room; an urgent push may
\* take the oldest of all.
push_bounded_terminal(v, x, urgent) ==
    LET acked == {i \in DOMAIN v : v[i].acked}
        first == CHOOSE i \in acked : \A j \in acked : i <= j
    IN CASE Len(v) < MaxTerminals  -> {Append(v, x)}
         [] Len(v) >= MaxTerminals /\ acked # {} -> {Append(Drop(v, first), x)}
         [] Len(v) >= MaxTerminals /\ acked = {} /\ urgent -> {Append(Tail(v), x)}
         [] OTHER -> {}

Terminal(t, req, n) == [txn |-> t, req |-> req, n |-> n, acked |-> FALSE]

-------------------------------------------------------------------------------
(* Transitions.                                                                 *)

\* removable: the generations this transition may take out of live.
validate_shared_invariants(old, new, removable) ==
    /\ \A g \in Range(old.live) :
        \/ g \in Range(new.live)
        \/ g.gen \in removable /\ \A h \in Range(new.live) : h.gen # g.gen
    /\ \/ old.current = 0
       \/ \E g \in Range(new.live) : g.gen = old.current
       \/ removable = Gen /\ new.current = 0
    /\ new.hw >= old.hw /\ new.epoch >= old.epoch
    /\ Distinct([i \in DOMAIN new.gc |-> SlotOf(new.gc[i])])
    /\ cap_occupancy(new) <= MaxCap \/ cap_occupancy(new) <= cap_occupancy(old)

\* Mutant: a record without a current generation counts as a new one.
derive_next_generation_mutant(r) == IF r.current = 0 THEN 1 ELSE r.hw + 1

derive_next_generation(r) == IF r.auth = "empty" THEN 1 ELSE r.hw + 1

slot_collides_with_unresolved_gc(r, s) ==
    \E e \in Range(r.gc) : SlotOf(e) = s /\ ~Clean(e)

PendingOp(t, kind, g, e) ==
    [txn |-> t, kind |-> kind, gen |-> g, epoch |-> e, phase |-> "intent", key |-> 0]

\* Mutant: the generation is only counted when it is activated.
IntentRecorded_mutant(r, t, kind) ==
    LET g == derive_next_generation(r) IN
    {n \in {[r EXCEPT !.pending = PendingOp(t, kind, g, r.epoch)]} :
        /\ r.pending = None
        /\ Terminals(r, t) = {}
        /\ <<r.auth, kind>> \in {<<"empty", "create">>, <<"active", "rotate">>}
        /\ ~slot_collides_with_unresolved_gc(r, <<g, t>>)
        /\ validate_shared_invariants(r, n, {})}

\* The generation is taken from the high-water mark as soon as it is intended.
IntentRecorded(r, t, kind) ==
    LET g == derive_next_generation(r) IN
    {n \in {[r EXCEPT !.hw = g, !.pending = PendingOp(t, kind, g, r.epoch)]} :
        /\ r.pending = None
        /\ Terminals(r, t) = {}
        /\ <<r.auth, kind>> \in {<<"empty", "create">>, <<"active", "rotate">>}
        /\ ~slot_collides_with_unresolved_gc(r, <<g, t>>)
        /\ validate_shared_invariants(r, n, {})}

\* pending_matches_token, and the worker's revision is the current one.
KeyObserved(r, op, fresh, key) ==
    {n \in {[r EXCEPT !.pending = [op EXCEPT !.phase = "observed", !.key = key]]} :
        /\ fresh
        /\ r.pending = op
        /\ r.pending.phase = "intent"
        /\ validate_shared_invariants(r, n, {})}

ActivateFromKeyObserved(r, op, na) ==
    LET x == Terminal(op.txn, <<"activate", op.gen, na>>, op.gen) IN
    {n \in {[r EXCEPT !.live = Append(@, [gen |-> op.gen, txn |-> op.txn,
                                          key |-> op.key, na |-> na]),
                      !.current = op.gen, !.auth = "active", !.pending = None,
                      !.terminals = v] : v \in push_bounded_terminal(r.terminals, x, FALSE)} :
        /\ Terminals(r, op.txn) = {}
        /\ r.pending = op
        /\ op.phase = "observed"
        /\ validate_shared_invariants(r, n, {})}

\* Every key the record knows of goes to the garbage collector.
RevokeUrgent(r, t) ==
    LET x == Terminal(t, <<"revoke">>, r.epoch + 1)
        dead == (IF r.pending = None THEN <<>>
                 ELSE <<Entry(r.pending, IF r.pending.key = 0 THEN "awaiting" ELSE "pending",
                              r.pending.key)>>)
                \o [i \in DOMAIN r.live |-> Entry(r.live[i], "pending", r.live[i].key)]
    IN {n \in {[r EXCEPT !.epoch = @ + 1, !.auth = "revoked", !.gc = @ \o dead,
                         !.pending = None, !.live = <<>>, !.current = 0,
                         !.terminals = v] : v \in push_bounded_terminal(r.terminals, x, TRUE)} :
           Terminals(r, t) = {} /\ validate_shared_invariants(r, n, Gen)}

ReactivateFromRevoked(r, t, next) ==
    LET g == derive_next_generation(r)
        x == Terminal(t, <<"reactivate", next>>, r.epoch + 1)
    IN {n \in {[r EXCEPT !.epoch = @ + 1, !.hw = g,
                         !.pending = PendingOp(next, "reactivate", g, r.epoch + 1),
                         !.terminals = v] : v \in push_bounded_terminal(r.terminals, x, FALSE)} :
           /\ Terminals(r, t) = {}
           /\ r.auth = "revoked"
           /\ r.pending = None
           /\ Terminals(r, next) = {}
           /\ ~slot_collides_with_unresolved_gc(r, <<g, next>>)
           /\ validate_shared_invariants(r, n, {})}

\* The live generations of a record that was read differ, so that retain removes one.
GenerationExpired(r, g) ==
    {n \in {[r EXCEPT !.gc = Append(@, Entry(r.live[i], "pending", r.live[i].key)),
                      !.live = Drop(@, i)] :
                i \in {i \in DOMAIN r.live : r.live[i].gen = g /\ now >= r.live[i].na}} :
        r.current # g /\ validate_shared_invariants(r, n, {g})}

\* The entry of r.gc at slot s goes to the state that next has for its state, and
\* gets the key that was found.
GcUpdate(r, s, next, found) ==
    LET at(e) == SlotOf(e) = s /\ e.st \in DOMAIN next
        step(e) == Entry(e, next[e.st], IF found = 0 THEN e.key ELSE found)
    IN {n \in {[r EXCEPT !.gc = [i \in DOMAIN @ |-> IF at(@[i]) THEN step(@[i]) ELSE @[i]]]} :
           (\E e \in Range(r.gc) : at(e)) /\ validate_shared_invariants(r, n, {})}

\* Mutant: one absent reading is enough.
GcInspected_mutant(r, s, k) ==
    GcUpdate(r, s, IF k # 0 THEN [awaiting |-> "pending", unconfirmed |-> "pending"]
                            ELSE [awaiting |-> "absent", unconfirmed |-> "absent"], k)

\* One absent reading is not believed: only the second one is.
GcInspected(r, s, k) ==
    GcUpdate(r, s, IF k # 0 THEN [awaiting |-> "pending", unconfirmed |-> "pending"]
                            ELSE [awaiting |-> "unconfirmed", unconfirmed |-> "absent"], k)

GcInspectionConflict(r, s) ==
    GcUpdate(r, s, [awaiting |-> "conflict", unconfirmed |-> "conflict"], 0)

GcResolved(r, s, st) == GcUpdate(r, s, [pending |-> st, done |-> st], 0)

GcRemoval(r) ==
    LET done == {i \in DOMAIN r.gc : Clean(r.gc[i])}
    IN {n \in {[r EXCEPT !.gc = Drop(@, i)] : i \in {i \in done : \A j \in done : i <= j}} :
           validate_shared_invariants(r, n, {})}

TerminalAcked(r, t) ==
    {n \in {[r EXCEPT !.terminals = [i \in DOMAIN r.terminals |->
                          [r.terminals[i] EXCEPT !.acked = @ \/ r.terminals[i].txn = t]]]} :
        Terminals(r, t) # {} /\ validate_shared_invariants(r, n, {})}

-------------------------------------------------------------------------------
(* commit and commit_built_privileged.                                          *)

NoActor == [pc |-> "idle"]

\* The guard of a mutation waits for the signer.
Exclusive == signer.pc # "signing"

\* replace_exact reports Committed: the parent directory is synchronised.
Committed(new) ==
    /\ Exclusive
    /\ disk' = new /\ survivors' = {new}
    /\ left' = left

\* A new revision: the tokens handed out for older ones are stale. A worker that made
\* its key and has yet to record it is going to be refused with StaleWorkerToken.
Stale(ws) ==
    [w \in Worker |-> IF ws[w].pc = "token" THEN [ws[w] EXCEPT !.fresh = FALSE] ELSE NoActor]

\* Mutant: a rename that was not synchronised is not among what a crash may leave.
RetryExhausted_mutant(new, ws) ==
    /\ Exclusive
    /\ left.faults > 0 /\ left' = [left EXCEPT !.faults = @ - 1]
    /\ \/ worker' = ws /\ UNCHANGED record
       \/ worker' = Stale(ws) /\ disk' = new /\ UNCHANGED survivors

\* All attempts of commit_new_bytes failed, before or after a rename.
RetryExhausted(new, ws) ==
    /\ Exclusive
    /\ left.faults > 0 /\ left' = [left EXCEPT !.faults = @ - 1]
    /\ \/ worker' = ws /\ UNCHANGED record
       \/ worker' = Stale(ws) /\ disk' = new /\ survivors' = survivors \cup {new}

\* StabilizationRewrite, and the answer to a request that is recorded already: the
\* same record is written again, and the revision stays.
Stabilized == Committed(disk)

-------------------------------------------------------------------------------
(* Clients and key workers.  A client that commits an intent, a reactivation or a
   stabilisation gets the record back and may work on its pending operation.    *)

Token(op) == [pc |-> "token", op |-> op, key |-> 0, fresh |-> TRUE]

\* Worker w takes the operation of the committed record that has no key yet.
Given(w, ws) ==
    worker' = IF disk'.pending # None /\ disk'.pending.phase = "intent"
              THEN [ws EXCEPT ![w] = Token(disk'.pending)] ELSE ws

Intent(w, t) ==
    /\ worker[w].pc = "idle" /\ disk.hw < MaxGen
    /\ \E kind \in {"create", "rotate"} : \E new \in IntentRecorded(disk, t, kind) :
        \/ Committed(new) /\ Given(w, Stale(worker))
        \/ RetryExhausted(new, worker)
    /\ UNCHANGED <<backend, act, gc, signer, roster, now, history>>

Reactivate(w, t, next) ==
    /\ worker[w].pc = "idle" /\ disk.hw < MaxGen /\ disk.epoch < MaxEpoch
    /\ \E new \in ReactivateFromRevoked(disk, t, next) :
        \/ /\ Committed(new) /\ Given(w, Stale(worker))
           /\ told' = [told EXCEPT !.epoch = new.epoch]
        \/ RetryExhausted(new, worker) /\ UNCHANGED told
    /\ UNCHANGED <<backend, act, gc, signer, roster, now, bound, late>>

\* A retry of a recorded reactivation, or a StabilizationRewrite to recover the token.
Recover(w) ==
    /\ worker[w].pc = "idle"
    /\ Stabilized /\ Given(w, worker)
    /\ UNCHANGED <<backend, act, gc, signer, roster, now, history>>

Revoke(t) ==
    /\ disk.epoch < MaxEpoch
    /\ \E new \in RevokeUrgent(disk, t) :
        \/ /\ Committed(new) /\ worker' = Stale(worker)
           /\ told' = [told EXCEPT !.revoked = new.epoch]
        \/ RetryExhausted(new, worker) /\ UNCHANGED told
    /\ UNCHANGED <<backend, act, gc, signer, roster, now, bound, late>>

\* Mutant: a recorded revocation is answered without a write.
RevokeAgain_mutant(t) ==
    \E x \in Terminals(disk, t) :
        /\ x.req = <<"revoke">> /\ Exclusive
        /\ told' = [told EXCEPT !.revoked = IF x.n > @ THEN x.n ELSE @]
        /\ UNCHANGED <<record, backend, worker, act, gc, signer, roster, now, left, bound, late>>

\* idempotent_replay of a recorded revocation.
RevokeAgain(t) ==
    \E x \in Terminals(disk, t) :
        /\ x.req = <<"revoke">> /\ Stabilized
        /\ told' = [told EXCEPT !.revoked = IF x.n > @ THEN x.n ELSE @]
        /\ UNCHANGED <<backend, worker, act, gc, signer, roster, now, bound, late>>

\* A commit with nothing to answer but that it is done.
Plain(results) ==
    /\ \E new \in results :
        \/ Committed(new) /\ worker' = Stale(worker)
        \/ RetryExhausted(new, worker)
    /\ UNCHANGED <<backend, act, gc, signer, roster, now, history>>

Expire(g) == Plain(GenerationExpired(disk, g))

Ack(t) == Plain(TerminalAcked(disk, t))

\* create_or_inspect: the key at the slot, or a new one. When its answer is lost, the
\* worker calls it again.
CreateKey(w) ==
    LET op == worker[w].op
        s == SlotOf(op)
    IN /\ worker[w].pc = "token"
       /\ \/ s \in present /\ UNCHANGED <<backend, late>>
          \/ /\ s \notin present /\ made[s] < MaxKeys
             /\ present' = present \cup {s} /\ made' = [made EXCEPT ![s] = @ + 1]
             /\ lagging' = lagging \cup {s}
             /\ late' = IF disk.pending # None /\ SlotOf(disk.pending) = s
                        THEN late ELSE late \cup {s}
       /\ \/ worker' = [worker EXCEPT ![w] = IF @.fresh THEN [@ EXCEPT !.pc = "made", !.key = made'[s]]
                                             ELSE NoActor]
          \/ UNCHANGED worker
       /\ UNCHANGED <<record, act, gc, signer, roster, now, left, told, bound>>

ObserveKey(w) ==
    /\ worker[w].pc = "made"
    /\ \E new \in KeyObserved(disk, worker[w].op, worker[w].fresh, worker[w].key) :
        \/ Committed(new) /\ worker' = [Stale(worker) EXCEPT ![w] = NoActor]
        \/ RetryExhausted(new, [worker EXCEPT ![w] = NoActor])
    /\ UNCHANGED <<backend, act, gc, signer, roster, now, history>>

\* The backend is unavailable, or KeyObserved is refused.
GiveUp(w) ==
    /\ worker[w].pc # "idle"
    /\ worker' = [worker EXCEPT ![w] = NoActor]
    /\ UNCHANGED <<record, backend, act, gc, signer, roster, now, left, history>>

-------------------------------------------------------------------------------
(* activate_from_key_observed.  Nothing is held while the key and the roster are
   looked at. They are one step with the reading of the record: the roster's revision
   is read before the roster is asked and compared when the lease is taken, and the
   operation of the record is compared when it is committed. An activation that is
   recorded already is answered from the record that was read: not a step.      *)

ActivateValidate(t, na) ==
    /\ act.pc = "idle" /\ Terminals(disk, t) = {}
    /\ disk.pending # None /\ disk.pending.txn = t /\ disk.pending.phase = "observed"
    /\ SlotOf(disk.pending) \in present /\ made[SlotOf(disk.pending)] = disk.pending.key
    /\ roster.active /\ now < na
    /\ act' = [pc |-> "valid", op |-> disk.pending, na |-> na, rev |-> roster.rev]
    /\ UNCHANGED <<record, backend, worker, gc, signer, roster, now, left, history>>

\* acquire_currency_lease, held until the commit returns.
ActivateCommit ==
    /\ act.pc = "valid" /\ roster.rev = act.rev
    /\ \E new \in ActivateFromKeyObserved(disk, act.op, act.na) :
        \/ /\ Committed(new) /\ worker' = Stale(worker)
           /\ told' = [told EXCEPT !.activated = @ \cup {act.op.gen}]
        \/ RetryExhausted(new, worker) /\ UNCHANGED told
    /\ bound' = IF disk' = disk THEN bound
                ELSE bound \cup {<<act.op.gen, SlotOf(act.op), act.op.key>>}
    /\ act' = NoActor
    /\ UNCHANGED <<backend, gc, signer, roster, now, late>>

\* The roster moved or the operation was preempted.
ActivateFails ==
    /\ act.pc # "idle" /\ act' = NoActor
    /\ UNCHANGED <<record, backend, worker, gc, signer, roster, now, left, history>>

-------------------------------------------------------------------------------
(* gc_worker_tick and gc_removal_pass.  The backend is called with no guard held.
   Within a tick an entry is inspected once and destroyed once (seen, tried), which
   is also what sets an indeterminate one aside. The backend may be eventually
   consistent: inspect may miss a new key until the tick is over.               *)

Eligible(e) ==
    \/ e.st \in {"awaiting", "unconfirmed"} /\ SlotOf(e) \notin gc.seen
    \/ e.st = "pending" /\ SlotOf(e) \notin gc.tried

EligibleAt == {i \in DOMAIN disk.gc : Eligible(disk.gc[i])}

\* The entry the tick selects.
Selected(e) == \E i \in EligibleAt : e = disk.gc[i] /\ \A j \in EligibleAt : i <= j

GcStart ==
    /\ gc.pc = "idle" /\ disk.gc # <<>>
    /\ gc' = [pc |-> "tick", slot |-> None, key |-> 0, st |-> "", seen |-> {}, tried |-> {}]
    /\ UNCHANGED <<record, backend, worker, act, signer, roster, now, left, history>>

GcInspect ==
    /\ gc.pc = "tick"
    /\ \E e \in Range(disk.gc) :
        LET s == SlotOf(e)
            mark == [gc EXCEPT !.slot = s, !.seen = @ \cup {s}]
        IN /\ Selected(e) /\ e.st # "pending"
           /\ \/ gc' = [mark EXCEPT !.slot = None] /\ UNCHANGED left   \* Indeterminate
              \/ /\ s \in present
                 /\ gc' = [mark EXCEPT !.pc = "inspected", !.key = made[s]] /\ UNCHANGED left
              \/ /\ s \notin present \/ s \in lagging
                 /\ gc' = [mark EXCEPT !.pc = "inspected", !.key = 0] /\ UNCHANGED left
              \/ /\ left.faults > 0 /\ left' = [left EXCEPT !.faults = @ - 1]
                 /\ gc' = [mark EXCEPT !.pc = "conflict"]
    /\ UNCHANGED <<record, backend, worker, act, signer, roster, now, history>>

\* The result of a step of the tick: an error of the commit ends the tick.
GcCommit(results) ==
    /\ \E new \in results :
        \/ /\ Committed(new) /\ worker' = Stale(worker)
           /\ gc' = [gc EXCEPT !.pc = "tick", !.slot = None, !.key = 0, !.st = ""]
           /\ UNCHANGED lagging
        \/ RetryExhausted(new, worker) /\ gc' = NoActor /\ lagging' = {}
    /\ UNCHANGED <<present, made, act, signer, roster, now, history>>

GcRecord ==
    \/ gc.pc = "inspected" /\ GcCommit(GcInspected(disk, gc.slot, gc.key))
    \/ gc.pc = "conflict" /\ GcCommit(GcInspectionConflict(disk, gc.slot))

\* Mutant: the entry is acted on as it was read.
GcStabilize_mutant ==
    /\ gc.pc = "tick"
    /\ \E e \in Range(disk.gc) :
        /\ Selected(e) /\ e.st = "pending"
        /\ gc' = [gc EXCEPT !.pc = "stable", !.slot = SlotOf(e), !.key = e.key,
                            !.tried = @ \cup {SlotOf(e)}]
    /\ UNCHANGED <<record, backend, worker, act, signer, roster, now, left, history>>

\* Nothing is destroyed before the record that asks for it survives a crash. When the
\* rewrite fails, the record is what it was and the tick is over.
GcStabilize ==
    /\ gc.pc = "tick"
    /\ \E e \in Range(disk.gc) :
        /\ Selected(e) /\ e.st = "pending"
        /\ \/ /\ Stabilized /\ UNCHANGED lagging
              /\ gc' = [gc EXCEPT !.pc = "stable", !.slot = SlotOf(e), !.key = e.key,
                                  !.tried = @ \cup {SlotOf(e)}]
           \/ /\ Exclusive /\ left.faults > 0 /\ left' = [left EXCEPT !.faults = @ - 1]
              /\ gc' = NoActor /\ lagging' = {} /\ UNCHANGED record
    /\ UNCHANGED <<present, made, worker, act, signer, roster, now, history>>

\* gc_best_effort.
GcDestroy ==
    LET s == gc.slot
        done(st) == [gc EXCEPT !.pc = "destroyed", !.st = st]
    IN /\ gc.pc = "stable"
       /\ \/ /\ gc' = [gc EXCEPT !.pc = "tick", !.slot = None, !.key = 0]  \* incomplete
             /\ UNCHANGED present
          \/ /\ s \notin present \/ made[s] = gc.key
             /\ present' = present \ {s} /\ gc' = done("done")
          \/ s \in present /\ made[s] = gc.key /\ gc' = done("pending") /\ UNCHANGED present
          \/ s \in present /\ made[s] # gc.key /\ gc' = done("quarantine") /\ UNCHANGED present
       /\ UNCHANGED <<record, made, lagging, worker, act, signer, roster, now, left, history>>

GcFinish == gc.pc = "destroyed" /\ GcCommit(GcResolved(disk, gc.slot, gc.st))

GcEnd ==
    /\ gc.pc = "tick" /\ EligibleAt = {} /\ gc' = NoActor /\ lagging' = {}
    /\ UNCHANGED <<record, present, made, worker, act, signer, roster, now, left, history>>

GcRemove == Plain(GcRemoval(disk))

-------------------------------------------------------------------------------
(* load_signer_capability and sign_checked.  The load holds nothing; as in the
   activation, what it looks at one after the other is compared under the lease and
   the guard, so that it is one step.                                           *)

SignLoad ==
    /\ signer.pc = "idle" /\ left.loads > 0 /\ left' = [left EXCEPT !.loads = @ - 1]
    /\ disk.auth = "active" /\ roster.active
    /\ \E g \in Range(disk.live) :
        /\ now < g.na
        /\ SlotOf(g) \in present /\ made[SlotOf(g)] = g.key
        /\ signer' = [pc |-> "capability", epoch |-> disk.epoch, g |-> g, rev |-> roster.rev]
    /\ UNCHANGED <<record, backend, worker, act, gc, roster, now, history>>

\* Mutant: the roster is not asked again.
SignEnter_mutant ==
    /\ signer.pc = "capability"
    /\ disk.auth = "active" /\ disk.epoch = signer.epoch
    /\ signer.g \in Range(disk.live) /\ now < signer.g.na
    /\ signer' = [signer EXCEPT !.pc = "signing"]
    /\ UNCHANGED <<record, backend, worker, act, gc, roster, now, left, history>>

\* Lease, shared guard, second reading of the record, clock.
SignEnter ==
    /\ signer.pc = "capability"
    /\ roster.rev = signer.rev
    /\ disk.auth = "active" /\ disk.epoch = signer.epoch
    /\ signer.g \in Range(disk.live) /\ now < signer.g.na
    /\ signer' = [signer EXCEPT !.pc = "signing"]
    /\ UNCHANGED <<record, backend, worker, act, gc, roster, now, left, history>>

\* The guard and the lease are released; the capability may be used again.
SignDone ==
    /\ signer.pc = "signing" /\ signer' = [signer EXCEPT !.pc = "capability"]
    /\ UNCHANGED <<record, backend, worker, act, gc, roster, now, left, history>>

SignDrop ==
    /\ signer.pc = "capability" /\ signer' = NoActor
    /\ UNCHANGED <<record, backend, worker, act, gc, roster, now, left, history>>

-------------------------------------------------------------------------------
(* The roster, the clock and crashes.                                           *)

\* A lease blocks the change.
RosterChange ==
    /\ signer.pc # "signing"
    /\ left.roster > 0 /\ left' = [left EXCEPT !.roster = @ - 1]
    /\ roster' = [rev |-> roster.rev + 1, active |-> ~roster.active]
    /\ UNCHANGED <<record, backend, worker, act, gc, signer, now, history>>

Clock ==
    /\ left.ticks > 0 /\ left' = [left EXCEPT !.ticks = @ - 1]
    /\ now' = now + 1
    /\ UNCHANGED <<record, backend, worker, act, gc, signer, roster, history>>

\* The process dies, with or without a loss of power.
Crash ==
    /\ left.crashes > 0 /\ left' = [left EXCEPT !.crashes = @ - 1]
    /\ \/ UNCHANGED record
       \/ disk' \in survivors /\ survivors' = {disk'}
    /\ worker' = [w \in Worker |-> NoActor]
    /\ act' = NoActor /\ gc' = NoActor /\ signer' = NoActor /\ lagging' = {}
    /\ UNCHANGED <<present, made, roster, now, history>>

-------------------------------------------------------------------------------
Init ==
    /\ disk = bootstrap /\ survivors = {bootstrap}
    /\ present = {} /\ made = [s \in Slot |-> 0] /\ lagging = {}
    /\ worker = [w \in Worker |-> NoActor]
    /\ act = NoActor /\ gc = NoActor /\ signer = NoActor
    /\ roster = [rev |-> 0, active |-> TRUE] /\ now = 0
    /\ left \in Budgets
    /\ told = [revoked |-> 0, epoch |-> 0, activated |-> {}]
    /\ bound = {} /\ late = {}

Next ==
    \/ \E w \in Worker : \E t \in Txn : Intent(w, t) \/ \E u \in Txn : Reactivate(w, t, u)
    \/ \E w \in Worker : Recover(w) \/ CreateKey(w) \/ ObserveKey(w) \/ GiveUp(w)
    \/ \E t \in Txn : Revoke(t) \/ RevokeAgain(t) \/ Ack(t)
    \/ \E t \in Txn, na \in Delegation : ActivateValidate(t, na)
    \/ \E g \in Gen : Expire(g)
    \/ ActivateCommit \/ ActivateFails
    \/ GcStart \/ GcInspect \/ GcRecord \/ GcStabilize \/ GcDestroy \/ GcFinish \/ GcEnd
    \/ GcRemove
    \/ SignLoad \/ SignEnter \/ SignDone \/ SignDrop
    \/ RosterChange \/ Clock \/ Crash

Spec == Init /\ [][Next]_vars

-------------------------------------------------------------------------------
(* Properties.                                                                  *)

Generations == [gen : Gen, txn : Txn, key : 1..MaxKeys, na : Delegation]

GcEntries == [gen : Gen, txn : Txn, key : 0..MaxKeys,
              st : {"awaiting", "unconfirmed", "pending", "done", "quarantine",
                    "absent", "conflict"}]

TerminalResults == [txn : Txn, n : Nat, acked : BOOLEAN,
                    req : {<<"revoke">>} \cup ({"reactivate"} \X Txn)
                          \cup ({"activate"} \X Gen \X Delegation)]

Records ==
    [epoch : 1..MaxEpoch, hw : Gen, auth : {"empty", "active", "revoked"},
     current : 0..MaxGen, live : Seq(Generations), pending : PendingOps \cup {None},
     gc : Seq(GcEntries), terminals : Seq(TerminalResults)]

\* Types of the record, the backend, the actors and the histories.
TypeOK ==
    /\ disk \in survivors /\ \A r \in survivors : r \in Records
    /\ present \subseteq Slot /\ made \in [Slot -> 0..MaxKeys] /\ lagging \subseteq Slot
    /\ worker \in [Worker -> {NoActor} \cup [pc : {"token", "made"}, op : PendingOps,
                                             key : 0..MaxKeys, fresh : BOOLEAN]]
    /\ act \in {NoActor} \cup [pc : {"valid"}, op : PendingOps, na : Delegation, rev : Nat]
    /\ gc \in {NoActor} \cup
              [pc : {"tick", "inspected", "conflict", "stable", "destroyed"},
               slot : Slot \cup {None}, key : 0..MaxKeys,
               st : {"", "done", "pending", "quarantine"}, seen : SUBSET Slot, tried : SUBSET Slot]
    /\ signer \in {NoActor} \cup [pc : {"capability", "signing"}, epoch : 1..MaxEpoch,
                                   g : Generations, rev : Nat]
    /\ roster \in [rev : Nat, active : BOOLEAN] /\ now \in Nat
    /\ left \in Budget
    /\ told \in [revoked : 0..MaxEpoch, epoch : 0..MaxEpoch,
                 activated : SUBSET Gen]
    /\ bound \subseteq Gen \X Slot \X (1..MaxKeys) /\ late \subseteq Slot

\* Whatever the clients, the workers and the collector do, and wherever a crash
\* falls, the record on disk passes the check of load_canonical: a record that fails
\* it is read as Corrupt by every later operation, and the signer never works again.
RecordLoads == \A r \in survivors : invariants_hold(r)

\* A revocation with a new transaction id is never refused by apply: not by the cap,
\* not by a full list of results nobody acknowledged, not by what is in collection.
RevokeNeverBlocked ==
    \A t \in Txn : Terminals(disk, t) = {} => RevokeUrgent(disk, t) # {}

Relied(r) == Range(r.live) \cup (IF r.pending = None \/ r.pending.key = 0 THEN {} ELSE {r.pending})

\* The exact key of every live generation, and the one an operation observed, is in the
\* backend, in every record a crash may leave: the collector destroys a key only when no
\* surviving record relies on it.
RelyOnPresentKeys ==
    \A r \in survivors : \A g \in Relied(r) :
        SlotOf(g) \in present /\ made[SlotOf(g)] = g.key

\* A key in the backend is named by every record a crash may leave, as live, pending or
\* still to be destroyed, unless a worker created it after its operation was preempted:
\* no key is forgotten because one inspection, or a crash, did not see it.
KeysTracked ==
    \A s \in present \ late : \A r \in survivors :
        \/ r.pending # None /\ SlotOf(r.pending) = s
        \/ \E g \in Range(r.live) : SlotOf(g) = s
        \/ \E e \in Range(r.gc) : SlotOf(e) = s /\ ~Clean(e)

\* The key signs only while the delegating machine is in good standing, and never for
\* an epoch that an answered revocation ended, however long ago the capability was made.
SigningFenced ==
    signer.pc = "signing" => roster.active /\ signer.epoch > told.revoked

Undone(r, g) == r.hw < g \/ (r.pending # None /\ r.pending.gen = g)

\* A revocation, reactivation or activation whose commit was answered Ok survives
\* every crash. (The Ok of an activation that is found recorded is not among them: it
\* is given without a write.)
AnswersSurvive ==
    \A r \in survivors :
        /\ r.epoch >= told.epoch /\ r.epoch >= told.revoked
        /\ r.epoch = told.revoked => r.auth = "revoked"
        /\ \A g \in told.activated : ~Undone(r, g)

\* One generation number, one key: no two delegations with the same generation were
\* ever live with different keys, not even across a rollback of the record.
OneKeyPerGeneration == \A x, y \in bound : x[1] = y[1] => x = y

================================================================================
