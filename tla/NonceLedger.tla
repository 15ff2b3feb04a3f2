------------------------------ MODULE NonceLedger ------------------------------
(***************************************************************************)
(* The replay ledger of signed connection intents.                         *)
(*                                                                         *)
(* Sessions of several processes present intents; a nonce may be consumed  *)
(* once.  Each process has one worker behind a queue of one request; the   *)
(* worker holds the lifecycle lock shared and the lock of the ledger       *)
(* through a read, modify and write of one record.  A marker in the lock   *)
(* file is dirty from before a record is replaced until the new one is     *)
(* known to be durable.  Rows are removed when the trusted time of a       *)
(* request is past them.                                                   *)
(*                                                                         *)
(* As in HouseholdInstall a file is what is visible (vis) and what is      *)
(* known to survive a power loss (dur), and a process killed inside a      *)
(* write is a failed write followed by the death of the process.           *)
(***************************************************************************)
EXTENDS Naturals, Sequences, FiniteSets

CONSTANTS
    Intent,       \* intents, each with a nonce of its own
    NotAfter,     \* the last second of each intent
    Proc,         \* processes that open the ledger
    Caller,       \* sessions that present intents
    Home,         \* the process each session runs in
    NoProc, NoCaller,
    Capacity,     \* rows the record may hold
    MaxTime,      \* bound: the trusted time
    MaxFaults,    \* bound: writes that fail
    MaxCrashes,   \* bound: processes that die and power losses
    MaxGiveUps    \* bound: sessions that give up

ASSUME LedgerAssumption ==
    /\ Intent # {}
    /\ NotAfter \in [Intent -> Nat]
    /\ Home \in [Caller -> Proc]
    /\ NoProc \notin Proc /\ NoCaller \notin Caller
    /\ Capacity \in Nat \ {0}
    /\ MaxTime \in Nat /\ MaxFaults \in Nat /\ MaxCrashes \in Nat /\ MaxGiveUps \in Nat

VARIABLES
    clock,    \* the durable wall floor of the roster
    vis,      \* the record and the marker, as the processes see them
    dur,      \* what of them survives a power loss
    torn,     \* the household has been detached by a teardown
    holder,   \* the process that holds the lock of the ledger
    proc,     \* where the worker of each process stands
    queue,    \* the request that waits for each worker
    caller,   \* the sessions
    won,      \* history: sessions that have been told Committed
    seen,     \* history: intents answered Committed or AlreadyConsumed
    maybe,    \* history: intents answered MayHaveTakenEffect, or not at all
    gone,     \* history: intents whose row has been removed
    top,      \* history: the highest floor a record was written with
    stale,    \* history: a request has been served with a lower floor than top
    corrupt,  \* history: an open has found its files corrupt
    left      \* what is left of the bounds

vars == <<clock, vis, dur, torn, holder, proc, queue, caller, won, seen, maybe, gone,
          top, stale, corrupt, left>>
disk == <<vis, dur>>
answers == <<won, seen, maybe>>
history == <<gone, top, stale, corrupt>>

-----------------------------------------------------------------------------
(* Types.                                                                  *)

\* The floor is taken when the session asks, long before the worker uses it.
Request == [c : Caller \cup {NoCaller}, i : Intent, fl : Nat]

\* The marker in the lock file: initializing, clean, dirty; empty, or cut short
\* inside the common prefix; cut short behind it.
Marker == {"I", "C", "D", "empty", "part"}
Files == [has : BOOLEAN, ents : SUBSET Intent, mark : Marker]

Pc == {"down", "openLock", "inspect", "initMark", "initRecord", "openRecord", "openMark",
       "idle", "lock", "load", "againRecord", "againMark", "dirty", "replace", "clean"}
Worker == [pc : Pc, req : Request]

NoRequest == [c |-> NoCaller, i |-> CHOOSE i \in Intent : TRUE, fl |-> 0]
Closed == [pc |-> "down", req |-> NoRequest]
Session == [pc : {"idle", "poll", "wait"}, i : Intent, fl : Nat]
Idle == [pc |-> "idle", i |-> NoRequest.i, fl |-> 0]

-----------------------------------------------------------------------------
(* Faults and writes.                                                      *)

Fault == left.faults > 0 /\ left' = [left EXCEPT !.faults = @ - 1]

\* A marker is truncated, written and synced in place: cut short it is empty, or it has
\* some of the bytes that were being written.
Torn(m) == {"empty", m} \cup IF m \in {"I", "empty"} THEN {} ELSE {"part"}
MarkerWritten(m) ==
    /\ vis' = [vis EXCEPT !.mark = m]
    /\ dur' = [dur EXCEPT !.mark = m]
    /\ UNCHANGED left
MarkerFailed(m) ==
    /\ Fault
    /\ UNCHANGED dur
    /\ \/ UNCHANGED vis
       \/ \E t \in Torn(m) : vis' = [vis EXCEPT !.mark = t]

\* atomic_replace: temporary file, rename, barrier of the directory, readback.
WithRecord(f, ents) == [f EXCEPT !.has = TRUE, !.ents = ents]
Committed(ents) ==
    /\ vis' = WithRecord(vis, ents)
    /\ dur' = WithRecord(dur, ents)
    /\ UNCHANGED left
NotCommitted == Fault /\ UNCHANGED disk
Uncertain(ents) ==
    /\ Fault
    /\ vis' = WithRecord(vis, ents)
    /\ dur' \in {dur, WithRecord(dur, ents)}

Goto(p, pc) == proc' = [proc EXCEPT ![p].pc = pc]

-----------------------------------------------------------------------------
(* Sessions.                                                               *)

\* HouseholdIntentNonceLedger.consume takes the floor, and consume refuses an intent
\* that has expired by it.
Opened == {"idle", "lock", "load", "againRecord", "againMark", "dirty", "replace", "clean"}
Ask(c, i) ==
    /\ caller[c].pc = "idle" /\ proc[Home[c]].pc \in Opened
    /\ NotAfter[i] > clock
    /\ caller' = [caller EXCEPT ![c] = [pc |-> "poll", i |-> i, fl |-> clock]]
    /\ UNCHANGED <<clock, disk, torn, holder, proc, queue, answers, history, left>>

\* Mutant: the queue takes whatever comes.
Send_mutant(c) ==
    LET s == caller[c] IN
    /\ s.pc = "poll"
    /\ queue' = [queue EXCEPT ![Home[c]] = Append(@, [c |-> c, i |-> s.i, fl |-> s.fl])]
    /\ caller' = [caller EXCEPT ![c].pc = "wait"]
    /\ UNCHANGED <<clock, disk, torn, holder, proc, answers, history, left>>
\* The queue of the worker holds WORKER_QUEUE_CAPACITY = 1 request.
Send(c) ==
    LET s == caller[c] IN
    /\ s.pc = "poll"
    /\ Len(queue[Home[c]]) < 1
    /\ queue' = [queue EXCEPT ![Home[c]] = Append(@, [c |-> c, i |-> s.i, fl |-> s.fl])]
    /\ caller' = [caller EXCEPT ![c].pc = "wait"]
    /\ UNCHANGED <<clock, disk, torn, holder, proc, answers, history, left>>

\* The deadline passes or the session is cancelled.  A request that the worker may
\* own is MayHaveTakenEffect, and the worker goes on with it.
Abandon(c, r) == IF r.c = c THEN [r EXCEPT !.c = NoCaller] ELSE r
GiveUp(c) ==
    LET s == caller[c] IN
    /\ s.pc # "idle"
    /\ left.giveups > 0 /\ left' = [left EXCEPT !.giveups = @ - 1]
    /\ caller' = [caller EXCEPT ![c] = Idle]
    /\ IF s.pc = "wait"
       THEN /\ maybe' = maybe \cup {s.i}
            /\ queue' = [p \in Proc |-> [k \in DOMAIN queue[p] |-> Abandon(c, queue[p][k])]]
            /\ proc' = [p \in Proc |-> [proc[p] EXCEPT !.req = Abandon(c, @)]]
       ELSE UNCHANGED <<maybe, queue, proc>>
    /\ UNCHANGED <<clock, disk, torn, holder, won, seen, history>>

\* The worker's outcome reaches the session that still waits for it.
Answer(p, outcome) ==
    LET r == proc[p].req
        heard == r.c # NoCaller
    IN  /\ proc' = [proc EXCEPT ![p] = [pc |-> "idle", req |-> NoRequest]]
        /\ holder' = IF holder = p THEN NoProc ELSE holder
        /\ caller' = IF heard THEN [caller EXCEPT ![r.c] = Idle] ELSE caller
        /\ won' = IF heard /\ outcome = "Committed" THEN [won EXCEPT ![r.i] = @ + 1] ELSE won
        /\ seen' = IF heard /\ outcome \in {"Committed", "AlreadyConsumed"}
                   THEN seen \cup {r.i} ELSE seen
        /\ maybe' = IF outcome = "MayHaveTakenEffect" THEN maybe \cup {r.i} ELSE maybe

-----------------------------------------------------------------------------
(* The worker: consume_in_worker and commit_semantic.                      *)

WorkerFrame == UNCHANGED <<clock, torn, queue>>
NoAnswer == UNCHANGED <<holder, caller, answers>>

Receive(p) ==
    /\ proc[p].pc = "idle" /\ queue[p] # <<>>
    /\ proc' = [proc EXCEPT ![p] = [pc |-> "lock", req |-> Head(queue[p])]]
    /\ queue' = [queue EXCEPT ![p] = Tail(@)]
    /\ UNCHANGED <<clock, disk, torn, holder, caller, answers, history, left>>

\* Mutant: the directories are not checked.
verify_authority_binding_mutant == TRUE
\* The state root still has the household and the store that were opened.
verify_authority_binding == ~torn

\* Mutant: the lock of the ledger is not exclusive.
Acquire_mutant(p) ==
    /\ proc[p].pc = "lock"
    /\ Goto(p, "load")
    /\ UNCHANGED <<disk, history, left, holder, caller, answers>>
    /\ WorkerFrame
\* The locks, with their timeout, and the binding under them.
Acquire(p) ==
    /\ proc[p].pc = "lock"
    /\ \/ /\ verify_authority_binding /\ holder = NoProc
          /\ holder' = p
          /\ Goto(p, "load")
          /\ UNCHANGED <<caller, answers>>
       \/ /\ ~verify_authority_binding \/ holder # NoProc
          /\ Answer(p, "Unavailable")
    /\ UNCHANGED <<disk, history, left>>
    /\ WorkerFrame

\* Rows are kept up to and including their last second.
Retained(ents, fl) == {i \in ents : fl <= NotAfter[i]}

\* consume_in_worker once the record is known to be durable.
Decide(p) ==
    LET r == proc[p].req
        ents == Retained(vis.ents, r.fl)
    IN  /\ stale' = (stale \/ r.fl < top)
        /\ CASE r.i \in ents -> Answer(p, "AlreadyConsumed")
             [] r.i \notin ents /\ Cardinality(ents) >= Capacity -> Answer(p, "Unavailable")
             [] OTHER -> Goto(p, "dirty") /\ NoAnswer

\* Mutant: what is visible is trusted.
Load_mutant(p) ==
    /\ proc[p].pc = "load"
    /\ Decide(p)
    /\ UNCHANGED <<disk, gone, top, corrupt, left>>
    /\ WorkerFrame
\* load_clean_record: without a clean marker the visible record is written again
\* before it is trusted.
Load(p) ==
    /\ proc[p].pc = "load"
    /\ CASE vis.mark = "C" /\ vis.has -> Decide(p)
         [] vis.mark # "C" /\ vis.has ->
              Goto(p, "againRecord") /\ NoAnswer /\ UNCHANGED stale
         [] OTHER -> Answer(p, "Unavailable") /\ UNCHANGED stale
    /\ UNCHANGED <<disk, gone, top, corrupt, left>>
    /\ WorkerFrame

\* recover_visible_for_consume
AgainRecord(p) ==
    /\ proc[p].pc = "againRecord"
    /\ \/ Committed(vis.ents) /\ Goto(p, "againMark") /\ NoAnswer
       \/ (NotCommitted \/ Uncertain(vis.ents)) /\ Answer(p, "Unavailable")
    /\ UNCHANGED history /\ WorkerFrame

AgainMark(p) ==
    /\ proc[p].pc = "againMark"
    /\ \/ MarkerWritten("C") /\ Goto(p, "load") /\ NoAnswer
       \/ MarkerFailed("C") /\ Answer(p, "Unavailable")
    /\ UNCHANGED history /\ WorkerFrame

\* The marker is dirty before the record can change.
MarkDirty(p) ==
    /\ proc[p].pc = "dirty"
    /\ \/ MarkerWritten("D") /\ Goto(p, "replace") /\ NoAnswer
       \/ MarkerFailed("D") /\ Answer(p, "Unavailable")
    /\ UNCHANGED history /\ WorkerFrame

NewEntries(p) == Retained(vis.ents, proc[p].req.fl) \cup {proc[p].req.i}
Rewritten(p) ==
    /\ gone' = gone \cup (vis.ents \ NewEntries(p))
    /\ top' = IF proc[p].req.fl > top THEN proc[p].req.fl ELSE top

\* Mutant: a failed barrier counts as a failed rename.
Replace_mutant(p) ==
    /\ proc[p].pc = "replace"
    /\ \/ Committed(NewEntries(p)) /\ Rewritten(p) /\ Goto(p, "clean") /\ NoAnswer
       \/ NotCommitted /\ UNCHANGED <<gone, top>> /\ Answer(p, "Unavailable")
       \/ Uncertain(NewEntries(p)) /\ Rewritten(p) /\ Answer(p, "Unavailable")
    /\ UNCHANGED <<stale, corrupt>> /\ WorkerFrame
\* A write that failed before its rename has had no effect; after it, it may have.
Replace(p) ==
    /\ proc[p].pc = "replace"
    /\ \/ Committed(NewEntries(p)) /\ Rewritten(p) /\ Goto(p, "clean") /\ NoAnswer
       \/ NotCommitted /\ UNCHANGED <<gone, top>> /\ Answer(p, "Unavailable")
       \/ Uncertain(NewEntries(p)) /\ Rewritten(p) /\ Answer(p, "MayHaveTakenEffect")
    /\ UNCHANGED <<stale, corrupt>> /\ WorkerFrame

MarkClean(p) ==
    /\ proc[p].pc = "clean"
    /\ \/ MarkerWritten("C") /\ Answer(p, "Committed")
       \/ MarkerFailed("C") /\ Answer(p, "MayHaveTakenEffect")
    /\ UNCHANGED history /\ WorkerFrame

-----------------------------------------------------------------------------
(* Opening the ledger: initialize_or_recover.                              *)

OpenFrame == UNCHANGED <<clock, torn, queue, caller, answers, gone, top, stale>>
OpenFailed(p) == Goto(p, "down") /\ holder' = NoProc
OpenStep(p, pc) == Goto(p, pc) /\ UNCHANGED holder

Open(p) ==
    /\ proc[p].pc = "down" /\ ~torn
    /\ Goto(p, "openLock")
    /\ UNCHANGED <<disk, holder, corrupt, left>> /\ OpenFrame

OpenLock(p) ==
    /\ proc[p].pc = "openLock"
    /\ IF verify_authority_binding /\ holder = NoProc
       THEN holder' = p /\ Goto(p, "inspect")
       ELSE Goto(p, "down") /\ UNCHANGED holder
    /\ UNCHANGED <<disk, corrupt, left>> /\ OpenFrame

Inspect(p) ==
    /\ proc[p].pc = "inspect"
    /\ CASE vis.has /\ vis.mark = "C" -> Goto(p, "idle") /\ holder' = NoProc
         [] vis.has /\ vis.mark # "C" -> OpenStep(p, "openRecord")
         [] ~vis.has /\ vis.mark \in {"empty", "I"} -> OpenStep(p, "initMark")
         [] OTHER -> OpenFailed(p)
    /\ corrupt' = (corrupt \/ (~vis.has /\ vis.mark \notin {"empty", "I"}))
    /\ UNCHANGED <<disk, left>> /\ OpenFrame

\* Mutant: a fresh ledger starts as a dirty one.
InitMark_mutant(p) ==
    /\ proc[p].pc = "initMark"
    /\ MarkerWritten("D") /\ OpenStep(p, "initRecord")
    /\ UNCHANGED corrupt /\ OpenFrame
\* initialize_fresh_under_lock
InitMark(p) ==
    /\ proc[p].pc = "initMark"
    /\ \/ MarkerWritten("I") /\ OpenStep(p, "initRecord")
       \/ MarkerFailed("I") /\ OpenFailed(p)
    /\ UNCHANGED corrupt /\ OpenFrame

InitRecord(p) ==
    /\ proc[p].pc = "initRecord"
    /\ \/ Committed({}) /\ OpenStep(p, "openMark")
       \/ (NotCommitted \/ Uncertain({})) /\ OpenFailed(p)
    /\ UNCHANGED corrupt /\ OpenFrame

\* stabilize_visible_under_lock
OpenRecord(p) ==
    /\ proc[p].pc = "openRecord"
    /\ \/ Committed(vis.ents) /\ OpenStep(p, "openMark")
       \/ (NotCommitted \/ Uncertain(vis.ents)) /\ OpenFailed(p)
    /\ UNCHANGED corrupt /\ OpenFrame

OpenMark(p) ==
    /\ proc[p].pc = "openMark"
    /\ \/ MarkerWritten("C") /\ Goto(p, "idle") /\ holder' = NoProc
       \/ MarkerFailed("C") /\ OpenFailed(p)
    /\ UNCHANGED corrupt /\ OpenFrame

-----------------------------------------------------------------------------
(* The environment.                                                        *)

\* observe_wall_floor: the floor never goes back, over restarts either.
Tick ==
    /\ clock < MaxTime
    /\ clock' = clock + 1
    /\ UNCHANGED <<disk, torn, holder, proc, queue, caller, answers, history, left>>

\* A teardown holds the lifecycle lock exclusively: no transaction is under way.
Teardown ==
    /\ ~torn /\ holder = NoProc
    /\ torn' = TRUE
    /\ UNCHANGED <<clock, disk, holder, proc, queue, caller, answers, history, left>>

CrashLeft == left.crashes > 0 /\ left' = [left EXCEPT !.crashes = @ - 1]

\* A request that died behind the replacement of the record has had its effect.
Died(ps) ==
    /\ maybe' = maybe \cup {proc[p].req.i : p \in {q \in ps : proc[q].pc = "clean"}}
    /\ proc' = [p \in Proc |-> IF p \in ps THEN Closed ELSE proc[p]]
    /\ queue' = [p \in Proc |-> IF p \in ps THEN <<>> ELSE queue[p]]
    /\ caller' = [c \in Caller |-> IF Home[c] \in ps THEN Idle ELSE caller[c]]
    /\ holder' = IF holder \in ps THEN NoProc ELSE holder

Crash(p) ==
    /\ CrashLeft
    /\ proc[p].pc # "down"
    /\ Died({p})
    /\ UNCHANGED <<clock, disk, torn, won, seen, history>>

PowerLoss ==
    /\ CrashLeft
    /\ Died(Proc)
    /\ \E r \in {vis, dur}, m \in {vis.mark, dur.mark} \cup
                                  IF vis.mark # dur.mark THEN Torn(vis.mark) ELSE {} :
          vis' = [r EXCEPT !.mark = m]
    /\ dur' = vis'
    /\ UNCHANGED <<clock, torn, won, seen, history>>

-----------------------------------------------------------------------------

Fresh == [has |-> FALSE, ents |-> {}, mark |-> "empty"]

Init ==
    /\ clock = 0
    /\ vis = Fresh /\ dur = Fresh
    /\ torn = FALSE
    /\ holder = NoProc
    /\ proc = [p \in Proc |-> Closed]
    /\ queue = [p \in Proc |-> <<>>]
    /\ caller = [c \in Caller |-> Idle]
    /\ won = [i \in Intent |-> 0]
    /\ seen = {} /\ maybe = {} /\ gone = {}
    /\ top = 0
    /\ stale = FALSE /\ corrupt = FALSE
    /\ left = [faults |-> MaxFaults, crashes |-> MaxCrashes, giveups |-> MaxGiveUps]

Work(p) ==
    \/ Receive(p) \/ Acquire(p) \/ Load(p) \/ AgainRecord(p) \/ AgainMark(p)
    \/ MarkDirty(p) \/ Replace(p) \/ MarkClean(p)
    \/ OpenLock(p) \/ Inspect(p) \/ InitMark(p) \/ InitRecord(p) \/ OpenRecord(p)
    \/ OpenMark(p)

Next ==
    \/ \E p \in Proc : Work(p) \/ Open(p) \/ Crash(p)
    \/ \E c \in Caller : Send(c) \/ GiveUp(c)
    \/ \E c \in Caller, i \in Intent : Ask(c, i)
    \/ Tick \/ Teardown \/ PowerLoss

Spec == Init /\ [][Next]_vars

-----------------------------------------------------------------------------
(* Properties.                                                             *)

\* Every variable has its type, and a queue holds at most one request.
TypeOK ==
    /\ clock \in Nat /\ top \in Nat
    /\ vis \in Files /\ dur \in Files
    /\ torn \in BOOLEAN /\ stale \in BOOLEAN /\ corrupt \in BOOLEAN
    /\ holder \in Proc \cup {NoProc}
    /\ proc \in [Proc -> Worker]
    /\ queue \in [Proc -> Seq(Request)]
    /\ \A p \in Proc : Len(queue[p]) <= 1
    /\ caller \in [Caller -> Session]
    /\ won \in [Intent -> Nat]
    /\ seen \subseteq Intent /\ maybe \subseteq Intent /\ gone \subseteq Intent
    /\ left \in [faults : Nat, crashes : Nat, giveups : Nat]

\* A session that has been told that a nonce is consumed can rely on it: the row is
\* durable, whichever process wrote it and however its writes failed, until trusted
\* time has passed it.
AnsweredDurable == \A i \in seen : i \in gone \/ (dur.has /\ i \in dur.ents)

\* The contract of NonceConsumeOutcome::Committed, as far as the ledger keeps it:
\* exactly one session is told Committed for a nonce, over processes, crashes and
\* power losses, if no request is served with a floor that another has overtaken.
CommittedOnce == ~stale => \A i \in Intent : won[i] <= 1

\* may_have_changed_record: a nonce whose requests have all been refused is not
\* consumed; a row stands for an answer, a lost answer, or a request that is about
\* to be answered.
NoSilentConsume ==
    \A i \in vis.ents \cup dur.ents :
        i \in seen \cup maybe \/ \E p \in Proc : proc[p].pc = "clean" /\ proc[p].req.i = i

\* No crash and no failed write leaves files that an open takes for a deletion.
NeverCorrupt == ~corrupt

\* A worker that was queued behind a teardown does not write to the household that
\* was detached.
DetachedUntouched == [][torn /\ left' = left => UNCHANGED vis]_vars

\* "Exactly one caller ever observes this for a given key", without the proviso.
ExactlyOneCommitted == \A i \in Intent : won[i] <= 1
=============================================================================
