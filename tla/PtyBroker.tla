------------------------------- MODULE PtyBroker -------------------------------
(* The PTY supervisor (terminal-rs): the broker that owns the shells of the local
   terminals, the execution tickets it keeps on disk, the registry of its sessions
   and the output logs it retains.

   A caller asks for an intent, a ticket file in the issued state, and may then
   send CREATE with it any number of times, late, in any order with CANCEL, and
   across the death of the broker: the requests carry no other state, so a request
   of the model is the broker handling it, at any time after the intent was issued.
   A request the broker refuses leaves the state as it is and is not a step.

   The registry mutex makes each request one step, except that a CREATE whose
   ticket is consumed has yet to start its process (lock). Reader threads, attached
   streams and the death of the process take steps of their own at any time.

   A ticket file has the content the broker reads (ticket) and the contents a loss
   of power may leave (after): what was written without a barrier may be there or
   not, and only a successful synchronisation decides. Tickets carry the
   conversation they were issued for (owner). A CREATE with another conversation
   or with another request digest is refused before anything changes.           *)
EXTENDS Naturals, FiniteSets

CONSTANTS
    Conv,          \* conversations (panes)
    NoConv,        \* not a conversation
    NIntents,      \* intents that may be issued
    NInst,         \* session instances that may be created
    IntentLimit,   \* MAX_INTENTS
    SessionLimit,  \* MAX_SESSIONS
    ArchiveLimit,  \* MAX_ARCHIVED_INSTANCES
    MaxFaults,     \* storage errors
    MaxCrashes     \* deaths of the broker, with or without a loss of power

Intent == 1..NIntents
Inst == 1..NInst
None == 0

ASSUME PtyAssumption ==
    /\ NoConv \notin Conv
    /\ NIntents \in Nat /\ NInst \in Nat
    /\ IntentLimit \in Nat \ {0} /\ SessionLimit \in Nat /\ ArchiveLimit \in Nat
    /\ MaxFaults \in Nat /\ MaxCrashes \in Nat

VARIABLES
    up,          \* a broker holds .broker.lock and serves
    ticket,      \* content of the ticket file of each intent
    after,       \* the contents a loss of power may leave of it
    owner,       \* conversation_id of the ticket, once issued
    sessions,    \* Registry.sessions: the current instance of each conversation
    retiring,    \* Registry.retiring: replaced instances still registered
    cache,       \* Registry.intents: the intents whose CREATE can reconnect
    lock,        \* the intent of a CREATE between consume and spawn, under the mutex
    st,          \* PtySession of each instance: its closed flag and its completion
    intentOf,    \* Entry.intent_id
    reader,      \* a stream attached to the instance, which holds its Entry
    dirs,        \* instances whose output log is on disk
    left,        \* faults and crashes still to come
    cancelled,   \* history: intents whose CANCEL was answered Ok
    barrierLost  \* history: a collection unlinked tickets and its barrier failed

disk == <<ticket, after, owner>>
registry == <<sessions, retiring, cache, lock>>
procs == <<st, intentOf, reader, dirs>>
history == <<cancelled, barrierLost>>
vars == <<up, disk, registry, procs, left, history>>

-------------------------------------------------------------------------------
(* Sessions.  An instance is open, closing (closed was set by close, the process
   is being killed and drained), ended (the reader thread published the completion
   and has yet to set closed), or over.                                         *)

Closed(n) == st[n] \in {"closing", "over"}
Done(n) == st[n] \in {"ended", "over"}
close(s) == CASE s = "open" -> "closing" [] s = "ended" -> "over" [] OTHER -> s
ConvOf(n) == owner[intentOf[n]]

Registered == ({sessions[c] : c \in Conv} \cup retiring) \ {None}

-------------------------------------------------------------------------------
(* The ticket store.                                                            *)

Files == {i \in Intent : ticket[i] # "none"}

\* Mutant: the barrier is taken to keep only the contents of present files.
Synced_mutant == [i \in Intent |-> after[i] \ {"none"}]

\* sync_directory: names are settled, and with them every record whose data was
\* synchronised before its rename; the data of an issued record never is.
Synced == [i \in Intent |-> IF ticket[i] = "issued" THEN after[i] \ {"none"} ELSE {ticket[i]}]

\* Mutant: the directory is not synchronised after the rename.
CommitConsumed_mutant(i) ==
    /\ ticket' = [ticket EXCEPT ![i] = "consumed"]
    /\ after' = [after EXCEPT ![i] = @ \cup {"consumed"}]
    /\ UNCHANGED owner

\* commit_consumed: .next is written and synchronised, renamed over the record, and
\* the directory synchronised.  A failure up to the rename leaves the record, a
\* later one leaves the rename without its barrier.
CommitConsumed(i) ==
    /\ ticket' = [ticket EXCEPT ![i] = "consumed"]
    /\ after' = [Synced EXCEPT ![i] = {"consumed"}]
    /\ UNCHANGED owner

CommitFails(i) ==
    /\ left.faults > 0
    /\ left' = [left EXCEPT !.faults = @ - 1]
    /\ \/ UNCHANGED <<ticket, after>>
       \/ /\ ticket' = [ticket EXCEPT ![i] = "consumed"]
          /\ after' = [after EXCEPT ![i] = @ \cup {"consumed"}]
    /\ UNCHANGED owner

\* Mutant: the sessions are not consulted.
ProtectedIntents_mutant == {}

\* The intents of open sessions, which the collection spares and which stay in the
\* cache of the registry.
ProtectedIntents ==
    {intentOf[sessions[c]] : c \in {d \in Conv : sessions[d] # None /\ ~Closed(sessions[d])}}

\* The collection of issue removes the oldest unprotected tickets down to the
\* target.  Ages are file times, which may stand in any order.
Target == IntentLimit - (IF IntentLimit \div 8 > 1 THEN IntentLimit \div 8 ELSE 1)

Collections ==
    LET loose == Files \ ProtectedIntents
        over  == IF Cardinality(Files) > Target THEN Cardinality(Files) - Target ELSE 0
        some  == IF Cardinality(loose) < over THEN Cardinality(loose) ELSE over
    IN  IF Cardinality(Files) < IntentLimit THEN {{}}
        ELSE {gone \in SUBSET loose : Cardinality(gone) = some}

Fresh(i) == owner[i] = NoConv /\ \A j \in 1..(i - 1) : owner[j] # NoConv

\* What issue leaves when the tickets in gone were unlinked: the directory is
\* synchronised only after a collection, the new record never is.
Unlinked(gone) == [i \in Intent |-> IF i \in gone THEN "none" ELSE ticket[i]]

\* Mutant: the directory is synchronised before the unlinks.
CollectedAfter_mutant(gone) ==
    [i \in Intent |->
        IF Cardinality(Files) < IntentLimit THEN after[i]
        ELSE Synced[i] \cup IF i \in gone THEN {"none"} ELSE {}]

CollectedAfter(gone) ==
    [i \in Intent |->
        IF Cardinality(Files) < IntentLimit THEN after[i]
        ELSE IF i \in gone THEN {"none"} ELSE Synced[i]]

IssueIntent(c, i) ==
    /\ up /\ lock = None /\ Fresh(i)
    /\ \E gone \in Collections :
          /\ Cardinality(Files \ gone) < IntentLimit
          /\ ticket' = [Unlinked(gone) EXCEPT ![i] = "issued"]
          /\ after' = [CollectedAfter(gone) EXCEPT ![i] = {"none", "torn", "issued"}]
    /\ owner' = [owner EXCEPT ![i] = c]
    /\ cache' = cache \cap ProtectedIntents
    /\ UNCHANGED <<up, sessions, retiring, lock, procs, left, history>>

\* intent_limit, or the new record cannot be created: the collection stands.
IssueRefused ==
    /\ up /\ lock = None
    /\ \E gone \in Collections :
          /\ ticket' = Unlinked(gone)
          /\ after' = CollectedAfter(gone)
    /\ cache' = cache \cap ProtectedIntents
    /\ UNCHANGED <<up, owner, sessions, retiring, lock, procs, left, history>>

\* A collection that fails, at an unlink or at its barrier.
IssueCollectFails ==
    /\ up /\ lock = None /\ left.faults > 0
    /\ Cardinality(Files) >= IntentLimit
    /\ \E whole \in Collections : \E gone \in SUBSET whole :
          /\ ticket' = Unlinked(gone)
          /\ after' = [i \in Intent |-> after[i] \cup IF i \in gone THEN {"none"} ELSE {}]
          /\ barrierLost' = (barrierLost \/ gone # {})
    /\ cache' = cache \cap ProtectedIntents
    /\ left' = [left EXCEPT !.faults = @ - 1]
    /\ UNCHANGED <<up, owner, sessions, retiring, lock, procs, cancelled>>

\* The write of the new record fails: an incomplete file stays and is counted.
IssueWriteFails(c, i) ==
    /\ up /\ lock = None /\ Fresh(i) /\ left.faults > 0
    /\ \E gone \in Collections :
          /\ Cardinality(Files \ gone) < IntentLimit
          /\ ticket' = [Unlinked(gone) EXCEPT ![i] = "torn"]
          /\ after' = [CollectedAfter(gone) EXCEPT ![i] = {"none", "torn"}]
    /\ owner' = [owner EXCEPT ![i] = c]
    /\ cache' = cache \cap ProtectedIntents
    /\ left' = [left EXCEPT !.faults = @ - 1]
    /\ UNCHANGED <<up, sessions, retiring, lock, procs, history>>

-------------------------------------------------------------------------------
(* prune_archives: completed instances nobody reads leave the registry, then the
   archive is cut to its budget.  An instance is not an archive while it is
   registered, or while someone holds its log and with it the writer lock.      *)

\* Mutant: a closed session is taken for a completed one.
Kept_mutant(n) == ~Closed(n) \/ reader[n] = "attached"

Kept(n) == ~Done(n) \/ reader[n] = "attached"
KeptSessions == [c \in Conv |-> IF sessions[c] # None /\ Kept(sessions[c]) THEN sessions[c] ELSE None]
\* Mutant: replaced instances are kept for good.
KeptRetiring_mutant == retiring

KeptRetiring == {n \in retiring : Kept(n)}
KeptInst == ({KeptSessions[c] : c \in Conv} \cup KeptRetiring) \ {None}

LogHeld(n) == reader[n] = "attached" \/ st[n] = "ended"
Archives == {n \in dirs : n \notin KeptInst /\ ~LogHeld(n)}

\* Instances beyond the count go, oldest first; the byte budget may take more.
PruneArchives ==
    \E gone \in SUBSET Archives :
        /\ Cardinality(Archives \ gone) <= ArchiveLimit
        /\ dirs' = dirs \ gone

Maintain ==
    /\ up /\ lock = None
    /\ PruneArchives
    /\ sessions' = KeptSessions /\ retiring' = KeptRetiring
    /\ UNCHANGED <<up, disk, cache, lock, st, intentOf, reader, left, history>>

\* A storage error stops the removal anywhere; the registry was cut before it.
MaintainFails ==
    /\ up /\ lock = None /\ left.faults > 0
    /\ \E gone \in SUBSET Archives : dirs' = dirs \ gone
    /\ sessions' = KeptSessions /\ retiring' = KeptRetiring
    /\ left' = [left EXCEPT !.faults = @ - 1]
    /\ UNCHANGED <<up, disk, cache, lock, st, intentOf, reader, history>>

-------------------------------------------------------------------------------
(* CREATE.                                                                      *)

\* The request is not a retry of a registered one, its ticket authorises it, no
\* session of the conversation is open and there is a slot, after the pruning.
CreateAdmitted(i) ==
    /\ i \notin cache
    /\ ticket[i] = "issued"
    /\ LET n == KeptSessions[owner[i]] IN n # None => Closed(n)
    /\ Cardinality({c \in Conv : KeptSessions[c] # None}) + Cardinality(KeptRetiring)
           < SessionLimit

CreateConsume(i) ==
    /\ up /\ lock = None
    /\ CreateAdmitted(i)
    /\ PruneArchives
    /\ sessions' = KeptSessions /\ retiring' = KeptRetiring
    /\ CommitConsumed(i)
    /\ lock' = i
    /\ UNCHANGED <<up, cache, st, intentOf, reader, left, history>>

CreateConsumeFails(i) ==
    /\ up /\ lock = None
    /\ CreateAdmitted(i)
    /\ PruneArchives
    /\ sessions' = KeptSessions /\ retiring' = KeptRetiring
    /\ CommitFails(i)
    /\ UNCHANGED <<up, cache, lock, st, intentOf, reader, history>>

FreshInst(n) == st[n] = "unborn" /\ \A m \in 1..(n - 1) : st[m] # "unborn"

\* The log is opened, the process started, the session registered; a closed session
\* of the conversation moves to retiring.
CreateSpawn(n) ==
    /\ up /\ lock # None /\ FreshInst(n)
    /\ st' = [st EXCEPT ![n] = "open"]
    /\ intentOf' = [intentOf EXCEPT ![n] = lock]
    /\ dirs' = dirs \cup {n}
    /\ cache' = cache \cup {lock}
    /\ sessions' = [sessions EXCEPT ![owner[lock]] = n]
    /\ retiring' = retiring \cup ({sessions[owner[lock]]} \ {None})
    /\ lock' = None
    /\ UNCHANGED <<up, disk, reader, left, history>>

\* spawn_failed, or the log could not be opened: the ticket stays consumed.
CreateSpawnFails ==
    /\ up /\ lock # None
    /\ \/ UNCHANGED <<st, dirs>>
       \/ \E n \in Inst : /\ FreshInst(n)
                          /\ st' = [st EXCEPT ![n] = "over"]
                          /\ dirs' = dirs \cup {n}
    /\ lock' = None
    /\ UNCHANGED <<up, disk, sessions, retiring, cache, intentOf, reader, left, history>>

-------------------------------------------------------------------------------
(* CANCEL_CREATE, CLOSE and ATTACH.                                             *)

\* An absent or unreadable ticket needs no revocation; any other one is replaced by
\* a synchronised consumed record.  A session of the intent is closed.
CancelCreate(i) ==
    /\ up /\ lock = None /\ owner[i] # NoConv
    /\ IF ticket[i] \in {"issued", "consumed"}
       THEN CommitConsumed(i)
       ELSE UNCHANGED disk
    /\ st' = LET n == sessions[owner[i]]
             IN  IF n # None /\ intentOf[n] = i
                 THEN [st EXCEPT ![n] = close(@)] ELSE st
    /\ cancelled' = cancelled \cup {i}
    /\ UNCHANGED <<up, registry, intentOf, reader, dirs, left, barrierLost>>

CancelFails(i) ==
    /\ up /\ lock = None
    /\ ticket[i] \in {"issued", "consumed"}
    /\ CommitFails(i)
    /\ UNCHANGED <<up, registry, procs, history>>

\* The instance is compared and closed under one lock.
Close(n) ==
    /\ up /\ lock = None
    /\ \E c \in Conv : sessions[c] = n
    /\ ~Closed(n)
    /\ st' = [st EXCEPT ![n] = close(@)]
    /\ UNCHANGED <<up, disk, registry, intentOf, reader, dirs, left, history>>

\* A stream clones the Entry it finds in the registry and holds it.  One stream per
\* instance is modelled.
Attach(n) ==
    /\ up /\ lock = None
    /\ \E c \in Conv : sessions[c] = n
    /\ reader[n] = "no"
    /\ reader' = [reader EXCEPT ![n] = "attached"]
    /\ UNCHANGED <<up, disk, registry, st, intentOf, dirs, left, history>>

\* The peer goes away, or a send to it timed out.
Detach(n) ==
    /\ reader[n] = "attached"
    /\ reader' = [reader EXCEPT ![n] = "left"]
    /\ UNCHANGED <<up, disk, registry, st, intentOf, dirs, left, history>>

\* stream_session sends EXIT and returns.
ExitSent(n) ==
    /\ reader[n] = "attached" /\ Done(n)
    /\ reader' = [reader EXCEPT ![n] = "left"]
    /\ UNCHANGED <<up, disk, registry, st, intentOf, dirs, left, history>>

-------------------------------------------------------------------------------
(* The reader thread of a session.                                              *)

\* The process ends by itself; the output is drained and the completion published.
ProcessEnds(n) ==
    /\ st[n] = "open"
    /\ st' = [st EXCEPT ![n] = "ended"]
    /\ UNCHANGED <<up, disk, registry, intentOf, reader, dirs, left, history>>

\* The log cannot take the output: the thread closes the session.
AppendFails(n) ==
    /\ st[n] = "open" /\ left.faults > 0
    /\ st' = [st EXCEPT ![n] = close(@)]
    /\ left' = [left EXCEPT !.faults = @ - 1]
    /\ UNCHANGED <<up, disk, registry, intentOf, reader, dirs, history>>

\* The killed processes have let go of the terminal: its master is drained to the end
\* and the session completed.  close signals the processes listed on the terminal
\* and the leader; a descendant in a session of its own that keeps the slave open
\* keeps the reader thread from its end for as long as it likes.
KillDrained(n) ==
    /\ st[n] = "closing"
    /\ st' = [st EXCEPT ![n] = "over"]
    /\ UNCHANGED <<up, disk, registry, intentOf, reader, dirs, left, history>>

\* The flag follows the completion.
MarkClosed(n) ==
    /\ st[n] = "ended"
    /\ st' = [st EXCEPT ![n] = "over"]
    /\ UNCHANGED <<up, disk, registry, intentOf, reader, dirs, left, history>>

-------------------------------------------------------------------------------
(* Death and start of the broker.  The master sides of the terminals close with it,
   which hangs the shells up; the kernel gives up its locks.                    *)

Die ==
    /\ up /\ left.crashes > 0
    /\ up' = FALSE
    /\ left' = [left EXCEPT !.crashes = @ - 1]
    /\ sessions' = [c \in Conv |-> None] /\ retiring' = {} /\ cache' = {} /\ lock' = None
    /\ st' = [n \in Inst |-> IF st[n] = "unborn" THEN "unborn" ELSE "over"]
    /\ reader' = [n \in Inst |-> IF reader[n] = "attached" THEN "left" ELSE reader[n]]
    /\ UNCHANGED <<owner, intentOf, history>>

KillBroker == Die /\ UNCHANGED <<ticket, after, dirs>>

\* The logs have no barrier: any of them may be missing.
PowerLoss ==
    /\ Die
    /\ ticket' \in [Intent -> {"none", "torn", "issued", "consumed"}]
    /\ \A i \in Intent : ticket'[i] \in after[i]
    /\ after' = [i \in Intent |-> {ticket'[i]}]
    /\ dirs' \in SUBSET dirs

\* serve: the locks are free, .next files are removed, the registry is empty.
Start ==
    /\ ~up
    /\ up' = TRUE
    /\ UNCHANGED <<disk, registry, procs, left, history>>

-------------------------------------------------------------------------------

Init ==
    /\ up = FALSE
    /\ ticket = [i \in Intent |-> "none"]
    /\ after = [i \in Intent |-> {"none"}]
    /\ owner = [i \in Intent |-> NoConv]
    /\ sessions = [c \in Conv |-> None]
    /\ retiring = {} /\ cache = {} /\ lock = None
    /\ st = [n \in Inst |-> "unborn"]
    /\ intentOf = [n \in Inst |-> None]
    /\ reader = [n \in Inst |-> "no"]
    /\ dirs = {}
    /\ left = [faults |-> MaxFaults, crashes |-> MaxCrashes]
    /\ cancelled = {} /\ barrierLost = FALSE

CreateStep == (\E n \in Inst : CreateSpawn(n)) \/ CreateSpawnFails

Next ==
    \/ \E c \in Conv, i \in Intent : IssueIntent(c, i) \/ IssueWriteFails(c, i)
    \/ IssueRefused \/ IssueCollectFails
    \/ \E i \in Intent : CreateConsume(i) \/ CreateConsumeFails(i)
    \/ CreateStep
    \/ \E i \in Intent : CancelCreate(i) \/ CancelFails(i)
    \/ \E n \in Inst : Close(n) \/ Attach(n) \/ Detach(n) \/ ExitSent(n)
    \/ \E n \in Inst : ProcessEnds(n) \/ AppendFails(n) \/ KillDrained(n) \/ MarkClosed(n)
    \/ Maintain \/ MaintainFails
    \/ KillBroker \/ PowerLoss \/ Start

\* Threads of a live broker go on: the CREATE under the mutex, a reader thread that
\* has published its completion, the streams, and the maintenance tick.  Nothing
\* forces the drain of a closed session: KillDrained waits for the terminal.
Fairness ==
    /\ WF_vars(CreateStep)
    /\ WF_vars(Maintain)
    /\ \A n \in Inst : WF_vars(MarkClosed(n)) /\ WF_vars(ExitSent(n))

Spec == Init /\ [][Next]_vars
FairSpec == Spec /\ Fairness

-------------------------------------------------------------------------------
(* Properties.                                                                  *)

\* Every variable has its type; the cache and the registry speak of issued intents,
\* and what the broker reads of a ticket is one of the contents it may have later.
TypeOK ==
    /\ up \in BOOLEAN /\ barrierLost \in BOOLEAN
    /\ ticket \in [Intent -> {"none", "torn", "issued", "consumed"}]
    /\ after \in [Intent -> SUBSET {"none", "torn", "issued", "consumed"}]
    /\ \A i \in Intent : ticket[i] \in after[i]
    /\ owner \in [Intent -> Conv \cup {NoConv}]
    /\ sessions \in [Conv -> Inst \cup {None}]
    /\ retiring \subseteq Inst
    /\ cache \subseteq {i \in Intent : owner[i] # NoConv}
    /\ cancelled \subseteq {i \in Intent : owner[i] # NoConv}
    /\ lock \in Intent \cup {None}
    /\ st \in [Inst -> {"unborn", "open", "closing", "ended", "over"}]
    /\ intentOf \in [Inst -> Intent \cup {None}]
    /\ reader \in [Inst -> {"no", "attached", "left"}]
    /\ dirs \subseteq Inst
    /\ left \in [faults : 0..MaxFaults, crashes : 0..MaxCrashes]

\* An intent starts its command at most once (IntentStore, "collecting a consumed
\* ticket can therefore never authorize its replay"): over retries, a refused
\* CREATE, a collection, a death between consume and spawn, and a loss of power.
AtMostOnce ==
    \A m, n \in Inst : intentOf[m] # None /\ intentOf[m] = intentOf[n] => m = n

\* An answered CANCEL fences the intent: no session of it is open, and none opens
\* later, whatever CREATE is still on its way (cancel_create).  Unless the barrier of
\* a collection failed: cancel takes the absence of a ticket for its revocation.
CancelFences ==
    ~barrierLost =>
        \A n \in Inst : intentOf[n] \in cancelled => st[n] # "open"

\* An open session is the one its conversation's requests reach, a retry of its CREATE
\* reconnects to it, and its ticket is consumed for good: the collection, the pruning
\* and a replacement never lose a shell that runs.
OpenReachable ==
    \A n \in Inst : st[n] = "open" =>
        /\ sessions[ConvOf(n)] = n
        /\ intentOf[n] \in cache
        /\ after[intentOf[n]] = {"consumed"}

\* The log of a session that still writes, or that a stream still reads, is on disk:
\* the retention of archives never takes it.
OutputKept ==
    \A n \in Inst : st[n] \in {"open", "closing"} \/ reader[n] = "attached" => n \in dirs

\* A session whose completion was published gives its slot back, also after it was
\* replaced, while a stream still reads it, and without any further request: the
\* maintenance tick drops it.
SlotsReclaimed ==
    \A n \in Inst : (n \in Registered /\ Done(n)) ~> (n \notin Registered)

===============================================================================
