--------------------------- MODULE NonceLedger_proofs ---------------------------
(* Proofs about NonceLedger.                                               *)
EXTENDS NonceLedger, SequenceTheorems, TLAPS

-----------------------------------------------------------------------------
(* The inductive invariant, in parts.                                      *)

\* The steps a worker takes under the lock of the ledger.
Hold == {"inspect", "initMark", "initRecord", "openRecord", "openMark",
         "load", "againRecord", "againMark", "dirty", "replace", "clean"}

\* The lock is exclusive, and a teardown does not happen under it.
LockInv ==
    /\ \A p \in Proc : proc[p].pc \in Hold <=> holder = p
    /\ torn => holder = NoProc

\* The visible record is known to survive a power loss.
Same == vis.has /\ dur.has /\ vis.ents = dur.ents

\* What the holder of the lock has established.
Established(p) ==
    /\ proc[p].pc \in {"initMark", "initRecord"} => ~vis.has
    /\ proc[p].pc \in {"openRecord", "againRecord"} => vis.has /\ vis.mark # "C"
    /\ proc[p].pc \in {"openMark", "againMark", "dirty", "replace", "clean"} => Same
    /\ proc[p].pc = "replace" => vis.mark = "D"
    /\ proc[p].pc = "clean" => proc[p].req.i \in vis.ents

\* The record is created before a marker is written that an open would miss it by, and
\* a clean marker vouches for the record.
FileInv ==
    /\ ~vis.has => ~dur.has
    /\ ~dur.has => vis.mark \in {"empty", "I"} /\ dur.mark \in {"empty", "I"}
    /\ vis.has /\ vis.mark = "C" => Same
    /\ \A p \in Proc : Established(p)

\* The row of an answered intent is in what is visible and in what is durable.
DurableInv ==
    \A i \in seen : i \in gone \/ (vis.has /\ dur.has /\ i \in vis.ents /\ i \in dur.ents)

Serving == {"lock", "load", "againRecord", "againMark", "dirty", "replace", "clean"}

\* A request has a session that waits for it, or nobody and its answer was lost; and it
\* has not expired by its own floor.
ReqOK(p, r, callers, lost) ==
    /\ r.c \in Caller => Home[r.c] = p /\ callers[r.c].pc = "wait" /\ callers[r.c].i = r.i
    /\ r.c = NoCaller => r.i \in lost
    /\ r.fl < NotAfter[r.i]

RequestInv ==
    /\ \A p \in Proc : IF proc[p].pc \in Serving THEN ReqOK(p, proc[p].req, caller, maybe)
                                                 ELSE proc[p].req = NoRequest
    /\ \A p \in Proc : queue[p] # <<>> => ReqOK(p, queue[p][1], caller, maybe)
    /\ \A p \in Proc : queue[p] # <<>> /\ queue[p][1].c \in Caller =>
                           proc[p].req.c # queue[p][1].c
    /\ \A c \in Caller : caller[c].pc # "idle" => caller[c].fl < NotAfter[caller[c].i]

\* A row is removed only once a record was written with a floor past it.
GoneInv == \A i \in gone : NotAfter[i] < top

\* A worker that is about to consume a nonce is the first to, unless floors overtook
\* each other.
WonInv ==
    /\ \A i \in Intent : won[i] > 0 => i \in seen
    /\ ~stale => \A p \in Proc : proc[p].pc \in {"dirty", "replace", "clean"} =>
                                     won[proc[p].req.i] = 0

LedgerInv == /\ TypeOK /\ LockInv /\ FileInv /\ DurableInv /\ RequestInv /\ GoneInv /\ WonInv
             /\ CommittedOnce /\ NoSilentConsume /\ NeverCorrupt

-----------------------------------------------------------------------------
(* What the helpers of the actions do.                                     *)

\* The request of nobody names some intent, as the ledger's intents are not empty.
LEMMA NoRequestType == NoRequest \in Request /\ NoRequest.i \in Intent
  <1>1. (CHOOSE i \in Intent : TRUE) \in Intent
    BY LedgerAssumption
  <1> QED BY <1>1 DEF NoRequest, Request

\* An idle session and a closed worker are well typed.
LEMMA IdleType == Idle \in Session /\ Closed \in Worker
  <1>1. Idle \in Session
    BY NoRequestType DEF Idle, Session
  <1>2. Closed \in Worker
    BY NoRequestType DEF Closed, Worker, Pc
  <1> QED BY <1>1, <1>2

\* The other workers stay where they are.
Others(p) == \A q \in Proc : q # p => proc'[q] = proc[q]

\* A step of a worker within its request, or within its opening.
LEMMA GotoFacts ==
    ASSUME TypeOK, NEW p \in Proc, NEW pc \in Pc, Goto(p, pc)
    PROVE  /\ proc' \in [Proc -> Worker]
           /\ proc'[p].pc = pc
           /\ proc'[p].req = proc[p].req
           /\ Others(p)
  <1>1. proc \in [Proc -> Worker]
    BY DEF TypeOK
  <1>2. proc' = [proc EXCEPT ![p] = [proc[p] EXCEPT !.pc = pc]]
    BY DEF Goto
  <1>3. [proc[p] EXCEPT !.pc = pc] \in Worker
    BY <1>1 DEF Worker
  <1>4. [proc[p] EXCEPT !.pc = pc].pc = pc /\ [proc[p] EXCEPT !.pc = pc].req = proc[p].req
    BY <1>1 DEF Worker
  <1> QED BY <1>1, <1>2, <1>3, <1>4 DEF Others

\* An answer frees the worker and the lock it held.
LEMMA AnswerFacts ==
    ASSUME TypeOK, NEW p \in Proc, NEW outcome, Answer(p, outcome)
    PROVE  /\ proc' \in [Proc -> Worker]
           /\ proc'[p].pc = "idle" /\ proc'[p].req = NoRequest
           /\ Others(p)
           /\ holder' = IF holder = p THEN NoProc ELSE holder
           /\ holder' \in Proc \cup {NoProc}
           /\ caller' \in [Caller -> Session]
           /\ won' \in [Intent -> Nat]
           /\ seen' \subseteq Intent /\ maybe' \subseteq Intent
  <1> DEFINE w == [pc |-> "idle", req |-> NoRequest]
             r == proc[p].req
  <1>1. proc \in [Proc -> Worker] /\ caller \in [Caller -> Session] /\ won \in [Intent -> Nat]
        /\ seen \subseteq Intent /\ maybe \subseteq Intent /\ holder \in Proc \cup {NoProc}
    BY DEF TypeOK
  <1>2. w \in Worker /\ w.pc = "idle" /\ w.req = NoRequest
    BY NoRequestType DEF Worker, Pc
  <1>3. proc' = [proc EXCEPT ![p] = w]
    BY DEF Answer
  <1>4. proc' \in [Proc -> Worker] /\ proc'[p] = w /\ Others(p)
    BY <1>1, <1>2, <1>3 DEF Others
  <1>5. r.c \in Caller \cup {NoCaller} /\ r.i \in Intent
    BY <1>1 DEF Worker, Request
  <1>6. caller' \in [Caller -> Session]
    BY <1>1, <1>5, IdleType DEF Answer
  <1>7. won' \in [Intent -> Nat]
    BY <1>1, <1>5 DEF Answer
  <1>8. seen' \subseteq Intent /\ maybe' \subseteq Intent
    BY <1>1, <1>5 DEF Answer
  <1>9. holder' = IF holder = p THEN NoProc ELSE holder
    BY DEF Answer
  <1> QED BY <1>1, <1>2, <1>4, <1>6, <1>7, <1>8, <1>9

Left == [faults : Nat, crashes : Nat, giveups : Nat]

\* The files and the bounds behind the outcomes of a write.
LEMMA WriteTypes ==
    ASSUME TypeOK
    PROVE  /\ \A m \in {"I", "C", "D"} : MarkerWritten(m) \/ MarkerFailed(m) =>
                 vis' \in Files /\ dur' \in Files /\ left' \in Left
           /\ \A ents \in SUBSET Intent : Committed(ents) \/ NotCommitted \/ Uncertain(ents) =>
                 vis' \in Files /\ dur' \in Files /\ left' \in Left
  <1>1. vis \in Files /\ dur \in Files /\ left \in Left
    BY DEF TypeOK, Left
  <1>2. Fault => left' \in Left
    BY <1>1 DEF Fault, Left
  <1>3. \A m \in Marker : [vis EXCEPT !.mark = m] \in Files /\ [dur EXCEPT !.mark = m] \in Files
    BY <1>1 DEF Files
  <1>4. \A m \in {"I", "C", "D"} : m \in Marker /\ Torn(m) \subseteq Marker
    BY DEF Torn, Marker
  <1>5. \A ents \in SUBSET Intent : WithRecord(vis, ents) \in Files /\ WithRecord(dur, ents) \in Files
    BY <1>1 DEF Files, WithRecord
  <1>6. ASSUME NEW m \in {"I", "C", "D"}, MarkerWritten(m) \/ MarkerFailed(m)
        PROVE  vis' \in Files /\ dur' \in Files /\ left' \in Left
    BY <1>1, <1>2, <1>3, <1>4, <1>6 DEF MarkerWritten, MarkerFailed
  <1>7. ASSUME NEW ents \in SUBSET Intent, Committed(ents) \/ NotCommitted \/ Uncertain(ents)
        PROVE  vis' \in Files /\ dur' \in Files /\ left' \in Left
    BY <1>1, <1>2, <1>5, <1>7 DEF Committed, NotCommitted, Uncertain, disk
  <1> QED BY <1>6, <1>7

-----------------------------------------------------------------------------
(* The steps of a worker.                                                  *)

\* Within a request or an opening: nobody is answered.
Goes(p) ==
    /\ proc' \in [Proc -> Worker]
    /\ proc'[p].req = proc[p].req /\ Others(p)
    /\ proc[p].pc \in Serving <=> proc'[p].pc \in Serving
    /\ UNCHANGED <<caller, answers>>

\* The end of a request.
Answers(p) == proc[p].pc \in Serving /\ \E outcome : Answer(p, outcome)

\* The lock is kept, given up or taken.
LockMoves(p) ==
    \/ holder' = holder /\ (proc[p].pc \in Hold <=> proc'[p].pc \in Hold)
    \/ holder' = (IF holder = p THEN NoProc ELSE holder) /\ proc'[p].pc \notin Hold
    \/ ~torn /\ holder = NoProc /\ holder' = p /\ proc'[p].pc \in Hold

Moves(p) ==
    /\ Goes(p) \/ Answers(p)
    /\ LockMoves(p)
    /\ UNCHANGED <<clock, torn, queue>>

\* A worker that only goes on to its next step, within its request or outside one, Goes.
LEMMA GotoGoes ==
    ASSUME TypeOK, NEW p \in Proc, NEW pc \in Pc, Goto(p, pc),
           proc[p].pc \in Serving <=> pc \in Serving, UNCHANGED <<caller, answers>>
    PROVE  Goes(p) /\ proc'[p].pc = pc
  BY GotoFacts DEF Goes

\* A worker that answers its request gives the lock back if it has it.
LEMMA AnswerMoves ==
    ASSUME TypeOK, NEW p \in Proc, NEW outcome, Answer(p, outcome), proc[p].pc \in Serving,
           UNCHANGED <<clock, torn, queue>>
    PROVE  Moves(p)
  <1>1. proc'[p].pc \notin Hold /\ holder' = IF holder = p THEN NoProc ELSE holder
    BY AnswerFacts DEF Hold
  <1> QED BY <1>1 DEF Moves, LockMoves, Answers

\* A step under the lock that keeps it.
LEMMA StepMoves ==
    ASSUME TypeOK, NEW p \in Proc, NEW pc \in Hold, Goto(p, pc), proc[p].pc \in Hold,
           proc[p].pc \in Serving <=> pc \in Serving,
           UNCHANGED <<clock, torn, queue, holder, caller, answers>>
    PROVE  Moves(p)
  <1>1. pc \in Pc
    BY DEF Hold, Pc
  <1>2. Goes(p) /\ proc'[p].pc = pc
    BY <1>1, GotoGoes
  <1> QED BY <1>2 DEF Moves, LockMoves

\* A step of an opening that gives the lock up.
LEMMA FreeMoves ==
    ASSUME TypeOK, LockInv, NEW p \in Proc, NEW pc \in {"down", "idle"}, Goto(p, pc),
           proc[p].pc \in Hold, proc[p].pc \notin Serving, holder' = NoProc,
           UNCHANGED <<clock, torn, queue, caller, answers>>
    PROVE  Moves(p)
  <1>1. pc \in Pc /\ pc \notin Serving /\ pc \notin Hold
    BY DEF Hold, Pc, Serving
  <1>2. Goes(p) /\ proc'[p].pc = pc
    BY <1>1, GotoGoes
  <1>3. holder = p
    BY DEF LockInv
  <1> QED BY <1>1, <1>2, <1>3 DEF Moves, LockMoves

\* Every step of a worker but the receipt of a request is of this form.
LEMMA WorkMoves ==
    ASSUME TypeOK, LockInv, NEW p \in Proc, Work(p) \/ Open(p), ~Receive(p)
    PROVE  Moves(p)
  <1> USE DEF WorkerFrame, NoAnswer, OpenFrame
  <1>1. CASE Acquire(p)
    <2>1. proc[p].pc = "lock" /\ proc[p].pc \in Serving
      BY <1>1 DEF Acquire, Serving
    <2>2. CASE Answer(p, "Unavailable")
      BY <1>1, <2>1, <2>2, AnswerMoves DEF Acquire
    <2>3. CASE /\ verify_authority_binding /\ holder = NoProc /\ holder' = p
               /\ Goto(p, "load") /\ UNCHANGED <<caller, answers>>
      <3>1. Goes(p) /\ proc'[p].pc = "load"
        BY <2>1, <2>3, GotoGoes DEF Pc, Serving
      <3> QED BY <1>1, <2>3, <3>1 DEF Acquire, Moves, LockMoves, verify_authority_binding, Hold
    <2> QED BY <1>1, <2>2, <2>3 DEF Acquire
  <1>2. CASE Load(p)
    <2>1. proc[p].pc = "load" /\ proc[p].pc \in Serving /\ proc[p].pc \in Hold
      BY <1>2 DEF Load, Serving, Hold
    <2>2. \/ \E outcome : Answer(p, outcome)
          \/ Goto(p, "againRecord") /\ NoAnswer
          \/ Goto(p, "dirty") /\ NoAnswer
      BY <1>2 DEF Load, Decide
    <2>3. CASE \E outcome : Answer(p, outcome)
      BY <1>2, <2>1, <2>3, AnswerMoves DEF Load
    <2>4. CASE Goto(p, "againRecord") /\ NoAnswer
      BY <1>2, <2>1, <2>4, StepMoves DEF Load, Serving, Hold
    <2>5. CASE Goto(p, "dirty") /\ NoAnswer
      BY <1>2, <2>1, <2>5, StepMoves DEF Load, Serving, Hold
    <2> QED BY <2>2, <2>3, <2>4, <2>5
  <1>3. CASE AgainRecord(p)
    <2>1. proc[p].pc = "againRecord" /\ proc[p].pc \in Serving /\ proc[p].pc \in Hold
      BY <1>3 DEF AgainRecord, Serving, Hold
    <2>2. CASE Answer(p, "Unavailable")
      BY <1>3, <2>1, <2>2, AnswerMoves DEF AgainRecord
    <2>3. CASE Goto(p, "againMark") /\ NoAnswer
      BY <1>3, <2>1, <2>3, StepMoves DEF AgainRecord, Serving, Hold
    <2> QED BY <1>3, <2>2, <2>3 DEF AgainRecord
  <1>4. CASE AgainMark(p)
    <2>1. proc[p].pc = "againMark" /\ proc[p].pc \in Serving /\ proc[p].pc \in Hold
      BY <1>4 DEF AgainMark, Serving, Hold
    <2>2. CASE Answer(p, "Unavailable")
      BY <1>4, <2>1, <2>2, AnswerMoves DEF AgainMark
    <2>3. CASE Goto(p, "load") /\ NoAnswer
      BY <1>4, <2>1, <2>3, StepMoves DEF AgainMark, Serving, Hold
    <2> QED BY <1>4, <2>2, <2>3 DEF AgainMark
  <1>5. CASE MarkDirty(p)
    <2>1. proc[p].pc = "dirty" /\ proc[p].pc \in Serving /\ proc[p].pc \in Hold
      BY <1>5 DEF MarkDirty, Serving, Hold
    <2>2. CASE Answer(p, "Unavailable")
      BY <1>5, <2>1, <2>2, AnswerMoves DEF MarkDirty
    <2>3. CASE Goto(p, "replace") /\ NoAnswer
      BY <1>5, <2>1, <2>3, StepMoves DEF MarkDirty, Serving, Hold
    <2> QED BY <1>5, <2>2, <2>3 DEF MarkDirty
  <1>6. CASE Replace(p)
    <2>1. proc[p].pc = "replace" /\ proc[p].pc \in Serving /\ proc[p].pc \in Hold
      BY <1>6 DEF Replace, Serving, Hold
    <2>2. CASE \E outcome : Answer(p, outcome)
      BY <1>6, <2>1, <2>2, AnswerMoves DEF Replace
    <2>3. CASE Goto(p, "clean") /\ NoAnswer
      BY <1>6, <2>1, <2>3, StepMoves DEF Replace, Serving, Hold
    <2> QED BY <1>6, <2>2, <2>3 DEF Replace
  <1>7. CASE MarkClean(p)
    <2>1. proc[p].pc = "clean" /\ proc[p].pc \in Serving
      BY <1>7 DEF MarkClean, Serving
    <2>2. \E outcome : Answer(p, outcome)
      BY <1>7 DEF MarkClean
    <2> QED BY <1>7, <2>1, <2>2, AnswerMoves DEF MarkClean
  <1>8. CASE Open(p)
    <2>1. Goes(p) /\ proc'[p].pc = "openLock"
      BY <1>8, GotoGoes DEF Open, Pc, Serving
    <2> QED BY <1>8, <2>1 DEF Open, Moves, LockMoves, Hold
  <1>9. CASE OpenLock(p)
    <2>1. proc[p].pc = "openLock" /\ proc[p].pc \notin Serving /\ proc[p].pc \notin Hold
      BY <1>9 DEF OpenLock, Serving, Hold
    <2>2. CASE verify_authority_binding /\ holder = NoProc
      <3>1. Goes(p) /\ proc'[p].pc = "inspect"
        BY <1>9, <2>1, <2>2, GotoGoes DEF OpenLock, Pc, Serving
      <3> QED BY <1>9, <2>2, <3>1 DEF OpenLock, Moves, LockMoves, verify_authority_binding, Hold
    <2>3. CASE ~(verify_authority_binding /\ holder = NoProc)
      <3>1. Goes(p) /\ proc'[p].pc = "down"
        BY <1>9, <2>1, <2>3, GotoGoes DEF OpenLock, Pc, Serving
      <3> QED BY <1>9, <2>1, <2>3, <3>1 DEF OpenLock, Moves, LockMoves, Hold
    <2> QED BY <2>2, <2>3
  <1>10. CASE Inspect(p)
    <2>1. proc[p].pc \in Hold /\ proc[p].pc \notin Serving
      BY <1>10 DEF Inspect, Serving, Hold
    <2>2. \/ \E pc \in {"down", "idle"} : Goto(p, pc) /\ holder' = NoProc
          \/ \E pc \in {"openRecord", "initMark"} : Goto(p, pc) /\ UNCHANGED holder
      BY <1>10 DEF Inspect, OpenStep, OpenFailed
    <2>3. CASE \E pc \in {"down", "idle"} : Goto(p, pc) /\ holder' = NoProc
      BY <1>10, <2>1, <2>3, FreeMoves DEF Inspect
    <2>4. CASE \E pc \in {"openRecord", "initMark"} : Goto(p, pc) /\ UNCHANGED holder
      BY <1>10, <2>1, <2>4, StepMoves DEF Inspect, Hold, Serving
    <2> QED BY <2>2, <2>3, <2>4
  <1>11. CASE InitMark(p)
    <2>1. proc[p].pc \in Hold /\ proc[p].pc \notin Serving
      BY <1>11 DEF InitMark, Serving, Hold
    <2>2. CASE OpenFailed(p)
      BY <1>11, <2>1, <2>2, FreeMoves DEF InitMark, OpenFailed
    <2>3. CASE OpenStep(p, "initRecord")
      BY <1>11, <2>1, <2>3, StepMoves DEF InitMark, OpenStep, Hold, Serving
    <2> QED BY <1>11, <2>2, <2>3 DEF InitMark
  <1>12. CASE InitRecord(p) \/ OpenRecord(p)
    <2>1. proc[p].pc \in Hold /\ proc[p].pc \notin Serving
      BY <1>12 DEF InitRecord, OpenRecord, Serving, Hold
    <2>2. CASE OpenFailed(p)
      BY <1>12, <2>1, <2>2, FreeMoves DEF InitRecord, OpenRecord, OpenFailed
    <2>3. CASE OpenStep(p, "openMark")
      BY <1>12, <2>1, <2>3, StepMoves DEF InitRecord, OpenRecord, OpenStep, Hold, Serving
    <2> QED BY <1>12, <2>2, <2>3 DEF InitRecord, OpenRecord
  <1>13. CASE OpenMark(p)
    <2>1. proc[p].pc \in Hold /\ proc[p].pc \notin Serving
      BY <1>13 DEF OpenMark, Serving, Hold
    <2>2. \E pc \in {"down", "idle"} : Goto(p, pc) /\ holder' = NoProc
      BY <1>13 DEF OpenMark, OpenFailed
    <2> QED BY <1>13, <2>1, <2>2, FreeMoves DEF OpenMark
  <1> QED BY <1>1, <1>2, <1>3, <1>4, <1>5, <1>6, <1>7, <1>8, <1>9, <1>10, <1>11, <1>12, <1>13
          DEF Work

-----------------------------------------------------------------------------
(* Type correctness.                                                       *)

\* What a worker's step leaves typed whichever it is.
WorkerTypes ==
    /\ clock \in Nat /\ torn \in BOOLEAN
    /\ holder \in Proc \cup {NoProc}
    /\ proc \in [Proc -> Worker]
    /\ queue \in [Proc -> Seq(Request)]
    /\ \A p \in Proc : Len(queue[p]) <= 1
    /\ caller \in [Caller -> Session]
    /\ won \in [Intent -> Nat]
    /\ seen \subseteq Intent /\ maybe \subseteq Intent

DiskTypes ==
    /\ top \in Nat /\ gone \subseteq Intent
    /\ vis \in Files /\ dur \in Files
    /\ stale \in BOOLEAN /\ corrupt \in BOOLEAN
    /\ left \in Left

\* The type invariant, split into what workers and what files concern.
LEMMA TypeParts == TypeOK <=> WorkerTypes /\ DiskTypes
  BY DEF TypeOK, WorkerTypes, DiskTypes, Left

\* A worker's step keeps workers, sessions and queues well typed.
LEMMA MovesTypes ==
    ASSUME TypeOK, NEW p \in Proc, Moves(p)
    PROVE  WorkerTypes'
  <1>1. WorkerTypes
    BY TypeParts
  <1>2. UNCHANGED <<clock, torn, queue>> /\ holder' \in Proc \cup {NoProc}
    BY <1>1 DEF Moves, LockMoves, WorkerTypes
  <1>3. CASE Goes(p)
    BY <1>1, <1>2, <1>3 DEF Goes, WorkerTypes, answers
  <1>4. CASE Answers(p)
    <2>1. PICK outcome : Answer(p, outcome)
      BY <1>4 DEF Answers
    <2> QED BY <1>1, <1>2, <2>1, AnswerFacts DEF WorkerTypes
  <1> QED BY <1>3, <1>4 DEF Moves

\* A worker's step keeps the files and the history well typed.
LEMMA MovesDiskTypes ==
    ASSUME TypeOK, NEW p \in Proc, Work(p) \/ Open(p)
    PROVE  DiskTypes'
  <1> USE DEF DiskTypes, disk, history
  <1>1. DiskTypes /\ proc \in [Proc -> Worker] /\ vis.ents \subseteq Intent
    BY TypeParts DEF TypeOK, Files
  <1>2. proc[p].req.fl \in Nat /\ proc[p].req.i \in Intent
    BY <1>1 DEF Worker, Request
  <1>3. CASE Receive(p) \/ Acquire(p) \/ Open(p) \/ OpenLock(p)
    BY <1>1, <1>3 DEF Receive, Acquire, Open, OpenLock, OpenFrame
  <1>4. CASE Load(p)
    <2>1. stale' \in BOOLEAN
      BY <1>1, <1>4 DEF Load, Decide
    <2> QED BY <1>1, <1>4, <2>1 DEF Load
  <1>5. CASE AgainRecord(p) \/ InitRecord(p) \/ OpenRecord(p)
    <2>1. \E ents \in SUBSET Intent : Committed(ents) \/ NotCommitted \/ Uncertain(ents)
      BY <1>1, <1>5 DEF AgainRecord, InitRecord, OpenRecord
    <2>2. vis' \in Files /\ dur' \in Files /\ left' \in Left
      BY <2>1, WriteTypes
    <2> QED BY <1>1, <1>5, <2>2 DEF AgainRecord, InitRecord, OpenRecord, OpenFrame
  <1>6. CASE AgainMark(p) \/ MarkDirty(p) \/ MarkClean(p) \/ InitMark(p) \/ OpenMark(p)
    <2>1. \E m \in {"I", "C", "D"} : MarkerWritten(m) \/ MarkerFailed(m)
      BY <1>6 DEF AgainMark, MarkDirty, MarkClean, InitMark, OpenMark
    <2>2. vis' \in Files /\ dur' \in Files /\ left' \in Left
      BY <2>1, WriteTypes
    <2> QED BY <1>1, <1>6, <2>2 DEF AgainMark, MarkDirty, MarkClean, InitMark, OpenMark, OpenFrame
  <1>7. CASE Replace(p)
    <2>1. NewEntries(p) \in SUBSET Intent
      BY <1>1, <1>2 DEF NewEntries, Retained
    <2>2. Committed(NewEntries(p)) \/ NotCommitted \/ Uncertain(NewEntries(p))
      BY <1>7 DEF Replace
    <2>3. vis' \in Files /\ dur' \in Files /\ left' \in Left
      BY <2>1, <2>2, WriteTypes
    <2>4. top' \in Nat /\ gone' \subseteq Intent
      BY <1>1, <1>2, <1>7 DEF Replace, Rewritten
    <2> QED BY <1>1, <1>7, <2>3, <2>4 DEF Replace
  <1>8. CASE Inspect(p)
    BY <1>1, <1>8 DEF Inspect, OpenFrame
  <1> QED BY <1>3, <1>4, <1>5, <1>6, <1>7, <1>8 DEF Work

\* A queue is empty or has one request.
LEMMA QueueShape ==
    ASSUME TypeOK, NEW p \in Proc
    PROVE  /\ queue[p] \in Seq(Request) /\ Len(queue[p]) \in {0, 1}
           /\ queue[p] # <<>> => /\ queue[p] = <<queue[p][1]>> /\ queue[p][1] \in Request
                                 /\ Head(queue[p]) = queue[p][1] /\ Tail(queue[p]) = <<>>
  <1>1. queue[p] \in Seq(Request) /\ Len(queue[p]) <= 1
    BY DEF TypeOK
  <1>2. Len(queue[p]) \in {0, 1}
    <2>1. Len(queue[p]) \in Nat
      BY <1>1
    <2>2. Len(queue[p]) <= 1
      BY <1>1
    <2>3. \A n \in Nat : n <= 1 => n \in {0, 1}
      OBVIOUS
    <2> QED BY <2>1, <2>2, <2>3
  <1>3. queue[p] # <<>> => Len(queue[p]) = 1
    BY <1>1, <1>2
  <1> QED BY <1>1, <1>2, <1>3

\* A worker that receives takes the one request of its queue.
LEMMA ReceiveFacts ==
    ASSUME TypeOK, NEW p \in Proc, Receive(p)
    PROVE  /\ proc' \in [Proc -> Worker] /\ Others(p)
           /\ proc'[p].pc = "lock" /\ proc'[p].req = queue[p][1]
           /\ queue' \in [Proc -> Seq(Request)] /\ queue'[p] = <<>>
           /\ \A q \in Proc : q # p => queue'[q] = queue[q]
  <1>1. proc \in [Proc -> Worker] /\ queue \in [Proc -> Seq(Request)]
    BY DEF TypeOK
  <1>2. Head(queue[p]) = queue[p][1] /\ queue[p][1] \in Request /\ Tail(queue[p]) = <<>>
    BY QueueShape DEF Receive
  <1>3. proc' = [proc EXCEPT ![p] = [pc |-> "lock", req |-> queue[p][1]]]
    BY <1>2 DEF Receive
  <1>4. [pc |-> "lock", req |-> queue[p][1]] \in Worker
    BY <1>2 DEF Worker, Pc
  <1>5. queue' = [queue EXCEPT ![p] = <<>>]
    BY <1>2 DEF Receive
  <1>6. <<>> \in Seq(Request)
    OBVIOUS
  <1>7. queue' \in [Proc -> Seq(Request)] /\ queue'[p] = <<>>
        /\ \A q \in Proc : q # p => queue'[q] = queue[q]
    BY <1>1, <1>5, <1>6
  <1>8. proc' \in [Proc -> Worker] /\ Others(p) /\ proc'[p].pc = "lock"
        /\ proc'[p].req = queue[p][1]
    BY <1>1, <1>3, <1>4 DEF Others
  <1> QED BY <1>7, <1>8

\* A session that sends puts its request in the empty queue of its process.
LEMMA SendFacts ==
    ASSUME TypeOK, NEW c \in Caller, Send(c)
    PROVE  /\ Home[c] \in Proc /\ queue[Home[c]] = <<>>
           /\ queue' \in [Proc -> Seq(Request)]
           /\ queue'[Home[c]] = <<[c |-> c, i |-> caller[c].i, fl |-> caller[c].fl]>>
           /\ Len(queue'[Home[c]]) = 1
           /\ \A q \in Proc : q # Home[c] => queue'[q] = queue[q]
           /\ caller' \in [Caller -> Session]
           /\ caller'[c].pc = "wait" /\ caller'[c].i = caller[c].i /\ caller'[c].fl = caller[c].fl
           /\ \A d \in Caller : d # c => caller'[d] = caller[d]
  <1> DEFINE r == [c |-> c, i |-> caller[c].i, fl |-> caller[c].fl]
  <1>1. caller \in [Caller -> Session] /\ queue \in [Proc -> Seq(Request)] /\ Home[c] \in Proc
    BY LedgerAssumption DEF TypeOK
  <1>2. queue[Home[c]] = <<>>
    BY <1>1, QueueShape DEF Send
  <1>3. r \in Request
    BY <1>1 DEF Session, Request
  <1> HIDE DEF r
  <1>4. Append(queue[Home[c]], r) = <<r>> /\ <<r>> \in Seq(Request) /\ Len(<<r>>) = 1
    BY <1>2, <1>3
  <1>5. queue' = [queue EXCEPT ![Home[c]] = <<r>>]
    BY <1>4 DEF Send, r
  <1>6. queue' \in [Proc -> Seq(Request)] /\ queue'[Home[c]] = <<r>>
        /\ \A q \in Proc : q # Home[c] => queue'[q] = queue[q]
    BY <1>1, <1>4, <1>5
  <1>7. caller' = [caller EXCEPT ![c] = [caller[c] EXCEPT !.pc = "wait"]]
    BY DEF Send
  <1>8. [caller[c] EXCEPT !.pc = "wait"] \in Session
    BY <1>1 DEF Session
  <1>9. /\ [caller[c] EXCEPT !.pc = "wait"].pc = "wait"
        /\ [caller[c] EXCEPT !.pc = "wait"].i = caller[c].i
        /\ [caller[c] EXCEPT !.pc = "wait"].fl = caller[c].fl
    BY <1>1 DEF Session
  <1>10. caller' \in [Caller -> Session] /\ caller'[c].pc = "wait"
         /\ caller'[c].i = caller[c].i /\ caller'[c].fl = caller[c].fl
         /\ \A d \in Caller : d # c => caller'[d] = caller[d]
    BY <1>1, <1>7, <1>8, <1>9
  <1> QED BY <1>1, <1>2, <1>4, <1>6, <1>10 DEF r

\* A session that gives up leaves its request in place, without an owner.
LEMMA AbandonFacts ==
    ASSUME NEW c \in Caller, NEW r \in Request
    PROVE  /\ Abandon(c, r) \in Request
           /\ Abandon(c, r).i = r.i /\ Abandon(c, r).fl = r.fl
           /\ Abandon(c, r).c = IF r.c = c THEN NoCaller ELSE r.c
  BY DEF Abandon, Request

\* A session that gives up at its deadline goes, and its request stays with nobody to answer to.
LEMMA GiveUpFacts ==
    ASSUME TypeOK, NEW c \in Caller, GiveUp(c)
    PROVE  /\ caller' \in [Caller -> Session] /\ caller'[c] = Idle
           /\ \A d \in Caller : d # c => caller'[d] = caller[d]
           /\ left' \in Left
           /\ caller[c].i \in Intent
           /\ proc' \in [Proc -> Worker] /\ queue' \in [Proc -> Seq(Request)]
           /\ \A p \in Proc : Len(queue'[p]) <= 1
           /\ \A p \in Proc : proc'[p].pc = proc[p].pc
           /\ caller[c].pc = "wait" =>
                 /\ maybe' = maybe \cup {caller[c].i}
                 /\ \A p \in Proc : /\ proc'[p].req = Abandon(c, proc[p].req)
                                    /\ queue[p] = <<>> => queue'[p] = <<>>
                                    /\ queue[p] # <<>> => queue'[p][1] = Abandon(c, queue[p][1])
           /\ caller[c].pc # "wait" => UNCHANGED <<maybe, queue, proc>>
  <1>1. proc \in [Proc -> Worker] /\ queue \in [Proc -> Seq(Request)] /\ left \in Left
        /\ caller \in [Caller -> Session]
    BY DEF TypeOK, Left
  <1>2. caller' \in [Caller -> Session] /\ caller'[c] = Idle
        /\ \A d \in Caller : d # c => caller'[d] = caller[d]
    BY <1>1, IdleType DEF GiveUp
  <1>3. left' \in Left
    BY <1>1 DEF GiveUp, Left
  <1>4. caller[c].i \in Intent
    BY <1>1 DEF Session
  <1>5. CASE caller[c].pc # "wait"
    <2>1. UNCHANGED <<maybe, queue, proc>>
      BY <1>5 DEF GiveUp
    <2>2. \A p \in Proc : Len(queue'[p]) <= 1
      BY <2>1 DEF TypeOK
    <2> QED BY <1>1, <1>2, <1>3, <1>4, <1>5, <2>1, <2>2
  <1>6. CASE caller[c].pc = "wait"
    <2>1. maybe' = maybe \cup {caller[c].i}
      BY <1>6 DEF GiveUp
    <2>2. queue' = [p \in Proc |-> [k \in DOMAIN queue[p] |-> Abandon(c, queue[p][k])]]
      BY <1>6 DEF GiveUp
    <2>3. proc' = [p \in Proc |-> [proc[p] EXCEPT !.req = Abandon(c, @)]]
      BY <1>6 DEF GiveUp
    <2>4. ASSUME NEW p \in Proc
          PROVE  /\ proc'[p] \in Worker /\ proc'[p].pc = proc[p].pc
                 /\ proc'[p].req = Abandon(c, proc[p].req)
      <3>1. proc[p] \in Worker /\ proc[p].req \in Request
        BY <1>1 DEF Worker
      <3>2. proc'[p] = [proc[p] EXCEPT !.req = Abandon(c, proc[p].req)]
        BY <2>3
      <3>3. Abandon(c, proc[p].req) \in Request
        BY <3>1, AbandonFacts
      <3> QED BY <3>1, <3>2, <3>3 DEF Worker
    <2>5. ASSUME NEW p \in Proc
          PROVE  /\ queue'[p] \in Seq(Request) /\ Len(queue'[p]) <= 1
                 /\ queue[p] = <<>> => queue'[p] = <<>>
                 /\ queue[p] # <<>> => queue'[p][1] = Abandon(c, queue[p][1])
      <3>1. queue'[p] = [k \in DOMAIN queue[p] |-> Abandon(c, queue[p][k])]
        BY <2>2
      <3>2. CASE queue[p] = <<>>
        <4>1. queue'[p] = <<>>
          BY <3>1, <3>2
        <4> QED BY <3>2, <4>1
      <3>3. CASE queue[p] # <<>>
        <4>1. queue[p] = <<queue[p][1]>> /\ queue[p][1] \in Request
          BY <3>3, QueueShape
        <4>2. DOMAIN queue[p] = 1..1
          BY <4>1
        <4>3. queue'[p] = [k \in 1..1 |-> Abandon(c, queue[p][k])]
          BY <3>1, <4>2
        <4>4. \A k \in 1..1 : Abandon(c, queue[p][k]) \in Request
          BY <4>1, AbandonFacts
        <4>5. queue'[p] = [queue[p] EXCEPT ![1] = Abandon(c, queue[p][1])]
          BY <4>1, <4>2, <4>3
        <4>6. queue'[p] \in Seq(Request) /\ Len(queue'[p]) = 1
          <5>1. queue[p] \in Seq(Request) /\ Len(queue[p]) = 1
            BY <3>3, QueueShape
          <5>2. 1 \in 1..Len(queue[p])
            BY <5>1
          <5> QED BY <4>4, <4>5, <5>1, <5>2, ExceptSeq
        <4>7. queue'[p][1] = Abandon(c, queue[p][1])
          BY <4>3
        <4> QED BY <3>3, <4>6, <4>7
      <3> QED BY <3>2, <3>3
    <2>6. proc' \in [Proc -> Worker] /\ queue' \in [Proc -> Seq(Request)]
      <3>1. \A p \in Proc : proc'[p] \in Worker /\ queue'[p] \in Seq(Request)
        BY <2>4, <2>5
      <3> HIDE DEF Worker
      <3> QED BY <2>2, <2>3, <3>1
    <2> QED BY <1>2, <1>3, <1>4, <1>6, <2>1, <2>4, <2>5, <2>6
  <1> QED BY <1>5, <1>6

\* A death closes the process, forgets its queue and its sessions and frees its lock.
LEMMA DiedFacts ==
    ASSUME TypeOK, NEW ps \in SUBSET Proc, Died(ps)
    PROVE  /\ proc' \in [Proc -> Worker]
           /\ \A p \in Proc : proc'[p] = IF p \in ps THEN Closed ELSE proc[p]
           /\ queue' \in [Proc -> Seq(Request)]
           /\ \A p \in Proc : queue'[p] = IF p \in ps THEN <<>> ELSE queue[p]
           /\ \A p \in Proc : Len(queue'[p]) <= 1
           /\ caller' \in [Caller -> Session]
           /\ \A c \in Caller : caller'[c] = IF Home[c] \in ps THEN Idle ELSE caller[c]
           /\ holder' = IF holder \in ps THEN NoProc ELSE holder
           /\ holder' \in Proc \cup {NoProc}
           /\ maybe \subseteq maybe' /\ maybe' \subseteq Intent
           /\ \A p \in ps : proc[p].pc = "clean" => proc[p].req.i \in maybe'
  <1>1. proc \in [Proc -> Worker] /\ queue \in [Proc -> Seq(Request)]
        /\ caller \in [Caller -> Session] /\ holder \in Proc \cup {NoProc}
        /\ maybe \subseteq Intent /\ \A p \in Proc : Len(queue[p]) <= 1
    BY DEF TypeOK
  <1>2. /\ proc' \in [Proc -> Worker]
        /\ \A p \in Proc : proc'[p] = IF p \in ps THEN Closed ELSE proc[p]
    BY <1>1, IdleType DEF Died
  <1>3. <<>> \in Seq(Request) /\ Len(<<>>) <= 1
    OBVIOUS
  <1>4. /\ queue' \in [Proc -> Seq(Request)]
        /\ \A p \in Proc : queue'[p] = IF p \in ps THEN <<>> ELSE queue[p]
    BY <1>1, <1>3 DEF Died
  <1>5. \A p \in Proc : Len(queue'[p]) <= 1
    BY <1>1, <1>3, <1>4
  <1>6. /\ caller' \in [Caller -> Session]
        /\ \A c \in Caller : caller'[c] = IF Home[c] \in ps THEN Idle ELSE caller[c]
    BY <1>1, IdleType DEF Died
  <1>7. \A p \in Proc : proc[p].req.i \in Intent
    BY <1>1 DEF Worker, Request
  <1>8. maybe' = maybe \cup {proc[p].req.i : p \in {q \in ps : proc[q].pc = "clean"}}
    BY DEF Died
  <1>9. /\ maybe \subseteq maybe' /\ maybe' \subseteq Intent
        /\ \A p \in ps : proc[p].pc = "clean" => proc[p].req.i \in maybe'
    BY <1>1, <1>7, <1>8
  <1>10. holder' = IF holder \in ps THEN NoProc ELSE holder
    BY DEF Died
  <1> QED BY <1>1, <1>2, <1>4, <1>5, <1>6, <1>9, <1>10

\* Every step keeps the type invariant.
LEMMA TypeStep ==
    ASSUME TypeOK, LockInv, [Next]_vars
    PROVE  TypeOK'
  <1>0. WorkerTypes /\ DiskTypes /\ left \in Left
    BY TypeParts DEF DiskTypes
  <1>1. ASSUME NEW p \in Proc, Work(p) \/ Open(p), ~Receive(p) PROVE TypeOK'
    BY <1>1, WorkMoves, MovesTypes, MovesDiskTypes, TypeParts DEF TypeOK, WorkerTypes, DiskTypes, Left
  <1>2. ASSUME NEW p \in Proc, Receive(p) PROVE TypeOK'
    <2>1. \A q \in Proc : Len(queue'[q]) <= 1
      BY <1>2, ReceiveFacts DEF TypeOK
    <2> QED BY <1>2, <2>1, ReceiveFacts DEF Receive, TypeOK, disk, answers, history
  <1>3. ASSUME NEW c \in Caller, Send(c) PROVE TypeOK'
    <2>1. /\ Len(queue'[Home[c]]) = 1
          /\ \A q \in Proc : q # Home[c] => queue'[q] = queue[q]
      BY <1>3, SendFacts
    <2>2. ASSUME NEW q \in Proc PROVE Len(queue'[q]) <= 1
      <3>1. CASE q = Home[c]
        <4>1. Len(queue'[q]) = 1
          BY <2>1, <3>1
        <4> QED BY <4>1
      <3>2. CASE q # Home[c]
        BY <2>1, <3>2 DEF TypeOK
      <3> QED BY <3>1, <3>2
    <2> QED BY <1>3, <2>2, SendFacts DEF Send, TypeOK, disk, answers, history
  <1>4. ASSUME NEW c \in Caller, GiveUp(c) PROVE TypeOK'
    <2>1. \/ maybe' = maybe
          \/ maybe' = maybe \cup {caller[c].i} /\ caller[c].i \in Intent
      BY <1>4, GiveUpFacts
    <2>2. maybe' \subseteq Intent
      BY <2>1 DEF TypeOK
    <2> QED BY <1>4, <2>2, GiveUpFacts DEF GiveUp, TypeOK, disk, history, Left
  <1>5. ASSUME NEW c \in Caller, NEW i \in Intent, Ask(c, i) PROVE TypeOK'
    <2>1. [pc |-> "poll", i |-> i, fl |-> clock] \in Session
      BY DEF Session, TypeOK
    <2>2. caller' \in [Caller -> Session]
      BY <1>5, <2>1 DEF Ask, TypeOK
    <2> QED BY <1>5, <2>2 DEF Ask, TypeOK, disk, answers, history
  <1>6. CASE Tick \/ Teardown
    <2>1. clock' \in Nat /\ torn' \in BOOLEAN
      <3>1. CASE Tick
        BY <3>1 DEF Tick, TypeOK
      <3>2. CASE Teardown
        BY <3>2 DEF Teardown, TypeOK
      <3> QED BY <1>6, <3>1, <3>2
    <2>2. UNCHANGED <<vis, dur, holder, proc, queue, caller, won, seen, maybe, gone, top,
                      stale, corrupt, left>>
      BY <1>6 DEF Tick, Teardown, disk, answers, history
    <2> QED BY <2>1, <2>2 DEF TypeOK
  <1>7. CrashLeft => left' \in Left
    BY <1>0 DEF CrashLeft, Left
  <1>8. ASSUME NEW p \in Proc, Crash(p) PROVE TypeOK'
    <2>1. {p} \in SUBSET Proc /\ Died({p}) /\ left' \in Left
      BY <1>7, <1>8 DEF Crash
    <2> QED BY <1>8, <2>1, DiedFacts DEF Crash, TypeOK, disk, history, Left
  <1>9. CASE PowerLoss
    <2>1. Proc \in SUBSET Proc /\ Died(Proc) /\ left' \in Left
      BY <1>7, <1>9 DEF PowerLoss
    <2>2. PICK r \in {vis, dur}, m \in {vis.mark, dur.mark} \cup
                                  IF vis.mark # dur.mark THEN Torn(vis.mark) ELSE {} :
              vis' = [r EXCEPT !.mark = m]
      BY <1>9 DEF PowerLoss
    <2>3. vis \in Files /\ dur \in Files
      BY DEF TypeOK
    <2>4. m \in Marker
      BY <2>2, <2>3 DEF Torn, Files, Marker
    <2>5. vis' \in Files /\ dur' \in Files
      BY <1>9, <2>2, <2>3, <2>4 DEF PowerLoss, Files
    <2> QED BY <1>9, <2>1, <2>5, DiedFacts DEF PowerLoss, TypeOK, history, Left
  <1>10. CASE UNCHANGED vars
    BY <1>10 DEF vars, TypeOK
  <1> QED BY <1>1, <1>2, <1>3, <1>4, <1>5, <1>6, <1>8, <1>9, <1>10 DEF Next, Work

-----------------------------------------------------------------------------
(* The lock of the ledger.                                                 *)

\* The steps that neither a worker nor a fault takes leave the workers where they are.
Outside == \/ \E c \in Caller : Send(c) \/ GiveUp(c)
           \/ \E c \in Caller, i \in Intent : Ask(c, i)
           \/ Tick \/ Teardown

\* The steps of the ledger, by who takes them.
LEMMA NextCases ==
    ASSUME [Next]_vars
    PROVE  \/ \E p \in Proc : (Work(p) \/ Open(p)) /\ ~Receive(p)
           \/ \E p \in Proc : Receive(p)
           \/ Outside
           \/ \E p \in Proc : Crash(p)
           \/ PowerLoss
           \/ UNCHANGED vars
  BY DEF Next, Outside

\* Steps outside the workers leave the files and the workers' places alone.
LEMMA OutsideFacts ==
    ASSUME TypeOK, Outside
    PROVE  /\ \A p \in Proc : proc'[p].pc = proc[p].pc /\ proc'[p].req.i = proc[p].req.i
           /\ UNCHANGED <<disk, holder, won, seen, history>>
           /\ maybe \subseteq maybe'
           /\ torn' = torn \/ (torn' /\ holder = NoProc)
  <1>1. CASE \E c \in Caller : GiveUp(c)
    <2>1. PICK c \in Caller : GiveUp(c)
      BY <1>1
    <2>2. UNCHANGED <<disk, holder, won, seen, history, torn>>
      BY <2>1 DEF GiveUp
    <2>3. \A p \in Proc : proc[p].req \in Request
      BY DEF TypeOK, Worker
    <2>4. CASE caller[c].pc = "wait"
      <3>1. \A p \in Proc : proc'[p].pc = proc[p].pc /\ proc'[p].req = Abandon(c, proc[p].req)
        BY <2>1, <2>4, GiveUpFacts
      <3>2. maybe' = maybe \cup {caller[c].i}
        BY <2>1, <2>4, GiveUpFacts
      <3> QED BY <2>2, <2>3, <3>1, <3>2, AbandonFacts
    <2>5. CASE caller[c].pc # "wait"
      BY <2>1, <2>2, <2>5, GiveUpFacts
    <2> QED BY <2>4, <2>5
  <1>2. CASE \E c \in Caller : Send(c)
    BY <1>2 DEF Send, answers
  <1>3. CASE \E c \in Caller, i \in Intent : Ask(c, i)
    BY <1>3 DEF Ask, answers
  <1>4. CASE Tick
    BY <1>4 DEF Tick, answers
  <1>5. CASE Teardown
    BY <1>5 DEF Teardown, answers
  <1> QED BY <1>1, <1>2, <1>3, <1>4, <1>5 DEF Outside

\* In a step of a worker the others keep their place.
LEMMA MovesOthers ==
    ASSUME TypeOK, NEW p \in Proc, Moves(p)
    PROVE  Others(p)
  BY AnswerFacts DEF Moves, Goes, Answers

\* Every step keeps the lock exclusive.
LEMMA LockStep ==
    ASSUME TypeOK, LockInv, [Next]_vars
    PROVE  LockInv'
  <1>0. NoProc \notin Proc /\ holder \in Proc \cup {NoProc}
    BY LedgerAssumption DEF TypeOK
  <1>1. ASSUME NEW p \in Proc, Work(p) \/ Open(p), ~Receive(p) PROVE LockInv'
    <2>1. Others(p) /\ LockMoves(p) /\ torn' = torn
      BY <1>1, WorkMoves, MovesOthers DEF Moves
    <2> QED BY <1>0, <2>1 DEF LockInv, LockMoves, Others
  <1>2. ASSUME NEW p \in Proc, Receive(p) PROVE LockInv'
    <2>1. Others(p) /\ proc'[p].pc \notin Hold /\ proc[p].pc \notin Hold
      BY <1>2, ReceiveFacts DEF Receive, Hold
    <2>2. UNCHANGED <<torn, holder>>
      BY <1>2 DEF Receive
    <2> QED BY <2>1, <2>2 DEF LockInv, Others
  <1>3. CASE Outside
    BY <1>0, <1>3, OutsideFacts DEF LockInv
  <1>4. \A ps \in SUBSET Proc : Died(ps) /\ UNCHANGED torn => LockInv'
    <2> SUFFICES ASSUME NEW ps \in SUBSET Proc, Died(ps), UNCHANGED torn PROVE LockInv'
      OBVIOUS
    <2>1. Closed.pc \notin Hold
      BY DEF Closed, Hold
    <2>2. /\ \A p \in Proc : proc'[p] = IF p \in ps THEN Closed ELSE proc[p]
          /\ holder' = IF holder \in ps THEN NoProc ELSE holder
      BY DiedFacts
    <2> QED BY <1>0, <2>1, <2>2 DEF LockInv
  <1>5. ASSUME NEW p \in Proc, Crash(p) PROVE LockInv'
    BY <1>4, <1>5 DEF Crash
  <1>6. CASE PowerLoss
    BY <1>4, <1>6 DEF PowerLoss
  <1>7. CASE UNCHANGED vars
    BY <1>7 DEF vars, LockInv
  <1> QED BY <1>1, <1>2, <1>3, <1>5, <1>6, <1>7, NextCases

-----------------------------------------------------------------------------
(* The requests and who waits for them.                                    *)

\* A request stays good as long as its session waits and lost answers stay lost.
LEMMA ReqKept ==
    ASSUME NEW p, NEW r, NEW callers, NEW lost, NEW callers2, NEW lost2,
           ReqOK(p, r, callers, lost), lost \subseteq lost2,
           r.c \in Caller => callers2[r.c] = callers[r.c]
    PROVE  ReqOK(p, r, callers2, lost2)
  BY DEF ReqOK

\* Every step keeps each request with the one session that waits for it.
LEMMA RequestStep ==
    ASSUME TypeOK, LockInv, RequestInv, [Next]_vars
    PROVE  RequestInv'
  <1>0. /\ NoCaller \notin Caller /\ Home \in [Caller -> Proc]
        /\ caller \in [Caller -> Session] /\ proc \in [Proc -> Worker]
    BY LedgerAssumption DEF TypeOK
  <1>a. /\ \A p \in Proc : proc[p].req \in Request
        /\ NoRequest.c = NoCaller /\ Idle.pc = "idle"
    BY <1>0 DEF Worker, NoRequest, Idle
  <1>b. \A p \in Proc : proc[p].req.c \in Caller \cup {NoCaller}
    BY <1>a DEF Request
  <1>c. \A p \in Proc : proc[p].req.c \in Caller =>
            Home[proc[p].req.c] = p /\ caller[proc[p].req.c].pc = "wait"
    BY <1>0, <1>a DEF RequestInv, ReqOK
  <1>1. ASSUME NEW p \in Proc, Work(p) \/ Open(p), ~Receive(p) PROVE RequestInv'
    <2>1. (Goes(p) \/ Answers(p)) /\ UNCHANGED queue
      BY <1>1, WorkMoves DEF Moves
    <2>2. CASE Goes(p)
      BY <2>1, <2>2 DEF Goes, Others, RequestInv, answers
    <2>3. CASE Answers(p)
      <3>1. PICK outcome : Answer(p, outcome)
        BY <2>3 DEF Answers
      <3>2. proc'[p].pc = "idle" /\ proc'[p].req = NoRequest /\ Others(p)
        BY <3>1, AnswerFacts
      <3>3. maybe \subseteq maybe'
        BY <3>1 DEF Answer
      <3>4. /\ \A d \in Caller : d # proc[p].req.c => caller'[d] = caller[d]
            /\ proc[p].req.c \in Caller => caller'[proc[p].req.c] = Idle
        BY <1>0, <1>b, <3>1 DEF Answer
      \* The requests that remain are of other sessions.
      <3>5. ASSUME NEW q \in Proc, proc'[q].pc \in Serving
            PROVE  ReqOK(q, proc'[q].req, caller', maybe')
        <4>1. q # p /\ proc'[q] = proc[q]
          BY <3>2, <3>5 DEF Serving, Others
        <4>2. ReqOK(q, proc[q].req, caller, maybe)
          BY <3>5, <4>1 DEF RequestInv
        <4>3. proc[q].req.c \in Caller => caller'[proc[q].req.c] = caller[proc[q].req.c]
          BY <1>c, <3>4, <4>1
        <4> QED BY <3>3, <4>1, <4>2, <4>3, ReqKept
      <3>6. ASSUME NEW q \in Proc, proc'[q].pc \notin Serving PROVE proc'[q].req = NoRequest
        BY <3>2, <3>6 DEF Others, RequestInv
      <3>7. ASSUME NEW q \in Proc, queue'[q] # <<>>
            PROVE  ReqOK(q, queue'[q][1], caller', maybe')
        <4>1. ReqOK(q, queue[q][1], caller, maybe)
          BY <2>1, <3>7 DEF RequestInv
        <4>2. queue[q][1].c \in Caller => queue[q][1].c # proc[p].req.c
          <5>1. CASE q = p
            BY <2>1, <3>7, <5>1 DEF RequestInv
          <5>2. CASE q # p
            BY <1>c, <4>1, <5>2 DEF ReqOK
          <5> QED BY <5>1, <5>2
        <4>3. queue[q][1].c \in Caller => caller'[queue[q][1].c] = caller[queue[q][1].c]
          BY <3>4, <4>2
        <4> QED BY <2>1, <3>3, <4>1, <4>3, ReqKept
      <3>8. ASSUME NEW q \in Proc, queue'[q] # <<>>, queue'[q][1].c \in Caller
            PROVE  proc'[q].req.c # queue'[q][1].c
        BY <1>0, <1>a, <2>1, <3>2, <3>8 DEF RequestInv, Others
      <3>9. ASSUME NEW d \in Caller, caller'[d].pc # "idle"
            PROVE  caller'[d].fl < NotAfter[caller'[d].i]
        BY <1>a, <3>4, <3>9 DEF RequestInv
      <3> QED BY <3>5, <3>6, <3>7, <3>8, <3>9 DEF RequestInv
    <2> QED BY <2>1, <2>2, <2>3
  <1>2. ASSUME NEW p \in Proc, Receive(p) PROVE RequestInv'
    <2>1. /\ Others(p) /\ proc'[p].pc = "lock" /\ proc'[p].req = queue[p][1]
          /\ queue'[p] = <<>> /\ \A q \in Proc : q # p => queue'[q] = queue[q]
      BY <1>2, ReceiveFacts
    <2>2. queue[p] # <<>> /\ UNCHANGED <<caller, maybe>>
      BY <1>2 DEF Receive, answers
    <2>3. ReqOK(p, queue[p][1], caller, maybe)
      BY <2>2 DEF RequestInv
    <2> QED BY <2>1, <2>2, <2>3 DEF RequestInv, Others, Serving
  <1>3. ASSUME NEW c \in Caller, Send(c) PROVE RequestInv'
    <2> DEFINE r == [c |-> c, i |-> caller[c].i, fl |-> caller[c].fl]
               h == Home[c]
    <2>1. /\ h \in Proc /\ queue[h] = <<>> /\ queue'[h] = <<r>>
          /\ \A q \in Proc : q # h => queue'[q] = queue[q]
          /\ caller'[c].pc = "wait" /\ caller'[c].i = caller[c].i /\ caller'[c].fl = caller[c].fl
          /\ \A d \in Caller : d # c => caller'[d] = caller[d]
      BY <1>3, SendFacts
    <2>2. UNCHANGED <<proc, maybe>> /\ caller[c].pc = "poll"
      BY <1>3 DEF Send, answers
    <2>3. caller[c].fl < NotAfter[caller[c].i]
      BY <2>2 DEF RequestInv
    <2>4. r.c = c /\ r.i = caller[c].i /\ r.fl = caller[c].fl
      OBVIOUS
    <2>5. ReqOK(h, r, caller', maybe')
      BY <1>0, <2>1, <2>3, <2>4 DEF ReqOK
    \* Nobody else has a request of a session that is about to send one.
    <2>6. \A q \in Proc : proc[q].req.c # c
      BY <1>c, <2>2
    <2>7. \A q \in Proc : queue[q] # <<>> => queue[q][1].c # c
      BY <2>2 DEF RequestInv, ReqOK
    <2> HIDE DEF r
    <2>8. queue'[h][1] = r
      BY <2>1
    <2>9. ASSUME NEW q \in Proc, proc'[q].pc \in Serving
          PROVE  ReqOK(q, proc'[q].req, caller', maybe')
      <3>1. ReqOK(q, proc[q].req, caller, maybe)
        BY <2>2, <2>9 DEF RequestInv
      <3>2. proc[q].req.c \in Caller => caller'[proc[q].req.c] = caller[proc[q].req.c]
        BY <2>1, <2>6
      <3> QED BY <2>2, <3>1, <3>2, ReqKept
    <2>10. ASSUME NEW q \in Proc, queue'[q] # <<>>
           PROVE  ReqOK(q, queue'[q][1], caller', maybe')
      <3>1. CASE q = h
        BY <2>5, <2>8, <3>1
      <3>2. CASE q # h
        <4>1. queue'[q] = queue[q] /\ ReqOK(q, queue[q][1], caller, maybe)
          BY <2>1, <2>10, <3>2 DEF RequestInv
        <4>2. queue[q][1].c \in Caller => caller'[queue[q][1].c] = caller[queue[q][1].c]
          BY <2>1, <2>7, <2>10, <4>1
        <4> QED BY <2>2, <4>1, <4>2, ReqKept
      <3> QED BY <3>1, <3>2
    <2>11. ASSUME NEW q \in Proc, queue'[q] # <<>>, queue'[q][1].c \in Caller
           PROVE  proc'[q].req.c # queue'[q][1].c
      BY <2>1, <2>2, <2>4, <2>6, <2>8, <2>11 DEF RequestInv
    <2>12. ASSUME NEW d \in Caller, caller'[d].pc # "idle"
           PROVE  caller'[d].fl < NotAfter[caller'[d].i]
      BY <2>1, <2>3, <2>12 DEF RequestInv
    <2> QED BY <2>2, <2>9, <2>10, <2>11, <2>12 DEF RequestInv
  <1>4. ASSUME NEW c \in Caller, GiveUp(c) PROVE RequestInv'
    <2>1. /\ caller'[c] = Idle /\ \A d \in Caller : d # c => caller'[d] = caller[d]
          /\ \A p \in Proc : proc'[p].pc = proc[p].pc
      BY <1>4, GiveUpFacts
    <2>2. ASSUME NEW d \in Caller, caller'[d].pc # "idle"
          PROVE  caller'[d].fl < NotAfter[caller'[d].i]
      BY <1>a, <2>1, <2>2 DEF RequestInv
    <2>3. CASE caller[c].pc # "wait"
      <3>1. UNCHANGED <<maybe, queue, proc>>
        BY <1>4, <2>3, GiveUpFacts
      <3>2. ASSUME NEW q \in Proc, NEW r, ReqOK(q, r, caller, maybe)
            PROVE  ReqOK(q, r, caller', maybe')
        BY <2>1, <2>3, <3>1, <3>2 DEF ReqOK
      <3> QED BY <2>2, <3>1, <3>2 DEF RequestInv
    <2>4. CASE caller[c].pc = "wait"
      <3>1. /\ maybe' = maybe \cup {caller[c].i}
            /\ \A p \in Proc : /\ proc'[p].req = Abandon(c, proc[p].req)
                               /\ queue[p] = <<>> => queue'[p] = <<>>
                               /\ queue[p] # <<>> => queue'[p][1] = Abandon(c, queue[p][1])
        BY <1>4, <2>4, GiveUpFacts
      <3>2. ASSUME NEW q \in Proc, NEW r \in Request, ReqOK(q, r, caller, maybe)
            PROVE  ReqOK(q, Abandon(c, r), caller', maybe')
        <4>1. /\ Abandon(c, r).i = r.i /\ Abandon(c, r).fl = r.fl
              /\ Abandon(c, r).c = IF r.c = c THEN NoCaller ELSE r.c
          BY <3>2, AbandonFacts
        <4> QED BY <1>0, <2>1, <3>1, <3>2, <4>1 DEF ReqOK
      <3>3. Abandon(c, NoRequest) = NoRequest
        BY <1>0, <1>a DEF Abandon
      <3>4. ASSUME NEW q \in Proc
            PROVE  IF proc'[q].pc \in Serving THEN ReqOK(q, proc'[q].req, caller', maybe')
                                              ELSE proc'[q].req = NoRequest
        BY <1>a, <2>1, <3>1, <3>2, <3>3 DEF RequestInv
      <3>5. ASSUME NEW q \in Proc, queue'[q] # <<>>
            PROVE  /\ queue[q] # <<>> /\ queue[q][1] \in Request
                   /\ queue'[q][1] = Abandon(c, queue[q][1])
        BY <3>1, <3>5, QueueShape
      <3>6. ASSUME NEW q \in Proc, queue'[q] # <<>>
            PROVE  ReqOK(q, queue'[q][1], caller', maybe')
        BY <3>2, <3>5, <3>6 DEF RequestInv
      <3>7. ASSUME NEW q \in Proc, queue'[q] # <<>>, queue'[q][1].c \in Caller
            PROVE  proc'[q].req.c # queue'[q][1].c
        <4>1. /\ queue'[q][1].c = IF queue[q][1].c = c THEN NoCaller ELSE queue[q][1].c
              /\ proc'[q].req.c = IF proc[q].req.c = c THEN NoCaller ELSE proc[q].req.c
          BY <1>a, <3>1, <3>5, <3>7, AbandonFacts
        <4> QED BY <1>0, <3>5, <3>7, <4>1 DEF RequestInv
      <3> QED BY <2>2, <3>4, <3>6, <3>7 DEF RequestInv
    <2> QED BY <2>3, <2>4
  <1>5. ASSUME NEW c \in Caller, NEW i \in Intent, Ask(c, i) PROVE RequestInv'
    <2>1. /\ caller[c].pc = "idle" /\ NotAfter[i] > clock
          /\ caller' = [caller EXCEPT ![c] = [pc |-> "poll", i |-> i, fl |-> clock]]
          /\ UNCHANGED <<proc, queue, maybe>>
      BY <1>5 DEF Ask, answers
    <2>2. /\ caller'[c] = [pc |-> "poll", i |-> i, fl |-> clock]
          /\ \A d \in Caller : d # c => caller'[d] = caller[d]
      BY <1>0, <2>1
    <2>3. ASSUME NEW q \in Proc, NEW r, ReqOK(q, r, caller, maybe)
          PROVE  ReqOK(q, r, caller', maybe')
      BY <2>1, <2>2, <2>3 DEF ReqOK
    <2>4. ASSUME NEW d \in Caller, caller'[d].pc # "idle"
          PROVE  caller'[d].fl < NotAfter[caller'[d].i]
      <3>1. CASE d = c
        <4>1. caller'[d].fl = clock /\ caller'[d].i = i
          BY <2>2, <3>1
        <4>2. clock \in Nat /\ NotAfter[i] \in Nat
          BY LedgerAssumption DEF TypeOK
        <4> QED BY <2>1, <4>1, <4>2
      <3>2. CASE d # c
        BY <2>2, <2>4, <3>2 DEF RequestInv
      <3> QED BY <3>1, <3>2
    <2> QED BY <2>1, <2>3, <2>4 DEF RequestInv
  <1>6. CASE Tick \/ Teardown \/ UNCHANGED vars
    <2>1. UNCHANGED <<proc, queue, caller, maybe>>
      BY <1>6 DEF Tick, Teardown, vars, answers
    <2> QED BY <2>1 DEF RequestInv
  <1>7. ASSUME NEW ps \in SUBSET Proc, Died(ps) PROVE RequestInv'
    <2>1. /\ \A p \in Proc : proc'[p] = IF p \in ps THEN Closed ELSE proc[p]
          /\ \A p \in Proc : queue'[p] = IF p \in ps THEN <<>> ELSE queue[p]
          /\ \A c \in Caller : caller'[c] = IF Home[c] \in ps THEN Idle ELSE caller[c]
          /\ maybe \subseteq maybe'
      BY <1>7, DiedFacts
    <2>2. Closed.pc \notin Serving /\ Closed.req = NoRequest
      BY DEF Closed, Serving
    <2>3. ASSUME NEW q \in Proc, q \notin ps, NEW r, ReqOK(q, r, caller, maybe)
          PROVE  ReqOK(q, r, caller', maybe')
      BY <2>1, <2>3 DEF ReqOK
    <2>4. ASSUME NEW q \in Proc
          PROVE  IF proc'[q].pc \in Serving THEN ReqOK(q, proc'[q].req, caller', maybe')
                                            ELSE proc'[q].req = NoRequest
      BY <2>1, <2>2, <2>3 DEF RequestInv
    <2>5. ASSUME NEW q \in Proc, queue'[q] # <<>>
          PROVE  /\ ReqOK(q, queue'[q][1], caller', maybe')
                 /\ queue'[q][1].c \in Caller => proc'[q].req.c # queue'[q][1].c
      BY <2>1, <2>3, <2>5 DEF RequestInv
    <2>6. ASSUME NEW d \in Caller, caller'[d].pc # "idle"
          PROVE  caller'[d].fl < NotAfter[caller'[d].i]
      BY <1>a, <2>1, <2>6 DEF RequestInv
    <2> QED BY <2>4, <2>5, <2>6 DEF RequestInv
  <1>8. ASSUME NEW p \in Proc, Crash(p) PROVE RequestInv'
    BY <1>7, <1>8 DEF Crash
  <1>9. CASE PowerLoss
    BY <1>7, <1>9 DEF PowerLoss
  <1> QED BY <1>1, <1>2, <1>3, <1>4, <1>5, <1>6, <1>8, <1>9, NextCases DEF Outside

-----------------------------------------------------------------------------
(* The files.                                                              *)

\* What of FileInv does not speak of a worker.
Sound ==
    /\ ~vis.has => ~dur.has
    /\ ~dur.has => vis.mark \in {"empty", "I"} /\ dur.mark \in {"empty", "I"}
    /\ vis.has /\ vis.mark = "C" => Same

\* How the two parts of a file look behind the outcomes of a write.
LEMMA MarkerEffect ==
    ASSUME TypeOK, NEW m \in {"I", "C", "D"}
    PROVE  /\ MarkerWritten(m) =>
                 /\ vis'.has = vis.has /\ vis'.ents = vis.ents /\ vis'.mark = m
                 /\ dur'.has = dur.has /\ dur'.ents = dur.ents /\ dur'.mark = m
           /\ MarkerFailed(m) =>
                 /\ vis'.has = vis.has /\ vis'.ents = vis.ents
                 /\ vis'.mark = vis.mark \/ vis'.mark \in Torn(m)
                 /\ dur' = dur
  <1>1. vis \in Files /\ dur \in Files
    BY DEF TypeOK
  <1>2. \A t : /\ [vis EXCEPT !.mark = t].has = vis.has
               /\ [vis EXCEPT !.mark = t].ents = vis.ents
               /\ [vis EXCEPT !.mark = t].mark = t
               /\ [dur EXCEPT !.mark = t].has = dur.has
               /\ [dur EXCEPT !.mark = t].ents = dur.ents
               /\ [dur EXCEPT !.mark = t].mark = t
    BY <1>1 DEF Files
  <1>3. MarkerWritten(m) => vis' = [vis EXCEPT !.mark = m] /\ dur' = [dur EXCEPT !.mark = m]
    BY DEF MarkerWritten
  <1>4. MarkerFailed(m) =>
            dur' = dur /\ (vis' = vis \/ \E t \in Torn(m) : vis' = [vis EXCEPT !.mark = t])
    BY DEF MarkerFailed
  <1> QED BY <1>2, <1>3, <1>4

\* What the three outcomes of replacing the record leave in the files.
LEMMA RecordEffect ==
    ASSUME TypeOK, NEW ents \in SUBSET Intent
    PROVE  /\ Committed(ents) =>
                 /\ vis'.has /\ vis'.ents = ents /\ vis'.mark = vis.mark
                 /\ dur'.has /\ dur'.ents = ents /\ dur'.mark = dur.mark
           /\ NotCommitted => vis' = vis /\ dur' = dur
           /\ Uncertain(ents) =>
                 /\ vis'.has /\ vis'.ents = ents /\ vis'.mark = vis.mark
                 /\ dur' = dur \/ (dur'.has /\ dur'.ents = ents /\ dur'.mark = dur.mark)
  <1>1. vis \in Files /\ dur \in Files
    BY DEF TypeOK
  <1>2. /\ WithRecord(vis, ents).has /\ WithRecord(vis, ents).ents = ents
        /\ WithRecord(vis, ents).mark = vis.mark
        /\ WithRecord(dur, ents).has /\ WithRecord(dur, ents).ents = ents
        /\ WithRecord(dur, ents).mark = dur.mark
    BY <1>1 DEF Files, WithRecord
  <1> QED BY <1>2 DEF Committed, NotCommitted, Uncertain, disk

\* The holder of the lock is alone: no other worker relies on the files.
LEMMA Alone ==
    ASSUME TypeOK, LockInv, NEW p \in Proc, proc[p].pc \in Hold, Others(p),
           Established(p)', NEW q \in Proc
    PROVE  Established(q)'
  <1>1. CASE q = p
    BY <1>1
  <1>2. CASE q # p
    <2>1. proc'[q] = proc[q] /\ proc[q].pc \notin Hold
      BY <1>2 DEF LockInv, Others
    <2>2. proc'[q].pc \notin {"initMark", "initRecord", "openRecord", "againRecord", "openMark",
                              "againMark", "dirty", "replace", "clean"}
      BY <2>1 DEF Hold
    <2> QED BY <2>2 DEF Established
  <1> QED BY <1>1, <1>2

\* Every step keeps what the files and the holder of the lock vouch for.
LEMMA FileStep ==
    ASSUME TypeOK, LockInv, FileInv, [Next]_vars
    PROVE  FileInv'
  <1>0. FileInv <=> Sound /\ \A q \in Proc : Established(q)
    BY DEF FileInv, Sound
  <1>00. FileInv' <=> Sound' /\ \A q \in Proc : Established(q)'
    BY DEF FileInv, Sound
  <1>a. vis.ents \in SUBSET Intent /\ {} \in SUBSET Intent
        /\ \A q \in Proc : NewEntries(q) \in SUBSET Intent
    <2>1. \A q \in Proc : proc[q].req.i \in Intent
      BY DEF TypeOK, Worker, Request
    <2>2. vis.ents \in SUBSET Intent
      BY DEF TypeOK, Files
    <2> QED BY <2>1, <2>2 DEF NewEntries, Retained
  \* A step of a worker that holds the lock need only be looked at for itself.
  <1>b. ASSUME NEW p \in Proc, Moves(p), proc[p].pc \in Hold, Sound', Established(p)'
        PROVE  FileInv'
    BY <1>00, <1>b, MovesOthers, Alone
  \* An answer, and the end of an opening, leave nothing to rely on.
  <1>c. ASSUME NEW p \in Proc, proc'[p].pc \in {"idle", "down", "load", "lock", "inspect", "openLock"}
        PROVE  Established(p)'
    BY <1>c DEF Established
  <1>d. \A p \in Proc : \A outcome : Answer(p, outcome) => proc'[p].pc = "idle"
    BY AnswerFacts
  <1>e. \A p \in Proc, pc \in Pc : Goto(p, pc) => proc'[p].pc = pc /\ proc'[p].req = proc[p].req
    BY GotoFacts
  \* The record and the marker stay, and no other worker moves.
  <1>f. ASSUME NEW p \in Proc, Others(p), UNCHANGED disk, Established(p)'
        PROVE  FileInv'
    <2>1. Sound'
      BY <1>0, <1>f DEF Sound, Same, disk
    <2>2. \A q \in Proc : q # p => Established(q)'
      BY <1>0, <1>f DEF Established, Same, Others, disk
    <2> QED BY <1>00, <1>f, <2>1, <2>2
  <1>1. ASSUME NEW p \in Proc, Acquire(p) \/ OpenLock(p) \/ Open(p) PROVE FileInv'
    <2>1. Others(p)
      BY <1>1, WorkMoves, MovesOthers DEF Work, Receive, Acquire, OpenLock, Open
    <2>2. proc'[p].pc \in {"idle", "down", "load", "lock", "inspect", "openLock"}
      BY <1>1, <1>d, <1>e DEF Acquire, OpenLock, Open, Pc
    <2>3. UNCHANGED disk
      BY <1>1 DEF Acquire, OpenLock, Open
    <2> QED BY <1>c, <1>f, <2>1, <2>2, <2>3
  <1>2. ASSUME NEW p \in Proc, Receive(p) PROVE FileInv'
    <2>1. Others(p) /\ proc'[p].pc = "lock" /\ UNCHANGED disk
      BY <1>2, ReceiveFacts DEF Receive
    <2> QED BY <1>c, <1>f, <2>1
  <1>3. ASSUME NEW p \in Proc, Load(p) PROVE FileInv'
    <2>1. Others(p) /\ UNCHANGED disk
      BY <1>3, WorkMoves, MovesOthers DEF Work, Receive, Load
    <2>2. CASE \E outcome : Answer(p, outcome)
      BY <1>c, <1>d, <1>f, <2>1, <2>2
    <2>3. CASE Goto(p, "againRecord") /\ vis.mark # "C" /\ vis.has
      <3>1. proc'[p].pc = "againRecord"
        BY <1>e, <2>3 DEF Pc
      <3>2. Established(p)'
        BY <2>1, <2>3, <3>1 DEF Established, disk
      <3> QED BY <1>f, <2>1, <3>2
    <2>4. CASE Goto(p, "dirty") /\ vis.mark = "C" /\ vis.has
      <3>1. proc'[p].pc = "dirty"
        BY <1>e, <2>4 DEF Pc
      <3>2. Same /\ UNCHANGED <<vis, dur>>
        BY <1>0, <2>1, <2>4 DEF Sound, disk
      <3>3. Established(p)'
        BY <3>1, <3>2 DEF Established, Same
      <3> QED BY <1>f, <2>1, <3>3
    <2> QED BY <1>3, <2>2, <2>3, <2>4 DEF Load, Decide
  <1>4. ASSUME NEW p \in Proc, AgainRecord(p) \/ OpenRecord(p) PROVE FileInv'
    <2>1. Moves(p)
      BY <1>4, WorkMoves DEF Work, Receive, AgainRecord, OpenRecord
    <2>2. proc[p].pc \in Hold /\ proc[p].pc \in {"openRecord", "againRecord"}
      BY <1>4 DEF AgainRecord, OpenRecord, Hold
    <2>3. vis.has /\ vis.mark # "C"
      BY <1>0, <2>2 DEF Established
    <2>4. CASE Committed(vis.ents) /\ \E pc \in {"againMark", "openMark"} : Goto(p, pc)
      <3>1. /\ vis'.has /\ vis'.ents = vis.ents /\ vis'.mark = vis.mark
            /\ dur'.has /\ dur'.ents = vis.ents /\ dur'.mark = dur.mark
        BY <1>a, <2>4, RecordEffect
      <3>2. proc'[p].pc \in {"againMark", "openMark"}
        BY <1>e, <2>4 DEF Pc
      <3>3. Sound'
        BY <1>0, <2>3, <3>1 DEF Sound, Same
      <3>4. Established(p)'
        BY <3>1, <3>2 DEF Established, Same
      <3> QED BY <1>b, <2>1, <2>2, <3>3, <3>4
    <2>5. CASE (NotCommitted \/ Uncertain(vis.ents)) /\ proc'[p].pc \in {"idle", "down"}
      <3>1. /\ vis'.has /\ vis'.ents = vis.ents /\ vis'.mark = vis.mark
            /\ dur' = dur \/ (dur'.has /\ dur'.ents = vis.ents /\ dur'.mark = dur.mark)
        BY <1>a, <2>3, <2>5, RecordEffect
      <3>2. Sound'
        BY <1>0, <2>3, <3>1 DEF Sound, Same
      <3> QED BY <1>b, <1>c, <2>1, <2>2, <2>5, <3>2
    <2>6. OpenFailed(p) \/ Answer(p, "Unavailable") => proc'[p].pc \in {"idle", "down"}
      BY <1>d, <1>e DEF OpenFailed, Pc
    <2> QED BY <1>4, <2>4, <2>5, <2>6 DEF AgainRecord, OpenRecord, OpenStep
  <1>5. ASSUME NEW p \in Proc, AgainMark(p) \/ OpenMark(p) \/ MarkClean(p) PROVE FileInv'
    <2>1. Moves(p)
      BY <1>5, WorkMoves DEF Work, Receive, AgainMark, OpenMark, MarkClean
    <2>2. proc[p].pc \in Hold /\ proc[p].pc \in {"openMark", "againMark", "clean"}
      BY <1>5 DEF AgainMark, OpenMark, MarkClean, Hold
    <2>3. Same
      BY <1>0, <2>2 DEF Established
    <2>4. proc'[p].pc \in {"idle", "down", "load"}
      BY <1>5, <1>d, <1>e DEF AgainMark, OpenMark, MarkClean, OpenFailed, Pc
    <2>5. MarkerWritten("C") \/ MarkerFailed("C")
      BY <1>5 DEF AgainMark, OpenMark, MarkClean
    <2>6. /\ vis'.has = vis.has /\ vis'.ents = vis.ents
          /\ dur'.has = dur.has /\ dur'.ents = dur.ents
      BY <2>5, MarkerEffect
    <2>7. Sound'
      BY <2>3, <2>6 DEF Sound, Same
    <2> QED BY <1>b, <1>c, <2>1, <2>2, <2>4, <2>7
  <1>6. ASSUME NEW p \in Proc, MarkDirty(p) PROVE FileInv'
    <2>1. Moves(p)
      BY <1>6, WorkMoves DEF Work, Receive, MarkDirty
    <2>2. proc[p].pc \in Hold /\ proc[p].pc = "dirty"
      BY <1>6 DEF MarkDirty, Hold
    <2>3. Same
      BY <1>0, <2>2 DEF Established
    <2>4. CASE MarkerWritten("D") /\ Goto(p, "replace")
      <3>1. /\ vis'.has = vis.has /\ vis'.ents = vis.ents /\ vis'.mark = "D"
            /\ dur'.has = dur.has /\ dur'.ents = dur.ents
        BY <2>4, MarkerEffect
      <3>2. proc'[p].pc = "replace"
        BY <1>e, <2>4 DEF Pc
      <3>3. Sound' /\ Established(p)'
        BY <2>3, <3>1, <3>2 DEF Sound, Same, Established
      <3> QED BY <1>b, <2>1, <2>2, <3>3
    <2>5. CASE MarkerFailed("D") /\ Answer(p, "Unavailable")
      <3>1. /\ vis'.has = vis.has /\ vis'.ents = vis.ents
            /\ dur'.has = dur.has /\ dur'.ents = dur.ents
        BY <2>5, MarkerEffect
      <3>2. Sound'
        BY <2>3, <3>1 DEF Sound, Same
      <3> QED BY <1>b, <1>c, <1>d, <2>1, <2>2, <2>5, <3>2
    <2> QED BY <1>6, <2>4, <2>5 DEF MarkDirty
  <1>7. ASSUME NEW p \in Proc, Replace(p) PROVE FileInv'
    <2>1. Moves(p)
      BY <1>7, WorkMoves DEF Work, Receive, Replace
    <2>2. proc[p].pc \in Hold /\ proc[p].pc = "replace"
      BY <1>7 DEF Replace, Hold
    <2>3. Same /\ vis.mark = "D"
      BY <1>0, <2>2 DEF Established
    <2>4. CASE Committed(NewEntries(p)) /\ Goto(p, "clean")
      <3>1. /\ vis'.has /\ vis'.ents = NewEntries(p) /\ vis'.mark = vis.mark
            /\ dur'.has /\ dur'.ents = NewEntries(p)
        BY <1>a, <2>4, RecordEffect
      <3>2. proc'[p].pc = "clean" /\ proc'[p].req = proc[p].req
        BY <1>e, <2>4 DEF Pc
      <3>3. Sound' /\ Established(p)'
        BY <2>3, <3>1, <3>2 DEF Sound, Same, Established, NewEntries
      <3> QED BY <1>b, <2>1, <2>2, <3>3
    <2>5. CASE (NotCommitted \/ Uncertain(NewEntries(p))) /\ \E outcome : Answer(p, outcome)
      <3>1. vis'.has /\ dur'.has /\ vis'.mark = "D"
        BY <1>a, <2>3, <2>5, RecordEffect DEF Same
      <3>2. Sound'
        BY <3>1 DEF Sound, Same
      <3> QED BY <1>b, <1>c, <1>d, <2>1, <2>2, <2>5, <3>2
    <2> QED BY <1>7, <2>4, <2>5 DEF Replace
  <1>8. ASSUME NEW p \in Proc, Inspect(p) PROVE FileInv'
    <2>1. Others(p) /\ UNCHANGED <<vis, dur>>
      BY <1>8, WorkMoves, MovesOthers DEF Work, Receive, Inspect, disk
    <2>2. \/ proc'[p].pc \in {"idle", "down"}
          \/ proc'[p].pc = "openRecord" /\ vis.has /\ vis.mark # "C"
          \/ proc'[p].pc = "initMark" /\ ~vis.has
      BY <1>8, <1>e DEF Inspect, OpenStep, OpenFailed, Pc
    <2>3. Established(p)'
      BY <2>1, <2>2 DEF Established
    <2> QED BY <1>f, <2>1, <2>3 DEF disk
  <1>9. ASSUME NEW p \in Proc, InitMark(p) PROVE FileInv'
    <2>1. Moves(p)
      BY <1>9, WorkMoves DEF Work, Receive, InitMark
    <2>2. proc[p].pc \in Hold /\ proc[p].pc = "initMark"
      BY <1>9 DEF InitMark, Hold
    <2>3. ~vis.has /\ ~dur.has
      BY <1>0, <2>2 DEF Established, Sound
    <2>4. MarkerWritten("I") \/ MarkerFailed("I")
      BY <1>9 DEF InitMark
    <2>5. /\ vis'.has = vis.has /\ dur'.has = dur.has
          /\ vis'.mark \in {"empty", "I"} /\ dur'.mark \in {"empty", "I"}
      BY <1>0, <2>3, <2>4, MarkerEffect DEF Sound, Torn
    <2>6. proc'[p].pc \in {"initRecord", "down"}
      BY <1>9, <1>e DEF InitMark, OpenStep, OpenFailed, Pc
    <2>7. Sound' /\ Established(p)'
      BY <2>3, <2>5, <2>6 DEF Sound, Established
    <2> QED BY <1>b, <2>1, <2>2, <2>7
  <1>10. ASSUME NEW p \in Proc, InitRecord(p) PROVE FileInv'
    <2>1. Moves(p)
      BY <1>10, WorkMoves DEF Work, Receive, InitRecord
    <2>2. proc[p].pc \in Hold /\ proc[p].pc = "initRecord"
      BY <1>10 DEF InitRecord, Hold
    <2>3. ~vis.has /\ ~dur.has /\ vis.mark \in {"empty", "I"} /\ dur.mark \in {"empty", "I"}
      BY <1>0, <2>2 DEF Established, Sound
    <2>4. CASE Committed({}) /\ OpenStep(p, "openMark")
      <3>1. /\ vis'.has /\ vis'.ents = {} /\ vis'.mark = vis.mark
            /\ dur'.has /\ dur'.ents = {}
        BY <1>a, <2>4, RecordEffect
      <3>2. proc'[p].pc = "openMark"
        BY <1>e, <2>4 DEF Pc, OpenStep
      <3>3. Sound' /\ Established(p)'
        BY <2>3, <3>1, <3>2 DEF Sound, Same, Established
      <3> QED BY <1>b, <2>1, <2>2, <3>3
    <2>5. CASE NotCommitted /\ OpenFailed(p)
      <3>1. vis' = vis /\ dur' = dur
        BY <1>a, <2>5, RecordEffect
      <3>2. proc'[p].pc = "down"
        BY <1>e, <2>5 DEF Pc, OpenFailed
      <3>3. Sound'
        BY <1>0, <3>1 DEF Sound, Same
      <3> QED BY <1>b, <1>c, <2>1, <2>2, <3>2, <3>3
    <2>6. CASE Uncertain({}) /\ OpenFailed(p)
      <3>1. /\ vis'.has /\ vis'.mark = vis.mark
            /\ dur' = dur \/ (dur'.has /\ dur'.mark = dur.mark)
        BY <1>a, <2>6, RecordEffect
      <3>2. proc'[p].pc = "down"
        BY <1>e, <2>6 DEF Pc, OpenFailed
      <3>3. vis'.mark # "C" /\ vis'.mark \in {"empty", "I"} /\ dur'.mark \in {"empty", "I"}
        BY <2>3, <3>1
      <3>4. Sound'
        BY <3>1, <3>3 DEF Sound, Same
      <3> QED BY <1>b, <1>c, <2>1, <2>2, <3>2, <3>4
    <2> QED BY <1>10, <2>4, <2>5, <2>6 DEF InitRecord
  <1>11. CASE Outside
    <2>1. /\ \A p \in Proc : proc'[p].pc = proc[p].pc /\ proc'[p].req.i = proc[p].req.i
          /\ UNCHANGED <<vis, dur>>
      BY <1>11, OutsideFacts DEF disk
    <2> QED BY <1>0, <1>00, <2>1 DEF Sound, Established, Same
  <1>12. ASSUME NEW p \in Proc, Crash(p) PROVE FileInv'
    <2>1. Died({p}) /\ UNCHANGED disk
      BY <1>12 DEF Crash
    <2>2. proc'[p] = Closed /\ Others(p)
      BY <2>1, DiedFacts DEF Others
    <2> QED BY <1>c, <1>f, <2>1, <2>2 DEF Closed
  <1>13. CASE PowerLoss
    <2>1. \A p \in Proc : proc'[p] = Closed
      BY <1>13, DiedFacts DEF PowerLoss
    <2>2. \A p \in Proc : Established(p)'
      BY <1>c, <2>1 DEF Closed
    <2>3. PICK r \in {vis, dur}, m \in {vis.mark, dur.mark} \cup
                                  IF vis.mark # dur.mark THEN Torn(vis.mark) ELSE {} :
              vis' = [r EXCEPT !.mark = m]
      BY <1>13 DEF PowerLoss
    <2>4. vis \in Files /\ dur \in Files
      BY DEF TypeOK
    <2>5. vis'.has = r.has /\ vis'.ents = r.ents /\ vis'.mark = m /\ dur' = vis'
      BY <1>13, <2>3, <2>4 DEF PowerLoss, Files
    \* What a record-less disk keeps of a marker is again one of an unfinished opening.
    <2>6. ~dur.has => m \in {"empty", "I"}
      BY <1>0, <2>3 DEF Sound, Torn
    <2>7. ~r.has => ~dur.has
      BY <1>0, <2>3 DEF Sound
    <2>8. Sound'
      BY <2>5, <2>6, <2>7 DEF Sound, Same
    <2> QED BY <1>00, <2>2, <2>8
  <1>14. CASE UNCHANGED vars
    BY <1>0, <1>00, <1>14 DEF vars, Sound, Established, Same
  <1> QED BY <1>1, <1>2, <1>3, <1>4, <1>5, <1>6, <1>7, <1>8, <1>9, <1>10, <1>11, <1>12, <1>13,
             <1>14, NextCases DEF Work

\* An open finds no file corrupt: without a record the marker is that of an unfinished
\* initialization.
LEMMA CorruptStep ==
    ASSUME TypeOK, FileInv, NeverCorrupt, [Next]_vars
    PROVE  NeverCorrupt'
  <1>1. ~vis.has => vis.mark \in {"empty", "I"}
    BY DEF FileInv
  <1>2. ASSUME NEW p \in Proc, Inspect(p) PROVE ~corrupt'
    BY <1>1, <1>2 DEF Inspect, NeverCorrupt
  <1>3. ASSUME NEW p \in Proc, Work(p) \/ Open(p), ~Inspect(p) PROVE corrupt' = corrupt
    BY <1>3 DEF Work, Receive, Acquire, Load, AgainRecord, AgainMark, MarkDirty, Replace, MarkClean,
                OpenLock, InitMark, InitRecord, OpenRecord, OpenMark, Open, history
  <1>4. CASE Outside \/ PowerLoss \/ UNCHANGED vars \/ \E p \in Proc : Crash(p)
    BY <1>4, OutsideFacts DEF PowerLoss, Crash, vars, history, NeverCorrupt
  <1> QED BY <1>2, <1>3, <1>4, NextCases DEF NeverCorrupt, Work

-----------------------------------------------------------------------------
(* What has been answered.                                                 *)

\* What a step of a worker answers.
LEMMA AnswerEffect ==
    ASSUME TypeOK, NEW p \in Proc, NEW outcome, Answer(p, outcome)
    PROVE  /\ seen \subseteq seen' /\ seen' \subseteq seen \cup {proc[p].req.i}
           /\ outcome \notin {"Committed", "AlreadyConsumed"} => seen' = seen
           /\ maybe \subseteq maybe'
           /\ outcome = "MayHaveTakenEffect" => proc[p].req.i \in maybe'
           /\ outcome = "Committed" /\ proc[p].req.c # NoCaller => proc[p].req.i \in seen'
           /\ \A i \in Intent : i # proc[p].req.i => won'[i] = won[i]
           /\ won' = won \/ ( /\ outcome = "Committed" /\ proc[p].req.i \in seen'
                              /\ won'[proc[p].req.i] = won[proc[p].req.i] + 1 )
  <1>1. won \in [Intent -> Nat] /\ proc[p].req.i \in Intent
    BY DEF TypeOK, Worker, Request
  <1>2. seen' = IF proc[p].req.c # NoCaller /\ outcome \in {"Committed", "AlreadyConsumed"}
                THEN seen \cup {proc[p].req.i} ELSE seen
    BY DEF Answer
  <1>3. maybe' = IF outcome = "MayHaveTakenEffect" THEN maybe \cup {proc[p].req.i} ELSE maybe
    BY DEF Answer
  <1>4. won' = IF proc[p].req.c # NoCaller /\ outcome = "Committed"
               THEN [won EXCEPT ![proc[p].req.i] = @ + 1] ELSE won
    BY DEF Answer
  <1>5. CASE proc[p].req.c # NoCaller /\ outcome = "Committed"
    BY <1>1, <1>2, <1>3, <1>4, <1>5
  <1>6. CASE ~(proc[p].req.c # NoCaller /\ outcome = "Committed")
    BY <1>1, <1>2, <1>3, <1>4, <1>6
  <1> QED BY <1>5, <1>6

\* Rows that leave the record are past the floor it is written with.
LEMMA Removed ==
    ASSUME TypeOK, NEW p \in Proc, NEW i \in vis.ents \ NewEntries(p)
    PROVE  NotAfter[i] < proc[p].req.fl
  <1>1. i \in Intent /\ NotAfter[i] \in Nat /\ proc[p].req.fl \in Nat
    BY LedgerAssumption DEF TypeOK, Files, Worker, Request
  <1>2. ~(proc[p].req.fl <= NotAfter[i])
    BY DEF NewEntries, Retained
  <1> QED BY <1>1, <1>2

\* What the replacement of the record leaves.
LEMMA RewritesFacts ==
    ASSUME TypeOK, FileInv, NEW p \in Proc, Replace(p)
    PROVE  \/ UNCHANGED <<vis, dur, gone, top>> /\ Answer(p, "Unavailable")
           \/ /\ vis'.has /\ vis'.ents = NewEntries(p)
              /\ dur'.has /\ dur'.ents \in {dur.ents, NewEntries(p)}
              /\ Rewritten(p)
              /\ \/ UNCHANGED <<seen, maybe, won>> /\ Goto(p, "clean")
                 \/ Answer(p, "MayHaveTakenEffect")
  <1>1. NewEntries(p) \in SUBSET Intent
    BY DEF TypeOK, Worker, Request, Files, NewEntries, Retained
  <1>2. dur.has
    BY DEF Replace, FileInv, Established, Same
  <1>3. CASE NotCommitted /\ UNCHANGED <<gone, top>> /\ Answer(p, "Unavailable")
    BY <1>1, <1>3, RecordEffect
  <1>4. CASE Committed(NewEntries(p)) /\ Rewritten(p) /\ Goto(p, "clean") /\ NoAnswer
    BY <1>1, <1>4, RecordEffect DEF NoAnswer, answers
  <1>5. CASE Uncertain(NewEntries(p)) /\ Rewritten(p) /\ Answer(p, "MayHaveTakenEffect")
    BY <1>1, <1>2, <1>5, RecordEffect
  <1> QED BY <1>3, <1>4, <1>5 DEF Replace

\* The other steps of a worker keep the rows, visible and durable, that are there; only
\* the first record, which has none, and a recovery of the visible one are written.
LEMMA KeepsRows ==
    ASSUME TypeOK, FileInv, NEW p \in Proc, Work(p) \/ Open(p), ~Replace(p)
    PROVE  /\ vis.has => vis'.has /\ vis'.ents = vis.ents
           /\ dur.has => dur'.has /\ dur'.ents \in {dur.ents, vis.ents}
           /\ vis'.ents \subseteq vis.ents /\ dur'.ents \subseteq dur.ents \cup vis.ents
           /\ UNCHANGED <<gone, top>>
  <1>a. vis.ents \in SUBSET Intent /\ {} \in SUBSET Intent
    BY DEF TypeOK, Files
  <1>1. CASE AgainRecord(p) \/ OpenRecord(p)
    <2>1. Committed(vis.ents) \/ NotCommitted \/ Uncertain(vis.ents)
      BY <1>1 DEF AgainRecord, OpenRecord
    <2>2. UNCHANGED <<gone, top>>
      BY <1>1 DEF AgainRecord, OpenRecord, history, OpenFrame
    <2> QED BY <1>a, <2>1, <2>2, RecordEffect
  <1>2. CASE InitRecord(p)
    <2>1. Committed({}) \/ NotCommitted \/ Uncertain({})
      BY <1>2 DEF InitRecord
    <2>2. UNCHANGED <<gone, top>> /\ ~vis.has /\ ~dur.has
      BY <1>2 DEF InitRecord, OpenFrame, FileInv, Established
    <2> QED BY <1>a, <2>1, <2>2, RecordEffect
  <1>3. CASE AgainMark(p) \/ MarkDirty(p) \/ MarkClean(p) \/ InitMark(p) \/ OpenMark(p)
    <2>1. \E m \in {"I", "C", "D"} : MarkerWritten(m) \/ MarkerFailed(m)
      BY <1>3 DEF AgainMark, MarkDirty, MarkClean, InitMark, OpenMark
    <2>2. UNCHANGED <<gone, top>>
      BY <1>3 DEF AgainMark, MarkDirty, MarkClean, InitMark, OpenMark, history, OpenFrame
    <2> QED BY <2>1, <2>2, MarkerEffect
  <1>4. CASE Receive(p) \/ Acquire(p) \/ Load(p) \/ Open(p) \/ OpenLock(p) \/ Inspect(p)
    BY <1>4 DEF Receive, Acquire, Load, Open, OpenLock, Inspect, disk, history, OpenFrame
  <1> QED BY <1>1, <1>2, <1>3, <1>4 DEF Work

\* Who is told that a nonce is consumed, and what the worker knows then.
LEMMA NewlySeen ==
    ASSUME TypeOK, FileInv, NEW p \in Proc, Work(p) \/ Open(p)
    PROVE  /\ seen \subseteq seen'
           /\ \A i \in seen' \ seen :
                 /\ Same /\ i \in vis.ents /\ i = proc[p].req.i
                 /\ vis'.has /\ vis'.ents = vis.ents /\ dur'.has /\ dur'.ents = dur.ents
  <1>1. CASE MarkClean(p)
    <2>1. Same /\ proc[p].req.i \in vis.ents
      BY <1>1 DEF MarkClean, FileInv, Established
    <2>2. MarkerWritten("C") \/ MarkerFailed("C")
      BY <1>1 DEF MarkClean
    <2>3. vis'.has = vis.has /\ vis'.ents = vis.ents /\ dur'.has = dur.has /\ dur'.ents = dur.ents
      BY <2>2, MarkerEffect
    <2>4. seen \subseteq seen' /\ seen' \subseteq seen \cup {proc[p].req.i}
      BY <1>1, AnswerEffect DEF MarkClean
    <2> QED BY <2>1, <2>3, <2>4 DEF Same
  <1>2. CASE Load(p) /\ Decide(p) /\ vis.mark = "C" /\ vis.has
    <2>1. Same /\ UNCHANGED <<vis, dur>>
      BY <1>2 DEF Load, FileInv, disk
    <2>2. CASE proc[p].req.i \in Retained(vis.ents, proc[p].req.fl)
      <3>1. Answer(p, "AlreadyConsumed")
        BY <1>2, <2>2 DEF Decide
      <3>2. proc[p].req.i \in vis.ents
        BY <2>2 DEF Retained
      <3>3. seen \subseteq seen' /\ seen' \subseteq seen \cup {proc[p].req.i}
        BY <3>1, AnswerEffect
      <3> QED BY <2>1, <3>2, <3>3 DEF Same
    <2>3. CASE proc[p].req.i \notin Retained(vis.ents, proc[p].req.fl)
      <3>1. Answer(p, "Unavailable") \/ NoAnswer
        BY <1>2, <2>3 DEF Decide
      <3>2. seen' = seen
        BY <3>1, AnswerEffect DEF NoAnswer, answers
      <3> QED BY <3>2
    <2> QED BY <2>2, <2>3
  <1>3. CASE ~MarkClean(p) /\ ~(Load(p) /\ Decide(p) /\ vis.mark = "C" /\ vis.has)
    <2>1. \/ \E outcome \in {"Unavailable", "MayHaveTakenEffect"} : Answer(p, outcome)
          \/ seen' = seen
      BY <1>3 DEF Work, Receive, Acquire, Load, AgainRecord, AgainMark, MarkDirty, Replace,
                  OpenLock, Inspect, InitMark, InitRecord, OpenRecord, OpenMark, Open, OpenFrame,
                  NoAnswer, answers
    <2>2. seen' = seen
      BY <2>1, AnswerEffect
    <2> QED BY <2>2
  <1> QED BY <1>1, <1>2, <1>3

\* Every step keeps the rows of answered intents on disk.
LEMMA DurableStep ==
    ASSUME TypeOK, FileInv, DurableInv, [Next]_vars
    PROVE  DurableInv'
  <1>1. ASSUME NEW p \in Proc, Work(p) \/ Open(p), ~Replace(p) PROVE DurableInv'
    <2>1. /\ vis.has => vis'.has /\ vis'.ents = vis.ents
          /\ dur.has => dur'.has /\ dur'.ents \in {dur.ents, vis.ents}
          /\ UNCHANGED <<gone, top>>
      BY <1>1, KeepsRows
    <2>2. \A i \in seen' \ seen :
              Same /\ i \in vis.ents /\ vis'.has /\ vis'.ents = vis.ents /\ dur'.has /\ dur'.ents = dur.ents
      BY <1>1, NewlySeen
    <2> QED BY <2>1, <2>2 DEF DurableInv, Same
  <1>2. ASSUME NEW p \in Proc, Replace(p) PROVE DurableInv'
    <2>1. CASE UNCHANGED <<vis, dur, gone, top>> /\ Answer(p, "Unavailable")
      <3>1. seen' = seen
        BY <2>1, AnswerEffect
      <3> QED BY <2>1, <3>1 DEF DurableInv
    <2>2. CASE /\ vis'.has /\ vis'.ents = NewEntries(p)
               /\ dur'.has /\ dur'.ents \in {dur.ents, NewEntries(p)}
               /\ Rewritten(p)
      <3>1. seen' = seen
        BY <1>2, RewritesFacts, AnswerEffect
      <3>2. gone' = gone \cup (vis.ents \ NewEntries(p))
        BY <2>2 DEF Rewritten
      <3> QED BY <2>2, <3>1, <3>2 DEF DurableInv
    <2> QED BY <1>2, <2>1, <2>2, RewritesFacts
  <1>3. CASE Outside \/ UNCHANGED vars \/ \E p \in Proc : Crash(p)
    <2>1. UNCHANGED <<vis, dur, seen, gone>>
      BY <1>3, OutsideFacts DEF vars, Crash, disk, history
    <2> QED BY <2>1 DEF DurableInv
  <1>4. CASE PowerLoss
    <2>1. UNCHANGED <<seen, gone>> /\ dur' = vis'
      BY <1>4 DEF PowerLoss, history
    <2>2. \E r \in {vis, dur} : \E m : vis' = [r EXCEPT !.mark = m]
      BY <1>4 DEF PowerLoss
    <2>3. \E r \in {vis, dur} : vis'.has = r.has /\ vis'.ents = r.ents
      BY <2>2 DEF TypeOK, Files
    <2> QED BY <2>1, <2>3 DEF DurableInv
  <1> QED BY <1>1, <1>2, <1>3, <1>4, NextCases DEF Work

\* Every step removes only rows that some floor has passed.
LEMMA GoneStep ==
    ASSUME TypeOK, FileInv, GoneInv, [Next]_vars
    PROVE  GoneInv'
  <1>0. /\ top \in Nat /\ gone \subseteq Intent /\ vis.ents \subseteq Intent
        /\ NotAfter \in [Intent -> Nat] /\ \A p \in Proc : proc[p].req.fl \in Nat
    BY LedgerAssumption DEF TypeOK, Files, Worker, Request
  <1>1. ASSUME NEW p \in Proc, Rewritten(p) PROVE GoneInv'
    <2>1. /\ gone' = gone \cup (vis.ents \ NewEntries(p))
          /\ top' = IF proc[p].req.fl > top THEN proc[p].req.fl ELSE top
      BY <1>1 DEF Rewritten
    <2>2. top' \in Nat /\ top <= top' /\ proc[p].req.fl <= top'
      BY <1>0, <2>1
    <2>3. ASSUME NEW i \in gone PROVE NotAfter[i] < top'
      <3>1. NotAfter[i] < top /\ NotAfter[i] \in Nat
        BY <1>0 DEF GoneInv
      <3> QED BY <1>0, <2>2, <3>1
    <2>4. ASSUME NEW i \in vis.ents \ NewEntries(p) PROVE NotAfter[i] < top'
      <3>1. NotAfter[i] < proc[p].req.fl /\ NotAfter[i] \in Nat /\ proc[p].req.fl \in Nat
        BY <1>0, Removed
      <3> QED BY <2>2, <3>1
    <2> QED BY <2>1, <2>3, <2>4 DEF GoneInv
  <1>2. ASSUME UNCHANGED <<gone, top>> PROVE GoneInv'
    BY <1>2 DEF GoneInv
  <1>3. ASSUME NEW p \in Proc, Work(p) \/ Open(p) PROVE GoneInv'
    BY <1>1, <1>2, <1>3, RewritesFacts, KeepsRows
  <1>4. CASE Outside \/ PowerLoss \/ UNCHANGED vars \/ \E p \in Proc : Crash(p)
    BY <1>2, <1>4, OutsideFacts DEF PowerLoss, Crash, vars, history
  <1> QED BY <1>3, <1>4, NextCases DEF Work

-----------------------------------------------------------------------------
(* A nonce is consumed once.                                               *)

\* Only the step that cleans the marker tells a session Committed.
LEMMA WonFacts ==
    ASSUME TypeOK, NEW p \in Proc, Work(p) \/ Open(p)
    PROVE  \/ won' = won
           \/ /\ proc[p].pc = "clean" /\ proc'[p].pc = "idle" /\ stale' = stale
              /\ proc[p].req.i \in seen'
              /\ won'[proc[p].req.i] = won[proc[p].req.i] + 1
              /\ \A i \in Intent : i # proc[p].req.i => won'[i] = won[i]
  <1>1. CASE MarkClean(p) /\ Answer(p, "Committed")
    <2>1. proc[p].pc = "clean" /\ stale' = stale
      BY <1>1 DEF MarkClean, history
    <2> QED BY <1>1, <2>1, AnswerEffect, AnswerFacts
  <1>2. CASE ~(MarkClean(p) /\ Answer(p, "Committed"))
    <2>1. \/ \E outcome \in {"Unavailable", "MayHaveTakenEffect", "AlreadyConsumed"} :
                Answer(p, outcome)
          \/ won' = won
      BY <1>2 DEF Work, Receive, Acquire, Load, Decide, AgainRecord, AgainMark, MarkDirty, Replace,
                  MarkClean, OpenLock, Inspect, InitMark, InitRecord, OpenRecord, OpenMark, Open,
                  OpenFrame, NoAnswer, answers
    <2>2. won' = won
      BY <2>1, AnswerEffect
    <2> QED BY <2>2
  <1> QED BY <1>1, <1>2

\* How a worker comes to be about to consume a nonce.
LEMMA ConsumingFacts ==
    ASSUME TypeOK, NEW p \in Proc, (Work(p) \/ Open(p)) /\ ~Receive(p), LockInv,
           proc'[p].pc \in {"dirty", "replace", "clean"}
    PROVE  /\ proc'[p].req = proc[p].req /\ won' = won
           /\ \/ proc[p].pc \in {"dirty", "replace"} /\ stale' = stale
              \/ /\ proc[p].pc = "load" /\ vis.has
                 /\ stale' = (stale \/ proc[p].req.fl < top)
                 /\ proc[p].req.i \notin Retained(vis.ents, proc[p].req.fl)
  <1>0. Goes(p)
    <2>1. Goes(p) \/ Answers(p)
      BY WorkMoves DEF Moves
    <2>2. ~Answers(p)
      BY AnswerFacts DEF Answers
    <2> QED BY <2>1, <2>2
  <1>1. proc'[p].req = proc[p].req /\ won' = won
    BY <1>0 DEF Goes, answers
  <1>2. \A pc \in Pc : Goto(p, pc) => proc'[p].pc = pc
    BY GotoFacts
  <1>3. \A outcome : ~Answer(p, outcome)
    BY AnswerFacts
  <1>4. CASE MarkDirty(p) \/ Replace(p)
    BY <1>1, <1>4 DEF MarkDirty, Replace, history
  <1>5. CASE Load(p)
    <2>1. proc[p].pc = "load"
      BY <1>5 DEF Load
    <2>2. ~Goto(p, "againRecord")
      BY <1>2 DEF Pc
    <2>3. Decide(p) /\ vis.has
      BY <1>3, <1>5, <2>2 DEF Load
    <2>4. /\ stale' = (stale \/ proc[p].req.fl < top)
          /\ proc[p].req.i \notin Retained(vis.ents, proc[p].req.fl)
      BY <1>3, <2>3 DEF Decide
    <2> QED BY <1>1, <2>1, <2>3, <2>4
  <1>6. CASE ~(MarkDirty(p) \/ Replace(p) \/ Load(p))
    <2>1. \/ \E pc \in {"againMark", "load", "openLock", "inspect", "down", "idle", "openRecord",
                        "initMark", "initRecord", "openMark"} : Goto(p, pc)
          \/ \E outcome : Answer(p, outcome)
      BY <1>6 DEF Work, Acquire, AgainRecord, AgainMark, MarkClean, OpenLock, Inspect, InitMark,
                  InitRecord, OpenRecord, OpenMark, Open, OpenStep, OpenFailed
    <2> QED BY <1>2, <1>3, <2>1 DEF Pc
  <1> QED BY <1>4, <1>5, <1>6

\* Every step keeps a nonce committed at most once.
LEMMA WonStep ==
    ASSUME TypeOK, LockInv, FileInv, DurableInv, RequestInv, GoneInv, WonInv, CommittedOnce,
           [Next]_vars
    PROVE  WonInv' /\ CommittedOnce'
  <1> DEFINE Consuming == {"dirty", "replace", "clean"}
  <1>0. /\ won \in [Intent -> Nat] /\ top \in Nat /\ NotAfter \in [Intent -> Nat]
        /\ \A p \in Proc : proc[p].req.i \in Intent /\ proc[p].req.fl \in Nat
    BY LedgerAssumption DEF TypeOK, Worker, Request
  <1>1. ASSUME NEW p \in Proc, Work(p) \/ Open(p), ~Receive(p) PROVE WonInv' /\ CommittedOnce'
    <2>1. Others(p) /\ seen \subseteq seen'
      BY <1>1, WorkMoves, MovesOthers, NewlySeen
    <2>2. stale => stale'
      BY <1>1 DEF Work, Acquire, Load, Decide, AgainRecord, AgainMark, MarkDirty, Replace,
                  MarkClean, OpenLock, Inspect, InitMark, InitRecord, OpenRecord, OpenMark, Open,
                  OpenFrame, history
    <2>3. CASE won' = won
      <3>1. \A i \in Intent : won'[i] > 0 => i \in seen'
        BY <2>1, <2>3 DEF WonInv
      <3>2. CommittedOnce'
        BY <2>2, <2>3 DEF CommittedOnce
      <3>3. ASSUME ~stale', NEW q \in Proc, proc'[q].pc \in Consuming
            PROVE  won'[proc'[q].req.i] = 0
        <4>1. CASE q # p
          BY <2>1, <2>2, <2>3, <3>3, <4>1 DEF Others, WonInv
        <4>2. CASE q = p
          <5>1. CASE proc[p].pc \in {"dirty", "replace"}
            BY <1>1, <2>2, <2>3, <3>3, <4>2, <5>1, ConsumingFacts DEF WonInv
          <5>2. CASE /\ proc[p].pc = "load" /\ vis.has
                     /\ stale' = (stale \/ proc[p].req.fl < top)
                     /\ proc[p].req.i \notin Retained(vis.ents, proc[p].req.fl)
            <6> DEFINE i == proc[p].req.i
                       fl == proc[p].req.fl
            <6>1. proc'[p].req = proc[p].req
              BY <1>1, <3>3, <4>2, ConsumingFacts
            <6>2. i \in Intent /\ fl \in Nat /\ NotAfter[i] \in Nat /\ ~(fl < top)
              BY <1>0, <3>3, <5>2
            <6>3. fl < NotAfter[i]
              BY <5>2 DEF RequestInv, ReqOK, Serving
            <6>4. i \notin gone
              BY <1>0, <6>2, <6>3 DEF GoneInv
            <6>5. i \notin vis.ents
              BY <5>2, <6>2, <6>3 DEF Retained
            <6>6. i \notin seen
              BY <6>4, <6>5 DEF DurableInv
            <6>7. won[i] = 0
              BY <1>0, <6>2, <6>6 DEF WonInv
            <6> QED BY <2>3, <4>2, <6>1, <6>7
          <5> QED BY <1>1, <3>3, <4>2, <5>1, <5>2, ConsumingFacts
        <4> QED BY <4>1, <4>2
      <3> QED BY <3>1, <3>2, <3>3 DEF WonInv
    <2>4. CASE /\ proc[p].pc = "clean" /\ proc'[p].pc = "idle" /\ stale' = stale
               /\ proc[p].req.i \in seen'
               /\ won'[proc[p].req.i] = won[proc[p].req.i] + 1
               /\ \A i \in Intent : i # proc[p].req.i => won'[i] = won[i]
      <3>1. ASSUME NEW i \in Intent, won'[i] > 0 PROVE i \in seen'
        BY <2>1, <2>4, <3>1 DEF WonInv
      <3>2. ~stale => won[proc[p].req.i] = 0
        BY <2>4 DEF WonInv
      <3>3. ASSUME ~stale', NEW i \in Intent PROVE won'[i] <= 1
        <4>1. CASE i = proc[p].req.i
          BY <2>4, <3>2, <3>3, <4>1
        <4>2. CASE i # proc[p].req.i
          BY <2>4, <3>3, <4>2 DEF CommittedOnce
        <4> QED BY <4>1, <4>2
      \* The lock is exclusive: nobody else is about to consume a nonce.
      <3>4. ASSUME NEW q \in Proc PROVE proc'[q].pc \notin Consuming
        <4>1. CASE q = p
          BY <2>4, <4>1
        <4>2. CASE q # p
          <5>1. proc[q].pc \notin Hold /\ proc'[q] = proc[q]
            BY <2>1, <2>4, <4>2 DEF LockInv, Hold, Others
          <5> QED BY <5>1 DEF Hold
        <4> QED BY <4>1, <4>2
      <3> QED BY <3>1, <3>3, <3>4 DEF WonInv, CommittedOnce
    <2> QED BY <1>1, <2>3, <2>4, WonFacts
  <1>2. ASSUME UNCHANGED <<won, stale>>, seen \subseteq seen',
               \A q \in Proc : proc'[q].pc \in Consuming =>
                                   proc'[q].pc = proc[q].pc /\ proc'[q].req.i = proc[q].req.i
        PROVE  WonInv' /\ CommittedOnce'
    BY <1>2 DEF WonInv, CommittedOnce
  <1>3. ASSUME NEW p \in Proc, Receive(p) PROVE WonInv' /\ CommittedOnce'
    <2>1. UNCHANGED <<won, stale, seen>> /\ Others(p) /\ proc'[p].pc = "lock"
      BY <1>3, ReceiveFacts DEF Receive, answers, history
    <2> QED BY <1>2, <2>1 DEF Others
  <1>4. CASE Outside
    BY <1>2, <1>4, OutsideFacts DEF history
  <1>5. ASSUME NEW ps \in SUBSET Proc, Died(ps), UNCHANGED <<won, seen, history>>
        PROVE  WonInv' /\ CommittedOnce'
    <2>1. \A q \in Proc : proc'[q] = IF q \in ps THEN Closed ELSE proc[q]
      BY <1>5, DiedFacts
    <2>2. Closed.pc \notin Consuming
      BY DEF Closed
    <2>3. \A q \in Proc : proc'[q].pc \in Consuming =>
                              proc'[q].pc = proc[q].pc /\ proc'[q].req.i = proc[q].req.i
      BY <2>1, <2>2
    <2> QED BY <1>2, <1>5, <2>3 DEF history
  <1>6. CASE PowerLoss \/ \E p \in Proc : Crash(p)
    BY <1>5, <1>6 DEF PowerLoss, Crash
  <1>7. CASE UNCHANGED vars
    BY <1>2, <1>7 DEF vars
  <1> QED BY <1>1, <1>3, <1>4, <1>6, <1>7, NextCases

-----------------------------------------------------------------------------
(* A row stands for an answer.                                             *)

\* Every step keeps a row accounted for by an answer, a lost answer or its worker.
LEMMA SilentStep ==
    ASSUME TypeOK, LockInv, FileInv, RequestInv, NoSilentConsume, [Next]_vars
    PROVE  NoSilentConsume'
  <1> DEFINE Accounted(i) ==
                 i \in seen \cup maybe \/ \E q \in Proc : proc[q].pc = "clean" /\ proc[q].req.i = i
  <1>0. /\ NoSilentConsume <=> \A i \in vis.ents \cup dur.ents : Accounted(i)
        /\ NoSilentConsume' <=> \A i \in vis'.ents \cup dur'.ents : Accounted(i)'
    BY DEF NoSilentConsume
  <1>1. ASSUME NEW p \in Proc, Work(p) \/ Open(p), ~Receive(p) PROVE NoSilentConsume'
    <2>1. Others(p) /\ seen \subseteq seen' /\ maybe \subseteq maybe'
      <3>1. Moves(p)
        BY <1>1, WorkMoves
      <3>2. maybe \subseteq maybe'
        BY <3>1, AnswerEffect DEF Moves, Goes, Answers, answers
      <3> QED BY <1>1, <3>1, <3>2, MovesOthers, NewlySeen
    \* The request of a worker that leaves the last step has been answered.
    <2>2. proc[p].pc = "clean" => proc[p].req.i \in seen' \cup maybe'
      <3>1. SUFFICES ASSUME proc[p].pc = "clean" PROVE proc[p].req.i \in seen' \cup maybe'
        OBVIOUS
      <3>2. MarkClean(p)
        BY <1>1, <3>1 DEF Work, Acquire, Load, AgainRecord, AgainMark, MarkDirty, Replace,
                OpenLock, Inspect, InitMark, InitRecord, OpenRecord, OpenMark, Open
      <3>3. proc[p].req.c = NoCaller => proc[p].req.i \in maybe
        BY <3>1 DEF RequestInv, ReqOK, Serving
      <3>4. Answer(p, "Committed") \/ Answer(p, "MayHaveTakenEffect")
        BY <3>2 DEF MarkClean
      <3> QED BY <2>1, <3>3, <3>4, AnswerEffect
    <2>3. ASSUME NEW i, Accounted(i) PROVE Accounted(i)'
      BY <2>1, <2>2, <2>3 DEF Others
    <2>4. CASE ~Replace(p)
      <3>1. vis'.ents \cup dur'.ents \subseteq vis.ents \cup dur.ents
        BY <1>1, <2>4, KeepsRows
      <3> QED BY <1>0, <2>3, <3>1
    <2>5. CASE Replace(p)
      <3>1. CASE UNCHANGED <<vis, dur, gone, top>>
        BY <1>0, <2>3, <3>1
      <3>2. CASE /\ vis'.ents = NewEntries(p) /\ dur'.ents \in {dur.ents, NewEntries(p)}
                 /\ Goto(p, "clean") \/ Answer(p, "MayHaveTakenEffect")
        <4>1. ASSUME NEW i, i = proc[p].req.i PROVE Accounted(i)'
          <5>1. CASE Goto(p, "clean")
            <6>1. proc'[p].pc = "clean" /\ proc'[p].req = proc[p].req
              BY <5>1, GotoFacts DEF Pc
            <6> QED BY <4>1, <6>1
          <5>2. CASE Answer(p, "MayHaveTakenEffect")
            BY <4>1, <5>2, AnswerEffect
          <5> QED BY <3>2, <5>1, <5>2
        <4>2. \A i \in vis'.ents \cup dur'.ents : i \in vis.ents \cup dur.ents \/ i = proc[p].req.i
          BY <3>2 DEF NewEntries, Retained
        <4> QED BY <1>0, <2>3, <4>1, <4>2
      <3> QED BY <2>5, <3>1, <3>2, RewritesFacts
    <2> QED BY <2>4, <2>5
  <1>2. ASSUME seen \subseteq seen', maybe \subseteq maybe',
               vis'.ents \cup dur'.ents \subseteq vis.ents \cup dur.ents,
               \A q \in Proc : proc[q].pc = "clean" =>
                   \/ proc'[q].pc = "clean" /\ proc'[q].req.i = proc[q].req.i
                   \/ proc[q].req.i \in maybe'
        PROVE  NoSilentConsume'
    BY <1>0, <1>2
  <1>3. ASSUME NEW p \in Proc, Receive(p) PROVE NoSilentConsume'
    <2>1. UNCHANGED <<vis, dur, seen, maybe>> /\ Others(p) /\ proc[p].pc = "idle"
      BY <1>3, ReceiveFacts DEF Receive, answers, disk
    <2> QED BY <1>2, <2>1 DEF Others
  <1>4. CASE Outside
    BY <1>2, <1>4, OutsideFacts DEF disk
  <1>5. ASSUME NEW ps \in SUBSET Proc, Died(ps), UNCHANGED seen,
               vis'.ents \cup dur'.ents \subseteq vis.ents \cup dur.ents
        PROVE  NoSilentConsume'
    <2>1. /\ \A q \in Proc : proc'[q] = IF q \in ps THEN Closed ELSE proc[q]
          /\ maybe \subseteq maybe'
          /\ \A q \in ps : proc[q].pc = "clean" => proc[q].req.i \in maybe'
      BY <1>5, DiedFacts
    <2> QED BY <1>2, <1>5, <2>1
  <1>6. ASSUME NEW p \in Proc, Crash(p) PROVE NoSilentConsume'
    BY <1>5, <1>6 DEF Crash, disk
  <1>7. CASE PowerLoss
    <2>1. \E r \in {vis, dur} : \E m : vis' = [r EXCEPT !.mark = m]
      BY <1>7 DEF PowerLoss
    <2>2. vis'.ents \in {vis.ents, dur.ents} /\ dur' = vis'
      BY <1>7, <2>1 DEF PowerLoss, TypeOK, Files
    <2> QED BY <1>5, <1>7, <2>2 DEF PowerLoss
  <1>8. CASE UNCHANGED vars
    BY <1>2, <1>8 DEF vars
  <1> QED BY <1>1, <1>3, <1>4, <1>6, <1>7, <1>8, NextCases

-----------------------------------------------------------------------------
(* The theorems.                                                           *)

\* A fresh ledger satisfies the inductive invariant.
LEMMA InitLedgerInv ==
    ASSUME Init
    PROVE  LedgerInv
  <1>1. /\ \A p \in Proc : proc[p] = Closed /\ queue[p] = <<>>
        /\ \A c \in Caller : caller[c] = Idle
        /\ \A i \in Intent : won[i] = 0
        /\ vis.ents = {} /\ dur.ents = {} /\ ~vis.has /\ ~dur.has
        /\ vis.mark = "empty" /\ dur.mark = "empty"
    BY DEF Init, Fresh
  <1>2. Closed.pc = "down" /\ Closed.req = NoRequest /\ Idle.pc = "idle"
    BY DEF Closed, Idle
  <1>3. TypeOK
    <2>1. vis \in Files /\ dur \in Files
      BY DEF Init, Fresh, Files, Marker
    <2>2. proc \in [Proc -> Worker] /\ caller \in [Caller -> Session] /\ won \in [Intent -> Nat]
      BY IdleType DEF Init
    <2>3. queue \in [Proc -> Seq(Request)] /\ \A p \in Proc : Len(queue[p]) <= 1
      BY <1>1, EmptySeq DEF Init
    <2>4. left \in [faults : Nat, crashes : Nat, giveups : Nat]
      BY LedgerAssumption DEF Init
    <2> QED BY <2>1, <2>2, <2>3, <2>4 DEF Init, TypeOK
  <1>4. LockInv
    BY <1>1, <1>2, LedgerAssumption DEF Init, LockInv, Hold
  <1>5. FileInv
    BY <1>1, <1>2 DEF FileInv, Established, Same
  <1>6. RequestInv
    BY <1>1, <1>2 DEF RequestInv, Serving
  <1>7. DurableInv /\ GoneInv /\ WonInv /\ CommittedOnce /\ NoSilentConsume /\ NeverCorrupt
    BY <1>1, <1>2 DEF Init, DurableInv, GoneInv, WonInv, CommittedOnce, NoSilentConsume,
                      NeverCorrupt
  <1> QED BY <1>3, <1>4, <1>5, <1>6, <1>7 DEF LedgerInv

\* Every step keeps the inductive invariant.
LEMMA NextLedgerInv ==
    ASSUME LedgerInv, [Next]_vars
    PROVE  LedgerInv'
  BY TypeStep, LockStep, FileStep, DurableStep, RequestStep, GoneStep, WonStep, SilentStep,
     CorruptStep DEF LedgerInv

\* The inductive invariant of the ledger (initialize_or_recover, consume and its worker)
\* holds in every reachable state, for any processes, sessions, intents and bounds.
THEOREM LedgerInvariant == Spec => []LedgerInv
  BY InitLedgerInv, NextLedgerInv, PTL DEF Spec

\* Type correctness of the ledger: the queue of a worker never holds a second request.
THEOREM TypeCorrect == Spec => []TypeOK
  <1>1. LedgerInv => TypeOK
    BY DEF LedgerInv
  <1> QED BY <1>1, LedgerInvariant, PTL

\* A nonce that a session was told is consumed has a durable row until time has passed
\* it, whatever writes failed and whoever crashed.
THEOREM AnswersDurable == Spec => []AnsweredDurable
  <1>1. LedgerInv => AnsweredDurable
    BY DEF LedgerInv, DurableInv, AnsweredDurable
  <1> QED BY <1>1, LedgerInvariant, PTL

\* No nonce is committed to two sessions, as long as no request is served with a floor
\* that another has overtaken.
THEOREM OneCommit == Spec => []CommittedOnce
  <1>1. LedgerInv => CommittedOnce
    BY DEF LedgerInv
  <1> QED BY <1>1, LedgerInvariant, PTL

\* A nonce whose requests have all been refused is not consumed.
THEOREM RefusedNotConsumed == Spec => []NoSilentConsume
  <1>1. LedgerInv => NoSilentConsume
    BY DEF LedgerInv
  <1> QED BY <1>1, LedgerInvariant, PTL

\* An open never takes what a crash or a failed write left for a deletion.
THEOREM OpensSound == Spec => []NeverCorrupt
  <1>1. LedgerInv => NeverCorrupt
    BY DEF LedgerInv
  <1> QED BY <1>1, LedgerInvariant, PTL

\* No worker writes behind a teardown: the teardown waited for the lock, and the binding
\* is checked under it.
THEOREM TeardownFences == Spec => DetachedUntouched
  <1>1. ASSUME LedgerInv, [Next]_vars PROVE [torn /\ left' = left => UNCHANGED vis]_vars
    <2>1. SUFFICES ASSUME torn, left' = left PROVE vis' = vis
      OBVIOUS
    <2>2. TypeOK /\ \A p \in Proc : proc[p].pc \notin Hold
      BY <1>1, <2>1, LedgerAssumption DEF LedgerInv, LockInv
    <2>3. ASSUME NEW p \in Proc, Work(p) \/ Open(p) PROVE vis' = vis
      BY <2>2, <2>3 DEF Hold, Work, Receive, Acquire, Load, AgainRecord, AgainMark, MarkDirty,
              Replace, MarkClean, OpenLock, Inspect, InitMark, InitRecord, OpenRecord, OpenMark,
              Open, disk
    <2>4. ~PowerLoss
      <3>1. CrashLeft => left' # left
        BY <2>2 DEF CrashLeft, TypeOK
      <3> QED BY <2>1, <3>1 DEF PowerLoss
    <2>5. CASE Outside \/ UNCHANGED vars \/ \E p \in Proc : Crash(p)
      BY <2>2, <2>5, OutsideFacts DEF Crash, disk, vars
    <2> QED BY <1>1, <2>3, <2>4, <2>5, NextCases DEF Work
  <1> QED BY <1>1, LedgerInvariant, PTL DEF Spec, DetachedUntouched
=============================================================================
