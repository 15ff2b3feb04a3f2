------------------------- MODULE SignerControl_proofs -------------------------
(* Proofs about SignerControl.                                              *)
EXTENDS SignerControl, FiniteSetTheorems, WellFoundedInduction, SequenceTheorems, TLAPS

-----------------------------------------------------------------------------
(* The inductive invariant, in parts.                                       *)

\* The generations a record has used up: the first intent takes the first one.
Used(r) == IF r.auth = "empty" /\ r.pending = None THEN 0 ELSE r.hw

\* No two entries of live and gc have the same generation.
Apart(r) ==
    /\ \A i, j \in DOMAIN r.live : r.live[i].gen = r.live[j].gen => i = j
    /\ \A i, j \in DOMAIN r.gc : r.gc[i].gen = r.gc[j].gen => i = j
    /\ \A i \in DOMAIN r.live, j \in DOMAIN r.gc : r.live[i].gen # r.gc[j].gen

\* The generations of live and gc are used, and below that of a pending operation.
Below(r) ==
    /\ \A i \in DOMAIN r.live : r.live[i].gen <= r.hw
    /\ \A i \in DOMAIN r.gc : r.gc[i].gen <= r.hw
    /\ r.pending # None =>
        /\ r.pending.gen = r.hw
        /\ \A i \in DOMAIN r.live : r.live[i].gen < r.hw
        /\ \A i \in DOMAIN r.gc : r.gc[i].gen < r.hw

\* The pending operation belongs to the epoch and to the authority.
PendingOK(r) ==
    r.pending # None =>
        /\ r.pending.epoch = r.epoch
        /\ r.pending.phase = "observed" <=> r.pending.key # 0
        /\ <<r.auth, r.pending.kind>> \in {<<"empty", "create">>, <<"active", "rotate">>,
                                           <<"revoked", "reactivate">>}

AuthorityOK(r) ==
    /\ (r.auth = "active") <=> (r.current # 0)
    /\ r.current # 0 => \E i \in DOMAIN r.live : r.live[i].gen = r.current
    /\ r.auth = "empty" => r.hw = 1 /\ r.live = <<>> /\ r.gc = <<>>

\* The results are few and of different requests, and a recorded revocation of the epoch
\* is still in force.
TerminalsOK(r) ==
    /\ Len(r.terminals) <= MaxTerminals
    /\ \A i, j \in DOMAIN r.terminals : r.terminals[i].txn = r.terminals[j].txn => i = j
    /\ \A i \in DOMAIN r.terminals : r.terminals[i].req = <<"revoke">> =>
        /\ r.terminals[i].n <= r.epoch
        /\ r.terminals[i].n = r.epoch => r.auth = "revoked" /\ r.pending = None

RecordOK(r) == Apart(r) /\ Below(r) /\ PendingOK(r) /\ AuthorityOK(r) /\ TerminalsOK(r)

RecordsInv == \A r \in survivors : RecordOK(r)

\* A record that a crash may leave is not ahead of the one on disk: a pending operation
\* that it knows of, or that has its key, is pending in it too.
ChainInv ==
    \A r \in survivors :
        /\ Used(r) <= Used(disk)
        /\ disk.pending # None /\ (disk.pending.gen <= Used(r) \/ disk.pending.key # 0) =>
               r.pending # None /\ SlotOf(r.pending) = SlotOf(disk.pending)

\* A worker has an operation that no crash undoes. A fresh one is still pending, and the
\* key that was made for it is there.
WorkerInv ==
    \A w \in Worker : worker[w] # NoActor =>
        /\ \A r \in survivors : worker[w].op.gen <= Used(r)
        /\ worker[w].fresh => disk.pending = worker[w].op /\ worker[w].op.phase = "intent"
        /\ worker[w].pc = "made" =>
            /\ worker[w].fresh
            /\ SlotOf(worker[w].op) \in present /\ made[SlotOf(worker[w].op)] = worker[w].key
            /\ worker[w].key # 0

\* Slot s was used by r and is not that of its pending operation: it never will be.
Past(r, s) == s[1] <= Used(r) /\ (r.pending # None => SlotOf(r.pending) # s)

\* What a slot must be named for: its key was not made behind the record's back.
Owed == present \ late

\* The collector holds no slot that may become live, and what it found out still holds.
CollectorInv ==
    /\ gc.pc \notin {"idle", "tick"} => gc.slot \in Slot
    /\ gc.pc \in {"inspected", "conflict"} => gc.slot \in gc.seen /\ Past(disk, gc.slot)
    /\ gc.pc = "inspected" /\ gc.key = 0 =>
        \A i \in DOMAIN disk.gc :
            SlotOf(disk.gc[i]) = gc.slot /\ disk.gc[i].st = "unconfirmed" => gc.slot \notin Owed
    /\ gc.pc \in {"stable", "destroyed"} =>
        \A r \in survivors : Past(r, gc.slot) /\ \A i \in DOMAIN r.live : SlotOf(r.live[i]) # gc.slot
    /\ gc.pc = "destroyed" => gc.st # "" /\ (gc.st = "done" => gc.slot \notin Owed)

\* A key that is there was missed by the first inspection only within this tick.
LagInv ==
    \A r \in survivors : \A i \in DOMAIN r.gc :
        LET s == SlotOf(r.gc[i])
        IN r.gc[i].st = "unconfirmed" /\ s \in Owed /\ s \in lagging =>
               gc # NoActor /\ s \in gc.seen

\* A generation that was ever live is used, and if its operation is pending again its key
\* is the one in the backend.
BoundInv ==
    \A x \in bound : \A r \in survivors :
        /\ x[1] <= Used(r)
        /\ r.pending # None /\ r.pending.gen = x[1] =>
               SlotOf(r.pending) = x[2] /\ x[2] \in present /\ made[x[2]] = x[3]

\* What was answered is in every record a crash may leave.
AnswerInv ==
    \A r \in survivors :
        /\ told.epoch <= r.epoch /\ told.revoked <= r.epoch
        /\ r.epoch = told.revoked => r.auth = "revoked" /\ r.pending = None
        /\ \A g \in told.activated : g <= Used(r) /\ (r.pending # None => r.pending.gen # g)

\* A signer holds the roster it saw, or will notice that it moved.
SignerInv ==
    signer # NoActor =>
        /\ signer.rev <= roster.rev
        /\ signer.rev = roster.rev => roster.active
        /\ signer.pc = "signing" => signer.rev = roster.rev /\ signer.epoch > told.revoked

\* A slot with a key had one created.
KeysMade == \A s \in present : made[s] # 0

ControlInv == /\ TypeOK /\ RecordsInv /\ ChainInv /\ WorkerInv /\ CollectorInv /\ LagInv /\ KeysMade
              /\ BoundInv /\ AnswerInv /\ SignerInv
              /\ RelyOnPresentKeys /\ KeysTracked /\ OneKeyPerGeneration

-----------------------------------------------------------------------------
(* Numbers and sequences.                                                   *)

\* A set of numbers that is not empty has a least element.
LEMMA LeastNat ==
    ASSUME NEW T \in SUBSET Nat, T # {}
    PROVE  \E i \in T : \A j \in T : i <= j
  <1> DEFINE R == OpToRel(<, Nat)
  <1>1. IsWellFoundedOn(R, Nat)
    BY NatLessThanWellFounded
  <1>2. \A x, y \in Nat : y < x => <<y, x>> \in R
    BY DEF OpToRel
  <1> HIDE DEF R
  <1>3. PICK x \in T : \A y \in T : ~(<<y, x>> \in R)
    BY <1>1, WFMin
  <1>4. ASSUME NEW y \in T, ~(x <= y) PROVE FALSE
    <2>1. x \in Nat /\ y \in Nat
      OBVIOUS
    <2>2. y < x
      BY <1>4, <2>1
    <2>3. <<y, x>> \in R
      BY <1>2, <2>1, <2>2
    <2> QED BY <1>3, <2>3
  <1> QED BY <1>4

\* Drop takes out one entry and keeps the others in their order.
LEMMA DropFacts ==
    ASSUME NEW S, NEW s \in Seq(S), NEW i \in DOMAIN s
    PROVE  /\ Drop(s, i) \in Seq(S) /\ Len(Drop(s, i)) = Len(s) - 1
           /\ DOMAIN Drop(s, i) = 1..(Len(s) - 1)
           /\ \A k \in 1..(Len(s) - 1) : Drop(s, i)[k] = IF k < i THEN s[k] ELSE s[k + 1]
  <1> DEFINE a == SubSeq(s, 1, i - 1)
             b == SubSeq(s, i + 1, Len(s))
  <1>0. Len(s) \in Nat /\ i \in 1..Len(s)
    BY LenProperties
  <1>1. a \in Seq(S) /\ Len(a) = i - 1 /\ \A k \in 1..(i - 1) : a[k] = s[k]
    <2>1. CASE i = 1
      BY <1>0, <2>1, SubSeqEmpty, SubSeqProperties
    <2>2. CASE i > 1
      BY <1>0, <2>2, SubSeqProperties
    <2> QED BY <1>0, <2>1, <2>2
  <1>2. b \in Seq(S) /\ Len(b) = Len(s) - i /\ \A k \in 1..(Len(s) - i) : b[k] = s[i + k]
    BY <1>0, SubSeqProperties
  <1> HIDE DEF a, b
  <1>3. /\ a \o b \in Seq(S) /\ Len(a \o b) = Len(a) + Len(b)
        /\ \A k \in 1..(Len(a) + Len(b)) : (a \o b)[k] = IF k <= Len(a) THEN a[k] ELSE b[k - Len(a)]
    BY <1>1, <1>2, ConcatProperties
  <1>4. Drop(s, i) = a \o b
    BY DEF Drop, a, b
  <1>5. ASSUME NEW k \in 1..(Len(s) - 1)
        PROVE  (a \o b)[k] = IF k < i THEN s[k] ELSE s[k + 1]
    <2>1. CASE k < i
      BY <1>0, <1>1, <1>2, <1>3, <2>1
    <2>2. CASE ~(k < i)
      <3>1. Len(a) = i - 1 /\ Len(b) = Len(s) - i /\ k \in 1..(Len(a) + Len(b)) /\ ~(k <= Len(a))
        BY <1>0, <1>1, <1>2, <2>2
      <3>2. (a \o b)[k] = b[k - Len(a)]
        BY <1>3, <3>1
      <3>3. k - Len(a) \in 1..(Len(s) - i) /\ i + (k - Len(a)) = k + 1
        <4> DEFINE m == Len(a)
        <4>1. m = i - 1 /\ k >= i /\ k <= Len(s) - 1 /\ k \in Nat /\ i \in Nat
          BY <1>0, <2>2, <3>1
        <4> HIDE DEF m
        <4>2. k - m \in 1..(Len(s) - i) /\ i + (k - m) = k + 1
          BY <1>0, <4>1
        <4> QED BY <4>2 DEF m
      <3> QED BY <1>2, <2>2, <3>2, <3>3
    <2> QED BY <2>1, <2>2
  <1>6. Len(a \o b) = Len(s) - 1
    BY <1>0, <1>1, <1>2, <1>3
  <1>7. DOMAIN (a \o b) = 1..(Len(s) - 1)
    BY <1>3, <1>6, LenProperties
  <1> QED BY <1>3, <1>4, <1>5, <1>6, <1>7

\* The entries of Drop are the others of the sequence, each at its own place.
LEMMA DropEntries ==
    ASSUME NEW S, NEW s \in Seq(S), NEW i \in DOMAIN s
    PROVE  /\ \A k \in DOMAIN Drop(s, i) : \E j \in DOMAIN s : j # i /\ Drop(s, i)[k] = s[j]
           /\ \A j \in DOMAIN s : j # i => \E k \in DOMAIN Drop(s, i) : Drop(s, i)[k] = s[j]
           /\ \A k, l \in DOMAIN Drop(s, i) : k # l =>
                  \E j, m \in DOMAIN s : j # m /\ j # i /\ m # i
                                         /\ Drop(s, i)[k] = s[j] /\ Drop(s, i)[l] = s[m]
  <1> DEFINE d == Drop(s, i)
             at(k) == IF k < i THEN k ELSE k + 1
  <1>0. Len(s) \in Nat /\ DOMAIN s = 1..Len(s) /\ i \in 1..Len(s)
    BY LenProperties
  <1>1. DOMAIN d = 1..(Len(s) - 1) /\ \A k \in 1..(Len(s) - 1) : d[k] = s[at(k)]
    BY DropFacts
  <1>2. \A k \in 1..(Len(s) - 1) : at(k) \in 1..Len(s) /\ at(k) # i
    BY <1>0
  <1>3. \A k, l \in 1..(Len(s) - 1) : k # l => at(k) # at(l)
    BY <1>0
  <1>4. \A j \in 1..Len(s) : j # i => \E k \in 1..(Len(s) - 1) : at(k) = j
    <2> SUFFICES ASSUME NEW j \in 1..Len(s), j # i
                 PROVE  \E k \in 1..(Len(s) - 1) : at(k) = j
      OBVIOUS
    <2>1. CASE j < i
      BY <1>0, <2>1
    <2>2. CASE j > i
      <3>1. j - 1 \in 1..(Len(s) - 1) /\ at(j - 1) = j
        BY <1>0, <2>2
      <3> QED BY <3>1
    <2> QED BY <1>0, <2>1, <2>2
  <1> HIDE DEF d, at
  <1>5. \A j \in DOMAIN s : j # i => \E k \in DOMAIN d : d[k] = s[j]
    BY <1>0, <1>1, <1>4
  <1>6. \A k \in DOMAIN d : \E j \in DOMAIN s : j # i /\ d[k] = s[j]
    BY <1>0, <1>1, <1>2
  <1>7. \A k, l \in DOMAIN d : k # l =>
            \E j, m \in DOMAIN s : j # m /\ j # i /\ m # i /\ d[k] = s[j] /\ d[l] = s[m]
    BY <1>0, <1>1, <1>2, <1>3
  <1> QED BY <1>5, <1>6, <1>7 DEF d

\* Appending an entry.
LEMMA AppendFacts ==
    ASSUME NEW S, NEW s \in Seq(S), NEW x \in S
    PROVE  /\ Append(s, x) \in Seq(S) /\ Len(Append(s, x)) = Len(s) + 1
           /\ DOMAIN Append(s, x) = DOMAIN s \cup {Len(s) + 1} /\ Len(s) + 1 \notin DOMAIN s
           /\ \A i \in DOMAIN s : Append(s, x)[i] = s[i]
           /\ Append(s, x)[Len(s) + 1] = x
  BY AppendProperties, LenProperties

\* The results of push_bounded_terminal: bounded, one per request, and nothing but the
\* new result is new.
LEMMA PushFacts ==
    ASSUME NEW v \in Seq(TerminalResults), Len(v) <= MaxTerminals,
           \A i, j \in DOMAIN v : v[i].txn = v[j].txn => i = j,
           NEW x \in TerminalResults, \A i \in DOMAIN v : v[i].txn # x.txn,
           NEW urgent \in BOOLEAN, NEW w \in push_bounded_terminal(v, x, urgent)
    PROVE  /\ w \in Seq(TerminalResults) /\ Len(w) <= MaxTerminals
           /\ \A i, j \in DOMAIN w : w[i].txn = w[j].txn => i = j
           /\ \A i \in DOMAIN w : w[i] = x \/ \E j \in DOMAIN v : w[i] = v[j]
  <1> DEFINE acked == {i \in DOMAIN v : v[i].acked}
             first == CHOOSE i \in acked : \A j \in acked : i <= j
  <1>0. Len(v) \in Nat /\ DOMAIN v = 1..Len(v) /\ MaxTerminals \in Nat \ {0}
    BY LenProperties, SignerAssumption
  <1>1. \/ Len(v) < MaxTerminals /\ w = Append(v, x)
        \/ Len(v) >= MaxTerminals /\ acked # {} /\ w = Append(Drop(v, first), x)
        \/ Len(v) >= MaxTerminals /\ w = Append(Tail(v), x)
    BY <1>0 DEF push_bounded_terminal
  <1>2. CASE Len(v) < MaxTerminals /\ w = Append(v, x)
    <2>1. /\ w \in Seq(TerminalResults) /\ Len(w) = Len(v) + 1
          /\ DOMAIN w = DOMAIN v \cup {Len(v) + 1} /\ Len(v) + 1 \notin DOMAIN v
          /\ \A i \in DOMAIN v : w[i] = v[i]
          /\ w[Len(v) + 1] = x
      BY <1>2, AppendFacts
    <2> QED BY <1>0, <1>2, <2>1
  <1>3. ASSUME NEW k \in DOMAIN v, Len(v) >= MaxTerminals, w = Append(Drop(v, k), x)
        PROVE  /\ w \in Seq(TerminalResults) /\ Len(w) <= MaxTerminals
               /\ \A i, j \in DOMAIN w : w[i].txn = w[j].txn => i = j
               /\ \A i \in DOMAIN w : w[i] = x \/ \E j \in DOMAIN v : w[i] = v[j]
    <2> DEFINE d == Drop(v, k)
    <2>1. d \in Seq(TerminalResults) /\ Len(d) = Len(v) - 1
      BY DropFacts
    <2>2. /\ \A a \in DOMAIN d : \E j \in DOMAIN v : d[a] = v[j]
          /\ \A a, b \in DOMAIN d : a # b =>
                  \E j, m \in DOMAIN v : j # m /\ d[a] = v[j] /\ d[b] = v[m]
      BY DropEntries
    <2> HIDE DEF d
    <2>3. /\ w \in Seq(TerminalResults) /\ Len(w) = Len(d) + 1
          /\ DOMAIN w = DOMAIN d \cup {Len(d) + 1} /\ Len(d) + 1 \notin DOMAIN d
          /\ \A i \in DOMAIN d : w[i] = d[i]
          /\ w[Len(d) + 1] = x
      BY <1>3, <2>1, AppendFacts DEF d
    <2>4. Len(w) <= MaxTerminals
      BY <1>0, <1>3, <2>1, <2>3
    <2>5. \A i, j \in DOMAIN w : w[i].txn = w[j].txn => i = j
      BY <2>2, <2>3
    <2> QED BY <2>2, <2>3, <2>4, <2>5
  <1>4. CASE Len(v) >= MaxTerminals /\ acked # {} /\ w = Append(Drop(v, first), x)
    <2>1. acked \in SUBSET Nat
      BY <1>0
    <2>2. \E i \in acked : \A j \in acked : i <= j
      BY <1>4, <2>1, LeastNat
    <2>3. first \in DOMAIN v
      BY <2>2
    <2> QED BY <1>3, <1>4, <2>3
  <1>5. CASE Len(v) >= MaxTerminals /\ w = Append(Tail(v), x)
    <2>1. v # <<>> /\ 1 \in DOMAIN v
      BY <1>0, <1>5
    <2>2. Tail(v) = Drop(v, 1)
      <3>1. SubSeq(v, 1, 0) = <<>>
        BY SubSeqEmpty
      <3>2. Tail(v) = SubSeq(v, 2, Len(v)) /\ Tail(v) \in Seq(TerminalResults)
        BY <2>1, TailIsSubSeq, HeadTailProperties
      <3>3. Drop(v, 1) = SubSeq(v, 1, 0) \o SubSeq(v, 2, Len(v))
        BY DEF Drop
      <3> QED BY <3>1, <3>2, <3>3, ConcatEmptySeq
    <2> QED BY <1>3, <1>5, <2>1, <2>2
  <1> QED BY <1>1, <1>2, <1>4, <1>5

\* An urgent push is never refused.
LEMMA PushUrgent ==
    ASSUME NEW v \in Seq(TerminalResults), NEW x
    PROVE  push_bounded_terminal(v, x, TRUE) # {}
  <1>1. Len(v) \in Nat /\ MaxTerminals \in Nat
    BY LenProperties, SignerAssumption
  <1> DEFINE acked == {i \in DOMAIN v : v[i].acked}
             first == CHOOSE i \in acked : \A j \in acked : i <= j
  <1>2. CASE Len(v) < MaxTerminals
    <2>1. push_bounded_terminal(v, x, TRUE) = {Append(v, x)}
      BY <1>1, <1>2 DEF push_bounded_terminal
    <2> QED BY <2>1
  <1>3. CASE Len(v) >= MaxTerminals /\ acked # {}
    <2>1. ~(Len(v) < MaxTerminals)
      BY <1>1, <1>3
    <2>2. push_bounded_terminal(v, x, TRUE) = {Append(Drop(v, first), x)}
      BY <1>3, <2>1, Zenon DEF push_bounded_terminal
    <2> QED BY <2>2
  <1>4. CASE Len(v) >= MaxTerminals /\ acked = {}
    <2>1. ~(Len(v) < MaxTerminals)
      BY <1>1, <1>4
    <2>2. Len(v) >= MaxTerminals /\ {i \in DOMAIN v : v[i].acked} = {}
      BY <1>4
    <2>3. push_bounded_terminal(v, x, TRUE) = {Append(Tail(v), x)}
      BY <2>1, <2>2, ZenonT(30) DEF push_bounded_terminal
    <2> QED BY <2>3
  <1>5. Len(v) < MaxTerminals \/ Len(v) >= MaxTerminals
    BY <1>1
  <1> QED BY <1>2, <1>3, <1>4, <1>5, Zenon

-----------------------------------------------------------------------------
(* What the transitions of the record do.                                   *)

\* The record names the slot, so that the key there is used or going to be destroyed.
Names(r, s) ==
    \/ r.pending # None /\ SlotOf(r.pending) = s
    \/ \E i \in DOMAIN r.live : SlotOf(r.live[i]) = s
    \/ \E i \in DOMAIN r.gc : SlotOf(r.gc[i]) = s /\ ~Clean(r.gc[i])

\* The pending operation of n is that of r, perhaps with its key, or has a new generation.
PendingMoves(r, n) ==
    n.pending # None =>
        \/ r.pending # None /\ SlotOf(n.pending) = SlotOf(r.pending)
        \/ n.pending.gen > Used(r) /\ n.pending.key = 0

\* What is live in n is live in r, or is the pending operation of r with its key.
LiveMoves(r, n) ==
    \A i \in DOMAIN n.live :
        \/ \E j \in DOMAIN r.live : n.live[i] = r.live[j]
        \/ /\ r.pending # None /\ r.pending.key # 0
           /\ SlotOf(n.live[i]) = SlotOf(r.pending) /\ n.live[i].key = r.pending.key

EpochMoves(r, n) ==
    /\ r.epoch <= n.epoch
    /\ n.epoch = r.epoch /\ r.auth = "revoked" /\ r.pending = None =>
           n.auth = "revoked" /\ n.pending = None

\* Transition of r to n that may stop naming only slots in lost, and may find only keys
\* at slots in missed absent for the first time.
Moves(r, n, lost, missed) ==
    /\ n \in Records /\ RecordOK(n)
    /\ Used(r) <= Used(n) /\ PendingMoves(r, n) /\ LiveMoves(r, n) /\ EpochMoves(r, n)
    /\ \A s \in Slot \ lost : Names(r, s) => Names(n, s)
    /\ \A i \in DOMAIN n.gc : n.gc[i].st = "unconfirmed" =>
           SlotOf(n.gc[i]) \in missed \/ \E j \in DOMAIN r.gc : n.gc[i] = r.gc[j]

\* The fields of a record.
LEMMA RecordFields ==
    ASSUME NEW r \in Records
    PROVE  /\ r.epoch \in 1..MaxEpoch /\ r.hw \in Gen /\ r.auth \in {"empty", "active", "revoked"}
           /\ r.current \in 0..MaxGen /\ r.live \in Seq(Generations)
           /\ r.pending \in PendingOps \cup {None} /\ r.gc \in Seq(GcEntries)
           /\ r.terminals \in Seq(TerminalResults)
           /\ r.hw \in Nat /\ r.epoch \in Nat /\ Used(r) \in Nat
           /\ \A i \in DOMAIN r.live : r.live[i] \in Generations
           /\ \A i \in DOMAIN r.gc : r.gc[i] \in GcEntries
           /\ \A i \in DOMAIN r.terminals : r.terminals[i] \in TerminalResults
  <1>1. /\ r.epoch \in 1..MaxEpoch /\ r.hw \in Gen /\ r.auth \in {"empty", "active", "revoked"}
        /\ r.current \in 0..MaxGen /\ r.live \in Seq(Generations)
        /\ r.pending \in PendingOps \cup {None} /\ r.gc \in Seq(GcEntries)
        /\ r.terminals \in Seq(TerminalResults)
    BY DEF Records
  <1>2. r.hw \in Nat /\ r.epoch \in Nat
    BY <1>1, SignerAssumption DEF Gen
  <1>3. Used(r) \in Nat
    BY <1>2 DEF Used
  <1>4. /\ \A i \in DOMAIN r.live : r.live[i] \in Generations
        /\ \A i \in DOMAIN r.gc : r.gc[i] \in GcEntries
        /\ \A i \in DOMAIN r.terminals : r.terminals[i] \in TerminalResults
    BY <1>1, ElementOfSeq, LenProperties
  <1> QED BY <1>1, <1>2, <1>3, <1>4

\* An operation that takes the next generation.
LEMMA NewPending ==
    ASSUME NEW r \in Records, RecordOK(r), r.pending = None, r.hw < MaxGen,
           NEW t \in Txn, NEW kind \in {"create", "rotate", "reactivate"},
           NEW e \in 1..MaxEpoch, NEW v \in Seq(TerminalResults),
           NEW n, n = [r EXCEPT !.epoch = e, !.hw = derive_next_generation(r),
                                !.pending = PendingOp(t, kind, derive_next_generation(r), e),
                                !.terminals = v],
           <<r.auth, kind>> \in {<<"empty", "create">>, <<"active", "rotate">>, <<"revoked", "reactivate">>},
           r.epoch <= e, r.auth = "revoked" => r.epoch < e, TerminalsOK(n)
    PROVE  Moves(r, n, {}, {})
  <1> DEFINE g == derive_next_generation(r)
             op == PendingOp(t, kind, g, e)
  <1>0. /\ r.hw \in Nat /\ r.epoch \in Nat /\ MaxGen \in Nat /\ r.hw \in 1..MaxGen
        /\ \A i \in DOMAIN r.live : r.live[i] \in Generations
        /\ \A i \in DOMAIN r.gc : r.gc[i] \in GcEntries
    BY RecordFields, SignerAssumption DEF Gen
  <1>1. g \in Gen /\ g > Used(r) /\ g \in Nat /\ r.hw <= g /\ Used(r) \in Nat
    BY <1>0 DEF derive_next_generation, Used, RecordOK, AuthorityOK, Gen
  <1>2. op \in PendingOps /\ op # None /\ op.gen = g /\ op.key = 0 /\ op.epoch = e
        /\ op.phase = "intent" /\ op.kind = kind
    BY <1>1, SignerAssumption DEF PendingOp, PendingOps
  <1>3. /\ n \in Records /\ n.epoch = e /\ n.hw = g /\ n.pending = op /\ n.terminals = v
        /\ n.auth = r.auth /\ n.current = r.current /\ n.live = r.live /\ n.gc = r.gc
    BY <1>1, <1>2 DEF Records
  <1> HIDE DEF g, op
  <1>4. Used(n) = g
    BY <1>2, <1>3 DEF Used
  <1>5. /\ \A i \in DOMAIN r.live : r.live[i].gen < g
        /\ \A i \in DOMAIN r.gc : r.gc[i].gen < g
    <2>1. CASE r.auth = "empty"
      <3>1. DOMAIN r.live = {} /\ DOMAIN r.gc = {}
        BY <2>1 DEF RecordOK, AuthorityOK
      <3> QED BY <3>1
    <2>2. CASE r.auth # "empty"
      <3>1. g = r.hw + 1
        BY <2>2 DEF derive_next_generation, g
      <3> QED BY <1>0, <3>1 DEF RecordOK, Below, Generations, GcEntries, Gen
    <2> QED BY <2>1, <2>2
  <1>6. RecordOK(n)
    <2>1. Apart(n) /\ TerminalsOK(n)
      BY <1>3 DEF RecordOK, Apart
    <2>2. Below(n)
      <3>1. \A i \in DOMAIN n.live : n.live[i].gen < n.hw /\ n.live[i].gen <= n.hw
        BY <1>0, <1>1, <1>3, <1>5 DEF Generations, Gen
      <3>2. \A i \in DOMAIN n.gc : n.gc[i].gen < n.hw /\ n.gc[i].gen <= n.hw
        BY <1>0, <1>1, <1>3, <1>5 DEF GcEntries, Gen
      <3> QED BY <1>2, <1>3, <3>1, <3>2 DEF Below
    <2>3. PendingOK(n)
      BY <1>2, <1>3 DEF PendingOK
    <2>4. AuthorityOK(n)
      BY <1>1, <1>3 DEF RecordOK, AuthorityOK, derive_next_generation, g
    <2> QED BY <2>1, <2>2, <2>3, <2>4 DEF RecordOK
  <1>7. PendingMoves(r, n) /\ LiveMoves(r, n) /\ EpochMoves(r, n) /\ Used(r) <= Used(n)
    <2>1. PendingMoves(r, n)
      BY <1>1, <1>2, <1>3 DEF PendingMoves
    <2>2. LiveMoves(r, n)
      BY <1>3 DEF LiveMoves
    <2>3. EpochMoves(r, n)
      BY <1>0, <1>3 DEF EpochMoves
    <2> QED BY <1>1, <1>4, <2>1, <2>2, <2>3
  <1>8. \A s \in Slot : Names(r, s) => Names(n, s)
    BY <1>3 DEF Names
  <1> QED BY <1>3, <1>6, <1>7, <1>8 DEF Moves

\* The terminal of a request that the record does not know.
LEMMA NewTerminal ==
    ASSUME NEW r \in Records, RecordOK(r), NEW x \in TerminalResults, Terminals(r, x.txn) = {},
           NEW urgent \in BOOLEAN, NEW v \in push_bounded_terminal(r.terminals, x, urgent)
    PROVE  /\ v \in Seq(TerminalResults) /\ Len(v) <= MaxTerminals
           /\ \A i, j \in DOMAIN v : v[i].txn = v[j].txn => i = j
           /\ \A i \in DOMAIN v : v[i] = x \/ \E j \in DOMAIN r.terminals : v[i] = r.terminals[j]
  <1>1. \A i \in DOMAIN r.terminals : r.terminals[i].txn # x.txn
    BY DEF Terminals, Range
  <1>2. /\ r.terminals \in Seq(TerminalResults) /\ Len(r.terminals) <= MaxTerminals
        /\ \A i, j \in DOMAIN r.terminals : r.terminals[i].txn = r.terminals[j].txn => i = j
    BY RecordFields DEF RecordOK, TerminalsOK
  <1> QED BY <1>1, <1>2, PushFacts

\* IntentRecorded takes a new generation.
LEMMA IntentMoves ==
    ASSUME NEW r \in Records, RecordOK(r), r.hw < MaxGen, NEW t \in Txn,
           NEW kind \in {"create", "rotate"}, NEW n \in IntentRecorded(r, t, kind)
    PROVE  Moves(r, n, {}, {})
  <1> DEFINE g == derive_next_generation(r)
  <1>1. /\ n = [r EXCEPT !.hw = g, !.pending = PendingOp(t, kind, g, r.epoch)]
        /\ r.pending = None /\ <<r.auth, kind>> \in {<<"empty", "create">>, <<"active", "rotate">>}
    BY DEF IntentRecorded
  <1>2. /\ r.epoch \in 1..MaxEpoch /\ r.terminals \in Seq(TerminalResults)
        /\ r.epoch <= r.epoch /\ r.auth # "revoked"
        /\ <<r.auth, kind>> \in {<<"empty", "create">>, <<"active", "rotate">>, <<"revoked", "reactivate">>}
    BY <1>1, RecordFields
  <1>3. n = [r EXCEPT !.epoch = r.epoch, !.hw = g, !.pending = PendingOp(t, kind, g, r.epoch),
                      !.terminals = r.terminals]
    BY <1>1 DEF Records
  <1>4. n.epoch = r.epoch /\ n.auth = r.auth /\ n.terminals = r.terminals
    BY <1>3 DEF Records
  <1>5. TerminalsOK(n)
    BY <1>2, <1>4 DEF RecordOK, TerminalsOK
  <1>6. kind \in {"create", "rotate", "reactivate"}
    OBVIOUS
  <1> DEFINE e == r.epoch
             v == r.terminals
  <1>7. /\ e \in 1..MaxEpoch /\ v \in Seq(TerminalResults) /\ r.epoch <= e
        /\ r.auth = "revoked" => r.epoch < e
    BY <1>2
  <1>8. n = [r EXCEPT !.epoch = e, !.hw = g, !.pending = PendingOp(t, kind, g, e), !.terminals = v]
    BY <1>3
  <1> HIDE DEF e, v
  <1> QED BY <1>1, <1>2, <1>5, <1>6, <1>7, <1>8, NewPending

\* ReactivateFromRevoked opens an epoch and takes a new generation.
LEMMA ReactivateMoves ==
    ASSUME NEW r \in Records, RecordOK(r), r.hw < MaxGen, r.epoch < MaxEpoch,
           NEW t \in Txn, NEW next \in Txn, NEW n \in ReactivateFromRevoked(r, t, next)
    PROVE  Moves(r, n, {}, {}) /\ n.epoch = r.epoch + 1
  <1> DEFINE g == derive_next_generation(r)
             x == Terminal(t, <<"reactivate", next>>, r.epoch + 1)
  <1>1. PICK v \in push_bounded_terminal(r.terminals, x, FALSE) :
            /\ n = [r EXCEPT !.epoch = @ + 1, !.hw = g,
                             !.pending = PendingOp(next, "reactivate", g, r.epoch + 1),
                             !.terminals = v]
            /\ Terminals(r, t) = {} /\ r.auth = "revoked" /\ r.pending = None
    BY DEF ReactivateFromRevoked
  <1>2. r.epoch \in 1..MaxEpoch /\ r.epoch \in Nat /\ MaxEpoch \in Nat /\ r.epoch + 1 \in 1..MaxEpoch
    BY RecordFields, SignerAssumption
  <1>3. x \in TerminalResults /\ x.txn = t /\ x.req # <<"revoke">>
    <2>1. <<"reactivate", next>> # <<"revoke">>
      OBVIOUS
    <2>2. <<"reactivate", next>> \in {"reactivate"} \X Txn
      OBVIOUS
    <2> QED BY <1>2, <2>1, <2>2 DEF Terminal, TerminalResults
  <1> HIDE DEF x
  <1>4. /\ v \in Seq(TerminalResults) /\ Len(v) <= MaxTerminals
        /\ \A i, j \in DOMAIN v : v[i].txn = v[j].txn => i = j
        /\ \A i \in DOMAIN v : v[i] = x \/ \E j \in DOMAIN r.terminals : v[i] = r.terminals[j]
    BY <1>1, <1>3, NewTerminal
  <1>5. n = [r EXCEPT !.epoch = r.epoch + 1, !.hw = g,
                      !.pending = PendingOp(next, "reactivate", g, r.epoch + 1), !.terminals = v]
    BY <1>1 DEF Records
  <1>6. n.epoch = r.epoch + 1 /\ n.terminals = v
    BY <1>5 DEF Records
  <1>7. TerminalsOK(n)
    <2>1. \A j \in DOMAIN r.terminals : r.terminals[j].req = <<"revoke">> =>
              r.terminals[j].n <= r.epoch /\ r.terminals[j].n \in Nat
      BY RecordFields DEF RecordOK, TerminalsOK, TerminalResults
    <2>2. \A i \in DOMAIN v : v[i].req = <<"revoke">> => v[i].n <= r.epoch /\ v[i].n \in Nat
      BY <1>3, <1>4, <2>1
    <2> QED BY <1>2, <1>4, <1>6, <2>2 DEF TerminalsOK
  <1>8. <<r.auth, "reactivate">> \in {<<"empty", "create">>, <<"active", "rotate">>, <<"revoked", "reactivate">>}
    BY <1>1
  <1>9. r.epoch <= r.epoch + 1 /\ r.epoch < r.epoch + 1
    BY <1>2
  <1> HIDE DEF g
  <1>10. Moves(r, n, {}, {})
    BY <1>1, <1>2, <1>4, <1>5, <1>7, <1>8, <1>9, NewPending DEF g
  <1> QED BY <1>6, <1>10

\* KeyObserved gives the pending operation its key.
LEMMA ObserveMoves ==
    ASSUME NEW r \in Records, RecordOK(r), NEW op \in PendingOps, NEW fresh, NEW key \in 1..MaxKeys,
           NEW n \in KeyObserved(r, op, fresh, key)
    PROVE  /\ Moves(r, n, {}, {})
           /\ r.pending = op /\ n.pending # None /\ SlotOf(n.pending) = SlotOf(op)
           /\ n.pending.gen = op.gen /\ n.pending.key = key /\ n.live = r.live
  <1> DEFINE q == [op EXCEPT !.phase = "observed", !.key = key]
  <1>0. MaxKeys \in Nat
    BY SignerAssumption
  <1>1. n = [r EXCEPT !.pending = q] /\ r.pending = op /\ op.phase = "intent"
    BY DEF KeyObserved
  <1>a. key \in 0..MaxKeys /\ key # 0
    BY <1>0
  <1>2. /\ q \in PendingOps /\ q.gen = op.gen /\ q.txn = op.txn /\ q.epoch = op.epoch
        /\ q.kind = op.kind /\ q.phase = "observed" /\ q.key = key /\ key # 0
    <2>1. op \in PendingOps
      OBVIOUS
    <2> QED BY <1>a, <2>1 DEF PendingOps
  <1> HIDE DEF q
  <1>3. q # None /\ op # None
    BY <1>2, SignerAssumption
  <1>4. /\ n \in Records /\ n.pending = q /\ n.epoch = r.epoch /\ n.hw = r.hw /\ n.auth = r.auth
        /\ n.current = r.current /\ n.live = r.live /\ n.gc = r.gc /\ n.terminals = r.terminals
    BY <1>1, <1>2 DEF Records
  <1>5. SlotOf(q) = SlotOf(op)
    BY <1>2 DEF SlotOf
  <1>6. Apart(n) /\ Below(n) /\ AuthorityOK(n)
    BY <1>1, <1>2, <1>3, <1>4 DEF RecordOK, Apart, Below, AuthorityOK
  <1>7. PendingOK(n)
    BY <1>1, <1>2, <1>3, <1>4 DEF RecordOK, PendingOK
  <1>8. TerminalsOK(n)
    BY <1>1, <1>3, <1>4 DEF RecordOK, TerminalsOK
  <1>9. Used(n) = Used(r) /\ Used(r) \in Nat
    BY <1>1, <1>3, <1>4, RecordFields DEF Used
  <1>10. PendingMoves(r, n) /\ LiveMoves(r, n) /\ EpochMoves(r, n)
    <2>1. r.epoch <= r.epoch
      BY RecordFields
    <2> QED BY <1>1, <1>3, <1>4, <1>5, <2>1 DEF PendingMoves, LiveMoves, EpochMoves
  <1>11. \A s \in Slot : Names(r, s) => Names(n, s)
    BY <1>1, <1>3, <1>4, <1>5 DEF Names
  <1>12. Used(r) <= Used(n)
    BY <1>9
  <1> QED BY <1>1, <1>2, <1>3, <1>4, <1>5, <1>6, <1>7, <1>8, <1>10, <1>11, <1>12 DEF Moves, RecordOK

\* ActivateFromKeyObserved makes the pending operation live.
LEMMA ActivateMoves ==
    ASSUME NEW r \in Records, RecordOK(r), NEW op \in PendingOps, NEW na \in Delegation,
           NEW n \in ActivateFromKeyObserved(r, op, na)
    PROVE  /\ Moves(r, n, {}, {})
           /\ r.pending = op /\ op.key # 0 /\ n.pending = None /\ op.gen <= Used(n)
  <1> DEFINE t == Terminal(op.txn, <<"activate", op.gen, na>>, op.gen)
             x == [gen |-> op.gen, txn |-> op.txn, key |-> op.key, na |-> na]
  <1>1. PICK v \in push_bounded_terminal(r.terminals, t, FALSE) :
            /\ n = [r EXCEPT !.live = Append(@, x), !.current = op.gen, !.auth = "active",
                             !.pending = None, !.terminals = v]
            /\ Terminals(r, op.txn) = {} /\ r.pending = op /\ op.phase = "observed"
    BY DEF ActivateFromKeyObserved
  <1>2. op # None /\ op.key # 0 /\ op.gen = r.hw
    BY <1>1, SignerAssumption DEF RecordOK, PendingOK, Below
  <1>3. /\ op.gen \in Gen /\ op.txn \in Txn /\ op.key \in 1..MaxKeys /\ op.gen \in 0..MaxGen
        /\ op.gen \in Nat /\ op.gen # 0
    BY <1>2, SignerAssumption DEF PendingOps, Gen
  <1>4. t \in TerminalResults /\ t.txn = op.txn /\ t.req # <<"revoke">>
    <2>1. <<"activate", op.gen, na>> # <<"revoke">>
      OBVIOUS
    <2>2. <<"activate", op.gen, na>> \in {"activate"} \X Gen \X Delegation
      BY <1>3
    <2> QED BY <1>3, <2>1, <2>2 DEF Terminal, TerminalResults
  <1> HIDE DEF t
  <1>a. Terminals(r, t.txn) = {} /\ FALSE \in BOOLEAN
    BY <1>1, <1>4
  <1>b. v \in push_bounded_terminal(r.terminals, t, FALSE)
    BY <1>1
  <1>5. /\ v \in Seq(TerminalResults) /\ Len(v) <= MaxTerminals
        /\ \A i, j \in DOMAIN v : v[i].txn = v[j].txn => i = j
        /\ \A i \in DOMAIN v : v[i] = t \/ \E j \in DOMAIN r.terminals : v[i] = r.terminals[j]
    BY <1>4, <1>a, <1>b, NewTerminal
  <1>6. x \in Generations /\ x.gen = op.gen /\ SlotOf(x) = SlotOf(op) /\ x.key = op.key
    BY <1>3 DEF Generations, SlotOf
  <1> DEFINE l == Append(r.live, x)
  <1> HIDE DEF x
  <1>7. /\ l \in Seq(Generations) /\ DOMAIN l = DOMAIN r.live \cup {Len(r.live) + 1}
        /\ Len(r.live) + 1 \notin DOMAIN r.live
        /\ \A i \in DOMAIN r.live : l[i] = r.live[i]
        /\ l[Len(r.live) + 1] = x
    BY <1>6, RecordFields, AppendFacts
  <1>8. n = [r EXCEPT !.live = l, !.current = op.gen, !.auth = "active", !.pending = None, !.terminals = v]
    BY <1>1 DEF Records
  <1> HIDE DEF l
  <1>9. /\ n \in Records /\ n.pending = None /\ n.epoch = r.epoch /\ n.hw = r.hw /\ n.auth = "active"
        /\ n.current = op.gen /\ n.live = l /\ n.gc = r.gc /\ n.terminals = v
    BY <1>3, <1>5, <1>7, <1>8 DEF Records
  <1>10. /\ \A i \in DOMAIN r.live : r.live[i].gen < op.gen /\ r.live[i].gen \in Nat
         /\ \A i \in DOMAIN r.gc : r.gc[i].gen < op.gen /\ r.gc[i].gen \in Nat
    BY <1>1, <1>2, RecordFields DEF RecordOK, Below, Generations, GcEntries, Gen
  <1>11. Apart(n)
    <2>1. \A i, j \in DOMAIN l : l[i].gen = l[j].gen => i = j
      BY <1>3, <1>6, <1>7, <1>10 DEF RecordOK, Apart
    <2>2. \A i \in DOMAIN l, j \in DOMAIN r.gc : l[i].gen # r.gc[j].gen
      BY <1>3, <1>6, <1>7, <1>10 DEF RecordOK, Apart
    <2> QED BY <1>9, <2>1, <2>2 DEF RecordOK, Apart
  <1>12. Below(n)
    BY <1>2, <1>3, <1>6, <1>7, <1>9, <1>10 DEF Below
  <1>13. PendingOK(n) /\ AuthorityOK(n)
    BY <1>3, <1>6, <1>7, <1>9 DEF PendingOK, AuthorityOK
  <1>14. TerminalsOK(n)
    <2>1. \A j \in DOMAIN r.terminals : r.terminals[j].req = <<"revoke">> =>
              r.terminals[j].n <= r.epoch /\ r.terminals[j].n # r.epoch
      BY <1>1, <1>2 DEF RecordOK, TerminalsOK
    <2>2. \A i \in DOMAIN v : v[i].req = <<"revoke">> => v[i].n <= r.epoch /\ v[i].n # r.epoch
      BY <1>4, <1>5, <2>1
    <2> QED BY <1>5, <1>9, <2>2 DEF TerminalsOK
  <1>15. Used(r) = r.hw /\ Used(n) = r.hw /\ r.hw \in Nat
    BY <1>1, <1>2, <1>9, RecordFields DEF Used
  <1>16. PendingMoves(r, n) /\ LiveMoves(r, n) /\ EpochMoves(r, n)
    <2>1. r.epoch <= r.epoch
      BY RecordFields
    <2>2. LiveMoves(r, n)
      BY <1>1, <1>2, <1>6, <1>7, <1>9 DEF LiveMoves
    <2> QED BY <1>1, <1>2, <1>9, <2>1, <2>2 DEF PendingMoves, EpochMoves
  <1>17. \A s \in Slot : Names(r, s) => Names(n, s)
    <2> SUFFICES ASSUME NEW s \in Slot, Names(r, s) PROVE Names(n, s)
      OBVIOUS
    <2>1. CASE r.pending # None /\ SlotOf(r.pending) = s
      BY <1>1, <1>6, <1>7, <1>9, <2>1 DEF Names
    <2>2. CASE \E i \in DOMAIN r.live : SlotOf(r.live[i]) = s
      BY <1>7, <1>9, <2>2 DEF Names
    <2>3. CASE \E i \in DOMAIN r.gc : SlotOf(r.gc[i]) = s /\ ~Clean(r.gc[i])
      BY <1>9, <2>3 DEF Names
    <2> QED BY <2>1, <2>2, <2>3 DEF Names
  <1>18. Used(r) <= Used(n) /\ op.gen <= Used(n)
    BY <1>2, <1>15
  <1> QED BY <1>1, <1>2, <1>9, <1>11, <1>12, <1>13, <1>14, <1>16, <1>17, <1>18 DEF Moves, RecordOK

\* GenerationExpired hands one live generation to the collector.
LEMMA ExpireMoves ==
    ASSUME NEW r \in Records, RecordOK(r), NEW g \in Gen, NEW n \in GenerationExpired(r, g)
    PROVE  Moves(r, n, {}, {}) /\ n.pending = r.pending
  <1>1. PICK k \in DOMAIN r.live :
            /\ n = [r EXCEPT !.gc = Append(@, Entry(r.live[k], "pending", r.live[k].key)),
                             !.live = Drop(@, k)]
            /\ r.live[k].gen = g /\ r.current # g
    BY DEF GenerationExpired
  <1> DEFINE x == Entry(r.live[k], "pending", r.live[k].key)
             c == Append(r.gc, x)
             l == Drop(r.live, k)
  <1>0. MaxKeys \in Nat /\ r.live \in Seq(Generations) /\ r.live[k] \in Generations
        /\ r.gc \in Seq(GcEntries)
    BY SignerAssumption, RecordFields
  <1>2. x \in GcEntries /\ x.gen = g /\ SlotOf(x) = SlotOf(r.live[k]) /\ ~Clean(x) /\ x.st = "pending"
    BY <1>0, <1>1 DEF Generations, GcEntries, Entry, SlotOf, Clean
  <1>3. n = [r EXCEPT !.gc = c, !.live = l]
    BY <1>1 DEF Records
  <1> HIDE DEF x
  <1>4. /\ c \in Seq(GcEntries) /\ DOMAIN c = DOMAIN r.gc \cup {Len(r.gc) + 1}
        /\ Len(r.gc) + 1 \notin DOMAIN r.gc
        /\ \A i \in DOMAIN r.gc : c[i] = r.gc[i]
        /\ c[Len(r.gc) + 1] = x
    BY <1>0, <1>2, AppendFacts
  <1>5. l \in Seq(Generations)
    BY <1>0, DropFacts
  <1>6. /\ \A a \in DOMAIN l : \E j \in DOMAIN r.live : j # k /\ l[a] = r.live[j]
        /\ \A j \in DOMAIN r.live : j # k => \E a \in DOMAIN l : l[a] = r.live[j]
        /\ \A a, b \in DOMAIN l : a # b =>
                \E j, m \in DOMAIN r.live : j # m /\ j # k /\ m # k /\ l[a] = r.live[j] /\ l[b] = r.live[m]
    BY <1>0, DropEntries
  <1> HIDE DEF c, l
  <1>7. /\ n \in Records /\ n.pending = r.pending /\ n.epoch = r.epoch /\ n.hw = r.hw /\ n.auth = r.auth
        /\ n.current = r.current /\ n.live = l /\ n.gc = c /\ n.terminals = r.terminals
    BY <1>3, <1>4, <1>5 DEF Records
  <1>8. Apart(n)
    <2>1. \A a, b \in DOMAIN l : l[a].gen = l[b].gen => a = b
      BY <1>6 DEF RecordOK, Apart
    <2>2. \A i, j \in DOMAIN c : c[i].gen = c[j].gen => i = j
      BY <1>1, <1>2, <1>4 DEF RecordOK, Apart
    <2>3. \A a \in DOMAIN l : l[a].gen # g
      BY <1>1, <1>6 DEF RecordOK, Apart
    <2>4. \A a \in DOMAIN l, j \in DOMAIN c : l[a].gen # c[j].gen
      BY <1>2, <1>4, <1>6, <2>3 DEF RecordOK, Apart
    <2> QED BY <1>7, <2>1, <2>2, <2>4 DEF Apart
  <1>9. Below(n)
    BY <1>1, <1>2, <1>4, <1>6, <1>7 DEF RecordOK, Below
  <1>10. AuthorityOK(n)
    <2>1. r.auth # "empty"
      <3>1. r.live # <<>>
        BY <1>1
      <3> QED BY <3>1 DEF RecordOK, AuthorityOK
    <2>2. r.current # 0 => \E a \in DOMAIN l : l[a].gen = r.current
      BY <1>1, <1>6 DEF RecordOK, AuthorityOK
    <2> QED BY <1>7, <2>1, <2>2 DEF RecordOK, AuthorityOK
  <1>11. PendingOK(n) /\ TerminalsOK(n)
    BY <1>7 DEF RecordOK, PendingOK, TerminalsOK
  <1>12. Used(n) = Used(r) /\ Used(r) \in Nat
    BY <1>7, RecordFields DEF Used
  <1>13. PendingMoves(r, n) /\ LiveMoves(r, n) /\ EpochMoves(r, n)
    <2>1. r.epoch <= r.epoch
      BY RecordFields
    <2> QED BY <1>6, <1>7, <2>1 DEF PendingMoves, LiveMoves, EpochMoves
  <1>14. \A s \in Slot : Names(r, s) => Names(n, s)
    <2> SUFFICES ASSUME NEW s \in Slot, Names(r, s) PROVE Names(n, s)
      OBVIOUS
    <2>1. CASE r.pending # None /\ SlotOf(r.pending) = s
      BY <1>7, <2>1 DEF Names
    <2>2. CASE \E i \in DOMAIN r.live : SlotOf(r.live[i]) = s
      <3>1. PICK i \in DOMAIN r.live : SlotOf(r.live[i]) = s
        BY <2>2
      <3>2. CASE i = k
        BY <1>2, <1>4, <1>7, <3>1, <3>2 DEF Names
      <3>3. CASE i # k
        BY <1>6, <1>7, <3>1, <3>3 DEF Names
      <3> QED BY <3>2, <3>3
    <2>3. CASE \E i \in DOMAIN r.gc : SlotOf(r.gc[i]) = s /\ ~Clean(r.gc[i])
      BY <1>4, <1>7, <2>3 DEF Names
    <2> QED BY <2>1, <2>2, <2>3 DEF Names
  <1>15. \A i \in DOMAIN n.gc : n.gc[i].st = "unconfirmed" => \E j \in DOMAIN r.gc : n.gc[i] = r.gc[j]
    BY <1>2, <1>4, <1>7
  <1>16. Used(r) <= Used(n)
    BY <1>12
  <1> QED BY <1>7, <1>8, <1>9, <1>10, <1>11, <1>13, <1>14, <1>15, <1>16 DEF Moves, RecordOK

\* A concatenation, by its entries.
LEMMA ConcatFacts ==
    ASSUME NEW S, NEW s \in Seq(S), NEW t \in Seq(S)
    PROVE  /\ s \o t \in Seq(S) /\ Len(s \o t) = Len(s) + Len(t)
           /\ DOMAIN (s \o t) = 1..(Len(s) + Len(t))
           /\ \A i \in DOMAIN s : i \in DOMAIN (s \o t) /\ (s \o t)[i] = s[i]
           /\ \A j \in DOMAIN t : Len(s) + j \in DOMAIN (s \o t) /\ (s \o t)[Len(s) + j] = t[j]
           /\ \A k \in DOMAIN (s \o t) : k \in DOMAIN s \/ \E j \in DOMAIN t : k = Len(s) + j
           /\ \A j \in DOMAIN t : Len(s) + j \notin DOMAIN s
  <1>1. /\ Len(s) \in Nat /\ Len(t) \in Nat /\ DOMAIN s = 1..Len(s) /\ DOMAIN t = 1..Len(t)
    BY LenProperties
  <1>2. /\ s \o t \in Seq(S) /\ Len(s \o t) = Len(s) + Len(t)
        /\ \A k \in 1..(Len(s) + Len(t)) :
               (s \o t)[k] = IF k <= Len(s) THEN s[k] ELSE t[k - Len(s)]
    BY ConcatProperties
  <1>3. DOMAIN (s \o t) = 1..(Len(s) + Len(t))
    BY <1>2, LenProperties
  <1> DEFINE c == s \o t
             m == Len(s)
             l == Len(t)
  <1>4. /\ m \in Nat /\ l \in Nat /\ DOMAIN s = 1..m /\ DOMAIN t = 1..l /\ DOMAIN c = 1..(m + l)
        /\ \A k \in 1..(m + l) : c[k] = IF k <= m THEN s[k] ELSE t[k - m]
    BY <1>1, <1>2, <1>3
  <1> HIDE DEF c, m, l
  <1>5. \A i \in DOMAIN s : i \in DOMAIN c /\ c[i] = s[i]
    BY <1>4
  <1>6. ASSUME NEW j \in DOMAIN t PROVE m + j \in DOMAIN c /\ c[m + j] = t[j] /\ m + j \notin DOMAIN s
    <2>1. m + j \in 1..(m + l) /\ ~(m + j <= m) /\ (m + j) - m = j
      BY <1>4
    <2> QED BY <1>4, <2>1
  <1>7. ASSUME NEW k \in DOMAIN c, k \notin DOMAIN s PROVE \E j \in DOMAIN t : k = m + j
    <2>1. k - m \in 1..l /\ k = m + (k - m)
      BY <1>4, <1>7
    <2> QED BY <1>4, <2>1
  <1> QED BY <1>2, <1>3, <1>5, <1>6, <1>7 DEF c, m, l

\* What RevokeUrgent hands to the collector.
Dead(r) ==
    (IF r.pending = None THEN <<>>
     ELSE <<Entry(r.pending, IF r.pending.key = 0 THEN "awaiting" ELSE "pending", r.pending.key)>>)
    \o [i \in DOMAIN r.live |-> Entry(r.live[i], "pending", r.live[i].key)]

\* It is every slot that the record has live or pending, once.
LEMMA DeadFacts ==
    ASSUME NEW r \in Records, RecordOK(r)
    PROVE  /\ Dead(r) \in Seq(GcEntries)
           /\ Len(Dead(r)) = Len(r.live) + (IF r.pending = None THEN 0 ELSE 1)
           /\ \A k \in DOMAIN Dead(r) :
                  /\ ~Clean(Dead(r)[k]) /\ Dead(r)[k].st # "unconfirmed"
                  /\ \/ \E i \in DOMAIN r.live : SlotOf(Dead(r)[k]) = SlotOf(r.live[i])
                                                 /\ Dead(r)[k].gen = r.live[i].gen
                     \/ r.pending # None /\ Dead(r)[k].gen = r.pending.gen
           /\ \A i, j \in DOMAIN Dead(r) : Dead(r)[i].gen = Dead(r)[j].gen => i = j
           /\ r.pending # None => \E k \in DOMAIN Dead(r) : SlotOf(Dead(r)[k]) = SlotOf(r.pending)
           /\ \A i \in DOMAIN r.live : \E k \in DOMAIN Dead(r) : SlotOf(Dead(r)[k]) = SlotOf(r.live[i])
  <1> DEFINE e == Entry(r.pending, IF r.pending.key = 0 THEN "awaiting" ELSE "pending", r.pending.key)
             p == IF r.pending = None THEN <<>> ELSE <<e>>
             l == [i \in DOMAIN r.live |-> Entry(r.live[i], "pending", r.live[i].key)]
             d == p \o l
  <1>0. MaxKeys \in Nat /\ Len(r.live) \in Nat /\ DOMAIN r.live = 1..Len(r.live)
        /\ r.live \in Seq(Generations) /\ r.pending \in PendingOps \cup {None}
        /\ \A i \in DOMAIN r.live : r.live[i] \in Generations
    BY SignerAssumption, RecordFields, LenProperties
  <1>1. \A i \in DOMAIN r.live :
            /\ l[i] \in GcEntries /\ l[i].gen = r.live[i].gen /\ SlotOf(l[i]) = SlotOf(r.live[i])
            /\ l[i].st = "pending" /\ ~Clean(l[i])
    BY <1>0 DEF Generations, GcEntries, Entry, SlotOf, Clean
  <1>2. l \in Seq(GcEntries) /\ Len(l) = Len(r.live) /\ DOMAIN l = DOMAIN r.live
    <2>1. DOMAIN l = 1..Len(r.live) /\ \A i \in 1..Len(r.live) : l[i] \in GcEntries
      BY <1>0, <1>1
    <2>2. l \in [1..Len(r.live) -> GcEntries]
      BY <2>1
    <2> QED BY <1>0, <2>1, <2>2
  <1>3. r.pending # None =>
            /\ e \in GcEntries /\ e.gen = r.pending.gen /\ SlotOf(e) = SlotOf(r.pending)
            /\ e.st # "unconfirmed" /\ ~Clean(e)
    BY <1>0 DEF PendingOps, GcEntries, Entry, SlotOf, Clean
  <1> HIDE DEF e, l
  <1>4. /\ p \in Seq(GcEntries) /\ Len(p) = IF r.pending = None THEN 0 ELSE 1
        /\ r.pending = None => DOMAIN p = {}
        /\ r.pending # None => DOMAIN p = {1} /\ p[1] = e
    BY <1>3
  <1> HIDE DEF p
  <1>5. /\ d \in Seq(GcEntries) /\ Len(d) = Len(p) + Len(l)
        /\ \A i \in DOMAIN p : i \in DOMAIN d /\ d[i] = p[i]
        /\ \A j \in DOMAIN l : Len(p) + j \in DOMAIN d /\ d[Len(p) + j] = l[j]
        /\ \A k \in DOMAIN d : k \in DOMAIN p \/ \E j \in DOMAIN l : k = Len(p) + j
    <2>1. p \in Seq(GcEntries) /\ l \in Seq(GcEntries)
      BY <1>2, <1>4
    <2> QED BY <2>1, ConcatFacts, Zenon
  <1>6. Dead(r) = d
    BY DEF Dead, d, p, l, e
  <1> HIDE DEF d
  <1>7. Len(d) = Len(r.live) + (IF r.pending = None THEN 0 ELSE 1)
    <2>1. CASE r.pending = None
      BY <1>0, <1>2, <1>4, <1>5, <2>1
    <2>2. CASE r.pending # None
      BY <1>0, <1>2, <1>4, <1>5, <2>2
    <2> QED BY <2>1, <2>2
  <1>8. ASSUME NEW k \in DOMAIN d
        PROVE  /\ ~Clean(d[k]) /\ d[k].st # "unconfirmed"
               /\ \/ \E i \in DOMAIN r.live : SlotOf(d[k]) = SlotOf(r.live[i]) /\ d[k].gen = r.live[i].gen
                  \/ r.pending # None /\ d[k].gen = r.pending.gen
    <2>1. CASE k \in DOMAIN p
      BY <1>3, <1>4, <1>5, <2>1
    <2>2. CASE \E j \in DOMAIN l : k = Len(p) + j
      BY <1>1, <1>2, <1>5, <2>2
    <2> QED BY <1>5, <2>1, <2>2
  <1>9. ASSUME NEW i \in DOMAIN d, NEW j \in DOMAIN d, d[i].gen = d[j].gen PROVE i = j
    <2>0. \A a \in DOMAIN r.live : r.pending # None => r.live[a].gen # r.pending.gen
      BY <1>0 DEF RecordOK, Below, Generations, Gen
    <2>1. CASE i \in DOMAIN p /\ j \in DOMAIN p
      BY <1>4, <2>1
    <2>a. ASSUME NEW k \in DOMAIN p PROVE r.pending # None /\ d[k].gen = r.pending.gen
      BY <1>3, <1>4, <1>5
    <2>b. ASSUME NEW k \in DOMAIN d, k \notin DOMAIN p
          PROVE  \E a \in DOMAIN r.live : d[k].gen = r.live[a].gen
      <3>1. PICK a \in DOMAIN l : k = Len(p) + a
        BY <1>5, <2>b
      <3>2. d[k] = l[a]
        BY <1>5, <3>1
      <3> QED BY <1>1, <1>2, <3>2
    <2>2. CASE i \in DOMAIN p /\ j \notin DOMAIN p
      BY <1>9, <2>0, <2>2, <2>a, <2>b
    <2>3. CASE i \notin DOMAIN p /\ j \in DOMAIN p
      BY <1>9, <2>0, <2>3, <2>a, <2>b
    <2>4. CASE i \notin DOMAIN p /\ j \notin DOMAIN p
      <3>1. PICK a \in DOMAIN l : i = Len(p) + a
        BY <1>5, <2>4
      <3>2. PICK b \in DOMAIN l : j = Len(p) + b
        BY <1>5, <2>4
      <3>3. r.live[a].gen = r.live[b].gen /\ a \in DOMAIN r.live /\ b \in DOMAIN r.live
        BY <1>1, <1>2, <1>5, <1>9, <3>1, <3>2
      <3> QED BY <3>1, <3>2, <3>3 DEF RecordOK, Apart
    <2> QED BY <2>1, <2>2, <2>3, <2>4
  <1>10. r.pending # None => \E k \in DOMAIN d : SlotOf(d[k]) = SlotOf(r.pending)
    BY <1>3, <1>4, <1>5
  <1>11. \A i \in DOMAIN r.live : \E k \in DOMAIN d : SlotOf(d[k]) = SlotOf(r.live[i])
    BY <1>1, <1>2, <1>5
  <1> QED BY <1>5, <1>6, <1>7, <1>8, <1>9, <1>10, <1>11

\* RevokeUrgent ends the epoch and hands everything to the collector.
LEMMA RevokeMoves ==
    ASSUME NEW r \in Records, RecordOK(r), r.epoch < MaxEpoch, NEW t \in Txn,
           NEW n \in RevokeUrgent(r, t)
    PROVE  /\ Moves(r, n, {}, {})
           /\ n.epoch = r.epoch + 1 /\ n.auth = "revoked" /\ n.pending = None
  <1> DEFINE x == Terminal(t, <<"revoke">>, r.epoch + 1)
             c == r.gc \o Dead(r)
  <1>1. PICK v \in push_bounded_terminal(r.terminals, x, TRUE) :
            /\ n = [r EXCEPT !.epoch = @ + 1, !.auth = "revoked", !.gc = @ \o Dead(r),
                             !.pending = None, !.live = <<>>, !.current = 0, !.terminals = v]
            /\ Terminals(r, t) = {}
    BY DEF RevokeUrgent, Dead
  <1>2. r.epoch \in 1..MaxEpoch /\ r.epoch \in Nat /\ MaxEpoch \in Nat /\ r.epoch + 1 \in 1..MaxEpoch
        /\ MaxGen \in Nat /\ r.gc \in Seq(GcEntries)
    BY RecordFields, SignerAssumption
  <1>3. x \in TerminalResults /\ x.txn = t /\ x.n = r.epoch + 1
    BY <1>2 DEF Terminal, TerminalResults
  <1> HIDE DEF x
  <1>a. Terminals(r, x.txn) = {} /\ TRUE \in BOOLEAN
    BY <1>1, <1>3
  <1>b. v \in push_bounded_terminal(r.terminals, x, TRUE)
    BY <1>1
  <1>4. /\ v \in Seq(TerminalResults) /\ Len(v) <= MaxTerminals
        /\ \A i, j \in DOMAIN v : v[i].txn = v[j].txn => i = j
        /\ \A i \in DOMAIN v : v[i] = x \/ \E j \in DOMAIN r.terminals : v[i] = r.terminals[j]
    BY <1>3, <1>a, <1>b, NewTerminal
  <1> DEFINE d == Dead(r)
  <1>5. /\ d \in Seq(GcEntries)
        /\ \A k \in DOMAIN d :
               /\ ~Clean(d[k]) /\ d[k].st # "unconfirmed"
               /\ \/ \E i \in DOMAIN r.live : d[k].gen = r.live[i].gen
                  \/ r.pending # None /\ d[k].gen = r.pending.gen
        /\ \A i, j \in DOMAIN d : d[i].gen = d[j].gen => i = j
        /\ r.pending # None => \E k \in DOMAIN d : SlotOf(d[k]) = SlotOf(r.pending)
        /\ \A i \in DOMAIN r.live : \E k \in DOMAIN d : SlotOf(d[k]) = SlotOf(r.live[i])
    BY DeadFacts
  <1> HIDE DEF d
  <1>6. /\ c \in Seq(GcEntries)
        /\ \A i \in DOMAIN r.gc : i \in DOMAIN c /\ c[i] = r.gc[i]
        /\ \A j \in DOMAIN d : Len(r.gc) + j \in DOMAIN c /\ c[Len(r.gc) + j] = d[j]
        /\ \A k \in DOMAIN c : k \in DOMAIN r.gc \/ \E j \in DOMAIN d : k = Len(r.gc) + j
    BY <1>2, <1>5, ConcatFacts DEF d
  <1>7. n = [r EXCEPT !.epoch = r.epoch + 1, !.auth = "revoked", !.gc = c,
                      !.pending = None, !.live = <<>>, !.current = 0, !.terminals = v]
    BY <1>1 DEF Records
  <1> HIDE DEF c
  <1>8. 0 \in 0..MaxGen /\ <<>> \in Seq(Generations)
    BY <1>2
  <1>9. /\ n \in Records /\ n.pending = None /\ n.epoch = r.epoch + 1 /\ n.hw = r.hw
        /\ n.auth = "revoked" /\ n.current = 0 /\ n.live = <<>> /\ n.gc = c /\ n.terminals = v
    BY <1>2, <1>4, <1>6, <1>7, <1>8 DEF Records
  <1>10. DOMAIN n.live = {}
    BY <1>9
  <1>11. \A j \in DOMAIN d, i \in DOMAIN r.gc : d[j].gen # r.gc[i].gen
    <2>1. \A i \in DOMAIN r.gc : r.pending # None => r.gc[i].gen # r.pending.gen
      BY RecordFields DEF RecordOK, Below, GcEntries, Gen
    <2> QED BY <1>5, <2>1 DEF RecordOK, Apart
  <1>12. Apart(n)
    <2>1. ASSUME NEW i \in DOMAIN c, NEW j \in DOMAIN c, c[i].gen = c[j].gen PROVE i = j
      <3>1. CASE i \in DOMAIN r.gc /\ j \in DOMAIN r.gc
        BY <1>6, <2>1, <3>1 DEF RecordOK, Apart
      <3>2. CASE i \notin DOMAIN r.gc /\ j \in DOMAIN r.gc
        BY <1>6, <1>11, <2>1, <3>2
      <3>3. CASE i \in DOMAIN r.gc /\ j \notin DOMAIN r.gc
        BY <1>6, <1>11, <2>1, <3>3
      <3>4. CASE i \notin DOMAIN r.gc /\ j \notin DOMAIN r.gc
        <4>1. PICK a \in DOMAIN d : i = Len(r.gc) + a
          BY <1>6, <3>4
        <4>2. PICK b \in DOMAIN d : j = Len(r.gc) + b
          BY <1>6, <3>4
        <4> QED BY <1>5, <1>6, <2>1, <4>1, <4>2
      <3> QED BY <3>1, <3>2, <3>3, <3>4
    <2> QED BY <1>9, <1>10, <2>1 DEF Apart
  <1>13. Below(n)
    <2>1. \A k \in DOMAIN c : c[k].gen <= r.hw
      <3>1. \A j \in DOMAIN d : d[j].gen <= r.hw
        BY <1>5, RecordFields DEF RecordOK, Below
      <3> QED BY <1>6, <3>1 DEF RecordOK, Below
    <2> QED BY <1>9, <1>10, <2>1 DEF Below
  <1>14. PendingOK(n) /\ AuthorityOK(n)
    BY <1>9 DEF PendingOK, AuthorityOK
  <1>15. TerminalsOK(n)
    <2>1. \A j \in DOMAIN r.terminals : r.terminals[j].req = <<"revoke">> => r.terminals[j].n <= r.epoch
      BY DEF RecordOK, TerminalsOK
    <2>2. \A j \in DOMAIN r.terminals : r.terminals[j].n \in Nat
      BY RecordFields DEF TerminalResults
    <2>3. \A i \in DOMAIN v : v[i].req = <<"revoke">> => v[i].n <= r.epoch + 1
      BY <1>2, <1>3, <1>4, <2>1, <2>2
    <2> QED BY <1>4, <1>9, <2>3 DEF TerminalsOK
  <1>16. Used(r) <= Used(n)
    BY <1>9, RecordFields DEF Used
  <1>17. PendingMoves(r, n) /\ LiveMoves(r, n) /\ EpochMoves(r, n)
    BY <1>2, <1>9, <1>10 DEF PendingMoves, LiveMoves, EpochMoves
  <1>18. \A s \in Slot : Names(r, s) => Names(n, s)
    BY <1>5, <1>6, <1>9 DEF Names
  <1>19. \A i \in DOMAIN n.gc : n.gc[i].st = "unconfirmed" => \E j \in DOMAIN r.gc : n.gc[i] = r.gc[j]
    BY <1>5, <1>6, <1>9
  <1> QED BY <1>9, <1>12, <1>13, <1>14, <1>15, <1>16, <1>17, <1>18, <1>19 DEF Moves, RecordOK

\* The states of an entry of the collector.
GcStates == {"awaiting", "unconfirmed", "pending", "done", "quarantine", "absent", "conflict"}

\* GcUpdate changes the state and the key of entries at one slot. It stops naming the slot
\* only if an entry that was not clean gets clean.
LEMMA UpdateMoves ==
    ASSUME NEW r \in Records, RecordOK(r), NEW s \in Slot, NEW next, NEW found \in 0..MaxKeys,
           \A a \in DOMAIN next : next[a] \in GcStates,
           NEW n \in GcUpdate(r, s, next, found), NEW lost, NEW missed,
           \A i \in DOMAIN r.gc :
               SlotOf(r.gc[i]) = s /\ r.gc[i].st \in DOMAIN next =>
                   /\ next[r.gc[i].st] \in {"done", "absent"} => Clean(r.gc[i]) \/ s \in lost
                   /\ next[r.gc[i].st] = "unconfirmed" => s \in missed
    PROVE  Moves(r, n, lost, missed) /\ n.pending = r.pending /\ n.live = r.live
  <1> DEFINE at(e) == SlotOf(e) = s /\ e.st \in DOMAIN next
             step(e) == Entry(e, next[e.st], IF found = 0 THEN e.key ELSE found)
             c == [i \in DOMAIN r.gc |-> IF at(r.gc[i]) THEN step(r.gc[i]) ELSE r.gc[i]]
  <1>0. /\ r.gc \in Seq(GcEntries) /\ DOMAIN r.gc = 1..Len(r.gc) /\ Len(r.gc) \in Nat
        /\ \A i \in DOMAIN r.gc : r.gc[i] \in GcEntries
    BY RecordFields, LenProperties
  <1>1. n = [r EXCEPT !.gc = [i \in DOMAIN @ |-> IF at(@[i]) THEN step(@[i]) ELSE @[i]]]
        /\ \E i \in DOMAIN r.gc : at(r.gc[i])
    BY DEF GcUpdate, Range
  <1>2. n = [r EXCEPT !.gc = c]
    BY <1>1 DEF Records
  <1>3. \A e \in GcEntries : at(e) =>
            /\ step(e) \in GcEntries /\ step(e).gen = e.gen /\ SlotOf(step(e)) = SlotOf(e)
            /\ step(e).st = next[e.st]
    BY DEF GcEntries, Entry, SlotOf, GcStates
  <1>4. /\ DOMAIN c = DOMAIN r.gc
        /\ \A i \in DOMAIN r.gc :
               /\ c[i] \in GcEntries /\ c[i].gen = r.gc[i].gen /\ SlotOf(c[i]) = SlotOf(r.gc[i])
               /\ at(r.gc[i]) => c[i].st = next[r.gc[i].st]
               /\ ~at(r.gc[i]) => c[i] = r.gc[i]
    BY <1>0, <1>3
  <1> HIDE DEF c
  <1>5. c \in Seq(GcEntries)
    <2>1. c \in [1..Len(r.gc) -> GcEntries]
      <3>1. c = [i \in DOMAIN r.gc |-> c[i]]
        BY DEF c
      <3> QED BY <1>0, <1>4, <3>1
    <2> QED BY <1>0, <2>1
  <1>6. /\ n \in Records /\ n.pending = r.pending /\ n.epoch = r.epoch /\ n.hw = r.hw /\ n.auth = r.auth
        /\ n.current = r.current /\ n.live = r.live /\ n.gc = c /\ n.terminals = r.terminals
    BY <1>2, <1>5 DEF Records
  <1>7. Apart(n) /\ Below(n)
    BY <1>4, <1>6 DEF RecordOK, Apart, Below
  <1>8. PendingOK(n) /\ TerminalsOK(n)
    BY <1>6 DEF RecordOK, PendingOK, TerminalsOK
  <1>9. AuthorityOK(n)
    <2>1. r.auth # "empty"
      <3>1. r.gc # <<>>
        BY <1>1
      <3> QED BY <3>1 DEF RecordOK, AuthorityOK
    <2> QED BY <1>6, <2>1 DEF RecordOK, AuthorityOK
  <1>10. Used(n) = Used(r) /\ Used(r) \in Nat
    BY <1>6, RecordFields DEF Used
  <1>11. PendingMoves(r, n) /\ LiveMoves(r, n) /\ EpochMoves(r, n)
    <2>1. r.epoch <= r.epoch
      BY RecordFields
    <2> QED BY <1>6, <2>1 DEF PendingMoves, LiveMoves, EpochMoves
  <1>12. ASSUME NEW q \in Slot \ lost, Names(r, q) PROVE Names(n, q)
    <2>1. CASE r.pending # None /\ SlotOf(r.pending) = q
      BY <1>6, <2>1 DEF Names
    <2>2. CASE \E i \in DOMAIN r.live : SlotOf(r.live[i]) = q
      BY <1>6, <2>2 DEF Names
    <2>3. ASSUME NEW i \in DOMAIN r.gc, SlotOf(r.gc[i]) = q, ~Clean(r.gc[i]) PROVE Names(n, q)
      <3>1. ~Clean(c[i])
        <4>1. CASE at(r.gc[i])
          <5>1. next[r.gc[i].st] \notin {"done", "absent"}
            BY <2>3, <4>1
          <5> QED BY <1>4, <4>1, <5>1 DEF Clean
        <4>2. CASE ~at(r.gc[i])
          BY <1>4, <2>3, <4>2
        <4> QED BY <4>1, <4>2
      <3> QED BY <1>4, <1>6, <2>3, <3>1 DEF Names
    <2> QED BY <1>12, <2>1, <2>2, <2>3 DEF Names
  <1>13. \A i \in DOMAIN n.gc : n.gc[i].st = "unconfirmed" =>
             SlotOf(n.gc[i]) \in missed \/ \E j \in DOMAIN r.gc : n.gc[i] = r.gc[j]
    BY <1>4, <1>6
  <1>14. Used(r) <= Used(n)
    BY <1>10
  <1> QED BY <1>6, <1>7, <1>8, <1>9, <1>11, <1>12, <1>13, <1>14 DEF Moves, RecordOK

\* GcRemoval removes an entry that is clean.
LEMMA RemovalMoves ==
    ASSUME NEW r \in Records, RecordOK(r), NEW n \in GcRemoval(r)
    PROVE  Moves(r, n, {}, {}) /\ n.pending = r.pending
  <1>1. PICK k \in DOMAIN r.gc : n = [r EXCEPT !.gc = Drop(@, k)] /\ Clean(r.gc[k])
    BY DEF GcRemoval
  <1> DEFINE c == Drop(r.gc, k)
  <1>0. r.gc \in Seq(GcEntries)
    BY RecordFields
  <1>2. c \in Seq(GcEntries)
    BY <1>0, DropFacts
  <1>3. /\ \A a \in DOMAIN c : \E j \in DOMAIN r.gc : j # k /\ c[a] = r.gc[j]
        /\ \A j \in DOMAIN r.gc : j # k => \E a \in DOMAIN c : c[a] = r.gc[j]
        /\ \A a, b \in DOMAIN c : a # b =>
                \E j, m \in DOMAIN r.gc : j # m /\ j # k /\ m # k /\ c[a] = r.gc[j] /\ c[b] = r.gc[m]
    BY <1>0, DropEntries
  <1>4. n = [r EXCEPT !.gc = c]
    BY <1>1 DEF Records
  <1> HIDE DEF c
  <1>5. /\ n \in Records /\ n.pending = r.pending /\ n.epoch = r.epoch /\ n.hw = r.hw /\ n.auth = r.auth
        /\ n.current = r.current /\ n.live = r.live /\ n.gc = c /\ n.terminals = r.terminals
    BY <1>2, <1>4 DEF Records
  <1>6. Apart(n)
    <2>1. \A a, b \in DOMAIN c : c[a].gen = c[b].gen => a = b
      BY <1>3 DEF RecordOK, Apart
    <2>2. \A i \in DOMAIN r.live, a \in DOMAIN c : r.live[i].gen # c[a].gen
      BY <1>3 DEF RecordOK, Apart
    <2> QED BY <1>5, <2>1, <2>2 DEF RecordOK, Apart
  <1>7. Below(n)
    BY <1>3, <1>5 DEF RecordOK, Below
  <1>8. PendingOK(n) /\ TerminalsOK(n)
    BY <1>5 DEF RecordOK, PendingOK, TerminalsOK
  <1>9. AuthorityOK(n)
    <2>1. r.auth # "empty"
      <3>1. r.gc # <<>>
        BY <1>1
      <3> QED BY <3>1 DEF RecordOK, AuthorityOK
    <2> QED BY <1>5, <2>1 DEF RecordOK, AuthorityOK
  <1>10. Used(n) = Used(r) /\ Used(r) \in Nat
    BY <1>5, RecordFields DEF Used
  <1>11. PendingMoves(r, n) /\ LiveMoves(r, n) /\ EpochMoves(r, n)
    <2>1. r.epoch <= r.epoch
      BY RecordFields
    <2> QED BY <1>5, <2>1 DEF PendingMoves, LiveMoves, EpochMoves
  <1>12. \A q \in Slot : Names(r, q) => Names(n, q)
    BY <1>1, <1>3, <1>5 DEF Names
  <1>13. \A i \in DOMAIN n.gc : \E j \in DOMAIN r.gc : n.gc[i] = r.gc[j]
    BY <1>3, <1>5
  <1>14. Used(r) <= Used(n)
    BY <1>10
  <1> QED BY <1>5, <1>6, <1>7, <1>8, <1>9, <1>11, <1>12, <1>13, <1>14 DEF Moves, RecordOK

\* TerminalAcked only marks results as acknowledged.
LEMMA AckMoves ==
    ASSUME NEW r \in Records, RecordOK(r), NEW t \in Txn, NEW n \in TerminalAcked(r, t)
    PROVE  Moves(r, n, {}, {}) /\ n.pending = r.pending
  <1> DEFINE v == [i \in DOMAIN r.terminals |->
                      [r.terminals[i] EXCEPT !.acked = @ \/ r.terminals[i].txn = t]]
  <1>0. /\ r.terminals \in Seq(TerminalResults) /\ DOMAIN r.terminals = 1..Len(r.terminals)
        /\ Len(r.terminals) \in Nat
        /\ \A i \in DOMAIN r.terminals : r.terminals[i] \in TerminalResults
    BY RecordFields, LenProperties
  <1>1. n = [r EXCEPT !.terminals = v]
    BY DEF TerminalAcked, Records
  <1>2. \A x \in TerminalResults : \A b \in BOOLEAN :
            /\ [x EXCEPT !.acked = b] \in TerminalResults
            /\ [x EXCEPT !.acked = b].txn = x.txn /\ [x EXCEPT !.acked = b].n = x.n
            /\ [x EXCEPT !.acked = b].req = x.req
    BY DEF TerminalResults
  <1>3. \A i \in DOMAIN r.terminals :
            /\ v[i] \in TerminalResults /\ v[i].txn = r.terminals[i].txn
            /\ v[i].n = r.terminals[i].n /\ v[i].req = r.terminals[i].req
    <2> SUFFICES ASSUME NEW i \in DOMAIN r.terminals
                 PROVE  /\ v[i] \in TerminalResults /\ v[i].txn = r.terminals[i].txn
                        /\ v[i].n = r.terminals[i].n /\ v[i].req = r.terminals[i].req
      OBVIOUS
    <2> DEFINE x == r.terminals[i]
               b == x.acked \/ x.txn = t
    <2>1. x \in TerminalResults /\ b \in BOOLEAN
      BY <1>0
    <2>2. v[i] = [x EXCEPT !.acked = b]
      BY <1>0, <2>1 DEF TerminalResults
    <2> HIDE DEF x, b, v
    <2>3. /\ v[i] \in TerminalResults /\ v[i].txn = x.txn /\ v[i].n = x.n /\ v[i].req = x.req
      BY <1>2, <2>1, <2>2
    <2> QED BY <2>3 DEF x
  <1>4. DOMAIN v = DOMAIN r.terminals /\ v = [i \in DOMAIN r.terminals |-> v[i]]
    OBVIOUS
  <1> HIDE DEF v
  <1>5. v \in Seq(TerminalResults) /\ Len(v) = Len(r.terminals)
    <2>1. v \in [1..Len(r.terminals) -> TerminalResults]
      BY <1>0, <1>3, <1>4
    <2> QED BY <1>0, <2>1
  <1>6. /\ n \in Records /\ n.pending = r.pending /\ n.epoch = r.epoch /\ n.hw = r.hw /\ n.auth = r.auth
        /\ n.current = r.current /\ n.live = r.live /\ n.gc = r.gc /\ n.terminals = v
    BY <1>1, <1>5 DEF Records
  <1>7. Apart(n) /\ Below(n) /\ PendingOK(n) /\ AuthorityOK(n)
    BY <1>6 DEF RecordOK, Apart, Below, PendingOK, AuthorityOK
  <1>8. TerminalsOK(n)
    <2>1. Len(v) <= MaxTerminals
      BY <1>5 DEF RecordOK, TerminalsOK
    <2>2. \A i, j \in DOMAIN v : v[i].txn = v[j].txn => i = j
      BY <1>3, <1>4 DEF RecordOK, TerminalsOK
    <2>3. \A i \in DOMAIN v : v[i].req = <<"revoke">> =>
              /\ v[i].n <= r.epoch
              /\ v[i].n = r.epoch => r.auth = "revoked" /\ r.pending = None
      BY <1>3, <1>4 DEF RecordOK, TerminalsOK
    <2> QED BY <1>6, <2>1, <2>2, <2>3 DEF TerminalsOK
  <1>9. Used(r) <= Used(n)
    BY <1>6, RecordFields DEF Used
  <1>10. PendingMoves(r, n) /\ LiveMoves(r, n) /\ EpochMoves(r, n)
    <2>1. r.epoch <= r.epoch
      BY RecordFields
    <2> QED BY <1>6, <2>1 DEF PendingMoves, LiveMoves, EpochMoves
  <1>11. \A q \in Slot : Names(r, q) => Names(n, q)
    BY <1>6 DEF Names
  <1> QED BY <1>6, <1>7, <1>8, <1>9, <1>10, <1>11 DEF Moves, RecordOK

-----------------------------------------------------------------------------
(* What a step does to the records on disk.                                 *)

\* The record stays, is written again, or is what a crash left.
Stays ==
    /\ survivors' \subseteq survivors /\ disk' \in survivors'
    /\ disk' = disk \/ survivors' = {disk'}

\* A commit puts n in place of the record, or may have.
Advances(n) == disk' = n /\ survivors' \in {{n}, survivors \cup {n}}

\* The parts of the invariant that do not concern the actors.
StoreInv == RecordsInv /\ ChainInv /\ RelyOnPresentKeys /\ KeysTracked /\ KeysMade

\* Records are well formed.
LEMMA DiskFacts ==
    ASSUME TypeOK, RecordsInv
    PROVE  /\ disk \in survivors /\ disk \in Records /\ RecordOK(disk)
           /\ \A r \in survivors : r \in Records /\ RecordOK(r) /\ Used(r) \in Nat
           /\ disk.pending # None => disk.pending \in PendingOps /\ disk.pending.gen = disk.hw
                                     /\ Used(disk) = disk.hw
  <1>1. disk \in survivors /\ \A r \in survivors : r \in Records /\ RecordOK(r)
    BY DEF TypeOK, RecordsInv
  <1>2. \A r \in survivors : Used(r) \in Nat
    BY <1>1, RecordFields
  <1>3. disk.pending # None => disk.pending \in PendingOps /\ disk.pending.gen = disk.hw
                                     /\ Used(disk) = disk.hw
    BY <1>1, RecordFields DEF RecordOK, Below, Used
  <1> QED BY <1>1, <1>2, <1>3

\* KeysTracked in terms of Names.
LEMMA TrackedNames ==
    ASSUME NEW r, NEW s
    PROVE  Names(r, s) <=> \/ r.pending # None /\ SlotOf(r.pending) = s
                           \/ \E g \in Range(r.live) : SlotOf(g) = s
                           \/ \E e \in Range(r.gc) : SlotOf(e) = s /\ ~Clean(e)
  BY DEF Names, Range

\* KeysTracked: every owed slot is named by every record a crash may leave.
LEMMA TrackedForm == KeysTracked <=> \A s \in Owed : \A r \in survivors : Names(r, s)
  BY TrackedNames DEF KeysTracked, Owed

\* RelyOnPresentKeys by places.
Relies(r) ==
    /\ \A i \in DOMAIN r.live : SlotOf(r.live[i]) \in present /\ made[SlotOf(r.live[i])] = r.live[i].key
    /\ r.pending # None /\ r.pending.key # 0 =>
           SlotOf(r.pending) \in present /\ made[SlotOf(r.pending)] = r.pending.key

\* RelyOnPresentKeys, record by record.
LEMMA ReliesForm == RelyOnPresentKeys <=> \A r \in survivors : Relies(r)
  BY DEF RelyOnPresentKeys, Relied, Relies, Range

\* Writing the record again, and a crash, keep what the records say.
LEMMA StayStore ==
    ASSUME TypeOK, StoreInv, Stays, UNCHANGED <<present, made, late>>
    PROVE  StoreInv'
  <1>0. disk \in survivors /\ \A r \in survivors : Used(r) \in Nat
    BY DiskFacts DEF StoreInv
  <1>1. RecordsInv'
    BY DEF StoreInv, RecordsInv, Stays
  <1>2. ChainInv'
    <2>1. CASE disk' = disk
      BY <2>1 DEF StoreInv, ChainInv, Stays
    <2>2. CASE survivors' = {disk'}
      <3>1. Used(disk') <= Used(disk')
        BY <1>0 DEF Stays
      <3> QED BY <2>2, <3>1 DEF ChainInv
    <2> QED BY <2>1, <2>2 DEF Stays
  <1>3. RelyOnPresentKeys'
    BY DEF StoreInv, RelyOnPresentKeys, Stays
  <1>4. KeysTracked'
    BY DEF StoreInv, KeysTracked, Stays
  <1> QED BY <1>1, <1>2, <1>3, <1>4 DEF StoreInv, KeysMade

\* A commit keeps it, if what it stops naming is not owed and what it observed is there.
LEMMA AdvanceStore ==
    ASSUME TypeOK, StoreInv, NEW n, Advances(n), NEW lost, NEW missed, Moves(disk, n, lost, missed),
           lost \cap Owed = {}, UNCHANGED <<present, made, late>>,
           n.pending # None /\ n.pending.key # 0 =>
               \/ n.pending = disk.pending
               \/ /\ \A r \in survivors : n.pending.gen <= Used(r)
                  /\ SlotOf(n.pending) \in present /\ made[SlotOf(n.pending)] = n.pending.key
    PROVE  StoreInv'
  <1>0. /\ disk \in survivors /\ \A r \in survivors : Used(r) \in Nat /\ r \in Records
        /\ n \in Records /\ Used(n) \in Nat /\ disk \in Records
        /\ Owed \subseteq Slot
    BY DiskFacts, RecordFields DEF StoreInv, Moves, TypeOK, Owed
  <1>1. \A r \in survivors' : r = n \/ r \in survivors
    BY DEF Advances
  <1>2. RecordsInv'
    BY <1>1 DEF StoreInv, RecordsInv, Moves
  <1>3. ChainInv'
    <2>1. \A r \in survivors : Used(r) <= Used(n)
      BY <1>0 DEF StoreInv, ChainInv, Moves
    <2>2. Used(n) <= Used(n)
      BY <1>0
    <2>3. ASSUME NEW r \in survivors, n.pending # None,
                 n.pending.gen <= Used(r) \/ n.pending.key # 0
          PROVE  r.pending # None /\ SlotOf(r.pending) = SlotOf(n.pending)
      <3>1. n.pending \in PendingOps /\ n.pending.gen \in Nat
        BY <1>0, <2>3, RecordFields DEF PendingOps, Gen
      <3>2. disk.pending # None /\ SlotOf(n.pending) = SlotOf(disk.pending)
        <4>1. CASE n.pending.gen > Used(disk) /\ n.pending.key = 0
          BY <1>0, <2>3, <3>1, <4>1 DEF StoreInv, ChainInv
        <4> QED BY <2>3, <4>1 DEF Moves, PendingMoves
      <3>3. disk.pending.gen = n.pending.gen
        BY <3>2 DEF SlotOf
      <3>4. disk.pending.gen <= Used(r) \/ disk.pending.key # 0
        BY <2>3, <3>3
      <3> QED BY <3>2, <3>4 DEF StoreInv, ChainInv
    <2> QED BY <1>1, <2>1, <2>2, <2>3 DEF ChainInv, Advances
  <1>4. RelyOnPresentKeys'
    <2>1. Relies(n)
      <3>0. Relies(disk)
        BY <1>0, ReliesForm DEF StoreInv
      <3>1. \A i \in DOMAIN n.live : SlotOf(n.live[i]) \in present
                                      /\ made[SlotOf(n.live[i])] = n.live[i].key
        BY <3>0 DEF Relies, Moves, LiveMoves
      <3>2. n.pending # None /\ n.pending.key # 0 =>
                SlotOf(n.pending) \in present /\ made[SlotOf(n.pending)] = n.pending.key
        BY <3>0 DEF Relies
      <3> QED BY <3>1, <3>2 DEF Relies
    <2>2. \A r \in survivors' : Relies(r)
      BY <1>1, <2>1, ReliesForm DEF StoreInv
    <2> QED BY <2>2 DEF RelyOnPresentKeys, Relied, Relies, Range
  <1>5. KeysTracked'
    <2>1. \A s \in Owed : Names(n, s)
      BY <1>0, TrackedForm DEF StoreInv, Moves
    <2>2. \A s \in Owed : \A r \in survivors' : Names(r, s)
      BY <1>1, <2>1, TrackedForm DEF StoreInv
    <2> QED BY <2>2, TrackedNames DEF KeysTracked, Owed
  <1> QED BY <1>2, <1>3, <1>4, <1>5 DEF StoreInv, KeysMade

-----------------------------------------------------------------------------
(* What it means for the actors and the answers.                            *)

\* Actors that are busy are not idle.
LEMMA ActorFacts ==
    ASSUME TypeOK
    PROVE  /\ \A w \in Worker : worker[w].pc = "idle" <=> worker[w] = NoActor
           /\ \A w \in Worker : worker[w] # NoActor =>
                  worker[w] \in [pc : {"token", "made"}, op : PendingOps, key : 0..MaxKeys, fresh : BOOLEAN]
           /\ gc.pc = "idle" <=> gc = NoActor
           /\ signer.pc = "idle" <=> signer = NoActor
  <1>a. NoActor.pc = "idle"
    BY DEF NoActor
  <1>b. /\ \A x \in [pc : {"token", "made"}, op : PendingOps, key : 0..MaxKeys, fresh : BOOLEAN] :
               x.pc # "idle"
        /\ \A x \in [pc : {"tick", "inspected", "conflict", "stable", "destroyed"},
                     slot : Slot \cup {None}, key : 0..MaxKeys,
                     st : {"", "done", "pending", "quarantine"}, seen : SUBSET Slot,
                     tried : SUBSET Slot] : x.pc # "idle"
        /\ \A x \in [pc : {"capability", "signing"}, epoch : 1..MaxEpoch, g : Generations, rev : Nat] :
               x.pc # "idle"
    OBVIOUS
  <1>2. \A w \in Worker : worker[w] # NoActor =>
            worker[w] \in [pc : {"token", "made"}, op : PendingOps, key : 0..MaxKeys, fresh : BOOLEAN]
    BY DEF TypeOK
  <1>1. \A w \in Worker : worker[w].pc = "idle" <=> worker[w] = NoActor
    BY <1>2, <1>a, <1>b
  <1>3. gc.pc = "idle" <=> gc = NoActor
    BY <1>a, <1>b, Zenon DEF TypeOK
  <1>4. signer.pc = "idle" <=> signer = NoActor
    BY <1>a, <1>b, Zenon DEF TypeOK
  <1> QED BY <1>1, <1>2, <1>3, <1>4

\* Workers keep their place or end.
LEMMA WorkerStay ==
    ASSUME WorkerInv, Stays, disk' = disk, UNCHANGED <<present, made>>,
           \A w \in Worker : worker'[w] \in {worker[w], NoActor}
    PROVE  WorkerInv'
  BY DEF WorkerInv, Stays

\* A commit makes the workers' tokens stale; one worker may get the operation of n, if no
\* crash undoes it.
WorkerMoves(n) ==
    \A w \in Worker :
        \/ worker'[w] = NoActor
        \/ /\ worker[w] # NoActor /\ worker'[w] # NoActor /\ worker'[w].op = worker[w].op
           /\ worker'[w].pc = "token" /\ worker'[w].fresh = FALSE
        \/ /\ survivors' = {n} /\ n.pending # None /\ n.pending.phase = "intent"
           /\ worker'[w] = Token(n.pending)

\* After a commit the tokens are stale, and a new one is for an operation no crash undoes.
LEMMA WorkerAdvance ==
    ASSUME TypeOK, StoreInv, WorkerInv, NEW n, Advances(n), NEW lost, NEW missed,
           Moves(disk, n, lost, missed), WorkerMoves(n)
    PROVE  WorkerInv'
  <1>0. /\ disk \in survivors /\ \A r \in survivors : Used(r) \in Nat
        /\ n \in Records /\ Used(n) \in Nat /\ Used(disk) <= Used(n)
    BY DiskFacts, RecordFields DEF StoreInv, Moves
  <1> SUFFICES ASSUME NEW w \in Worker, worker'[w] # NoActor
               PROVE  /\ \A r \in survivors' : worker'[w].op.gen <= Used(r)
                      /\ worker'[w].fresh => disk' = n /\ n.pending = worker'[w].op
                                             /\ worker'[w].op.phase = "intent"
                      /\ worker'[w].pc # "made"
    BY DEF WorkerInv, Advances
  <1>1. CASE /\ worker[w] # NoActor /\ worker'[w].op = worker[w].op
             /\ worker'[w].pc = "token" /\ worker'[w].fresh = FALSE
    <2>1. worker[w].op.gen <= Used(disk) /\ worker[w].op.gen \in Nat
      BY <1>0, <1>1, ActorFacts DEF WorkerInv, PendingOps, Gen
    <2>2. worker[w].op.gen <= Used(n)
      BY <1>0, <2>1
    <2>3. \A r \in survivors' : r = n \/ r \in survivors
      BY DEF Advances
    <2> QED BY <1>1, <2>2, <2>3 DEF WorkerInv
  <1>2. CASE /\ survivors' = {n} /\ n.pending # None /\ n.pending.phase = "intent"
             /\ worker'[w] = Token(n.pending)
    <2>1. worker'[w].op = n.pending /\ worker'[w].pc = "token"
      BY <1>2 DEF Token
    <2>2. n.pending.gen <= Used(n)
      BY <1>0, <1>2 DEF Moves, RecordOK, Below, Used
    <2> QED BY <1>2, <2>1, <2>2 DEF Advances
  <1> QED BY <1>1, <1>2 DEF WorkerMoves

\* A slot that is past stays past.
LEMMA PastMoves ==
    ASSUME NEW r \in Records, RecordOK(r), NEW n, NEW lost, NEW missed, Moves(r, n, lost, missed),
           NEW s \in Slot, Past(r, s)
    PROVE  Past(n, s)
  <1>0. Used(r) \in Nat /\ Used(n) \in Nat /\ s[1] \in Nat /\ Used(r) <= Used(n)
    BY RecordFields DEF Moves, Slot, Gen
  <1>1. s[1] <= Used(n)
    BY <1>0 DEF Past
  <1>2. ASSUME n.pending # None PROVE SlotOf(n.pending) # s
    <2>1. CASE r.pending # None /\ SlotOf(n.pending) = SlotOf(r.pending)
      BY <2>1 DEF Past
    <2>2. CASE n.pending.gen > Used(r)
      <3>1. SlotOf(n.pending)[1] = n.pending.gen
        BY DEF SlotOf
      <3>2. n.pending.gen \in Nat
        BY <1>2, RecordFields DEF Moves, PendingOps, Gen
      <3> QED BY <1>0, <2>2, <3>1, <3>2 DEF Past
    <2> QED BY <1>2, <2>1, <2>2 DEF Moves, PendingMoves
  <1> QED BY <1>1, <1>2 DEF Past

\* The collector keeps its place.
LEMMA CollectorStay ==
    ASSUME CollectorInv, Stays, disk' = disk, gc' = gc, Owed' \subseteq Owed
    PROVE  CollectorInv'
  BY DEF CollectorInv, Stays, Past

\* A commit of somebody else leaves what the collector found out true.
LEMMA CollectorAdvance ==
    ASSUME TypeOK, StoreInv, CollectorInv, NEW n, Advances(n), NEW lost, Moves(disk, n, lost, {}),
           gc' = gc, Owed' \subseteq Owed
    PROVE  CollectorInv'
  <1>0. disk \in survivors /\ disk \in Records /\ RecordOK(disk)
    BY DiskFacts DEF StoreInv
  <1>1. \A r \in survivors' : r = n \/ r \in survivors
    BY DEF Advances
  <1>2. gc.pc \in {"inspected", "conflict"} => gc.slot \in gc.seen /\ Past(n, gc.slot)
    BY <1>0, PastMoves DEF CollectorInv
  <1>3. gc.pc = "inspected" /\ gc.key = 0 =>
            \A i \in DOMAIN n.gc :
                SlotOf(n.gc[i]) = gc.slot /\ n.gc[i].st = "unconfirmed" => gc.slot \notin Owed'
    BY DEF CollectorInv, Moves
  <1>4. gc.pc \in {"stable", "destroyed"} =>
            Past(n, gc.slot) /\ \A i \in DOMAIN n.live : SlotOf(n.live[i]) # gc.slot
    <2> SUFFICES ASSUME gc.pc \in {"stable", "destroyed"}
                 PROVE  Past(n, gc.slot) /\ \A i \in DOMAIN n.live : SlotOf(n.live[i]) # gc.slot
      OBVIOUS
    <2>1. Past(disk, gc.slot) /\ gc.slot \in Slot /\ \A i \in DOMAIN disk.live : SlotOf(disk.live[i]) # gc.slot
      BY <1>0 DEF CollectorInv
    <2>2. \A i \in DOMAIN n.live : SlotOf(n.live[i]) # gc.slot
      BY <2>1 DEF Moves, LiveMoves, Past
    <2> QED BY <1>0, <2>1, <2>2, PastMoves
  <1> QED BY <1>1, <1>2, <1>3, <1>4 DEF CollectorInv, Advances, Past

\* What the collector missed.
LEMMA LagStay ==
    ASSUME LagInv, survivors' \subseteq survivors, gc' = gc, lagging' \subseteq lagging,
           Owed' \subseteq Owed
    PROVE  LagInv'
  BY DEF LagInv

\* A commit that finds nothing absent adds nothing that was missed.
LEMMA LagAdvance ==
    ASSUME LagInv, disk \in survivors, NEW n, Advances(n), NEW lost, Moves(disk, n, lost, {}),
           gc' = gc, lagging' \subseteq lagging, Owed' \subseteq Owed
    PROVE  LagInv'
  <1>1. \A r \in survivors' : r = n \/ r \in survivors
    BY DEF Advances
  <1>2. \A i \in DOMAIN n.gc : n.gc[i].st = "unconfirmed" => \E j \in DOMAIN disk.gc : n.gc[i] = disk.gc[j]
    BY DEF Moves
  <1> QED BY <1>1, <1>2 DEF LagInv

\* The generations that were live.
LEMMA BoundStay ==
    ASSUME BoundInv, OneKeyPerGeneration, survivors' \subseteq survivors,
           UNCHANGED <<present, made, bound>>
    PROVE  BoundInv' /\ OneKeyPerGeneration'
  BY DEF BoundInv, OneKeyPerGeneration

\* A commit that makes nothing live uses up no generation that was live.
LEMMA BoundAdvance ==
    ASSUME TypeOK, StoreInv, BoundInv, OneKeyPerGeneration, NEW n, Advances(n), NEW lost, NEW missed,
           Moves(disk, n, lost, missed), UNCHANGED <<present, made, bound>>
    PROVE  BoundInv' /\ OneKeyPerGeneration'
  <1>0. /\ disk \in survivors /\ disk \in Records /\ Used(disk) \in Nat
        /\ n \in Records /\ Used(n) \in Nat /\ Used(disk) <= Used(n)
        /\ \A x \in bound : x[1] \in Nat
    <2>1. bound \subseteq Gen \X Slot \X (1..MaxKeys)
      BY DEF TypeOK
    <2>2. \A x \in bound : x[1] \in Nat
      BY <2>1 DEF Gen
    <2>3. disk \in survivors /\ disk \in Records /\ Used(disk) \in Nat
      BY DiskFacts DEF StoreInv
    <2>4. n \in Records /\ Used(n) \in Nat /\ Used(disk) <= Used(n)
      BY RecordFields DEF Moves
    <2> QED BY <2>2, <2>3, <2>4
  <1>1. \A r \in survivors' : r = n \/ r \in survivors
    BY DEF Advances
  <1>2. ASSUME NEW x \in bound
        PROVE  /\ x[1] <= Used(n)
               /\ n.pending # None /\ n.pending.gen = x[1] =>
                      SlotOf(n.pending) = x[2] /\ x[2] \in present /\ made[x[2]] = x[3]
    <2>1. x[1] <= Used(disk)
      BY <1>0 DEF BoundInv
    <2>2. x[1] <= Used(n)
      BY <1>0, <2>1
    <2>3. ASSUME n.pending # None, n.pending.gen = x[1]
          PROVE  SlotOf(n.pending) = x[2] /\ x[2] \in present /\ made[x[2]] = x[3]
      <3>1. disk.pending # None /\ SlotOf(n.pending) = SlotOf(disk.pending)
        BY <1>0, <2>1, <2>3 DEF Moves, PendingMoves
      <3>2. disk.pending.gen = x[1]
        BY <2>3, <3>1 DEF SlotOf
      <3> QED BY <1>0, <3>1, <3>2 DEF BoundInv
    <2> QED BY <2>2, <2>3
  <1> QED BY <1>1, <1>2 DEF BoundInv, OneKeyPerGeneration

\* The answers.
LEMMA AnswerStay ==
    ASSUME AnswerInv, survivors' \subseteq survivors, UNCHANGED told
    PROVE  AnswerInv'
  BY DEF AnswerInv

\* A commit keeps what was answered before.
LEMMA AnswerAdvance ==
    ASSUME TypeOK, StoreInv, AnswerInv, NEW n, Advances(n), NEW lost, NEW missed,
           Moves(disk, n, lost, missed), UNCHANGED told
    PROVE  AnswerInv'
  <1>0. /\ disk \in survivors /\ disk \in Records /\ Used(disk) \in Nat
        /\ n \in Records /\ Used(n) \in Nat /\ Used(disk) <= Used(n)
        /\ told.epoch \in Nat /\ told.revoked \in Nat /\ \A g \in told.activated : g \in Nat
        /\ disk.epoch \in Nat /\ n.epoch \in Nat /\ disk.epoch <= n.epoch
    <2>1. told \in [revoked : 0..MaxEpoch, epoch : 0..MaxEpoch, activated : SUBSET Gen]
      BY DEF TypeOK
    <2>2. told.epoch \in Nat /\ told.revoked \in Nat /\ \A g \in told.activated : g \in Nat
      BY <2>1, SignerAssumption DEF Gen
    <2>3. disk \in survivors /\ disk \in Records /\ Used(disk) \in Nat /\ disk.epoch \in Nat
      BY DiskFacts, RecordFields DEF StoreInv
    <2>4. /\ n \in Records /\ Used(n) \in Nat /\ Used(disk) <= Used(n) /\ n.epoch \in Nat
          /\ disk.epoch <= n.epoch
      BY RecordFields DEF Moves, EpochMoves
    <2> QED BY <2>2, <2>3, <2>4
  <1>1. \A r \in survivors' : r = n \/ r \in survivors
    BY DEF Advances
  <1>2. told.epoch <= n.epoch /\ told.revoked <= n.epoch
    BY <1>0 DEF AnswerInv
  <1>3. n.epoch = told.revoked => n.auth = "revoked" /\ n.pending = None
    BY <1>0 DEF AnswerInv, Moves, EpochMoves
  <1>4. ASSUME NEW g \in told.activated
        PROVE  g <= Used(n) /\ (n.pending # None => n.pending.gen # g)
    <2>1. g <= Used(disk) /\ (disk.pending # None => disk.pending.gen # g)
      BY <1>0 DEF AnswerInv
    <2>2. ASSUME n.pending # None, n.pending.gen = g PROVE FALSE
      <3>1. disk.pending # None /\ SlotOf(n.pending) = SlotOf(disk.pending)
        BY <1>0, <2>1, <2>2 DEF Moves, PendingMoves
      <3> QED BY <2>1, <2>2, <3>1 DEF SlotOf
    <2> QED BY <1>0, <2>1, <2>2
  <1> QED BY <1>1, <1>2, <1>3, <1>4 DEF AnswerInv

\* The signer, in a step that leaves it and the roster alone.
LEMMA SignerStay ==
    ASSUME SignerInv, UNCHANGED <<signer, roster>>,
           told'.revoked = told.revoked \/ signer.pc # "signing"
    PROVE  SignerInv'
  BY DEF SignerInv

-----------------------------------------------------------------------------
(* Steps that commit a record.                                              *)

Tokens == [pc : {"token", "made"}, op : PendingOps, key : 0..MaxKeys, fresh : BOOLEAN]

Collectors == [pc : {"tick", "inspected", "conflict", "stable", "destroyed"},
               slot : Slot \cup {None}, key : 0..MaxKeys,
               st : {"", "done", "pending", "quarantine"}, seen : SUBSET Slot, tried : SUBSET Slot]

\* The type invariant, in parts.
RecordTypes == disk \in survivors /\ \A r \in survivors : r \in Records
BackendTypes == /\ present \subseteq Slot /\ made \in [Slot -> 0..MaxKeys] /\ lagging \subseteq Slot
                /\ late \subseteq Slot
ActTypes == act \in {NoActor} \cup [pc : {"valid"}, op : PendingOps, na : Delegation, rev : Nat]
SignerTypes == signer \in {NoActor} \cup [pc : {"capability", "signing"}, epoch : 1..MaxEpoch,
                                           g : Generations, rev : Nat]
WorldTypes == roster \in [rev : Nat, active : BOOLEAN] /\ now \in Nat /\ left \in Budget
ToldTypes == told \in [revoked : 0..MaxEpoch, epoch : 0..MaxEpoch, activated : SUBSET Gen]
BoundTypes == bound \subseteq Gen \X Slot \X (1..MaxKeys)

\* TypeOK is the conjunction of its parts.
LEMMA TypeParts ==
    TypeOK <=> /\ RecordTypes /\ BackendTypes /\ worker \in [Worker -> {NoActor} \cup Tokens]
               /\ ActTypes /\ gc \in {NoActor} \cup Collectors /\ SignerTypes /\ WorldTypes
               /\ ToldTypes /\ BoundTypes
  BY DEF TypeOK, RecordTypes, BackendTypes, ActTypes, SignerTypes, WorldTypes, ToldTypes, BoundTypes,
         Tokens, Collectors

\* The same in the next state.
LEMMA TypePartsNext ==
    TypeOK' <=> /\ RecordTypes' /\ BackendTypes' /\ worker' \in [Worker -> {NoActor} \cup Tokens]
                /\ ActTypes' /\ gc' \in {NoActor} \cup Collectors /\ SignerTypes' /\ WorldTypes'
                /\ ToldTypes' /\ BoundTypes'
  BY DEF TypeOK, RecordTypes, BackendTypes, ActTypes, SignerTypes, WorldTypes, ToldTypes, BoundTypes,
         Tokens, Collectors

\* Rare events are counted down.
LEMMA LeftFacts ==
    ASSUME left \in Budget
    PROVE  /\ left.faults > 0 => [left EXCEPT !.faults = @ - 1] \in Budget
           /\ left.crashes > 0 => [left EXCEPT !.crashes = @ - 1] \in Budget
           /\ left.roster > 0 => [left EXCEPT !.roster = @ - 1] \in Budget
           /\ left.ticks > 0 => [left EXCEPT !.ticks = @ - 1] \in Budget
           /\ left.loads > 0 => [left EXCEPT !.loads = @ - 1] \in Budget
  BY DEF Budget

\* A commit of n that has answered nothing else than told and bound say.
Commits(n) ==
    /\ Exclusive /\ Advances(n) /\ WorkerMoves(n) /\ worker' \in [Worker -> {NoActor} \cup Tokens]
    /\ left' \in Budget

\* A commit that left no trace, or wrote the same record again.
Skips ==
    /\ Exclusive /\ Stays /\ disk' = disk /\ left' \in Budget
    /\ worker' \in [Worker -> {NoActor} \cup Tokens] /\ WorkerInv'

\* Stale ends the workers that made a key and makes the other tokens stale.
LEMMA StaleMoves ==
    ASSUME TypeOK, NEW n, NEW ws, \A w \in Worker : ws[w] \in {worker[w], NoActor}, worker' = Stale(ws)
    PROVE  WorkerMoves(n) /\ worker' \in [Worker -> {NoActor} \cup Tokens]
  <1>0. \A w \in Worker : worker[w] # NoActor => worker[w] \in Tokens
    BY ActorFacts DEF Tokens
  <1>1. ASSUME NEW w \in Worker
        PROVE  \/ worker'[w] = NoActor
               \/ /\ worker[w] # NoActor /\ worker'[w] # NoActor /\ worker'[w].op = worker[w].op
                  /\ worker'[w].pc = "token" /\ worker'[w].fresh = FALSE /\ worker'[w] \in Tokens
    <2>1. CASE ws[w].pc = "token"
      <3>1. ws[w] = worker[w] /\ worker[w] \in Tokens
        BY <1>0, <2>1 DEF NoActor
      <3>2. worker'[w] = [worker[w] EXCEPT !.fresh = FALSE]
        BY <2>1, <3>1 DEF Stale
      <3>3. /\ worker'[w].op = worker[w].op /\ worker'[w].pc = "token" /\ worker'[w].fresh = FALSE
            /\ worker'[w] \in Tokens
        BY <2>1, <3>1, <3>2 DEF Tokens
      <3> QED BY <2>1, <3>1, <3>3 DEF NoActor
    <2>2. CASE ws[w].pc # "token"
      BY <2>2 DEF Stale
    <2> QED BY <2>1, <2>2
  <1>2. worker' = [w \in Worker |-> worker'[w]]
    BY DEF Stale
  <1>3. worker' \in [Worker -> {NoActor} \cup Tokens]
    BY <1>1, <1>2
  <1> QED BY <1>1, <1>3 DEF WorkerMoves

\* A worker that is given the operation of a record that was committed.
LEMMA GivenMoves ==
    ASSUME TypeOK, NEW n \in Records, disk' = n, survivors' = {n}, NEW w \in Worker,
           Given(w, Stale(worker))
    PROVE  WorkerMoves(n) /\ worker' \in [Worker -> {NoActor} \cup Tokens]
  <1> DEFINE st == Stale(worker)
  <1>0. \A v \in Worker :
            \/ st[v] = NoActor
            \/ /\ worker[v] # NoActor /\ st[v] # NoActor /\ st[v].op = worker[v].op
               /\ st[v].pc = "token" /\ st[v].fresh = FALSE /\ st[v] \in Tokens
    <2>0. \A v \in Worker : worker[v] # NoActor => worker[v] \in Tokens
      BY ActorFacts DEF Tokens
    <2> SUFFICES ASSUME NEW v \in Worker, worker[v].pc = "token"
                 PROVE  /\ worker[v] # NoActor /\ st[v] # NoActor /\ st[v].op = worker[v].op
                        /\ st[v].pc = "token" /\ st[v].fresh = FALSE /\ st[v] \in Tokens
      BY DEF Stale
    <2>1. worker[v] \in Tokens /\ worker[v] # NoActor
      BY <2>0 DEF NoActor
    <2>2. st[v] = [worker[v] EXCEPT !.fresh = FALSE]
      BY DEF Stale
    <2>3. st[v].op = worker[v].op /\ st[v].pc = "token" /\ st[v].fresh = FALSE /\ st[v] \in Tokens
      BY <2>1, <2>2 DEF Tokens
    <2> QED BY <2>1, <2>3 DEF NoActor
  <1>1. st = [v \in Worker |-> st[v]]
    BY DEF Stale
  <1> HIDE DEF st
  <1>2. CASE n.pending # None /\ n.pending.phase = "intent"
    <2>1. worker' = [st EXCEPT ![w] = Token(n.pending)]
      BY <1>2 DEF Given, st
    <2>2. Token(n.pending) \in Tokens
      BY <1>2, RecordFields, SignerAssumption DEF Token, Tokens
    <2>3. /\ worker'[w] = Token(n.pending)
          /\ \A v \in Worker : v # w => worker'[v] = st[v]
      BY <1>1, <2>1
    <2>4. worker' \in [Worker -> {NoActor} \cup Tokens]
      BY <1>0, <1>1, <2>1, <2>2
    <2> QED BY <1>0, <1>2, <2>3, <2>4 DEF WorkerMoves
  <1>3. CASE ~(n.pending # None /\ n.pending.phase = "intent")
    <2>1. worker' = st
      BY <1>3 DEF Given, st
    <2> QED BY <1>0, <1>1, <2>1 DEF WorkerMoves
  <1> QED BY <1>2, <1>3

\* ControlInv with the parts about the store put together.
LEMMA StoreForm ==
    ControlInv <=> /\ TypeOK /\ StoreInv /\ WorkerInv /\ CollectorInv /\ LagInv /\ BoundInv
                   /\ AnswerInv /\ SignerInv /\ OneKeyPerGeneration
  BY DEF ControlInv, StoreInv

\* The same in the next state.
LEMMA StoreFormNext ==
    ControlInv' <=> /\ TypeOK' /\ StoreInv' /\ WorkerInv' /\ CollectorInv' /\ LagInv' /\ BoundInv'
                    /\ AnswerInv' /\ SignerInv' /\ OneKeyPerGeneration'
  BY DEF ControlInv, StoreInv

\* A commit of a client, a worker or the activation keeps the invariant, if what it
\* answered and bound does.
LEMMA CommitStep ==
    ASSUME ControlInv, NEW n, Moves(disk, n, {}, {}), Commits(n),
           n.pending # None /\ n.pending.key # 0 =>
               \/ n.pending = disk.pending
               \/ /\ \A r \in survivors : n.pending.gen <= Used(r)
                  /\ SlotOf(n.pending) \in present /\ made[SlotOf(n.pending)] = n.pending.key,
           UNCHANGED <<backend, gc, signer, roster, now, late>>,
           ActTypes', ToldTypes', BoundTypes', AnswerInv', BoundInv', OneKeyPerGeneration'
    PROVE  ControlInv'
  <1> USE StoreForm
  <1>0. UNCHANGED <<present, made, lagging, late>> /\ Owed' = Owed /\ Advances(n) /\ Exclusive
        /\ disk \in survivors
    BY DEF backend, Owed, Commits, TypeOK
  <1>1. TypeOK'
    <2>1. RecordTypes'
      BY <1>0, TypeParts DEF RecordTypes, Advances, Moves
    <2>2. BackendTypes' /\ SignerTypes'
      BY <1>0, TypeParts DEF BackendTypes, SignerTypes
    <2>3. WorldTypes' /\ gc' \in {NoActor} \cup Collectors
      BY TypeParts DEF WorldTypes, Commits
    <2> QED BY <2>1, <2>2, <2>3, TypePartsNext DEF Commits
  <1>2. StoreInv'
    BY <1>0, AdvanceStore
  <1>3. WorkerInv'
    BY <1>0, WorkerAdvance DEF Commits
  <1>4. CollectorInv' /\ LagInv'
    BY <1>0, CollectorAdvance, LagAdvance
  <1>5. SignerInv'
    BY <1>0, SignerStay DEF Exclusive
  <1> QED BY <1>1, <1>2, <1>3, <1>4, <1>5, StoreFormNext

\* A commit that changed nothing keeps the invariant, and so does a rewrite, if what it
\* answered does.
LEMMA SkipStep ==
    ASSUME ControlInv, Skips, UNCHANGED <<backend, gc, signer, roster, now, bound, late>>,
           ActTypes', ToldTypes', AnswerInv'
    PROVE  ControlInv'
  <1> USE StoreForm
  <1>0. UNCHANGED <<present, made, lagging, late>> /\ Owed' = Owed /\ Stays /\ disk' = disk /\ Exclusive
    BY DEF backend, Owed, Skips
  <1>1. TypeOK'
    <2>1. RecordTypes'
      BY <1>0, TypeParts DEF RecordTypes, Stays
    <2>2. BackendTypes' /\ SignerTypes' /\ BoundTypes'
      BY <1>0, TypeParts DEF BackendTypes, SignerTypes, BoundTypes
    <2>3. WorldTypes' /\ gc' \in {NoActor} \cup Collectors
      BY TypeParts DEF WorldTypes, Skips
    <2> QED BY <2>1, <2>2, <2>3, TypePartsNext DEF Skips
  <1>2. StoreInv'
    BY <1>0, StayStore
  <1>3. CollectorInv' /\ LagInv'
    BY <1>0, CollectorStay, LagStay DEF Stays
  <1>4. SignerInv'
    BY <1>0, SignerStay DEF Exclusive
  <1>5. BoundInv' /\ OneKeyPerGeneration'
    BY <1>0, BoundStay DEF Stays
  <1> QED BY <1>1, <1>2, <1>3, <1>4, <1>5, StoreFormNext DEF Skips

\* The two ways a commit fails.
LEMMA FailFacts ==
    ASSUME TypeOK, WorkerInv, NEW n, NEW ws, RetryExhausted(n, ws),
           \A w \in Worker : ws[w] \in {worker[w], NoActor}, ws \in [Worker -> {NoActor} \cup Tokens],
           UNCHANGED <<present, made>>
    PROVE  Commits(n) \/ Skips
  <1>0. left' \in Budget /\ Exclusive
    BY LeftFacts, TypeParts DEF RetryExhausted, WorldTypes
  <1>1. CASE worker' = ws /\ UNCHANGED record
    <2>1. Stays /\ disk' = disk
      BY <1>1 DEF Stays, record, TypeOK
    <2>2. WorkerInv'
      BY <1>1, <2>1, WorkerStay
    <2> QED BY <1>0, <1>1, <2>1, <2>2 DEF Skips
  <1>2. CASE worker' = Stale(ws) /\ disk' = n /\ survivors' = survivors \cup {n}
    BY <1>0, <1>2, StaleMoves DEF Commits, Advances
  <1> QED BY <1>1, <1>2 DEF RetryExhausted

\* A commit that succeeds and makes the tokens stale.
LEMMA DoneFacts ==
    ASSUME TypeOK, NEW n, Committed(n), worker' = Stale(worker)
    PROVE  Commits(n) /\ survivors' = {n}
  <1>1. left' \in Budget /\ Exclusive /\ Advances(n) /\ survivors' = {n}
    BY TypeParts DEF Committed, WorldTypes, Advances
  <1>2. \A w \in Worker : worker[w] \in {worker[w], NoActor}
    OBVIOUS
  <1> QED BY <1>1, <1>2, StaleMoves DEF Commits

\* One that gives its operation to a worker.
LEMMA GivenFacts ==
    ASSUME TypeOK, NEW n \in Records, Committed(n), NEW w \in Worker, Given(w, Stale(worker))
    PROVE  Commits(n) /\ survivors' = {n}
  <1>1. left' \in Budget /\ Exclusive /\ Advances(n) /\ survivors' = {n} /\ disk' = n
    BY TypeParts DEF Committed, WorldTypes, Advances
  <1> QED BY <1>1, GivenMoves DEF Commits

\* With nothing answered and nothing bound.
LEMMA SilentStep ==
    ASSUME ControlInv, NEW n, Moves(disk, n, {}, {}), Commits(n) \/ Skips,
           n.pending # None /\ n.pending.key # 0 =>
               \/ n.pending = disk.pending
               \/ /\ \A r \in survivors : n.pending.gen <= Used(r)
                  /\ SlotOf(n.pending) \in present /\ made[SlotOf(n.pending)] = n.pending.key,
           UNCHANGED <<backend, gc, signer, roster, now, told, bound, late>>, ActTypes'
    PROVE  ControlInv'
  <1>1. ToldTypes' /\ BoundTypes' /\ UNCHANGED <<present, made>>
    BY StoreForm, TypeParts DEF ToldTypes, BoundTypes, backend
  <1>2. CASE Commits(n)
    <2>1. Advances(n)
      BY <1>2 DEF Commits
    <2>2. AnswerInv' /\ BoundInv' /\ OneKeyPerGeneration'
      BY <1>1, <2>1, AnswerAdvance, BoundAdvance, StoreForm
    <2> QED BY <1>1, <1>2, <2>2, CommitStep
  <1>3. CASE Skips
    <2>1. AnswerInv'
      BY <1>3, AnswerStay, StoreForm DEF Skips, Stays
    <2> QED BY <1>1, <1>3, <2>1, SkipStep
  <1> QED BY <1>2, <1>3

\* An intent is recorded.
LEMMA IntentStep ==
    ASSUME ControlInv, NEW w \in Worker, NEW t \in Txn, Intent(w, t)
    PROVE  ControlInv'
  <1>0. TypeOK /\ WorkerInv /\ disk \in Records /\ RecordOK(disk) /\ disk.hw < MaxGen
        /\ UNCHANGED <<backend, gc, signer, roster, now, told, bound, late, act>>
    BY StoreForm, DiskFacts DEF Intent, history, StoreInv
  <1>1. PICK kind \in {"create", "rotate"}, n \in UNION {IntentRecorded(disk, t, k) : k \in {"create", "rotate"}} :
            /\ n \in IntentRecorded(disk, t, kind)
            /\ (Committed(n) /\ Given(w, Stale(worker))) \/ RetryExhausted(n, worker)
    BY DEF Intent
  <1>2. Moves(disk, n, {}, {})
    BY <1>0, <1>1, IntentMoves
  <1>3. worker \in [Worker -> {NoActor} \cup Tokens] /\ UNCHANGED <<present, made>> /\ n \in Records
    BY <1>0, <1>2, TypeParts DEF backend, Moves
  <1>4. Commits(n) \/ Skips
    BY <1>0, <1>1, <1>3, FailFacts, GivenFacts
  <1>5. n.pending # None => n.pending.key = 0
    <2>1. disk.pending = None
      BY <1>1 DEF IntentRecorded
    <2> QED BY <1>2, <2>1 DEF Moves, PendingMoves
  <1>6. ActTypes'
    BY <1>0, TypeParts DEF ActTypes
  <1> QED BY <1>0, <1>2, <1>4, <1>5, <1>6, SilentStep

\* A reactivation is recorded, and answered when it is committed.
LEMMA ReactivateStep ==
    ASSUME ControlInv, NEW w \in Worker, NEW t \in Txn, NEW next \in Txn, Reactivate(w, t, next)
    PROVE  ControlInv'
  <1>0. TypeOK /\ WorkerInv /\ disk \in Records /\ RecordOK(disk) /\ disk.hw < MaxGen
        /\ disk.epoch < MaxEpoch
        /\ UNCHANGED <<backend, gc, signer, roster, now, bound, late, act>>
    BY StoreForm, DiskFacts DEF Reactivate, StoreInv
  <1>1. PICK n \in ReactivateFromRevoked(disk, t, next) :
            \/ /\ Committed(n) /\ Given(w, Stale(worker))
               /\ told' = [told EXCEPT !.epoch = n.epoch]
            \/ RetryExhausted(n, worker) /\ UNCHANGED told
    BY DEF Reactivate
  <1>2. Moves(disk, n, {}, {}) /\ n.epoch = disk.epoch + 1
    BY <1>0, ReactivateMoves
  <1>3. /\ worker \in [Worker -> {NoActor} \cup Tokens] /\ UNCHANGED <<present, made>> /\ n \in Records
        /\ ActTypes' /\ ToldTypes /\ BoundTypes'
    BY <1>0, <1>2, TypeParts DEF backend, Moves, ActTypes, BoundTypes
  <1>4. n.pending # None => n.pending.key = 0
    <2>1. disk.pending = None
      BY DEF ReactivateFromRevoked
    <2> QED BY <1>2, <2>1 DEF Moves, PendingMoves
  <1>5. CASE RetryExhausted(n, worker) /\ UNCHANGED told
    <2>1. Commits(n) \/ Skips
      BY <1>0, <1>3, <1>5, FailFacts
    <2> QED BY <1>0, <1>2, <1>3, <1>4, <1>5, <2>1, SilentStep
  <1>6. CASE /\ Committed(n) /\ Given(w, Stale(worker))
             /\ told' = [told EXCEPT !.epoch = n.epoch]
    <2>1. Commits(n) /\ survivors' = {n} /\ Advances(n)
      BY <1>0, <1>3, <1>6, GivenFacts DEF Commits
    <2>2. ToldTypes' /\ told'.epoch = n.epoch /\ told'.revoked = told.revoked
          /\ told'.activated = told.activated
      <3>1. n.epoch \in 0..MaxEpoch
        BY <1>3, RecordFields
      <3> QED BY <1>3, <1>6, <3>1 DEF ToldTypes
    <2>3. BoundInv' /\ OneKeyPerGeneration'
      BY <1>0, <1>2, <1>3, <2>1, BoundAdvance, StoreForm
    <2>4. AnswerInv'
      <3>0. /\ disk \in survivors /\ Used(disk) \in Nat /\ Used(n) \in Nat /\ Used(disk) <= Used(n)
            /\ disk.epoch \in Nat /\ told.revoked \in Nat /\ \A g \in told.activated : g \in Nat
        <4>1. told.revoked \in Nat /\ \A g \in told.activated : g \in Nat
          BY <1>3, SignerAssumption DEF ToldTypes, Gen
        <4>2. disk \in survivors /\ Used(disk) \in Nat /\ disk.epoch \in Nat
          BY <1>0, RecordFields DEF TypeOK
        <4>3. Used(n) \in Nat /\ Used(disk) <= Used(n)
          BY <1>2, <1>3, RecordFields DEF Moves
        <4> QED BY <4>1, <4>2, <4>3
      <3>1. n.epoch <= n.epoch /\ told.revoked < n.epoch
        BY <1>2, <3>0, StoreForm DEF AnswerInv
      <3>2. ASSUME NEW g \in told.activated
            PROVE  g <= Used(n) /\ (n.pending # None => n.pending.gen # g)
        <4>1. g <= Used(disk) /\ (disk.pending # None => disk.pending.gen # g)
          BY <3>0, StoreForm DEF AnswerInv
        <4>2. ASSUME n.pending # None, n.pending.gen = g PROVE FALSE
          <5>1. disk.pending # None /\ SlotOf(n.pending) = SlotOf(disk.pending)
            BY <1>2, <3>0, <4>1, <4>2 DEF Moves, PendingMoves
          <5> QED BY <4>1, <4>2, <5>1 DEF SlotOf
        <4> QED BY <3>0, <4>1, <4>2
      <3>3. n.epoch # told.revoked /\ told.revoked <= n.epoch
        BY <1>2, <3>0, <3>1
      <3> QED BY <2>1, <2>2, <3>1, <3>2, <3>3 DEF AnswerInv
    <2> QED BY <1>0, <1>2, <1>3, <1>4, <2>1, <2>2, <2>3, <2>4, CommitStep
  <1> QED BY <1>1, <1>5, <1>6

\* A rewrite of the record.
LEMMA StabilizedFacts ==
    ASSUME TypeOK, Stabilized
    PROVE  Exclusive /\ Stays /\ disk' = disk /\ survivors' = {disk} /\ left' \in Budget
  BY TypeParts DEF Stabilized, Committed, Stays, WorldTypes, RecordTypes

\* The record is written again, and its operation given to a worker.
LEMMA RecoverStep ==
    ASSUME ControlInv, NEW w \in Worker, Recover(w)
    PROVE  ControlInv'
  <1>0. /\ TypeOK /\ WorkerInv /\ worker[w] = NoActor /\ Exclusive /\ Stays /\ disk' = disk
        /\ survivors' = {disk} /\ left' \in Budget
        /\ UNCHANGED <<backend, gc, signer, roster, now, told, bound, late, act>>
        /\ worker \in [Worker -> {NoActor} \cup Tokens] /\ UNCHANGED <<present, made>>
    BY StoreForm, StabilizedFacts, ActorFacts, TypeParts DEF Recover, history, backend
  <1>1. disk \in Records /\ RecordOK(disk)
    BY StoreForm, DiskFacts DEF StoreInv
  <1>2. AnswerInv' /\ ToldTypes' /\ ActTypes'
    BY <1>0, AnswerStay, StoreForm, TypeParts DEF Stays, ToldTypes, ActTypes
  <1>3. CASE disk.pending # None /\ disk.pending.phase = "intent"
    <2>1. worker' = [worker EXCEPT ![w] = Token(disk.pending)]
      BY <1>0, <1>3 DEF Recover, Given
    <2>2. Token(disk.pending) \in Tokens
      BY <1>1, <1>3, RecordFields, SignerAssumption DEF Token, Tokens
    <2>3. worker' \in [Worker -> {NoActor} \cup Tokens]
      BY <1>0, <2>1, <2>2
    <2>4. worker'[w] = Token(disk.pending) /\ \A v \in Worker : v # w => worker'[v] = worker[v]
      BY <1>0, <2>1
    <2>5. disk.pending.gen <= Used(disk)
      BY <1>1, <1>3, RecordFields DEF RecordOK, Below, Used
    <2>6. WorkerInv'
      <3>1. /\ \A r \in survivors' : Token(disk.pending).op.gen <= Used(r)
            /\ disk.pending = Token(disk.pending).op /\ Token(disk.pending).op.phase = "intent"
            /\ Token(disk.pending).pc # "made"
        BY <1>0, <1>3, <2>5 DEF Token
      <3> QED BY <1>0, <2>4, <3>1 DEF WorkerInv, Stays
    <2>7. Skips
      BY <1>0, <2>3, <2>6 DEF Skips
    <2> QED BY <1>0, <1>2, <2>7, SkipStep
  <1>4. CASE ~(disk.pending # None /\ disk.pending.phase = "intent")
    <2>1. worker' = worker
      BY <1>0, <1>4 DEF Recover, Given
    <2>2. WorkerInv'
      BY <1>0, <2>1, WorkerStay
    <2>3. Skips
      BY <1>0, <2>1, <2>2 DEF Skips
    <2> QED BY <1>0, <1>2, <2>3, SkipStep
  <1> QED BY <1>3, <1>4

\* A revocation is recorded, and answered when it is committed.
LEMMA RevokeStep ==
    ASSUME ControlInv, NEW t \in Txn, Revoke(t)
    PROVE  ControlInv'
  <1>0. TypeOK /\ WorkerInv /\ disk \in Records /\ RecordOK(disk) /\ disk.epoch < MaxEpoch
        /\ UNCHANGED <<backend, gc, signer, roster, now, bound, late, act>>
    BY StoreForm, DiskFacts DEF Revoke, StoreInv
  <1>1. PICK n \in RevokeUrgent(disk, t) :
            \/ /\ Committed(n) /\ worker' = Stale(worker)
               /\ told' = [told EXCEPT !.revoked = n.epoch]
            \/ RetryExhausted(n, worker) /\ UNCHANGED told
    BY DEF Revoke
  <1>2. Moves(disk, n, {}, {}) /\ n.epoch = disk.epoch + 1 /\ n.auth = "revoked" /\ n.pending = None
    BY <1>0, RevokeMoves
  <1>3. /\ worker \in [Worker -> {NoActor} \cup Tokens] /\ UNCHANGED <<present, made>> /\ n \in Records
        /\ ActTypes' /\ ToldTypes /\ BoundTypes'
    BY <1>0, <1>2, TypeParts DEF backend, Moves, ActTypes, BoundTypes
  <1>5. CASE RetryExhausted(n, worker) /\ UNCHANGED told
    <2>1. Commits(n) \/ Skips
      BY <1>0, <1>3, <1>5, FailFacts
    <2> QED BY <1>0, <1>2, <1>3, <1>5, <2>1, SilentStep
  <1>6. CASE /\ Committed(n) /\ worker' = Stale(worker)
             /\ told' = [told EXCEPT !.revoked = n.epoch]
    <2>1. Commits(n) /\ survivors' = {n} /\ Advances(n)
      BY <1>0, <1>6, DoneFacts DEF Commits
    <2>2. ToldTypes' /\ told'.epoch = told.epoch /\ told'.revoked = n.epoch
          /\ told'.activated = told.activated
      <3>1. n.epoch \in 0..MaxEpoch
        BY <1>3, RecordFields
      <3> QED BY <1>3, <1>6, <3>1 DEF ToldTypes
    <2>3. BoundInv' /\ OneKeyPerGeneration'
      BY <1>0, <1>2, <1>3, <2>1, BoundAdvance, StoreForm
    <2>4. AnswerInv'
      <3>0. /\ disk \in survivors /\ Used(disk) \in Nat /\ Used(n) \in Nat /\ Used(disk) <= Used(n)
            /\ disk.epoch \in Nat /\ told.epoch \in Nat /\ \A g \in told.activated : g \in Nat
        <4>1. told.epoch \in Nat /\ \A g \in told.activated : g \in Nat
          BY <1>3, SignerAssumption DEF ToldTypes, Gen
        <4>2. disk \in survivors /\ Used(disk) \in Nat /\ disk.epoch \in Nat
          BY <1>0, RecordFields DEF TypeOK
        <4>3. Used(n) \in Nat /\ Used(disk) <= Used(n)
          BY <1>2, <1>3, RecordFields DEF Moves
        <4> QED BY <4>1, <4>2, <4>3
      <3>1. n.epoch <= n.epoch /\ told.epoch <= n.epoch
        BY <1>2, <3>0, StoreForm DEF AnswerInv
      <3>2. \A g \in told.activated : g <= Used(n)
        BY <3>0, StoreForm DEF AnswerInv
      <3> QED BY <1>2, <2>1, <2>2, <3>1, <3>2 DEF AnswerInv
    <2> QED BY <1>0, <1>2, <1>3, <2>1, <2>2, <2>3, <2>4, CommitStep
  <1> QED BY <1>1, <1>5, <1>6

\* A recorded revocation is answered after the record was written again.
LEMMA RevokeAgainStep ==
    ASSUME ControlInv, NEW t \in Txn, RevokeAgain(t)
    PROVE  ControlInv'
  <1>1. PICK x \in Terminals(disk, t) :
            /\ x.req = <<"revoke">> /\ Stabilized
            /\ told' = [told EXCEPT !.revoked = IF x.n > @ THEN x.n ELSE @]
            /\ UNCHANGED <<backend, worker, act, gc, signer, roster, now, bound, late>>
    BY DEF RevokeAgain
  <1>0. TypeOK /\ WorkerInv /\ disk \in Records /\ RecordOK(disk) /\ disk \in survivors
    BY StoreForm, DiskFacts DEF StoreInv
  <1>2. Exclusive /\ Stays /\ disk' = disk /\ survivors' = {disk} /\ left' \in Budget
    BY <1>0, <1>1, StabilizedFacts
  <1>3. PICK i \in DOMAIN disk.terminals : x = disk.terminals[i]
    BY <1>1 DEF Terminals, Range
  <1>4. /\ x.n \in Nat /\ x.n <= disk.epoch /\ disk.epoch \in Nat /\ disk.epoch <= MaxEpoch
        /\ x.n = disk.epoch => disk.auth = "revoked" /\ disk.pending = None
    BY <1>0, <1>1, <1>3, RecordFields, SignerAssumption DEF RecordOK, TerminalsOK, TerminalResults
  <1>5. ToldTypes /\ worker \in [Worker -> {NoActor} \cup Tokens] /\ UNCHANGED <<present, made>>
        /\ ActTypes'
    BY <1>0, <1>1, TypeParts DEF backend, ActTypes
  <1>6. Skips
    <2>1. WorkerInv'
      BY <1>0, <1>1, <1>2, <1>5, WorkerStay
    <2> QED BY <1>1, <1>2, <1>5, <2>1 DEF Skips
  <1>7. /\ ToldTypes' /\ told'.revoked = (IF x.n > told.revoked THEN x.n ELSE told.revoked)
        /\ told'.epoch = told.epoch /\ told'.activated = told.activated
    <2>1. x.n \in 0..MaxEpoch
      BY <1>4, SignerAssumption
    <2> QED BY <1>1, <1>5, <2>1 DEF ToldTypes
  <1>8. AnswerInv'
    <2>1. told'.revoked \in {x.n, told.revoked} /\ told.revoked \in Nat
      BY <1>5, <1>7, SignerAssumption DEF ToldTypes
    <2>2. /\ told.epoch <= disk.epoch /\ told.revoked <= disk.epoch
          /\ disk.epoch = told.revoked => disk.auth = "revoked" /\ disk.pending = None
          /\ \A g \in told.activated : g <= Used(disk) /\ (disk.pending # None => disk.pending.gen # g)
      BY <1>0, StoreForm DEF AnswerInv
    <2> QED BY <1>2, <1>4, <1>7, <2>1, <2>2 DEF AnswerInv
  <1> QED BY <1>1, <1>5, <1>6, <1>7, <1>8, SkipStep

\* A commit that answers nothing but that it is done.
LEMMA PlainStep ==
    ASSUME ControlInv, NEW results, Plain(results),
           \A n \in results : Moves(disk, n, {}, {}) /\ n.pending = disk.pending
    PROVE  ControlInv'
  <1>0. TypeOK /\ WorkerInv /\ UNCHANGED <<backend, gc, signer, roster, now, told, bound, late, act>>
    BY StoreForm DEF Plain, history
  <1>1. PICK n \in results : (Committed(n) /\ worker' = Stale(worker)) \/ RetryExhausted(n, worker)
    BY DEF Plain
  <1>2. /\ worker \in [Worker -> {NoActor} \cup Tokens] /\ UNCHANGED <<present, made>> /\ ActTypes'
    BY <1>0, TypeParts DEF backend, ActTypes
  <1>3. Commits(n) \/ Skips
    BY <1>0, <1>1, <1>2, FailFacts, DoneFacts
  <1> QED BY <1>0, <1>1, <1>2, <1>3, SilentStep

\* A generation whose delegation ended goes to the collector.
LEMMA ExpireStep ==
    ASSUME ControlInv, NEW g \in Gen, Expire(g)
    PROVE  ControlInv'
  <1>1. disk \in Records /\ RecordOK(disk)
    BY StoreForm, DiskFacts DEF StoreInv
  <1> QED BY <1>1, ExpireMoves, PlainStep DEF Expire

\* A result is acknowledged.
LEMMA AckStep ==
    ASSUME ControlInv, NEW t \in Txn, Ack(t)
    PROVE  ControlInv'
  <1>1. disk \in Records /\ RecordOK(disk)
    BY StoreForm, DiskFacts DEF StoreInv
  <1> QED BY <1>1, AckMoves, PlainStep DEF Ack

\* The first clean entry is taken out.
LEMMA GcRemoveStep ==
    ASSUME ControlInv, GcRemove
    PROVE  ControlInv'
  <1>1. disk \in Records /\ RecordOK(disk)
    BY StoreForm, DiskFacts DEF StoreInv
  <1> QED BY <1>1, RemovalMoves, PlainStep DEF GcRemove

\* A worker records the key it made.
LEMMA ObserveStep ==
    ASSUME ControlInv, NEW w \in Worker, ObserveKey(w)
    PROVE  ControlInv'
  <1> DEFINE op == worker[w].op
             key == worker[w].key
             ws == [worker EXCEPT ![w] = NoActor]
  <1>0. /\ TypeOK /\ WorkerInv /\ disk \in Records /\ RecordOK(disk)
        /\ UNCHANGED <<backend, gc, signer, roster, now, told, bound, late, act>>
        /\ worker \in [Worker -> {NoActor} \cup Tokens] /\ UNCHANGED <<present, made>> /\ ActTypes'
    BY StoreForm, DiskFacts, TypeParts DEF ObserveKey, history, StoreInv, backend, ActTypes
  <1>1. PICK n \in KeyObserved(disk, op, worker[w].fresh, key) :
            \/ Committed(n) /\ worker' = [Stale(worker) EXCEPT ![w] = NoActor]
            \/ RetryExhausted(n, ws)
    BY DEF ObserveKey
  <1>2. worker[w] # NoActor /\ worker[w].pc = "made" /\ worker[w] \in Tokens
    BY <1>0, ActorFacts DEF ObserveKey, Tokens, NoActor
  <1>3. /\ \A r \in survivors : op.gen <= Used(r)
        /\ SlotOf(op) \in present /\ made[SlotOf(op)] = key /\ key # 0
    BY <1>0, <1>2 DEF WorkerInv
  <1>4. op \in PendingOps /\ key \in 1..MaxKeys
    BY <1>2, <1>3, SignerAssumption DEF Tokens
  <1>5. /\ Moves(disk, n, {}, {}) /\ n.pending # None /\ SlotOf(n.pending) = SlotOf(op)
        /\ n.pending.gen = op.gen /\ n.pending.key = key
    BY <1>0, <1>4, ObserveMoves
  <1>6. ws \in [Worker -> {NoActor} \cup Tokens] /\ \A v \in Worker : ws[v] \in {worker[v], NoActor}
    BY <1>0
  <1>7. CASE Committed(n) /\ worker' = [Stale(worker) EXCEPT ![w] = NoActor]
    <2>1. worker' = Stale(ws)
      BY <1>0, <1>7 DEF Stale, NoActor
    <2>2. left' \in Budget /\ Exclusive /\ Advances(n)
      BY <1>0, <1>7, TypeParts DEF Committed, WorldTypes, Advances
    <2>3. Commits(n)
      BY <1>0, <1>6, <2>1, <2>2, StaleMoves DEF Commits
    <2> QED BY <1>0, <1>3, <1>5, <2>3, SilentStep
  <1>8. CASE RetryExhausted(n, ws)
    <2> HIDE DEF ws
    <2>1. Commits(n) \/ Skips
      BY <1>0, <1>6, <1>8, FailFacts
    <2> QED BY <1>0, <1>3, <1>5, <2>1, SilentStep
  <1> QED BY <1>1, <1>7, <1>8

\* The activation makes the generation live.
LEMMA ActivateStep ==
    ASSUME ControlInv, ActivateCommit
    PROVE  ControlInv'
  <1> DEFINE op == act.op
             x == <<op.gen, SlotOf(op), op.key>>
  <1>0. /\ TypeOK /\ WorkerInv /\ disk \in Records /\ RecordOK(disk) /\ disk \in survivors
        /\ UNCHANGED <<backend, gc, signer, roster, now, late>> /\ act' = NoActor
        /\ worker \in [Worker -> {NoActor} \cup Tokens] /\ UNCHANGED <<present, made>> /\ ActTypes'
        /\ ToldTypes /\ BoundTypes
    BY StoreForm, DiskFacts, TypeParts DEF ActivateCommit, StoreInv, backend, ActTypes
  <1>1. op \in PendingOps /\ act.na \in Delegation
    BY <1>0, TypeParts DEF ActivateCommit, ActTypes, NoActor
  <1>2. PICK n \in ActivateFromKeyObserved(disk, op, act.na) :
            \/ /\ Committed(n) /\ worker' = Stale(worker)
               /\ told' = [told EXCEPT !.activated = @ \cup {op.gen}]
            \/ RetryExhausted(n, worker) /\ UNCHANGED told
    BY DEF ActivateCommit
  <1>3. /\ Moves(disk, n, {}, {}) /\ disk.pending = op /\ op.key # 0 /\ n.pending = None
        /\ op.gen <= Used(n)
    BY <1>0, <1>1, ActivateMoves
  <1>4. bound' = IF disk' = disk THEN bound ELSE bound \cup {x}
    BY DEF ActivateCommit
  <1>5. op # None /\ n # disk /\ n \in Records /\ op.key \in 1..MaxKeys /\ op.gen \in Gen
        /\ SlotOf(op) \in Slot
    BY <1>1, <1>3, SignerAssumption DEF PendingOps, SlotOf, Slot, Moves
  <1>6. ASSUME Commits(n) PROVE BoundTypes' /\ BoundInv' /\ OneKeyPerGeneration'
    <2>1. disk' = n /\ Advances(n) /\ bound' = bound \cup {x}
      BY <1>4, <1>5, <1>6 DEF Commits, Advances
    <2>2. x \in Gen \X Slot \X (1..MaxKeys) /\ x[1] = op.gen /\ x[2] = SlotOf(op) /\ x[3] = op.key
      BY <1>5
    <2> HIDE DEF x
    <2>3. BoundTypes'
      BY <1>0, <2>1, <2>2 DEF BoundTypes
    <2>4. SlotOf(op) \in present /\ made[SlotOf(op)] = op.key
      BY <1>0, <1>3, <1>5, ReliesForm, StoreForm DEF StoreInv, Relies
    <2>5. \A r \in survivors : r.pending # None /\ SlotOf(r.pending) = SlotOf(op)
      BY <1>3, <1>5, StoreForm DEF StoreInv, ChainInv
    <2>6. \A r \in survivors : op.gen <= Used(r)
      <3>1. \A r \in survivors : r \in Records /\ RecordOK(r) /\ r.pending.gen = op.gen
        BY <2>5, DiskFacts, StoreForm DEF SlotOf, StoreInv
      <3> QED BY <2>5, <3>1, RecordFields DEF RecordOK, Below, Used
    <2>7. OneKeyPerGeneration'
      <3>1. ASSUME NEW y \in bound, y[1] = x[1] PROVE y = x
        <4>1. y[2] = SlotOf(op) /\ made[y[2]] = y[3]
          BY <1>0, <1>3, <1>5, <2>2, <3>1, StoreForm DEF BoundInv
        <4>2. y \in Gen \X Slot \X (1..MaxKeys)
          BY <1>0 DEF BoundTypes
        <4> QED BY <2>2, <2>4, <3>1, <4>1, <4>2
      <3> QED BY <2>1, <3>1, StoreForm DEF OneKeyPerGeneration
    <2>8. BoundInv'
      <3>0. \A r \in survivors' : r = n \/ r \in survivors
        BY <2>1 DEF Advances
      <3>1. \A y \in bound : y[1] <= Used(n)
        <4>1. Used(n) \in Nat /\ Used(disk) \in Nat /\ Used(disk) <= Used(n)
          BY <1>0, <1>3, <1>5, RecordFields DEF Moves
        <4>2. \A y \in bound : y[1] \in Nat /\ y[1] <= Used(disk)
          BY <1>0, StoreForm DEF BoundInv, BoundTypes, Gen
        <4> QED BY <4>1, <4>2
      <3>2. \A y \in bound : \A r \in survivors' :
                /\ y[1] <= Used(r)
                /\ r.pending # None /\ r.pending.gen = y[1] =>
                       SlotOf(r.pending) = y[2] /\ y[2] \in present /\ made[y[2]] = y[3]
        BY <1>3, <3>0, <3>1, StoreForm DEF BoundInv
      <3>3. \A r \in survivors' :
                /\ x[1] <= Used(r)
                /\ r.pending # None /\ r.pending.gen = x[1] =>
                       SlotOf(r.pending) = x[2] /\ x[2] \in present /\ made[x[2]] = x[3]
        BY <1>3, <2>2, <2>4, <2>5, <2>6, <3>0
      <3> QED BY <1>0, <2>1, <3>2, <3>3 DEF BoundInv
    <2> QED BY <2>3, <2>7, <2>8
  <1>7. CASE RetryExhausted(n, worker) /\ UNCHANGED told
    <2>1. Commits(n) \/ Skips
      BY <1>0, <1>7, FailFacts
    <2>2. CASE Skips
      <3>1. bound' = bound /\ Stays
        BY <1>4, <2>2 DEF Skips
      <3>2. AnswerInv' /\ ToldTypes'
        BY <1>0, <1>7, <3>1, AnswerStay, StoreForm DEF Stays, ToldTypes
      <3> QED BY <1>0, <2>2, <3>1, <3>2, SkipStep
    <2>3. CASE Commits(n)
      <3>1. AnswerInv' /\ ToldTypes'
        BY <1>0, <1>3, <1>7, <2>3, AnswerAdvance, StoreForm DEF Commits, ToldTypes
      <3> QED BY <1>0, <1>3, <1>6, <2>3, <3>1, CommitStep
    <2> QED BY <2>1, <2>2, <2>3
  <1>8. CASE /\ Committed(n) /\ worker' = Stale(worker)
             /\ told' = [told EXCEPT !.activated = @ \cup {op.gen}]
    <2>1. Commits(n) /\ survivors' = {n} /\ Advances(n)
      BY <1>0, <1>8, DoneFacts DEF Commits
    <2>2. ToldTypes' /\ told'.epoch = told.epoch /\ told'.revoked = told.revoked
          /\ told'.activated = told.activated \cup {op.gen}
      BY <1>0, <1>5, <1>8 DEF ToldTypes
    <2>3. AnswerInv'
      <3>0. /\ disk.epoch \in Nat /\ n.epoch \in Nat /\ Used(n) \in Nat /\ Used(disk) \in Nat
            /\ told.epoch \in Nat /\ told.revoked \in Nat /\ \A g \in told.activated : g \in Nat
            /\ disk.epoch <= n.epoch /\ Used(disk) <= Used(n)
        <4>1. told.epoch \in Nat /\ told.revoked \in Nat /\ \A g \in told.activated : g \in Nat
          BY <1>0, SignerAssumption DEF ToldTypes, Gen
        <4>2. disk.epoch \in Nat /\ n.epoch \in Nat /\ Used(n) \in Nat /\ Used(disk) \in Nat
          BY <1>0, <1>5, RecordFields
        <4> QED BY <1>3, <4>1, <4>2 DEF Moves, EpochMoves
      <3>1. /\ told.epoch <= disk.epoch /\ told.revoked <= disk.epoch /\ disk.epoch # told.revoked
            /\ \A g \in told.activated : g <= Used(disk)
        BY <1>0, <1>3, <1>5, StoreForm DEF AnswerInv
      <3>2. told.epoch <= n.epoch /\ told.revoked <= n.epoch /\ n.epoch # told.revoked
        BY <3>0, <3>1
      <3>3. \A g \in told.activated : g <= Used(n)
        BY <3>0, <3>1
      <3> QED BY <1>3, <2>1, <2>2, <3>2, <3>3 DEF AnswerInv
    <2> QED BY <1>0, <1>3, <1>6, <2>1, <2>2, <2>3, CommitStep
  <1> QED BY <1>2, <1>7, <1>8

-----------------------------------------------------------------------------
(* Steps that leave the record alone.                                       *)

\* Nothing happens to the record, to the keys and to the answers.
LEMMA QuietStep ==
    ASSUME ControlInv, UNCHANGED <<record, present, made, history>>, lagging' \subseteq lagging,
           worker' \in [Worker -> {NoActor} \cup Tokens], ActTypes', gc' \in {NoActor} \cup Collectors,
           SignerTypes', WorldTypes', WorkerInv', CollectorInv', LagInv', SignerInv'
    PROVE  ControlInv'
  <1>0. UNCHANGED <<disk, survivors, present, made, told, bound, late>> /\ Stays /\ TypeOK
    BY StoreForm DEF record, history, Stays, TypeOK
  <1>1. TypeOK'
    <2>1. RecordTypes' /\ BackendTypes' /\ ToldTypes' /\ BoundTypes'
      BY <1>0, TypeParts DEF RecordTypes, BackendTypes, ToldTypes, BoundTypes
    <2> QED BY <2>1, TypePartsNext
  <1>2. StoreInv' /\ AnswerInv' /\ BoundInv' /\ OneKeyPerGeneration'
    BY <1>0, StayStore, AnswerStay, BoundStay, StoreForm
  <1> QED BY <1>1, <1>2, StoreFormNext

\* A worker that gives up.
LEMMA GiveUpStep ==
    ASSUME ControlInv, NEW w \in Worker, GiveUp(w)
    PROVE  ControlInv'
  <1>0. /\ UNCHANGED <<record, backend, act, gc, signer, roster, now, left, history>>
        /\ UNCHANGED <<disk, survivors, present, made, lagging, late, told>> /\ Stays /\ Owed' = Owed /\ TypeOK
    BY StoreForm DEF GiveUp, record, backend, history, Stays, Owed, TypeOK
  <1>1. worker' \in [Worker -> {NoActor} \cup Tokens] /\ \A v \in Worker : worker'[v] \in {worker[v], NoActor}
    BY <1>0, TypeParts DEF GiveUp
  <1>2. ActTypes' /\ gc' \in {NoActor} \cup Collectors /\ SignerTypes' /\ WorldTypes'
    BY <1>0, TypeParts DEF ActTypes, SignerTypes, WorldTypes
  <1>3. WorkerInv' /\ CollectorInv' /\ LagInv' /\ SignerInv'
    BY <1>0, <1>1, WorkerStay, CollectorStay, LagStay, SignerStay, StoreForm
  <1> QED BY <1>0, <1>1, <1>2, <1>3, QuietStep

\* Steps that leave the workers and the collector alone too.
LEMMA AsideStep ==
    ASSUME ControlInv, UNCHANGED <<record, backend, worker, gc, history>>,
           ActTypes', SignerTypes', WorldTypes', SignerInv'
    PROVE  ControlInv'
  <1>0. /\ UNCHANGED <<disk, survivors, present, made, lagging, late, told>> /\ Stays /\ Owed' = Owed /\ TypeOK
    BY StoreForm DEF record, backend, history, Stays, Owed, TypeOK
  <1>1. /\ worker' \in [Worker -> {NoActor} \cup Tokens] /\ gc' \in {NoActor} \cup Collectors
        /\ \A v \in Worker : worker'[v] \in {worker[v], NoActor}
    BY <1>0, TypeParts
  <1>2. WorkerInv' /\ CollectorInv' /\ LagInv'
    BY <1>0, <1>1, WorkerStay, CollectorStay, LagStay, StoreForm
  <1> QED BY <1>0, <1>1, <1>2, QuietStep

\* The activation looks at the key and the roster.
LEMMA ValidateStep ==
    ASSUME ControlInv, NEW t \in Txn, NEW na \in Delegation, ActivateValidate(t, na)
    PROVE  ControlInv'
  <1>0. /\ UNCHANGED <<record, backend, worker, gc, signer, roster, now, left, history>>
        /\ UNCHANGED <<told>> /\ TypeOK /\ disk.pending # None
    BY StoreForm DEF ActivateValidate, history
  <1>1. SignerTypes' /\ WorldTypes' /\ roster.rev \in Nat
    BY <1>0, TypeParts DEF SignerTypes, WorldTypes
  <1>2. disk.pending \in PendingOps
    BY <1>0, DiskFacts, StoreForm DEF StoreInv
  <1>3. ActTypes'
    BY <1>1, <1>2 DEF ActivateValidate, ActTypes
  <1>4. SignerInv'
    BY <1>0, SignerStay, StoreForm
  <1> QED BY <1>0, <1>1, <1>3, <1>4, AsideStep

\* The activation ends without a commit.
LEMMA ActivateFailsStep ==
    ASSUME ControlInv, ActivateFails
    PROVE  ControlInv'
  <1>0. /\ UNCHANGED <<record, backend, worker, gc, signer, roster, now, left, history>>
        /\ UNCHANGED <<told>> /\ TypeOK /\ act' = NoActor
    BY StoreForm DEF ActivateFails, history
  <1>1. SignerTypes' /\ WorldTypes' /\ ActTypes'
    BY <1>0, TypeParts DEF SignerTypes, WorldTypes, ActTypes
  <1>4. SignerInv'
    BY <1>0, SignerStay, StoreForm
  <1> QED BY <1>0, <1>1, <1>4, AsideStep

\* The steps of the signer.
\* A capability is loaded for a roster in good standing.
LEMMA SignLoadStep ==
    ASSUME ControlInv, SignLoad
    PROVE  ControlInv'
  <1>0. /\ UNCHANGED <<record, backend, worker, gc, act, roster, now, history>> /\ TypeOK /\ roster.active
        /\ left' = [left EXCEPT !.loads = @ - 1] /\ left.loads > 0
        /\ disk \in Records
    BY StoreForm, DiskFacts DEF SignLoad, StoreInv
  <1>1. WorldTypes' /\ ActTypes' /\ roster.rev \in Nat
    BY <1>0, LeftFacts, TypeParts DEF WorldTypes, ActTypes
  <1>2. PICK i \in DOMAIN disk.live :
            signer' = [pc |-> "capability", epoch |-> disk.epoch, g |-> disk.live[i], rev |-> roster.rev]
    BY DEF SignLoad, Range
  <1>3. disk.live[i] \in Generations /\ disk.epoch \in 1..MaxEpoch
    BY <1>0, RecordFields
  <1>4. SignerTypes'
    BY <1>1, <1>2, <1>3 DEF SignerTypes
  <1>5. SignerInv'
    BY <1>0, <1>1, <1>2 DEF SignerInv
  <1> QED BY <1>0, <1>1, <1>4, <1>5, AsideStep

\* Under the lease and the guard nothing that was answered is ignored.
LEMMA SignEnterStep ==
    ASSUME ControlInv, SignEnter
    PROVE  ControlInv'
  <1>0. /\ UNCHANGED <<record, backend, worker, gc, act, roster, now, left, history>> /\ TypeOK
        /\ UNCHANGED told /\ disk \in survivors /\ disk.epoch \in Nat /\ AnswerInv /\ SignerInv
    BY StoreForm, DiskFacts, RecordFields DEF SignEnter, StoreInv, history
  <1>1. WorldTypes' /\ ActTypes' /\ roster.rev \in Nat /\ SignerTypes /\ ToldTypes
    BY <1>0, TypeParts DEF WorldTypes, ActTypes
  <1>2. signer # NoActor /\ signer \in [pc : {"capability", "signing"}, epoch : 1..MaxEpoch,
                                         g : Generations, rev : Nat]
    BY <1>1 DEF SignEnter, SignerTypes, NoActor
  <1>3. SignerTypes' /\ signer'.rev = signer.rev /\ signer'.epoch = signer.epoch
    BY <1>2 DEF SignEnter, SignerTypes
  <1>4. signer.epoch > told.revoked
    <2>1. told.revoked \in Nat
      BY <1>1, SignerAssumption DEF ToldTypes
    <2>2. told.revoked <= disk.epoch /\ (disk.epoch = told.revoked => disk.auth = "revoked")
      BY <1>0 DEF AnswerInv
    <2> QED BY <1>0, <2>1, <2>2 DEF SignEnter
  <1>5. SignerInv'
    BY <1>0, <1>1, <1>2, <1>3, <1>4 DEF SignerInv, SignEnter
  <1> QED BY <1>0, <1>1, <1>3, <1>5, AsideStep

\* The guard and the lease are released.
LEMMA SignDoneStep ==
    ASSUME ControlInv, SignDone
    PROVE  ControlInv'
  <1>0. /\ UNCHANGED <<record, backend, worker, gc, act, roster, now, left, history>> /\ TypeOK
        /\ UNCHANGED told /\ SignerInv
    BY StoreForm DEF SignDone, history
  <1>1. WorldTypes' /\ ActTypes' /\ SignerTypes
    BY <1>0, TypeParts DEF WorldTypes, ActTypes
  <1>2. signer # NoActor /\ signer \in [pc : {"capability", "signing"}, epoch : 1..MaxEpoch,
                                         g : Generations, rev : Nat]
    BY <1>1 DEF SignDone, SignerTypes, NoActor
  <1>3. SignerTypes' /\ signer'.rev = signer.rev /\ signer'.epoch = signer.epoch
        /\ signer'.pc = "capability"
    BY <1>2 DEF SignDone, SignerTypes
  <1>5. SignerInv'
    BY <1>0, <1>2, <1>3 DEF SignerInv
  <1> QED BY <1>0, <1>1, <1>3, <1>5, AsideStep

\* The capability is given up.
LEMMA SignDropStep ==
    ASSUME ControlInv, SignDrop
    PROVE  ControlInv'
  <1>0. /\ UNCHANGED <<record, backend, worker, gc, act, roster, now, left, history>> /\ TypeOK
        /\ signer' = NoActor
    BY StoreForm DEF SignDrop
  <1>1. WorldTypes' /\ ActTypes' /\ SignerTypes' /\ SignerInv'
    BY <1>0, TypeParts DEF WorldTypes, ActTypes, SignerTypes, SignerInv
  <1> QED BY <1>0, <1>1, AsideStep

\* The roster moves while nobody holds the lease.
LEMMA RosterStep ==
    ASSUME ControlInv, RosterChange
    PROVE  ControlInv'
  <1>0. /\ UNCHANGED <<record, backend, worker, gc, act, signer, now, history>> /\ TypeOK /\ SignerInv
    BY StoreForm DEF RosterChange
  <1>1. roster \in [rev : Nat, active : BOOLEAN] /\ left \in Budget /\ now \in Nat /\ SignerTypes
    BY <1>0, TypeParts DEF WorldTypes
  <1>2. WorldTypes' /\ ActTypes' /\ SignerTypes'
    BY <1>0, <1>1, LeftFacts, TypeParts DEF WorldTypes, ActTypes, SignerTypes, RosterChange
  <1>3. SignerInv'
    <2>1. signer # NoActor => signer.rev \in Nat
      BY <1>1 DEF SignerTypes
    <2>2. roster'.rev = roster.rev + 1 /\ roster.rev \in Nat
      BY <1>1 DEF RosterChange
    <2> QED BY <1>0, <2>1, <2>2 DEF SignerInv, RosterChange
  <1> QED BY <1>0, <1>2, <1>3, AsideStep

\* The clock ticks.
LEMMA ClockStep ==
    ASSUME ControlInv, Clock
    PROVE  ControlInv'
  <1>0. /\ UNCHANGED <<record, backend, worker, gc, act, signer, roster, history>> /\ TypeOK /\ UNCHANGED told
    BY StoreForm DEF Clock, history
  <1>1. roster \in [rev : Nat, active : BOOLEAN] /\ left \in Budget /\ now \in Nat
    BY <1>0, TypeParts DEF WorldTypes
  <1>2. WorldTypes' /\ ActTypes' /\ SignerTypes'
    BY <1>0, <1>1, LeftFacts, TypeParts DEF WorldTypes, ActTypes, SignerTypes, Clock
  <1>3. SignerInv'
    BY <1>0, SignerStay, StoreForm
  <1> QED BY <1>0, <1>2, <1>3, AsideStep

\* A crash: what only the process knew is gone.
LEMMA CrashStep ==
    ASSUME ControlInv, Crash
    PROVE  ControlInv'
  <1>0. /\ UNCHANGED <<present, made, told, bound, late, roster, now>> /\ TypeOK /\ Stays
        /\ act' = NoActor /\ gc' = NoActor /\ signer' = NoActor /\ lagging' = {}
        /\ worker' = [w \in Worker |-> NoActor]
    BY StoreForm DEF Crash, history, record, Stays, TypeOK
  <1>1. TypeOK'
    <2>1. RecordTypes' /\ BackendTypes' /\ ToldTypes' /\ BoundTypes'
      BY <1>0, TypeParts DEF RecordTypes, BackendTypes, ToldTypes, BoundTypes, Stays
    <2>2. WorldTypes'
      BY <1>0, TypeParts, LeftFacts DEF WorldTypes, Crash
    <2>3. ActTypes' /\ SignerTypes' /\ gc' \in {NoActor} \cup Collectors
          /\ worker' \in [Worker -> {NoActor} \cup Tokens]
      BY <1>0 DEF ActTypes, SignerTypes
    <2> QED BY <2>1, <2>2, <2>3, TypePartsNext
  <1>2. StoreInv' /\ AnswerInv' /\ BoundInv' /\ OneKeyPerGeneration'
    BY <1>0, StayStore, AnswerStay, BoundStay, StoreForm DEF Stays
  <1>3. WorkerInv' /\ LagInv' /\ SignerInv' /\ CollectorInv'
    BY <1>0 DEF WorkerInv, LagInv, SignerInv, CollectorInv, NoActor
  <1> QED BY <1>1, <1>2, <1>3, StoreFormNext

\* A worker that has the key of its operation.
LEMMA KeyHeld ==
    ASSUME ControlInv, NEW w \in Worker, CreateKey(w), NEW op, op = worker[w].op,
           UNCHANGED <<disk, survivors>>, SlotOf(op) \in present', made'[SlotOf(op)] # 0,
           made' \in [Slot -> 0..MaxKeys], present \subseteq present',
           \A q \in present : made'[q] = made[q]
    PROVE  WorkerInv' /\ worker' \in [Worker -> {NoActor} \cup Tokens]
  <1> DEFINE s == SlotOf(op)
  <1>0. /\ TypeOK /\ WorkerInv /\ worker \in [Worker -> {NoActor} \cup Tokens]
        /\ worker[w].pc = "token"
    BY StoreForm, TypeParts DEF CreateKey
  <1>1. worker[w] \in Tokens /\ worker[w] # NoActor
    BY <1>0, ActorFacts DEF Tokens, NoActor
  <1>2. s \in Slot /\ made'[s] \in 0..MaxKeys
    BY <1>1 DEF Tokens, PendingOps, SlotOf, Slot
  <1>3. \A v \in Worker : worker[v] # NoActor =>
            /\ \A r \in survivors' : worker[v].op.gen <= Used(r)
            /\ worker[v].fresh => disk' = disk /\ disk.pending = worker[v].op /\ worker[v].op.phase = "intent"
            /\ worker[v].pc = "made" =>
                /\ worker[v].fresh
                /\ SlotOf(worker[v].op) \in present'
                /\ made'[SlotOf(worker[v].op)] = worker[v].key
                /\ worker[v].key # 0
    BY <1>0 DEF WorkerInv
  <1>4. CASE UNCHANGED worker
    BY <1>0, <1>3, <1>4 DEF WorkerInv
  <1>5. CASE worker' = [worker EXCEPT ![w] = NoActor]
    BY <1>0, <1>3, <1>5 DEF WorkerInv
  <1>6. CASE worker[w].fresh /\ worker' = [worker EXCEPT ![w] = [worker[w] EXCEPT !.pc = "made", !.key = made'[s]]]
    <2> DEFINE new == [worker[w] EXCEPT !.pc = "made", !.key = made'[s]]
    <2>1. /\ new \in Tokens /\ new.op = op /\ new.pc = "made" /\ new.key = made'[s]
          /\ new.fresh = worker[w].fresh
      BY <1>1, <1>2 DEF Tokens
    <2> HIDE DEF new
    <2>2. worker'[w] = new /\ \A v \in Worker : v # w => worker'[v] = worker[v]
      BY <1>0, <1>6 DEF new
    <2>3. worker' \in [Worker -> {NoActor} \cup Tokens]
      BY <1>0, <1>6, <2>1 DEF new
    <2>4. /\ \A r \in survivors' : op.gen <= Used(r)
          /\ disk' = disk /\ disk.pending = op /\ op.phase = "intent"
      BY <1>1, <1>3, <1>6
    <2>5. WorkerInv'
      BY <1>3, <1>6, <2>1, <2>2, <2>4 DEF WorkerInv
    <2> QED BY <2>3, <2>5
  <1>7. \/ UNCHANGED worker
        \/ worker' = [worker EXCEPT ![w] = NoActor]
        \/ worker[w].fresh /\ worker' = [worker EXCEPT ![w] = [worker[w] EXCEPT !.pc = "made", !.key = made'[s]]]
    BY <1>0 DEF CreateKey
  <1> QED BY <1>4, <1>5, <1>6, <1>7

\* create_or_inspect.
LEMMA CreateKeyStep ==
    ASSUME ControlInv, NEW w \in Worker, CreateKey(w)
    PROVE  ControlInv'
  <1> DEFINE op == worker[w].op
             s == SlotOf(op)
  <1>0. /\ UNCHANGED <<record, act, gc, signer, roster, now, left, told, bound>>
        /\ UNCHANGED <<disk, survivors>> /\ TypeOK /\ StoreInv /\ WorkerInv /\ CollectorInv /\ LagInv /\ BoundInv
        /\ disk \in survivors /\ BackendTypes /\ KeysMade /\ worker[w].pc = "token" /\ Stays
    BY StoreForm, TypeParts DEF CreateKey, record, TypeOK, StoreInv, Stays
  <1>1. worker[w] \in Tokens /\ worker[w] # NoActor
    BY <1>0, ActorFacts DEF Tokens, NoActor
  <1>2. op \in PendingOps /\ s \in Slot /\ s[1] = op.gen /\ op.gen \in Nat /\ \A r \in survivors : op.gen <= Used(r)
    BY <1>0, <1>1 DEF Tokens, PendingOps, SlotOf, Slot, WorkerInv, Gen
  <1>3. ActTypes' /\ gc' \in {NoActor} \cup Collectors /\ SignerTypes' /\ WorldTypes' /\ SignerInv'
        /\ ToldTypes' /\ BoundTypes' /\ RecordTypes'
    <2>1. ActTypes' /\ gc' \in {NoActor} \cup Collectors /\ SignerTypes' /\ WorldTypes'
          /\ ToldTypes' /\ BoundTypes' /\ RecordTypes'
      BY <1>0, TypeParts DEF ActTypes, SignerTypes, WorldTypes, ToldTypes, BoundTypes, RecordTypes
    <2>2. SignerInv'
      BY <1>0, SignerStay, StoreForm
    <2> QED BY <2>1, <2>2
  <1>4. CASE s \in present /\ UNCHANGED <<backend, late>>
    <2>1. UNCHANGED <<present, made, lagging, late>> /\ Owed' = Owed
      BY <1>4 DEF backend, Owed
    <2>2. WorkerInv' /\ worker' \in [Worker -> {NoActor} \cup Tokens]
      BY <1>0, <1>4, <2>1, KeyHeld DEF KeysMade, BackendTypes
    <2>3. CollectorInv' /\ LagInv'
      BY <1>0, <2>1, CollectorStay, LagStay
    <2> QED BY <1>0, <1>3, <1>4, <2>1, <2>2, <2>3, QuietStep DEF history
  <1>5. CASE /\ s \notin present /\ made[s] < MaxKeys
             /\ present' = present \cup {s} /\ made' = [made EXCEPT ![s] = @ + 1]
             /\ lagging' = lagging \cup {s}
             /\ late' = IF disk.pending # None /\ SlotOf(disk.pending) = s
                        THEN late ELSE late \cup {s}
    <2> HIDE DEF op, s
    <2>1. /\ made' \in [Slot -> 0..MaxKeys] /\ made'[s] # 0 /\ \A q \in Slot : q # s => made'[q] = made[q]
          /\ \A q \in present : made'[q] = made[q] /\ q # s
          /\ BackendTypes'
      BY <1>0, <1>2, <1>5, SignerAssumption DEF BackendTypes
    <2>2. WorkerInv' /\ worker' \in [Worker -> {NoActor} \cup Tokens]
      BY <1>0, <1>5, <2>1, KeyHeld DEF op, s
    <2>3. TypeOK'
      BY <1>3, <2>1, <2>2, TypePartsNext
    <2>4. ASSUME s \in Owed', NEW r \in survivors
          PROVE  r.pending # None /\ SlotOf(r.pending) = s /\ r.pending.gen = op.gen
      <3>1. disk.pending # None /\ SlotOf(disk.pending) = s
        BY <1>5, <2>4 DEF Owed
      <3>2. disk.pending.gen = op.gen
        BY <1>2, <3>1 DEF SlotOf
      <3>3. r.pending # None /\ SlotOf(r.pending) = s
        BY <1>0, <1>2, <3>1, <3>2 DEF StoreInv, ChainInv
      <3> QED BY <1>2, <3>3 DEF SlotOf
    <2>5. \A q \in Owed' : q = s \/ q \in Owed
      BY <1>5 DEF Owed
    <2>6. StoreInv'
      <3>1. RecordsInv' /\ ChainInv'
        BY <1>0 DEF StoreInv, RecordsInv, ChainInv
      <3>2. KeysMade'
        BY <1>0, <1>5, <2>1 DEF KeysMade
      <3>3. RelyOnPresentKeys'
        BY <1>0, <1>5, <2>1 DEF StoreInv, RelyOnPresentKeys
      <3>4. KeysTracked'
        <4>1. \A q \in Owed' : \A r \in survivors : Names(r, q)
          BY <1>0, <2>4, <2>5, TrackedForm DEF StoreInv, Names
        <4> QED BY <1>0, <4>1, TrackedNames DEF KeysTracked, Owed
      <3> QED BY <3>1, <3>2, <3>3, <3>4 DEF StoreInv
    <2>7. CollectorInv'
      <3>1. gc.pc \in {"inspected", "conflict"} => Past(disk, gc.slot)
        BY <1>0 DEF CollectorInv
      <3>2. gc.pc \in {"stable", "destroyed"} => Past(disk, gc.slot)
        BY <1>0 DEF CollectorInv
      <3>3. Past(disk, gc.slot) => gc.slot \notin Owed' \/ gc.slot \in Owed
        BY <1>0, <2>4, <2>5 DEF Past
      <3> QED BY <1>0, <3>1, <3>2, <3>3 DEF CollectorInv, Past
    <2>8. LagInv'
      <3> SUFFICES ASSUME NEW r \in survivors, NEW i \in DOMAIN r.gc, r.gc[i].st = "unconfirmed",
                          SlotOf(r.gc[i]) \in Owed', SlotOf(r.gc[i]) \in lagging'
                   PROVE  gc # NoActor /\ SlotOf(r.gc[i]) \in gc.seen
        BY <1>0 DEF LagInv
      <3>1. SlotOf(r.gc[i]) # s
        <4> SUFFICES ASSUME SlotOf(r.gc[i]) = s PROVE FALSE
          OBVIOUS
        <4>1. r.pending # None /\ SlotOf(r.pending) = s
          BY <2>4
        <4>2. r.pending.gen = r.gc[i].gen
          BY <4>1 DEF SlotOf
        <4>3. r \in Records /\ RecordOK(r)
          BY <1>0, DiskFacts DEF StoreInv
        <4>4. r.gc[i].gen < r.hw /\ r.pending.gen = r.hw /\ r.hw \in Nat
          BY <4>1, <4>3, RecordFields DEF RecordOK, Below
        <4> QED BY <4>2, <4>4
      <3> QED BY <1>0, <1>5, <2>5, <3>1 DEF LagInv
    <2>9. BoundInv' /\ OneKeyPerGeneration'
      BY <1>0, <1>5, <2>1, StoreForm DEF BoundInv, OneKeyPerGeneration
    <2>10. AnswerInv'
      BY <1>0, AnswerStay, StoreForm
    <2> QED BY <1>3, <2>2, <2>3, <2>6, <2>7, <2>8, <2>9, <2>10, StoreFormNext
  <1> QED BY <1>4, <1>5 DEF CreateKey

-----------------------------------------------------------------------------
(* The collector.                                                           *)

\* A slot in collection is past, and not live.
LEMMA CollectedPast ==
    ASSUME NEW r \in Records, RecordOK(r), NEW i \in DOMAIN r.gc
    PROVE  /\ SlotOf(r.gc[i]) \in Slot /\ Past(r, SlotOf(r.gc[i]))
           /\ \A j \in DOMAIN r.live : SlotOf(r.live[j]) # SlotOf(r.gc[i])
  <1>1. r.gc[i] \in GcEntries /\ r.hw \in Nat
    BY RecordFields
  <1>2. r.gc # <<>>
    <2>1. \A k : k \notin DOMAIN <<>>
      OBVIOUS
    <2> QED BY <2>1
  <1>3. Used(r) = r.hw
    BY <1>2 DEF RecordOK, AuthorityOK, Used
  <1>4. r.gc[i].gen <= r.hw /\ SlotOf(r.gc[i])[1] = r.gc[i].gen /\ r.gc[i].gen \in Nat
        /\ SlotOf(r.gc[i]) \in Slot
    BY <1>1 DEF RecordOK, Below, SlotOf, Slot, GcEntries, Gen
  <1>5. ASSUME r.pending # None PROVE SlotOf(r.pending) # SlotOf(r.gc[i])
    <2>1. r.pending.gen = r.hw /\ r.gc[i].gen < r.hw
      BY <1>5 DEF RecordOK, Below
    <2>2. r.pending.gen # r.gc[i].gen
      BY <1>1, <1>4, <2>1
    <2> QED BY <2>2 DEF SlotOf
  <1>6. \A j \in DOMAIN r.live : SlotOf(r.live[j]) # SlotOf(r.gc[i])
    BY DEF RecordOK, Apart, SlotOf
  <1> QED BY <1>3, <1>4, <1>5, <1>6 DEF Past

\* The collector moves, and the record is at most written again.
LEMMA TickStep ==
    ASSUME ControlInv, Stays, disk' = disk,
           UNCHANGED <<present, made, worker, act, signer, roster, now, history>>,
           left' \in Budget, lagging' \subseteq lagging, gc' \in {NoActor} \cup Collectors,
           CollectorInv', LagInv'
    PROVE  ControlInv'
  <1>0. UNCHANGED <<told, bound, late>> /\ TypeOK
    BY StoreForm DEF history
  <1>1. TypeOK'
    <2>1. RecordTypes' /\ BackendTypes' /\ ToldTypes' /\ BoundTypes'
      BY <1>0, TypeParts DEF RecordTypes, BackendTypes, ToldTypes, BoundTypes, Stays
    <2>2. ActTypes' /\ SignerTypes' /\ WorldTypes' /\ worker' \in [Worker -> {NoActor} \cup Tokens]
      BY <1>0, TypeParts DEF ActTypes, SignerTypes, WorldTypes
    <2> QED BY <2>1, <2>2, TypePartsNext
  <1>2. StoreInv' /\ AnswerInv' /\ BoundInv' /\ OneKeyPerGeneration' /\ SignerInv'
    BY <1>0, StayStore, AnswerStay, BoundStay, SignerStay, StoreForm DEF Stays
  <1>3. WorkerInv'
    BY <1>0, WorkerStay, StoreForm
  <1> QED BY <1>1, <1>2, <1>3, StoreFormNext

\* A tick begins.
LEMMA GcStartStep ==
    ASSUME ControlInv, GcStart
    PROVE  ControlInv'
  <1>0. /\ UNCHANGED <<record, backend, worker, act, signer, roster, now, left, history>>
        /\ TypeOK /\ LagInv /\ gc = NoActor /\ gc.pc = "idle"
        /\ gc' = [pc |-> "tick", slot |-> None, key |-> 0, st |-> "", seen |-> {}, tried |-> {}]
    BY StoreForm, ActorFacts DEF GcStart
  <1>1. UNCHANGED <<disk, survivors, present, made, lagging, late>> /\ Owed' = Owed /\ Stays
    BY <1>0 DEF record, backend, history, Owed, Stays, TypeOK
  <1>2. gc' \in Collectors /\ gc'.pc = "tick" /\ left \in Budget
    <2>1. left \in Budget
      BY <1>0, TypeParts DEF WorldTypes
    <2>2. 0 \in 0..MaxKeys
      BY SignerAssumption
    <2> QED BY <1>0, <2>1, <2>2 DEF Collectors
  <1>3. CollectorInv'
    BY <1>2 DEF CollectorInv
  <1>4. LagInv'
    BY <1>0, <1>1 DEF LagInv
  <1> QED BY <1>0, <1>1, <1>2, <1>3, <1>4, TickStep

\* A tick ends.
LEMMA GcEndStep ==
    ASSUME ControlInv, GcEnd
    PROVE  ControlInv'
  <1>0. /\ UNCHANGED <<record, present, made, worker, act, signer, roster, now, left, history>>
        /\ TypeOK /\ gc' = NoActor /\ lagging' = {}
    BY StoreForm DEF GcEnd
  <1>1. UNCHANGED <<disk, survivors>> /\ Stays /\ left \in Budget
    BY <1>0, TypeParts DEF record, Stays, TypeOK, WorldTypes
  <1>2. CollectorInv' /\ LagInv'
    BY <1>0 DEF CollectorInv, LagInv, NoActor
  <1> QED BY <1>0, <1>1, <1>2, TickStep

\* The collector looks for the key of an entry.
LEMMA GcInspectStep ==
    ASSUME ControlInv, GcInspect
    PROVE  ControlInv'
  <1>0. /\ UNCHANGED <<record, backend, worker, act, signer, roster, now, history>>
        /\ TypeOK /\ LagInv /\ CollectorInv /\ KeysMade /\ gc.pc = "tick" /\ gc \in Collectors /\ gc # NoActor
        /\ disk \in Records /\ RecordOK(disk) /\ disk \in survivors /\ left \in Budget
    <2>1. TypeOK /\ LagInv /\ CollectorInv /\ KeysMade /\ disk \in Records /\ RecordOK(disk) /\ disk \in survivors
      BY StoreForm, DiskFacts DEF StoreInv
    <2>2. gc.pc = "tick" /\ UNCHANGED <<record, backend, worker, act, signer, roster, now, history>>
      BY DEF GcInspect
    <2>3. gc # NoActor
      BY <2>2 DEF NoActor
    <2> QED BY <2>1, <2>2, <2>3, TypeParts DEF WorldTypes
  <1>1. UNCHANGED <<disk, survivors, present, made, lagging, late>> /\ Owed' = Owed /\ Stays
    BY <1>0 DEF record, backend, history, Owed, Stays
  <1>2. PICK e \in Range(disk.gc) :
            LET s == SlotOf(e)
                mark == [gc EXCEPT !.slot = s, !.seen = @ \cup {s}]
            IN /\ Selected(e) /\ e.st # "pending"
               /\ \/ gc' = [mark EXCEPT !.slot = None] /\ UNCHANGED left
                  \/ /\ s \in present
                     /\ gc' = [mark EXCEPT !.pc = "inspected", !.key = made[s]] /\ UNCHANGED left
                  \/ /\ s \notin present \/ s \in lagging
                     /\ gc' = [mark EXCEPT !.pc = "inspected", !.key = 0] /\ UNCHANGED left
                  \/ /\ left.faults > 0 /\ left' = [left EXCEPT !.faults = @ - 1]
                     /\ gc' = [mark EXCEPT !.pc = "conflict"]
    BY DEF GcInspect
  <1> DEFINE s == SlotOf(e)
             mark == [gc EXCEPT !.slot = s, !.seen = @ \cup {s}]
  <1>3. PICK i \in DOMAIN disk.gc : e = disk.gc[i] /\ Eligible(disk.gc[i])
    BY <1>2 DEF Selected, EligibleAt
  <1>4. s \in Slot /\ Past(disk, s) /\ s \notin gc.seen
    BY <1>0, <1>2, <1>3, CollectedPast DEF Eligible
  <1>5. left' \in Budget
    BY <1>0, <1>2, LeftFacts
  <1>6. made[s] \in 0..MaxKeys /\ 0 \in 0..MaxKeys
    BY <1>0, <1>4, TypeParts, SignerAssumption DEF BackendTypes
  <1>7. /\ gc' \in Collectors /\ gc'.seen = gc.seen \cup {s}
        /\ \/ gc'.pc = "tick"
           \/ gc'.pc = "inspected" /\ gc'.slot = s /\ gc'.key = made[s] /\ s \in present
           \/ gc'.pc = "inspected" /\ gc'.slot = s /\ gc'.key = 0 /\ (s \notin present \/ s \in lagging)
           \/ gc'.pc = "conflict" /\ gc'.slot = s
    <2>1. mark \in Collectors /\ mark.seen = gc.seen \cup {s} /\ mark.slot = s /\ mark.pc = "tick"
      BY <1>0, <1>4 DEF Collectors
    <2>2. \/ gc' = [mark EXCEPT !.slot = None]
          \/ s \in present /\ gc' = [mark EXCEPT !.pc = "inspected", !.key = made[s]]
          \/ (s \notin present \/ s \in lagging) /\ gc' = [mark EXCEPT !.pc = "inspected", !.key = 0]
          \/ gc' = [mark EXCEPT !.pc = "conflict"]
      BY <1>2
    <2> HIDE DEF mark, s
    <2> QED BY <1>4, <1>6, <2>1, <2>2 DEF Collectors
  <1> HIDE DEF s, mark
  <1>8. CollectorInv'
    <2>1. s \in gc'.seen
      BY <1>7
    <2>2. CASE gc'.pc = "tick"
      BY <2>2 DEF CollectorInv
    <2>3. CASE gc'.pc = "inspected" /\ gc'.slot = s /\ gc'.key = made[s] /\ s \in present
      <3>1. gc'.key # 0
        BY <1>0, <2>3 DEF KeysMade
      <3> QED BY <1>1, <1>4, <2>1, <2>3, <3>1 DEF CollectorInv, Past
    <2>4. CASE gc'.pc = "inspected" /\ gc'.slot = s /\ (s \notin present \/ s \in lagging)
      <3>1. ASSUME NEW j \in DOMAIN disk.gc, SlotOf(disk.gc[j]) = s, disk.gc[j].st = "unconfirmed",
                   s \in Owed
            PROVE  FALSE
        <4>1. s \in lagging
          BY <2>4, <3>1 DEF Owed
        <4>2. s \in gc.seen
          BY <1>0, <3>1, <4>1 DEF LagInv
        <4> QED BY <1>4, <4>2
      <3> QED BY <1>1, <1>4, <2>1, <2>4, <3>1 DEF CollectorInv, Past
    <2>5. CASE gc'.pc = "conflict" /\ gc'.slot = s
      BY <1>1, <1>4, <2>1, <2>5 DEF CollectorInv, Past
    <2> QED BY <1>7, <2>2, <2>3, <2>4, <2>5
  <1>9. LagInv'
    <2>1. gc' # NoActor
      <3>1. NoActor.pc = "idle" /\ gc'.pc # "idle"
        BY <1>7 DEF NoActor
      <3> QED BY <3>1
    <2> QED BY <1>0, <1>1, <1>7, <2>1 DEF LagInv
  <1> QED BY <1>0, <1>1, <1>5, <1>7, <1>8, <1>9, TickStep

\* A commit of the collector. What it stops naming is not owed, and what it found absent
\* for the first time it has seen in this tick.
LEMMA GcCommitStep ==
    ASSUME ControlInv, NEW results, GcCommit(results), UNCHANGED <<present, made>>,
           gc \in Collectors, NEW lost, NEW missed, lost \cap Owed = {}, missed \subseteq gc.seen,
           \A n \in results : Moves(disk, n, lost, missed) /\ n.pending = disk.pending
    PROVE  ControlInv'
  <1>0. /\ UNCHANGED <<act, signer, roster, now, told, bound, late>> /\ TypeOK /\ StoreInv /\ WorkerInv
        /\ LagInv /\ disk \in survivors /\ Owed' = Owed
        /\ worker \in [Worker -> {NoActor} \cup Tokens]
    BY StoreForm, TypeParts DEF GcCommit, history, Owed, TypeOK
  <1>1. PICK n \in results :
            \/ /\ Committed(n) /\ worker' = Stale(worker)
               /\ gc' = [gc EXCEPT !.pc = "tick", !.slot = None, !.key = 0, !.st = ""]
               /\ UNCHANGED lagging
            \/ RetryExhausted(n, worker) /\ gc' = NoActor /\ lagging' = {}
    BY DEF GcCommit
  <1>2. Moves(disk, n, lost, missed) /\ n.pending = disk.pending
    BY <1>1
  <1>3. Commits(n) \/ Skips
    BY <1>0, <1>1, FailFacts, DoneFacts
  <1>4. /\ lagging' \subseteq lagging /\ gc' \in {NoActor} \cup Collectors
        /\ \/ gc' = NoActor /\ lagging' = {}
           \/ gc'.pc = "tick" /\ gc'.seen = gc.seen /\ gc' # NoActor
    <2>1. CASE gc' = NoActor /\ lagging' = {}
      BY <2>1
    <2>2. CASE gc' = [gc EXCEPT !.pc = "tick", !.slot = None, !.key = 0, !.st = ""] /\ UNCHANGED lagging
      <3>1. 0 \in 0..MaxKeys
        BY SignerAssumption
      <3>2. gc' \in Collectors /\ gc'.pc = "tick" /\ gc'.seen = gc.seen
        BY <2>2, <3>1 DEF Collectors
      <3>3. NoActor.pc = "idle"
        BY DEF NoActor
      <3> QED BY <2>2, <3>2, <3>3
    <2> QED BY <1>1, <2>1, <2>2
  <1>5. CollectorInv'
    <2>1. gc'.pc \in {"idle", "tick"}
      BY <1>4 DEF NoActor
    <2> QED BY <2>1 DEF CollectorInv
  <1>6. CASE Skips
    <2>1. Stays /\ disk' = disk /\ WorkerInv' /\ left' \in Budget /\ Exclusive
          /\ worker' \in [Worker -> {NoActor} \cup Tokens]
      BY <1>6 DEF Skips
    <2>2. LagInv'
      BY <1>0, <1>4, <2>1 DEF LagInv, Stays
    <2>3. TypeOK'
      <3>1. RecordTypes' /\ BackendTypes' /\ ToldTypes' /\ BoundTypes'
        BY <1>0, <1>4, <2>1, TypeParts DEF RecordTypes, BackendTypes, ToldTypes, BoundTypes, Stays
      <3>2. ActTypes' /\ SignerTypes' /\ WorldTypes'
        BY <1>0, <2>1, TypeParts DEF ActTypes, SignerTypes, WorldTypes
      <3> QED BY <1>4, <2>1, <3>1, <3>2, TypePartsNext
    <2>4. StoreInv' /\ AnswerInv' /\ BoundInv' /\ OneKeyPerGeneration' /\ SignerInv'
      BY <1>0, <2>1, StayStore, AnswerStay, BoundStay, SignerStay, StoreForm DEF Stays
    <2> QED BY <1>5, <2>1, <2>2, <2>3, <2>4, StoreFormNext
  <1>7. CASE Commits(n)
    <2>1. Advances(n) /\ WorkerMoves(n) /\ left' \in Budget /\ Exclusive
          /\ worker' \in [Worker -> {NoActor} \cup Tokens]
      BY <1>7 DEF Commits
    <2>2. LagInv'
      <3>1. \A r \in survivors' : r = n \/ r \in survivors
        BY <2>1 DEF Advances
      <3>2. \A i \in DOMAIN n.gc : n.gc[i].st = "unconfirmed" =>
                SlotOf(n.gc[i]) \in gc.seen \/ \E j \in DOMAIN disk.gc : n.gc[i] = disk.gc[j]
        BY <1>2 DEF Moves
      <3> QED BY <1>0, <1>4, <3>1, <3>2 DEF LagInv
    <2>3. TypeOK'
      <3>1. RecordTypes'
        BY <1>0, <1>2, <2>1, TypeParts DEF RecordTypes, Advances, Moves
      <3>2. BackendTypes' /\ ToldTypes' /\ BoundTypes'
        BY <1>0, <1>4, TypeParts DEF BackendTypes, ToldTypes, BoundTypes
      <3>3. ActTypes' /\ SignerTypes' /\ WorldTypes'
        BY <1>0, <2>1, TypeParts DEF ActTypes, SignerTypes, WorldTypes
      <3> QED BY <1>4, <2>1, <3>1, <3>2, <3>3, TypePartsNext
    <2>4. StoreInv'
      BY <1>0, <1>2, <2>1, AdvanceStore
    <2>5. AnswerInv' /\ BoundInv' /\ OneKeyPerGeneration'
      BY <1>0, <1>2, <2>1, AnswerAdvance, BoundAdvance, StoreForm
    <2>6. WorkerInv' /\ SignerInv'
      BY <1>0, <1>2, <2>1, WorkerAdvance, SignerStay, StoreForm
    <2> QED BY <1>5, <2>2, <2>3, <2>4, <2>5, <2>6, StoreFormNext
  <1> QED BY <1>3, <1>6, <1>7

\* What the collector found is recorded.
LEMMA GcRecordStep ==
    ASSUME ControlInv, GcRecord
    PROVE  ControlInv'
  <1>0. /\ TypeOK /\ CollectorInv /\ disk \in Records /\ RecordOK(disk) /\ UNCHANGED <<present, made>>
        /\ gc.pc \in {"inspected", "conflict"}
    BY StoreForm, DiskFacts DEF StoreInv, GcRecord, GcCommit
  <1>1. gc \in Collectors
    <2>1. NoActor.pc = "idle"
      BY DEF NoActor
    <2> QED BY <1>0, <2>1, TypeParts
  <1>2. gc.slot \in Slot /\ gc.slot \in gc.seen /\ gc.key \in 0..MaxKeys
    BY <1>0, <1>1 DEF CollectorInv, Collectors
  <1>3. CASE gc.pc = "conflict" /\ GcCommit(GcInspectionConflict(disk, gc.slot))
    <2> DEFINE next == [awaiting |-> "conflict", unconfirmed |-> "conflict"]
    <2>1. DOMAIN next = {"awaiting", "unconfirmed"} /\ \A a \in DOMAIN next : next[a] = "conflict"
      OBVIOUS
    <2>2. GcInspectionConflict(disk, gc.slot) = GcUpdate(disk, gc.slot, next, 0)
      BY DEF GcInspectionConflict
    <2> HIDE DEF next
    <2>3. \A n \in GcInspectionConflict(disk, gc.slot) :
              Moves(disk, n, {}, {}) /\ n.pending = disk.pending
      BY <1>0, <1>2, <2>1, <2>2, UpdateMoves, SignerAssumption DEF GcStates
    <2> QED BY <1>0, <1>1, <1>3, <2>3, GcCommitStep
  <1>4. CASE gc.pc = "inspected" /\ gc.key # 0 /\ GcCommit(GcInspected(disk, gc.slot, gc.key))
    <2> DEFINE next == [awaiting |-> "pending", unconfirmed |-> "pending"]
    <2>1. DOMAIN next = {"awaiting", "unconfirmed"} /\ \A a \in DOMAIN next : next[a] = "pending"
      OBVIOUS
    <2>2. GcInspected(disk, gc.slot, gc.key) = GcUpdate(disk, gc.slot, next, gc.key)
      BY <1>4 DEF GcInspected
    <2> HIDE DEF next
    <2>3. \A n \in GcInspected(disk, gc.slot, gc.key) :
              Moves(disk, n, {}, {}) /\ n.pending = disk.pending
      BY <1>0, <1>2, <2>1, <2>2, UpdateMoves DEF GcStates
    <2> QED BY <1>0, <1>1, <1>4, <2>3, GcCommitStep
  <1>5. CASE gc.pc = "inspected" /\ gc.key = 0 /\ GcCommit(GcInspected(disk, gc.slot, gc.key))
    <2> DEFINE next == [awaiting |-> "unconfirmed", unconfirmed |-> "absent"]
               lost == {q \in {gc.slot} : \E i \in DOMAIN disk.gc :
                            SlotOf(disk.gc[i]) = gc.slot /\ disk.gc[i].st = "unconfirmed"}
               missed == {gc.slot}
    <2>1. /\ DOMAIN next = {"awaiting", "unconfirmed"} /\ \A a \in DOMAIN next : next[a] \in GcStates
          /\ next["awaiting"] = "unconfirmed" /\ next["unconfirmed"] = "absent"
      BY DEF GcStates
    <2>2. GcInspected(disk, gc.slot, gc.key) = GcUpdate(disk, gc.slot, next, gc.key)
      BY <1>5 DEF GcInspected
    <2>3. lost \cap Owed = {}
      BY <1>0, <1>5 DEF CollectorInv
    <2>4. \A i \in DOMAIN disk.gc : SlotOf(disk.gc[i]) = gc.slot /\ disk.gc[i].st = "unconfirmed" => gc.slot \in lost
      OBVIOUS
    <2>7. missed \subseteq gc.seen /\ gc.slot \in missed
      BY <1>2
    <2> HIDE DEF next, lost, missed
    <2>5. \A i \in DOMAIN disk.gc :
               SlotOf(disk.gc[i]) = gc.slot /\ disk.gc[i].st \in DOMAIN next =>
                   /\ next[disk.gc[i].st] \in {"done", "absent"} => Clean(disk.gc[i]) \/ gc.slot \in lost
                   /\ next[disk.gc[i].st] = "unconfirmed" => gc.slot \in missed
      BY <2>1, <2>4, <2>7
    <2>6. \A n \in GcInspected(disk, gc.slot, gc.key) :
              Moves(disk, n, lost, missed) /\ n.pending = disk.pending
      BY <1>0, <1>2, <2>1, <2>2, <2>5, UpdateMoves
    <2> QED BY <1>0, <1>1, <1>5, <2>3, <2>6, <2>7, GcCommitStep
  <1> QED BY <1>3, <1>4, <1>5 DEF GcRecord

\* What became of the key is recorded.
LEMMA GcFinishStep ==
    ASSUME ControlInv, GcFinish
    PROVE  ControlInv'
  <1>0. /\ TypeOK /\ CollectorInv /\ disk \in Records /\ RecordOK(disk) /\ UNCHANGED <<present, made>>
        /\ gc.pc = "destroyed" /\ GcCommit(GcResolved(disk, gc.slot, gc.st))
    BY StoreForm, DiskFacts DEF StoreInv, GcFinish, GcCommit
  <1>1. gc \in Collectors
    <2>1. NoActor.pc = "idle"
      BY DEF NoActor
    <2> QED BY <1>0, <2>1, TypeParts
  <1>2. gc.slot \in Slot /\ gc.st \in {"done", "pending", "quarantine"} /\ 0 \in 0..MaxKeys
        /\ (gc.st = "done" => gc.slot \notin Owed)
    <2>1. gc.st \in {"", "done", "pending", "quarantine"}
      BY <1>1 DEF Collectors
    <2>3. 0 \in 0..MaxKeys
      BY SignerAssumption
    <2>2. gc.slot \in Slot /\ gc.st # "" /\ (gc.st = "done" => gc.slot \notin Owed)
      BY <1>0 DEF CollectorInv
    <2> QED BY <2>1, <2>2, <2>3
  <1> DEFINE next == [pending |-> gc.st, done |-> gc.st]
             lost == {q \in {gc.slot} : gc.st = "done"}
  <1>3. DOMAIN next = {"pending", "done"} /\ \A a \in DOMAIN next : next[a] = gc.st
    OBVIOUS
  <1>4. GcResolved(disk, gc.slot, gc.st) = GcUpdate(disk, gc.slot, next, 0)
    BY DEF GcResolved
  <1>5. lost \cap Owed = {} /\ (gc.st = "done" => gc.slot \in lost)
    BY <1>2
  <1> HIDE DEF next, lost
  <1>6. \A n \in GcResolved(disk, gc.slot, gc.st) : Moves(disk, n, lost, {}) /\ n.pending = disk.pending
    BY <1>0, <1>2, <1>3, <1>4, <1>5, UpdateMoves DEF GcStates
  <1> QED BY <1>0, <1>1, <1>5, <1>6, GcCommitStep

\* The record is stable before the key is destroyed.
LEMMA GcStabilizeStep ==
    ASSUME ControlInv, GcStabilize
    PROVE  ControlInv'
  <1>0. /\ UNCHANGED <<present, made, worker, act, signer, roster, now, history>>
        /\ TypeOK /\ LagInv /\ gc.pc = "tick" /\ gc # NoActor
        /\ disk \in Records /\ RecordOK(disk) /\ disk \in survivors /\ left \in Budget /\ Owed' = Owed
    <2>1. TypeOK /\ LagInv /\ disk \in Records /\ RecordOK(disk) /\ disk \in survivors
      BY StoreForm, DiskFacts DEF StoreInv
    <2>2. gc.pc = "tick" /\ UNCHANGED <<present, made, worker, act, signer, roster, now, history>>
          /\ Owed' = Owed
      BY DEF GcStabilize, Owed, history
    <2>3. gc # NoActor
      BY <2>2 DEF NoActor
    <2> QED BY <2>1, <2>2, <2>3, TypeParts DEF WorldTypes
  <1>1. gc \in Collectors
    BY <1>0, TypeParts
  <1>2. PICK e \in Range(disk.gc) :
            /\ Selected(e) /\ e.st = "pending"
            /\ \/ /\ Stabilized /\ UNCHANGED lagging
                  /\ gc' = [gc EXCEPT !.pc = "stable", !.slot = SlotOf(e), !.key = e.key,
                                      !.tried = @ \cup {SlotOf(e)}]
               \/ /\ Exclusive /\ left.faults > 0 /\ left' = [left EXCEPT !.faults = @ - 1]
                  /\ gc' = NoActor /\ lagging' = {} /\ UNCHANGED record
    BY DEF GcStabilize
  <1>3. PICK i \in DOMAIN disk.gc : e = disk.gc[i]
    BY <1>2 DEF Range
  <1>4. /\ SlotOf(e) \in Slot /\ Past(disk, SlotOf(e)) /\ e.key \in 0..MaxKeys
        /\ \A j \in DOMAIN disk.live : SlotOf(disk.live[j]) # SlotOf(e)
    BY <1>0, <1>3, CollectedPast, RecordFields DEF GcEntries
  <1>5. CASE /\ Stabilized /\ UNCHANGED lagging
             /\ gc' = [gc EXCEPT !.pc = "stable", !.slot = SlotOf(e), !.key = e.key,
                                 !.tried = @ \cup {SlotOf(e)}]
    <2>1. Stays /\ disk' = disk /\ survivors' = {disk} /\ left' \in Budget
      BY <1>0, <1>5, StabilizedFacts
    <2>2. gc' \in Collectors /\ gc'.pc = "stable" /\ gc'.slot = SlotOf(e) /\ gc'.seen = gc.seen
      BY <1>1, <1>4, <1>5 DEF Collectors
    <2>3. gc' # NoActor
      <3>1. NoActor.pc = "idle"
        BY DEF NoActor
      <3> QED BY <2>2, <3>1
    <2>4. LagInv'
      BY <1>0, <1>5, <2>1, <2>2, <2>3 DEF LagInv
    <2>5. CollectorInv'
      BY <1>4, <2>1, <2>2 DEF CollectorInv, Past
    <2> QED BY <1>0, <1>5, <2>1, <2>2, <2>4, <2>5, TickStep
  <1>6. CASE /\ left.faults > 0 /\ left' = [left EXCEPT !.faults = @ - 1]
             /\ gc' = NoActor /\ lagging' = {} /\ UNCHANGED record
    <2>1. Stays /\ disk' = disk /\ left' \in Budget
      BY <1>0, <1>6, LeftFacts DEF record, Stays
    <2>2. CollectorInv' /\ LagInv'
      BY <1>6 DEF CollectorInv, LagInv, NoActor
    <2> QED BY <1>0, <1>6, <2>1, <2>2, TickStep
  <1> QED BY <1>2, <1>5, <1>6

\* The key is destroyed, or not.
LEMMA GcDestroyStep ==
    ASSUME ControlInv, GcDestroy
    PROVE  ControlInv'
  <1> DEFINE s == gc.slot
  <1>0. /\ UNCHANGED <<record, made, lagging, worker, act, signer, roster, now, left, history>>
        /\ UNCHANGED <<disk, survivors, told, bound, late>>
        /\ TypeOK /\ StoreInv /\ WorkerInv /\ CollectorInv /\ LagInv /\ BoundInv
        /\ gc.pc = "stable" /\ disk \in survivors /\ Stays
    BY StoreForm DEF GcDestroy, record, history, TypeOK, Stays
  <1>1. gc \in Collectors /\ gc # NoActor
    <2>1. NoActor.pc = "idle"
      BY DEF NoActor
    <2> QED BY <1>0, <2>1, TypeParts
  <1>2. /\ s \in Slot
        /\ \A r \in survivors : Past(r, s) /\ \A i \in DOMAIN r.live : SlotOf(r.live[i]) # s
    BY <1>0 DEF CollectorInv
  <1>3. left' \in Budget /\ left' = left
    BY <1>0, TypeParts DEF WorldTypes
  <1>4. \/ gc' = [gc EXCEPT !.pc = "tick", !.slot = None, !.key = 0] /\ UNCHANGED present
        \/ present' = present \ {s} /\ gc' = [gc EXCEPT !.pc = "destroyed", !.st = "done"]
        \/ gc' = [gc EXCEPT !.pc = "destroyed", !.st = "pending"] /\ UNCHANGED present
        \/ gc' = [gc EXCEPT !.pc = "destroyed", !.st = "quarantine"] /\ UNCHANGED present
    BY DEF GcDestroy
  <1>5. /\ gc' \in Collectors /\ gc'.seen = gc.seen
        /\ \/ gc'.pc = "tick" /\ UNCHANGED present
           \/ gc'.pc = "destroyed" /\ gc'.st = "done" /\ gc'.slot = s /\ present' = present \ {s}
           \/ gc'.pc = "destroyed" /\ gc'.st \notin {"", "done"} /\ gc'.slot = s /\ UNCHANGED present
    <2>1. 0 \in 0..MaxKeys
      BY SignerAssumption
    <2>2. CASE gc' = [gc EXCEPT !.pc = "tick", !.slot = None, !.key = 0] /\ UNCHANGED present
      BY <1>1, <2>1, <2>2 DEF Collectors
    <2>3. CASE present' = present \ {s} /\ gc' = [gc EXCEPT !.pc = "destroyed", !.st = "done"]
      BY <1>1, <2>3 DEF Collectors
    <2>4. CASE gc' = [gc EXCEPT !.pc = "destroyed", !.st = "pending"] /\ UNCHANGED present
      BY <1>1, <2>4 DEF Collectors
    <2>5. CASE gc' = [gc EXCEPT !.pc = "destroyed", !.st = "quarantine"] /\ UNCHANGED present
      BY <1>1, <2>5 DEF Collectors
    <2> QED BY <1>4, <2>2, <2>3, <2>4, <2>5
  <1>6. gc' # NoActor
    <2>1. NoActor.pc = "idle"
      BY DEF NoActor
    <2> QED BY <1>5, <2>1
  <1> HIDE DEF s
  <1>7. Owed' \subseteq Owed /\ present' \subseteq present /\ \A q \in present : q # s => q \in present'
    BY <1>0, <1>5 DEF Owed
  <1>8. LagInv'
    BY <1>0, <1>5, <1>6, <1>7 DEF LagInv
  <1>9. CollectorInv'
    <2>1. gc'.pc = "destroyed" /\ gc'.st = "done" => s \notin Owed'
      BY <1>5 DEF Owed
    <2> QED BY <1>0, <1>2, <1>5, <2>1 DEF CollectorInv, Past
  <1>10. CASE UNCHANGED present
    BY <1>0, <1>3, <1>5, <1>8, <1>9, <1>10, TickStep
  <1>11. CASE present' = present \ {s}
    <2>1. TypeOK'
      <3>1. RecordTypes' /\ BackendTypes' /\ ToldTypes' /\ BoundTypes'
        BY <1>0, <1>7, TypeParts DEF RecordTypes, BackendTypes, ToldTypes, BoundTypes
      <3>2. ActTypes' /\ SignerTypes' /\ WorldTypes' /\ worker' \in [Worker -> {NoActor} \cup Tokens]
        BY <1>0, TypeParts DEF ActTypes, SignerTypes, WorldTypes
      <3> QED BY <1>5, <3>1, <3>2, TypePartsNext
    <2>2. StoreInv'
      <3>1. RecordsInv' /\ ChainInv' /\ KeysMade'
        BY <1>0, <1>7 DEF StoreInv, RecordsInv, ChainInv, KeysMade
      <3>2. RelyOnPresentKeys'
        <4>1. \A r \in survivors : Relies(r)
          BY <1>0, ReliesForm DEF StoreInv
        <4>2. \A r \in survivors : \A g \in Relied(r) : SlotOf(g) # s
          BY <1>2 DEF Relied, Range, Past
        <4> QED BY <1>0, <1>7, <4>2 DEF StoreInv, RelyOnPresentKeys
      <3>3. KeysTracked'
        <4>1. \A q \in Owed' : \A r \in survivors : Names(r, q)
          BY <1>0, <1>7, TrackedForm DEF StoreInv
        <4> QED BY <1>0, <4>1, TrackedNames DEF KeysTracked, Owed
      <3> QED BY <3>1, <3>2, <3>3 DEF StoreInv
    <2>3. WorkerInv'
      <3>1. \A w \in Worker : worker[w] # NoActor /\ worker[w].pc = "made" => SlotOf(worker[w].op) # s
        <4> SUFFICES ASSUME NEW w \in Worker, worker[w] # NoActor, worker[w].pc = "made"
                     PROVE  SlotOf(worker[w].op) # s
          OBVIOUS
        <4>1. disk.pending = worker[w].op /\ worker[w].op \in PendingOps
          BY <1>0, ActorFacts DEF WorkerInv
        <4>2. disk.pending # None
          BY <4>1, SignerAssumption
        <4> QED BY <1>0, <1>2, <4>1, <4>2 DEF Past
      <3> QED BY <1>0, <1>7, <3>1 DEF WorkerInv
    <2>4. BoundInv' /\ OneKeyPerGeneration'
      BY <1>0, <1>2, <1>7, StoreForm DEF BoundInv, OneKeyPerGeneration, Past
    <2>5. AnswerInv' /\ SignerInv'
      BY <1>0, AnswerStay, SignerStay, StoreForm
    <2> QED BY <1>8, <1>9, <2>1, <2>2, <2>3, <2>4, <2>5, StoreFormNext
  <1> QED BY <1>5, <1>10, <1>11

-----------------------------------------------------------------------------
(* The invariant holds.                                                     *)

\* The invariant holds in the bootstrap record.
LEMMA InitControlInv == Init => ControlInv
  <1> SUFFICES ASSUME Init PROVE ControlInv
    OBVIOUS
  <1>0. /\ MaxGen \in Nat /\ MaxGen > 1 /\ MaxEpoch \in Nat /\ MaxEpoch > 0 /\ MaxKeys \in Nat
        /\ MaxTerminals \in Nat \ {0} /\ Budgets \subseteq Budget
    BY SignerAssumption
  <1>1. bootstrap \in Records
    BY <1>0 DEF bootstrap, Records, Gen
  <1>2. /\ bootstrap.auth = "empty" /\ bootstrap.pending = None /\ bootstrap.hw = 1 /\ bootstrap.current = 0
        /\ bootstrap.live = <<>> /\ bootstrap.gc = <<>> /\ bootstrap.terminals = <<>> /\ bootstrap.epoch = 1
    BY DEF bootstrap
  <1>3. DOMAIN <<>> = {} /\ Len(<<>>) = 0
    OBVIOUS
  <1>4. RecordOK(bootstrap)
    BY <1>0, <1>2, <1>3 DEF RecordOK, Apart, Below, PendingOK, AuthorityOK, TerminalsOK
  <1>5. Used(bootstrap) = 0
    BY <1>2 DEF Used
  <1>6. NoActor.pc = "idle" /\ worker \in [Worker -> {NoActor} \cup Tokens]
    BY DEF NoActor, Init
  <1>7. TypeOK
    <2>1. RecordTypes /\ BoundTypes
      BY <1>1 DEF Init, RecordTypes, BoundTypes
    <2>2. BackendTypes
      BY <1>0 DEF Init, BackendTypes
    <2>3. ActTypes /\ SignerTypes /\ gc \in {NoActor} \cup Collectors
      BY DEF Init, ActTypes, SignerTypes
    <2>4. WorldTypes
      BY <1>0 DEF Init, WorldTypes
    <2>5. ToldTypes
      BY <1>0 DEF Init, ToldTypes
    <2> QED BY <1>6, <2>1, <2>2, <2>3, <2>4, <2>5, TypeParts
  <1>8. RecordsInv /\ ChainInv
    BY <1>2, <1>4, <1>5 DEF Init, RecordsInv, ChainInv
  <1>9. WorkerInv /\ CollectorInv /\ SignerInv /\ BoundInv /\ OneKeyPerGeneration /\ KeysMade
    BY <1>6 DEF Init, WorkerInv, CollectorInv, SignerInv, BoundInv, OneKeyPerGeneration, KeysMade
  <1>10. LagInv /\ KeysTracked
    BY DEF Init, LagInv, KeysTracked
  <1>11. RelyOnPresentKeys
    BY <1>2, <1>3 DEF Init, RelyOnPresentKeys, Relied, Range
  <1>12. AnswerInv
    BY <1>2, <1>5 DEF Init, AnswerInv
  <1> QED BY <1>7, <1>8, <1>9, <1>10, <1>11, <1>12 DEF ControlInv

\* Every step keeps the invariant.
LEMMA NextControlInv == ControlInv /\ [Next]_vars => ControlInv'
  <1> SUFFICES ASSUME ControlInv, [Next]_vars PROVE ControlInv'
    OBVIOUS
  <1>1. CASE UNCHANGED vars
    <2>1. /\ UNCHANGED <<disk, survivors, present, made, lagging, worker, act, gc, signer, roster, now,
                         left, told, bound, late>>
      BY <1>1 DEF vars, record, backend, history
    <2>2. UNCHANGED <<record, backend, worker, gc, history, told>>
      BY <2>1 DEF record, backend, history
    <2>3. ActTypes' /\ SignerTypes' /\ WorldTypes' /\ SignerInv'
      BY <2>1, <2>2, StoreForm, TypeParts, SignerStay DEF ActTypes, SignerTypes, WorldTypes
    <2> QED BY <2>2, <2>3, AsideStep
  <1>2. ASSUME NEW w \in Worker, NEW t \in Txn, Intent(w, t) \/ \E u \in Txn : Reactivate(w, t, u)
        PROVE  ControlInv'
    BY <1>2, IntentStep, ReactivateStep
  <1>3. ASSUME NEW w \in Worker, Recover(w) \/ CreateKey(w) \/ ObserveKey(w) \/ GiveUp(w)
        PROVE  ControlInv'
    BY <1>3, RecoverStep, CreateKeyStep, ObserveStep, GiveUpStep
  <1>4. ASSUME NEW t \in Txn, Revoke(t) \/ RevokeAgain(t) \/ Ack(t)
        PROVE  ControlInv'
    BY <1>4, RevokeStep, RevokeAgainStep, AckStep
  <1>5. ASSUME NEW t \in Txn, NEW na \in Delegation, ActivateValidate(t, na)
        PROVE  ControlInv'
    BY <1>5, ValidateStep
  <1>6. ASSUME NEW g \in Gen, Expire(g)
        PROVE  ControlInv'
    BY <1>6, ExpireStep
  <1>7. CASE ActivateCommit \/ ActivateFails
    BY <1>7, ActivateStep, ActivateFailsStep
  <1>8. CASE GcStart \/ GcInspect \/ GcRecord \/ GcStabilize \/ GcDestroy \/ GcFinish \/ GcEnd \/ GcRemove
    BY <1>8, GcStartStep, GcInspectStep, GcRecordStep, GcStabilizeStep, GcDestroyStep, GcFinishStep,
       GcEndStep, GcRemoveStep
  <1>9. CASE SignLoad \/ SignEnter \/ SignDone \/ SignDrop
    BY <1>9, SignLoadStep, SignEnterStep, SignDoneStep, SignDropStep
  <1>10. CASE RosterChange \/ Clock \/ Crash
    BY <1>10, RosterStep, ClockStep, CrashStep
  <1> QED BY <1>1, <1>2, <1>3, <1>4, <1>5, <1>6, <1>7, <1>8, <1>9, <1>10, Zenon DEF Next

\* The inductive invariant holds in every state, whatever the clients, the workers, the
\* activation, the collector, the signer, failed commits and crashes do.
THEOREM ControlInvariant == Spec => []ControlInv
  BY InitControlInv, NextControlInv, PTL DEF Spec

-----------------------------------------------------------------------------
(* What it says.                                                            *)

\* Sequences whose generations differ have a concatenation whose generations differ.
LEMMA JoinApart ==
    ASSUME NEW S, NEW s \in Seq(S), NEW t \in Seq(S),
           \A i, j \in DOMAIN s : s[i].gen = s[j].gen => i = j,
           \A i, j \in DOMAIN t : t[i].gen = t[j].gen => i = j,
           \A i \in DOMAIN s, j \in DOMAIN t : s[i].gen # t[j].gen
    PROVE  \A i, j \in DOMAIN (s \o t) : (s \o t)[i].gen = (s \o t)[j].gen => i = j
  <1> DEFINE c == s \o t
             m == Len(s)
  <1>1. /\ \A i \in DOMAIN s : i \in DOMAIN c /\ c[i] = s[i]
        /\ \A j \in DOMAIN t : m + j \in DOMAIN c /\ c[m + j] = t[j]
        /\ \A k \in DOMAIN c : k \in DOMAIN s \/ \E j \in DOMAIN t : k = m + j
    BY ConcatFacts
  <1> HIDE DEF c, m
  <1>2. ASSUME NEW i \in DOMAIN c, NEW j \in DOMAIN c, c[i].gen = c[j].gen PROVE i = j
    <2>1. CASE i \in DOMAIN s /\ j \in DOMAIN s
      BY <1>1, <1>2, <2>1
    <2>2. CASE i \in DOMAIN s /\ j \notin DOMAIN s
      BY <1>1, <1>2, <2>2
    <2>3. CASE i \notin DOMAIN s /\ j \in DOMAIN s
      BY <1>1, <1>2, <2>3
    <2>4. CASE i \notin DOMAIN s /\ j \notin DOMAIN s
      <3>1. PICK a \in DOMAIN t : i = m + a
        BY <1>1, <2>4
      <3>2. PICK b \in DOMAIN t : j = m + b
        BY <1>1, <2>4
      <3>3. a = b
        BY <1>1, <1>2, <3>1, <3>2
      <3> QED BY <3>1, <3>2, <3>3
    <2> QED BY <2>1, <2>2, <2>3, <2>4
  <1> QED BY <1>2 DEF c

\* A well formed record names no slot twice.
LEMMA SlotsDistinct ==
    ASSUME NEW r \in Records, RecordOK(r)
    PROVE  Distinct(SlotsOf(r))
  <1> DEFINE S == Generations \cup GcEntries \cup PendingOps
             a == r.live \o r.gc
             p == IF r.pending = None THEN <<>> ELSE <<r.pending>>
             all == a \o p
  <1>1. /\ r.live \in Seq(Generations) /\ r.gc \in Seq(GcEntries) /\ r.pending \in PendingOps \cup {None}
        /\ \A i \in DOMAIN r.live : r.live[i] \in Generations
        /\ \A i \in DOMAIN r.gc : r.gc[i] \in GcEntries
    BY RecordFields
  <1>2. r.live \in Seq(S) /\ r.gc \in Seq(S)
    BY <1>1
  <1>3. /\ p \in Seq(S)
        /\ \A i \in DOMAIN p : i = 1 /\ r.pending # None /\ p[i] = r.pending
    <2>1. CASE r.pending = None
      <3>1. p = <<>> /\ DOMAIN <<>> = {} /\ <<>> \in Seq(S)
        BY <2>1
      <3> HIDE DEF p, S
      <3> QED BY <3>1
    <2>2. CASE r.pending # None
      <3> DEFINE q == r.pending
      <3>1. p = <<q>> /\ q \in S
        BY <1>1, <2>2
      <3> HIDE DEF p, S, q
      <3>2. <<q>> \in Seq(S) /\ DOMAIN <<q>> = {1} /\ <<q>>[1] = q
        BY <3>1
      <3> QED BY <2>2, <3>1, <3>2 DEF q
    <2> QED BY <2>1, <2>2
  <1> HIDE DEF S, p
  <1>4. /\ \A i, j \in DOMAIN r.live : r.live[i].gen = r.live[j].gen => i = j
        /\ \A i, j \in DOMAIN r.gc : r.gc[i].gen = r.gc[j].gen => i = j
        /\ \A i \in DOMAIN r.live, j \in DOMAIN r.gc : r.live[i].gen # r.gc[j].gen
    BY DEF RecordOK, Apart
  <1>5. \A i, j \in DOMAIN a : a[i].gen = a[j].gen => i = j
    BY <1>2, <1>4, JoinApart, Zenon
  <1>6. /\ a \in Seq(S)
        /\ \A i \in DOMAIN r.live : i \in DOMAIN a /\ a[i] = r.live[i]
        /\ \A j \in DOMAIN r.gc : Len(r.live) + j \in DOMAIN a /\ a[Len(r.live) + j] = r.gc[j]
        /\ \A k \in DOMAIN a : k \in DOMAIN r.live \/ \E j \in DOMAIN r.gc : k = Len(r.live) + j
    <2> DEFINE l == r.live
               g == r.gc
    <2>1. l \in Seq(S) /\ g \in Seq(S) /\ a = l \o g
      BY <1>2
    <2> HIDE DEF l, g, a
    <2>2. /\ l \o g \in Seq(S)
          /\ \A i \in DOMAIN l : i \in DOMAIN (l \o g) /\ (l \o g)[i] = l[i]
          /\ \A j \in DOMAIN g : Len(l) + j \in DOMAIN (l \o g) /\ (l \o g)[Len(l) + j] = g[j]
          /\ \A k \in DOMAIN (l \o g) : k \in DOMAIN l \/ \E j \in DOMAIN g : k = Len(l) + j
      BY <2>1, ConcatFacts
    <2> QED BY <2>1, <2>2, Zenon DEF l, g
  <1> HIDE DEF a
  <1>7. \A i \in DOMAIN a, j \in DOMAIN p : a[i].gen # p[j].gen
    <2>1. r.pending # None =>
              /\ \A i \in DOMAIN r.live : r.live[i].gen # r.pending.gen
              /\ \A i \in DOMAIN r.gc : r.gc[i].gen # r.pending.gen
      BY <1>1, RecordFields DEF RecordOK, Below, Generations, GcEntries, Gen
    <2> QED BY <1>3, <1>6, <2>1
  <1>8. \A i, j \in DOMAIN p : p[i].gen = p[j].gen => i = j
    BY <1>3
  <1>9. \A i, j \in DOMAIN all : all[i].gen = all[j].gen => i = j
    <2>1. a \in Seq(S) /\ p \in Seq(S)
      BY <1>3, <1>6
    <2> QED BY <1>5, <1>7, <1>8, <2>1, JoinApart
  <1>10. SlotsOf(r) = [i \in DOMAIN all |-> SlotOf(all[i])]
    BY DEF SlotsOf, all, a, p
  <1> HIDE DEF all
  <1>11. \A i, j \in DOMAIN all : SlotOf(all[i]) = SlotOf(all[j]) => i = j
    BY <1>9 DEF SlotOf
  <1> QED BY <1>10, <1>11 DEF Distinct

\* A well formed record passes the check of load_canonical.
LEMMA WellFormedLoads ==
    ASSUME NEW r \in Records, RecordOK(r)
    PROVE  invariants_hold(r)
  <1>1. Distinct(SlotsOf(r))
    BY SlotsDistinct
  <1>2. /\ Distinct([i \in DOMAIN r.live |-> r.live[i].gen])
        /\ Distinct([i \in DOMAIN r.terminals |-> r.terminals[i].txn])
    BY DEF RecordOK, Apart, TerminalsOK, Distinct
  <1>3. \A x \in Range(r.live) \cup Range(r.gc) : x.gen <= r.hw
    BY DEF RecordOK, Below, Range
  <1>4. /\ (r.auth = "active") <=> (r.current # 0)
        /\ r.current # 0 => r.current <= r.hw /\ \E g \in Range(r.live) : g.gen = r.current
        /\ Len(r.terminals) <= MaxTerminals
    BY DEF RecordOK, AuthorityOK, TerminalsOK, Below, Range
  <1>5. r.pending # None =>
            /\ r.pending.epoch = r.epoch /\ r.pending.gen <= r.hw
            /\ r.pending.phase = "observed" <=> r.pending.key # 0
            /\ <<r.auth, r.pending.kind>> \in {<<"empty", "create">>, <<"active", "rotate">>,
                                               <<"revoked", "reactivate">>}
    BY RecordFields DEF RecordOK, PendingOK, Below
  <1> QED BY <1>1, <1>2, <1>3, <1>4, <1>5 DEF invariants_hold

\* What RevokeUrgent leaves in collection, and that it takes no more room than before.
LEMMA RevokeRoom ==
    ASSUME NEW r \in Records, RecordOK(r), NEW c, c = r.gc \o Dead(r)
    PROVE  /\ \A i, j \in DOMAIN c : c[i].gen = c[j].gen => i = j
           /\ Cardinality({i \in DOMAIN c : ~Clean(c[i])}) <= cap_occupancy(r)
  <1> DEFINE g == r.gc
             d == Dead(r)
             m == Len(g)
             A == {i \in DOMAIN g : ~Clean(g[i])}
             B == (m + 1)..(m + Len(d))
             C == {i \in DOMAIN c : ~Clean(c[i])}
  <1>1. /\ g \in Seq(GcEntries) /\ m \in Nat /\ DOMAIN g = 1..m
        /\ Len(r.live) \in Nat /\ \A i \in DOMAIN g : g[i] \in GcEntries
    BY RecordFields, LenProperties
  <1>2. /\ d \in Seq(GcEntries) /\ Len(d) = Len(r.live) + (IF r.pending = None THEN 0 ELSE 1)
        /\ \A k \in DOMAIN d :
               /\ ~Clean(d[k])
               /\ \/ \E i \in DOMAIN r.live : d[k].gen = r.live[i].gen
                  \/ r.pending # None /\ d[k].gen = r.pending.gen
        /\ \A i, j \in DOMAIN d : d[i].gen = d[j].gen => i = j
    BY DeadFacts
  <1>3. Len(d) \in Nat /\ DOMAIN d = 1..Len(d)
    BY <1>2, LenProperties
  <1>4. \A i \in DOMAIN g, j \in DOMAIN d : g[i].gen # d[j].gen
    <2>1. \A i \in DOMAIN g : r.pending # None => g[i].gen # r.pending.gen
      BY <1>1, RecordFields DEF RecordOK, Below, GcEntries, Gen
    <2>2. \A i \in DOMAIN r.live, j \in DOMAIN g : r.live[i].gen # g[j].gen
      BY DEF RecordOK, Apart
    <2> HIDE DEF g, d
    <2> QED BY <1>2, <2>1, <2>2
  <1>5. \A i, j \in DOMAIN g : g[i].gen = g[j].gen => i = j
    BY DEF RecordOK, Apart
  <1>a. c = g \o d
    OBVIOUS
  <1>b. cap_occupancy(r) = Len(r.live) + (IF r.pending = None THEN 0 ELSE 1) + Cardinality(A)
    BY DEF cap_occupancy
  <1> HIDE DEF g, d
  <1>c. g \in Seq(GcEntries) /\ d \in Seq(GcEntries) /\ \A i, j \in DOMAIN d : d[i].gen = d[j].gen => i = j
    BY <1>1, <1>2
  <1>6. \A i, j \in DOMAIN c : c[i].gen = c[j].gen => i = j
    <2>1. \A i, j \in DOMAIN (g \o d) : (g \o d)[i].gen = (g \o d)[j].gen => i = j
      BY <1>4, <1>5, <1>c, JoinApart
    <2> QED BY <1>a, <2>1, Zenon
  <1>7. /\ \A i \in DOMAIN g : i \in DOMAIN c /\ c[i] = g[i]
        /\ \A j \in DOMAIN d : Len(g) + j \in DOMAIN c /\ c[Len(g) + j] = d[j]
        /\ \A k \in DOMAIN c : k \in DOMAIN g \/ \E j \in DOMAIN d : k = Len(g) + j
    <2>1. /\ \A i \in DOMAIN g : i \in DOMAIN (g \o d) /\ (g \o d)[i] = g[i]
          /\ \A j \in DOMAIN d : Len(g) + j \in DOMAIN (g \o d) /\ (g \o d)[Len(g) + j] = d[j]
          /\ \A k \in DOMAIN (g \o d) : k \in DOMAIN g \/ \E j \in DOMAIN d : k = Len(g) + j
      BY <1>c, ConcatFacts
    <2> QED BY <1>a, <2>1, Zenon
  <1>8. IsFiniteSet(A) /\ Cardinality(A) \in Nat
    <2>1. IsFiniteSet(1..m)
      BY <1>1, FS_Interval
    <2>2. A \subseteq 1..m
      BY <1>1
    <2> HIDE DEF A
    <2> QED BY <2>1, <2>2, FS_Subset, FS_CardinalityType
  <1>9. IsFiniteSet(B) /\ Cardinality(B) = Len(d)
    <2>1. m + 1 \in Int /\ m + Len(d) \in Int
      BY <1>1, <1>3
    <2>2. IsFiniteSet(B) /\ Cardinality(B) = IF m + 1 > m + Len(d) THEN 0 ELSE (m + Len(d)) - (m + 1) + 1
      BY <2>1, FS_Interval
    <2> HIDE DEF B, m
    <2> QED BY <1>1, <1>3, <2>2
  <1>10. C = A \cup B
    <2>1. ASSUME NEW k \in C PROVE k \in A \cup B
      <3>1. CASE k \in DOMAIN g
        BY <1>7, <2>1, <3>1
      <3>2. CASE \E j \in DOMAIN d : k = m + j
        BY <1>1, <1>3, <3>2
      <3> QED BY <1>7, <3>1, <3>2
    <2>2. ASSUME NEW k \in A PROVE k \in C
      BY <1>7
    <2>3. ASSUME NEW k \in B PROVE k \in C
      <3>1. k - m \in DOMAIN d /\ k = m + (k - m)
        BY <1>1, <1>3
      <3>2. k \in DOMAIN c /\ c[k] = d[k - m]
        BY <1>7, <3>1
      <3> QED BY <1>2, <3>1, <3>2
    <2> QED BY <2>1, <2>2, <2>3
  <1>11. A \cap B = {}
    BY <1>1, <1>3
  <1>12. Cardinality(C) = Cardinality(A) + Len(d)
    <2> HIDE DEF A, B, C
    <2>1. Cardinality(A \cup B) = Cardinality(A) + Cardinality(B) - Cardinality(A \cap B)
      BY <1>8, <1>9, FS_Union
    <2>2. Cardinality(A \cap B) = 0
      BY <1>11, FS_EmptySet
    <2> QED BY <1>3, <1>8, <1>9, <1>10, <2>1, <2>2
  <1>13. Cardinality(C) <= cap_occupancy(r)
    <2> DEFINE p == IF r.pending = None THEN 0 ELSE 1
               a == Cardinality(A)
    <2>1. p \in Nat /\ a \in Nat /\ Len(d) = Len(r.live) + p /\ cap_occupancy(r) = Len(r.live) + p + a
          /\ Cardinality(C) = a + Len(d)
      BY <1>2, <1>8, <1>12, <1>b
    <2> HIDE DEF A, C, p, a
    <2> QED BY <1>1, <2>1
  <1> QED BY <1>6, <1>13

\* A revocation of a well formed record is not refused.
LEMMA RevokeAccepted ==
    ASSUME NEW r \in Records, RecordOK(r), NEW t \in Txn, Terminals(r, t) = {}
    PROVE  RevokeUrgent(r, t) # {}
  <1> DEFINE x == Terminal(t, <<"revoke">>, r.epoch + 1)
             c == r.gc \o Dead(r)
  <1>1. r.terminals \in Seq(TerminalResults) /\ r.epoch \in Nat /\ r.hw \in Nat /\ MaxCap \in Nat
        /\ \A i \in DOMAIN r.live : r.live[i] \in Generations
    BY RecordFields, SignerAssumption
  <1>2. PICK v : v \in push_bounded_terminal(r.terminals, x, TRUE)
    BY <1>1, PushUrgent
  <1> DEFINE n == [r EXCEPT !.epoch = @ + 1, !.auth = "revoked", !.gc = @ \o Dead(r),
                            !.pending = None, !.live = <<>>, !.current = 0, !.terminals = v]
  <1>3. /\ n.epoch = r.epoch + 1 /\ n.gc = c /\ n.pending = None /\ n.live = <<>> /\ n.current = 0
        /\ n.hw = r.hw
    BY DEF Records
  <1>4. /\ \A i, j \in DOMAIN c : c[i].gen = c[j].gen => i = j
        /\ Cardinality({i \in DOMAIN c : ~Clean(c[i])}) <= cap_occupancy(r)
    BY RevokeRoom
  <1>5. Range(<<>>) = {} /\ Len(<<>>) = 0
    BY DEF Range
  <1>6. cap_occupancy(n) = Cardinality({i \in DOMAIN c : ~Clean(c[i])})
    <2>1. Cardinality({i \in DOMAIN c : ~Clean(c[i])}) \in Nat
      <3>1. c \in Seq(GcEntries)
        BY DeadFacts, RecordFields, ConcatFacts
      <3> HIDE DEF c
      <3>2. Len(c) \in Nat /\ DOMAIN c = 1..Len(c)
        BY <3>1, LenProperties
      <3>3. IsFiniteSet(1..Len(c))
        BY <3>2, FS_Interval
      <3>4. IsFiniteSet({i \in DOMAIN c : ~Clean(c[i])})
        BY <3>2, <3>3, FS_Subset
      <3> QED BY <3>4, FS_CardinalityType
    <2> HIDE DEF n, c
    <2> QED BY <1>3, <1>5, <2>1 DEF cap_occupancy
  <1> HIDE DEF n, c, x
  <1>7. validate_shared_invariants(r, n, Gen)
    <2>1. \A g \in Range(r.live) : g.gen \in Gen
      BY <1>1 DEF Range, Generations
    <2>2. Distinct([i \in DOMAIN n.gc |-> SlotOf(n.gc[i])])
      BY <1>3, <1>4 DEF Distinct, SlotOf
    <2>3. n.hw >= r.hw /\ n.epoch >= r.epoch /\ n.current = 0
      BY <1>1, <1>3
    <2>4. cap_occupancy(n) <= cap_occupancy(r) /\ Range(n.live) = {}
      BY <1>3, <1>4, <1>5, <1>6
    <2> QED BY <2>1, <2>2, <2>3, <2>4 DEF validate_shared_invariants
  <1>8. n \in RevokeUrgent(r, t)
    BY <1>2, <1>7 DEF RevokeUrgent, Dead, n, x
  <1> QED BY <1>8

\* The variables keep their types.
THEOREM TypeCorrect == Spec => []TypeOK
  <1>1. ControlInv => TypeOK
    BY DEF ControlInv
  <1> QED BY <1>1, ControlInvariant, PTL

\* Every record that a crash may leave passes the check of load_canonical: no sequence of
\* requests, failed commits and crashes makes the record one that is read as Corrupt.
THEOREM RecordsLoad == Spec => []RecordLoads
  <1>1. ControlInv => RecordLoads
    BY StoreForm, DiskFacts, WellFormedLoads DEF StoreInv, RecordLoads
  <1> QED BY <1>1, ControlInvariant, PTL

\* A revocation with a new transaction id is never refused by apply, whatever the cap, the
\* results that nobody acknowledged and the keys in collection.
THEOREM RevokeAlwaysAccepted == Spec => []RevokeNeverBlocked
  <1>1. ControlInv => RevokeNeverBlocked
    BY StoreForm, DiskFacts, RevokeAccepted DEF StoreInv, RevokeNeverBlocked
  <1> QED BY <1>1, ControlInvariant, PTL

\* The exact key of every live generation, and of an operation that observed it, is in the
\* backend, in every record that a crash may leave.
THEOREM KeysPresent == Spec => []RelyOnPresentKeys
  <1>1. ControlInv => RelyOnPresentKeys
    BY DEF ControlInv
  <1> QED BY <1>1, ControlInvariant, PTL

\* A key in the backend is named by every record that a crash may leave, unless a worker
\* created it after its operation was preempted.
THEOREM NoKeyForgotten == Spec => []KeysTracked
  <1>1. ControlInv => KeysTracked
    BY DEF ControlInv
  <1> QED BY <1>1, ControlInvariant, PTL

\* The key signs only while the delegating machine is in good standing, and never for an
\* epoch that an answered revocation ended.
THEOREM SigningHolds == Spec => []SigningFenced
  <1>1. ControlInv => SigningFenced
    <2> SUFFICES ASSUME ControlInv, signer.pc = "signing"
                 PROVE  roster.active /\ signer.epoch > told.revoked
      BY DEF SigningFenced
    <2>1. signer # NoActor
      BY DEF NoActor
    <2> QED BY <2>1 DEF ControlInv, SignerInv
  <1> QED BY <1>1, ControlInvariant, PTL

\* A revocation, reactivation or activation whose commit was answered survives every crash.
THEOREM AnswersKept == Spec => []AnswersSurvive
  <1>1. ControlInv => AnswersSurvive
    <2> SUFFICES ASSUME ControlInv, NEW r \in survivors
                 PROVE  /\ r.epoch >= told.epoch /\ r.epoch >= told.revoked
                        /\ r.epoch = told.revoked => r.auth = "revoked"
                        /\ \A g \in told.activated : ~Undone(r, g)
      BY DEF AnswersSurvive
    <2>1. TypeOK /\ r \in Records /\ AnswerInv
      BY StoreForm, DiskFacts DEF StoreInv
    <2>2. r.hw \in Nat /\ r.epoch \in Nat
      BY <2>1, RecordFields
    <2>3. told.epoch \in Nat /\ told.revoked \in Nat /\ \A g \in told.activated : g \in Nat /\ g > 0
      BY <2>1, TypeParts, SignerAssumption DEF ToldTypes, Gen
    <2>4. /\ told.epoch <= r.epoch /\ told.revoked <= r.epoch
          /\ r.epoch = told.revoked => r.auth = "revoked"
          /\ \A g \in told.activated : g <= Used(r) /\ (r.pending # None => r.pending.gen # g)
      BY <2>1 DEF AnswerInv
    <2>5. Used(r) \in {0, r.hw}
      BY DEF Used
    <2>6. \A g \in told.activated : ~Undone(r, g)
      BY <2>2, <2>3, <2>4, <2>5 DEF Undone
    <2> QED BY <2>2, <2>3, <2>4, <2>6
  <1> QED BY <1>1, ControlInvariant, PTL

\* No two delegations with the same generation were ever live with different keys, not even
\* across a rollback of the record by a crash.
THEOREM OneKey == Spec => []OneKeyPerGeneration
  <1>1. ControlInv => OneKeyPerGeneration
    BY DEF ControlInv
  <1> QED BY <1>1, ControlInvariant, PTL

===============================================================================
