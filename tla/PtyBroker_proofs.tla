---------------------------- MODULE PtyBroker_proofs ----------------------------
(* Proofs about PtyBroker.                                                      *)
EXTENDS PtyBroker, TLAPS

-------------------------------------------------------------------------------
(* The inductive invariant, in parts.                                           *)

\* A ticket exists only for an intent that was issued, and an instance only for one.
OwnerInv ==
    /\ \A i \in Intent : owner[i] = NoConv => after[i] = {"none"}
    /\ \A n \in Inst : intentOf[n] # None => owner[intentOf[n]] # NoConv

\* A CREATE between consume and spawn: its intent is spent for good and has started
\* nothing, and its conversation has no session that is not closed.
CreateInv ==
    lock # None =>
        /\ owner[lock] # NoConv
        /\ after[lock] = {"consumed"}
        /\ \A n \in Inst : intentOf[n] # lock
        /\ sessions[owner[lock]] # None => Closed(sessions[owner[lock]])
        /\ ~barrierLost => lock \notin cancelled

\* No loss of power brings back the authority of an intent that started something, or,
\* unless a barrier was lost, of one that was cancelled or whose ticket is not there.
SpentInv ==
    /\ \A n \in Inst : intentOf[n] # None => "issued" \notin after[intentOf[n]]
    /\ ~barrierLost => /\ \A i \in cancelled : "issued" \notin after[i]
                       /\ \A i \in Intent : ticket[i] \in {"none", "torn"} =>
                                                "issued" \notin after[i]

\* A session that writes is registered, and the log of a registered one is on disk.
RegistryInv ==
    /\ \A n \in Inst : st[n] = "open" => intentOf[n] # None
    /\ \A n \in Inst : st[n] \in {"open", "closing"} => n \in Registered
    /\ Registered \subseteq dirs

BrokerInv == /\ TypeOK /\ OwnerInv /\ CreateInv /\ SpentInv /\ RegistryInv
             /\ AtMostOnce /\ CancelFences /\ OpenReachable /\ OutputKept

-------------------------------------------------------------------------------
(* The ticket store.                                                            *)

\* None is no intent and no instance, and NoConv no conversation.
LEMMA NoneFacts == None \notin Intent /\ None \notin Inst /\ NoConv \notin Conv
  BY PtyAssumption DEF None, Intent, Inst

Content == {"none", "torn", "issued", "consumed"}

\* What a step may do to one ticket: nothing; settle it with a barrier; replace it by a
\* consumed record, with its barrier or without; collect it, if it is not protected,
\* with its barrier or without; issue it; lose the power.
TicketMove(i) ==
    \/ ticket'[i] = ticket[i] /\ after'[i] \in {after[i], Synced[i]}
    \/ /\ owner[i] # NoConv
       /\ ticket'[i] = "consumed" /\ after'[i] \in {{"consumed"}, after[i] \cup {"consumed"}}
    \/ i \notin ProtectedIntents /\ ticket'[i] = "none" /\ after'[i] = {"none"}
    \/ /\ i \notin ProtectedIntents /\ ticket'[i] = "none"
       /\ after'[i] = after[i] \cup {"none"} /\ barrierLost'
    \/ /\ owner[i] = NoConv /\ owner'[i] # NoConv
       /\ \/ ticket'[i] = "issued" /\ after'[i] = {"none", "torn", "issued"}
          \/ ticket'[i] = "torn" /\ after'[i] = {"none", "torn"}
    \/ ticket'[i] \in after[i] /\ after'[i] = {ticket'[i]}

DiskMoves ==
    /\ ticket' \in [Intent -> Content] /\ DOMAIN after' = Intent /\ after' = [i \in Intent |-> after'[i]]
    /\ owner' \in [Intent -> Conv \cup {NoConv}]
    /\ \A i \in Intent : owner[i] # NoConv => owner'[i] = owner[i]
    /\ \A i \in Intent : TicketMove(i)
    /\ barrierLost => barrierLost'

\* What every such step preserves of the tickets.
LEMMA DiskFacts ==
    ASSUME TypeOK, OwnerInv, DiskMoves
    PROVE  /\ after' \in [Intent -> SUBSET Content]
           /\ \A i \in Intent : ticket'[i] \in after'[i]
           /\ \A i \in Intent : owner'[i] = NoConv => after'[i] = {"none"}
           /\ \A i \in Intent : owner[i] # NoConv /\ "issued" \notin after[i] =>
                                    "issued" \notin after'[i]
           /\ \A i \in Intent : owner[i] # NoConv /\ after[i] = {"consumed"} /\ i \in ProtectedIntents
                                    => after'[i] = {"consumed"}
           /\ (~barrierLost => \A i \in Intent : ticket[i] \in {"none", "torn"} =>
                                                  "issued" \notin after[i])
              => (~barrierLost' => \A i \in Intent : ticket'[i] \in {"none", "torn"} =>
                                                  "issued" \notin after'[i])
  <1>1. \A i \in Intent : /\ ticket[i] \in Content /\ after[i] \in SUBSET Content
                          /\ ticket[i] \in after[i]
    BY DEF TypeOK, Content
  <1>2. \A i \in Intent :
            Synced[i] = IF ticket[i] = "issued" THEN after[i] \ {"none"} ELSE {ticket[i]}
    BY DEF Synced
  <1>3. ASSUME NEW i \in Intent
        PROVE  /\ after'[i] \in SUBSET Content /\ ticket'[i] \in after'[i]
               /\ owner'[i] = NoConv => after'[i] = {"none"}
               /\ owner[i] # NoConv /\ "issued" \notin after[i] => "issued" \notin after'[i]
               /\ owner[i] # NoConv /\ after[i] = {"consumed"} /\ i \in ProtectedIntents
                     => after'[i] = {"consumed"}
               /\ (~barrierLost => (ticket[i] \in {"none", "torn"} => "issued" \notin after[i]))
                  => (~barrierLost' => (ticket'[i] \in {"none", "torn"} => "issued" \notin after'[i]))
    <2>1. TicketMove(i) /\ (owner[i] # NoConv => owner'[i] # NoConv) /\ (barrierLost => barrierLost')
      BY DEF DiskMoves
    <2>2. owner[i] = NoConv => after[i] = {"none"}
      BY DEF OwnerInv
    <2>3. ticket[i] \in Content /\ after[i] \in SUBSET Content /\ ticket[i] \in after[i]
      BY <1>1
    <2>4. CASE ticket'[i] = ticket[i] /\ after'[i] \in {after[i], Synced[i]}
      BY <1>2, <2>1, <2>2, <2>3, <2>4 DEF Content
    <2>5. CASE /\ owner[i] # NoConv
               /\ ticket'[i] = "consumed" /\ after'[i] \in {{"consumed"}, after[i] \cup {"consumed"}}
      BY <2>1, <2>3, <2>5 DEF Content
    <2>6. CASE i \notin ProtectedIntents /\ ticket'[i] = "none" /\ after'[i] = {"none"}
      BY <2>6 DEF Content
    <2>7. CASE /\ i \notin ProtectedIntents /\ ticket'[i] = "none"
               /\ after'[i] = after[i] \cup {"none"} /\ barrierLost'
      BY <2>1, <2>2, <2>3, <2>7 DEF Content
    <2>8. CASE /\ owner[i] = NoConv /\ owner'[i] # NoConv
               /\ \/ ticket'[i] = "issued" /\ after'[i] = {"none", "torn", "issued"}
                  \/ ticket'[i] = "torn" /\ after'[i] = {"none", "torn"}
      BY <2>8 DEF Content
    <2>9. CASE ticket'[i] \in after[i] /\ after'[i] = {ticket'[i]}
      BY <2>1, <2>2, <2>3, <2>9 DEF Content
    <2> QED BY <2>1, <2>4, <2>5, <2>6, <2>7, <2>8, <2>9 DEF TicketMove
  <1>4. after' \in [Intent -> SUBSET Content]
    BY <1>3 DEF DiskMoves
  <1> QED BY <1>3, <1>4

\* The steps that consume a ticket are of this form ...
LEMMA CommitMoves ==
    ASSUME TypeOK, OwnerInv, NEW i \in Intent, owner[i] # NoConv, UNCHANGED barrierLost,
           CommitConsumed(i) \/ CommitFails(i)
    PROVE  /\ DiskMoves /\ owner' = owner
           /\ CommitConsumed(i) => ticket'[i] = "consumed" /\ after'[i] = {"consumed"}
  <1>1. ticket \in [Intent -> Content] /\ after \in [Intent -> SUBSET Content]
        /\ owner \in [Intent -> Conv \cup {NoConv}]
    BY DEF TypeOK, Content
  <1>2. owner' = owner
    BY DEF CommitConsumed, CommitFails
  <1>3. CASE CommitConsumed(i)
    <2>1. ticket' = [ticket EXCEPT ![i] = "consumed"] /\ after' = [Synced EXCEPT ![i] = {"consumed"}]
      BY <1>3 DEF CommitConsumed
    <2>2. ticket' \in [Intent -> Content] /\ ticket'[i] = "consumed"
          /\ \A j \in Intent : j # i => ticket'[j] = ticket[j]
      BY <1>1, <2>1 DEF Content
    <2>3. DOMAIN after' = Intent /\ after' = [j \in Intent |-> after'[j]] /\ after'[i] = {"consumed"}
          /\ \A j \in Intent : j # i => after'[j] = Synced[j]
      BY <2>1 DEF Synced
    <2>4. ASSUME NEW j \in Intent PROVE TicketMove(j)
      BY <2>2, <2>3 DEF TicketMove
    <2> QED BY <1>1, <1>2, <2>2, <2>3, <2>4 DEF DiskMoves
  <1>4. CASE UNCHANGED <<ticket, after>> /\ ~CommitConsumed(i)
    BY <1>1, <1>2, <1>4 DEF DiskMoves, TicketMove
  <1>5. CASE /\ ticket' = [ticket EXCEPT ![i] = "consumed"]
             /\ after' = [after EXCEPT ![i] = @ \cup {"consumed"}]
             /\ ~CommitConsumed(i)
    <2>1. ticket' \in [Intent -> Content] /\ ticket'[i] = "consumed"
          /\ \A j \in Intent : j # i => ticket'[j] = ticket[j]
      BY <1>1, <1>5 DEF Content
    <2>2. DOMAIN after' = Intent /\ after' = [j \in Intent |-> after'[j]]
          /\ after'[i] = after[i] \cup {"consumed"} /\ \A j \in Intent : j # i => after'[j] = after[j]
      BY <1>1, <1>5
    <2>3. ASSUME NEW j \in Intent PROVE TicketMove(j)
      BY <2>1, <2>2 DEF TicketMove
    <2> QED BY <1>1, <1>2, <1>5, <2>1, <2>2, <2>3 DEF DiskMoves
  <1> QED BY <1>3, <1>4, <1>5 DEF CommitFails

\* ... and so are those that issue one, with the collection before it.
LEMMA CollectionFacts ==
    ASSUME TypeOK, NEW gone \in Collections
    PROVE  /\ gone \subseteq Intent /\ gone \cap ProtectedIntents = {}
           /\ Unlinked(gone) \in [Intent -> Content]
           /\ DOMAIN CollectedAfter(gone) = Intent
           /\ CollectedAfter(gone) = [j \in Intent |-> CollectedAfter(gone)[j]]
           /\ \A j \in Intent :
                 \/ /\ Unlinked(gone)[j] = ticket[j]
                    /\ CollectedAfter(gone)[j] \in {after[j], Synced[j]}
                 \/ /\ j \notin ProtectedIntents
                    /\ Unlinked(gone)[j] = "none" /\ CollectedAfter(gone)[j] = {"none"}
  <1> DEFINE few == Cardinality(Files) < IntentLimit
  <1>1. gone \subseteq Files \ ProtectedIntents
    BY DEF Collections
  <1>2. few => gone = {}
    BY DEF Collections
  <1>3. Files \subseteq Intent
    BY DEF Files
  <1>4. Unlinked(gone) \in [Intent -> Content]
    BY DEF Unlinked, TypeOK, Content
  <1>5. \A j \in Intent : /\ Unlinked(gone)[j] = IF j \in gone THEN "none" ELSE ticket[j]
                          /\ CollectedAfter(gone)[j] = IF few THEN after[j]
                                 ELSE IF j \in gone THEN {"none"} ELSE Synced[j]
    BY DEF Unlinked, CollectedAfter
  <1>6. DOMAIN CollectedAfter(gone) = Intent
        /\ CollectedAfter(gone) = [j \in Intent |-> CollectedAfter(gone)[j]]
    BY DEF CollectedAfter
  <1> HIDE DEF few
  <1> QED BY <1>1, <1>2, <1>3, <1>4, <1>5, <1>6

Issues == \/ \E c \in Conv, i \in Intent : IssueIntent(c, i) \/ IssueWriteFails(c, i)
          \/ IssueRefused \/ IssueCollectFails

\* Issuing an intent moves tickets only as DiskMoves allows.
LEMMA IssueMoves ==
    ASSUME TypeOK, OwnerInv, Issues
    PROVE  DiskMoves
  <1>0. ticket \in [Intent -> Content] /\ after \in [Intent -> SUBSET Content]
        /\ owner \in [Intent -> Conv \cup {NoConv}] /\ barrierLost \in BOOLEAN
    BY DEF TypeOK, Content
  <1>1. ASSUME NEW c \in Conv, NEW i \in Intent, IssueIntent(c, i) \/ IssueWriteFails(c, i)
        PROVE  DiskMoves
    <2>1. PICK gone \in Collections :
             \/ /\ ticket' = [Unlinked(gone) EXCEPT ![i] = "issued"]
                /\ after' = [CollectedAfter(gone) EXCEPT ![i] = {"none", "torn", "issued"}]
             \/ /\ ticket' = [Unlinked(gone) EXCEPT ![i] = "torn"]
                /\ after' = [CollectedAfter(gone) EXCEPT ![i] = {"none", "torn"}]
      BY <1>1 DEF IssueIntent, IssueWriteFails
    <2>2. owner[i] = NoConv /\ owner' = [owner EXCEPT ![i] = c] /\ UNCHANGED barrierLost
      BY <1>1 DEF IssueIntent, IssueWriteFails, Fresh, history
    <2>3. /\ owner' \in [Intent -> Conv \cup {NoConv}] /\ owner'[i] # NoConv
          /\ \A j \in Intent : j # i => owner'[j] = owner[j]
      BY <1>0, <2>2, NoneFacts
    <2>4. ticket' \in [Intent -> Content] /\ \A j \in Intent : j # i => ticket'[j] = Unlinked(gone)[j]
      BY <2>1, CollectionFacts DEF Content
    <2>5. DOMAIN after' = Intent /\ after' = [j \in Intent |-> after'[j]]
          /\ \A j \in Intent : j # i => after'[j] = CollectedAfter(gone)[j]
      BY <2>1, CollectionFacts
    <2>6. \/ ticket'[i] = "issued" /\ after'[i] = {"none", "torn", "issued"}
          \/ ticket'[i] = "torn" /\ after'[i] = {"none", "torn"}
      BY <2>1, CollectionFacts
    <2>7. TicketMove(i)
      BY <2>2, <2>3, <2>6 DEF TicketMove
    <2>8. ASSUME NEW j \in Intent, j # i PROVE TicketMove(j)
      BY <2>4, <2>5, <2>8, CollectionFacts DEF TicketMove
    <2> QED BY <2>2, <2>3, <2>4, <2>5, <2>7, <2>8 DEF DiskMoves
  <1>2. CASE IssueRefused
    <2>1. PICK gone \in Collections : ticket' = Unlinked(gone) /\ after' = CollectedAfter(gone)
      BY <1>2 DEF IssueRefused
    <2>2. UNCHANGED <<owner, barrierLost>>
      BY <1>2 DEF IssueRefused, history
    <2>3. \A j \in Intent : TicketMove(j)
      BY <2>1, CollectionFacts DEF TicketMove
    <2> QED BY <1>0, <2>1, <2>2, <2>3, CollectionFacts DEF DiskMoves
  <1>3. CASE IssueCollectFails
    <2>0. PICK whole \in Collections : \E gone \in SUBSET whole :
             /\ ticket' = Unlinked(gone)
             /\ after' = [i \in Intent |-> after[i] \cup IF i \in gone THEN {"none"} ELSE {}]
             /\ barrierLost' = (barrierLost \/ gone # {})
      BY <1>3 DEF IssueCollectFails
    <2>1. PICK gone \in SUBSET whole :
             /\ ticket' = Unlinked(gone)
             /\ after' = [i \in Intent |-> after[i] \cup IF i \in gone THEN {"none"} ELSE {}]
             /\ barrierLost' = (barrierLost \/ gone # {})
      BY <2>0
    <2>2. UNCHANGED owner
      BY <1>3 DEF IssueCollectFails
    <2>3. gone \cap ProtectedIntents = {}
      BY CollectionFacts
    <2>4. ticket' \in [Intent -> Content] /\ \A j \in Intent :
              ticket'[j] = IF j \in gone THEN "none" ELSE ticket[j]
      BY <1>0, <2>1 DEF Unlinked, Content
    <2>5. DOMAIN after' = Intent /\ after' = [j \in Intent |-> after'[j]]
          /\ \A j \in Intent : after'[j] = IF j \in gone THEN after[j] \cup {"none"} ELSE after[j]
      BY <1>0, <2>1
    <2>6. (barrierLost => barrierLost') /\ \A j \in gone : barrierLost'
      BY <1>0, <2>1
    <2>7. \A j \in Intent : TicketMove(j)
      BY <2>3, <2>4, <2>5, <2>6 DEF TicketMove
    <2> QED BY <1>0, <2>2, <2>4, <2>5, <2>6, <2>7 DEF DiskMoves
  <1> QED BY <1>1, <1>2, <1>3 DEF Issues

-------------------------------------------------------------------------------
(* The registry.                                                                *)

\* An open session is protected from the collection.
LEMMA OpenProtected ==
    ASSUME TypeOK, OwnerInv, RegistryInv, OpenReachable, NEW n \in Inst, st[n] = "open"
    PROVE  /\ intentOf[n] \in Intent /\ ConvOf(n) \in Conv
           /\ sessions[ConvOf(n)] = n /\ intentOf[n] \in ProtectedIntents
  <1>1. intentOf[n] \in Intent
    BY NoneFacts DEF TypeOK, RegistryInv
  <1>2. owner[intentOf[n]] # NoConv /\ owner[intentOf[n]] \in Conv \cup {NoConv}
    BY <1>1, NoneFacts DEF OwnerInv, TypeOK
  <1>3. ConvOf(n) \in Conv
    BY <1>2 DEF ConvOf
  <1>4. sessions[ConvOf(n)] = n /\ n # None /\ ~Closed(n)
    BY NoneFacts DEF OpenReachable, Closed
  <1> QED BY <1>1, <1>3, <1>4 DEF ProtectedIntents

\* The collection and the new ticket leave everything but tickets and cache alone.
LEMMA IssueStep ==
    ASSUME BrokerInv, Issues
    PROVE  BrokerInv'
  <1> USE DEF BrokerInv
  <1>0. UNCHANGED <<up, sessions, retiring, lock, st, intentOf, reader, dirs, cancelled>>
        /\ lock = None /\ cache' = cache \cap ProtectedIntents
    BY DEF Issues, IssueIntent, IssueWriteFails, IssueRefused, IssueCollectFails, procs, history
  <1>1. DiskMoves
    BY IssueMoves
  <1>2. /\ after' \in [Intent -> SUBSET Content]
        /\ \A i \in Intent : ticket'[i] \in after'[i]
        /\ \A i \in Intent : owner'[i] = NoConv => after'[i] = {"none"}
        /\ \A i \in Intent : owner[i] # NoConv /\ "issued" \notin after[i] =>
                                 "issued" \notin after'[i]
        /\ \A i \in Intent : owner[i] # NoConv /\ after[i] = {"consumed"} /\ i \in ProtectedIntents
                                 => after'[i] = {"consumed"}
    BY <1>1, DiskFacts
  <1>3. /\ ticket' \in [Intent -> Content] /\ owner' \in [Intent -> Conv \cup {NoConv}]
        /\ \A i \in Intent : owner[i] # NoConv => owner'[i] = owner[i]
        /\ barrierLost => barrierLost'
    BY <1>1 DEF DiskMoves
  <1>4. TypeOK'
    <2>1. barrierLost' \in BOOLEAN
      BY DEF Issues, IssueIntent, IssueWriteFails, IssueRefused, IssueCollectFails, history, TypeOK
    <2>2. left' \in [faults : 0..MaxFaults, crashes : 0..MaxCrashes]
      <3>1. left' = left \/ (left.faults > 0 /\ left' = [left EXCEPT !.faults = @ - 1])
        BY DEF Issues, IssueIntent, IssueWriteFails, IssueRefused, IssueCollectFails
      <3> QED BY <3>1, PtyAssumption DEF TypeOK
    <2>3. cache' \subseteq {i \in Intent : owner'[i] # NoConv}
          /\ cancelled' \subseteq {i \in Intent : owner'[i] # NoConv}
      BY <1>0, <1>3 DEF TypeOK
    <2> QED BY <1>0, <1>2, <1>3, <2>1, <2>2, <2>3 DEF TypeOK, Content
  <1>5. \A n \in Inst : intentOf[n] # None => intentOf[n] \in Intent /\ owner[intentOf[n]] # NoConv
    BY DEF TypeOK, OwnerInv
  <1>6. OwnerInv' /\ CreateInv'
    BY <1>0, <1>2, <1>3, <1>5 DEF OwnerInv, CreateInv
  <1>7. SpentInv'
    <2>1. \A n \in Inst : intentOf'[n] # None => "issued" \notin after'[intentOf'[n]]
      BY <1>0, <1>2, <1>5 DEF SpentInv
    <2>2. ~barrierLost' => \A i \in cancelled' : "issued" \notin after'[i]
      BY <1>0, <1>2, <1>3 DEF SpentInv, TypeOK
    <2>3. ~barrierLost' => \A i \in Intent : ticket'[i] \in {"none", "torn"} => "issued" \notin after'[i]
      BY <1>1, DiskFacts DEF SpentInv
    <2> QED BY <2>1, <2>2, <2>3 DEF SpentInv
  <1>8. RegistryInv' /\ AtMostOnce' /\ OutputKept'
    BY <1>0 DEF RegistryInv, AtMostOnce, OutputKept, Registered
  <1>9. CancelFences'
    BY <1>0, <1>3 DEF CancelFences
  <1>10. OpenReachable'
    <2> SUFFICES ASSUME NEW n \in Inst, st'[n] = "open"
                 PROVE  /\ sessions'[ConvOf(n)'] = n /\ intentOf'[n] \in cache'
                        /\ after'[intentOf'[n]] = {"consumed"}
      BY DEF OpenReachable
    <2>1. /\ intentOf[n] \in Intent /\ ConvOf(n) \in Conv
          /\ sessions[ConvOf(n)] = n /\ intentOf[n] \in ProtectedIntents
      BY <1>0, OpenProtected
    <2>2. ConvOf(n)' = ConvOf(n)
      BY <1>0, <1>3, <2>1, NoneFacts DEF ConvOf
    <2>3. intentOf[n] \in cache /\ after[intentOf[n]] = {"consumed"} /\ owner[intentOf[n]] # NoConv
      BY <1>0, <1>5, <2>1, NoneFacts DEF OpenReachable
    <2> QED BY <1>0, <1>2, <2>1, <2>2, <2>3
  <1> QED BY <1>4, <1>6, <1>7, <1>8, <1>9, <1>10

\* The pruning takes no session that is not done, and no log that is in use.
Prunes == /\ \E gone \in SUBSET Archives : dirs' = dirs \ gone
          /\ sessions' = KeptSessions /\ retiring' = KeptRetiring
          /\ UNCHANGED <<st, intentOf, reader, cache>>

\* Pruning removes sessions that are done, and logs that nobody holds.
LEMMA PruneFacts ==
    ASSUME TypeOK, Prunes
    PROVE  /\ sessions' \in [Conv -> Inst \cup {None}] /\ retiring' \subseteq Inst
           /\ dirs' \subseteq Inst
           /\ \A c \in Conv : /\ sessions'[c] \in {sessions[c], None}
                              /\ sessions[c] # None /\ ~Done(sessions[c]) => sessions'[c] = sessions[c]
           /\ \A n \in Registered : ~Done(n) => n \in Registered'
           /\ Registered' \subseteq Registered
           /\ \A n \in dirs : n \in Registered' \/ LogHeld(n) => n \in dirs'
  <1>1. sessions \in [Conv -> Inst \cup {None}] /\ retiring \subseteq Inst /\ dirs \subseteq Inst
    BY DEF TypeOK
  <1>2. /\ sessions' \in [Conv -> Inst \cup {None}]
        /\ \A c \in Conv : sessions'[c] = IF sessions[c] # None /\ Kept(sessions[c])
                                          THEN sessions[c] ELSE None
    BY <1>1 DEF Prunes, KeptSessions
  <1>3. retiring' = {n \in retiring : Kept(n)}
    BY DEF Prunes, KeptRetiring
  <1>4. Registered' = KeptInst
    BY DEF Registered, Prunes, KeptInst
  <1>5. \A n : ~Done(n) => Kept(n)
    BY DEF Kept
  <1>6. \A c \in Conv : /\ sessions'[c] \in {sessions[c], None}
                        /\ sessions[c] # None /\ ~Done(sessions[c]) => sessions'[c] = sessions[c]
    BY <1>2, <1>5
  <1>7. \A n \in Registered : ~Done(n) => n \in Registered'
    BY <1>3, <1>5, <1>6 DEF Registered
  <1>8. Registered' \subseteq Registered
    BY <1>3, <1>6 DEF Registered
  <1>9. \A n \in dirs : n \in Registered' \/ LogHeld(n) => n \in dirs'
    BY <1>4 DEF Prunes, Archives
  <1>10. dirs' \subseteq Inst
    BY <1>1 DEF Prunes
  <1> QED BY <1>1, <1>2, <1>3, <1>6, <1>7, <1>8, <1>9, <1>10

\* A pruning, with or without the consumption of a ticket behind it.
Consumes(i) == /\ CreateAdmitted(i)
               /\ \/ CommitConsumed(i) /\ lock' = i /\ left' = left
                  \/ CommitFails(i) /\ lock' = lock

\* A step that prunes, alone or before it consumes a ticket, keeps the invariant.
LEMMA PruneStep ==
    ASSUME BrokerInv, lock = None, Prunes, UNCHANGED <<up, history>>,
           \/ /\ UNCHANGED <<disk, lock>>
              /\ left' = left \/ (left.faults > 0 /\ left' = [left EXCEPT !.faults = @ - 1])
           \/ \E i \in Intent : Consumes(i)
    PROVE  BrokerInv'
  <1> USE DEF BrokerInv
  <1>0. UNCHANGED <<st, intentOf, reader, cache, cancelled, barrierLost>>
    BY DEF Prunes, history
  <1>a. /\ sessions' \in [Conv -> Inst \cup {None}] /\ retiring' \subseteq Inst
        /\ dirs' \subseteq Inst
        /\ \A c \in Conv : /\ sessions'[c] \in {sessions[c], None}
                           /\ sessions[c] # None /\ ~Done(sessions[c]) => sessions'[c] = sessions[c]
        /\ \A n \in Registered : ~Done(n) => n \in Registered'
        /\ Registered' \subseteq Registered
        /\ \A n \in dirs : n \in Registered' \/ LogHeld(n) => n \in dirs'
    BY PruneFacts
  <1>b. \A n \in Inst : intentOf[n] # None => intentOf[n] \in Intent /\ owner[intentOf[n]] # NoConv
    BY DEF TypeOK, OwnerInv
  <1>1. DiskMoves /\ owner' = owner
    <2>1. CASE UNCHANGED <<disk, lock>>
      BY <1>0, <2>1 DEF DiskMoves, TicketMove, TypeOK, Content, disk
    <2>2. ASSUME NEW i \in Intent, Consumes(i) PROVE DiskMoves /\ owner' = owner
      <3>1. owner[i] # NoConv
        BY <2>2 DEF Consumes, CreateAdmitted, OwnerInv, TypeOK
      <3> QED BY <1>0, <2>2, <3>1, CommitMoves DEF Consumes
    <2> QED BY <2>1, <2>2
  <1>2. /\ after' \in [Intent -> SUBSET Content]
        /\ \A i \in Intent : ticket'[i] \in after'[i]
        /\ \A i \in Intent : owner'[i] = NoConv => after'[i] = {"none"}
        /\ \A i \in Intent : owner[i] # NoConv /\ "issued" \notin after[i] =>
                                 "issued" \notin after'[i]
        /\ \A i \in Intent : owner[i] # NoConv /\ after[i] = {"consumed"} /\ i \in ProtectedIntents
                                 => after'[i] = {"consumed"}
    BY <1>1, DiskFacts
  <1>3. ticket' \in [Intent -> Content]
    BY <1>1 DEF DiskMoves
  <1>4. TypeOK'
    <2>1. left' \in [faults : 0..MaxFaults, crashes : 0..MaxCrashes]
      <3>1. left' = left \/ (left.faults > 0 /\ left' = [left EXCEPT !.faults = @ - 1])
        BY DEF Consumes, CommitFails
      <3> QED BY <3>1, PtyAssumption DEF TypeOK
    <2>2. lock' \in Intent \cup {None}
      BY DEF Consumes
    <2> QED BY <1>0, <1>a, <1>1, <1>2, <1>3, <2>1, <2>2 DEF TypeOK, Content
  <1>5. OwnerInv'
    BY <1>0, <1>1, <1>2 DEF OwnerInv
  <1>6. CreateInv'
    <2> SUFFICES ASSUME NEW i \in Intent, CreateAdmitted(i), CommitConsumed(i), lock' = i
                 PROVE  CreateInv'
      BY DEF Consumes, CreateInv
    <2>1. ticket[i] = "issued" /\ (KeptSessions[owner[i]] # None => Closed(KeptSessions[owner[i]]))
      BY DEF CreateAdmitted
    <2>2. owner[i] # NoConv /\ "issued" \in after[i]
      BY <2>1 DEF OwnerInv, TypeOK
    <2>3. after'[i] = {"consumed"}
      BY <1>0, <2>2, CommitMoves
    \* The ticket was issued: it has started nothing and has not been cancelled.
    <2>4. \A n \in Inst : intentOf[n] # i
      BY <2>2, NoneFacts DEF SpentInv
    <2>5. ~barrierLost => i \notin cancelled
      BY <2>2 DEF SpentInv
    <2>6. sessions'[owner[i]] # None => st'[sessions'[owner[i]]] \in {"closing", "over"}
      BY <1>0, <2>1 DEF Prunes, Closed
    <2> QED BY <1>0, <1>1, <2>2, <2>3, <2>4, <2>5, <2>6 DEF CreateInv, Closed
  <1>7. SpentInv'
    <2>1. \A n \in Inst : intentOf'[n] # None => "issued" \notin after'[intentOf'[n]]
      BY <1>0, <1>2, <1>b DEF SpentInv
    <2>2. ~barrierLost' => \A i \in cancelled' : "issued" \notin after'[i]
      BY <1>0, <1>2 DEF SpentInv, TypeOK
    <2>3. ~barrierLost' => \A i \in Intent : ticket'[i] \in {"none", "torn"} => "issued" \notin after'[i]
      BY <1>1, DiskFacts DEF SpentInv
    <2> QED BY <2>1, <2>2, <2>3 DEF SpentInv
  <1>8. RegistryInv'
    <2>1. \A n \in Inst : st'[n] \in {"open", "closing"} => n \in Registered'
      BY <1>0, <1>a DEF RegistryInv, Done
    <2>2. Registered' \subseteq dirs'
      BY <1>a DEF RegistryInv
    <2> QED BY <1>0, <2>1, <2>2 DEF RegistryInv
  <1>9. AtMostOnce' /\ CancelFences'
    BY <1>0 DEF AtMostOnce, CancelFences
  <1>10. OpenReachable'
    <2> SUFFICES ASSUME NEW n \in Inst, st'[n] = "open"
                 PROVE  /\ sessions'[ConvOf(n)'] = n /\ intentOf'[n] \in cache'
                        /\ after'[intentOf'[n]] = {"consumed"}
      BY DEF OpenReachable
    <2>1. /\ intentOf[n] \in Intent /\ ConvOf(n) \in Conv
          /\ sessions[ConvOf(n)] = n /\ intentOf[n] \in ProtectedIntents
      BY <1>0, OpenProtected
    <2>2. ConvOf(n)' = ConvOf(n)
      BY <1>0, <1>1 DEF ConvOf
    <2>3. intentOf[n] \in cache /\ after[intentOf[n]] = {"consumed"} /\ owner[intentOf[n]] # NoConv
      BY <1>0, <1>b, <2>1, NoneFacts DEF OpenReachable
    <2>4. sessions'[ConvOf(n)] = n
      BY <1>0, <1>a, <2>1, NoneFacts DEF Done
    <2> QED BY <1>0, <1>2, <2>1, <2>2, <2>3, <2>4
  <1>11. OutputKept'
    <2> SUFFICES ASSUME NEW n \in Inst, st'[n] \in {"open", "closing"} \/ reader'[n] = "attached"
                 PROVE  n \in dirs'
      BY DEF OutputKept
    <2>1. n \in dirs
      BY <1>0 DEF OutputKept
    <2>2. n \in Registered' \/ LogHeld(n)
      BY <1>0, <1>8 DEF RegistryInv, LogHeld
    <2> QED BY <1>a, <2>1, <2>2
  <1> QED BY <1>4, <1>5, <1>6, <1>7, <1>8, <1>9, <1>10, <1>11

-------------------------------------------------------------------------------
(* Sessions, streams and cancellation.                                          *)

\* How the state of a session may change: forward.
StMove(n) == \/ st'[n] = st[n]
             \/ st[n] = "open" /\ st'[n] \in {"closing", "ended"}
             \/ st[n] \in {"closing", "ended"} /\ st'[n] = "over"

\* close moves one instance towards its end.
LEMMA CloseMoves ==
    ASSUME TypeOK, NEW n \in Inst, st' = [st EXCEPT ![n] = close(@)]
    PROVE  /\ st' \in [Inst -> {"unborn", "open", "closing", "ended", "over"}]
           /\ st'[n] # "open"
           /\ \A m \in Inst : StMove(m)
  <1>1. st \in [Inst -> {"unborn", "open", "closing", "ended", "over"}]
    BY DEF TypeOK
  <1>2. st'[n] = close(st[n]) /\ \A m \in Inst : m # n => st'[m] = st[m]
    BY <1>1
  <1>3. st[n] \in {"unborn", "open", "closing", "ended", "over"}
    BY <1>1
  <1>4. close(st[n]) \in {"unborn", "closing", "over"}
        /\ (st[n] = "open" => close(st[n]) = "closing")
        /\ (st[n] = "ended" => close(st[n]) = "over")
        /\ (st[n] \notin {"open", "ended"} => close(st[n]) = st[n])
    BY <1>3 DEF close
  <1>5. \A m \in Inst : StMove(m)
    BY <1>2, <1>4 DEF StMove
  <1> QED BY <1>1, <1>2, <1>4, <1>5

\* Sessions that move forward, while the registry and the logs stay, keep the invariant,
\* whether or not a ticket is consumed; a cancelled intent must have lost its session.
LEMMA SessionStep ==
    ASSUME BrokerInv,
           UNCHANGED <<up, sessions, retiring, cache, lock, intentOf, reader, dirs, barrierLost>>,
           left' \in [faults : 0..MaxFaults, crashes : 0..MaxCrashes],
           st' \in [Inst -> {"unborn", "open", "closing", "ended", "over"}],
           \A n \in Inst : StMove(n),
           DiskMoves, owner' = owner,
           lock # None => after' = after,
           cancelled' \subseteq {i \in Intent : owner[i] # NoConv},
           cancelled \subseteq cancelled',
           \A i \in cancelled' \ cancelled :
               /\ lock = None
               /\ ~barrierLost => "issued" \notin after'[i]
               /\ \A n \in Inst : intentOf[n] = i => st'[n] # "open"
    PROVE  BrokerInv'
  <1> USE DEF BrokerInv
  <1>b. \A n \in Inst : intentOf[n] # None => intentOf[n] \in Intent /\ owner[intentOf[n]] # NoConv
    BY DEF TypeOK, OwnerInv
  <1>c. \A n \in Inst : st'[n] = "open" => st[n] = "open"
    BY DEF StMove
  <1>d. \A n \in Inst : st[n] \in {"closing", "over"} => st'[n] \in {"closing", "over"}
    BY DEF StMove
  <1>2. /\ after' \in [Intent -> SUBSET Content]
        /\ \A i \in Intent : ticket'[i] \in after'[i]
        /\ \A i \in Intent : owner'[i] = NoConv => after'[i] = {"none"}
        /\ \A i \in Intent : owner[i] # NoConv /\ "issued" \notin after[i] =>
                                 "issued" \notin after'[i]
        /\ \A i \in Intent : owner[i] # NoConv /\ after[i] = {"consumed"} /\ i \in ProtectedIntents
                                 => after'[i] = {"consumed"}
    BY DiskFacts
  <1>3. ticket' \in [Intent -> Content]
    BY DEF DiskMoves
  <1>4. TypeOK'
    BY <1>2, <1>3 DEF TypeOK, Content
  <1>5. OwnerInv'
    BY <1>2 DEF OwnerInv
  <1>6. CreateInv'
    <2> SUFFICES ASSUME lock # None PROVE CreateInv'
      BY DEF CreateInv
    <2>1. lock \in Intent /\ owner[lock] \in Conv /\ cancelled' = cancelled /\ after' = after
      BY DEF CreateInv, TypeOK
    <2>2. sessions[owner[lock]] # None => st'[sessions[owner[lock]]] \in {"closing", "over"}
      BY <1>d, <2>1 DEF CreateInv, TypeOK, Closed
    <2> QED BY <2>1, <2>2 DEF CreateInv, Closed
  <1>7. SpentInv'
    <2>1. \A n \in Inst : intentOf'[n] # None => "issued" \notin after'[intentOf'[n]]
      BY <1>2, <1>b DEF SpentInv
    <2>2. ~barrierLost' => \A i \in cancelled' : "issued" \notin after'[i]
      BY <1>2 DEF SpentInv, TypeOK
    <2>3. ~barrierLost' => \A i \in Intent : ticket'[i] \in {"none", "torn"} => "issued" \notin after'[i]
      BY DiskFacts DEF SpentInv
    <2> QED BY <2>1, <2>2, <2>3 DEF SpentInv
  <1>8. RegistryInv'
    <2>1. Registered' = Registered
      BY DEF Registered
    <2>2. \A n \in Inst : st'[n] \in {"open", "closing"} => st[n] \in {"open", "closing"}
      BY DEF StMove
    <2> QED BY <1>c, <2>1, <2>2 DEF RegistryInv
  <1>9. AtMostOnce' /\ CancelFences'
    BY <1>c DEF AtMostOnce, CancelFences
  <1>10. OpenReachable'
    <2> SUFFICES ASSUME NEW n \in Inst, st'[n] = "open"
                 PROVE  /\ sessions'[ConvOf(n)'] = n /\ intentOf'[n] \in cache'
                        /\ after'[intentOf'[n]] = {"consumed"}
      BY DEF OpenReachable
    <2>1. st[n] = "open"
      BY <1>c
    <2>2. intentOf[n] \in ProtectedIntents /\ intentOf[n] \in Intent
      BY <2>1, OpenProtected
    <2>3. ConvOf(n)' = ConvOf(n)
      BY DEF ConvOf
    <2>4. /\ sessions[ConvOf(n)] = n /\ intentOf[n] \in cache /\ after[intentOf[n]] = {"consumed"}
          /\ owner[intentOf[n]] # NoConv
      BY <1>b, <2>1, <2>2, NoneFacts DEF OpenReachable
    <2> QED BY <1>2, <2>2, <2>3, <2>4
  <1>11. OutputKept'
    <2>1. \A n \in Inst : st'[n] \in {"open", "closing"} => st[n] \in {"open", "closing"}
      BY DEF StMove
    <2> QED BY <2>1 DEF OutputKept
  <1> QED BY <1>4, <1>5, <1>6, <1>7, <1>8, <1>9, <1>10, <1>11

\* A step that leaves the tickets alone moves none.
LEMMA DiskStays ==
    ASSUME TypeOK, UNCHANGED <<disk, barrierLost>>
    PROVE  DiskMoves /\ owner' = owner /\ after' = after
  BY DEF DiskMoves, TicketMove, TypeOK, Content, disk

\* Spending a fault keeps the budget well typed.
LEMMA FaultType ==
    ASSUME TypeOK, left.faults > 0, left' = [left EXCEPT !.faults = @ - 1]
    PROVE  left' \in [faults : 0..MaxFaults, crashes : 0..MaxCrashes]
  BY PtyAssumption DEF TypeOK

\* Sessions end by themselves, by a close, or because their log is full.
LEMMA EndStep ==
    ASSUME BrokerInv, NEW n \in Inst,
           Close(n) \/ ProcessEnds(n) \/ AppendFails(n) \/ KillDrained(n) \/ MarkClosed(n)
    PROVE  BrokerInv'
  <1>1. /\ UNCHANGED <<up, disk, registry, intentOf, reader, dirs, history>>
        /\ left' = left \/ (left.faults > 0 /\ left' = [left EXCEPT !.faults = @ - 1])
    BY DEF Close, ProcessEnds, AppendFails, KillDrained, MarkClosed
  <1>2. TypeOK
    BY DEF BrokerInv
  <1>3. left' \in [faults : 0..MaxFaults, crashes : 0..MaxCrashes]
    BY <1>1, <1>2, FaultType DEF TypeOK
  <1>4. /\ st' \in [Inst -> {"unborn", "open", "closing", "ended", "over"}]
        /\ \A m \in Inst : StMove(m)
    <2>1. CASE Close(n) \/ AppendFails(n)
      BY <1>2, <2>1, CloseMoves DEF Close, AppendFails
    <2>2. CASE ProcessEnds(n) \/ KillDrained(n) \/ MarkClosed(n)
      <3>1. \/ st[n] = "open" /\ st' = [st EXCEPT ![n] = "ended"]
            \/ st[n] \in {"closing", "ended"} /\ st' = [st EXCEPT ![n] = "over"]
        BY <2>2 DEF ProcessEnds, KillDrained, MarkClosed
      <3> QED BY <1>2, <3>1 DEF TypeOK, StMove
    <2> QED BY <2>1, <2>2
  <1>5. DiskMoves /\ owner' = owner /\ after' = after
    BY <1>1, <1>2, DiskStays DEF history
  <1>6. cancelled' = cancelled /\ cancelled \subseteq {i \in Intent : owner[i] # NoConv}
    BY <1>1, <1>2 DEF history, TypeOK
  <1> QED BY <1>1, <1>3, <1>4, <1>5, <1>6, SessionStep DEF registry, history

\* A stream attaches to a session that is registered, and leaves it.
LEMMA StreamStep ==
    ASSUME BrokerInv, NEW n \in Inst, Attach(n) \/ Detach(n) \/ ExitSent(n)
    PROVE  BrokerInv'
  <1> USE DEF BrokerInv
  <1>1. UNCHANGED <<up, disk, registry, st, intentOf, dirs, left, history>>
    BY DEF Attach, Detach, ExitSent
  <1>2. \/ reader' = [reader EXCEPT ![n] = "attached"] /\ \E c \in Conv : sessions[c] = n
        \/ reader' = [reader EXCEPT ![n] = "left"]
    BY DEF Attach, Detach, ExitSent
  <1>3. reader' \in [Inst -> {"no", "attached", "left"}]
    BY <1>2 DEF TypeOK
  <1>4. TypeOK'
    BY <1>1, <1>3 DEF TypeOK, disk, registry, history
  <1>5. OutputKept'
    <2>1. \A m \in Inst : reader'[m] = "attached" => reader[m] = "attached" \/ m \in dirs
      <3>1. (\E c \in Conv : sessions[c] = n) => n \in dirs
        BY NoneFacts DEF RegistryInv, Registered
      <3> QED BY <1>2, <3>1 DEF TypeOK
    <2> QED BY <1>1, <2>1 DEF OutputKept
  <1>6. OwnerInv' /\ CreateInv' /\ SpentInv' /\ RegistryInv' /\ AtMostOnce' /\ CancelFences'
        /\ OpenReachable'
    BY <1>1 DEF OwnerInv, CreateInv, SpentInv, RegistryInv, Registered, AtMostOnce, CancelFences,
                OpenReachable, ConvOf, Closed, disk, registry, history
  <1> QED BY <1>4, <1>5, <1>6

\* CANCEL_CREATE closes the session of its intent and leaves no authority behind.
LEMMA CancelStep ==
    ASSUME BrokerInv, NEW i \in Intent, CancelCreate(i) \/ CancelFails(i)
    PROVE  BrokerInv'
  <1>0. TypeOK /\ OwnerInv /\ lock = None
    BY DEF BrokerInv, CancelCreate, CancelFails
  <1>1. CASE CancelFails(i)
    <2>1. /\ UNCHANGED <<up, registry, procs, history>> /\ CommitFails(i)
          /\ left' = [left EXCEPT !.faults = @ - 1] /\ left.faults > 0
      BY <1>1 DEF CancelFails, CommitFails
    <2>2. owner[i] # NoConv
      BY <1>0, <1>1 DEF CancelFails, OwnerInv, TypeOK
    <2>3. DiskMoves /\ owner' = owner
      BY <1>0, <2>1, <2>2, CommitMoves DEF history
    <2>4. left' \in [faults : 0..MaxFaults, crashes : 0..MaxCrashes]
      BY <1>0, <2>1, FaultType
    <2>5. \A n \in Inst : StMove(n)
      BY <2>1 DEF StMove, procs
    <2>6. cancelled' = cancelled /\ cancelled \subseteq {j \in Intent : owner[j] # NoConv}
      BY <1>0, <2>1 DEF history, TypeOK
    <2>7. st' \in [Inst -> {"unborn", "open", "closing", "ended", "over"}]
      BY <1>0, <2>1 DEF TypeOK, procs
    <2> QED BY <1>0, <2>1, <2>3, <2>4, <2>5, <2>6, <2>7, SessionStep DEF registry, procs, history
  <1>2. CASE CancelCreate(i)
    <2> DEFINE n == sessions[owner[i]]
    <2>1. /\ owner[i] # NoConv /\ cancelled' = cancelled \cup {i}
          /\ UNCHANGED <<up, registry, intentOf, reader, dirs, left, barrierLost>>
          /\ CommitConsumed(i) \/ (UNCHANGED disk /\ ticket[i] \notin {"issued", "consumed"})
          /\ st' = IF n # None /\ intentOf[n] = i THEN [st EXCEPT ![n] = close(@)] ELSE st
      BY <1>2 DEF CancelCreate
    <2>2. DiskMoves /\ owner' = owner
      BY <1>0, <2>1, CommitMoves, DiskStays
    <2>3. owner[i] \in Conv /\ n \in Inst \cup {None}
      BY <1>0, <2>1 DEF TypeOK
    <2>4. /\ st' \in [Inst -> {"unborn", "open", "closing", "ended", "over"}]
          /\ \A m \in Inst : StMove(m)
          /\ n # None /\ intentOf[n] = i => st'[n] # "open"
      <3>1. CASE n # None /\ intentOf[n] = i
        BY <1>0, <2>1, <2>3, <3>1, CloseMoves
      <3>2. CASE ~(n # None /\ intentOf[n] = i)
        BY <1>0, <2>1, <3>2 DEF TypeOK, StMove
      <3> QED BY <3>1, <3>2
    \* An open session of the intent is the one the conversation has.
    <2>5. ASSUME NEW m \in Inst, intentOf[m] = i PROVE st'[m] # "open"
      <3>1. CASE st[m] = "open"
        <4>1. n = m /\ m # None
          BY <2>5, <3>1, NoneFacts DEF BrokerInv, OpenReachable, ConvOf
        <4> QED BY <2>4, <2>5, <4>1
      <3>2. CASE st[m] # "open"
        BY <2>4, <3>2 DEF StMove
      <3> QED BY <3>1, <3>2
    <2>6. ~barrierLost => "issued" \notin after'[i]
      <3>1. CASE CommitConsumed(i)
        BY <1>0, <2>1, <3>1, CommitMoves
      <3>2. CASE UNCHANGED disk /\ ticket[i] \notin {"issued", "consumed"}
        <4>1. ticket[i] \in {"none", "torn"} /\ after' = after
          BY <1>0, <3>2 DEF TypeOK, disk
        <4> QED BY <4>1 DEF BrokerInv, SpentInv
      <3> QED BY <2>1, <3>1, <3>2
    <2>7. cancelled' \subseteq {j \in Intent : owner[j] # NoConv}
      BY <1>0, <2>1 DEF TypeOK
    <2>8. left' \in [faults : 0..MaxFaults, crashes : 0..MaxCrashes]
      BY <1>0, <2>1 DEF TypeOK
    <2>9. \A j \in cancelled' \ cancelled :
               /\ lock = None
               /\ ~barrierLost => "issued" \notin after'[j]
               /\ \A m \in Inst : intentOf[m] = j => st'[m] # "open"
      BY <1>0, <2>1, <2>5, <2>6
    <2> HIDE DEF n
    <2> QED BY <1>0, <2>1, <2>2, <2>4, <2>7, <2>8, <2>9, SessionStep DEF registry
  <1> QED BY <1>1, <1>2

-------------------------------------------------------------------------------
(* The start of a process, and the death of the broker.                         *)

\* A create that spawns its shell keeps the invariant: its ticket is consumed for good.
LEMMA SpawnStep ==
    ASSUME BrokerInv, NEW n \in Inst, CreateSpawn(n)
    PROVE  BrokerInv'
  <1> USE DEF BrokerInv
  <1> DEFINE old == sessions[owner[lock]]
  <1>1. /\ lock \in Intent /\ owner[lock] \in Conv /\ owner[lock] # NoConv
        /\ after[lock] = {"consumed"} /\ \A m \in Inst : intentOf[m] # lock
        /\ old # None => st[old] \in {"closing", "over"}
        /\ ~barrierLost => lock \notin cancelled
    BY DEF CreateSpawn, CreateInv, TypeOK, Closed
  <1>2. /\ UNCHANGED <<up, ticket, after, owner, reader, left, cancelled, barrierLost>>
        /\ st' = [st EXCEPT ![n] = "open"] /\ intentOf' = [intentOf EXCEPT ![n] = lock]
        /\ dirs' = dirs \cup {n} /\ cache' = cache \cup {lock}
        /\ sessions' = [sessions EXCEPT ![owner[lock]] = n]
        /\ retiring' = retiring \cup ({old} \ {None}) /\ lock' = None
        /\ st[n] = "unborn"
    BY DEF CreateSpawn, FreshInst, disk, history
  <1>3. /\ sessions \in [Conv -> Inst \cup {None}] /\ st \in [Inst -> {"unborn", "open", "closing", "ended", "over"}]
        /\ intentOf \in [Inst -> Intent \cup {None}]
    BY DEF TypeOK
  <1>4. /\ sessions' \in [Conv -> Inst \cup {None}] /\ sessions'[owner[lock]] = n
        /\ \A c \in Conv : c # owner[lock] => sessions'[c] = sessions[c]
    BY <1>1, <1>2, <1>3
  <1>5. /\ st'[n] = "open" /\ intentOf'[n] = lock
        /\ \A m \in Inst : m # n => st'[m] = st[m] /\ intentOf'[m] = intentOf[m]
    BY <1>2, <1>3
  <1>6. TypeOK'
    <2>1. st' \in [Inst -> {"unborn", "open", "closing", "ended", "over"}]
          /\ intentOf' \in [Inst -> Intent \cup {None}]
      BY <1>1, <1>2, <1>3
    <2>2. old \in Inst \cup {None}
      BY <1>1, <1>3
    <2>3. retiring' \subseteq Inst /\ dirs' \subseteq Inst
      BY <1>2, <2>2 DEF TypeOK
    <2>4. cache' \subseteq {i \in Intent : owner'[i] # NoConv}
      BY <1>1, <1>2 DEF TypeOK
    <2> HIDE DEF old
    <2> QED BY <1>2, <1>4, <2>1, <2>3, <2>4 DEF TypeOK
  <1>7. Registered' = Registered \cup {n}
    <2>1. n # None
      BY NoneFacts
    <2>2. \A c \in Conv : sessions[c] # None => sessions[c] \in Registered'
      <3>1. old # None => old \in Registered'
        BY <1>2 DEF Registered
      <3>2. \A c \in Conv : c # owner[lock] /\ sessions[c] # None => sessions[c] \in Registered'
        BY <1>4 DEF Registered
      <3> QED BY <3>1, <3>2
    <2>3. Registered \subseteq Registered'
      BY <1>2, <2>2 DEF Registered
    <2>4. n \in Registered'
      BY <1>1, <1>4, <2>1 DEF Registered
    <2>5. \A m \in Registered' : m \in Registered \cup {n}
      BY <1>1, <1>2, <1>4 DEF Registered
    <2> QED BY <2>3, <2>4, <2>5
  <1> HIDE DEF old
  <1>8. OwnerInv' /\ SpentInv' /\ CreateInv' /\ AtMostOnce'
    BY <1>1, <1>2, <1>5 DEF OwnerInv, SpentInv, CreateInv, AtMostOnce
  <1>9. RegistryInv' /\ OutputKept'
    BY <1>1, <1>2, <1>5, <1>7, NoneFacts DEF RegistryInv, OutputKept
  <1>10. CancelFences'
    BY <1>1, <1>2, <1>5 DEF CancelFences
  <1>11. OpenReachable'
    <2> SUFFICES ASSUME NEW m \in Inst, st'[m] = "open"
                 PROVE  /\ sessions'[owner'[intentOf'[m]]] = m /\ intentOf'[m] \in cache'
                        /\ after'[intentOf'[m]] = {"consumed"}
      BY DEF OpenReachable, ConvOf
    <2>1. CASE m = n
      BY <1>1, <1>2, <1>4, <1>5, <2>1
    \* A session that was open is of another conversation.
    <2>2. CASE m # n
      <3>1. st[m] = "open" /\ intentOf'[m] = intentOf[m]
        BY <1>5, <2>2
      <3>2. ConvOf(m) \in Conv /\ sessions[ConvOf(m)] = m
        BY <3>1, OpenProtected
      <3>3. ConvOf(m) # owner[lock]
        BY <1>1, <3>1, <3>2, NoneFacts DEF old
      <3> QED BY <1>2, <1>4, <3>1, <3>2, <3>3 DEF OpenReachable, ConvOf
    <2> QED BY <2>1, <2>2
  <1> QED BY <1>6, <1>8, <1>9, <1>10, <1>11

\* A create whose spawn fails keeps the invariant.
LEMMA SpawnFailsStep ==
    ASSUME BrokerInv, CreateSpawnFails
    PROVE  BrokerInv'
  <1> USE DEF BrokerInv
  <1>1. /\ UNCHANGED <<up, ticket, after, owner, sessions, retiring, cache, intentOf, reader, left,
                       cancelled, barrierLost>>
        /\ lock' = None
    BY DEF CreateSpawnFails, disk, history
  <1>2. /\ st' \in [Inst -> {"unborn", "open", "closing", "ended", "over"}]
        /\ \A m \in Inst : st'[m] = st[m] \/ st'[m] = "over"
        /\ dirs \subseteq dirs' /\ dirs' \subseteq Inst
    <2>1. CASE UNCHANGED <<st, dirs>>
      BY <2>1 DEF TypeOK
    <2>2. CASE \E n \in Inst : st' = [st EXCEPT ![n] = "over"] /\ dirs' = dirs \cup {n}
      BY <2>2 DEF TypeOK
    <2> QED BY <2>1, <2>2 DEF CreateSpawnFails
  <1>3. TypeOK'
    BY <1>1, <1>2 DEF TypeOK
  <1>4. Registered' = Registered
    BY <1>1 DEF Registered
  <1>5. OwnerInv' /\ CreateInv' /\ SpentInv' /\ AtMostOnce'
    BY <1>1 DEF OwnerInv, CreateInv, SpentInv, AtMostOnce
  <1>6. RegistryInv' /\ OutputKept' /\ CancelFences'
    BY <1>1, <1>2, <1>4 DEF RegistryInv, OutputKept, CancelFences
  <1>7. OpenReachable'
    BY <1>1, <1>2 DEF OpenReachable, ConvOf
  <1> QED BY <1>3, <1>5, <1>6, <1>7

\* A dead broker has no sessions; what it leaves on disk is as the invariant says.
LEMMA DieStep ==
    ASSUME BrokerInv, KillBroker \/ PowerLoss
    PROVE  BrokerInv'
  <1> USE DEF BrokerInv
  <1>0. Die
    BY DEF KillBroker, PowerLoss
  <1>1. /\ UNCHANGED <<owner, intentOf, cancelled, barrierLost>>
        /\ sessions' = [c \in Conv |-> None] /\ retiring' = {} /\ cache' = {} /\ lock' = None
        /\ st' = [n \in Inst |-> IF st[n] = "unborn" THEN "unborn" ELSE "over"]
        /\ reader' = [n \in Inst |-> IF reader[n] = "attached" THEN "left" ELSE reader[n]]
        /\ up' = FALSE /\ left.crashes > 0 /\ left' = [left EXCEPT !.crashes = @ - 1]
    BY <1>0 DEF Die, history
  <1>2. DiskMoves /\ dirs' \subseteq dirs
    <2>1. CASE KillBroker
      <3>1. UNCHANGED disk /\ dirs' = dirs
        BY <1>1, <2>1 DEF KillBroker, disk
      <3> QED BY <1>1, <3>1, DiskStays
    <2>2. CASE PowerLoss
      <3>1. /\ ticket' \in [Intent -> Content] /\ \A i \in Intent : ticket'[i] \in after[i]
            /\ after' = [i \in Intent |-> {ticket'[i]}] /\ dirs' \subseteq dirs
        BY <2>2 DEF PowerLoss, Content
      <3>2. \A i \in Intent : TicketMove(i)
        BY <3>1 DEF TicketMove
      <3>3. DOMAIN after' = Intent /\ after' = [i \in Intent |-> after'[i]]
        BY <3>1
      <3> QED BY <1>1, <3>1, <3>2, <3>3 DEF DiskMoves, TypeOK
    <2> QED BY <2>1, <2>2
  <1>3. /\ after' \in [Intent -> SUBSET Content]
        /\ \A i \in Intent : ticket'[i] \in after'[i]
        /\ \A i \in Intent : owner'[i] = NoConv => after'[i] = {"none"}
        /\ \A i \in Intent : owner[i] # NoConv /\ "issued" \notin after[i] =>
                                 "issued" \notin after'[i]
    BY <1>2, DiskFacts
  <1>4. \A n \in Inst : st'[n] \in {"unborn", "over"} /\ reader'[n] # "attached"
    BY <1>1
  <1>5. TypeOK'
    <2>1. st' \in [Inst -> {"unborn", "open", "closing", "ended", "over"}]
          /\ reader' \in [Inst -> {"no", "attached", "left"}]
      BY <1>1 DEF TypeOK
    <2>2. left' \in [faults : 0..MaxFaults, crashes : 0..MaxCrashes]
      BY <1>1, PtyAssumption DEF TypeOK
    <2>3. ticket' \in [Intent -> Content]
      BY <1>2 DEF DiskMoves
    <2>4. sessions' \in [Conv -> Inst \cup {None}]
      BY <1>1
    <2> QED BY <1>1, <1>2, <1>3, <2>1, <2>2, <2>3, <2>4 DEF TypeOK, Content
  <1>6. Registered' = {}
    BY <1>1 DEF Registered
  <1>7. OwnerInv' /\ CreateInv' /\ AtMostOnce'
    BY <1>1, <1>3 DEF OwnerInv, CreateInv, AtMostOnce
  <1>8. SpentInv'
    <2>1. \A n \in Inst : intentOf[n] # None => intentOf[n] \in Intent /\ owner[intentOf[n]] # NoConv
      BY DEF TypeOK, OwnerInv
    <2>2. \A n \in Inst : intentOf'[n] # None => "issued" \notin after'[intentOf'[n]]
      BY <1>1, <1>3, <2>1 DEF SpentInv
    <2>3. ~barrierLost' => \A i \in cancelled' : "issued" \notin after'[i]
      BY <1>1, <1>3 DEF SpentInv, TypeOK
    <2>4. ~barrierLost' => \A i \in Intent : ticket'[i] \in {"none", "torn"} => "issued" \notin after'[i]
      BY <1>2, DiskFacts DEF SpentInv
    <2> QED BY <2>2, <2>3, <2>4 DEF SpentInv
  <1>9. RegistryInv' /\ OutputKept' /\ CancelFences' /\ OpenReachable'
    BY <1>4, <1>6 DEF RegistryInv, OutputKept, CancelFences, OpenReachable
  <1> QED BY <1>5, <1>7, <1>8, <1>9

-------------------------------------------------------------------------------
(* The theorems.                                                                *)

\* A broker that has never run satisfies the inductive invariant.
LEMMA InitBrokerInv ==
    ASSUME Init
    PROVE  BrokerInv
  <1>1. /\ \A n \in Inst : st[n] = "unborn" /\ intentOf[n] = None /\ reader[n] = "no"
        /\ \A i \in Intent : ticket[i] = "none" /\ after[i] = {"none"} /\ owner[i] = NoConv
        /\ lock = None /\ cancelled = {} /\ Registered = {}
    BY DEF Init, Registered
  <1>2. TypeOK
    <2>1. left \in [faults : 0..MaxFaults, crashes : 0..MaxCrashes]
      BY PtyAssumption DEF Init
    <2>2. after \in [Intent -> SUBSET {"none", "torn", "issued", "consumed"}]
      BY DEF Init
    <2>3. /\ ticket \in [Intent -> {"none", "torn", "issued", "consumed"}]
          /\ owner \in [Intent -> Conv \cup {NoConv}] /\ sessions \in [Conv -> Inst \cup {None}]
      BY DEF Init
    <2>4. /\ st \in [Inst -> {"unborn", "open", "closing", "ended", "over"}]
          /\ intentOf \in [Inst -> Intent \cup {None}] /\ reader \in [Inst -> {"no", "attached", "left"}]
      BY DEF Init
    <2> QED BY <1>1, <2>1, <2>2, <2>3, <2>4 DEF Init, TypeOK
  <1>3. OwnerInv /\ CreateInv /\ SpentInv /\ RegistryInv
    BY <1>1 DEF OwnerInv, CreateInv, SpentInv, RegistryInv
  <1>4. AtMostOnce /\ CancelFences /\ OpenReachable /\ OutputKept
    BY <1>1 DEF AtMostOnce, CancelFences, OpenReachable, OutputKept
  <1> QED BY <1>2, <1>3, <1>4 DEF BrokerInv

\* Every step keeps the inductive invariant.
LEMMA NextBrokerInv ==
    ASSUME BrokerInv, [Next]_vars
    PROVE  BrokerInv'
  <1>1. CASE Issues
    BY <1>1, IssueStep
  <1>2. CASE Maintain \/ MaintainFails
    BY <1>2, PruneStep DEF Maintain, MaintainFails, PruneArchives, Prunes
  <1>3. ASSUME NEW i \in Intent, CreateConsume(i) \/ CreateConsumeFails(i) PROVE BrokerInv'
    <2>1. Prunes /\ Consumes(i) /\ lock = None /\ UNCHANGED <<up, history>>
      BY <1>3 DEF CreateConsume, CreateConsumeFails, PruneArchives, Prunes, Consumes
    <2> QED BY <2>1, PruneStep
  <1>4. CASE CreateStep
    BY <1>4, SpawnStep, SpawnFailsStep DEF CreateStep
  <1>5. ASSUME NEW i \in Intent, CancelCreate(i) \/ CancelFails(i) PROVE BrokerInv'
    BY <1>5, CancelStep
  <1>6. ASSUME NEW n \in Inst, Close(n) \/ ProcessEnds(n) \/ AppendFails(n) \/ KillDrained(n) \/ MarkClosed(n)
        PROVE  BrokerInv'
    BY <1>6, EndStep
  <1>7. ASSUME NEW n \in Inst, Attach(n) \/ Detach(n) \/ ExitSent(n) PROVE BrokerInv'
    BY <1>7, StreamStep
  <1>8. CASE KillBroker \/ PowerLoss
    BY <1>8, DieStep
  <1>9. CASE Start \/ UNCHANGED vars
    <2>1. /\ UNCHANGED <<ticket, after, owner, sessions, retiring, cache, lock, st, intentOf, reader,
                         dirs, left, cancelled, barrierLost>>
          /\ up' \in {up, TRUE}
      BY <1>9 DEF Start, vars, disk, registry, procs, history
    <2>2. TypeOK'
      BY <2>1 DEF BrokerInv, TypeOK
    <2> QED BY <2>1, <2>2 DEF BrokerInv, OwnerInv, CreateInv, SpentInv, RegistryInv, Registered,
                 AtMostOnce, CancelFences, OpenReachable, OutputKept, ConvOf, Closed
  <1> QED BY <1>1, <1>2, <1>3, <1>4, <1>5, <1>6, <1>7, <1>8, <1>9 DEF Next, Issues

\* The invariant holds of every behaviour of the broker.
THEOREM BrokerInvariant == Spec => []BrokerInv
  BY InitBrokerInv, NextBrokerInv, PTL DEF Spec

\* Type correctness of the broker: the registry and the cache speak of issued intents.
THEOREM TypeCorrect == Spec => []TypeOK
  <1>1. BrokerInv => TypeOK
    BY DEF BrokerInv
  <1> QED BY <1>1, BrokerInvariant, PTL

\* An intent starts its command at most once, over retries, collections, crashes and
\* losses of power.
THEOREM StartsOnce == Spec => []AtMostOnce
  <1>1. BrokerInv => AtMostOnce
    BY DEF BrokerInv
  <1> QED BY <1>1, BrokerInvariant, PTL

\* Behind an answered CANCEL no session of the intent is open, unless a barrier was lost.
THEOREM CancelHolds == Spec => []CancelFences
  <1>1. BrokerInv => CancelFences
    BY DEF BrokerInv
  <1> QED BY <1>1, BrokerInvariant, PTL

\* A shell that runs can be reached, reconnected to and not started again.
THEOREM ShellsReachable == Spec => []OpenReachable
  <1>1. BrokerInv => OpenReachable
    BY DEF BrokerInv
  <1> QED BY <1>1, BrokerInvariant, PTL

\* The retention of archives takes no log that is written or read.
THEOREM LogsKept == Spec => []OutputKept
  <1>1. BrokerInv => OutputKept
    BY DEF BrokerInv
  <1> QED BY <1>1, BrokerInvariant, PTL
===============================================================================
