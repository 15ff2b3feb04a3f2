------------------------ MODULE HouseholdInstall_proofs ------------------------
(* Proofs about HouseholdInstall.                                          *)
EXTENDS HouseholdInstall, TLAPS

-----------------------------------------------------------------------------
(* The inductive invariant, in parts.                                      *)

\* A disk that a power loss may leave.
IsMix(d) ==
    /\ \A f \in File : d[f] \in {vis[f], dur[f]}
    /\ dur.torn /\ ~vis.torn /\ ~d.torn => d.arts = vis.arts /\ d.mark = vis.mark

\* The expectation of an installation that was begun.
Begun(e) == e.g0 < e.g1 /\ e.g1 <= minted /\ e.req \in Req

\* The records of a disk name generations that are not ahead of it, and an Ack speaks
\* of an earlier one or of the one the terminal record speaks of.
GensOK(d) ==
    /\ d.gen > 0 /\ d.gen <= minted
    /\ d.term.ph = "none" => d.term.exp = NoExp
    /\ d.term.ph # "none" => Begun(d.term.exp)
    /\ d.term.ph = "final" => d.term.exp.g1 <= d.gen
    /\ d.deliv.g1 <= d.gen
    /\ \A e \in sent :
        /\ e.g1 <= d.gen
        /\ d.term.ph # "none" => e = d.term.exp \/ e.g1 <= d.term.exp.g0

\* A breadcrumb can be recovered: either nothing is committed, or all that the marker
\* stands for is there, and the terminal record is the old one, prepared, or final.
CrumbOK(d) ==
    LET c == d.crumb IN
    /\ d.term.ph = "prepared" => d.term.exp = c
    /\ c # NoExp =>
        /\ Begun(c) /\ ~d.torn
        /\ d.deliv.g1 <= c.g0
        /\ \A e \in sent : e.g1 <= c.g0
        /\ \/ d.gen = c.g0 /\ d.mark = NoReq
           \/ /\ d.gen \in {c.g0, c.g1} /\ d.mark = c.req
              /\ d.arts = [req |-> c.req, all |-> TRUE]
              /\ foreign \/ d.win = [gen |-> c.g0, st |-> "Committed", req |-> c.req]
        /\ \/ /\ d.gen = c.g0 /\ d.boot = "early"
              /\ d.term.ph # "prepared" /\ d.term.exp.g1 < c.g0
           \/ d.term = [ph |-> "prepared", exp |-> c] /\ d.mark = c.req /\ d.boot = "early"
           \/ d.term = [ph |-> "final", exp |-> c] /\ d.gen = c.g1 /\ d.boot # "ready"

\* A result of the current generation has its household, and Ready and the Ack have the
\* delivery record.
ResultOK(d) ==
    /\ d.mark = NoReq => d.boot = "early"
    /\ d.term.ph = "final" /\ d.term.exp.g1 = d.gen =>
        /\ d.mark = d.term.exp.req /\ ~d.torn
        /\ d.boot = "early" => d.deliv.g1 # d.gen
        /\ d.boot = "ready" => d.deliv = d.term.exp
    /\ d.deliv.g1 = d.gen => d.term.ph = "final" /\ d.deliv = d.term.exp
    /\ \A e \in sent : e.g1 = d.gen =>
        /\ d.term = [ph |-> "final", exp |-> e] /\ d.crumb = NoExp
        /\ d.deliv = e /\ d.boot = "ready"

Good(d) == GensOK(d) /\ CrumbOK(d) /\ ResultOK(d)
DiskInv == \A d \in Disk : IsMix(d) => Good(d)

\* What may be visible and not durable: the marker of an open transaction, the removal
\* of a household that is being torn down, its detachment, and Ready.
LagInv ==
    /\ ~dur.torn /\ vis.mark # dur.mark =>
          /\ dur.mark = NoReq /\ dur.crumb = vis.crumb
          /\ vis.crumb # NoExp /\ vis.crumb.req = vis.mark
    /\ dur.torn /\ ~vis.torn => vis.mark = NoReq /\ vis.crumb = NoExp
    /\ dur.torn /\ vis.torn => vis.mark = dur.mark
    /\ ~dur.torn /\ vis.torn => vis.boot = "ready" /\ dur.boot = "ready"
    /\ dur.boot = "ready" /\ vis.boot # "ready" => dur.torn

\* Request r belongs to generation g: a window or an expectation says so.
Names(r, g) ==
    \/ \E w \in {vis.win, dur.win, mem["daemon"].win, mem["cli"].win} : w.req = r /\ w.gen = g
    \/ \E e \in sent \cup {vis.crumb, dur.crumb, vis.term.exp, dur.term.exp, vis.deliv, dur.deliv} :
          e.req = r /\ e.g0 = g

\* A request is staged in one generation only.
WindowInv ==
    \A r \in Req, g \in Nat : Names(r, g) =>
        r \in used /\ \A h \in Nat : Names(r, h) => g = h

\* One Ack follows the other.
SentInv ==
    /\ \A e \in sent : Begun(e)
    /\ \A e, f \in sent : e # f => e.g1 <= f.g0 \/ f.g1 <= e.g0

\* A teardown that has detached the household ends its process.
Tearing == run.op = "teardown" /\ run.at \in {"tearBoot", "tearRemove", "exit"}

\* What a process remembers: no window of a generation yet to come, and a window of the
\* current one only if the bootstrap state of its result was written; the daemon that
\* is ready has its household until it tears it down itself.
MemInv ==
    /\ \A p \in Proc :
        /\ mem[p].win.gen <= minted
        /\ vis.crumb # NoExp => mem[p].win.gen < vis.crumb.g1
        /\ mem[p].win.gen = vis.gen /\ active_terminal_result => vis.boot # "early"
    /\ mem["daemon"].up = "up" /\ vis.torn => Tearing
    /\ mem["daemon"].up = "up" /\ mem["daemon"].id # NoReq /\ ~Tearing =>
        \A d \in {vis, dur} :
            /\ d.mark = mem["daemon"].id /\ ~d.torn
            /\ mem["daemon"].boot = "ready" => d.boot = "ready"

\* The entries of the state root, and the marker with them, are durable.
RootSynced == \A f \in Root : vis[f] = dur[f]
Settled == RootSynced /\ vis.mark = dur.mark

\* What the transaction has established where it stands.
Established(at) ==
    LET c == vis.crumb
        Prepared == [ph |-> "prepared", exp |-> c]
        Committed == Settled /\ c # NoExp /\ vis.mark = c.req
        Started == Settled /\ c # NoExp /\ vis.mark = NoReq
    IN
    /\ at \in {"tornRotate", "tornBoot", "tornRemove", "tearBoot", "tearRemove"} => vis.torn
    /\ at \notin {"none", "fail", "exit", "tornRotate", "tornBoot", "tornRemove",
                  "tearBoot", "tearRemove"} => ~vis.torn
    /\ at \in {"tornBoot", "tornRemove", "tearRename", "tearBoot", "tearRemove"} => RootSynced
    /\ at \in {"tornRemove", "tearRemove"} => vis.boot = "early"
    /\ at = "tearRename" => vis.term.exp.g1 # vis.gen
    /\ run.op \in {"start", "teardown"} => run.p = "daemon"
    /\ at \in {"tearCheck", "tearRotate", "tearRename", "tearBoot", "tearRemove"} =>
          /\ run.op = "teardown" /\ mem["daemon"].up = "up"
          /\ mem["daemon"].boot = "ready" /\ mem["daemon"].id # NoReq
    /\ at \in {"deliver", "ready", "publish", "ack", "signal", "signalled"} =>
          Settled /\ active_terminal_result
    /\ at \in {"deliver", "ready", "publish", "ack"} => vis.boot # "early" /\ c = NoExp
    /\ at \in {"ready", "publish", "ack"} => vis.deliv = vis.term.exp
    /\ at \in {"publish", "ack"} => vis.boot = "ready"
    /\ at \in {"lookup", "deliver", "ready", "publish", "ack", "begin"} => run.req \in Req
    /\ at = "begin" => Settled /\ FirstAttemptAllowed
    /\ at \in {"artifacts", "promote", "window", "marker"} => Started /\ c.req = run.req
    /\ at = "promote" => vis.arts.req = c.req
    /\ at \in {"window", "marker"} =>
          \A d \in {vis, dur} : d.arts = [req |-> c.req, all |-> TRUE]
    /\ at = "marker" =>
          \A d \in {vis, dur} : d.win = [gen |-> c.g0, st |-> "Committed", req |-> c.req]
    /\ at = "prepare" => Committed /\ vis.gen = c.g0 /\ vis.term.exp # c
    /\ at = "rotate" => Committed /\ vis.gen = c.g0 /\ vis.term = Prepared
    /\ at = "final" => Committed /\ vis.gen = c.g1 /\ vis.term = Prepared
    /\ at = "clear" => Committed /\ vis.term = [ph |-> "final", exp |-> c]
    /\ at \in {"rbHouse", "rbWin", "rbClear"} => Started
    /\ at \in {"repair", "open"} => Settled /\ c = NoExp
    /\ at = "open" => (active_terminal_result => vis.boot # "early")
    /\ at \in {"stageIdle", "staging"} => Settled /\ vis.mark = NoReq

StepInv == Established(run.at)

InstallInv == /\ TypeOK /\ DiskInv /\ LagInv /\ WindowInv /\ SentInv /\ MemInv /\ StepInv
              /\ RecoveryNeverRefuses

-----------------------------------------------------------------------------
(* Disks and writes.                                                       *)

\* NoReq is no request, and NoExp is no expectation of an installation.
LEMMA NoReqFacts == NoReq \notin Req /\ NoExp \in Exp /\ NoExp.g0 = 0 /\ NoExp.g1 = 0 /\ NoExp.req = NoReq
  BY InstallAssumption DEF NoExp, Exp

\* A function on the files whose values have the types of the fields is a disk.
LEMMA IsDisk ==
    ASSUME NEW d, d = [f \in File |-> d[f]], NEW a \in Disk, NEW b \in Disk,
           \A f \in File : d[f] = a[f] \/ d[f] = b[f]
    PROVE  d \in Disk
  <1>1. DOMAIN d = {"gen", "crumb", "term", "deliv", "boot", "torn", "arts", "mark", "win"}
    BY DEF File
  <1>2. /\ d.gen \in Nat /\ d.crumb \in Exp /\ d.deliv \in Exp
        /\ d.term \in [ph : {"none", "prepared", "final"}, exp : Exp]
        /\ d.boot \in {"early", "restart", "ready"} /\ d.torn \in BOOLEAN
        /\ d.arts \in Artifacts /\ d.mark \in Req \cup {NoReq} /\ d.win \in Window
    BY DEF Disk, File
  <1>3. d = [gen |-> d.gen, crumb |-> d.crumb, term |-> d.term, deliv |-> d.deliv, boot |-> d.boot,
             torn |-> d.torn, arts |-> d.arts, mark |-> d.mark, win |-> d.win]
    BY <1>1 DEF File
  <1> QED BY <1>2, <1>3 DEF Disk

\* What is durable after a barrier over some files.
LEMMA SyncedFacts ==
    ASSUME dur \in Disk, NEW new \in Disk, NEW files \in SUBSET File
    PROVE  /\ Synced(new, files) \in Disk
           /\ \A f \in File : Synced(new, files)[f] \in {new[f], dur[f]}
           /\ \A f \in files : Synced(new, files)[f] = new[f]
           /\ \A f \in File \ {"arts", "mark"} : f \notin files => Synced(new, files)[f] = dur[f]
           /\ "torn" \in files /\ dur.torn /\ ~new.torn =>
                  Synced(new, files).arts = new.arts /\ Synced(new, files).mark = new.mark
           /\ ~("torn" \in files /\ dur.torn /\ ~new.torn) =>
                  \A f \in File \ files : Synced(new, files)[f] = dur[f]
  <1> DEFINE s == Synced(new, files)
  <1>1. s = [f \in File |-> s[f]]
    BY DEF Synced
  <1>2. \A f \in File : s[f] \in {new[f], dur[f]}
    BY DEF Synced
  <1>3. s \in Disk
    BY <1>1, <1>2, IsDisk
  <1>4. \A f \in files : s[f] = new[f]
    BY DEF Synced
  <1>5. \A f \in File \ {"arts", "mark"} : f \notin files => s[f] = dur[f]
    BY DEF Synced, Inside
  <1>6. "torn" \in files /\ dur.torn /\ ~new.torn => s.arts = new.arts /\ s.mark = new.mark
    BY DEF Synced, Inside, File
  <1>7. ~("torn" \in files /\ dur.torn /\ ~new.torn) => \A f \in File \ files : s[f] = dur[f]
    BY DEF Synced, Inside
  <1> QED BY <1>2, <1>3, <1>4, <1>5, <1>6, <1>7

\* The three outcomes of a write for the files.
DiskStep(new, files) ==
    \/ vis' = vis /\ dur' = dur
    \/ vis' = new /\ dur' = dur
    \/ vis' = new /\ dur' = Synced(new, files)

\* A write that was acknowledged.
Written(new, files) == vis' = new /\ dur' = Synced(new, files)

\* A step of the transaction keeps everything but where it stands.
Moved(at) == /\ run' \in [p : Proc, op : Op, at : Step, req : Req \cup {NoReq}]
             /\ run'.at = at /\ run'.p = run.p /\ run'.op = run.op /\ run'.req = run.req

\* A transaction that goes on moves.
LEMMA GoMoves ==
    ASSUME TypeOK, NEW at \in Step, Go(at)
    PROVE  Moved(at)
  BY DEF TypeOK, Go, Moved

\* The bounds stay natural numbers.
LEMMA FaultType ==
    ASSUME TypeOK, Fault \/ NoFault \/ CrashLeft
    PROVE  left' \in [faults : Nat, crashes : Nat, lost : Nat]
  BY DEF TypeOK, Fault, NoFault, CrashLeft

\* A write with one of its outcomes: what is visible and durable has its type, and only an
\* acknowledged write goes on.
LEMMA WriteFacts ==
    ASSUME TypeOK, NEW new \in Disk, NEW files \in SUBSET File, NEW ok \in Step, NEW bad \in Step,
           Write(new, files, ok, bad)
    PROVE  /\ vis' \in Disk /\ dur' \in Disk
           /\ left' \in [faults : Nat, crashes : Nat, lost : Nat]
           /\ DiskStep(new, files)
           /\ \/ Moved(ok) /\ Written(new, files)
              \/ Moved(bad)
  <1>1. Synced(new, files) \in Disk /\ vis \in Disk /\ dur \in Disk
    BY SyncedFacts DEF TypeOK
  <1>2. left' \in [faults : Nat, crashes : Nat, lost : Nat]
    BY FaultType DEF Write
  <1>3. Go(ok) => Moved(ok)
    BY GoMoves
  <1>4. Go(bad) => Moved(bad)
    BY GoMoves
  <1> QED BY <1>1, <1>2, <1>3, <1>4 DEF Write, DiskStep, Written, disk

\* Where a transaction goes when it fails.
LEMMA FailedType == Failed \in {"fail", "exit"} /\ Failed \in Step
  BY DEF Failed, Step

\* The visible disk and the durable one are among those a power loss may leave.
LEMMA MixEnds ==
    ASSUME TypeOK
    PROVE  IsMix(vis) /\ IsMix(dur)
  BY DEF IsMix, TypeOK, Disk

\* The fields of such a disk, one by one.
LEMMA MixFields ==
    ASSUME NEW d \in Disk, IsMix(d)
    PROVE  /\ d.gen \in {vis.gen, dur.gen} /\ d.crumb \in {vis.crumb, dur.crumb}
           /\ d.term \in {vis.term, dur.term} /\ d.deliv \in {vis.deliv, dur.deliv}
           /\ d.boot \in {vis.boot, dur.boot} /\ d.torn \in {vis.torn, dur.torn}
           /\ d.arts \in {vis.arts, dur.arts} /\ d.mark \in {vis.mark, dur.mark}
           /\ d.win \in {vis.win, dur.win}
  BY DEF IsMix, File

\* With a barrier behind them, the entries of the state root are what they seem.
LEMMA SyncedRoot ==
    ASSUME NEW d \in Disk, IsMix(d), RootSynced
    PROVE  /\ d.gen = vis.gen /\ d.crumb = vis.crumb /\ d.term = vis.term
           /\ d.deliv = vis.deliv /\ d.boot = vis.boot /\ d.torn = vis.torn
  BY MixFields DEF RootSynced, Root

\* A step that creates no new disk.
NoNewMix == \A d \in Disk : IsMix(d)' => IsMix(d)

\* Nothing is written.
LEMMA IdleMix ==
    ASSUME vis' = vis, dur' = dur
    PROVE  NoNewMix
  BY DEF NoNewMix, IsMix

\* A barrier over what is visible.
LEMMA StabiliseMix ==
    ASSUME TypeOK, NEW files \in SUBSET File, Stabilise(files)
    PROVE  /\ NoNewMix /\ vis' = vis /\ dur' \in Disk
           /\ Root \subseteq files => RootSynced'
           /\ "mark" \in files => vis'.mark = dur'.mark
  <1> DEFINE s == Synced(vis, files)
  <1>0. vis' = vis /\ dur' = s
    BY DEF Stabilise
  <1>1. /\ s \in Disk
        /\ \A f \in File : s[f] \in {vis[f], dur[f]}
        /\ \A f \in files : s[f] = vis[f]
        /\ \A f \in File \ {"arts", "mark"} : f \notin files => s[f] = dur[f]
        /\ "torn" \in files /\ dur.torn /\ ~vis.torn => s.arts = vis.arts /\ s.mark = vis.mark
    BY SyncedFacts DEF TypeOK
  <1> HIDE DEF s
  <1>2. ASSUME NEW d \in Disk, IsMix(d)' PROVE IsMix(d)
    <2>1. \A f \in File : d[f] \in {vis[f], dur[f]}
      BY <1>0, <1>1, <1>2 DEF IsMix
    <2>2. d.arts \in {vis.arts, s.arts} /\ d.mark \in {vis.mark, s.mark}
      BY <1>0, <1>2 DEF IsMix, File
    <2>3. s.torn /\ ~vis.torn /\ ~d.torn => d.arts = vis.arts /\ d.mark = vis.mark
      BY <1>0, <1>2 DEF IsMix
    <2>4. "torn" \notin files => s.torn = dur.torn
      BY <1>1 DEF File
    <2> QED BY <1>1, <2>1, <2>2, <2>3, <2>4 DEF IsMix
  <1>3. Root \subseteq files => RootSynced'
    BY <1>0, <1>1 DEF RootSynced
  <1>4. "mark" \in files => vis'.mark = dur'.mark
    BY <1>0, <1>1
  <1> QED BY <1>0, <1>1, <1>2, <1>3, <1>4 DEF NoNewMix

\* A write to one file, acknowledged or not, leaves disks that differ from those before
\* in that file only.
LEMMA WriteMix ==
    ASSUME TypeOK, NEW f \in File \ {"torn"}, NEW new \in Disk, NEW files \in SUBSET File,
           \A g \in File \ {f} : new[g] = vis[g], DiskStep(new, files),
           NEW d \in Disk, IsMix(d)'
    PROVE  \E e \in Disk : /\ IsMix(e)
                           /\ \A g \in File \ {f} : d[g] = e[g]
                           /\ d[f] \in {e[f], new[f]}
  <1> DEFINE s == Synced(new, files)
             z == [g \in File |-> IF g = f THEN vis[f] ELSE d[g]]
  <1>0. vis \in Disk /\ dur \in Disk
    BY DEF TypeOK
  <1>1. /\ \A g \in File : s[g] \in {new[g], dur[g]}
        /\ \A g \in File \ {"arts", "mark"} : g \notin files => s[g] = dur[g]
        /\ "torn" \in files => s.torn = new.torn
        /\ "torn" \in files /\ dur.torn /\ ~new.torn => s.arts = new.arts /\ s.mark = new.mark
    BY <1>0, SyncedFacts
  <1>2. new.torn = vis.torn
    BY DEF File
  <1>3. \A g \in File \ {f} : d[g] \in {vis[g], dur[g]}
    BY <1>1 DEF DiskStep, IsMix
  <1>4. d[f] \in {vis[f], dur[f], new[f]}
    BY <1>1 DEF DiskStep, IsMix
  <1>5. dur.torn /\ ~vis.torn /\ ~d.torn =>
            \/ d.arts = vis.arts /\ d.mark = vis.mark
            \/ d.arts = new.arts /\ d.mark = new.mark
    <2>1. CASE vis' = vis /\ dur' = dur
      BY <2>1 DEF IsMix
    <2>2. CASE vis' = new /\ dur' = dur
      BY <1>2, <2>2 DEF IsMix
    <2>3. CASE vis' = new /\ dur' = s
      <3>1. "torn" \notin files => s.torn = dur.torn
        BY <1>1 DEF File
      <3>2. d.arts \in {new.arts, s.arts} /\ d.mark \in {new.mark, s.mark}
        BY <2>3 DEF IsMix, File
      <3>3. s.torn /\ ~new.torn /\ ~d.torn => d.arts = new.arts /\ d.mark = new.mark
        BY <2>3 DEF IsMix
      <3> QED BY <1>1, <1>2, <3>1, <3>2, <3>3
    <2> QED BY <2>1, <2>2, <2>3 DEF DiskStep
  <1>6. /\ "arts" # f => new.arts = vis.arts
        /\ "mark" # f => new.mark = vis.mark
    BY DEF File
  <1> HIDE DEF s
  <1>7. CASE d[f] # new[f]
    <2>1. dur.torn /\ ~vis.torn /\ ~d.torn => d.arts = vis.arts /\ d.mark = vis.mark
      BY <1>5, <1>6, <1>7
    <2>2. IsMix(d)
      BY <1>3, <1>4, <1>7, <2>1 DEF IsMix
    <2> QED BY <2>2
  <1>8. CASE d[f] = new[f]
    <2>1. z = [g \in File |-> z[g]] /\ z[f] = vis[f] /\ \A g \in File \ {f} : z[g] = d[g]
      OBVIOUS
    <2> HIDE DEF z
    <2>2. z \in Disk
      BY <1>0, <2>1, IsDisk
    <2>3. z.torn = d.torn
      BY <2>1 DEF File
    <2>4. /\ "arts" # f => z.arts = d.arts
          /\ "arts" = f => z.arts = vis.arts
          /\ "mark" # f => z.mark = d.mark
          /\ "mark" = f => z.mark = vis.mark
      BY <2>1 DEF File
    <2>5. dur.torn /\ ~vis.torn /\ ~z.torn => z.arts = vis.arts /\ z.mark = vis.mark
      BY <1>5, <1>6, <2>3, <2>4
    <2>6. IsMix(z)
      BY <1>3, <2>1, <2>5 DEF IsMix
    <2> QED BY <1>8, <2>1, <2>2, <2>6
  <1> QED BY <1>7, <1>8

-----------------------------------------------------------------------------
(* Types.                                                                  *)

\* Parts of the type invariant.
LEMMA Types ==
    ASSUME TypeOK
    PROVE  /\ vis \in Disk /\ dur \in Disk /\ minted \in Nat
           /\ run.p \in Proc /\ run.op \in Op /\ run.at \in Step /\ run.req \in Req \cup {NoReq}
           /\ mem \in [Proc -> Memory] /\ mem["daemon"] \in Memory /\ mem["cli"] \in Memory
  BY DEF TypeOK, Proc

\* The disks that the writes aim at.
LEMMA NewDisks ==
    ASSUME TypeOK
    PROVE  /\ [vis EXCEPT !.gen = minted + 1] \in Disk
           /\ [vis EXCEPT !.gen = vis.crumb.g1] \in Disk
           /\ \A b \in {"early", "restart", "ready"} : [vis EXCEPT !.boot = b] \in Disk
           /\ NoHousehold \in Disk
           /\ [vis EXCEPT !.torn = TRUE] \in Disk
           /\ [vis EXCEPT !.deliv = vis.term.exp] \in Disk
           /\ [vis EXCEPT !.crumb = [g0 |-> vis.gen, g1 |-> minted + 1, req |-> run.req]] \in Disk
           /\ [vis EXCEPT !.crumb = NoExp] \in Disk
           /\ [vis EXCEPT !.arts = [req |-> run.req, all |-> FALSE]] \in Disk
           /\ [vis EXCEPT !.arts.all = TRUE] \in Disk
           /\ [vis EXCEPT !.arts = NoArtifacts, !.mark = NoReq] \in Disk
           /\ \A w \in Window : [vis EXCEPT !.win = w] \in Disk
           /\ [vis EXCEPT !.mark = run.req] \in Disk
           /\ [vis EXCEPT !.term = [ph |-> "prepared", exp |-> vis.crumb]] \in Disk
           /\ [vis EXCEPT !.term.ph = "final"] \in Disk
  <1>1. /\ vis.crumb \in Exp /\ vis.crumb.g1 \in Nat /\ vis.term.exp \in Exp
        /\ vis.term \in [ph : {"none", "prepared", "final"}, exp : Exp]
        /\ vis.arts \in Artifacts /\ vis.gen \in Nat /\ minted + 1 \in Nat
        /\ run.req \in Req \cup {NoReq}
    BY Types DEF Disk, Exp
  <1>2. /\ [g0 |-> vis.gen, g1 |-> minted + 1, req |-> run.req] \in Exp /\ NoExp \in Exp
        /\ [req |-> run.req, all |-> FALSE] \in Artifacts /\ NoArtifacts \in Artifacts
        /\ [vis.arts EXCEPT !.all = TRUE] \in Artifacts
    BY <1>1, NoReqFacts DEF Exp, Artifacts, NoArtifacts
  <1>3. /\ [ph |-> "prepared", exp |-> vis.crumb] \in [ph : {"none", "prepared", "final"}, exp : Exp]
        /\ [vis.term EXCEPT !.ph = "final"] \in [ph : {"none", "prepared", "final"}, exp : Exp]
    BY <1>1
  <1>4. vis \in Disk
    BY DEF TypeOK
  <1> QED BY <1>1, <1>2, <1>3, <1>4 DEF Disk, NoHousehold

\* The windows that are written.
LEMMA Windows ==
    ASSUME TypeOK
    PROVE  /\ IdleWindow(vis.gen) \in Window /\ Swept \in Disk
           /\ \A r \in Req \cup {NoReq}, st \in {"Idle", "Staging", "Committed"} :
                 [gen |-> vis.gen, st |-> st, req |-> r] \in Window
           /\ Down \in Memory
  <1>1. vis.gen \in Nat /\ vis.win \in Window
    BY DEF TypeOK, Disk
  <1>2. IdleWindow(vis.gen) \in Window
    BY <1>1 DEF IdleWindow, Window
  <1>3. Swept \in Disk
    BY <1>1, <1>2, NewDisks DEF Swept
  <1>4. Down \in Memory
    BY DEF Down, Memory, IdleWindow, Window
  <1> QED BY <1>1, <1>2, <1>3, <1>4 DEF Window

\* The sets of files that the barriers cover.
LEMMA RootFiles == Root \subseteq File /\ Root \cup {"mark"} \subseteq File
                   /\ Root \cup {"arts", "mark"} \subseteq File /\ Root \cup {"win"} \subseteq File
                   /\ Root \cup {"mark", "win"} \subseteq File
                   /\ {"arts"} \subseteq File /\ {"win"} \subseteq File /\ {"mark"} \subseteq File
                   /\ {"arts", "mark"} \subseteq File
  BY DEF Root, File

\* The types of what every write leaves alone.
RestType == /\ minted' \in Nat /\ mem' \in [Proc -> Memory]
            /\ used' \subseteq Req /\ heard' \subseteq Req /\ sent' \subseteq Exp
            /\ refused' \in BOOLEAN /\ foreign' \in BOOLEAN

\* A write keeps the types, if the rest of the step does.
LEMMA WriteType ==
    ASSUME TypeOK, NEW new \in Disk, NEW files \in SUBSET File, NEW ok \in Step, NEW bad \in Step,
           Write(new, files, ok, bad), RestType
    PROVE  TypeOK'
  BY WriteFacts DEF TypeOK, RestType, Moved

\* The frame of most steps keeps its types.
LEMMA FrameType ==
    ASSUME TypeOK, Frame, minted' \in Nat
    PROVE  RestType
  BY DEF TypeOK, Frame, history, RestType

\* The steps that only write.
LEMMA WriteSteps ==
    ASSUME TypeOK, \/ TornRotate \/ TornBoot \/ StageArtifacts \/ PromoteArtifacts \/ PromoteWindow
                   \/ PromoteMarker \/ Prepare \/ Rotate \/ Final \/ Clear \/ RollbackHouse
                   \/ RollbackClear \/ StageIdle \/ TearRotate \/ TearRename \/ TearBoot \/ TearRemove
    PROVE  TypeOK'
  <1>0. /\ minted \in Nat /\ run.req \in Req \cup {NoReq} /\ run.op \in Op
        /\ IdleWindow(vis.gen) \in Window
        /\ [gen |-> vis.gen, st |-> "Committed", req |-> run.req] \in Window
    BY Types, Windows
  <1>1. CASE TornRotate
    <2>1. RestType
      BY <1>0, <1>1, FrameType DEF TornRotate, NextGeneration
    <2> QED BY <1>1, <2>1, WriteType, NewDisks, RootFiles, FailedType DEF TornRotate, NextGeneration, Step
  <1>2. CASE TornBoot
    BY <1>0, <1>2, FrameType, WriteType, NewDisks, RootFiles, FailedType DEF TornBoot, Step
  <1>3. CASE StageArtifacts
    BY <1>0, <1>3, FrameType, WriteType, NewDisks, RootFiles DEF StageArtifacts, Step
  <1>4. CASE PromoteArtifacts
    BY <1>0, <1>4, FrameType, WriteType, NewDisks, RootFiles DEF PromoteArtifacts, Step
  <1>5. CASE PromoteWindow
    BY <1>0, <1>5, FrameType, WriteType, NewDisks, RootFiles DEF PromoteWindow, Step
  <1>6. CASE PromoteMarker
    BY <1>0, <1>6, FrameType, WriteType, NewDisks, RootFiles DEF PromoteMarker, Step
  <1>7. CASE Prepare
    BY <1>0, <1>7, FrameType, WriteType, NewDisks, RootFiles, FailedType DEF Prepare, Step
  <1>8. CASE Rotate
    BY <1>0, <1>8, FrameType, WriteType, NewDisks, RootFiles, FailedType DEF Rotate, Step
  <1>9. CASE Final
    BY <1>0, <1>9, FrameType, WriteType, NewDisks, RootFiles, FailedType DEF Final, Step
  <1>10. CASE Clear
    BY <1>0, <1>10, FrameType, WriteType, NewDisks, RootFiles, FailedType DEF Clear, Step
  <1>11. CASE RollbackHouse
    BY <1>0, <1>11, FrameType, WriteType, NewDisks, RootFiles, FailedType DEF RollbackHouse, Step
  <1>12. CASE RollbackClear
    BY <1>0, <1>12, FrameType, WriteType, NewDisks, RootFiles, FailedType DEF RollbackClear, Step
  <1>13. CASE StageIdle
    BY <1>0, <1>13, FrameType, WriteType, NewDisks, RootFiles DEF StageIdle, Step
  <1>14. CASE TearRotate
    <2>1. RestType
      BY <1>0, <1>14, FrameType DEF TearRotate, NextGeneration
    <2> QED BY <1>14, <2>1, WriteType, NewDisks, RootFiles DEF TearRotate, NextGeneration, Step
  <1>15. CASE TearRename
    BY <1>0, <1>15, FrameType, WriteType, NewDisks, RootFiles DEF TearRename, Step
  <1>16. CASE TearBoot
    BY <1>0, <1>16, FrameType, WriteType, NewDisks, RootFiles DEF TearBoot, Step
  <1>17. CASE TearRemove
    BY <1>0, <1>17, FrameType, WriteType, NewDisks, RootFiles DEF TearRemove, Step
  <1> QED BY <1>1, <1>2, <1>3, <1>4, <1>5, <1>6, <1>7, <1>8, <1>9, <1>10, <1>11, <1>12, <1>13,
             <1>14, <1>15, <1>16, <1>17

\* What a process holds changes within its type.
LEMMA MemTypes ==
    ASSUME TypeOK
    PROVE  /\ \A p \in Proc : [mem EXCEPT ![p] = Down] \in [Proc -> Memory]
           /\ \A p \in Proc, b \in {"early", "restart", "ready"} :
                 /\ [mem EXCEPT ![p].boot = b] \in [Proc -> Memory]
                 /\ [mem EXCEPT ![p].boot = b, ![p].id = NoReq] \in [Proc -> Memory]
           /\ \A p \in Proc, w \in Window : [mem EXCEPT ![p].win = w] \in [Proc -> Memory]
           /\ \A p \in Proc, m \in Memory : [mem EXCEPT ![p] = m] \in [Proc -> Memory]
           /\ [mem EXCEPT !["cli"].up = "cold"] \in [Proc -> Memory]
           /\ [p \in Proc |-> Down] \in [Proc -> Memory]
  <1>1. mem \in [Proc -> Memory] /\ Down \in Memory /\ "cli" \in Proc
    BY Windows, Types DEF Proc
  <1>2. \A p \in Proc, b \in {"early", "restart", "ready"} :
            /\ [mem[p] EXCEPT !.boot = b] \in Memory
            /\ [mem[p] EXCEPT !.boot = b, !.id = NoReq] \in Memory
    BY <1>1 DEF Memory
  <1>3. \A p \in Proc, w \in Window : [mem[p] EXCEPT !.win = w] \in Memory
    BY <1>1 DEF Memory
  <1>4. [mem["cli"] EXCEPT !.up = "cold"] \in Memory
    BY <1>1 DEF Memory
  <1>5. \A p \in Proc, m \in Memory : [mem EXCEPT ![p] = m] \in [Proc -> Memory]
    BY <1>1
  <1>6. \A p \in Proc, b \in {"early", "restart", "ready"} :
            [mem EXCEPT ![p].boot = b, ![p].id = NoReq] = [mem EXCEPT ![p] = [mem[p] EXCEPT !.boot = b, !.id = NoReq]]
    BY <1>1 DEF Memory
  <1> QED BY <1>1, <1>2, <1>3, <1>4, <1>5, <1>6

\* The types of the disk, the run and the bounds.
StepType == /\ vis' \in Disk /\ dur' \in Disk
            /\ run' \in [p : Proc, op : Op, at : Step, req : Req \cup {NoReq}]
            /\ left' \in [faults : Nat, crashes : Nat, lost : Nat]

\* Nothing is written, and the transaction moves or ends.
LEMMA GoType ==
    ASSUME TypeOK, UNCHANGED disk, NEW at \in Step, Go(at) \/ run' = NoRun, Fault \/ NoFault
    PROVE  StepType
  <1>1. NoRun \in [p : Proc, op : Op, at : Step, req : Req \cup {NoReq}]
    BY DEF NoRun, Proc, Op, Step
  <1> QED BY <1>1, GoMoves, FaultType DEF TypeOK, StepType, Moved, disk

\* A stabilised read keeps the types.
LEMMA StabiliseType ==
    ASSUME TypeOK, NEW files \in SUBSET File, Stabilise(files), NEW at \in Step, Go(at), NoFault
    PROVE  StepType
  BY GoMoves, FaultType, StabiliseMix DEF TypeOK, StepType, Moved

\* A write keeps the types of what it changes.
LEMMA WriteStepType ==
    ASSUME TypeOK, NEW new \in Disk, NEW files \in SUBSET File, NEW ok \in Step, NEW bad \in Step,
           Write(new, files, ok, bad)
    PROVE  StepType
  BY WriteFacts DEF TypeOK, StepType, Moved

\* The transactions' steps with more than one shape.
LEMMA MixedSteps ==
    ASSUME TypeOK, \/ TornRemove \/ Lookup \/ Deliver \/ Ready \/ Begin \/ Recover \/ RollbackWindow
                   \/ Signal \/ RepairBoot
    PROVE  TypeOK'
  <1>0. /\ minted \in Nat /\ run.req \in Req \cup {NoReq} /\ run.op \in Op /\ run.p \in Proc
        /\ IdleWindow(vis.gen) \in Window
    BY Types, Windows
  <1>t. StepType /\ RestType => TypeOK'
    BY DEF TypeOK, StepType, RestType
  <1>1. CASE TornRemove
    <2>0. mem' = mem \/ mem' = [mem EXCEPT ![run.p].boot = "early", ![run.p].id = NoReq]
      BY <1>1 DEF TornRemove
    <2>b. [mem EXCEPT ![run.p].boot = "early", ![run.p].id = NoReq] \in [Proc -> Memory]
      BY <1>0, MemTypes, Zenon
    <2>a. mem' \in [Proc -> Memory]
      BY <2>0, <2>b DEF TypeOK
    <2>1. RestType
      BY <1>0, <1>1, <2>a DEF TornRemove, RestType, TypeOK, history
    <2>2. AfterTeardown \in Step
      BY FailedType DEF AfterTeardown, Step
    <2> QED BY <1>1, <2>1, <2>2, WriteType, NewDisks, RootFiles, FailedType DEF TornRemove
  <1>2. CASE Lookup
    <2>1. RestType
      BY <1>0, <1>2, FrameType DEF Lookup
    <2>2. LookupNext \in Step /\ "fail" \in Step
      BY DEF LookupNext, Step
    <2>3. StepType
      BY <1>2, <2>2, StabiliseType, GoType, RootFiles DEF Lookup
    <2> QED BY <1>t, <2>1, <2>3
  <1>3. CASE Deliver
    <2>1. RestType
      BY <1>0, <1>3, FrameType DEF Deliver
    <2>2. "ready" \in Step /\ "fail" \in Step
      BY DEF Step
    <2>3. \/ NoFault /\ Stabilise(Root) /\ (Go("ready") \/ Go("fail"))
          \/ Write([vis EXCEPT !.deliv = vis.term.exp], Root, "ready", "fail")
      BY <1>3 DEF Deliver
    <2>4. StepType
      BY <2>2, <2>3, StabiliseType, WriteStepType, NewDisks, RootFiles
    <2> QED BY <1>t, <2>1, <2>4
  <1>4. CASE Ready
    <2>1. RestType
      BY <1>0, <1>4, FrameType DEF Ready
    <2>2. {"publish", "ack", "fail"} \subseteq Step
      BY DEF Step
    <2>3. \/ NoFault /\ UNCHANGED disk /\ (Go("ack") \/ Go("fail"))
          \/ Write([vis EXCEPT !.boot = "ready"], Root, "publish", "fail")
      BY <1>4 DEF Ready
    <2>4. StepType
      BY <2>2, <2>3, GoType, WriteStepType, NewDisks, RootFiles
    <2> QED BY <1>t, <2>1, <2>4
  <1>5. CASE Begin
    <2>1. RestType
      BY <1>0, <1>5, FrameType DEF Begin, NextGeneration
    <2>2. "artifacts" \in Step /\ "recover" \in Step
      BY DEF Step
    <2>3. StepType
      BY <1>5, <2>2, StabiliseType, WriteStepType, NewDisks, RootFiles DEF Begin, NextGeneration
    <2> QED BY <1>t, <2>1, <2>3
  <1>6. CASE Recover
    <2>1. RestType
      BY <1>0, <1>6 DEF Recover, RestType, TypeOK, history
    <2>2. (IF RecoverNext = "refuse" THEN Failed ELSE RecoverNext) \in Step
      BY FailedType DEF RecoverNext, Step
    <2>3. StepType
      BY <1>6, <2>2, StabiliseType, GoType, RootFiles, FailedType DEF Recover, disk
    <2> QED BY <1>t, <2>1, <2>3
  <1>7. CASE RollbackWindow
    <2>1. RestType
      BY <1>0, <1>7, MemTypes DEF RollbackWindow, RestType, TypeOK, history
    <2> QED BY <1>0, <1>7, <2>1, WriteType, NewDisks, RootFiles, FailedType DEF RollbackWindow, Step
  <1>8. CASE Signal
    <2>1. RestType
      BY <1>0, <1>8, FrameType DEF Signal
    <2>2. "signalled" \in Step /\ "fail" \in Step /\ "exit" \in Step
      BY DEF Step
    <2>3. \/ NoFault /\ UNCHANGED disk /\ (Go("exit") \/ Go("fail"))
          \/ Write([vis EXCEPT !.boot = "restart"], Root, "signalled", "fail")
      BY <1>8 DEF Signal
    <2>4. StepType
      BY <2>2, <2>3, GoType, WriteStepType, NewDisks, RootFiles
    <2> QED BY <1>t, <2>1, <2>4
  <1>9. CASE RepairBoot
    <2>1. RestType
      BY <1>0, <1>9, FrameType DEF RepairBoot
    <2>2. "open" \in Step /\ "coldCheck" \in Step
      BY DEF Step
    <2>3. PICK next \in {"open", "coldCheck"} :
            \/ NoFault /\ Stabilise(Root \cup {"mark"}) /\ Go(next)
            \/ Write([vis EXCEPT !.boot = "restart"], Root, next, Failed)
      BY <1>9 DEF RepairBoot
    <2>4. StepType
      BY <2>2, <2>3, StabiliseType, WriteStepType, NewDisks, RootFiles, FailedType
    <2> QED BY <1>t, <2>1, <2>4
  <1> QED BY <1>1, <1>2, <1>3, <1>4, <1>5, <1>6, <1>7, <1>8, <1>9

\* The other steps of the lock holder.
LEMMA OtherSteps ==
    ASSUME TypeOK, run.at \in {"publish", "ack"} => run.req \in Req,
                   \/ Ack \/ Signalled \/ Open \/ ColdCheck \/ StageOpen \/ EnterStaging
                   \/ LocalStageTimeout \/ ReissueOpen \/ TearCheck \/ Finish
    PROVE  TypeOK'
  <1>0. /\ minted \in Nat /\ run.req \in Req \cup {NoReq} /\ run.op \in Op /\ run.p \in Proc
        /\ vis \in Disk /\ dur \in Disk /\ Swept \in Disk
        /\ "exit" \in Step /\ "fail" \in Step /\ "daemon" \in Proc /\ "cli" \in Proc
    BY Types, Windows DEF Step, Proc
  <1>t. StepType /\ RestType => TypeOK'
    BY DEF TypeOK, StepType, RestType
  <1>n. NoRun \in [p : Proc, op : Op, at : Step, req : Req \cup {NoReq}]
    BY DEF NoRun, Proc, Op, Step
  <1>s. \A files \in SUBSET File : Synced(Swept, files) \in Disk
    BY <1>0, SyncedFacts
  <1>g. \A at \in Step : Go(at) => run' \in [p : Proc, op : Op, at : Step, req : Req \cup {NoReq}]
    BY GoMoves DEF Moved
  <1>1. CASE Ack
    <2>0. mem' = mem \/ mem' = [mem EXCEPT ![run.p].boot = "ready"]
      BY <1>1 DEF Ack
    <2>1. vis.term.exp \in Exp /\ mem' \in [Proc -> Memory]
      <3>1. vis.term.exp \in Exp
        BY <1>0 DEF Disk
      <3>2. [mem EXCEPT ![run.p].boot = "ready"] \in [Proc -> Memory]
        BY <1>0, MemTypes
      <3>3. mem \in [Proc -> Memory]
        BY DEF TypeOK
      <3> QED BY <2>0, <3>1, <3>2, <3>3
    <2>2. left' \in [faults : Nat, crashes : Nat, lost : Nat]
      BY <1>1 DEF Ack, TypeOK
    <2>3. heard' \subseteq Req
      <3>1. heard' = heard \/ heard' = heard \cup {run.req}
        BY <1>1 DEF Ack
      <3>2. run.req \in Req
        BY <1>1 DEF Ack
      <3> QED BY <3>1, <3>2 DEF TypeOK
    <2> QED BY <1>1, <1>n, <2>1, <2>2, <2>3 DEF Ack, TypeOK, disk
  <1>2. CASE Signalled
    <2>1. mem' \in [Proc -> Memory]
      BY <1>0, <1>2, MemTypes DEF Signalled
    <2> QED BY <1>2, <1>n, <2>1 DEF Signalled, TypeOK, disk, history
  <1>3. CASE Open
    <2> DEFINE m == [up |-> "up", win |-> Swept.win, boot |-> vis.boot, id |-> vis.mark]
    <2>1. m \in Memory
      BY <1>0 DEF Memory, Disk
    <2> HIDE DEF m
    <2>2. mem' = mem \/ mem' = [mem EXCEPT !["daemon"] = m]
      BY <1>3 DEF Open, m
    <2>a. [mem EXCEPT !["daemon"] = m] \in [Proc -> Memory]
      BY <1>0, <2>1, MemTypes, Zenon
    <2>3. mem' \in [Proc -> Memory]
      BY <2>2, <2>a DEF TypeOK
    <2>4. vis' \in {vis, Swept} /\ dur' \in {dur, Synced(Swept, Root \cup {"mark", "win"})}
      BY <1>3 DEF Open, disk
    <2>5. vis' \in Disk /\ dur' \in Disk
      BY <1>0, <1>s, <2>4, RootFiles
    <2>6. run' \in [p : Proc, op : Op, at : Step, req : Req \cup {NoReq}]
      BY <1>0, <1>3, <1>n, <1>g DEF Open
    <2>7. left' \in [faults : Nat, crashes : Nat, lost : Nat]
      BY <1>3, FaultType DEF Open
    <2> QED BY <1>3, <2>3, <2>5, <2>6, <2>7 DEF Open, TypeOK
  <1>4. CASE ColdCheck
    <2>1. mem' \in [Proc -> Memory]
      BY <1>4, MemTypes, Types DEF ColdCheck
    <2>2. run' \in [p : Proc, op : Op, at : Step, req : Req \cup {NoReq}]
      BY <1>0, <1>4, <1>n, <1>g DEF ColdCheck
    <2> QED BY <1>4, <2>1, <2>2 DEF ColdCheck, TypeOK, disk, history
  <1>5. CASE StageOpen
    <2>1. RestType
      BY <1>0, <1>5, FrameType DEF StageOpen
    <2>2. vis' \in {vis, Swept} /\ dur' \in {dur, Synced(Swept, Root \cup {"win"})}
      BY <1>5 DEF StageOpen, disk
    <2>3. vis' \in Disk /\ dur' \in Disk
      BY <1>0, <1>s, <2>2, RootFiles
    <2>4. run' \in [p : Proc, op : Op, at : Step, req : Req \cup {NoReq}]
      BY <1>5, <1>g DEF StageOpen, Step
    <2>5. left' \in [faults : Nat, crashes : Nat, lost : Nat]
      BY <1>5, FaultType DEF StageOpen
    <2> QED BY <1>t, <2>1, <2>3, <2>4, <2>5 DEF StepType
  <1>6. CASE EnterStaging
    <2> DEFINE Staged(r) == [gen |-> vis.gen, st |-> "Staging", req |-> r]
               New(r) == [vis EXCEPT !.win = Staged(r)]
               m(r) == [up |-> "up", win |-> Staged(r), boot |-> "early", id |-> NoReq]
    <2>1. \A r \in Req \cup {NoReq} : New(r) \in Disk /\ m(r) \in Memory
      <3>1. \A r \in Req \cup {NoReq} : Staged(r) \in Window
        BY Windows
      <3>2. \A r \in Req \cup {NoReq} : New(r) \in Disk
        BY <3>1, NewDisks
      <3> HIDE DEF Staged
      <3>3. \A r \in Req \cup {NoReq} : m(r) \in Memory
        BY <3>1 DEF Memory
      <3> QED BY <3>2, <3>3 DEF Staged
    <2>2. left' \in [faults : Nat, crashes : Nat, lost : Nat]
      BY <1>6, FaultType DEF EnterStaging
    <2>3. CASE \E r \in Req \ used :
                   /\ vis' = New(r) /\ dur' = Synced(vis', {"win"}) /\ run' = NoRun
                   /\ mem' = [mem EXCEPT !["cli"] = m(r)] /\ used' = used \cup {r}
      <3>1. PICK r \in Req : /\ vis' = New(r) /\ dur' = Synced(vis', {"win"}) /\ run' = NoRun
                             /\ mem' = [mem EXCEPT !["cli"] = m(r)] /\ used' = used \cup {r}
        BY <2>3
      <3> HIDE DEF New, m
      <3>2. vis' \in Disk /\ dur' \in Disk
        BY <1>0, <2>1, <3>1, SyncedFacts, RootFiles
      <3>3. mem' \in [Proc -> Memory]
        BY <1>0, <2>1, <3>1, MemTypes
      <3> QED BY <1>6, <1>n, <2>2, <3>1, <3>2, <3>3 DEF EnterStaging, TypeOK, history
    <2>4. CASE Go("exit") /\ dur' = dur /\ vis' \in {vis, New(NoReq)} /\ UNCHANGED <<mem, used>>
      BY <1>0, <1>6, <1>g, <2>1, <2>2, <2>4 DEF EnterStaging, TypeOK, history
    <2> QED BY <1>6, <2>3, <2>4 DEF EnterStaging, disk
  <1>7. CASE LocalStageTimeout
    <2>1. mem["daemon"].win.gen \in Nat
      BY Types DEF Memory, Window
    <2>2. [gen |-> mem["daemon"].win.gen, st |-> "Staging", req |-> NoReq] \in Window
          /\ IdleWindow(mem["daemon"].win.gen) \in Window
      BY <2>1 DEF Window, IdleWindow
    <2>3. mem' \in [Proc -> Memory]
      BY <1>0, <1>7, <2>2, MemTypes DEF LocalStageTimeout
    <2>4. run' \in [p : Proc, op : Op, at : Step, req : Req \cup {NoReq}]
      BY <1>0, <1>7, <1>g DEF LocalStageTimeout
    <2> QED BY <1>7, <2>3, <2>4 DEF LocalStageTimeout, TypeOK, disk, history
  <1>8. CASE ReissueOpen
    <2>1. vis' \in {vis, Swept} /\ dur' \in {dur, Synced(Swept, Root \cup {"win"})}
      BY <1>8 DEF ReissueOpen, disk
    <2>2. vis' \in Disk /\ dur' \in Disk
      BY <1>0, <1>s, <2>1, RootFiles
    <2>3. run' \in [p : Proc, op : Op, at : Step, req : Req \cup {NoReq}]
      BY <1>0, <1>8, <1>g DEF ReissueOpen
    <2>4. foreign' \in BOOLEAN
      BY <1>8 DEF ReissueOpen, TypeOK
    <2> QED BY <1>8, <2>2, <2>3, <2>4 DEF ReissueOpen, TypeOK
  <1>9. CASE TearCheck
    <2>1. run' \in [p : Proc, op : Op, at : Step, req : Req \cup {NoReq}]
      BY <1>9, <1>g DEF TearCheck, Step
    <2> QED BY <1>9, <2>1 DEF TearCheck, TypeOK, disk, history, Frame
  <1>10. CASE Finish
    <2>1. mem' \in [Proc -> Memory]
      BY <1>0, <1>10, MemTypes, Types DEF Finish
    <2> QED BY <1>10, <1>n, <2>1 DEF Finish, TypeOK, disk, history
  <1> QED BY <1>1, <1>2, <1>3, <1>4, <1>5, <1>6, <1>7, <1>8, <1>9, <1>10

\* A transaction takes the lock.
LEMMA AcquireFacts ==
    ASSUME TypeOK, NEW p \in Proc, NEW op \in Op \ {"none"}, NEW r \in Req \cup {NoReq}, Acquire(p, op, r)
    PROVE  /\ TypeOK'
           /\ run.at = "none" /\ run.op = "none" /\ UNCHANGED <<vis, dur>>
           /\ run'.p = p /\ run'.op = op /\ run'.req = r
           /\ run'.at = IF vis.torn THEN "tornRotate" ELSE FirstStep[op]
  <1>1. FirstStep[op] \in Step
    BY DEF FirstStep, Op, Step
  <1>2. run' \in [p : Proc, op : Op, at : Step, req : Req \cup {NoReq}]
    BY <1>1 DEF Acquire, Step
  <1> QED BY <1>2 DEF Acquire, TypeOK, disk, history, NoRun

\* The requests, the commands and the service manager.
Requests == \/ \E p \in Proc, r \in Req : Finalize(p, r)
            \/ StartDaemon \/ StartInstall \/ StageInstall \/ Reissue \/ LocalStage \/ Teardown

\* Who asks for the lock, for which operation, and what was checked before.
LEMMA RequestFacts ==
    ASSUME TypeOK, Requests
    PROVE  \E p \in Proc, op \in Op \ {"none"}, r \in Req \cup {NoReq} :
             /\ Acquire(p, op, r)
             /\ op = "finalize" => r \in Req
             /\ op = "teardown" => p = "daemon" /\ mem[p].up = "up" /\ mem[p].boot = "ready"
                                   /\ mem[p].id # NoReq
             /\ op = "start" => p = "daemon" /\ mem[p].up = "down"
  <1>1. used \subseteq Req
    BY DEF TypeOK
  <1> QED BY <1>1 DEF Requests, Finalize, StartDaemon, StartInstall, StageInstall, Reissue, LocalStage,
             Teardown, Proc, Op

\* The disk after a power loss is one of those that could be left.
LEMMA PowerLossFacts ==
    ASSUME TypeOK, PowerLoss
    PROVE  /\ vis' \in Disk /\ dur' = vis' /\ IsMix(vis')
           /\ NoNewMix
  <1>1. PICK kept \in SUBSET {f \in File : vis[f] # dur[f]} :
          vis' = [f \in File |-> IF f \in kept \cup Inside(dur, vis, kept) THEN vis[f] ELSE dur[f]]
    BY DEF PowerLoss
  <1>2. vis' = [f \in File |-> vis'[f]]
    BY <1>1
  <1>3. \A f \in File : vis'[f] = vis[f] \/ vis'[f] = dur[f]
    BY <1>1
  <1>4. vis' \in Disk
    BY <1>2, <1>3, IsDisk DEF TypeOK
  <1>5. dur.torn /\ ~vis.torn /\ ~vis'.torn => vis'.arts = vis.arts /\ vis'.mark = vis.mark
    <2>1. SUFFICES ASSUME dur.torn, ~vis.torn, ~vis'.torn
                   PROVE  vis'.arts = vis.arts /\ vis'.mark = vis.mark
      OBVIOUS
    <2>2. "torn" \in kept
      BY <1>1, <2>1 DEF File, Inside
    <2> QED BY <1>1, <2>1, <2>2 DEF File, Inside
  <1>6. IsMix(vis')
    BY <1>3, <1>5 DEF IsMix
  <1>7. ASSUME NEW d \in Disk, IsMix(d)' PROVE IsMix(d)
    <2>1. dur' = vis'
      BY DEF PowerLoss
    <2>2. \A f \in File : d[f] = vis'[f]
      BY <1>7, <2>1 DEF IsMix
    <2> QED BY <1>3, <1>5, <2>2 DEF IsMix, File
  <1> QED BY <1>4, <1>6, <1>7 DEF PowerLoss, NoNewMix

\* The steps that no lock holder takes.
LEMMA FreeSteps ==
    ASSUME TypeOK, \/ Requests \/ StopInstall \/ RestartDaemon \/ (\E p \in Proc : Crash(p)) \/ PowerLoss
    PROVE  TypeOK'
  <1>0. "daemon" \in Proc /\ "cli" \in Proc
    BY DEF Proc
  <1>n. NoRun \in [p : Proc, op : Op, at : Step, req : Req \cup {NoReq}]
    BY DEF NoRun, Proc, Op, Step
  <1>1. CASE Requests
    BY <1>1, RequestFacts, AcquireFacts
  <1>2. CASE StopInstall
    <2>1. mem' \in [Proc -> Memory]
      BY <1>0, <1>2, MemTypes DEF StopInstall
    <2> QED BY <1>2, <2>1 DEF StopInstall, TypeOK, disk, history
  <1>3. CASE RestartDaemon
    <2>1. mem' \in [Proc -> Memory]
      BY <1>0, <1>3, MemTypes DEF RestartDaemon
    <2> QED BY <1>3, <2>1 DEF RestartDaemon, TypeOK, disk, history
  <1>4. ASSUME NEW p \in Proc, Crash(p) PROVE TypeOK'
    <2>1. mem' \in [Proc -> Memory]
      BY <1>4, MemTypes DEF Crash
    <2>2. left' \in [faults : Nat, crashes : Nat, lost : Nat]
      BY <1>4, FaultType DEF Crash
    <2>3. run' \in [p : Proc, op : Op, at : Step, req : Req \cup {NoReq}]
      BY <1>4, <1>n DEF Crash, TypeOK
    <2> QED BY <1>4, <2>1, <2>2, <2>3 DEF Crash, TypeOK, disk, history
  <1>5. CASE PowerLoss
    <2>1. mem' \in [Proc -> Memory]
      BY <1>5, MemTypes DEF PowerLoss
    <2>2. left' \in [faults : Nat, crashes : Nat, lost : Nat]
      BY <1>5, FaultType DEF PowerLoss
    <2>3. vis' \in Disk /\ dur' \in Disk
      BY <1>5, PowerLossFacts
    <2> QED BY <1>5, <1>n, <2>1, <2>2, <2>3 DEF PowerLoss, TypeOK, history
  <1> QED BY <1>1, <1>2, <1>3, <1>4, <1>5

\* The steps, by who takes them.
LEMMA NextSteps ==
    ASSUME Next
    PROVE  LockHolder \/ Requests \/ StopInstall \/ RestartDaemon \/ (\E p \in Proc : Crash(p)) \/ PowerLoss
  BY DEF Next, Requests

\* Every step keeps the types.
LEMMA NextTypeOK ==
    ASSUME TypeOK, StepInv, Next
    PROVE  TypeOK'
  <1>1. run.at \in {"publish", "ack"} => run.req \in Req
    BY DEF StepInv, Established
  <1> QED BY <1>1, NextSteps, WriteSteps, MixedSteps, OtherSteps, FreeSteps DEF LockHolder

-----------------------------------------------------------------------------
(* What a write to one file does to a good disk.                           *)

\* Disks that differ in one file at most.
But(d, e, f) == \A g \in File \ {f} : d[g] = e[g]

\* A disk is determined by its files.
LEMMA SameDisk ==
    ASSUME NEW d \in Disk, NEW e \in Disk, NEW f \in File, But(d, e, f), d[f] = e[f]
    PROVE  d = e
  <1>1. \A g \in File : d[g] = e[g]
    BY DEF But
  <1> QED BY <1>1 DEF Disk, File

\* Drawing a generation, and sweeping evidence, make no disk worse.
LEMMA GoodKept ==
    ASSUME TypeOK, NEW d \in Disk, Good(d), minted' \in Nat, minted <= minted', sent' = sent,
           foreign => foreign'
    PROVE  Good(d)'
  <1>1. \A e \in Exp : Begun(e) => Begun(e)'
    BY DEF Begun, Exp, TypeOK
  <1>2. d.gen \in Nat /\ d.term.exp \in Exp /\ d.crumb \in Exp
    BY DEF Disk
  <1>3. GensOK(d)'
    BY <1>1, <1>2 DEF Good, GensOK, TypeOK
  <1>4. CrumbOK(d)'
    BY <1>1, <1>2 DEF Good, CrumbOK
  <1>5. ResultOK(d)'
    BY DEF Good, ResultOK
  <1> QED BY <1>3, <1>4, <1>5 DEF Good

\* A step that adds no disk, takes back no generation and sends no Ack keeps the disks
\* good.
LEMMA DisksKept ==
    ASSUME TypeOK, DiskInv, NoNewMix, minted' \in Nat, minted <= minted', sent' = sent,
           foreign => foreign'
    PROVE  DiskInv'
  BY GoodKept DEF DiskInv, NoNewMix

\* The types of a disk's fields, and of the numbers in them.
LEMMA DiskTypes ==
    ASSUME NEW d \in Disk
    PROVE  /\ d.gen \in Nat /\ d.torn \in BOOLEAN /\ d.boot \in {"early", "restart", "ready"}
           /\ d.crumb \in Exp /\ d.crumb.g0 \in Nat /\ d.crumb.g1 \in Nat
           /\ d.term = [ph |-> d.term.ph, exp |-> d.term.exp] /\ d.term.ph \in {"none", "prepared", "final"}
           /\ d.term.exp \in Exp /\ d.term.exp.g0 \in Nat /\ d.term.exp.g1 \in Nat
           /\ d.deliv \in Exp /\ d.deliv.g0 \in Nat /\ d.deliv.g1 \in Nat
           /\ d.mark \in Req \cup {NoReq} /\ d.win \in Window /\ d.arts \in Artifacts
  BY DEF Disk, Exp

\* The expectations of the Acks that were sent.
LEMMA SentTypes ==
    ASSUME TypeOK
    PROVE  \A e \in sent : e \in Exp /\ e.g0 \in Nat /\ e.g1 \in Nat
  BY DEF TypeOK, Exp

\* A prepared record belongs to a breadcrumb, a current result to a household.
LEMMA GoodRecords ==
    ASSUME NEW d \in Disk, Good(d)
    PROVE  /\ d.crumb = NoExp => d.term.ph # "prepared"
           /\ d.term.ph = "final" /\ d.term.exp.g1 = d.gen => d.mark # NoReq
           /\ d.term.ph # "none" => d.term.exp.req \in Req /\ d.term.exp.g0 < d.term.exp.g1
           /\ d.term.ph # "none" => d.term.exp.g1 <= minted
           /\ d.term.ph = "none" => d.term.exp.g1 = 0
           /\ d.crumb # NoExp => d.crumb.req \in Req /\ d.crumb.g0 < d.crumb.g1
  <1>1. d.term.ph = "prepared" => d.term.exp = d.crumb
    BY DEF Good, CrumbOK
  <1>2. d.term.ph # "none" => Begun(d.term.exp)
    BY DEF Good, GensOK
  <1>3. d.term.ph = "final" /\ d.term.exp.g1 = d.gen => d.mark = d.term.exp.req
    BY DEF Good, ResultOK
  <1>4. d.crumb # NoExp => Begun(d.crumb)
    BY DEF Good, CrumbOK
  <1>5. d.term.ph = "none" => d.term.exp = NoExp
    BY DEF Good, GensOK
  <1> QED BY <1>1, <1>2, <1>3, <1>4, <1>5, NoReqFacts DEF Begun

\* A fresh generation is named by no record.
LEMMA GoodFreshGen ==
    ASSUME TypeOK, NEW d \in Disk, NEW e \in Disk, Good(e), But(d, e, "gen"), e.crumb = NoExp,
           d.gen = minted + 1, minted' = minted + 1, sent' = sent, foreign' = foreign
    PROVE  Good(d)'
  <1>1. /\ d.crumb = e.crumb /\ d.term = e.term /\ d.deliv = e.deliv /\ d.boot = e.boot
        /\ d.torn = e.torn /\ d.arts = e.arts /\ d.mark = e.mark /\ d.win = e.win
    BY DEF But, File
  <1>2. minted \in Nat
    BY DEF TypeOK
  <1>3. e.term.ph # "prepared" /\ (e.term.ph # "none" => e.term.exp.g1 <= minted)
    BY GoodRecords
  <1>t. /\ e.gen \in Nat /\ e.deliv.g1 \in Nat /\ e.term.exp.g1 \in Nat /\ \A x \in sent : x.g1 \in Nat
        /\ e.gen <= minted /\ e.deliv.g1 <= e.gen /\ \A x \in sent : x.g1 <= e.gen
    BY DiskTypes, SentTypes DEF Good, GensOK
  <1>4. GensOK(d)'
    BY <1>1, <1>2, <1>t, DiskTypes DEF Good, GensOK, Begun
  <1>5. CrumbOK(d)'
    BY <1>1, <1>3 DEF CrumbOK
  <1>6. ResultOK(d)'
    <2>1. d.deliv.g1 < d.gen /\ \A x \in sent : x.g1 < d.gen
      BY <1>1, <1>2, <1>t
    <2>2. d.term.ph = "final" => d.term.exp.g1 < d.gen
      BY <1>1, <1>2, <1>3, <1>t
    <2> QED BY <1>1, <1>t, <2>1, <2>2 DEF Good, ResultOK
  <1> QED BY <1>4, <1>5, <1>6 DEF Good

\* A household that is being torn down has no current result, so its state may go back.
LEMMA GoodEarly ==
    ASSUME TypeOK, NEW d \in Disk, NEW e \in Disk, Good(e), But(d, e, "boot"), e.torn,
           d.boot = "early", UNCHANGED <<minted, sent, foreign>>
    PROVE  Good(d)'
  <1>1. /\ d.crumb = e.crumb /\ d.term = e.term /\ d.deliv = e.deliv /\ d.gen = e.gen
        /\ d.torn = e.torn /\ d.arts = e.arts /\ d.mark = e.mark /\ d.win = e.win
    BY DEF But, File
  <1>2. e.crumb = NoExp
    BY DEF Good, CrumbOK
  <1>3. GensOK(d)'
    BY <1>1 DEF Good, GensOK, Begun
  <1>4. CrumbOK(d)'
    BY <1>1, <1>2 DEF Good, CrumbOK
  <1>5. ResultOK(d)'
    BY <1>1 DEF Good, ResultOK
  <1> QED BY <1>3, <1>4, <1>5 DEF Good

\* A current result without a state gets the one that asks for a restart.
LEMMA GoodRestart ==
    ASSUME TypeOK, NEW d \in Disk, NEW e \in Disk, Good(e), But(d, e, "boot"), e.boot = "early",
           e.term.ph = "final", e.term.exp.g1 = e.gen,
           d.boot = "restart", UNCHANGED <<minted, sent, foreign>>
    PROVE  Good(d)'
  <1>1. /\ d.crumb = e.crumb /\ d.term = e.term /\ d.deliv = e.deliv /\ d.gen = e.gen
        /\ d.torn = e.torn /\ d.arts = e.arts /\ d.mark = e.mark /\ d.win = e.win
    BY DEF But, File
  <1>2. e.mark # NoReq
    BY GoodRecords
  <1>3. GensOK(d)'
    BY <1>1 DEF Good, GensOK, Begun
  <1>4. CrumbOK(d)'
    <2>1. CASE e.crumb = NoExp
      BY <1>1, <2>1 DEF Good, CrumbOK
    <2>2. CASE e.crumb # NoExp
      <3>0. e.gen \in Nat
        BY DiskTypes
      <3>1. e.gen = e.crumb.g0 => ~(e.term.exp.g1 < e.crumb.g0)
        BY <3>0
      <3>2. e.term = [ph |-> "final", exp |-> e.crumb] /\ e.gen = e.crumb.g1
        BY <2>2, <3>1 DEF Good, CrumbOK
      <3> QED BY <1>1, <2>2, <3>2 DEF Good, CrumbOK, Begun
    <2> QED BY <2>1, <2>2
  <1>5. ResultOK(d)'
    BY <1>1, <1>2 DEF Good, ResultOK
  <1> QED BY <1>3, <1>4, <1>5 DEF Good

\* The delivery is named, and then the state may say Ready.
LEMMA GoodDeliver ==
    ASSUME TypeOK, NEW d \in Disk, NEW e \in Disk, Good(e), But(d, e, "deliv"), e.boot # "early",
           e.term.ph = "final", e.term.exp.g1 = e.gen, e.crumb = NoExp,
           d.deliv = e.term.exp, UNCHANGED <<minted, sent, foreign>>
    PROVE  Good(d)'
  <1>1. /\ d.crumb = e.crumb /\ d.term = e.term /\ d.boot = e.boot /\ d.gen = e.gen
        /\ d.torn = e.torn /\ d.arts = e.arts /\ d.mark = e.mark /\ d.win = e.win
    BY DEF But, File
  <1>3. GensOK(d)'
    BY <1>1, DiskTypes DEF Good, GensOK, Begun
  <1>4. CrumbOK(d)'
    BY <1>1 DEF Good, CrumbOK
  <1>5. ResultOK(d)'
    BY <1>1 DEF Good, ResultOK
  <1> QED BY <1>3, <1>4, <1>5 DEF Good

\* Ready, once the delivery is named.
LEMMA GoodReady ==
    ASSUME TypeOK, NEW d \in Disk, NEW e \in Disk, Good(e), But(d, e, "boot"), e.boot # "early",
           e.term.ph = "final", e.term.exp.g1 = e.gen, e.crumb = NoExp, e.deliv = e.term.exp,
           d.boot = "ready", UNCHANGED <<minted, sent, foreign>>
    PROVE  Good(d)'
  <1>1. /\ d.crumb = e.crumb /\ d.term = e.term /\ d.deliv = e.deliv /\ d.gen = e.gen
        /\ d.torn = e.torn /\ d.arts = e.arts /\ d.mark = e.mark /\ d.win = e.win
    BY DEF But, File
  <1>2. e.mark # NoReq
    BY DEF Good, ResultOK
  <1>3. GensOK(d)'
    BY <1>1 DEF Good, GensOK, Begun
  <1>4. CrumbOK(d)'
    BY <1>1 DEF Good, CrumbOK
  <1>5. ResultOK(d)'
    BY <1>1, <1>2 DEF Good, ResultOK
  <1> QED BY <1>3, <1>4, <1>5 DEF Good

\* A transaction begins where there is no household.
LEMMA GoodBegin ==
    ASSUME TypeOK, NEW d \in Disk, NEW e \in Disk, Good(e), But(d, e, "crumb"),
           e.crumb = NoExp, e.mark = NoReq, ~e.torn, NEW r \in Req,
           d.crumb = [g0 |-> e.gen, g1 |-> minted + 1, req |-> r],
           minted' = minted + 1, sent' = sent, foreign' = foreign
    PROVE  Good(d)'
  <1>1. /\ d.boot = e.boot /\ d.term = e.term /\ d.deliv = e.deliv /\ d.gen = e.gen
        /\ d.torn = e.torn /\ d.arts = e.arts /\ d.mark = e.mark /\ d.win = e.win
    BY DEF But, File
  <1>2. minted \in Nat /\ NoReq \notin Req
    BY NoReqFacts DEF TypeOK
  <1>r. e.boot = "early"
    BY DEF Good, ResultOK
  <1>3. /\ e.term.ph # "prepared" /\ (e.term.ph = "none" => e.term.exp.g1 = 0)
        /\ ~(e.term.ph = "final" /\ e.term.exp.g1 = e.gen)
    BY GoodRecords
  <1>t. /\ e.gen \in Nat /\ e.deliv.g1 \in Nat /\ e.term.exp.g1 \in Nat /\ \A x \in sent : x.g1 \in Nat
        /\ e.term.ph \in {"none", "prepared", "final"} /\ e.term.exp.g0 \in Nat
    BY DiskTypes, SentTypes
  <1>u. /\ e.gen > 0 /\ e.gen <= minted /\ e.deliv.g1 <= e.gen /\ \A x \in sent : x.g1 <= e.gen
        /\ e.term.ph = "final" => e.term.exp.g1 <= e.gen
    BY DEF Good, GensOK
  <1>4. GensOK(d)'
    BY <1>1, <1>2, <1>t DEF Good, GensOK, Begun
  <1>5. e.term.exp.g1 < e.gen
    BY <1>3, <1>t, <1>u
  <1>6. CrumbOK(d)'
    <2> DEFINE c == d.crumb
    <2>1. c.g0 = e.gen /\ c.g1 = minted + 1 /\ c.req = r
      OBVIOUS
    <2> HIDE DEF c
    <2>2. Begun(c)'
      BY <1>2, <1>t, <1>u, <2>1 DEF Begun
    <2> QED BY <1>1, <1>r, <1>3, <1>5, <1>u, <2>1, <2>2 DEF CrumbOK, c
  <1>7. ResultOK(d)'
    BY <1>1, <1>5, DiskTypes DEF Good, ResultOK
  <1> QED BY <1>4, <1>6, <1>7 DEF Good

\* Without a marker the artifacts and the window do not matter, and without a breadcrumb
\* the window does not.
LEMMA GoodLoose ==
    ASSUME TypeOK, NEW d \in Disk, NEW e \in Disk, Good(e), NEW f \in {"arts", "win"}, But(d, e, f),
           e.mark = NoReq \/ e.crumb = NoExp \/ (foreign' /\ f = "win"),
           UNCHANGED <<minted, sent>>, foreign => foreign'
    PROVE  Good(d)'
  <1>1. /\ d.crumb = e.crumb /\ d.term = e.term /\ d.deliv = e.deliv /\ d.gen = e.gen
        /\ d.torn = e.torn /\ d.boot = e.boot /\ d.mark = e.mark
        /\ f = "win" => d.arts = e.arts
    BY DEF But, File
  <1>3. GensOK(d)'
    BY <1>1 DEF Good, GensOK, Begun
  <1>4. CrumbOK(d)'
    BY <1>1, NoReqFacts DEF Good, CrumbOK, Begun
  <1>5. ResultOK(d)'
    BY <1>1 DEF Good, ResultOK
  <1> QED BY <1>3, <1>4, <1>5 DEF Good

\* The marker commits the household of the breadcrumb.
LEMMA GoodMarker ==
    ASSUME TypeOK, NEW d \in Disk, NEW e \in Disk, Good(e), But(d, e, "mark"),
           e.crumb # NoExp, e.mark = NoReq, e.arts = [req |-> e.crumb.req, all |-> TRUE],
           e.win = [gen |-> e.crumb.g0, st |-> "Committed", req |-> e.crumb.req],
           d.mark = e.crumb.req, UNCHANGED <<minted, sent, foreign>>
    PROVE  Good(d)'
  <1>1. /\ d.crumb = e.crumb /\ d.term = e.term /\ d.deliv = e.deliv /\ d.gen = e.gen
        /\ d.torn = e.torn /\ d.arts = e.arts /\ d.boot = e.boot /\ d.win = e.win
    BY DEF But, File
  <1>2. /\ d.mark # NoReq /\ e.crumb.req \in Req
        /\ ~(e.term.ph = "final" /\ e.term.exp.g1 = e.gen)
    BY GoodRecords, NoReqFacts
  <1>3. GensOK(d)'
    BY <1>1 DEF Good, GensOK, Begun
  <1>4. CrumbOK(d)'
    BY <1>1, <1>2 DEF Good, CrumbOK, Begun
  <1>5. ResultOK(d)'
    BY <1>1, <1>2 DEF Good, ResultOK
  <1> QED BY <1>3, <1>4, <1>5 DEF Good

\* The facts about numbers that a committed breadcrumb comes with.
LEMMA GoodCrumb ==
    ASSUME TypeOK, NEW e \in Disk, Good(e), e.crumb # NoExp
    PROVE  /\ e.gen \in Nat /\ e.crumb.g0 \in Nat /\ e.crumb.g1 \in Nat /\ minted \in Nat
           /\ e.deliv.g1 \in Nat /\ e.term.exp.g1 \in Nat /\ \A x \in sent : x.g1 \in Nat
           /\ e.gen > 0 /\ e.gen <= minted
           /\ e.crumb.g0 < e.crumb.g1 /\ e.crumb.g1 <= minted /\ Begun(e.crumb)
           /\ e.deliv.g1 <= e.crumb.g0 /\ \A x \in sent : x.g1 <= e.crumb.g0
           /\ e.crumb.req # NoReq /\ e.gen \in {e.crumb.g0, e.crumb.g1}
  <1>1. /\ e.gen \in Nat /\ e.crumb.g0 \in Nat /\ e.crumb.g1 \in Nat /\ minted \in Nat
        /\ e.deliv.g1 \in Nat /\ e.term.exp.g1 \in Nat /\ \A x \in sent : x.g1 \in Nat
    BY DiskTypes, SentTypes DEF TypeOK
  <1>2. e.gen > 0 /\ e.gen <= minted
    BY DEF Good, GensOK
  <1>3. /\ Begun(e.crumb) /\ e.deliv.g1 <= e.crumb.g0 /\ \A x \in sent : x.g1 <= e.crumb.g0
        /\ e.gen \in {e.crumb.g0, e.crumb.g1}
    BY DEF Good, CrumbOK
  <1> QED BY <1>1, <1>2, <1>3, NoReqFacts DEF Begun

\* The terminal record is prepared, ...
LEMMA GoodPrepare ==
    ASSUME TypeOK, NEW d \in Disk, NEW e \in Disk, Good(e), But(d, e, "term"),
           e.crumb # NoExp, e.mark = e.crumb.req, e.gen = e.crumb.g0, e.term.exp # e.crumb,
           d.term = [ph |-> "prepared", exp |-> e.crumb], UNCHANGED <<minted, sent, foreign>>
    PROVE  Good(d)'
  <1>1. /\ d.crumb = e.crumb /\ d.mark = e.mark /\ d.deliv = e.deliv /\ d.gen = e.gen
        /\ d.torn = e.torn /\ d.arts = e.arts /\ d.boot = e.boot /\ d.win = e.win
    BY DEF But, File
  <1>2. d.term.ph = "prepared" /\ d.term.exp = e.crumb
    OBVIOUS
  <1>3. e.boot = "early" /\ e.term.exp.g1 < e.crumb.g0
    BY DEF Good, CrumbOK
  <1>4. GensOK(d)'
    BY <1>1, <1>2, GoodCrumb DEF Good, GensOK, Begun
  <1>5. CrumbOK(d)'
    <2>1. /\ Begun(e.crumb) /\ ~e.torn /\ e.deliv.g1 <= e.crumb.g0 /\ \A x \in sent : x.g1 <= e.crumb.g0
          /\ e.arts = [req |-> e.crumb.req, all |-> TRUE]
          /\ foreign \/ e.win = [gen |-> e.crumb.g0, st |-> "Committed", req |-> e.crumb.req]
      BY GoodCrumb DEF Good, CrumbOK
    <2> QED BY <1>1, <1>2, <1>3, <2>1 DEF CrumbOK, Begun
  <1>6. ResultOK(d)'
    <2>1. /\ \A x \in sent : x.g1 # e.gen
          /\ e.deliv.g1 # e.gen
      <3>1. e.term.exp.g1 # e.gen
        BY <1>3, GoodCrumb
      <3> QED BY <3>1 DEF Good, ResultOK
    <2> QED BY <1>1, <1>2, <1>3, <2>1, GoodCrumb DEF ResultOK
  <1> QED BY <1>4, <1>5, <1>6 DEF Good

\* ... the generation is rotated to the reserved one, ...
LEMMA GoodRotate ==
    ASSUME TypeOK, NEW d \in Disk, NEW e \in Disk, Good(e), But(d, e, "gen"),
           e.crumb # NoExp, e.mark = e.crumb.req, e.gen = e.crumb.g0,
           e.term = [ph |-> "prepared", exp |-> e.crumb],
           d.gen = e.crumb.g1, UNCHANGED <<minted, sent, foreign>>
    PROVE  Good(d)'
  <1>1. /\ d.crumb = e.crumb /\ d.mark = e.mark /\ d.deliv = e.deliv /\ d.term = e.term
        /\ d.torn = e.torn /\ d.arts = e.arts /\ d.boot = e.boot /\ d.win = e.win
    BY DEF But, File
  <1>2. e.term.ph = "prepared" /\ e.term.exp = e.crumb
    OBVIOUS
  <1>3. e.boot = "early"
    BY <1>2 DEF Good, CrumbOK
  <1>4. GensOK(d)'
    BY <1>1, <1>2, GoodCrumb DEF Good, GensOK, Begun
  <1>5. CrumbOK(d)'
    <2>1. /\ Begun(e.crumb) /\ ~e.torn /\ e.deliv.g1 <= e.crumb.g0 /\ \A x \in sent : x.g1 <= e.crumb.g0
          /\ e.arts = [req |-> e.crumb.req, all |-> TRUE]
          /\ foreign \/ e.win = [gen |-> e.crumb.g0, st |-> "Committed", req |-> e.crumb.req]
      BY GoodCrumb DEF Good, CrumbOK
    <2> QED BY <1>1, <1>2, <1>3, <2>1 DEF CrumbOK, Begun
  <1>6. ResultOK(d)'
    BY <1>1, <1>2, <1>3, GoodCrumb DEF ResultOK
  <1> QED BY <1>4, <1>5, <1>6 DEF Good

\* ... the record is made final, ...
LEMMA GoodFinal ==
    ASSUME TypeOK, NEW d \in Disk, NEW e \in Disk, Good(e), But(d, e, "term"),
           e.crumb # NoExp, e.mark = e.crumb.req, e.gen = e.crumb.g1,
           e.term = [ph |-> "prepared", exp |-> e.crumb],
           d.term = [ph |-> "final", exp |-> e.crumb], UNCHANGED <<minted, sent, foreign>>
    PROVE  Good(d)'
  <1>1. /\ d.crumb = e.crumb /\ d.mark = e.mark /\ d.deliv = e.deliv /\ d.gen = e.gen
        /\ d.torn = e.torn /\ d.arts = e.arts /\ d.boot = e.boot /\ d.win = e.win
    BY DEF But, File
  <1>2. d.term.ph = "final" /\ d.term.exp = e.crumb /\ e.term.ph = "prepared"
    OBVIOUS
  <1>3. e.boot = "early"
    BY <1>2 DEF Good, CrumbOK
  <1>4. GensOK(d)'
    BY <1>1, <1>2, GoodCrumb DEF Good, GensOK, Begun
  <1>5. CrumbOK(d)'
    <2>1. /\ Begun(e.crumb) /\ ~e.torn /\ e.deliv.g1 <= e.crumb.g0 /\ \A x \in sent : x.g1 <= e.crumb.g0
          /\ e.arts = [req |-> e.crumb.req, all |-> TRUE]
          /\ foreign \/ e.win = [gen |-> e.crumb.g0, st |-> "Committed", req |-> e.crumb.req]
      BY GoodCrumb DEF Good, CrumbOK
    <2> QED BY <1>1, <1>2, <1>3, <2>1 DEF CrumbOK, Begun
  <1>6. ResultOK(d)'
    <2>1. ~e.torn
      BY DEF Good, CrumbOK
    <2> QED BY <1>1, <1>2, <1>3, <2>1, GoodCrumb DEF ResultOK
  <1> QED BY <1>4, <1>5, <1>6 DEF Good

\* ... and the breadcrumb goes, as it does after a rollback.
LEMMA GoodClear ==
    ASSUME TypeOK, NEW d \in Disk, NEW e \in Disk, Good(e), But(d, e, "crumb"),
           e.mark = NoReq \/ e.term.ph = "final",
           d.crumb = NoExp, UNCHANGED <<minted, sent, foreign>>
    PROVE  Good(d)'
  <1>1. /\ d.boot = e.boot /\ d.mark = e.mark /\ d.deliv = e.deliv /\ d.gen = e.gen
        /\ d.torn = e.torn /\ d.arts = e.arts /\ d.term = e.term /\ d.win = e.win
    BY DEF But, File
  <1>2. e.term.ph # "prepared"
    <2>1. SUFFICES ASSUME e.term.ph = "prepared" PROVE FALSE
      OBVIOUS
    <2>2. e.crumb # NoExp
      BY <2>1, GoodRecords
    <2>3. e.crumb.req # NoReq
      BY <2>2, GoodCrumb
    <2>4. e.mark = e.crumb.req
      BY <2>1, <2>2 DEF Good, CrumbOK
    <2> QED BY <2>1, <2>3, <2>4
  <1>3. GensOK(d)'
    BY <1>1 DEF Good, GensOK, Begun
  <1>4. CrumbOK(d)'
    BY <1>1, <1>2 DEF CrumbOK
  <1>5. ResultOK(d)'
    BY <1>1 DEF Good, ResultOK
  <1> QED BY <1>3, <1>4, <1>5 DEF Good

\* A teardown detaches a household that has no current result ...
LEMMA GoodDetached ==
    ASSUME TypeOK, NEW d \in Disk, NEW e \in Disk, Good(e), But(d, e, "torn"),
           e.crumb = NoExp, e.term.exp.g1 # e.gen, d.torn, UNCHANGED <<minted, sent, foreign>>
    PROVE  Good(d)'
  <1>1. /\ d.boot = e.boot /\ d.mark = e.mark /\ d.deliv = e.deliv /\ d.gen = e.gen
        /\ d.crumb = e.crumb /\ d.arts = e.arts /\ d.term = e.term /\ d.win = e.win
    BY DEF But, File
  <1>3. GensOK(d)'
    BY <1>1 DEF Good, GensOK, Begun
  <1>4. CrumbOK(d)'
    BY <1>1 DEF Good, CrumbOK
  <1>5. ResultOK(d)'
    BY <1>1 DEF Good, ResultOK
  <1> QED BY <1>3, <1>4, <1>5 DEF Good

\* ... and removes it.
LEMMA GoodRemoved ==
    ASSUME TypeOK, NEW d \in Disk, NEW e \in Disk, Good(e), e.torn, e.boot = "early",
           \A g \in File \ {"torn", "arts", "mark"} : d[g] = e[g],
           UNCHANGED <<minted, sent, foreign>>
    PROVE  Good(d)'
  <1>1. /\ d.boot = e.boot /\ d.deliv = e.deliv /\ d.gen = e.gen
        /\ d.crumb = e.crumb /\ d.term = e.term /\ d.win = e.win
    BY DEF File
  <1>2. e.crumb = NoExp
    BY DEF Good, CrumbOK
  <1>3. GensOK(d)'
    BY <1>1 DEF Good, GensOK, Begun
  <1>4. CrumbOK(d)'
    BY <1>1, <1>2 DEF Good, CrumbOK
  <1>5. ResultOK(d)'
    BY <1>1 DEF Good, ResultOK
  <1> QED BY <1>3, <1>4, <1>5 DEF Good

-----------------------------------------------------------------------------
(* Every disk that a power loss may leave is good.                         *)

\* A write keeps the disks good if it makes each good disk a good one.
LEMMA WriteDisks ==
    ASSUME TypeOK, DiskInv, NEW f \in File \ {"torn"}, NEW new \in Disk, NEW files \in SUBSET File,
           But(new, vis, f), DiskStep(new, files),
           minted' \in Nat, minted <= minted', sent' = sent, foreign => foreign',
           \A d, e \in Disk : IsMix(e) /\ Good(e) /\ But(d, e, f) /\ d[f] = new[f] => Good(d)'
    PROVE  DiskInv'
  <1> SUFFICES ASSUME NEW d \in Disk, IsMix(d)' PROVE Good(d)'
    BY DEF DiskInv
  <1>1. PICK e \in Disk : /\ IsMix(e)
                          /\ \A g \in File \ {f} : d[g] = e[g]
                          /\ d[f] \in {e[f], new[f]}
    BY WriteMix DEF But
  <1>2. Good(e)
    BY <1>1 DEF DiskInv
  <1>3. CASE d[f] = e[f]
    <2>1. d = e
      BY <1>1, <1>3, SameDisk DEF But
    <2> QED BY <1>2, <2>1, GoodKept
  <1>4. CASE d[f] = new[f]
    BY <1>1, <1>2, <1>4 DEF But
  <1> QED BY <1>1, <1>3, <1>4

\* A disk with one field replaced.
LEMMA NewFields ==
    ASSUME TypeOK
    PROVE  /\ \A x : But([vis EXCEPT !.gen = x], vis, "gen") /\ [vis EXCEPT !.gen = x]["gen"] = x
           /\ \A x : But([vis EXCEPT !.crumb = x], vis, "crumb") /\ [vis EXCEPT !.crumb = x]["crumb"] = x
           /\ \A x : But([vis EXCEPT !.term = x], vis, "term") /\ [vis EXCEPT !.term = x]["term"] = x
           /\ \A x : But([vis EXCEPT !.deliv = x], vis, "deliv") /\ [vis EXCEPT !.deliv = x]["deliv"] = x
           /\ \A x : But([vis EXCEPT !.boot = x], vis, "boot") /\ [vis EXCEPT !.boot = x]["boot"] = x
           /\ \A x : But([vis EXCEPT !.torn = x], vis, "torn") /\ [vis EXCEPT !.torn = x]["torn"] = x
           /\ \A x : But([vis EXCEPT !.arts = x], vis, "arts") /\ [vis EXCEPT !.arts = x]["arts"] = x
           /\ \A x : But([vis EXCEPT !.mark = x], vis, "mark") /\ [vis EXCEPT !.mark = x]["mark"] = x
           /\ \A x : But([vis EXCEPT !.win = x], vis, "win") /\ [vis EXCEPT !.win = x]["win"] = x
           /\ [vis EXCEPT !.term.ph = "final"] = [vis EXCEPT !.term = [ph |-> "final", exp |-> vis.term.exp]]
           /\ [vis EXCEPT !.arts.all = TRUE] = [vis EXCEPT !.arts = [vis.arts EXCEPT !.all = TRUE]]
  <1>1. vis \in Disk /\ vis.term \in [ph : {"none", "prepared", "final"}, exp : Exp]
    BY DEF TypeOK, Disk
  <1>2. [vis.term EXCEPT !.ph = "final"] = [ph |-> "final", exp |-> vis.term.exp]
    BY <1>1
  <1> QED BY <1>1, <1>2 DEF But, File, Disk

\* Where the visible files are being torn down, no transaction is open.
LEMMA TornNoCrumb ==
    ASSUME TypeOK, DiskInv, vis.torn, NEW e \in Disk, IsMix(e)
    PROVE  e.crumb = NoExp
  <1> DEFINE z == [e EXCEPT !.torn = TRUE]
  <1>1. z \in Disk /\ z.torn /\ z.crumb = e.crumb
    BY DEF Disk
  <1>2. \A g \in File : z[g] \in {vis[g], dur[g]}
    <2>1. \A g \in File : z[g] = IF g = "torn" THEN TRUE ELSE e[g]
      BY DEF Disk, File
    <2>2. vis.torn = TRUE
      BY DEF TypeOK, Disk
    <2> QED BY <2>1, <2>2 DEF IsMix
  <1> HIDE DEF z
  <1>3. IsMix(z)
    BY <1>1, <1>2 DEF IsMix
  <1> QED BY <1>1, <1>3 DEF DiskInv, Good, CrumbOK

\* Where both say Ready, no transaction is open.
LEMMA ReadyNoCrumb ==
    ASSUME TypeOK, DiskInv, vis.boot = "ready", dur.boot = "ready", NEW e \in Disk, IsMix(e)
    PROVE  e.crumb = NoExp
  <1>1. e.boot = "ready" /\ Good(e)
    BY MixFields DEF DiskInv
  <1> QED BY <1>1 DEF Good, CrumbOK

\* Rotations to a fresh generation.
LEMMA RotateDisks ==
    ASSUME TypeOK, DiskInv, \A e \in Disk : IsMix(e) => e.crumb = NoExp,
           NEW ok \in Step, NEW bad \in Step,
           NextGeneration([vis EXCEPT !.gen = minted + 1], ok, bad), Frame
    PROVE  DiskInv'
  <1> DEFINE new == [vis EXCEPT !.gen = minted + 1]
  <1>1. new \in Disk /\ But(new, vis, "gen") /\ new["gen"] = minted + 1
    BY NewDisks, NewFields
  <1> HIDE DEF new
  <1>2. DiskStep(new, Root)
    BY <1>1, WriteFacts, RootFiles DEF NextGeneration, new
  <1>3. minted \in Nat /\ minted' = minted + 1 /\ sent' = sent /\ foreign' = foreign
    BY DEF NextGeneration, Frame, history, TypeOK
  <1>4. \A d, e \in Disk : IsMix(e) /\ Good(e) /\ But(d, e, "gen") /\ d["gen"] = new["gen"] => Good(d)'
    BY <1>1, <1>3, GoodFreshGen
  <1>5. "gen" \in File \ {"torn"}
    BY DEF File
  <1> QED BY <1>1, <1>2, <1>3, <1>4, <1>5, WriteDisks, RootFiles

\* The removal of a household that is being torn down.
LEMMA RemoveDisks ==
    ASSUME TypeOK, DiskInv, RootSynced, vis.torn, vis.boot = "early",
           NEW ok \in Step, NEW bad \in Step,
           Write(NoHousehold, Root \cup {"arts", "mark"}, ok, bad),
           UNCHANGED <<minted, sent, foreign>>
    PROVE  DiskInv'
  <1> DEFINE files == Root \cup {"arts", "mark"}
  <1>0. vis \in Disk /\ dur \in Disk /\ NoHousehold \in Disk /\ files \in SUBSET File
    BY NewDisks, RootFiles DEF TypeOK
  <1>1. DiskStep(NoHousehold, files)
    BY <1>0, WriteFacts
  <1>2. \A g \in File \ {"torn", "arts", "mark"} : NoHousehold[g] = vis[g]
    BY <1>0 DEF NoHousehold, File, Disk
  <1>3. \A g \in File : Synced(NoHousehold, files)[g] \in {NoHousehold[g], dur[g]}
    BY <1>0, SyncedFacts
  <1> SUFFICES ASSUME NEW d \in Disk, IsMix(d)' PROVE Good(d)'
    BY DEF DiskInv
  <1>4. \A g \in File \ {"torn", "arts", "mark"} : d[g] \in {vis[g], dur[g]}
    BY <1>1, <1>2, <1>3 DEF DiskStep, IsMix
  <1> DEFINE z == [g \in File |-> IF g \in {"torn", "arts", "mark"} THEN vis[g] ELSE d[g]]
  <1>5. z = [g \in File |-> z[g]] /\ \A g \in File : z[g] = IF g \in {"torn", "arts", "mark"} THEN vis[g] ELSE d[g]
    OBVIOUS
  <1> HIDE DEF z
  <1>6. z \in Disk
    BY <1>0, <1>5, IsDisk
  <1>7. z.torn = vis.torn /\ z.arts = vis.arts /\ z.mark = vis.mark
    BY <1>5 DEF File
  <1>8. IsMix(z)
    BY <1>4, <1>5, <1>7 DEF IsMix
  <1>9. Good(z) /\ z.torn /\ z.boot = "early"
    BY <1>6, <1>7, <1>8, SyncedRoot DEF DiskInv
  <1>10. \A g \in File \ {"torn", "arts", "mark"} : d[g] = z[g]
    BY <1>5
  <1> QED BY <1>6, <1>9, <1>10, GoodRemoved

\* The steps that touch neither the files nor the history of the Acks.
Quiet == vis' = vis /\ dur' = dur /\ minted' = minted /\ sent' = sent /\ foreign' = foreign
         /\ refused' = refused

\* The steps that write no file.
LEMMA QuietSteps ==
    ASSUME \/ Requests \/ Finish \/ ColdCheck \/ Signalled \/ LocalStageTimeout \/ TearCheck
           \/ StopInstall \/ RestartDaemon \/ (\E p \in Proc : Crash(p)), TypeOK
    PROVE  Quiet
  <1>1. CASE Requests
    <2>1. PICK p \in Proc, op \in Op, r \in Req \cup {NoReq} : Acquire(p, op, r)
      BY <1>1, RequestFacts
    <2> QED BY <2>1 DEF Acquire, Quiet, disk, history
  <1>2. CASE ~Requests
    BY <1>2 DEF Finish, ColdCheck, Signalled, LocalStageTimeout, TearCheck, StopInstall, RestartDaemon,
                Crash, Quiet, disk, history, Frame
  <1> QED BY <1>1, <1>2

\* Where no household is visible, no disk has an open transaction with a marker.
LEMMA NoMarkMix ==
    ASSUME TypeOK, DiskInv, LagInv, ~vis.torn, vis.mark = NoReq, NEW e \in Disk, IsMix(e)
    PROVE  e.mark = NoReq \/ e.crumb = NoExp
  <1>1. Good(e) /\ e.mark \in {vis.mark, dur.mark}
    BY MixFields DEF DiskInv
  <1>2. CASE dur.torn
    <2>1. e.torn => e.crumb = NoExp
      BY <1>1 DEF Good, CrumbOK
    <2>2. ~e.torn => e.mark = vis.mark
      BY <1>2 DEF IsMix
    <2> QED BY <2>1, <2>2
  <1>3. CASE ~dur.torn
    BY <1>1, <1>3 DEF LagInv
  <1> QED BY <1>2, <1>3

\* A sweep changes the window only.
LEMMA SweptFields ==
    ASSUME TypeOK
    PROVE  /\ Swept \in Disk /\ But(Swept, vis, "win")
           /\ Swept.win = vis.win \/ Swept.win = IdleWindow(vis.gen)
           /\ Swept.win.gen = vis.gen
  <1>1. Swept = [vis EXCEPT !.win = IF vis.win.gen = vis.gen THEN vis.win ELSE IdleWindow(vis.gen)]
    BY DEF Swept
  <1>2. Swept.win = IF vis.win.gen = vis.gen THEN vis.win ELSE IdleWindow(vis.gen)
    BY <1>1 DEF TypeOK, Disk
  <1> QED BY <1>1, <1>2, Windows, NewFields DEF IdleWindow

\* Windows written where no marker stands.
LEMMA WindowDisks ==
    ASSUME TypeOK, DiskInv, LagInv, ~vis.torn, vis.mark = NoReq \/ (RootSynced /\ vis.crumb = NoExp),
           NEW new \in Disk, But(new, vis, "win"), NEW files \in SUBSET File, DiskStep(new, files),
           UNCHANGED <<minted, sent, foreign>>
    PROVE  DiskInv'
  <1>1. \A e \in Disk : IsMix(e) => e.mark = NoReq \/ e.crumb = NoExp
    BY NoMarkMix, SyncedRoot
  <1>2. \A d, e \in Disk : IsMix(e) /\ Good(e) /\ But(d, e, "win") /\ d["win"] = new["win"] => Good(d)'
    BY <1>1, GoodLoose
  <1>3. "win" \in File \ {"torn"} /\ minted \in Nat
    BY DEF File, TypeOK
  <1> QED BY <1>2, <1>3, WriteDisks

\* A writing step, in the form in which the invariants use it.
LEMMA FrameFacts ==
    ASSUME Frame
    PROVE  sent' = sent /\ foreign' = foreign /\ refused' = refused /\ mem' = mem /\ used' = used
  BY DEF Frame, history

\* The steps of the transaction before its marker.
LEMMA EarlyDisks ==
    ASSUME TypeOK, DiskInv, LagInv, StepInv,
           \/ Begin \/ StageArtifacts \/ PromoteArtifacts \/ PromoteWindow \/ PromoteMarker
    PROVE  DiskInv'
  <1>0. /\ vis \in Disk /\ dur \in Disk /\ minted \in Nat /\ run.req \in Req \cup {NoReq}
        /\ sent' = sent /\ foreign' = foreign
        /\ {"crumb", "arts", "win", "mark"} \subseteq File \ {"torn"}
    BY Types, FrameFacts DEF Begin, StageArtifacts, PromoteArtifacts, PromoteWindow, PromoteMarker, File
  <1>s. {"artifacts", "recover", "promote", "window", "marker"} \subseteq Step
    BY DEF Step
  <1>m. vis.mark = NoReq /\ Settled => \A e \in Disk : IsMix(e) => e.mark = NoReq
    BY MixFields DEF Settled
  <1>g. \A e \in Disk : IsMix(e) => Good(e)
    BY DEF DiskInv
  <1>1. CASE Begin
    <2>1. Settled /\ ~vis.torn /\ run.req \in Req
      BY <1>1 DEF Begin, StepInv, Established
    <2>2. CASE vis.crumb # NoExp \/ vis.term.ph = "prepared" \/ vis.mark # NoReq
      <3>1. Stabilise(Root \cup {"mark"}) /\ minted' = minted
        BY <1>1, <2>2 DEF Begin
      <3> QED BY <1>0, <3>1, StabiliseMix, DisksKept, RootFiles
    <2>3. CASE ~(vis.crumb # NoExp \/ vis.term.ph = "prepared" \/ vis.mark # NoReq)
      <3> DEFINE c == [g0 |-> vis.gen, g1 |-> minted + 1, req |-> run.req]
                 new == [vis EXCEPT !.crumb = c]
      <3>1. new \in Disk /\ But(new, vis, "crumb") /\ new["crumb"] = c
        BY NewDisks, NewFields
      <3>2. NextGeneration(new, "artifacts", "recover")
        BY <1>1, <2>3 DEF Begin
      <3> HIDE DEF new
      <3>3. DiskStep(new, Root) /\ minted' = minted + 1
        BY <1>s, <3>1, <3>2, WriteFacts, RootFiles DEF NextGeneration
      <3>4. ASSUME NEW d \in Disk, NEW e \in Disk, IsMix(e), Good(e), But(d, e, "crumb"),
                   d["crumb"] = new["crumb"]
            PROVE  Good(d)'
        <4>1. e.gen = vis.gen /\ e.crumb = NoExp /\ e.torn = vis.torn /\ e.mark = NoReq
          BY <1>m, <2>1, <2>3, <3>4, SyncedRoot DEF Settled
        <4>2. d.crumb = [g0 |-> e.gen, g1 |-> minted + 1, req |-> run.req]
          BY <3>1, <3>4, <4>1
        <4> QED BY <1>0, <2>1, <3>3, <3>4, <4>1, <4>2, GoodBegin
      <3> QED BY <1>0, <3>1, <3>3, <3>4, WriteDisks, RootFiles
    <2> QED BY <2>2, <2>3
  <1>2. CASE StageArtifacts
    <2> DEFINE new == [vis EXCEPT !.arts = [req |-> run.req, all |-> FALSE]]
    <2>1. Settled /\ vis.mark = NoReq
      BY <1>2 DEF StageArtifacts, StepInv, Established
    <2>2. new \in Disk /\ But(new, vis, "arts") /\ minted' = minted
      BY <1>2, NewDisks, NewFields DEF StageArtifacts
    <2>3. Write(new, {"arts"}, "promote", "recover")
      BY <1>2 DEF StageArtifacts
    <2> HIDE DEF new
    <2>4. DiskStep(new, {"arts"})
      BY <1>s, <2>2, <2>3, WriteFacts, RootFiles
    <2>5. \A d, e \in Disk : IsMix(e) /\ Good(e) /\ But(d, e, "arts") /\ d["arts"] = new["arts"] => Good(d)'
      BY <1>0, <1>m, <2>1, <2>2, GoodLoose
    <2> QED BY <1>0, <2>2, <2>4, <2>5, WriteDisks, RootFiles
  <1>3. CASE PromoteArtifacts
    <2> DEFINE new == [vis EXCEPT !.arts.all = TRUE]
    <2>1. Settled /\ vis.mark = NoReq
      BY <1>3 DEF PromoteArtifacts, StepInv, Established
    <2>2. new \in Disk /\ But(new, vis, "arts") /\ minted' = minted
      BY <1>3, NewDisks, NewFields DEF PromoteArtifacts
    <2>3. Write(new, {"arts"}, "window", "recover")
      BY <1>3 DEF PromoteArtifacts
    <2> HIDE DEF new
    <2>4. DiskStep(new, {"arts"})
      BY <1>s, <2>2, <2>3, WriteFacts, RootFiles
    <2>5. \A d, e \in Disk : IsMix(e) /\ Good(e) /\ But(d, e, "arts") /\ d["arts"] = new["arts"] => Good(d)'
      BY <1>0, <1>m, <2>1, <2>2, GoodLoose
    <2> QED BY <1>0, <2>2, <2>4, <2>5, WriteDisks, RootFiles
  <1>4. CASE PromoteWindow
    <2> DEFINE new == [vis EXCEPT !.win = [gen |-> vis.gen, st |-> "Committed", req |-> run.req]]
    <2>1. vis.mark = NoReq /\ ~vis.torn
      BY <1>4 DEF PromoteWindow, StepInv, Established
    <2>w. [gen |-> vis.gen, st |-> "Committed", req |-> run.req] \in Window
      BY Types, Windows
    <2>n. new \in Disk
      BY <2>w, NewDisks
    <2>2. new \in Disk /\ But(new, vis, "win") /\ minted' = minted
      BY <1>4, <2>n, NewFields DEF PromoteWindow
    <2>3. Write(new, {"win"}, "marker", "recover")
      BY <1>4 DEF PromoteWindow
    <2> HIDE DEF new
    <2>4. DiskStep(new, {"win"})
      BY <1>s, <2>2, <2>3, WriteFacts, RootFiles
    <2> QED BY <1>0, <2>1, <2>2, <2>4, WindowDisks, RootFiles
  <1>5. CASE PromoteMarker
    <2> DEFINE new == [vis EXCEPT !.mark = run.req]
    <2>1. /\ Settled /\ vis.mark = NoReq /\ vis.crumb # NoExp /\ vis.crumb.req = run.req
          /\ \A d \in {vis, dur} : d.arts = [req |-> vis.crumb.req, all |-> TRUE]
          /\ \A d \in {vis, dur} : d.win = [gen |-> vis.crumb.g0, st |-> "Committed", req |-> vis.crumb.req]
      BY <1>5 DEF PromoteMarker, StepInv, Established
    <2>2. new \in Disk /\ But(new, vis, "mark") /\ new["mark"] = run.req /\ minted' = minted
      BY <1>5, NewDisks, NewFields DEF PromoteMarker
    <2>3. Write(new, {"mark"}, "recover", "recover")
      BY <1>5 DEF PromoteMarker
    <2> HIDE DEF new
    <2>4. DiskStep(new, {"mark"})
      BY <1>s, <2>2, <2>3, WriteFacts, RootFiles
    <2>5. ASSUME NEW d \in Disk, NEW e \in Disk, IsMix(e), Good(e), But(d, e, "mark"),
                 d["mark"] = new["mark"]
          PROVE  Good(d)'
      <3>1. e.crumb = vis.crumb /\ e.mark = NoReq
        BY <1>m, <2>1, <2>5, SyncedRoot DEF Settled
      <3>2. e.arts = [req |-> e.crumb.req, all |-> TRUE]
            /\ e.win = [gen |-> e.crumb.g0, st |-> "Committed", req |-> e.crumb.req]
        BY <2>1, <2>5, <3>1, MixFields
      <3>3. d.mark = e.crumb.req
        BY <2>1, <2>2, <2>5, <3>1
      <3> QED BY <1>0, <2>1, <2>2, <2>5, <3>1, <3>2, <3>3, GoodMarker
    <2> QED BY <1>0, <2>2, <2>4, <2>5, WriteDisks, RootFiles
  <1> QED BY <1>1, <1>2, <1>3, <1>4, <1>5

\* The steps of the recovery.
LEMMA RecoveryDisks ==
    ASSUME TypeOK, DiskInv, LagInv, StepInv,
           \/ Recover \/ Prepare \/ Rotate \/ Final \/ Clear \/ RollbackHouse \/ RollbackWindow \/ RollbackClear
    PROVE  DiskInv'
  <1>0. /\ vis \in Disk /\ dur \in Disk /\ minted \in Nat /\ minted' = minted
        /\ sent' = sent /\ foreign' = foreign /\ Failed \in Step
        /\ {"crumb", "arts", "win", "term", "gen"} \subseteq File \ {"torn"}
    BY Types, FrameFacts, FailedType
       DEF Recover, Prepare, Rotate, Final, Clear, RollbackHouse, RollbackWindow, RollbackClear, File, history
  <1>s. {"rotate", "final", "clear", "signal", "repair", "rbWin", "rbClear", "fail"} \subseteq Step
    BY DEF Step
  <1>m. Settled => \A e \in Disk : IsMix(e) => e.mark = vis.mark
    BY MixFields DEF Settled
  <1>1. CASE Recover
    <2>1. Stabilise(Root \cup {"mark"}) \/ (vis' = vis /\ dur' = dur)
      BY <1>1 DEF Recover, disk
    <2>2. NoNewMix
      BY <2>1, StabiliseMix, IdleMix, RootFiles
    <2> QED BY <1>0, <2>2, DisksKept
  <1>2. CASE Prepare
    <2> DEFINE new == [vis EXCEPT !.term = [ph |-> "prepared", exp |-> vis.crumb]]
    <2>1. Settled /\ vis.crumb # NoExp /\ vis.mark = vis.crumb.req /\ vis.gen = vis.crumb.g0
          /\ vis.term.exp # vis.crumb
      BY <1>2 DEF Prepare, StepInv, Established
    <2>2. new \in Disk /\ But(new, vis, "term") /\ new["term"] = [ph |-> "prepared", exp |-> vis.crumb]
      BY NewDisks, NewFields
    <2>3. Write(new, Root, "rotate", Failed)
      BY <1>2 DEF Prepare
    <2> HIDE DEF new
    <2>4. DiskStep(new, Root)
      BY <1>0, <1>s, <2>2, <2>3, WriteFacts, RootFiles
    <2>5. ASSUME NEW d \in Disk, NEW e \in Disk, IsMix(e), Good(e), But(d, e, "term"), d["term"] = new["term"]
          PROVE  Good(d)'
      <3>1. e.crumb = vis.crumb /\ e.mark = vis.mark /\ e.gen = vis.gen /\ e.term = vis.term
        BY <1>m, <2>1, <2>5, SyncedRoot DEF Settled
      <3>2. d.term = [ph |-> "prepared", exp |-> e.crumb]
        BY <2>2, <2>5, <3>1
      <3> QED BY <1>0, <2>1, <2>5, <3>1, <3>2, GoodPrepare
    <2> QED BY <1>0, <2>2, <2>4, <2>5, WriteDisks, RootFiles
  <1>3. CASE Rotate
    <2> DEFINE new == [vis EXCEPT !.gen = vis.crumb.g1]
    <2>1. Settled /\ vis.crumb # NoExp /\ vis.mark = vis.crumb.req /\ vis.gen = vis.crumb.g0
          /\ vis.term = [ph |-> "prepared", exp |-> vis.crumb]
      BY <1>3 DEF Rotate, StepInv, Established
    <2>2. new \in Disk /\ But(new, vis, "gen") /\ new["gen"] = vis.crumb.g1
      BY NewDisks, NewFields
    <2>3. Write(new, Root, "final", Failed)
      BY <1>3 DEF Rotate
    <2> HIDE DEF new
    <2>4. DiskStep(new, Root)
      BY <1>0, <1>s, <2>2, <2>3, WriteFacts, RootFiles
    <2>5. ASSUME NEW d \in Disk, NEW e \in Disk, IsMix(e), Good(e), But(d, e, "gen"), d["gen"] = new["gen"]
          PROVE  Good(d)'
      <3>1. e.crumb = vis.crumb /\ e.mark = vis.mark /\ e.gen = vis.gen /\ e.term = vis.term
        BY <1>m, <2>1, <2>5, SyncedRoot DEF Settled
      <3>2. d.gen = e.crumb.g1
        BY <2>2, <2>5, <3>1
      <3> QED BY <1>0, <2>1, <2>5, <3>1, <3>2, GoodRotate
    <2> QED BY <1>0, <2>2, <2>4, <2>5, WriteDisks, RootFiles
  <1>4. CASE Final
    <2> DEFINE new == [vis EXCEPT !.term.ph = "final"]
    <2>1. Settled /\ vis.crumb # NoExp /\ vis.mark = vis.crumb.req /\ vis.gen = vis.crumb.g1
          /\ vis.term = [ph |-> "prepared", exp |-> vis.crumb]
      BY <1>4 DEF Final, StepInv, Established
    <2>2. new \in Disk /\ But(new, vis, "term") /\ new["term"] = [ph |-> "final", exp |-> vis.term.exp]
      <3> DEFINE t == [ph |-> "final", exp |-> vis.term.exp]
      <3>1. new = [vis EXCEPT !.term = t]
        BY NewFields
      <3>2. But([vis EXCEPT !.term = t], vis, "term") /\ [vis EXCEPT !.term = t]["term"] = t
        BY NewFields, Zenon
      <3>3. new \in Disk
        BY NewDisks
      <3> QED BY <3>1, <3>2, <3>3
    <2>3. Write(new, Root, "clear", Failed)
      BY <1>4 DEF Final
    <2> HIDE DEF new
    <2>4. DiskStep(new, Root)
      BY <1>0, <1>s, <2>2, <2>3, WriteFacts, RootFiles
    <2>5. ASSUME NEW d \in Disk, NEW e \in Disk, IsMix(e), Good(e), But(d, e, "term"), d["term"] = new["term"]
          PROVE  Good(d)'
      <3>1. e.crumb = vis.crumb /\ e.mark = vis.mark /\ e.gen = vis.gen /\ e.term = vis.term
        BY <1>m, <2>1, <2>5, SyncedRoot DEF Settled
      <3>2. d.term = [ph |-> "final", exp |-> e.crumb]
        BY <2>1, <2>2, <2>5, <3>1
      <3> QED BY <1>0, <2>1, <2>5, <3>1, <3>2, GoodFinal
    <2> QED BY <1>0, <2>2, <2>4, <2>5, WriteDisks, RootFiles
  <1>5. CASE Clear \/ RollbackClear
    <2> DEFINE new == [vis EXCEPT !.crumb = NoExp]
    <2>1. Settled /\ (vis.mark = NoReq \/ vis.term.ph = "final")
      BY <1>5 DEF Clear, RollbackClear, StepInv, Established
    <2>2. new \in Disk /\ But(new, vis, "crumb") /\ new["crumb"] = NoExp
      BY NewDisks, NewFields
    <2>3. \E ok \in Step : Write(new, Root, ok, Failed)
      BY <1>s, <1>5 DEF Clear, RollbackClear
    <2> HIDE DEF new
    <2>4. DiskStep(new, Root)
      BY <1>0, <2>2, <2>3, WriteFacts, RootFiles
    <2>5. ASSUME NEW d \in Disk, NEW e \in Disk, IsMix(e), Good(e), But(d, e, "crumb"), d["crumb"] = new["crumb"]
          PROVE  Good(d)'
      <3>1. e.mark = vis.mark /\ e.term = vis.term
        BY <1>m, <2>1, <2>5, SyncedRoot DEF Settled
      <3>2. d.crumb = NoExp
        BY <2>2, <2>5
      <3> QED BY <1>0, <2>1, <2>5, <3>1, <3>2, GoodClear
    <2> QED BY <1>0, <2>2, <2>4, <2>5, WriteDisks, RootFiles
  <1>6. CASE RollbackHouse
    <2> DEFINE new == [vis EXCEPT !.arts = NoArtifacts, !.mark = NoReq]
    <2>1. Settled /\ vis.mark = NoReq
      BY <1>6 DEF RollbackHouse, StepInv, Established
    <2>2. new \in Disk /\ But(new, vis, "arts")
      <3>1. new \in Disk
        BY NewDisks
      <3>2. \A g \in File \ {"arts"} : new[g] = vis[g]
        BY <1>0, <2>1 DEF File, Disk
      <3> QED BY <3>1, <3>2 DEF But
    <2>3. Write(new, {"arts", "mark"}, "rbWin", Failed)
      BY <1>6 DEF RollbackHouse
    <2> HIDE DEF new
    <2>4. DiskStep(new, {"arts", "mark"})
      BY <1>0, <1>s, <2>2, <2>3, WriteFacts, RootFiles
    <2>5. \A d, e \in Disk : IsMix(e) /\ Good(e) /\ But(d, e, "arts") /\ d["arts"] = new["arts"] => Good(d)'
      BY <1>0, <1>m, <2>1, GoodLoose
    <2> QED BY <1>0, <2>2, <2>4, <2>5, WriteDisks, RootFiles
  <1>7. CASE RollbackWindow
    <2> DEFINE new == [vis EXCEPT !.win = IdleWindow(vis.gen)]
    <2>1. ~vis.torn /\ vis.mark = NoReq
      BY <1>7 DEF RollbackWindow, StepInv, Established
    <2>2. new \in Disk /\ But(new, vis, "win")
      BY NewDisks, NewFields, Windows
    <2>3. Write(new, {"win"}, "rbClear", Failed)
      BY <1>7 DEF RollbackWindow
    <2> HIDE DEF new
    <2>4. DiskStep(new, {"win"})
      BY <1>0, <1>s, <2>2, <2>3, WriteFacts, RootFiles
    <2> QED BY <1>0, <2>1, <2>2, <2>4, WindowDisks, RootFiles
  <1> QED BY <1>1, <1>2, <1>3, <1>4, <1>5, <1>6, <1>7

\* A current result, as every disk shows it once it has been read with a barrier.
LEMMA ResultMix ==
    ASSUME TypeOK, Settled, active_terminal_result, NEW e \in Disk, IsMix(e)
    PROVE  /\ e.term = vis.term /\ e.gen = vis.gen /\ e.boot = vis.boot /\ e.crumb = vis.crumb
           /\ e.deliv = vis.deliv
           /\ e.term.ph = "final" /\ e.term.exp.g1 = e.gen
  BY SyncedRoot DEF Settled, active_terminal_result

\* The steps that answer from a result.
LEMMA ResultDisks ==
    ASSUME TypeOK, DiskInv, LagInv, StepInv,
           \/ Lookup \/ Deliver \/ Ready \/ Signal \/ RepairBoot
    PROVE  DiskInv'
  <1>0. /\ vis \in Disk /\ dur \in Disk /\ minted \in Nat /\ minted' = minted
        /\ sent' = sent /\ foreign' = foreign /\ Failed \in Step
        /\ {"deliv", "boot"} \subseteq File \ {"torn"}
    BY Types, FrameFacts, FailedType DEF Lookup, Deliver, Ready, Signal, RepairBoot, File
  <1>s. {"ready", "fail", "publish", "ack", "signalled", "open", "coldCheck"} \subseteq Step
    BY DEF Step
  <1>k. NoNewMix => DiskInv'
    BY <1>0, DisksKept
  <1>r. ASSUME Settled, active_terminal_result, vis.boot = "early",
               NEW ok \in Step, NEW bad \in Step, Write([vis EXCEPT !.boot = "restart"], Root, ok, bad)
        PROVE  DiskInv'
    <2> DEFINE new == [vis EXCEPT !.boot = "restart"]
    <2>2. new \in Disk /\ But(new, vis, "boot") /\ new["boot"] = "restart"
      BY NewDisks, NewFields
    <2>4. DiskStep(new, Root)
      BY <1>r, <2>2, WriteFacts, RootFiles
    <2> HIDE DEF new
    <2>5. ASSUME NEW d \in Disk, NEW e \in Disk, IsMix(e), Good(e), But(d, e, "boot"), d["boot"] = new["boot"]
          PROVE  Good(d)'
      BY <1>0, <1>r, <2>2, <2>5, ResultMix, GoodRestart
    <2> QED BY <1>0, <2>2, <2>4, <2>5, WriteDisks, RootFiles
  <1>1. CASE Lookup
    <2>1. Stabilise(Root \cup {"mark"}) \/ (vis' = vis /\ dur' = dur)
      BY <1>1 DEF Lookup, disk
    <2> QED BY <1>k, <2>1, StabiliseMix, IdleMix, RootFiles
  <1>2. CASE Deliver
    <2> DEFINE new == [vis EXCEPT !.deliv = vis.term.exp]
    <2>1. Settled /\ active_terminal_result /\ vis.boot # "early" /\ vis.crumb = NoExp
      BY <1>2 DEF Deliver, StepInv, Established
    <2>2. new \in Disk /\ But(new, vis, "deliv") /\ new["deliv"] = vis.term.exp
      BY NewDisks, NewFields
    <2>3. Stabilise(Root) \/ Write(new, Root, "ready", "fail")
      BY <1>2 DEF Deliver
    <2> HIDE DEF new
    <2>4. CASE Stabilise(Root)
      BY <1>k, <2>4, StabiliseMix, RootFiles
    <2>5. CASE Write(new, Root, "ready", "fail")
      <3>1. DiskStep(new, Root)
        BY <1>s, <2>2, <2>5, WriteFacts, RootFiles
      <3>2. ASSUME NEW d \in Disk, NEW e \in Disk, IsMix(e), Good(e), But(d, e, "deliv"), d["deliv"] = new["deliv"]
            PROVE  Good(d)'
        BY <1>0, <2>1, <2>2, <3>2, ResultMix, GoodDeliver
      <3> QED BY <1>0, <2>2, <3>1, <3>2, WriteDisks, RootFiles
    <2> QED BY <2>3, <2>4, <2>5
  <1>3. CASE Ready
    <2> DEFINE new == [vis EXCEPT !.boot = "ready"]
    <2>1. Settled /\ active_terminal_result /\ vis.boot # "early" /\ vis.crumb = NoExp
          /\ vis.deliv = vis.term.exp
      BY <1>3 DEF Ready, StepInv, Established
    <2>2. new \in Disk /\ But(new, vis, "boot") /\ new["boot"] = "ready"
      BY NewDisks, NewFields
    <2>3. (vis' = vis /\ dur' = dur) \/ Write(new, Root, "publish", "fail")
      BY <1>3 DEF Ready, disk
    <2> HIDE DEF new
    <2>4. CASE vis' = vis /\ dur' = dur
      BY <1>k, <2>4, IdleMix
    <2>5. CASE Write(new, Root, "publish", "fail")
      <3>1. DiskStep(new, Root)
        BY <1>s, <2>2, <2>5, WriteFacts, RootFiles
      <3>2. ASSUME NEW d \in Disk, NEW e \in Disk, IsMix(e), Good(e), But(d, e, "boot"), d["boot"] = new["boot"]
            PROVE  Good(d)'
        BY <1>0, <2>1, <2>2, <3>2, ResultMix, GoodReady
      <3> QED BY <1>0, <2>2, <3>1, <3>2, WriteDisks, RootFiles
    <2> QED BY <2>3, <2>4, <2>5
  <1>4. CASE Signal
    <2>1. Settled /\ active_terminal_result
      BY <1>4 DEF Signal, StepInv, Established
    <2>2. \/ vis' = vis /\ dur' = dur
          \/ vis.boot = "early" /\ Write([vis EXCEPT !.boot = "restart"], Root, "signalled", "fail")
      BY <1>4 DEF Signal, disk
    <2> QED BY <1>k, <1>r, <1>s, <2>1, <2>2, IdleMix
  <1>5. CASE RepairBoot
    <2>1. Settled
      BY <1>5 DEF RepairBoot, StepInv, Established
    <2>2. \/ Stabilise(Root \cup {"mark"})
          \/ /\ active_terminal_result /\ vis.boot = "early"
             /\ \E ok \in Step : Write([vis EXCEPT !.boot = "restart"], Root, ok, Failed)
      BY <1>5, <1>s DEF RepairBoot
    <2> QED BY <1>0, <1>k, <1>r, <2>1, <2>2, StabiliseMix, RootFiles
  <1> QED BY <1>1, <1>2, <1>3, <1>4, <1>5

\* The steps of a teardown, and of finishing one that was interrupted.
LEMMA TeardownDisks ==
    ASSUME TypeOK, DiskInv, LagInv, MemInv, StepInv,
           \/ TornRotate \/ TornBoot \/ TornRemove \/ TearRotate \/ TearRename \/ TearBoot \/ TearRemove
    PROVE  DiskInv'
  <1>0. vis \in Disk /\ dur \in Disk /\ minted \in Nat /\ Failed \in Step /\ AfterTeardown \in Step
    BY Types, FailedType DEF AfterTeardown, Step
  <1>s. {"tornBoot", "tornRemove", "tearRename", "tearBoot", "tearRemove", "exit"} \subseteq Step
    BY DEF Step
  <1>1. CASE TornRotate
    <2>1. vis.torn
      BY <1>1 DEF TornRotate, StepInv, Established
    <2> QED BY <1>0, <1>1, <1>s, <2>1, TornNoCrumb, RotateDisks DEF TornRotate
  <1>2. CASE TearRotate
    <2>1. /\ run.at = "tearRotate" /\ mem["daemon"].up = "up" /\ mem["daemon"].boot = "ready"
          /\ mem["daemon"].id # NoReq
      BY <1>2 DEF TearRotate, StepInv, Established
    <2>2. vis.boot = "ready" /\ dur.boot = "ready"
      BY <2>1 DEF MemInv, Tearing
    <2> QED BY <1>2, <1>s, <2>2, ReadyNoCrumb, RotateDisks DEF TearRotate
  <1>3. CASE TornBoot \/ TearBoot
    <2> DEFINE new == [vis EXCEPT !.boot = "early"]
    <2>1. RootSynced /\ vis.torn
      BY <1>3 DEF TornBoot, TearBoot, StepInv, Established
    <2>2. new \in Disk /\ But(new, vis, "boot") /\ new["boot"] = "early"
      BY NewDisks, NewFields
    <2>3. /\ \E ok, bad \in Step : Write(new, Root, ok, bad)
          /\ minted' = minted /\ sent' = sent /\ foreign' = foreign
      BY <1>0, <1>s, <1>3, FrameFacts DEF TornBoot, TearBoot
    <2> HIDE DEF new
    <2>4. DiskStep(new, Root)
      BY <2>2, <2>3, WriteFacts, RootFiles
    <2>5. ASSUME NEW d \in Disk, NEW e \in Disk, IsMix(e), Good(e), But(d, e, "boot"), d["boot"] = new["boot"]
          PROVE  Good(d)'
      BY <2>1, <2>2, <2>3, <2>5, SyncedRoot, GoodEarly
    <2>6. "boot" \in File \ {"torn"}
      BY DEF File
    <2> QED BY <1>0, <2>2, <2>3, <2>4, <2>5, <2>6, WriteDisks, RootFiles
  <1>4. CASE TornRemove \/ TearRemove
    <2>1. RootSynced /\ vis.torn /\ vis.boot = "early"
      BY <1>4 DEF TornRemove, TearRemove, StepInv, Established
    <2>2. /\ \E ok, bad \in Step : Write(NoHousehold, Root \cup {"arts", "mark"}, ok, bad)
          /\ minted' = minted /\ sent' = sent /\ foreign' = foreign
      BY <1>0, <1>s, <1>4, FrameFacts DEF TornRemove, TearRemove, history
    <2> QED BY <2>1, <2>2, RemoveDisks
  <1>5. CASE TearRename
    <2> DEFINE new == [vis EXCEPT !.torn = TRUE]
    <2>1. /\ RootSynced /\ ~vis.torn /\ vis.term.exp.g1 # vis.gen
          /\ run.at = "tearRename" /\ mem["daemon"].up = "up" /\ mem["daemon"].boot = "ready"
          /\ mem["daemon"].id # NoReq
      BY <1>5 DEF TearRename, StepInv, Established
    <2>2. vis.boot = "ready" /\ dur.boot = "ready"
      BY <2>1 DEF MemInv, Tearing
    <2>3. new \in Disk /\ But(new, vis, "torn") /\ new.torn = TRUE
      BY NewDisks, NewFields
    <2>4. minted' = minted /\ sent' = sent /\ foreign' = foreign
      BY <1>5, FrameFacts DEF TearRename
    <2>5. DiskStep(new, Root)
      BY <1>5, <1>s, <2>3, WriteFacts, RootFiles DEF TearRename
    <2> HIDE DEF new
    <2> SUFFICES ASSUME NEW d \in Disk, IsMix(d)' PROVE Good(d)'
      BY DEF DiskInv
    <2>6. \A g \in File : Synced(new, Root)[g] \in {new[g], dur[g]}
      BY <1>0, <2>3, SyncedFacts, RootFiles
    <2>7. \A g \in File \ {"torn"} : d[g] \in {vis[g], dur[g]}
      BY <2>3, <2>5, <2>6 DEF DiskStep, IsMix, But
    <2> DEFINE z == [g \in File |-> IF g = "torn" THEN vis[g] ELSE d[g]]
    <2>8. z = [g \in File |-> z[g]] /\ \A g \in File : z[g] = IF g = "torn" THEN vis[g] ELSE d[g]
      OBVIOUS
    <2> HIDE DEF z
    <2>9. z \in Disk
      BY <1>0, <2>8, IsDisk
    <2>10. ~dur.torn
      BY <2>1 DEF RootSynced, Root
    <2>11. IsMix(z)
      BY <2>7, <2>8, <2>10 DEF IsMix
    <2>12. But(d, z, "torn") /\ z["torn"] = vis["torn"]
      BY <2>8 DEF But, File
    <2>13. Good(z) /\ z.crumb = NoExp /\ z.term.exp.g1 # z.gen
      BY <2>1, <2>2, <2>9, <2>11, SyncedRoot, ReadyNoCrumb DEF DiskInv
    <2>14. CASE d.torn
      BY <2>4, <2>9, <2>12, <2>13, <2>14, GoodDetached
    <2>15. CASE ~d.torn
      <3>1. d["torn"] = z["torn"]
        BY <1>0, <2>1, <2>12, <2>15, DiskTypes
      <3>2. "torn" \in File
        BY DEF File
      <3>3. d = z
        BY <2>9, <2>12, <3>1, <3>2, SameDisk
      <3> QED BY <1>0, <2>4, <2>13, <3>3, GoodKept
    <2> QED BY <2>14, <2>15
  <1> QED BY <1>1, <1>2, <1>3, <1>4, <1>5

\* An Ack speaks of the current result of every disk.
LEMMA AckDisks ==
    ASSUME TypeOK, DiskInv, StepInv, Ack
    PROVE  DiskInv'
  <1> DEFINE x == vis.term.exp
  <1>0. vis' = vis /\ dur' = dur /\ minted' = minted /\ foreign' = foreign /\ sent' = sent \cup {x}
    BY DEF Ack, disk
  <1>1. /\ Settled /\ active_terminal_result /\ vis.boot = "ready" /\ vis.crumb = NoExp
        /\ vis.deliv = x
    BY DEF Ack, StepInv, Established
  <1> SUFFICES ASSUME NEW d \in Disk, IsMix(d)' PROVE Good(d)'
    BY DEF DiskInv
  <1>2. IsMix(d) /\ Good(d)
    BY <1>0, IdleMix DEF NoNewMix, DiskInv
  <1>3. /\ d.term.exp = x /\ d.boot = "ready" /\ d.crumb = NoExp /\ d.deliv = x
        /\ d.term.ph = "final" /\ x.g1 = d.gen
    BY <1>1, <1>2, ResultMix
  <1>4. d.term = [ph |-> "final", exp |-> x] /\ x.g1 \in Nat
    BY <1>3, DiskTypes
  <1> HIDE DEF x
  <1>5. GensOK(d)'
    BY <1>0, <1>2, <1>3, <1>4 DEF Good, GensOK, Begun
  <1>6. CrumbOK(d)'
    BY <1>2, <1>3 DEF Good, CrumbOK
  <1>7. ResultOK(d)'
    BY <1>0, <1>2, <1>3, <1>4 DEF Good, ResultOK
  <1> QED BY <1>5, <1>6, <1>7 DEF Good

\* The steps that open the windows of the current generation.
LEMMA NamespaceDisks ==
    ASSUME TypeOK, DiskInv, LagInv, StepInv,
           \/ Open \/ StageOpen \/ StageIdle \/ EnterStaging \/ ReissueOpen
    PROVE  DiskInv'
  <1>0. /\ vis \in Disk /\ dur \in Disk /\ minted \in Nat /\ minted' = minted /\ sent' = sent
        /\ ~vis.torn /\ But(Swept, vis, "win") /\ Swept \in Disk
    BY Types, FrameFacts, SweptFields
       DEF Open, StageOpen, StageIdle, EnterStaging, ReissueOpen, history, StepInv, Established
  <1>k. NoNewMix /\ (foreign => foreign') => DiskInv'
    BY <1>0, DisksKept
  <1>1. CASE Open
    <2>1. RootSynced /\ vis.crumb = NoExp /\ foreign' = foreign
      BY <1>1 DEF Open, StepInv, Established, Settled
    <2>2. DiskStep(Swept, Root \cup {"mark", "win"})
      BY <1>1 DEF Open, disk, DiskStep
    <2> QED BY <1>0, <2>1, <2>2, WindowDisks, RootFiles
  <1>2. CASE StageOpen
    <2>1. foreign' = foreign
      BY <1>2, FrameFacts DEF StageOpen
    <2>2. CASE vis.mark # NoReq
      BY <1>2, <1>k, <2>1, <2>2, IdleMix DEF StageOpen, disk
    <2>3. CASE vis.mark = NoReq
      <3>1. DiskStep(Swept, Root \cup {"win"})
        BY <1>2, <2>3 DEF StageOpen, DiskStep
      <3> QED BY <1>0, <2>1, <2>3, <3>1, WindowDisks, RootFiles
    <2> QED BY <2>2, <2>3
  <1>3. CASE StageIdle
    <2> DEFINE new == [vis EXCEPT !.win = IdleWindow(vis.gen)]
    <2>1. vis.mark = NoReq /\ foreign' = foreign
      BY <1>3, FrameFacts DEF StageIdle, StepInv, Established
    <2>2. new \in Disk /\ But(new, vis, "win")
      BY NewDisks, NewFields, Windows
    <2>3. "staging" \in Step /\ "exit" \in Step
      BY DEF Step
    <2>4. DiskStep(new, {"win"})
      BY <1>3, <2>2, <2>3, WriteFacts, RootFiles DEF StageIdle
    <2> QED BY <1>0, <2>1, <2>2, <2>4, WindowDisks, RootFiles
  <1>4. CASE EnterStaging
    <2> DEFINE New(r) == [vis EXCEPT !.win = [gen |-> vis.gen, st |-> "Staging", req |-> r]]
    <2>1. vis.mark = NoReq /\ foreign' = foreign
      BY <1>4 DEF EnterStaging, StepInv, Established, history
    <2>2. \A r \in Req \cup {NoReq} : New(r) \in Disk /\ But(New(r), vis, "win")
      BY NewDisks, NewFields, Windows
    <2>3. \E r \in Req \cup {NoReq} : DiskStep(New(r), {"win"})
      BY <1>4 DEF EnterStaging, DiskStep, disk
    <2> HIDE DEF New
    <2> QED BY <1>0, <2>1, <2>2, <2>3, WindowDisks, RootFiles
  <1>5. CASE ReissueOpen
    <2>1. CASE vis.mark = NoReq
      BY <1>5, <1>k, <2>1, IdleMix DEF ReissueOpen, disk
    <2>2. CASE vis.mark # NoReq
      <3>1. /\ vis' = Swept /\ dur' = Synced(Swept, Root \cup {"win"})
            /\ foreign' = (foreign \/ (vis.crumb # NoExp /\ Swept # vis))
        BY <1>5, <2>2 DEF ReissueOpen
      <3>2. CASE Swept = vis
        <4>1. Stabilise(Root \cup {"win"})
          BY <3>1, <3>2 DEF Stabilise
        <4> QED BY <1>k, <3>1, <4>1, StabiliseMix, RootFiles
      <3>3. CASE Swept # vis
        <4>1. DiskStep(Swept, Root \cup {"win"}) /\ "win" \in File \ {"torn"}
          BY <3>1 DEF DiskStep, File
        <4> SUFFICES ASSUME NEW d \in Disk, IsMix(d)' PROVE Good(d)'
          BY DEF DiskInv
        <4>2. PICK e \in Disk : /\ IsMix(e)
                                /\ \A g \in File \ {"win"} : d[g] = e[g]
                                /\ d["win"] \in {e["win"], Swept["win"]}
          BY <1>0, <4>1, WriteMix, RootFiles DEF But
        <4>3. Good(e)
          BY <4>2 DEF DiskInv
        <4>4. d.crumb = vis.crumb
          <5>1. Swept.crumb = vis.crumb
            BY <1>0 DEF But, File
          <5>2. Synced(Swept, Root \cup {"win"}).crumb = Swept.crumb
            BY <1>0, SyncedFacts, RootFiles DEF Root
          <5> QED BY <3>1, <5>1, <5>2 DEF IsMix, File
        <4>5. e.crumb = d.crumb
          BY <4>2 DEF File
        <4>6. e.crumb = NoExp \/ foreign'
          BY <3>1, <3>3, <4>4, <4>5
        <4> QED BY <1>0, <3>1, <4>2, <4>3, <4>6, GoodLoose DEF But
      <3> QED BY <3>2, <3>3
    <2> QED BY <2>1, <2>2
  <1> QED BY <1>1, <1>2, <1>3, <1>4, <1>5

\* The step in all its forms.
LEMMA NextDiskInv ==
    ASSUME TypeOK, DiskInv, LagInv, MemInv, StepInv, Next
    PROVE  DiskInv'
  <1>1. Quiet => DiskInv'
    BY IdleMix, DisksKept DEF Quiet, TypeOK
  <1>2. PowerLoss => DiskInv'
    BY PowerLossFacts, DisksKept DEF PowerLoss, history, TypeOK
  <1> QED BY <1>1, <1>2, NextSteps, QuietSteps, EarlyDisks, RecoveryDisks, ResultDisks, TeardownDisks,
             AckDisks, NamespaceDisks DEF LockHolder

-----------------------------------------------------------------------------
(* A writing step, file by file.                                           *)

\* The barrier over some files has come back.
Barrier(files) ==
    /\ \A g \in files : dur'[g] = vis'[g]
    /\ \A g \in File \ (files \cup {"arts", "mark"}) : dur'[g] = dur[g]
    /\ \A g \in {"arts", "mark"} \ files :
          dur'[g] = IF "torn" \in files /\ dur.torn /\ ~vis'.torn THEN vis'[g] ELSE dur[g]

\* File f was to become x: acknowledged, or failed before or after the rename.
Wrote(f, x, files, ok, bad) ==
    /\ \A g \in File \ {f} : vis'[g] = vis[g]
    /\ \/ Moved(ok) /\ vis'[f] = x /\ Barrier(files)
       \/ Moved(bad) /\ vis'[f] \in {vis[f], x} /\ dur' = dur

\* What Synced computes is what a barrier leaves.
LEMMA SyncedBarrier ==
    ASSUME dur \in Disk, NEW new \in Disk, NEW files \in SUBSET File, vis' = new, dur' = Synced(new, files)
    PROVE  Barrier(files)
  <1>1. /\ \A f \in files : Synced(new, files)[f] = new[f]
        /\ \A f \in File \ {"arts", "mark"} : f \notin files => Synced(new, files)[f] = dur[f]
        /\ "torn" \in files /\ dur.torn /\ ~new.torn =>
               Synced(new, files).arts = new.arts /\ Synced(new, files).mark = new.mark
        /\ ~("torn" \in files /\ dur.torn /\ ~new.torn) =>
               \A f \in File \ files : Synced(new, files)[f] = dur[f]
    BY SyncedFacts
  <1>2. {"arts", "mark"} \subseteq File
    BY DEF File
  <1> QED BY <1>1, <1>2 DEF Barrier

\* A write that aims at one file, in this form.
LEMMA WriteWrote ==
    ASSUME TypeOK, NEW f \in File, NEW new \in Disk, But(new, vis, f), NEW files \in SUBSET File,
           NEW ok \in Step, NEW bad \in Step, Write(new, files, ok, bad)
    PROVE  Wrote(f, new[f], files, ok, bad)
  <1>1. CASE vis' = new /\ dur' = Synced(new, files) /\ Go(ok)
    <2>1. Barrier(files)
      BY <1>1, SyncedBarrier DEF TypeOK
    <2> QED BY <1>1, <2>1, GoMoves DEF Wrote, But
  <1>2. CASE Go(bad) /\ ((vis' = vis /\ dur' = dur) \/ (vis' = new /\ dur' = dur))
    BY <1>2, GoMoves DEF Wrote, But
  <1> QED BY <1>1, <1>2 DEF Write, disk

\* A write that replaces one field, in this form.
LEMMA FieldWrote ==
    ASSUME TypeOK, NEW x, NEW files \in SUBSET File, NEW ok \in Step, NEW bad \in Step
    PROVE
      /\ [vis EXCEPT !.gen = x] \in Disk /\ Write([vis EXCEPT !.gen = x], files, ok, bad) =>
            Wrote("gen", x, files, ok, bad)
      /\ [vis EXCEPT !.boot = x] \in Disk /\ Write([vis EXCEPT !.boot = x], files, ok, bad) =>
            Wrote("boot", x, files, ok, bad)
      /\ [vis EXCEPT !.torn = x] \in Disk /\ Write([vis EXCEPT !.torn = x], files, ok, bad) =>
            Wrote("torn", x, files, ok, bad)
      /\ [vis EXCEPT !.arts = x] \in Disk /\ Write([vis EXCEPT !.arts = x], files, ok, bad) =>
            Wrote("arts", x, files, ok, bad)
      /\ [vis EXCEPT !.win = x] \in Disk /\ Write([vis EXCEPT !.win = x], files, ok, bad) =>
            Wrote("win", x, files, ok, bad)
      /\ [vis EXCEPT !.mark = x] \in Disk /\ Write([vis EXCEPT !.mark = x], files, ok, bad) =>
            Wrote("mark", x, files, ok, bad)
      /\ [vis EXCEPT !.term = x] \in Disk /\ Write([vis EXCEPT !.term = x], files, ok, bad) =>
            Wrote("term", x, files, ok, bad)
      /\ [vis EXCEPT !.crumb = x] \in Disk /\ Write([vis EXCEPT !.crumb = x], files, ok, bad) =>
            Wrote("crumb", x, files, ok, bad)
      /\ [vis EXCEPT !.deliv = x] \in Disk /\ Write([vis EXCEPT !.deliv = x], files, ok, bad) =>
            Wrote("deliv", x, files, ok, bad)
  <1>1. ASSUME [vis EXCEPT !.gen = x] \in Disk, Write([vis EXCEPT !.gen = x], files, ok, bad)
        PROVE  Wrote("gen", x, files, ok, bad)
    <2> DEFINE new == [vis EXCEPT !.gen = x]
    <2>1. new \in Disk /\ But(new, vis, "gen") /\ new["gen"] = x /\ Write(new, files, ok, bad) /\ "gen" \in File
      BY <1>1, NewFields DEF File
    <2> HIDE DEF new
    <2> QED BY <2>1, WriteWrote
  <1>2. ASSUME [vis EXCEPT !.boot = x] \in Disk, Write([vis EXCEPT !.boot = x], files, ok, bad)
        PROVE  Wrote("boot", x, files, ok, bad)
    <2> DEFINE new == [vis EXCEPT !.boot = x]
    <2>1. new \in Disk /\ But(new, vis, "boot") /\ new["boot"] = x /\ Write(new, files, ok, bad) /\ "boot" \in File
      BY <1>2, NewFields DEF File
    <2> HIDE DEF new
    <2> QED BY <2>1, WriteWrote
  <1>3. ASSUME [vis EXCEPT !.torn = x] \in Disk, Write([vis EXCEPT !.torn = x], files, ok, bad)
        PROVE  Wrote("torn", x, files, ok, bad)
    <2> DEFINE new == [vis EXCEPT !.torn = x]
    <2>1. new \in Disk /\ But(new, vis, "torn") /\ new["torn"] = x /\ Write(new, files, ok, bad) /\ "torn" \in File
      BY <1>3, NewFields DEF File
    <2> HIDE DEF new
    <2> QED BY <2>1, WriteWrote
  <1>4. ASSUME [vis EXCEPT !.arts = x] \in Disk, Write([vis EXCEPT !.arts = x], files, ok, bad)
        PROVE  Wrote("arts", x, files, ok, bad)
    <2> DEFINE new == [vis EXCEPT !.arts = x]
    <2>1. new \in Disk /\ But(new, vis, "arts") /\ new["arts"] = x /\ Write(new, files, ok, bad) /\ "arts" \in File
      BY <1>4, NewFields DEF File
    <2> HIDE DEF new
    <2> QED BY <2>1, WriteWrote
  <1>5. ASSUME [vis EXCEPT !.win = x] \in Disk, Write([vis EXCEPT !.win = x], files, ok, bad)
        PROVE  Wrote("win", x, files, ok, bad)
    <2> DEFINE new == [vis EXCEPT !.win = x]
    <2>1. new \in Disk /\ But(new, vis, "win") /\ new["win"] = x /\ Write(new, files, ok, bad) /\ "win" \in File
      BY <1>5, NewFields DEF File
    <2> HIDE DEF new
    <2> QED BY <2>1, WriteWrote
  <1>6. ASSUME [vis EXCEPT !.mark = x] \in Disk, Write([vis EXCEPT !.mark = x], files, ok, bad)
        PROVE  Wrote("mark", x, files, ok, bad)
    <2> DEFINE new == [vis EXCEPT !.mark = x]
    <2>1. new \in Disk /\ But(new, vis, "mark") /\ new["mark"] = x /\ Write(new, files, ok, bad) /\ "mark" \in File
      BY <1>6, NewFields DEF File
    <2> HIDE DEF new
    <2> QED BY <2>1, WriteWrote
  <1>7. ASSUME [vis EXCEPT !.term = x] \in Disk, Write([vis EXCEPT !.term = x], files, ok, bad)
        PROVE  Wrote("term", x, files, ok, bad)
    <2> DEFINE new == [vis EXCEPT !.term = x]
    <2>1. new \in Disk /\ But(new, vis, "term") /\ new["term"] = x /\ Write(new, files, ok, bad) /\ "term" \in File
      BY <1>7, NewFields DEF File
    <2> HIDE DEF new
    <2> QED BY <2>1, WriteWrote
  <1>8. ASSUME [vis EXCEPT !.crumb = x] \in Disk, Write([vis EXCEPT !.crumb = x], files, ok, bad)
        PROVE  Wrote("crumb", x, files, ok, bad)
    <2> DEFINE new == [vis EXCEPT !.crumb = x]
    <2>1. new \in Disk /\ But(new, vis, "crumb") /\ new["crumb"] = x /\ Write(new, files, ok, bad) /\ "crumb" \in File
      BY <1>8, NewFields DEF File
    <2> HIDE DEF new
    <2> QED BY <2>1, WriteWrote
  <1>9. ASSUME [vis EXCEPT !.deliv = x] \in Disk, Write([vis EXCEPT !.deliv = x], files, ok, bad)
        PROVE  Wrote("deliv", x, files, ok, bad)
    <2> DEFINE new == [vis EXCEPT !.deliv = x]
    <2>1. new \in Disk /\ But(new, vis, "deliv") /\ new["deliv"] = x /\ Write(new, files, ok, bad) /\ "deliv" \in File
      BY <1>9, NewFields DEF File
    <2> HIDE DEF new
    <2> QED BY <2>1, WriteWrote
  <1> QED BY <1>1, <1>2, <1>3, <1>4, <1>5, <1>6, <1>7, <1>8, <1>9

\* A barrier over what is visible.
LEMMA StabiliseBarrier ==
    ASSUME TypeOK, NEW files \in SUBSET File, Stabilise(files)
    PROVE  vis' = vis /\ Barrier(files)
  BY SyncedBarrier DEF TypeOK, Stabilise

\* The steps that write one file.
LEMMA Writings ==
    ASSUME TypeOK
    PROVE  /\ TornRotate => Wrote("gen", minted + 1, Root, "tornBoot", Failed)
           /\ TearRotate => Wrote("gen", minted + 1, Root, "tearRename", "exit")
           /\ TornBoot => Wrote("boot", "early", Root, "tornRemove", Failed)
           /\ TearBoot => Wrote("boot", "early", Root, "tearRemove", "exit")
           /\ TearRename => Wrote("torn", TRUE, Root, "tearBoot", "exit")
           /\ StageArtifacts => Wrote("arts", [req |-> run.req, all |-> FALSE], {"arts"}, "promote", "recover")
           /\ PromoteArtifacts => Wrote("arts", [vis.arts EXCEPT !.all = TRUE], {"arts"}, "window", "recover")
           /\ PromoteWindow => Wrote("win", [gen |-> vis.gen, st |-> "Committed", req |-> run.req],
                                     {"win"}, "marker", "recover")
           /\ PromoteMarker => Wrote("mark", run.req, {"mark"}, "recover", "recover")
           /\ Prepare => Wrote("term", [ph |-> "prepared", exp |-> vis.crumb], Root, "rotate", Failed)
           /\ Rotate => Wrote("gen", vis.crumb.g1, Root, "final", Failed)
           /\ Final => Wrote("term", [ph |-> "final", exp |-> vis.term.exp], Root, "clear", Failed)
           /\ Clear => Wrote("crumb", NoExp, Root, IF run.op = "finalize" THEN "signal" ELSE "repair", Failed)
           /\ RollbackHouse /\ vis.mark = NoReq => Wrote("arts", NoArtifacts, {"arts", "mark"}, "rbWin", Failed)
           /\ RollbackWindow => Wrote("win", IdleWindow(vis.gen), {"win"}, "rbClear", Failed)
           /\ RollbackClear => Wrote("crumb", NoExp, Root, IF run.op = "finalize" THEN "fail" ELSE "repair",
                                     Failed)
           /\ StageIdle => Wrote("win", IdleWindow(vis.gen), {"win"}, "staging", "exit")
  <1>0. /\ Failed \in Step /\ File \subseteq File /\ vis \in Disk
        /\ {"tornBoot", "tearRename", "exit", "tornRemove", "tearRemove", "tearBoot", "promote", "recover",
            "window", "marker", "rotate", "final", "clear", "signal", "repair", "rbWin", "rbClear", "fail",
            "staging"} \subseteq Step
        /\ {"gen", "boot", "torn", "arts", "win", "mark", "term", "crumb"} \subseteq File
        /\ IdleWindow(vis.gen) \in Window
        /\ [gen |-> vis.gen, st |-> "Committed", req |-> run.req] \in Window
    BY FailedType, Windows, Types DEF Step, File
  <1>1. TornRotate => Wrote("gen", minted + 1, Root, "tornBoot", Failed)
    BY <1>0, FieldWrote, NewDisks, RootFiles, Zenon DEF TornRotate, NextGeneration
  <1>2. TearRotate => Wrote("gen", minted + 1, Root, "tearRename", "exit")
    BY <1>0, FieldWrote, NewDisks, RootFiles, Zenon DEF TearRotate, NextGeneration
  <1>3. TornBoot => Wrote("boot", "early", Root, "tornRemove", Failed)
    BY <1>0, FieldWrote, NewDisks, RootFiles, Zenon DEF TornBoot
  <1>4. TearBoot => Wrote("boot", "early", Root, "tearRemove", "exit")
    BY <1>0, FieldWrote, NewDisks, RootFiles, Zenon DEF TearBoot
  <1>5. TearRename => Wrote("torn", TRUE, Root, "tearBoot", "exit")
    BY <1>0, FieldWrote, NewDisks, RootFiles, Zenon DEF TearRename
  <1>6. StageArtifacts => Wrote("arts", [req |-> run.req, all |-> FALSE], {"arts"}, "promote", "recover")
    BY <1>0, FieldWrote, NewDisks, RootFiles, Zenon DEF StageArtifacts
  <1>7. PromoteArtifacts => Wrote("arts", [vis.arts EXCEPT !.all = TRUE], {"arts"}, "window", "recover")
    BY <1>0, FieldWrote, NewDisks, RootFiles, Zenon DEF PromoteArtifacts
  <1>8. PromoteWindow => Wrote("win", [gen |-> vis.gen, st |-> "Committed", req |-> run.req],
                               {"win"}, "marker", "recover")
    BY <1>0, FieldWrote, NewDisks, RootFiles, Zenon DEF PromoteWindow
  <1>9. PromoteMarker => Wrote("mark", run.req, {"mark"}, "recover", "recover")
    BY <1>0, FieldWrote, NewDisks, RootFiles, Zenon DEF PromoteMarker
  <1>10. Prepare => Wrote("term", [ph |-> "prepared", exp |-> vis.crumb], Root, "rotate", Failed)
    BY <1>0, FieldWrote, NewDisks, RootFiles, Zenon DEF Prepare
  <1>11. Rotate => Wrote("gen", vis.crumb.g1, Root, "final", Failed)
    BY <1>0, FieldWrote, NewDisks, RootFiles, Zenon DEF Rotate
  <1>12. Final => Wrote("term", [ph |-> "final", exp |-> vis.term.exp], Root, "clear", Failed)
    <2>1. [vis EXCEPT !.term.ph = "final"] = [vis EXCEPT !.term = [ph |-> "final", exp |-> vis.term.exp]]
      BY NewFields
    <2>2. Final => Write([vis EXCEPT !.term = [ph |-> "final", exp |-> vis.term.exp]], Root, "clear", Failed)
      BY <2>1 DEF Final
    <2>3. [vis EXCEPT !.term = [ph |-> "final", exp |-> vis.term.exp]] \in Disk
      BY <2>1, NewDisks
    <2> QED BY <1>0, <2>2, <2>3, FieldWrote, RootFiles, Zenon
  <1>13. Clear => Wrote("crumb", NoExp, Root, IF run.op = "finalize" THEN "signal" ELSE "repair", Failed)
    BY <1>0, FieldWrote, NewDisks, RootFiles, Zenon DEF Clear
  <1>14. RollbackHouse /\ vis.mark = NoReq => Wrote("arts", NoArtifacts, {"arts", "mark"}, "rbWin", Failed)
    <2> DEFINE new == [vis EXCEPT !.arts = NoArtifacts, !.mark = NoReq]
    <2>1. new \in Disk /\ new["arts"] = NoArtifacts
      BY <1>0, NewDisks DEF Disk
    <2>2. vis.mark = NoReq => But(new, vis, "arts")
      BY <1>0 DEF File, Disk, But
    <2> QED BY <1>0, <2>1, <2>2, WriteWrote, RootFiles DEF RollbackHouse
  <1>15. RollbackWindow => Wrote("win", IdleWindow(vis.gen), {"win"}, "rbClear", Failed)
    BY <1>0, FieldWrote, NewDisks, RootFiles, Zenon DEF RollbackWindow
  <1>16. RollbackClear => Wrote("crumb", NoExp, Root, IF run.op = "finalize" THEN "fail" ELSE "repair", Failed)
    BY <1>0, FieldWrote, NewDisks, RootFiles, Zenon DEF RollbackClear
  <1>17. StageIdle => Wrote("win", IdleWindow(vis.gen), {"win"}, "staging", "exit")
    BY <1>0, FieldWrote, NewDisks, RootFiles, Zenon DEF StageIdle
  <1> QED BY <1>1, <1>2, <1>3, <1>4, <1>5, <1>6, <1>7, <1>8, <1>9, <1>10, <1>11, <1>12, <1>13, <1>14,
             <1>15, <1>16, <1>17

\* The steps that write one file, or read it with a barrier, or only look.
LEMMA MixedWritings ==
    ASSUME TypeOK
    PROVE  /\ Deliver =>
                \/ vis.deliv = vis.term.exp /\ vis' = vis /\ Barrier(Root) /\ Moved("ready")
                \/ vis' = vis /\ Barrier(Root) /\ Moved("fail")
                \/ Wrote("deliv", vis.term.exp, Root, "ready", "fail")
           /\ Ready =>
                \/ vis.boot = "restart" /\ Wrote("boot", "ready", Root, "publish", "fail")
                \/ vis.boot = "ready" /\ vis' = vis /\ dur' = dur /\ Moved("ack")
                \/ vis' = vis /\ dur' = dur /\ Moved("fail")
           /\ Begin =>
                \/ vis' = vis /\ Barrier(Root \cup {"mark"}) /\ Moved("recover") /\ minted' = minted
                \/ /\ vis.crumb = NoExp /\ vis.mark = NoReq /\ minted' = minted + 1
                   /\ Wrote("crumb", [g0 |-> vis.gen, g1 |-> minted + 1, req |-> run.req], Root,
                            "artifacts", "recover")
           /\ Signal =>
                \/ vis.boot = "early" /\ Wrote("boot", "restart", Root, "signalled", "fail")
                \/ vis' = vis /\ dur' = dur /\ (Moved("exit") \/ Moved("fail"))
           /\ RepairBoot =>
                \E next \in {"open", "coldCheck"} :
                  \/ vis.boot = "early" /\ Wrote("boot", "restart", Root, next, Failed)
                  \/ /\ ~(active_terminal_result /\ vis.boot = "early")
                     /\ vis' = vis /\ Barrier(Root \cup {"mark"}) /\ Moved(next)
  <1>0. /\ {"ready", "fail", "publish", "ack", "artifacts", "recover", "signalled", "exit", "open", "coldCheck"} \subseteq Step
        /\ Failed \in Step
        /\ \A b \in {"early", "restart", "ready"} : [vis EXCEPT !.boot = b] \in Disk
    BY FailedType, NewDisks DEF Step
  <1>b. /\ \A b \in {"early", "restart", "ready"}, ok \in Step, bad \in Step :
            Write([vis EXCEPT !.boot = b], Root, ok, bad) => Wrote("boot", b, Root, ok, bad)
    BY <1>0, FieldWrote, RootFiles, Zenon
  <1>1. Deliver =>
                \/ vis.deliv = vis.term.exp /\ vis' = vis /\ Barrier(Root) /\ Moved("ready")
                \/ vis' = vis /\ Barrier(Root) /\ Moved("fail")
                \/ Wrote("deliv", vis.term.exp, Root, "ready", "fail")
    <2>1. Deliver =>
                \/ vis.deliv = vis.term.exp /\ Stabilise(Root) /\ Go("ready")
                \/ Stabilise(Root) /\ Go("fail")
                \/ Write([vis EXCEPT !.deliv = vis.term.exp], Root, "ready", "fail")
      BY DEF Deliver
    <2>2. Write([vis EXCEPT !.deliv = vis.term.exp], Root, "ready", "fail") =>
             Wrote("deliv", vis.term.exp, Root, "ready", "fail")
      BY <1>0, FieldWrote, NewDisks, RootFiles, Zenon
    <2> QED BY <1>0, <2>1, <2>2, StabiliseBarrier, GoMoves, RootFiles
  <1>2. Ready =>
                \/ vis.boot = "restart" /\ Wrote("boot", "ready", Root, "publish", "fail")
                \/ vis.boot = "ready" /\ vis' = vis /\ dur' = dur /\ Moved("ack")
                \/ vis' = vis /\ dur' = dur /\ Moved("fail")
    BY <1>0, <1>b, GoMoves DEF Ready, disk
  <1>3. Begin =>
                \/ vis' = vis /\ Barrier(Root \cup {"mark"}) /\ Moved("recover") /\ minted' = minted
                \/ /\ vis.crumb = NoExp /\ vis.mark = NoReq /\ minted' = minted + 1
                   /\ Wrote("crumb", [g0 |-> vis.gen, g1 |-> minted + 1, req |-> run.req], Root,
                            "artifacts", "recover")
    <2> DEFINE c == [g0 |-> vis.gen, g1 |-> minted + 1, req |-> run.req]
    <2>1. Write([vis EXCEPT !.crumb = c], Root, "artifacts", "recover") =>
             Wrote("crumb", c, Root, "artifacts", "recover")
      BY <1>0, FieldWrote, NewDisks, RootFiles, Zenon
    <2>2. Begin =>
            \/ Stabilise(Root \cup {"mark"}) /\ Go("recover") /\ minted' = minted
            \/ /\ vis.crumb = NoExp /\ vis.mark = NoReq /\ minted' = minted + 1
               /\ Write([vis EXCEPT !.crumb = c], Root, "artifacts", "recover")
      BY DEF Begin, NextGeneration
    <2> QED BY <1>0, <2>1, <2>2, StabiliseBarrier, GoMoves, RootFiles
  <1>4. Signal =>
                \/ vis.boot = "early" /\ Wrote("boot", "restart", Root, "signalled", "fail")
                \/ vis' = vis /\ dur' = dur /\ (Moved("exit") \/ Moved("fail"))
    BY <1>0, <1>b, GoMoves DEF Signal, disk
  <1>5. RepairBoot =>
                \E next \in {"open", "coldCheck"} :
                  \/ vis.boot = "early" /\ Wrote("boot", "restart", Root, next, Failed)
                  \/ /\ ~(active_terminal_result /\ vis.boot = "early")
                     /\ vis' = vis /\ Barrier(Root \cup {"mark"}) /\ Moved(next)
    BY <1>0, <1>b, StabiliseBarrier, GoMoves, RootFiles DEF RepairBoot
  <1> QED BY <1>1, <1>2, <1>3, <1>4, <1>5

\* The steps that read with a barrier, and the ones that open the windows.
LEMMA OpeningWritings ==
    ASSUME TypeOK
    PROVE  /\ Lookup =>
                \/ vis' = vis /\ Barrier(Root \cup {"mark"}) /\ Moved(LookupNext)
                \/ vis' = vis /\ dur' = dur /\ Moved("fail")
           /\ Recover =>
                \/ /\ vis' = vis /\ Barrier(Root \cup {"mark"})
                   /\ Moved(IF RecoverNext = "refuse" THEN Failed ELSE RecoverNext)
                \/ vis' = vis /\ dur' = dur /\ Moved(Failed)
           /\ Open =>
                \/ vis' = Swept /\ Barrier(Root \cup {"mark", "win"}) /\ run' = NoRun
                \/ vis' = vis /\ dur' = dur /\ Moved("exit")
           /\ StageOpen =>
                \/ vis' = vis /\ dur' = dur /\ Moved("exit")
                \/ /\ vis.mark = NoReq /\ vis' = Swept /\ Barrier(Root \cup {"win"})
                   /\ Moved("staging") \/ Moved("stageIdle")
           /\ ReissueOpen =>
                /\ Moved("exit")
                /\ \/ vis' = vis /\ dur' = dur
                   \/ vis' = Swept /\ Barrier(Root \cup {"win"})
  <1>0. /\ {"fail", "exit", "staging", "stageIdle"} \subseteq Step /\ Failed \in Step /\ LookupNext \in Step
        /\ (IF RecoverNext = "refuse" THEN Failed ELSE RecoverNext) \in Step
        /\ dur \in Disk /\ Swept \in Disk
    BY FailedType, SweptFields DEF Step, LookupNext, RecoverNext, TypeOK
  <1>1. \A files \in SUBSET File : vis' = Swept /\ dur' = Synced(Swept, files) => Barrier(files)
    BY <1>0, SyncedBarrier
  <1>2. Lookup =>
                \/ vis' = vis /\ Barrier(Root \cup {"mark"}) /\ Moved(LookupNext)
                \/ vis' = vis /\ dur' = dur /\ Moved("fail")
    BY <1>0, StabiliseBarrier, GoMoves, RootFiles DEF Lookup, disk
  <1>3. Recover =>
                \/ /\ vis' = vis /\ Barrier(Root \cup {"mark"})
                   /\ Moved(IF RecoverNext = "refuse" THEN Failed ELSE RecoverNext)
                \/ vis' = vis /\ dur' = dur /\ Moved(Failed)
    <2> DEFINE next == IF RecoverNext = "refuse" THEN Failed ELSE RecoverNext
    <2>1. Recover => \/ Stabilise(Root \cup {"mark"}) /\ Go(next)
                     \/ vis' = vis /\ dur' = dur /\ Go(Failed)
      BY DEF Recover, disk
    <2>2. next \in Step
      BY <1>0
    <2> HIDE DEF next
    <2>3. Recover => \/ vis' = vis /\ Barrier(Root \cup {"mark"}) /\ Moved(next)
                     \/ vis' = vis /\ dur' = dur /\ Moved(Failed)
      BY <1>0, <2>1, <2>2, StabiliseBarrier, GoMoves, RootFiles
    <2> QED BY <2>3 DEF next
  <1>4. Open =>
                \/ vis' = Swept /\ Barrier(Root \cup {"mark", "win"}) /\ run' = NoRun
                \/ vis' = vis /\ dur' = dur /\ Moved("exit")
    BY <1>0, <1>1, GoMoves, RootFiles DEF Open, disk
  <1>5. StageOpen =>
                \/ vis' = vis /\ dur' = dur /\ Moved("exit")
                \/ /\ vis.mark = NoReq /\ vis' = Swept /\ Barrier(Root \cup {"win"})
                   /\ Moved("staging") \/ Moved("stageIdle")
    BY <1>0, <1>1, GoMoves, RootFiles DEF StageOpen, disk
  <1>6. ReissueOpen =>
                /\ Moved("exit")
                /\ \/ vis' = vis /\ dur' = dur
                   \/ vis' = Swept /\ Barrier(Root \cup {"win"})
    BY <1>0, <1>1, GoMoves, RootFiles DEF ReissueOpen, disk
  <1> QED BY <1>2, <1>3, <1>4, <1>5, <1>6

\* The window that is shown to the founder, and what else the staging may leave.
LEMMA StagingWriting ==
    ASSUME TypeOK, EnterStaging
    PROVE  /\ \A g \in File \ {"win"} : vis'[g] = vis[g]
           /\ \/ \E r \in Req \ used :
                   LET w == [gen |-> vis.gen, st |-> "Staging", req |-> r] IN
                   /\ vis'.win = w /\ Barrier({"win"}) /\ run' = NoRun /\ used' = used \cup {r}
                   /\ mem' = [mem EXCEPT !["cli"] = [up |-> "up", win |-> w, boot |-> "early", id |-> NoReq]]
              \/ /\ vis'.win \in {vis.win, [gen |-> vis.gen, st |-> "Staging", req |-> NoReq]}
                 /\ dur' = dur /\ Moved("exit") /\ UNCHANGED <<mem, used>>
  <1> DEFINE w(r) == [gen |-> vis.gen, st |-> "Staging", req |-> r]
             New(r) == [vis EXCEPT !.win = w(r)]
  <1>0. "exit" \in Step /\ {"win"} \in SUBSET File /\ dur \in Disk
    BY DEF Step, File, TypeOK
  <1>1. \A r \in Req \cup {NoReq} : New(r) \in Disk
    BY NewDisks, Windows
  <1>2. \A r \in Req \cup {NoReq} : But(New(r), vis, "win") /\ New(r).win = w(r)
    BY NewFields
  <1> HIDE DEF New
  <1>3. CASE \E r \in Req \ used :
               /\ vis' = New(r) /\ dur' = Synced(vis', {"win"}) /\ run' = NoRun /\ used' = used \cup {r}
               /\ mem' = [mem EXCEPT !["cli"] = [up |-> "up", win |-> w(r), boot |-> "early", id |-> NoReq]]
    <2>1. PICK r \in Req \ used :
               /\ vis' = New(r) /\ dur' = Synced(vis', {"win"}) /\ run' = NoRun /\ used' = used \cup {r}
               /\ mem' = [mem EXCEPT !["cli"] = [up |-> "up", win |-> w(r), boot |-> "early", id |-> NoReq]]
      BY <1>3
    <2>2. Barrier({"win"})
      <3>1. New(r) \in Disk
        BY <1>1
      <3>2. dur' = Synced(New(r), {"win"})
        BY <2>1
      <3> QED BY <1>0, <2>1, <3>1, <3>2, SyncedBarrier
    <2> QED BY <1>2, <2>1, <2>2 DEF But
  <1>4. CASE Go("exit") /\ dur' = dur /\ vis' \in {vis, New(NoReq)} /\ UNCHANGED <<mem, used>>
    <2>1. But(New(NoReq), vis, "win") /\ New(NoReq).win = w(NoReq)
      BY <1>2
    <2>2. \A g \in File \ {"win"} : vis'[g] = vis[g]
      BY <1>4, <2>1 DEF But
    <2>3. vis'.win \in {vis.win, w(NoReq)}
      BY <1>4, <2>1
    <2>4. Moved("exit")
      BY <1>0, <1>4, GoMoves
    <2> QED BY <1>4, <2>2, <2>3, <2>4
  <1> QED BY <1>3, <1>4 DEF EnterStaging, disk, New

\* The household is removed with its entry.
LEMMA RemovalWriting ==
    ASSUME TypeOK, TornRemove \/ TearRemove
    PROVE  /\ \A g \in File \ {"torn", "arts", "mark"} : vis'[g] = vis[g]
           /\ \/ /\ vis'.torn = FALSE /\ vis'.mark = NoReq /\ Barrier(Root \cup {"arts", "mark"})
                 /\ Moved(IF TornRemove THEN AfterTeardown ELSE "exit")
              \/ /\ dur' = dur
                 /\ Moved(Failed) \/ Moved("exit")
                 /\ \/ vis' = vis
                    \/ vis'.torn = FALSE /\ vis'.mark = NoReq
  <1> DEFINE files == Root \cup {"arts", "mark"}
             ok == IF TornRemove THEN AfterTeardown ELSE "exit"
  <1>0. /\ vis \in Disk /\ dur \in Disk /\ NoHousehold \in Disk /\ files \in SUBSET File
        /\ ok \in Step /\ Failed \in Step /\ "exit" \in Step
    BY NewDisks, RootFiles, FailedType DEF TypeOK, Step, AfterTeardown
  <1>1. /\ \A g \in File \ {"torn", "arts", "mark"} : NoHousehold[g] = vis[g]
        /\ NoHousehold.torn = FALSE /\ NoHousehold.mark = NoReq
    BY <1>0 DEF NoHousehold, File, Disk
  <1>2. \/ Write(NoHousehold, files, ok, Failed)
        \/ Write(NoHousehold, files, ok, "exit")
    BY DEF TornRemove, TearRemove
  <1> HIDE DEF ok, files
  <1>3. CASE vis' = NoHousehold /\ dur' = Synced(NoHousehold, files) /\ Go(ok)
    <2>1. Barrier(files)
      BY <1>0, <1>3, SyncedBarrier
    <2> QED BY <1>0, <1>1, <1>3, <2>1, GoMoves DEF ok, files
  <1>4. CASE (Go(Failed) \/ Go("exit")) /\ dur' = dur /\ (vis' = vis \/ vis' = NoHousehold)
    BY <1>0, <1>1, <1>4, GoMoves
  <1> QED BY <1>2, <1>3, <1>4 DEF Write, disk

-----------------------------------------------------------------------------
(* What may be visible and not durable.                                    *)

\* A step that leaves the marker, the state and the detachment as they seem, with a
\* barrier over all or none of the entries of the state root.
LEMMA LagKept ==
    ASSUME TypeOK, DiskInv, LagInv, vis' \in Disk, dur' \in Disk,
           vis'.mark = vis.mark, vis'.torn = vis.torn, vis'.boot = vis.boot,
           vis'.crumb = vis.crumb \/ Settled,
           NEW files \in SUBSET File, Root \subseteq files \/ Root \cap files = {},
           dur' = dur \/ Barrier(files)
    PROVE  LagInv'
  <1>0. vis \in Disk /\ dur \in Disk
    BY DEF TypeOK
  <1>1. vis.torn => vis.crumb = NoExp
    BY MixEnds DEF TypeOK, DiskInv, Good, CrumbOK
  <1>2. Settled => vis.mark = dur.mark /\ vis.torn = dur.torn /\ vis.boot = dur.boot
    BY DEF Settled, RootSynced, Root
  <1>3. CASE dur' = dur
    BY <1>2, <1>3 DEF LagInv
  <1>4. CASE Barrier(files) /\ Root \subseteq files
    <2>1. dur'.torn = vis.torn /\ dur'.boot = vis.boot /\ dur'.crumb = vis'.crumb
      BY <1>4 DEF Barrier, Root
    <2>2. dur'.mark = vis.mark \/ (dur'.mark = dur.mark /\ ~(dur.torn /\ ~vis.torn))
      BY <1>4 DEF Barrier, Root
    <2> QED BY <1>0, <1>1, <1>2, <2>1, <2>2, DiskTypes DEF LagInv
  <1>5. CASE Barrier(files) /\ Root \cap files = {}
    <2>1. dur'.torn = dur.torn /\ dur'.boot = dur.boot /\ dur'.crumb = dur.crumb
      BY <1>5 DEF Barrier, Root, File
    <2>2. dur'.mark = vis.mark \/ dur'.mark = dur.mark
      BY <1>5 DEF Barrier, Root
    <2> QED BY <1>0, <1>1, <1>2, <2>1, <2>2, DiskTypes DEF LagInv
  <1> QED BY <1>3, <1>4, <1>5

\* The same for a write of one file, and for a barrier over what is visible.
LEMMA LagWrote ==
    ASSUME TypeOK, DiskInv, LagInv, vis' \in Disk, dur' \in Disk,
           NEW f \in File \ {"mark", "torn", "boot"}, f # "crumb" \/ Settled, NEW x, NEW ok, NEW bad,
           NEW files \in SUBSET File, Root \subseteq files \/ Root \cap files = {},
           \/ Wrote(f, x, files, ok, bad)
           \/ /\ \A g \in File \ {f} : vis'[g] = vis[g]
              /\ dur' = dur \/ Barrier(files)
    PROVE  LagInv'
  <1>1. (\A g \in File \ {f} : vis'[g] = vis[g]) /\ (dur' = dur \/ Barrier(files))
    BY DEF Wrote
  <1>2. vis'.mark = vis.mark /\ vis'.torn = vis.torn /\ vis'.boot = vis.boot
    BY <1>1 DEF File
  <1>3. vis'.crumb = vis.crumb \/ Settled
    BY <1>1 DEF File
  <1> QED BY <1>1, <1>2, <1>3, LagKept

\* The steps whose writes cannot come between the marker, the state and the detachment.
LEMMA LagPlain ==
    ASSUME TypeOK, TypeOK', DiskInv, LagInv, StepInv,
           \/ TornRotate \/ TearRotate \/ StageArtifacts \/ PromoteArtifacts \/ PromoteWindow
           \/ Prepare \/ Rotate \/ Final \/ Clear \/ RollbackHouse \/ RollbackWindow \/ RollbackClear
           \/ StageIdle \/ EnterStaging \/ Begin \/ Deliver \/ Lookup \/ Recover
           \/ Open \/ StageOpen \/ ReissueOpen
    PROVE  LagInv'
  <1>0. /\ vis' \in Disk /\ dur' \in Disk
        /\ {"gen", "arts", "win", "term", "crumb", "deliv"} \subseteq File \ {"mark", "torn", "boot"}
        /\ {"arts"} \in SUBSET File /\ {"win"} \in SUBSET File /\ {"arts", "mark"} \in SUBSET File
        /\ Root \cap {"arts"} = {} /\ Root \cap {"win"} = {} /\ Root \cap {"arts", "mark"} = {}
        /\ Root \in SUBSET File /\ Root \cup {"mark"} \in SUBSET File /\ Root \cup {"win"} \in SUBSET File
        /\ Root \cup {"mark", "win"} \in SUBSET File
    BY DEF TypeOK, File, Root
  <1>1. CASE TornRotate \/ TearRotate \/ Rotate
    BY <1>0, <1>1, Writings, LagWrote
  <1>2. CASE StageArtifacts \/ PromoteArtifacts
    BY <1>0, <1>2, Writings, LagWrote
  <1>3. CASE PromoteWindow \/ StageIdle \/ RollbackWindow
    BY <1>0, <1>3, Writings, LagWrote
  <1>4. CASE Prepare \/ Final
    BY <1>0, <1>4, Writings, LagWrote
  <1>5. CASE Clear \/ RollbackClear
    <2>1. Settled
      BY <1>5 DEF Clear, RollbackClear, StepInv, Established
    <2> QED BY <1>0, <1>5, <2>1, Writings, LagWrote
  <1>6. CASE RollbackHouse
    <2>1. vis.mark = NoReq
      BY <1>6 DEF RollbackHouse, StepInv, Established
    <2> QED BY <1>0, <1>6, <2>1, Writings, LagWrote
  <1>7. CASE EnterStaging
    BY <1>0, <1>7, StagingWriting, LagWrote
  <1>8. CASE Begin
    <2>1. Settled
      BY <1>8 DEF Begin, StepInv, Established
    <2> QED BY <1>0, <1>8, <2>1, MixedWritings, LagWrote
  <1>9. CASE Deliver
    BY <1>0, <1>9, MixedWritings, LagWrote
  <1>10. CASE Lookup \/ Recover
    <2>1. vis' = vis /\ (dur' = dur \/ Barrier(Root \cup {"mark"}))
      BY <1>10, OpeningWritings
    <2> QED BY <1>0, <2>1, LagWrote
  <1>11. CASE Open \/ StageOpen \/ ReissueOpen
    <2>1. \A g \in File \ {"win"} : vis'[g] = vis[g]
      BY <1>11, OpeningWritings, SweptFields DEF But
    <2>2. dur' = dur \/ Barrier(Root \cup {"mark", "win"}) \/ Barrier(Root \cup {"win"})
      BY <1>11, OpeningWritings
    <2> QED BY <1>0, <2>1, <2>2, LagWrote
  <1> QED BY <1>1, <1>2, <1>3, <1>4, <1>5, <1>6, <1>7, <1>8, <1>9, <1>10, <1>11

\* The other writes come after a barrier.
LEMMA LagOrdered ==
    ASSUME TypeOK, TypeOK', DiskInv, LagInv, MemInv, StepInv,
           \/ TornBoot \/ TearBoot \/ TearRename \/ TornRemove \/ TearRemove \/ PromoteMarker
           \/ Ready \/ Signal \/ RepairBoot
    PROVE  LagInv'
  <1>0. /\ vis \in Disk /\ dur \in Disk /\ vis' \in Disk /\ dur' \in Disk
        /\ vis.torn \in BOOLEAN /\ dur.torn \in BOOLEAN
        /\ {"mark", "crumb", "torn", "boot"} \subseteq File /\ {"torn", "boot", "crumb"} \subseteq Root
        /\ "mark" \notin Root
    BY DEF TypeOK, Disk, File, Root
  <1>r. RootSynced => vis.torn = dur.torn /\ vis.boot = dur.boot /\ vis.crumb = dur.crumb
    BY DEF RootSynced, Root
  <1>b. ASSUME RootSynced, NEW x, NEW ok, NEW bad, Wrote("boot", x, Root, ok, bad),
               vis.torn \/ (vis.boot # "ready" /\ vis.mark = dur.mark)
        PROVE  LagInv'
    <2>1. /\ vis'.mark = vis.mark /\ vis'.crumb = vis.crumb /\ vis'.torn = vis.torn
          /\ \/ vis'.boot = x /\ dur'.boot = x
             \/ dur'.boot = dur.boot
      BY <1>0, <1>b DEF Wrote, Barrier
    <2>2. dur'.torn = vis.torn /\ dur'.mark = dur.mark
      <3>1. CASE dur' = dur
        BY <1>b, <1>r, <3>1
      <3>2. CASE Barrier(Root)
        BY <1>0, <1>b, <1>r, <2>1, <3>2 DEF Barrier
      <3> QED BY <1>b, <3>1, <3>2 DEF Wrote
    <2>3. vis.torn => vis.mark = dur.mark
      BY <1>b, <1>r DEF LagInv
    <2> QED BY <1>b, <1>r, <2>1, <2>2, <2>3 DEF LagInv
  <1>1. CASE TornBoot \/ TearBoot
    <2>1. RootSynced /\ vis.torn
      BY <1>1 DEF TornBoot, TearBoot, StepInv, Established
    <2> QED BY <1>1, <1>b, <2>1, Writings
  <1>2. CASE TearRename
    <2>1. /\ RootSynced /\ ~vis.torn /\ run.at = "tearRename"
          /\ mem["daemon"].up = "up" /\ mem["daemon"].boot = "ready" /\ mem["daemon"].id # NoReq
      BY <1>2 DEF TearRename, StepInv, Established
    <2>2. vis.boot = "ready" /\ dur.boot = "ready" /\ vis.mark = dur.mark
      BY <2>1 DEF MemInv, Tearing
    <2>3. Wrote("torn", TRUE, Root, "tearBoot", "exit")
      BY <1>2, Writings
    <2>4. /\ vis'.mark = vis.mark /\ vis'.boot = vis.boot
          /\ vis'.torn = vis.torn \/ vis'.torn = TRUE
      BY <1>0, <2>3 DEF Wrote
    <2>5. CASE dur' = dur
      BY <1>r, <2>1, <2>2, <2>4, <2>5 DEF LagInv
    <2>6. CASE Barrier(Root) /\ vis'.torn = TRUE
      <3>1. dur'.torn = TRUE /\ dur'.mark = dur.mark /\ dur'.boot = vis'.boot
        BY <1>0, <1>r, <2>1, <2>6 DEF Barrier
      <3> QED BY <2>2, <2>4, <2>6, <3>1 DEF LagInv
    <2> QED BY <2>3, <2>5, <2>6 DEF Wrote
  <1>3. CASE TornRemove \/ TearRemove
    <2>1. RootSynced /\ vis.torn /\ vis.boot = "early"
      BY <1>3 DEF TornRemove, TearRemove, StepInv, Established
    <2>2. vis.crumb = NoExp
      BY <2>1, MixEnds, TornNoCrumb DEF TypeOK
    <2>3. vis'.crumb = NoExp /\ vis'.boot = "early"
      BY <1>0, <1>3, <2>1, <2>2, RemovalWriting
    <2>4. CASE vis' = vis /\ dur' = dur
      BY <2>4 DEF LagInv
    <2>5. CASE vis'.torn = FALSE /\ vis'.mark = NoReq /\ dur' = dur
      BY <1>r, <2>1, <2>3, <2>5 DEF LagInv
    <2>6. CASE vis'.torn = FALSE /\ vis'.mark = NoReq /\ Barrier(Root \cup {"arts", "mark"})
      <3>1. dur'.torn = vis'.torn /\ dur'.mark = vis'.mark /\ dur'.boot = vis'.boot
        BY <1>0, <2>6 DEF Barrier
      <3> QED BY <2>3, <2>6, <3>1 DEF LagInv
    <2> QED BY <1>3, <2>4, <2>5, <2>6, RemovalWriting
  <1>4. CASE PromoteMarker
    <2>1. Settled /\ ~vis.torn /\ vis.mark = NoReq /\ vis.crumb # NoExp /\ vis.crumb.req = run.req
      BY <1>4 DEF PromoteMarker, StepInv, Established
    <2>2. Wrote("mark", run.req, {"mark"}, "recover", "recover")
      BY <1>4, Writings
    <2>3. /\ vis'.crumb = vis.crumb /\ vis'.boot = vis.boot /\ vis'.torn = vis.torn
          /\ vis'.mark \in {vis.mark, run.req}
      BY <1>0, <2>2 DEF Wrote
    <2>4. /\ dur'.torn = dur.torn /\ dur'.boot = dur.boot /\ dur'.crumb = dur.crumb
          /\ dur'.mark = dur.mark \/ dur'.mark = vis'.mark
      BY <1>0, <2>2 DEF Wrote, Barrier
    <2> QED BY <1>r, <2>1, <2>3, <2>4 DEF LagInv, Settled
  <1>5. CASE Ready
    <2>1. RootSynced /\ vis.mark = dur.mark
      BY <1>5 DEF Ready, StepInv, Established, Settled
    <2>2. (vis.boot = "restart" /\ Wrote("boot", "ready", Root, "publish", "fail")) \/ (vis' = vis /\ dur' = dur)
      BY <1>5, MixedWritings
    <2>3. vis' = vis /\ dur' = dur => LagInv'
      BY DEF LagInv
    <2> QED BY <1>b, <2>1, <2>2, <2>3
  <1>6. CASE Signal
    <2>1. RootSynced /\ vis.mark = dur.mark
      BY <1>6 DEF Signal, StepInv, Established, Settled
    <2>2. (vis.boot = "early" /\ Wrote("boot", "restart", Root, "signalled", "fail")) \/ (vis' = vis /\ dur' = dur)
      BY <1>6, MixedWritings
    <2>3. vis' = vis /\ dur' = dur => LagInv'
      BY DEF LagInv
    <2> QED BY <1>b, <2>1, <2>2, <2>3
  <1>7. CASE RepairBoot
    <2>1. RootSynced /\ vis.mark = dur.mark
      BY <1>7 DEF RepairBoot, StepInv, Established, Settled
    <2>2. PICK next \in {"open", "coldCheck"} :
            \/ vis.boot = "early" /\ Wrote("boot", "restart", Root, next, Failed)
            \/ vis' = vis /\ Barrier(Root \cup {"mark"})
      BY <1>7, MixedWritings
    <2>3. vis' = vis /\ Barrier(Root \cup {"mark"}) => LagInv'
      BY <1>0, LagKept, RootFiles
    <2> QED BY <1>b, <2>1, <2>2, <2>3
  <1> QED BY <1>1, <1>2, <1>3, <1>4, <1>5, <1>6, <1>7

\* The step in all its forms.
LEMMA NextLagInv ==
    ASSUME TypeOK, TypeOK', DiskInv, LagInv, MemInv, StepInv, Next
    PROVE  LagInv'
  <1>1. vis' = vis /\ dur' = dur => LagInv'
    BY DEF LagInv
  <1>2. Ack => LagInv'
    BY <1>1 DEF Ack, disk
  <1>3. Quiet => LagInv'
    BY <1>1 DEF Quiet
  <1>4. ASSUME PowerLoss PROVE LagInv'
    <2>1. dur' = vis' /\ vis' \in Disk
      BY <1>4, PowerLossFacts
    <2> QED BY <2>1 DEF LagInv
  <1> QED BY <1>2, <1>3, <1>4, NextSteps, QuietSteps, LagPlain, LagOrdered DEF LockHolder

-----------------------------------------------------------------------------
(* The windows that the processes hold.                                    *)

\* Most steps leave what the processes remember alone.
LEMMA MemSame ==
    ASSUME \/ TornRotate \/ TornBoot \/ Lookup \/ Deliver \/ Ready \/ Begin \/ StageArtifacts
           \/ PromoteArtifacts \/ PromoteWindow \/ PromoteMarker \/ Recover \/ Prepare \/ Rotate \/ Final
           \/ Clear \/ RollbackHouse \/ RollbackClear \/ Signal \/ RepairBoot \/ StageOpen \/ StageIdle
           \/ ReissueOpen \/ TearCheck \/ TearRotate \/ TearRename \/ TearBoot \/ TearRemove \/ Requests
    PROVE  mem' = mem
  <1>1. ASSUME Requests PROVE mem' = mem
    BY <1>1 DEF Requests, Finalize, StartDaemon, StartInstall, StageInstall, Reissue, LocalStage,
                Teardown, Acquire
  <1>2. ASSUME ~Requests PROVE mem' = mem
    BY <1>2 DEF Frame, TornRotate, TornBoot, Lookup, Deliver, Ready, Begin, StageArtifacts, PromoteArtifacts,
       PromoteWindow, PromoteMarker, Recover, Prepare, Rotate, Final, Clear, RollbackHouse, RollbackClear,
       Signal, RepairBoot, StageOpen, StageIdle, ReissueOpen, TearCheck, TearRotate, TearRename, TearBoot,
       TearRemove
  <1> QED BY <1>1, <1>2

\* Process q keeps what it has, or ends.
KeptOrDown(q) == mem'[q] = mem[q] \/ mem'[q] = Down

\* The steps that end a process, or only record how far it has come.
LEMMA MemEnds ==
    ASSUME TypeOK
    PROVE  /\ TornRemove \/ Ack \/ ColdCheck =>
                \A q \in Proc : mem'[q].win = mem[q].win
           /\ TornRemove =>
                \A q \in Proc : mem'[q] = mem[q] \/ (mem'[q].up = mem[q].up /\ mem'[q].id = NoReq)
           /\ Ack => \A q \in Proc : mem'[q].up = mem[q].up /\ mem'[q].id = mem[q].id
           /\ Ack => \A q \in Proc : mem'[q].boot \in {mem[q].boot, "ready"}
           /\ ColdCheck => mem'["daemon"] = mem["daemon"]
           /\ Signalled =>
                \A q \in Proc : \/ KeptOrDown(q)
                                \/ /\ mem'[q].win = mem[q].win /\ mem'[q].up = mem[q].up
                                   /\ mem'[q].id = mem[q].id /\ mem'[q].boot = "restart"
           /\ Finish => \A q \in Proc : KeptOrDown(q)
           /\ Finish /\ run.at = "exit" => mem'[run.p] = Down
           /\ StopInstall \/ RestartDaemon \/ PowerLoss => \A q \in Proc : KeptOrDown(q)
           /\ \A p \in Proc : Crash(p) => mem'[p] = Down /\ \A q \in Proc : KeptOrDown(q)
           /\ PowerLoss => \A q \in Proc : mem'[q] = Down
           /\ LocalStageTimeout =>
                /\ mem'["cli"] = mem["cli"]
                /\ mem'["daemon"].win.req = NoReq /\ mem'["daemon"].win.gen = mem["daemon"].win.gen
                /\ mem'["daemon"].up = mem["daemon"].up /\ mem'["daemon"].id = mem["daemon"].id
                /\ mem'["daemon"].boot = mem["daemon"].boot
           /\ RollbackWindow =>
                \A q \in Proc : /\ mem'[q].up = mem[q].up /\ mem'[q].id = mem[q].id /\ mem'[q].boot = mem[q].boot
                                /\ mem'[q].win = mem[q].win \/ mem'[q].win = IdleWindow(vis.gen)
  <1>0. mem \in [Proc -> Memory] /\ run.p \in Proc /\ "daemon" \in Proc /\ "cli" \in Proc
    BY Types DEF Proc
  <1>m. \A q \in Proc : mem[q] \in [up : {"down", "cold", "up"}, win : Window,
                                    boot : {"early", "restart", "ready"}, id : Req \cup {NoReq}]
    BY <1>0 DEF Memory
  <1>1. ASSUME TornRemove
        PROVE  \A q \in Proc : /\ mem'[q].win = mem[q].win
                               /\ mem'[q] = mem[q] \/ (mem'[q].up = mem[q].up /\ mem'[q].id = NoReq)
    <2>1. mem' = mem \/ mem' = [mem EXCEPT ![run.p].boot = "early", ![run.p].id = NoReq]
      BY <1>1 DEF TornRemove
    <2> QED BY <1>0, <1>m, <2>1
  <1>2. ASSUME Ack
        PROVE  \A q \in Proc : /\ mem'[q].win = mem[q].win /\ mem'[q].up = mem[q].up /\ mem'[q].id = mem[q].id
                               /\ mem'[q].boot \in {mem[q].boot, "ready"}
    <2>1. mem' = mem \/ mem' = [mem EXCEPT ![run.p].boot = "ready"]
      BY <1>2 DEF Ack
    <2> QED BY <1>0, <1>m, <2>1
  <1>3. ASSUME ColdCheck
        PROVE  mem'["daemon"] = mem["daemon"] /\ \A q \in Proc : mem'[q].win = mem[q].win
    <2>1. mem' = mem \/ mem' = [mem EXCEPT !["cli"].up = "cold"]
      BY <1>3 DEF ColdCheck
    <2> QED BY <1>0, <1>m, <2>1
  <1>4. ASSUME Signalled
        PROVE  \A q \in Proc : \/ KeptOrDown(q)
                               \/ /\ mem'[q].win = mem[q].win /\ mem'[q].up = mem[q].up
                                  /\ mem'[q].id = mem[q].id /\ mem'[q].boot = "restart"
    <2>1. mem' = [mem EXCEPT !["cli"] = Down] \/ mem' = [mem EXCEPT ![run.p].boot = "restart"]
      BY <1>4 DEF Signalled
    <2> QED BY <1>0, <1>m, <2>1 DEF KeptOrDown
  <1>5. ASSUME Finish
        PROVE  /\ \A q \in Proc : KeptOrDown(q)
               /\ run.at = "exit" => mem'[run.p] = Down
    BY <1>0, <1>5 DEF Finish, KeptOrDown
  <1>6. ASSUME StopInstall \/ RestartDaemon PROVE \A q \in Proc : KeptOrDown(q)
    BY <1>0, <1>6 DEF StopInstall, RestartDaemon, KeptOrDown
  <1>7. ASSUME PowerLoss PROVE \A q \in Proc : mem'[q] = Down /\ KeptOrDown(q)
    BY <1>7 DEF PowerLoss, KeptOrDown
  <1>8. \A p \in Proc : Crash(p) => mem'[p] = Down /\ \A q \in Proc : KeptOrDown(q)
    BY <1>0 DEF Crash, KeptOrDown
  <1>9. ASSUME LocalStageTimeout
        PROVE  /\ mem'["cli"] = mem["cli"]
               /\ mem'["daemon"].win.req = NoReq /\ mem'["daemon"].win.gen = mem["daemon"].win.gen
               /\ mem'["daemon"].up = mem["daemon"].up /\ mem'["daemon"].id = mem["daemon"].id
               /\ mem'["daemon"].boot = mem["daemon"].boot
    <2> DEFINE g == mem["daemon"].win.gen
    <2>1. PICK w \in {[gen |-> g, st |-> "Staging", req |-> NoReq], IdleWindow(g)} :
             mem' = [mem EXCEPT !["daemon"].win = w]
      BY <1>9 DEF LocalStageTimeout
    <2>2. w.req = NoReq /\ w.gen = g
      BY <2>1 DEF IdleWindow
    <2> HIDE DEF g
    <2>3. /\ mem'["cli"] = mem["cli"] /\ mem'["daemon"].win = w
          /\ mem'["daemon"].up = mem["daemon"].up /\ mem'["daemon"].id = mem["daemon"].id
          /\ mem'["daemon"].boot = mem["daemon"].boot
      BY <1>0, <1>m, <2>1
    <2> QED BY <2>2, <2>3 DEF g
  <1>10. ASSUME RollbackWindow
         PROVE  \A q \in Proc : /\ mem'[q].up = mem[q].up /\ mem'[q].id = mem[q].id /\ mem'[q].boot = mem[q].boot
                                /\ mem'[q].win = mem[q].win \/ mem'[q].win = IdleWindow(vis.gen)
    <2>1. mem' = mem \/ mem' = [mem EXCEPT ![run.p].win = IdleWindow(vis.gen)]
      BY <1>10 DEF RollbackWindow
    <2> QED BY <1>0, <1>m, <2>1
  <1> QED BY <1>1, <1>2, <1>3, <1>4, <1>5, <1>6, <1>7, <1>8, <1>9, <1>10

\* A process that ends forgets its window.
LEMMA DownFacts == Down.up = "down" /\ Down.win.req = NoReq /\ Down.win.gen = 0 /\ Down.id = NoReq
  BY DEF Down, IdleWindow

\* The windows in memory: kept, forgotten, closed, opened or staged.
LEMMA MemWindows ==
    ASSUME TypeOK, Next, ~EnterStaging, NEW q \in Proc
    PROVE  \/ mem'[q].win = mem[q].win
           \/ mem'[q].win.req = NoReq /\ mem'[q].win.gen \in {0, mem[q].win.gen}
           \/ RollbackWindow /\ mem'[q].win = IdleWindow(vis.gen)
           \/ Open /\ vis' = Swept /\ mem'[q].win = vis'.win
  <1>0. mem \in [Proc -> Memory] /\ Proc = {"daemon", "cli"}
    BY Types DEF Proc
  <1>1. mem' = mem => mem'[q].win = mem[q].win
    OBVIOUS
  <1>2. KeptOrDown(q) => \/ mem'[q].win = mem[q].win
                         \/ mem'[q].win.req = NoReq /\ mem'[q].win.gen = 0
    BY DownFacts DEF KeptOrDown
  <1>3. ASSUME Open PROVE mem'[q].win = mem[q].win \/ (vis' = Swept /\ mem'[q].win = vis'.win)
    <2>1. \/ mem' = mem
          \/ /\ vis' = Swept
             /\ mem' = [mem EXCEPT !["daemon"] = [up |-> "up", win |-> Swept.win, boot |-> vis.boot, id |-> vis.mark]]
      BY <1>3 DEF Open
    <2> QED BY <1>0, <2>1
  <1>4. TornRemove \/ Ack \/ ColdCheck \/ LocalStageTimeout \/ Signalled \/ Finish \/ StopInstall \/ RestartDaemon
        \/ PowerLoss \/ (\E p \in Proc : Crash(p)) =>
           \/ mem'[q].win = mem[q].win
           \/ mem'[q].win.req = NoReq /\ mem'[q].win.gen \in {0, mem[q].win.gen}
    BY <1>0, <1>2, MemEnds
  <1>5. RollbackWindow => mem'[q].win = mem[q].win \/ mem'[q].win = IdleWindow(vis.gen)
    BY MemEnds
  <1> QED BY <1>1, <1>3, <1>4, <1>5, NextSteps, MemSame DEF LockHolder

-----------------------------------------------------------------------------
(* A request is staged in one generation only.                             *)

\* The name a window or an expectation gives is one that was given before.
OldWindow(w) == w.req \in Req => Names(w.req, w.gen)
OldExp(e) == e.req \in Req => Names(e.req, e.g0)

\* What is on the disk and in memory, and what has been sent, gives old names.
LEMMA OldNames ==
    /\ OldWindow(vis.win) /\ OldWindow(dur.win)
    /\ \A q \in Proc : OldWindow(mem[q].win)
    /\ OldExp(vis.crumb) /\ OldExp(dur.crumb) /\ OldExp(vis.term.exp) /\ OldExp(dur.term.exp)
    /\ OldExp(vis.deliv) /\ OldExp(dur.deliv) /\ \A e \in sent : OldExp(e)
    /\ OldExp(NoExp) /\ \A w : w.req = NoReq => OldWindow(w)
  <1>1. NoReq \notin Req /\ NoExp.req = NoReq
    BY NoReqFacts
  <1> QED BY <1>1 DEF OldWindow, OldExp, Names, Proc

\* A step that gives no new name.
LEMMA NamesKept ==
    ASSUME TypeOK, WindowInv, used \subseteq used',
           \A g \in {"win", "crumb", "term", "deliv"} : dur'[g] \in {dur[g], vis'[g]},
           OldWindow(vis'.win), OldExp(vis'.crumb), OldExp(vis'.term.exp), OldExp(vis'.deliv),
           \A q \in Proc : OldWindow(mem'[q].win), \A e \in sent' : OldExp(e)
    PROVE  WindowInv'
  <1>1. OldWindow(dur'.win) /\ OldExp(dur'.crumb) /\ OldExp(dur'.term.exp) /\ OldExp(dur'.deliv)
    BY OldNames
  <1>2. \A r \in Req, g \in Nat : Names(r, g)' => Names(r, g)
    BY <1>1 DEF Names, OldWindow, OldExp, Proc
  <1> QED BY <1>2 DEF WindowInv

\* After a write of one file nothing else on the disk names anything new.
LEMMA WroteNames ==
    ASSUME NEW f \in File, NEW x, NEW files \in SUBSET File, NEW ok, NEW bad, Wrote(f, x, files, ok, bad)
    PROVE  /\ \A g \in {"win", "crumb", "term", "deliv"} : dur'[g] \in {dur[g], vis'[g]}
           /\ f # "win" => OldWindow(vis'.win)
           /\ f # "crumb" => OldExp(vis'.crumb)
           /\ f # "term" => OldExp(vis'.term.exp)
           /\ f # "deliv" => OldExp(vis'.deliv)
           /\ vis'[f] \in {vis[f], x}
  <1>1. {"win", "crumb", "term", "deliv"} \subseteq File \ {"arts", "mark"}
    BY DEF File
  <1>2. \A g \in {"win", "crumb", "term", "deliv"} : dur'[g] \in {dur[g], vis'[g]}
    BY <1>1 DEF Wrote, Barrier
  <1>3. \A g \in {"win", "crumb", "term", "deliv"} : g # f => vis'[g] = vis[g]
    BY <1>1 DEF Wrote
  <1> QED BY <1>2, <1>3, OldNames DEF Wrote

\* The steps that write one file, or read with a barrier.
LEMMA WriterNames ==
    ASSUME TypeOK, DiskInv, WindowInv, StepInv, Next,
           \/ TornRotate \/ TearRotate \/ TornBoot \/ TearBoot \/ TearRename \/ StageArtifacts
           \/ PromoteArtifacts \/ PromoteWindow \/ PromoteMarker \/ Prepare \/ Rotate \/ Final \/ Clear
           \/ RollbackHouse \/ RollbackWindow \/ RollbackClear \/ StageIdle
           \/ Deliver \/ Ready \/ Begin \/ Signal \/ RepairBoot
    PROVE  /\ \A g \in {"win", "crumb", "term", "deliv"} : dur'[g] \in {dur[g], vis'[g]}
           /\ OldWindow(vis'.win) /\ OldExp(vis'.crumb) /\ OldExp(vis'.term.exp) /\ OldExp(vis'.deliv)
  <1> DEFINE Goal == /\ \A g \in {"win", "crumb", "term", "deliv"} : dur'[g] \in {dur[g], vis'[g]}
                     /\ OldWindow(vis'.win) /\ OldExp(vis'.crumb) /\ OldExp(vis'.term.exp) /\ OldExp(vis'.deliv)
  <1>0. /\ {"gen", "boot", "torn", "arts", "win", "mark", "term", "crumb", "deliv"} \subseteq File
        /\ {"win", "crumb", "term", "deliv"} \subseteq File \ {"arts", "mark"}
        /\ IdleWindow(vis.gen).req = NoReq
    BY DEF File, IdleWindow
  <1>i. ASSUME vis' = vis, dur' = dur PROVE Goal
    BY <1>i, OldNames
  <1>b. ASSUME vis' = vis, NEW files \in SUBSET File, Barrier(files) PROVE Goal
    <2>1. \A g \in {"win", "crumb", "term", "deliv"} : dur'[g] \in {dur[g], vis'[g]}
      BY <1>0, <1>b DEF Barrier
    <2> QED BY <1>b, <2>1, OldNames
  <1>1. CASE TornRotate \/ TearRotate \/ Rotate
    BY <1>0, <1>1, Writings, WroteNames, RootFiles
  <1>2. CASE TornBoot \/ TearBoot
    BY <1>0, <1>2, Writings, WroteNames, RootFiles
  <1>3. CASE TearRename
    BY <1>0, <1>3, Writings, WroteNames, RootFiles
  <1>4. CASE StageArtifacts \/ PromoteArtifacts
    BY <1>0, <1>4, Writings, WroteNames, RootFiles
  <1>5. CASE RollbackHouse
    <2>1. vis.mark = NoReq
      BY <1>5 DEF RollbackHouse, StepInv, Established
    <2> QED BY <1>0, <1>5, <2>1, Writings, WroteNames, RootFiles
  <1>6. CASE PromoteMarker
    BY <1>0, <1>6, Writings, WroteNames, RootFiles
  <1>7. CASE PromoteWindow
    <2> DEFINE w == [gen |-> vis.gen, st |-> "Committed", req |-> run.req]
    <2>1. vis.crumb # NoExp /\ vis.mark = NoReq /\ vis.crumb.req = run.req
      BY <1>7 DEF PromoteWindow, StepInv, Established
    <2>2. vis \in Disk /\ Good(vis)
      BY MixEnds DEF TypeOK, DiskInv
    <2>3. vis.gen = vis.crumb.g0
      BY <2>1, <2>2, GoodCrumb DEF Good, CrumbOK
    <2>4. w.req = vis.crumb.req /\ w.gen = vis.crumb.g0
      BY <2>1, <2>3
    <2>5. Wrote("win", w, {"win"}, "marker", "recover")
      BY <1>7, Writings
    <2> HIDE DEF w
    <2>6. OldWindow(w)
      BY <2>4, OldNames DEF OldWindow, OldExp
    <2> QED BY <1>0, <2>5, <2>6, WroteNames, OldNames, RootFiles
  <1>8. CASE RollbackWindow \/ StageIdle
    <2>1. Wrote("win", IdleWindow(vis.gen), {"win"}, "rbClear", Failed)
          \/ Wrote("win", IdleWindow(vis.gen), {"win"}, "staging", "exit")
      BY <1>8, Writings
    <2>2. OldWindow(IdleWindow(vis.gen))
      BY <1>0, OldNames
    <2> QED BY <1>0, <2>1, <2>2, WroteNames, OldNames, RootFiles
  <1>9. CASE Prepare \/ Final
    <2> DEFINE p == [ph |-> "prepared", exp |-> vis.crumb]
               t == [ph |-> "final", exp |-> vis.term.exp]
    <2>1. Wrote("term", p, Root, "rotate", Failed) \/ Wrote("term", t, Root, "clear", Failed)
      BY <1>9, Writings
    <2>2. OldExp(p.exp) /\ OldExp(t.exp)
      BY OldNames
    <2> HIDE DEF p, t
    <2> QED BY <1>0, <2>1, <2>2, WroteNames, OldNames, RootFiles
  <1>10. CASE Clear
    <2>1. Wrote("crumb", NoExp, Root, IF run.op = "finalize" THEN "signal" ELSE "repair", Failed)
      BY <1>10, Writings
    <2> QED BY <1>0, <2>1, WroteNames, OldNames, RootFiles
  <1>11. CASE RollbackClear
    <2>1. Wrote("crumb", NoExp, Root, IF run.op = "finalize" THEN "fail" ELSE "repair", Failed)
      BY <1>11, Writings
    <2> QED BY <1>0, <2>1, WroteNames, OldNames, RootFiles
  <1>12. CASE Deliver
    <2>1. Wrote("deliv", vis.term.exp, Root, "ready", "fail") => Goal
      BY <1>0, WroteNames, OldNames, RootFiles
    <2> QED BY <1>12, <1>b, <2>1, MixedWritings, RootFiles
  <1>13. CASE Ready \/ Signal
    <2>1. Wrote("boot", "ready", Root, "publish", "fail") => Goal
      BY <1>0, WroteNames, RootFiles
    <2>2. Wrote("boot", "restart", Root, "signalled", "fail") => Goal
      BY <1>0, WroteNames, RootFiles
    <2> QED BY <1>13, <1>i, <2>1, <2>2, MixedWritings
  <1>14. CASE RepairBoot
    <2>1. PICK next \in {"open", "coldCheck"} :
            \/ Wrote("boot", "restart", Root, next, Failed)
            \/ vis' = vis /\ Barrier(Root \cup {"mark"})
      BY <1>14, MixedWritings
    <2>2. Wrote("boot", "restart", Root, next, Failed) => Goal
      BY <1>0, WroteNames, RootFiles
    <2> QED BY <1>b, <2>1, <2>2, RootFiles
  <1>15. CASE Begin
    <2> DEFINE c == [g0 |-> vis.gen, g1 |-> minted + 1, req |-> run.req]
    <2>1. run.p \in Proc /\ mem[run.p].win.req = run.req /\ mem[run.p].win.gen = vis.gen
      BY <1>15, Types DEF Begin, StepInv, Established, FirstAttemptAllowed
    <2>2. c.req = run.req /\ c.g0 = vis.gen
      OBVIOUS
    <2>3. \/ vis' = vis /\ Barrier(Root \cup {"mark"})
          \/ Wrote("crumb", c, Root, "artifacts", "recover")
      BY <1>15, MixedWritings
    <2> HIDE DEF c
    <2>4. OldExp(c)
      BY <2>1, <2>2, OldNames DEF OldExp, OldWindow
    <2>5. Wrote("crumb", c, Root, "artifacts", "recover") => Goal
      BY <1>0, <2>4, WroteNames, OldNames, RootFiles
    <2> QED BY <1>b, <2>3, <2>5, RootFiles
  <1> QED BY <1>1, <1>2, <1>3, <1>4, <1>5, <1>6, <1>7, <1>8, <1>9, <1>10, <1>11, <1>12, <1>13, <1>14, <1>15

\* A sweep names nothing new.
LEMMA SweepNames ==
    ASSUME TypeOK, vis' = Swept, NEW files \in SUBSET File, Barrier(files)
    PROVE  /\ \A g \in {"win", "crumb", "term", "deliv"} : dur'[g] \in {dur[g], vis'[g]}
           /\ OldWindow(vis'.win) /\ OldExp(vis'.crumb) /\ OldExp(vis'.term.exp) /\ OldExp(vis'.deliv)
  <1>1. {"win", "crumb", "term", "deliv"} \subseteq File \ {"arts", "mark"}
    BY DEF File
  <1>2. vis'.crumb = vis.crumb /\ vis'.term = vis.term /\ vis'.deliv = vis.deliv
    BY <1>1, SweptFields DEF But
  <1>3. vis'.win = vis.win \/ vis'.win.req = NoReq
    BY SweptFields DEF IdleWindow
  <1>4. \A g \in {"win", "crumb", "term", "deliv"} : dur'[g] \in {dur[g], vis'[g]}
    BY <1>1 DEF Barrier
  <1> QED BY <1>2, <1>3, <1>4, OldNames

\* The request of a new window has never been named.
LEMMA StagingNames ==
    ASSUME TypeOK, WindowInv, EnterStaging
    PROVE  WindowInv'
  <1>0. /\ {"crumb", "term", "deliv"} \subseteq File \ {"win", "arts", "mark"} /\ {"win"} \subseteq File
        /\ sent' = sent /\ vis.gen \in Nat /\ Proc = {"daemon", "cli"} /\ mem \in [Proc -> Memory]
    BY Types DEF File, EnterStaging, history, Disk, Proc
  <1>1. vis'.crumb = vis.crumb /\ vis'.term = vis.term /\ vis'.deliv = vis.deliv
    BY <1>0, StagingWriting
  <1>2. CASE /\ vis'.win \in {vis.win, [gen |-> vis.gen, st |-> "Staging", req |-> NoReq]}
             /\ dur' = dur /\ UNCHANGED <<mem, used>>
    <2>1. OldWindow(vis'.win)
      BY <1>2, OldNames
    <2> QED BY <1>0, <1>1, <1>2, <2>1, OldNames, NamesKept
  <1>3. ASSUME NEW r \in Req \ used,
               vis'.win = [gen |-> vis.gen, st |-> "Staging", req |-> r], Barrier({"win"}), used' = used \cup {r},
               mem' = [mem EXCEPT !["cli"] = [up |-> "up", win |-> [gen |-> vis.gen, st |-> "Staging", req |-> r],
                                              boot |-> "early", id |-> NoReq]]
        PROVE  WindowInv'
    <2>1. vis'.win.req = r /\ vis'.win.gen = vis.gen
      BY <1>3
    <2>2. mem'["daemon"].win = mem["daemon"].win /\ mem'["cli"].win = vis'.win
      BY <1>0, <1>3
    <2>3. dur'.win = vis'.win /\ dur'.crumb = dur.crumb /\ dur'.term = dur.term /\ dur'.deliv = dur.deliv
      BY <1>0, <1>3 DEF Barrier
    <2>4. \A g \in Nat : ~Names(r, g)
      BY <1>3 DEF WindowInv
    <2>5. ASSUME NEW s \in Req, NEW g \in Nat, Names(s, g)'
          PROVE  Names(s, g) \/ (s = r /\ g = vis.gen)
      BY <1>0, <1>1, <2>1, <2>2, <2>3, <2>5 DEF Names
    <2>6. ASSUME NEW s \in Req, NEW g \in Nat, Names(s, g)' PROVE s \in used'
      BY <1>3, <2>5, <2>6 DEF WindowInv
    <2>7. ASSUME NEW s \in Req, NEW g \in Nat, Names(s, g)', NEW h \in Nat, Names(s, h)' PROVE g = h
      <3>1. (Names(s, g) \/ (s = r /\ g = vis.gen)) /\ (Names(s, h) \/ (s = r /\ h = vis.gen))
        BY <2>5, <2>7
      <3> QED BY <2>4, <3>1 DEF WindowInv
    <2> QED BY <2>6, <2>7 DEF WindowInv
  <1> QED BY <1>2, <1>3, StagingWriting

\* What no step takes back.
LEMMA Histories ==
    ASSUME TypeOK, Next
    PROVE  /\ ~EnterStaging => used' = used
           /\ ~Ack => sent' = sent
           /\ ~ReissueOpen => foreign' = foreign
           /\ ~(Recover \/ Open) => refused' = refused
           /\ ~(TornRotate \/ TearRotate \/ Begin) => minted' = minted
           /\ minted' \in Nat /\ minted <= minted'
  <1>0. minted \in Nat
    BY DEF TypeOK
  <1>1. Requests => UNCHANGED <<used, sent, foreign, refused, minted>>
    BY DEF Requests, Finalize, StartDaemon, StartInstall, StageInstall, Reissue, LocalStage, Teardown,
           Acquire, history
  <1>2. TornRotate \/ TearRotate \/ Begin => UNCHANGED <<used, sent, foreign, refused>> /\ minted' \in {minted, minted + 1}
    BY DEF TornRotate, TearRotate, Begin, NextGeneration, Frame, history
  <1>3. Ack => UNCHANGED <<used, foreign, refused, minted>>
    BY DEF Ack
  <1>4. Recover \/ Open => UNCHANGED <<used, sent, foreign, minted>>
    BY DEF Recover, Open
  <1>5. ReissueOpen => UNCHANGED <<used, sent, refused, minted>>
    BY DEF ReissueOpen
  <1>6. EnterStaging => UNCHANGED <<sent, foreign, refused, minted>>
    BY DEF EnterStaging, history
  <1>7. ASSUME \/ TornBoot \/ TornRemove \/ Lookup \/ Deliver \/ Ready \/ StageArtifacts \/ PromoteArtifacts
               \/ PromoteWindow \/ PromoteMarker \/ Prepare \/ Rotate \/ Final \/ Clear \/ RollbackHouse
               \/ RollbackWindow \/ RollbackClear
        PROVE  UNCHANGED <<used, sent, foreign, refused, minted>>
    BY <1>7 DEF TornBoot, TornRemove, Lookup, Deliver, Ready, StageArtifacts, PromoteArtifacts, PromoteWindow,
       PromoteMarker, Prepare, Rotate, Final, Clear, RollbackHouse, RollbackWindow, RollbackClear, Frame, history
  <1>8. ASSUME \/ Signal \/ Signalled \/ RepairBoot \/ ColdCheck \/ StageOpen \/ StageIdle \/ LocalStageTimeout
               \/ TearCheck \/ TearRename \/ TearBoot \/ TearRemove \/ Finish \/ StopInstall \/ RestartDaemon
               \/ PowerLoss \/ (\E p \in Proc : Crash(p))
        PROVE  UNCHANGED <<used, sent, foreign, refused, minted>>
    BY <1>8 DEF Signal, Signalled, RepairBoot, ColdCheck, StageOpen, StageIdle, LocalStageTimeout, TearCheck,
       TearRename, TearBoot, TearRemove, Finish, StopInstall, RestartDaemon, PowerLoss, Crash, Frame, history
  <1> DEFINE Kept == UNCHANGED <<used, sent, foreign, refused, minted>>
  <1>9. Kept \/ TornRotate \/ TearRotate \/ Begin \/ Ack \/ Recover \/ Open \/ ReissueOpen \/ EnterStaging
    BY <1>1, <1>7, <1>8, NextSteps DEF LockHolder
  <1> QED BY <1>0, <1>2, <1>3, <1>4, <1>5, <1>6, <1>9

\* The step in all its forms.
LEMMA NextWindowInv ==
    ASSUME TypeOK, TypeOK', DiskInv, WindowInv, StepInv, Next
    PROVE  WindowInv'
  <1> DEFINE Goal == /\ \A g \in {"win", "crumb", "term", "deliv"} : dur'[g] \in {dur[g], vis'[g]}
                     /\ OldWindow(vis'.win) /\ OldExp(vis'.crumb) /\ OldExp(vis'.term.exp) /\ OldExp(vis'.deliv)
  <1>1. CASE EnterStaging
    BY <1>1, StagingNames
  <1>2. CASE ~EnterStaging
    <2>0. {"win", "crumb", "term", "deliv"} \subseteq File \ {"arts", "mark"}
      BY DEF File
    <2>1. vis' = vis /\ dur' = dur => Goal
      BY OldNames
    <2>2. Lookup \/ Recover => Goal
      <3>1. \A files \in SUBSET File : vis' = vis /\ Barrier(files) => Goal
        BY <2>0, OldNames DEF Barrier
      <3> QED BY <2>1, <3>1, OpeningWritings, RootFiles
    <2>3. Open \/ StageOpen \/ ReissueOpen => Goal
      BY <2>1, OpeningWritings, SweepNames, RootFiles
    <2>4. ASSUME TornRemove \/ TearRemove PROVE Goal
      <3>1. vis'.win = vis.win /\ vis'.crumb = vis.crumb /\ vis'.term = vis.term /\ vis'.deliv = vis.deliv
        BY <2>0, <2>4, RemovalWriting DEF File
      <3>2. \A g \in {"win", "crumb", "term", "deliv"} : dur'[g] \in {dur[g], vis'[g]}
        BY <2>0, <2>4, RemovalWriting DEF Barrier, Root
      <3> QED BY <3>1, <3>2, OldNames
    <2>5. ASSUME PowerLoss PROVE Goal
      <3>1. dur' = vis' /\ vis' \in Disk /\ IsMix(vis')
        BY <2>5, PowerLossFacts
      <3>2. /\ vis'.win \in {vis.win, dur.win} /\ vis'.crumb \in {vis.crumb, dur.crumb}
            /\ vis'.term \in {vis.term, dur.term} /\ vis'.deliv \in {vis.deliv, dur.deliv}
        BY <3>1, MixFields
      <3> QED BY <3>1, <3>2, OldNames
    <2>6. Quiet \/ Ack => Goal
      BY <2>1 DEF Quiet, Ack, disk
    <2>7. Goal
      BY <1>2, <2>2, <2>3, <2>4, <2>5, <2>6, NextSteps, QuietSteps, WriterNames DEF LockHolder
    <2>8. \A q \in Proc : OldWindow(mem'[q].win)
      <3>1. IdleWindow(vis.gen).req = NoReq
        BY DEF IdleWindow
      <3> QED BY <1>2, <2>7, <3>1, MemWindows, OldNames
    <2>9. \A e \in sent' : OldExp(e)
      <3>1. sent' = sent \/ sent' = sent \cup {vis.term.exp}
        BY Histories DEF Ack
      <3> QED BY <3>1, OldNames
    <2>10. used' = used
      BY <1>2, Histories
    <2> QED BY <2>7, <2>8, <2>9, <2>10, NamesKept
  <1> QED BY <1>1, <1>2

-----------------------------------------------------------------------------
(* One Ack follows the other.                                              *)

\* An Ack that is new is later than those before.
LEMMA NextSentInv ==
    ASSUME TypeOK, DiskInv, SentInv, StepInv, Next
    PROVE  SentInv'
  <1>1. \A e \in Exp : Begun(e) => Begun(e)'
    <2>1. minted \in Nat /\ minted' \in Nat /\ minted <= minted'
      BY Histories DEF TypeOK
    <2> QED BY <2>1 DEF Begun, Exp
  <1>2. sent \subseteq Exp /\ vis \in Disk /\ vis.term.exp \in Exp
    BY DEF TypeOK, Disk
  <1>3. CASE sent' = sent
    BY <1>1, <1>2, <1>3 DEF SentInv
  <1>4. CASE Ack
    <2> DEFINE x == vis.term.exp
    <2>1. sent' = sent \cup {x} /\ vis.term.ph = "final"
      BY <1>4 DEF Ack, StepInv, Established, active_terminal_result
    <2>2. Begun(x) /\ \A e \in sent : e = x \/ e.g1 <= x.g0
      BY <1>2, <2>1, MixEnds DEF DiskInv, Good, GensOK
    <2> QED BY <1>1, <1>2, <2>1, <2>2 DEF SentInv
  <1> QED BY <1>3, <1>4, Histories

-----------------------------------------------------------------------------
(* What the processes remember.                                            *)

\* The windows in memory, and the daemon's household.
WindowsRemembered ==
    \A p \in Proc :
        /\ mem[p].win.gen <= minted
        /\ vis.crumb # NoExp => mem[p].win.gen < vis.crumb.g1
        /\ mem[p].win.gen = vis.gen /\ active_terminal_result => vis.boot # "early"
HouseRemembered ==
    /\ mem["daemon"].up = "up" /\ vis.torn => Tearing
    /\ mem["daemon"].up = "up" /\ mem["daemon"].id # NoReq /\ ~Tearing =>
        \A d \in {vis, dur} :
            /\ d.mark = mem["daemon"].id /\ ~d.torn
            /\ mem["daemon"].boot = "ready" => d.boot = "ready"

\* The two parts.
LEMMA MemParts ==
    /\ MemInv <=> WindowsRemembered /\ HouseRemembered
    /\ MemInv' <=> WindowsRemembered' /\ HouseRemembered'
  BY DEF MemInv, WindowsRemembered, HouseRemembered

\* A household that is there stays, in this step.
HouseKept ==
    /\ vis'.torn => vis.torn
    /\ ~vis.torn /\ vis.mark # NoReq => vis'.mark = vis.mark /\ (vis.boot = "ready" => vis'.boot = "ready")
    /\ \A g \in {"mark", "torn", "boot", "crumb"} : dur'[g] \in {dur[g], vis'[g]}

\* What a detached household may still become.
HouseMoved ==
    /\ vis'.mark = vis.mark \/ PromoteMarker \/ (vis.torn /\ RootSynced)
    /\ vis.torn /\ ~vis'.torn => vis'.mark = NoReq
    /\ vis.torn /\ ~RootSynced => vis'.boot = vis.boot
    /\ dur.torn /\ ~dur'.torn => dur'.mark = vis'.mark

\* A write of one file.
LEMMA WroteHouse ==
    ASSUME NEW f \in File, NEW x, NEW files \in SUBSET File, NEW ok, NEW bad, Wrote(f, x, files, ok, bad)
    PROVE  /\ \A g \in {"mark", "torn", "boot", "crumb"} : dur'[g] \in {dur[g], vis'[g]}
           /\ dur.torn /\ ~dur'.torn => dur'.mark = vis'.mark
           /\ f # "mark" => vis'.mark = vis.mark
           /\ f # "torn" => vis'.torn = vis.torn
           /\ f # "boot" => vis'.boot = vis.boot
           /\ vis'[f] \in {vis[f], x}
           /\ f \notin {"mark", "torn", "boot"} => HouseKept /\ HouseMoved
  <1>1. {"mark", "torn", "boot", "crumb"} \subseteq File
    BY DEF File
  <1>2. \A g \in {"mark", "torn", "boot", "crumb"} : dur'[g] \in {dur[g], vis'[g]}
    BY <1>1 DEF Wrote, Barrier
  <1>3. \A g \in {"mark", "torn", "boot"} : g # f => vis'[g] = vis[g]
    BY <1>1 DEF Wrote
  <1>4. dur.torn /\ ~dur'.torn => dur'.mark = vis'.mark
    BY <1>1 DEF Wrote, Barrier
  <1> QED BY <1>2, <1>3, <1>4 DEF Wrote, HouseKept, HouseMoved

\* A barrier, with nothing of the household written.
LEMMA BarrierHouse ==
    ASSUME NEW files \in SUBSET File, dur' = dur \/ Barrier(files),
           vis'.mark = vis.mark, vis'.torn = vis.torn, vis'.boot = vis.boot
    PROVE  HouseKept /\ HouseMoved
  <1>1. {"mark", "torn", "boot", "crumb"} \subseteq File
    BY DEF File
  <1>2. \A g \in {"mark", "torn", "boot", "crumb"} : dur'[g] \in {dur[g], vis'[g]}
    BY <1>1 DEF Barrier
  <1>3. dur.torn /\ ~dur'.torn => dur'.mark = vis'.mark
    BY <1>1 DEF Barrier
  <1> QED BY <1>2, <1>3 DEF HouseKept, HouseMoved

\* Only the detachment and a power loss take a household away.
LEMMA HouseSteps ==
    ASSUME TypeOK, StepInv, Next, ~TearRename, ~PowerLoss
    PROVE  HouseKept /\ HouseMoved
  <1>0. /\ {"gen", "boot", "torn", "arts", "win", "mark", "term", "crumb", "deliv"} \subseteq File
        /\ {"arts"} \in SUBSET File /\ {"win"} \in SUBSET File /\ {"arts", "mark"} \in SUBSET File
        /\ {"mark"} \in SUBSET File
        /\ {} \in SUBSET File
    BY DEF File
  <1>t. Ready \/ Signal \/ RepairBoot \/ PromoteMarker => ~vis.torn
    BY DEF Ready, Signal, RepairBoot, PromoteMarker, StepInv, Established
  <1>i. vis' = vis /\ dur' = dur => HouseKept /\ HouseMoved
    BY <1>0, BarrierHouse
  <1>1. CASE \/ TornRotate \/ TearRotate \/ Rotate \/ StageArtifacts \/ PromoteArtifacts \/ PromoteWindow
             \/ RollbackWindow \/ StageIdle \/ Prepare \/ Final
    BY <1>0, <1>1, Writings, WroteHouse, RootFiles
  <1>2. CASE Clear \/ RollbackClear
    BY <1>0, <1>2, Writings, WroteHouse, RootFiles
  <1>3. CASE TornBoot \/ TearBoot
    <2>1. vis.torn /\ RootSynced
      BY <1>3 DEF TornBoot, TearBoot, StepInv, Established
    <2> QED BY <1>0, <1>3, <2>1, Writings, WroteHouse, RootFiles DEF HouseKept, HouseMoved
  <1>4. CASE PromoteMarker
    <2>1. vis.mark = NoReq
      BY <1>4 DEF PromoteMarker, StepInv, Established
    <2> QED BY <1>0, <1>t, <1>4, <2>1, Writings, WroteHouse, RootFiles DEF HouseKept, HouseMoved
  <1>5. CASE RollbackHouse
    <2>1. vis.mark = NoReq
      BY <1>5 DEF RollbackHouse, StepInv, Established
    <2> QED BY <1>0, <1>5, <2>1, Writings, WroteHouse, RootFiles
  <1>6. CASE Deliver
    <2>1. Wrote("deliv", vis.term.exp, Root, "ready", "fail") => HouseKept /\ HouseMoved
      BY <1>0, WroteHouse, RootFiles
    <2>2. vis' = vis /\ Barrier(Root) => HouseKept /\ HouseMoved
      BY BarrierHouse, RootFiles
    <2> QED BY <1>6, <2>1, <2>2, MixedWritings
  <1>7. CASE Ready
    <2>1. Wrote("boot", "ready", Root, "publish", "fail") => HouseKept /\ HouseMoved
      BY <1>0, <1>t, <1>7, WroteHouse, RootFiles DEF HouseKept, HouseMoved
    <2> QED BY <1>7, <1>i, <2>1, MixedWritings
  <1>8. CASE Signal
    <2>1. vis.boot = "early" /\ Wrote("boot", "restart", Root, "signalled", "fail") => HouseKept /\ HouseMoved
      BY <1>0, <1>t, <1>8, WroteHouse, RootFiles DEF HouseKept, HouseMoved
    <2> QED BY <1>8, <1>i, <2>1, MixedWritings
  <1>9. CASE RepairBoot
    <2>1. PICK next \in {"open", "coldCheck"} :
            \/ vis.boot = "early" /\ Wrote("boot", "restart", Root, next, Failed)
            \/ vis' = vis /\ Barrier(Root \cup {"mark"})
      BY <1>9, MixedWritings
    <2>2. vis.boot = "early" /\ Wrote("boot", "restart", Root, next, Failed) => HouseKept /\ HouseMoved
      BY <1>0, <1>t, <1>9, WroteHouse, RootFiles DEF HouseKept, HouseMoved
    <2>3. vis' = vis /\ Barrier(Root \cup {"mark"}) => HouseKept /\ HouseMoved
      BY BarrierHouse, RootFiles
    <2> QED BY <2>1, <2>2, <2>3
  <1>10. CASE Begin
    <2> DEFINE c == [g0 |-> vis.gen, g1 |-> minted + 1, req |-> run.req]
    <2>1. (vis' = vis /\ Barrier(Root \cup {"mark"})) \/ Wrote("crumb", c, Root, "artifacts", "recover")
      BY <1>10, MixedWritings
    <2> HIDE DEF c
    <2>2. Wrote("crumb", c, Root, "artifacts", "recover") => HouseKept /\ HouseMoved
      BY <1>0, WroteHouse, RootFiles
    <2>3. vis' = vis /\ Barrier(Root \cup {"mark"}) => HouseKept /\ HouseMoved
      BY BarrierHouse, RootFiles
    <2> QED BY <2>1, <2>2, <2>3
  <1>11. CASE Lookup \/ Recover
    <2>1. vis' = vis /\ (dur' = dur \/ Barrier(Root \cup {"mark"}))
      BY <1>11, OpeningWritings
    <2> QED BY <2>1, BarrierHouse, RootFiles
  <1>12. CASE Open \/ StageOpen \/ ReissueOpen
    <2>1. vis'.mark = vis.mark /\ vis'.torn = vis.torn /\ vis'.boot = vis.boot
      BY <1>0, <1>12, OpeningWritings, SweptFields DEF But
    <2>2. dur' = dur \/ Barrier(Root \cup {"mark", "win"}) \/ Barrier(Root \cup {"win"})
      BY <1>12, OpeningWritings
    <2> QED BY <2>1, <2>2, BarrierHouse, RootFiles
  <1>13. CASE EnterStaging
    <2>1. vis'.mark = vis.mark /\ vis'.torn = vis.torn /\ vis'.boot = vis.boot
      BY <1>0, <1>13, StagingWriting
    <2>2. dur' = dur \/ Barrier({"win"})
      BY <1>13, StagingWriting
    <2> QED BY <1>0, <2>1, <2>2, BarrierHouse
  <1>14. CASE TornRemove \/ TearRemove
    <2>1. vis.torn /\ RootSynced
      BY <1>14 DEF TornRemove, TearRemove, StepInv, Established
    <2>2. dur' = dur \/ Barrier(Root \cup {"arts", "mark"})
      BY <1>14, RemovalWriting
    <2>3. \A g \in {"mark", "torn", "boot", "crumb"} : dur'[g] \in {dur[g], vis'[g]}
      BY <1>0, <2>2 DEF Barrier
    <2>4. vis' = vis \/ vis'.mark = NoReq
      BY <1>14, RemovalWriting
    <2>5. dur.torn /\ ~dur'.torn => dur'.mark = vis'.mark
      BY <1>0, <2>2 DEF Barrier
    <2> QED BY <2>1, <2>3, <2>4, <2>5 DEF HouseKept, HouseMoved
  <1>15. Quiet \/ Ack => HouseKept /\ HouseMoved
    BY <1>i DEF Quiet, Ack, disk
  <1> QED BY <1>1, <1>2, <1>3, <1>4, <1>5, <1>6, <1>7, <1>8, <1>9, <1>10, <1>11, <1>12, <1>13, <1>14, <1>15,
             NextSteps, QuietSteps DEF LockHolder

\* A daemon that tears its household down goes on until it ends.
LEMMA TearingSteps ==
    ASSUME TypeOK, StepInv, Next, Tearing
    PROVE  Tearing' \/ mem'["daemon"].up # "up"
  <1>0. run.p = "daemon" /\ run.op = "teardown" /\ run.at \in {"tearBoot", "tearRemove", "exit"}
        /\ "daemon" \in Proc
    BY DEF StepInv, Established, Tearing, Proc
  <1>1. CASE TearBoot
    BY <1>0, <1>1, Writings DEF Wrote, Moved, Tearing
  <1>2. CASE TearRemove
    <2>1. Go("exit") /\ "exit" \in Step
      BY <1>2 DEF TearRemove, Write, Step
    <2> QED BY <1>0, <2>1, GoMoves DEF Moved, Tearing
  <1>3. CASE Finish
    <2>1. run.at = "exit"
      BY <1>0, <1>3 DEF Finish
    <2> QED BY <1>0, <1>3, <2>1, MemEnds, DownFacts
  <1>4. CASE \E p \in Proc : Crash(p)
    <2>1. PICK p \in Proc : Crash(p)
      BY <1>4
    <2>2. CASE p = "daemon"
      BY <2>1, <2>2, MemEnds, DownFacts
    <2>3. CASE p # "daemon"
      BY <1>0, <2>1, <2>3 DEF Crash, Tearing
    <2> QED BY <2>2, <2>3
  <1>5. CASE PowerLoss
    BY <1>0, <1>5, MemEnds, DownFacts
  <1>6. CASE StopInstall
    BY <1>0, <1>6 DEF StopInstall, Tearing
  <1>7. CASE Requests \/ RestartDaemon
    <2>1. run.at = "none"
      BY <1>7 DEF Requests, Finalize, StartDaemon, StartInstall, StageInstall, Reissue, LocalStage, Teardown,
                  Acquire, RestartDaemon, NoRun
    <2> QED BY <1>0, <2>1
  <1>8. ASSUME LockHolder, ~TearBoot, ~TearRemove, ~Finish PROVE FALSE
    BY <1>0, <1>8 DEF LockHolder, TornRotate, TornBoot, TornRemove, Lookup, Deliver, Ready, Ack, Begin,
       StageArtifacts, PromoteArtifacts, PromoteWindow, PromoteMarker, Recover, Prepare, Rotate, Final, Clear,
       RollbackHouse, RollbackWindow, RollbackClear, Signal, Signalled, RepairBoot, Open, ColdCheck, StageOpen,
       StageIdle, EnterStaging, LocalStageTimeout, ReissueOpen, TearCheck, TearRotate, TearRename
  <1> QED BY <1>1, <1>2, <1>3, <1>4, <1>5, <1>6, <1>7, <1>8, NextSteps

\* The daemon learns of a household only when it opens one.
LEMMA DaemonSteps ==
    ASSUME TypeOK, Next, ~Open, mem'["daemon"].up = "up", mem'["daemon"].id # NoReq
    PROVE  /\ mem["daemon"].up = "up" /\ mem'["daemon"].id = mem["daemon"].id
           /\ mem'["daemon"].boot = "ready" => mem["daemon"].boot = "ready" \/ Ack
  <1>0. "daemon" \in Proc /\ mem \in [Proc -> Memory]
    BY Types DEF Proc
  <1>1. mem'["daemon"] = mem["daemon"] => mem["daemon"].up = "up" /\ mem'["daemon"].id = mem["daemon"].id
    OBVIOUS
  <1>2. mem'["daemon"] # Down
    BY DownFacts
  <1>3. EnterStaging => mem'["daemon"] = mem["daemon"]
    BY <1>0, StagingWriting
  <1>4. Finish \/ StopInstall \/ RestartDaemon \/ PowerLoss \/ (\E p \in Proc : Crash(p)) =>
           mem'["daemon"] = mem["daemon"]
    BY <1>0, <1>2, MemEnds DEF KeptOrDown
  <1> QED BY <1>0, <1>1, <1>2, <1>3, <1>4, MemEnds, MemSame, NextSteps DEF LockHolder, KeptOrDown

\* The same for its being up.
LEMMA DaemonUp ==
    ASSUME TypeOK, Next, ~Open, mem'["daemon"].up = "up"
    PROVE  mem["daemon"].up = "up"
  <1>0. "daemon" \in Proc /\ mem \in [Proc -> Memory]
    BY Types DEF Proc
  <1>2. mem'["daemon"] # Down
    BY DownFacts
  <1>3. EnterStaging => mem'["daemon"] = mem["daemon"]
    BY <1>0, StagingWriting
  <1>4. Finish \/ StopInstall \/ RestartDaemon \/ PowerLoss \/ (\E p \in Proc : Crash(p)) =>
           mem'["daemon"] = mem["daemon"]
    BY <1>0, <1>2, MemEnds DEF KeptOrDown
  <1> QED BY <1>0, <1>2, <1>3, <1>4, MemEnds, MemSame, NextSteps DEF LockHolder, KeptOrDown

\* The daemon's household, over every step.
LEMMA NextHouse ==
    ASSUME TypeOK, TypeOK', MemInv, StepInv, Next
    PROVE  HouseRemembered'
  <1>0. /\ "daemon" \in Proc /\ mem \in [Proc -> Memory] /\ vis' \in Disk /\ dur' \in Disk
        /\ vis.torn \in BOOLEAN /\ vis'.torn \in BOOLEAN /\ dur.torn \in BOOLEAN /\ HouseRemembered
    BY Types, MemParts DEF Proc, TypeOK, Disk
  <1>1. CASE Open
    <2>1. Settled /\ ~vis.torn
      BY <1>1 DEF Open, StepInv, Established
    <2>2. CASE mem' = mem /\ vis' = vis /\ dur' = dur
      BY <1>0, <2>1, <2>2, TearingSteps DEF HouseRemembered
    <2>3. CASE /\ vis' = Swept /\ dur' = Synced(Swept, Root \cup {"mark", "win"})
               /\ mem' = [mem EXCEPT !["daemon"] = [up |-> "up", win |-> Swept.win, boot |-> vis.boot, id |-> vis.mark]]
      <3>1. mem'["daemon"].id = vis.mark /\ mem'["daemon"].boot = vis.boot
        BY <1>0, <2>3
      <3>2. Barrier(Root \cup {"mark", "win"})
        BY <2>3, SyncedBarrier, SweptFields, RootFiles DEF TypeOK
      <3>3. vis'.mark = vis.mark /\ vis'.torn = vis.torn /\ vis'.boot = vis.boot
        BY <2>3, SweptFields DEF But, File
      <3>4. dur'.mark = vis.mark /\ dur'.torn = vis.torn /\ dur'.boot = vis.boot
        BY <3>2, <3>3 DEF Barrier, Root
      <3> QED BY <2>1, <3>1, <3>3, <3>4 DEF HouseRemembered
    <2> QED BY <1>1, <2>2, <2>3 DEF Open, disk
  <1>2. CASE TearRename
    <2>1. run.op = "teardown"
      BY <1>2 DEF TearRename, StepInv, Established
    <2>2. Tearing'
      BY <1>2, <2>1, Writings DEF Wrote, Moved, Tearing
    <2> QED BY <2>2 DEF HouseRemembered
  <1>3. CASE PowerLoss
    BY <1>0, <1>3, MemEnds, DownFacts DEF HouseRemembered
  <1>4. CASE ~Open /\ ~TearRename /\ ~PowerLoss
    <2>1. HouseKept
      BY <1>4, HouseSteps
    <2>2. mem'["daemon"].up = "up" /\ ~Tearing' => ~Tearing
      BY TearingSteps
    <2>3. mem'["daemon"].up = "up" /\ vis'.torn => Tearing'
      BY <1>0, <1>4, <2>1, <2>2, DaemonUp DEF HouseKept, HouseRemembered
    <2>4. ASSUME mem'["daemon"].up = "up", mem'["daemon"].id # NoReq, ~Tearing'
          PROVE  \A d \in {vis', dur'} : /\ d.mark = mem'["daemon"].id /\ ~d.torn
                                         /\ mem'["daemon"].boot = "ready" => d.boot = "ready"
      <3>1. /\ mem["daemon"].up = "up" /\ mem'["daemon"].id = mem["daemon"].id /\ ~Tearing
            /\ mem'["daemon"].boot = "ready" => mem["daemon"].boot = "ready" \/ Ack
        BY <1>4, <2>2, <2>4, DaemonSteps
      <3>2. /\ vis.mark = mem["daemon"].id /\ ~vis.torn /\ dur.mark = mem["daemon"].id /\ ~dur.torn
            /\ mem["daemon"].boot = "ready" => vis.boot = "ready" /\ dur.boot = "ready"
        BY <1>0, <2>4, <3>1 DEF HouseRemembered
      <3>3. Ack => vis.boot = "ready" /\ dur.boot = "ready"
        BY DEF Ack, StepInv, Established, Settled, RootSynced, Root
      <3>4. /\ vis'.mark = vis.mark /\ ~vis'.torn /\ (vis.boot = "ready" => vis'.boot = "ready")
            /\ dur'.mark \in {dur.mark, vis'.mark} /\ dur'.torn \in {dur.torn, vis'.torn}
            /\ dur'.boot \in {dur.boot, vis'.boot}
        BY <2>1, <2>4, <3>1, <3>2 DEF HouseKept
      <3> QED BY <3>1, <3>2, <3>3, <3>4
    <2> QED BY <2>3, <2>4 DEF HouseRemembered
  <1> QED BY <1>1, <1>2, <1>3, <1>4

\* The visible result is as it was, and its state is written if it was.
ResultKept == /\ vis'.gen = vis.gen /\ vis'.term = vis.term /\ vis'.mark = vis.mark
              /\ vis'.boot = "early" => vis.boot = "early"

\* The breadcrumb and the result, as they seem, over a step.
VisStep ==
    /\ \/ vis'.crumb = vis.crumb
       \/ vis'.crumb = NoExp /\ (Clear \/ RollbackClear)
       \/ Begin /\ vis'.crumb.g1 = minted + 1 /\ ResultKept
    /\ \/ ResultKept
       \/ vis'.crumb # NoExp
       \/ vis'.mark = NoReq
       \/ vis'.torn
       \/ vis'.gen = minted + 1 /\ vis'.term = vis.term

\* A write of one file, field by field.
LEMMA WroteVis ==
    ASSUME NEW f \in File, NEW x, NEW files, NEW ok, NEW bad, Wrote(f, x, files, ok, bad)
    PROVE  /\ f # "crumb" => vis'.crumb = vis.crumb
           /\ f # "gen" => vis'.gen = vis.gen
           /\ f # "term" => vis'.term = vis.term
           /\ f # "mark" => vis'.mark = vis.mark
           /\ f # "boot" => vis'.boot = vis.boot
           /\ f # "torn" => vis'.torn = vis.torn
           /\ f # "win" => vis'.win = vis.win
           /\ f # "arts" => vis'.arts = vis.arts
           /\ f # "deliv" => vis'.deliv = vis.deliv
           /\ vis'[f] \in {vis[f], x}
  BY DEF Wrote, File

\* Every step but a power loss.
LEMMA VisSteps ==
    ASSUME TypeOK, StepInv, Next, ~PowerLoss
    PROVE  VisStep
  <1>0. {"gen", "boot", "torn", "arts", "win", "mark", "term", "crumb", "deliv"} \subseteq File
    BY DEF File
  <1>i. vis' = vis => VisStep
    BY DEF VisStep, ResultKept
  <1>1. CASE TornRotate \/ TearRotate
    BY <1>0, <1>1, Writings, WroteVis DEF VisStep, ResultKept
  <1>2. CASE TornBoot \/ TearBoot
    <2>1. vis.torn
      BY <1>2 DEF TornBoot, TearBoot, StepInv, Established
    <2> QED BY <1>0, <1>2, <2>1, Writings, WroteVis DEF VisStep
  <1>3. CASE TearRename
    BY <1>0, <1>3, Writings, WroteVis DEF VisStep, ResultKept
  <1>4. CASE StageArtifacts \/ PromoteArtifacts
    BY <1>0, <1>4, Writings, WroteVis DEF VisStep, ResultKept
  <1>5. CASE RollbackHouse
    <2>1. vis.mark = NoReq
      BY <1>5 DEF RollbackHouse, StepInv, Established
    <2> QED BY <1>0, <1>5, <2>1, Writings, WroteVis DEF VisStep, ResultKept
  <1>6. CASE PromoteWindow \/ RollbackWindow \/ StageIdle
    <2>1. \E x, ok, bad : Wrote("win", x, {"win"}, ok, bad)
      BY <1>6, Writings
    <2> QED BY <1>0, <2>1, WroteVis DEF VisStep, ResultKept
  <1>7. CASE PromoteMarker \/ Rotate \/ Prepare \/ Final
    <2>1. vis.crumb # NoExp
      BY <1>7 DEF PromoteMarker, Rotate, Prepare, Final, StepInv, Established
    <2>2. \E f \in {"mark", "gen", "term"} : \E x, files, ok, bad : Wrote(f, x, files, ok, bad)
      BY <1>7, Writings
    <2>3. vis'.crumb = vis.crumb
      BY <1>0, <2>2, WroteVis
    <2> QED BY <2>1, <2>3 DEF VisStep
  <1>8. CASE Clear \/ RollbackClear
    <2>1. \E ok, bad : Wrote("crumb", NoExp, Root, ok, bad)
      BY <1>8, Writings
    <2> QED BY <1>0, <1>8, <2>1, WroteVis DEF VisStep, ResultKept
  <1>9. CASE Deliver
    <2>1. Wrote("deliv", vis.term.exp, Root, "ready", "fail") => VisStep
      BY <1>0, WroteVis DEF VisStep, ResultKept
    <2> QED BY <1>9, <1>i, <2>1, MixedWritings
  <1>10. CASE Ready \/ Signal \/ RepairBoot
    <2>1. vis' = vis \/ \E x \in {"ready", "restart"} : \E ok, bad : Wrote("boot", x, Root, ok, bad)
      BY <1>10, MixedWritings
    <2> QED BY <1>0, <1>i, <2>1, WroteVis DEF VisStep, ResultKept
  <1>11. CASE Begin
    <2> DEFINE c == [g0 |-> vis.gen, g1 |-> minted + 1, req |-> run.req]
    <2>1. vis' = vis \/ Wrote("crumb", c, Root, "artifacts", "recover")
      BY <1>11, MixedWritings
    <2>2. c.g1 = minted + 1
      OBVIOUS
    <2> HIDE DEF c
    <2> QED BY <1>0, <1>11, <1>i, <2>1, <2>2, WroteVis DEF VisStep, ResultKept
  <1>12. CASE Lookup \/ Recover
    BY <1>12, <1>i, OpeningWritings
  <1>13. CASE Open \/ StageOpen \/ ReissueOpen \/ EnterStaging
    <2>1. \A g \in File \ {"win"} : vis'[g] = vis[g]
      BY <1>13, OpeningWritings, StagingWriting, SweptFields DEF But
    <2> QED BY <1>0, <2>1 DEF VisStep, ResultKept
  <1>14. CASE TornRemove \/ TearRemove
    <2>1. \A g \in File \ {"torn", "arts", "mark"} : vis'[g] = vis[g]
      BY <1>14, RemovalWriting
    <2>2. vis' = vis \/ vis'.mark = NoReq
      BY <1>14, RemovalWriting
    <2>3. vis'.crumb = vis.crumb
      BY <1>0, <2>1
    <2> QED BY <1>i, <2>2, <2>3 DEF VisStep
  <1>15. Quiet \/ Ack => VisStep
    BY <1>i DEF Quiet, Ack, disk
  <1> QED BY <1>1, <1>2, <1>3, <1>4, <1>5, <1>6, <1>7, <1>8, <1>9, <1>10, <1>11, <1>12, <1>13, <1>14, <1>15,
             NextSteps, QuietSteps DEF LockHolder

\* The windows in memory, over every step.
LEMMA NextWindows ==
    ASSUME TypeOK, TypeOK', DiskInv, DiskInv', MemInv, StepInv, Next
    PROVE  WindowsRemembered'
  <1>0. /\ vis \in Disk /\ vis' \in Disk /\ Good(vis) /\ Good(vis)' /\ WindowsRemembered
        /\ minted \in Nat /\ minted' \in Nat /\ minted <= minted'
    <2>1. IsMix(vis)'
      BY MixEnds, PTL
    <2> QED BY <2>1, MixEnds, MemParts, Histories DEF DiskInv, TypeOK
  <1>t. /\ vis.gen \in Nat /\ vis.gen > 0 /\ vis.gen <= minted /\ vis'.gen \in Nat /\ vis'.gen > 0
        /\ vis.crumb.g0 \in Nat /\ vis.crumb.g1 \in Nat /\ vis'.crumb.g1 \in Nat /\ vis'.crumb.g0 \in Nat
        /\ vis.term.exp.g1 \in Nat /\ vis'.term.exp.g1 \in Nat
    BY <1>0, DiskTypes DEF Good, GensOK
  <1>c. /\ vis.crumb # NoExp => vis.crumb.g0 < vis.crumb.g1
        /\ vis'.crumb # NoExp => vis'.crumb.g0 < vis'.crumb.g1
    BY <1>0 DEF Good, CrumbOK, Begun
  <1>m. vis.crumb # NoExp /\ vis.mark = NoReq => vis.gen < vis.crumb.g1
    BY <1>0, <1>c, GoodCrumb DEF Good, CrumbOK
  <1>a. active_terminal_result => vis.mark # NoReq /\ vis.term.ph = "final" /\ vis.term.exp.g1 = vis.gen
    BY <1>0, GoodRecords DEF active_terminal_result
  <1>b. active_terminal_result' =>
            vis'.mark # NoReq /\ ~vis'.torn /\ vis'.term.ph = "final" /\ vis'.term.exp.g1 = vis'.gen
    <2>1. vis'.term.ph # "none" => vis'.term.exp.req \in Req
      BY <1>0 DEF Good, GensOK, Begun
    <2>2. vis'.term.ph = "final" /\ vis'.term.exp.g1 = vis'.gen => ~vis'.torn
      BY <1>0 DEF Good, ResultOK
    <2> QED BY <2>1, <2>2, NoReqFacts DEF active_terminal_result
  <1> SUFFICES ASSUME NEW q \in Proc
               PROVE  /\ mem'[q].win.gen <= minted'
                      /\ vis'.crumb # NoExp => mem'[q].win.gen < vis'.crumb.g1
                      /\ mem'[q].win.gen = vis'.gen /\ active_terminal_result' => vis'.boot # "early"
    BY DEF WindowsRemembered
  <1> DEFINE g == mem[q].win.gen
             h == mem'[q].win.gen
  <1>1. g \in Nat /\ h \in Nat
    BY DEF TypeOK, Memory, Window
  <1>2. /\ g <= minted
        /\ vis.crumb # NoExp => g < vis.crumb.g1
        /\ g = vis.gen /\ active_terminal_result => vis.boot # "early"
    BY <1>0 DEF WindowsRemembered
  <1>3. \/ h = g \/ h = 0
        \/ h = vis.gen /\ vis.mark = NoReq
        \/ h = vis.gen /\ vis.crumb = NoExp /\ (active_terminal_result => vis.boot # "early") /\ vis' = Swept
    <2>1. CASE EnterStaging
      <3>1. vis.mark = NoReq
        BY <2>1 DEF EnterStaging, StepInv, Established
      <3>2. mem \in [Proc -> Memory] /\ Proc = {"daemon", "cli"}
        BY Types DEF Proc
      <3>3. h = g \/ h = vis.gen
        <4>1. CASE mem' = mem
          BY <4>1
        <4>2. CASE mem' # mem
          <5>1. PICK r \in Req : mem' = [mem EXCEPT !["cli"] = [up |-> "up",
                       win |-> [gen |-> vis.gen, st |-> "Staging", req |-> r], boot |-> "early", id |-> NoReq]]
            BY <2>1, <4>2, StagingWriting
          <5> QED BY <3>2, <5>1
        <4> QED BY <4>1, <4>2
      <3> QED BY <3>1, <3>3
    <2>2. CASE ~EnterStaging
      <3>1. RollbackWindow => vis.mark = NoReq
        BY DEF RollbackWindow, StepInv, Established
      <3>2. Open => vis.crumb = NoExp /\ (active_terminal_result => vis.boot # "early")
        BY DEF Open, StepInv, Established
      <3>3. IdleWindow(vis.gen).gen = vis.gen /\ Swept.win.gen = vis.gen
        BY SweptFields DEF IdleWindow
      <3> QED BY <2>2, <3>1, <3>2, <3>3, MemWindows
    <2> QED BY <2>1, <2>2
  <1> HIDE DEF g, h
  <1>4. h <= minted
    BY <1>0, <1>t, <1>1, <1>2, <1>3
  <1>5. h <= minted'
    BY <1>0, <1>1, <1>4
  <1>6. vis'.crumb # NoExp => h < vis'.crumb.g1
    <2>1. CASE PowerLoss
      <3>1. h = 0
        BY <2>1, MemEnds, DownFacts DEF h
      <3> QED BY <1>t, <1>c, <3>1
    <2>2. CASE ~PowerLoss /\ vis'.crumb = vis.crumb
      BY <1>t, <1>c, <1>m, <1>1, <1>2, <1>3, <2>2
    <2>3. CASE vis'.crumb.g1 = minted + 1
      BY <1>0, <1>1, <1>4, <2>3
    <2> QED BY <2>1, <2>2, <2>3, VisSteps DEF VisStep
  <1>7. ASSUME h = vis'.gen, active_terminal_result', vis'.boot = "early" PROVE FALSE
    <2>1. CASE PowerLoss
      <3>1. h = 0
        BY <2>1, MemEnds, DownFacts DEF h
      <3> QED BY <1>t, <1>7, <3>1
    <2>2. CASE vis'.crumb # NoExp
      <3>1. \/ vis'.gen = vis'.crumb.g0 /\ vis'.term.exp.g1 < vis'.crumb.g0
            \/ vis'.term.ph = "prepared"
            \/ vis'.gen = vis'.crumb.g1
        BY <1>0, <2>2 DEF Good, CrumbOK
      <3> QED BY <1>t, <1>b, <1>1, <1>6, <1>7, <2>2, <3>1
    <2>3. CASE ~PowerLoss /\ vis'.crumb = NoExp
      <3>1. CASE vis'.gen = minted + 1 /\ vis'.term = vis.term
        <4>1. vis.term.exp.g1 <= minted
          BY <1>0, <1>b, <1>7, <3>1, GoodRecords
        <4> QED BY <1>0, <1>t, <1>b, <1>7, <3>1, <4>1
      <3>2. CASE ResultKept
        <4>1. active_terminal_result /\ vis.boot = "early" /\ vis.gen = vis'.gen
          BY <1>7, <3>2 DEF ResultKept, active_terminal_result
        <4>2. CASE vis.crumb = NoExp
          BY <1>t, <1>a, <1>1, <1>2, <1>3, <1>7, <4>1, <4>2
        <4>3. CASE vis.crumb # NoExp
          <5>1. g < vis.crumb.g1
            BY <1>2, <4>3
          <5>2. vis.gen = vis.crumb.g1
            <6>1. \/ vis.gen = vis.crumb.g0 /\ vis.term.exp.g1 < vis.crumb.g0
                  \/ vis.term.ph = "prepared"
                  \/ vis.gen = vis.crumb.g1
              BY <1>0, <4>3 DEF Good, CrumbOK
            <6> QED BY <1>t, <1>a, <4>1, <6>1
          <5> QED BY <1>t, <1>a, <1>1, <1>3, <1>7, <4>1, <4>3, <5>1, <5>2
        <4> QED BY <4>2, <4>3
      <3> QED BY <1>b, <1>7, <2>3, <3>1, <3>2, VisSteps DEF VisStep
    <2> QED BY <2>1, <2>2, <2>3
  <1> QED BY <1>5, <1>6, <1>7 DEF h

\* What the processes remember, over every step.
LEMMA NextMemInv ==
    ASSUME TypeOK, TypeOK', DiskInv, DiskInv', MemInv, StepInv, Next
    PROVE  MemInv'
  BY NextWindows, NextHouse, MemParts

-----------------------------------------------------------------------------
(* What the transaction has established.                                   *)

\* The transactions that only the daemon runs.
Owned == run.op \in {"start", "teardown"} => run.p = "daemon"

\* A transaction that ends, or is about to be recovered, has nothing to keep.
LEMMA EndStep ==
    ASSUME Owned', run'.at \in {"none", "fail", "exit"} \/ (run'.at = "recover" /\ ~vis'.torn)
    PROVE  StepInv'
  BY DEF StepInv, Established, Owned

\* Who runs a transaction does not change, and nobody holds the lock in between.
LEMMA OwnedKept ==
    ASSUME StepInv, NEW at, Moved(at) \/ run' = NoRun \/ run' = run
    PROVE  Owned'
  BY DEF StepInv, Established, Moved, NoRun, Owned

\* What is in step stays in step over an acknowledged write.
LEMMA WrittenSync ==
    ASSUME NEW f \in File, NEW files \in SUBSET File, f \in files,
           \A g \in File \ {f} : vis'[g] = vis[g], Barrier(files)
    PROVE  /\ \A g \in File : vis[g] = dur[g] \/ g \in files => vis'[g] = dur'[g]
           /\ RootSynced \/ Root \subseteq files => RootSynced'
           /\ Settled => Settled'
           /\ Root \subseteq files /\ vis.mark = dur.mark => Settled'
  <1>1. \A g \in File : vis[g] = dur[g] \/ g \in files => vis'[g] = dur'[g]
    BY DEF Barrier
  <1>2. RootSynced \/ Root \subseteq files => RootSynced'
    BY <1>1, RootFiles DEF RootSynced
  <1>3. vis.mark = dur.mark => vis'.mark = dur'.mark
    BY <1>1 DEF File
  <1> QED BY <1>1, <1>2, <1>3 DEF Settled

\* An acknowledged write.
LEMMA WroteSync ==
    ASSUME NEW f \in File, NEW x, NEW files \in SUBSET File, f \in files, NEW ok, NEW bad,
           Wrote(f, x, files, ok, bad)
    PROVE  \/ Moved(bad)
           \/ /\ Moved(ok) /\ vis'[f] = x /\ Barrier(files)
              /\ \A g \in File : vis[g] = dur[g] \/ g \in files => vis'[g] = dur'[g]
              /\ RootSynced \/ Root \subseteq files => RootSynced'
              /\ Settled => Settled'
  <1>1. CASE Moved(ok) /\ vis'[f] = x /\ Barrier(files)
    <2>1. \A g \in File \ {f} : vis'[g] = vis[g]
      BY DEF Wrote
    <2> QED BY <1>1, <2>1, WrittenSync
  <1>2. CASE Moved(bad)
    BY <1>2
  <1> QED BY <1>1, <1>2 DEF Wrote

\* A barrier over the state root and the marker.
LEMMA ReadSync ==
    ASSUME TypeOK, vis' = vis, Barrier(Root \cup {"mark"})
    PROVE  Settled'
  BY DEF Barrier, Settled, RootSynced

\* A failed step ends the transaction.
LEMMA FailedStep ==
    ASSUME StepInv, NEW at \in {"fail", "exit"}, Moved(at)
    PROVE  StepInv'
  <1>1. Owned' /\ run'.at = at
    BY OwnedKept DEF Moved
  <1> QED BY <1>1, EndStep

\* The steps of a teardown, and of finishing one that was interrupted.
LEMMA TeardownStep ==
    ASSUME TypeOK, TypeOK', DiskInv, StepInv,
           \/ TornRotate \/ TornBoot \/ TornRemove \/ TearCheck \/ TearRotate \/ TearRename \/ TearBoot
           \/ TearRemove
    PROVE  StepInv'
  <1>0. /\ {"gen", "boot", "torn"} \subseteq Root /\ {"gen", "boot", "torn"} \subseteq File /\ Root \in SUBSET File
        /\ Failed \in {"fail", "exit"} /\ vis \in Disk /\ vis.torn \in BOOLEAN /\ vis'.torn \in BOOLEAN
    BY FailedType DEF Root, File, TypeOK, Disk
  <1>f. \A at \in {"fail", "exit"} : Moved(at) => StepInv'
    BY FailedStep
  <1>o. \A at : Moved(at) => Owned'
    BY OwnedKept
  <1>m. TearCheck \/ TearRotate \/ TearRename \/ TearBoot \/ TornRotate \/ TornBoot => mem' = mem
    BY MemSame
  <1>1. CASE TornRotate
    <2>1. vis.torn /\ Wrote("gen", minted + 1, Root, "tornBoot", Failed)
      BY <1>1, Writings DEF TornRotate, StepInv, Established
    <2>2. vis'.torn
      BY <1>0, <2>1, WroteVis
    <2>3. Moved("tornBoot") /\ RootSynced' => StepInv'
      BY <1>o, <2>2 DEF StepInv, Established, Moved, Owned
    <2> QED BY <1>0, <1>f, <2>1, <2>3, WroteSync
  <1>2. CASE TornBoot
    <2>1. vis.torn /\ Wrote("boot", "early", Root, "tornRemove", Failed)
      BY <1>2, Writings DEF TornBoot, StepInv, Established
    <2>2. vis'.torn
      BY <1>0, <2>1, WroteVis
    <2>3. Moved("tornRemove") /\ RootSynced' /\ vis'.boot = "early" => StepInv'
      BY <1>o, <2>2 DEF StepInv, Established, Moved, Owned
    <2> QED BY <1>0, <1>f, <2>1, <2>3, WroteSync
  <1>3. CASE TornRemove
    <2>1. \/ vis'.torn = FALSE /\ Moved(AfterTeardown)
          \/ Moved(Failed) \/ Moved("exit")
      BY <1>3, RemovalWriting
    <2>2. AfterTeardown \in {"recover", "exit", "fail"}
      BY <1>0 DEF AfterTeardown
    <2>3. vis'.torn = FALSE /\ Moved("recover") => StepInv'
      BY <1>o, EndStep DEF Moved
    <2> QED BY <1>0, <1>f, <2>1, <2>2, <2>3
  <1>4. CASE TearCheck
    <2>1. /\ ~vis.torn /\ run.op = "teardown" /\ mem["daemon"].up = "up" /\ mem["daemon"].boot = "ready"
          /\ mem["daemon"].id # NoReq
      BY <1>4 DEF TearCheck, StepInv, Established
    <2>2. vis' = vis /\ (Moved("tearRotate") \/ Moved("fail"))
      BY <1>4, GoMoves DEF TearCheck, disk, Step
    <2>3. Moved("tearRotate") => StepInv'
      BY <1>m, <1>o, <1>4, <2>1, <2>2 DEF StepInv, Established, Moved, Owned
    <2> QED BY <1>f, <2>2, <2>3
  <1>5. CASE TearRotate
    <2>1. /\ ~vis.torn /\ run.op = "teardown" /\ mem["daemon"].up = "up" /\ mem["daemon"].boot = "ready"
          /\ mem["daemon"].id # NoReq
      BY <1>5 DEF TearRotate, StepInv, Established
    <2>2. Wrote("gen", minted + 1, Root, "tearRename", "exit")
      BY <1>5, Writings
    <2>3. ~vis'.torn /\ vis'.term = vis.term
      BY <1>0, <2>1, <2>2, WroteVis
    <2>4. vis.term.exp.g1 # minted + 1
      <3>1. Good(vis) /\ minted \in Nat /\ vis.term.exp.g1 \in Nat
        BY <1>0, MixEnds, DiskTypes DEF DiskInv, TypeOK
      <3>2. vis.term.exp.g1 <= minted
        BY <1>0, <3>1, GoodRecords
      <3> QED BY <3>1, <3>2
    <2>5. Moved("tearRename") /\ RootSynced' /\ vis'.gen = minted + 1 => StepInv'
      BY <1>m, <1>o, <1>5, <2>1, <2>3, <2>4 DEF StepInv, Established, Moved, Owned
    <2> QED BY <1>0, <1>f, <2>2, <2>5, WroteSync
  <1>6. CASE TearRename
    <2>1. /\ run.op = "teardown" /\ mem["daemon"].up = "up" /\ mem["daemon"].boot = "ready"
          /\ mem["daemon"].id # NoReq
      BY <1>6 DEF TearRename, StepInv, Established
    <2>2. Wrote("torn", TRUE, Root, "tearBoot", "exit")
      BY <1>6, Writings
    <2>3. Moved("tearBoot") /\ RootSynced' /\ vis'.torn = TRUE => StepInv'
      BY <1>m, <1>o, <1>6, <2>1 DEF StepInv, Established, Moved, Owned
    <2> QED BY <1>0, <1>f, <2>2, <2>3, WroteSync
  <1>7. CASE TearBoot
    <2>1. /\ vis.torn /\ run.op = "teardown" /\ mem["daemon"].up = "up" /\ mem["daemon"].boot = "ready"
          /\ mem["daemon"].id # NoReq
      BY <1>7 DEF TearBoot, StepInv, Established
    <2>2. Wrote("boot", "early", Root, "tearRemove", "exit")
      BY <1>7, Writings
    <2>3. vis'.torn
      BY <1>0, <2>1, <2>2, WroteVis
    <2>4. Moved("tearRemove") /\ RootSynced' /\ vis'.boot = "early" => StepInv'
      BY <1>m, <1>o, <1>7, <2>1, <2>3 DEF StepInv, Established, Moved, Owned
    <2> QED BY <1>0, <1>f, <2>2, <2>4, WroteSync
  <1>8. CASE TearRemove
    <2>1. Go("exit") /\ "exit" \in Step
      BY <1>8 DEF TearRemove, Write, Step
    <2> QED BY <1>f, <2>1, GoMoves
  <1> QED BY <1>1, <1>2, <1>3, <1>4, <1>5, <1>6, <1>7, <1>8

\* The steps of the transaction up to its marker.
LEMMA InstallStep ==
    ASSUME TypeOK, TypeOK', DiskInv, StepInv,
           \/ Begin \/ StageArtifacts \/ PromoteArtifacts \/ PromoteWindow \/ PromoteMarker
    PROVE  StepInv'
  <1>0. /\ {"crumb", "arts", "win", "mark"} \subseteq File /\ Root \in SUBSET File /\ "crumb" \in Root
        /\ {"arts"} \in SUBSET File /\ {"win"} \in SUBSET File /\ {"mark"} \in SUBSET File
        /\ vis \in Disk /\ Good(vis)
    BY MixEnds DEF Root, File, TypeOK, DiskInv
  <1>o. \A at : Moved(at) => Owned'
    BY OwnedKept
  <1>t. ~vis.torn
    BY DEF Begin, StageArtifacts, PromoteArtifacts, PromoteWindow, PromoteMarker, StepInv, Established
  <1>r. ~vis'.torn /\ Moved("recover") => StepInv'
    BY <1>o, EndStep DEF Moved
  <1>1. CASE Begin
    <2> DEFINE c == [g0 |-> vis.gen, g1 |-> minted + 1, req |-> run.req]
    <2>1. Settled /\ run.req \in Req
      BY <1>1 DEF Begin, StepInv, Established
    <2>2. c.req = run.req /\ c # NoExp
      BY <2>1, NoReqFacts
    <2>3. \/ vis' = vis /\ Moved("recover")
          \/ vis.mark = NoReq /\ Wrote("crumb", c, Root, "artifacts", "recover")
      BY <1>1, MixedWritings
    <2> HIDE DEF c
    <2>4. CASE vis.mark = NoReq /\ Wrote("crumb", c, Root, "artifacts", "recover")
      <3>1. ~vis'.torn /\ vis'.mark = NoReq
        BY <1>0, <1>t, <2>4, WroteVis
      <3>2. Moved("artifacts") /\ vis'.crumb = c /\ Settled' => StepInv'
        BY <1>o, <2>2, <3>1 DEF StepInv, Established, Moved, Owned
      <3> QED BY <1>0, <1>r, <2>1, <2>4, <3>1, <3>2, WroteSync
    <2> QED BY <1>t, <1>r, <2>3, <2>4
  <1>2. CASE StageArtifacts
    <2> DEFINE a == [req |-> run.req, all |-> FALSE]
    <2>1. Settled /\ vis.crumb # NoExp /\ vis.mark = NoReq /\ vis.crumb.req = run.req
      BY <1>2 DEF StageArtifacts, StepInv, Established
    <2>2. Wrote("arts", a, {"arts"}, "promote", "recover") /\ a.req = run.req
      BY <1>2, Writings
    <2> HIDE DEF a
    <2>3. ~vis'.torn /\ vis'.mark = vis.mark /\ vis'.crumb = vis.crumb
      BY <1>0, <1>t, <2>2, WroteVis
    <2>4. Moved("promote") /\ vis'.arts = a /\ Settled' => StepInv'
      BY <1>o, <2>1, <2>2, <2>3 DEF StepInv, Established, Moved, Owned
    <2> QED BY <1>0, <1>r, <2>1, <2>2, <2>3, <2>4, WroteSync
  <1>3. CASE PromoteArtifacts
    <2> DEFINE a == [vis.arts EXCEPT !.all = TRUE]
    <2>1. /\ Settled /\ vis.crumb # NoExp /\ vis.mark = NoReq /\ vis.crumb.req = run.req
          /\ vis.arts.req = vis.crumb.req
      BY <1>3 DEF PromoteArtifacts, StepInv, Established
    <2>a. vis.arts \in [req : Req \cup {NoReq}, all : BOOLEAN]
      BY <1>0 DEF Disk, Artifacts
    <2>b. a \in [req : Req \cup {NoReq}, all : BOOLEAN] /\ a.req = vis.arts.req /\ a.all = TRUE
      BY <2>a
    <2>3. Wrote("arts", a, {"arts"}, "window", "recover")
      BY <1>3, Writings
    <2> HIDE DEF a
    <2>c. a = [req |-> a.req, all |-> a.all]
      BY <2>b
    <2>2. a = [req |-> vis.crumb.req, all |-> TRUE]
      BY <2>1, <2>b, <2>c
    <2>4. ~vis'.torn /\ vis'.mark = vis.mark /\ vis'.crumb = vis.crumb
      BY <1>0, <1>t, <2>3, WroteVis
    <2>5. Moved("window") /\ vis'.arts = a /\ vis'.arts = dur'.arts /\ Settled' => StepInv'
      BY <1>o, <2>1, <2>2, <2>4 DEF StepInv, Established, Moved, Owned
    <2> QED BY <1>0, <1>r, <2>1, <2>3, <2>4, <2>5, WroteSync
  <1>4. CASE PromoteWindow
    <2> DEFINE w == [gen |-> vis.gen, st |-> "Committed", req |-> run.req]
    <2>1. /\ Settled /\ vis.crumb # NoExp /\ vis.mark = NoReq /\ vis.crumb.req = run.req
          /\ vis.arts = [req |-> vis.crumb.req, all |-> TRUE] /\ dur.arts = vis.arts
      BY <1>4 DEF PromoteWindow, StepInv, Established
    <2>2. vis.gen = vis.crumb.g0
      BY <1>0, <2>1, GoodCrumb DEF Good, CrumbOK
    <2>3. Wrote("win", w, {"win"}, "marker", "recover")
      BY <1>4, Writings
    <2>4. w = [gen |-> vis.crumb.g0, st |-> "Committed", req |-> vis.crumb.req]
      BY <2>1, <2>2
    <2> HIDE DEF w
    <2>5. ~vis'.torn /\ vis'.mark = vis.mark /\ vis'.crumb = vis.crumb /\ vis'.arts = vis.arts
      BY <1>0, <1>t, <2>3, WroteVis
    <2>6. Moved("marker") /\ vis'.win = w /\ vis'.win = dur'.win /\ vis'.arts = dur'.arts /\ Settled' => StepInv'
      BY <1>o, <2>1, <2>4, <2>5 DEF StepInv, Established, Moved, Owned
    <2> QED BY <1>0, <1>r, <2>1, <2>3, <2>5, <2>6, WroteSync
  <1>5. CASE PromoteMarker
    <2>1. Wrote("mark", run.req, {"mark"}, "recover", "recover")
      BY <1>5, Writings
    <2>2. ~vis'.torn /\ Moved("recover")
      BY <1>0, <1>t, <2>1, WroteVis DEF Wrote
    <2> QED BY <1>r, <2>2
  <1> QED BY <1>1, <1>2, <1>3, <1>4, <1>5

\* Where the recovery goes, and what it has seen.
LEMMA RecoverFacts ==
    ASSUME TypeOK
    PROVE  LET c == vis.crumb IN
           \/ RecoverNext = "refuse"
           \/ RecoverNext \in {"fail", "repair"} /\ c = NoExp
           \/ RecoverNext = "rbHouse" /\ c # NoExp /\ vis.mark = NoReq
           \/ /\ c # NoExp /\ vis.mark = c.req
              /\ \/ RecoverNext = "rotate" /\ vis.gen = c.g0 /\ vis.term = [ph |-> "prepared", exp |-> c]
                 \/ RecoverNext = "final" /\ vis.gen = c.g1 /\ vis.term = [ph |-> "prepared", exp |-> c]
                 \/ RecoverNext = "clear" /\ vis.term = [ph |-> "final", exp |-> c]
                 \/ RecoverNext = "prepare" /\ vis.gen = c.g0 /\ (vis.term.ph # "none" => vis.term.exp # c)
  <1>1. vis.term = [ph |-> vis.term.ph, exp |-> vis.term.exp]
    BY DiskTypes DEF TypeOK
  <1> QED BY <1>1 DEF RecoverNext, ArtifactsValid, MayPrepare

\* The steps of the recovery.
LEMMA RecoveryStep ==
    ASSUME TypeOK, TypeOK', DiskInv, StepInv,
           \/ Recover \/ Prepare \/ Rotate \/ Final \/ Clear \/ RollbackHouse \/ RollbackWindow \/ RollbackClear
    PROVE  StepInv'
  <1>0. /\ {"crumb", "arts", "win", "mark", "term", "gen"} \subseteq File /\ Root \in SUBSET File
        /\ {"crumb", "term", "gen"} \subseteq Root
        /\ {"arts", "mark"} \in SUBSET File /\ {"win"} \in SUBSET File
        /\ vis \in Disk /\ Good(vis) /\ Failed \in {"fail", "exit"}
    BY MixEnds, FailedType DEF Root, File, TypeOK, DiskInv
  <1>f. \A at \in {"fail", "exit"} : Moved(at) => StepInv'
    BY FailedStep
  <1>o. \A at : Moved(at) => Owned'
    BY OwnedKept
  <1>t. ~vis.torn
    BY DEF Recover, Prepare, Rotate, Final, Clear, RollbackHouse, RollbackWindow, RollbackClear, StepInv, Established
  <1>1. CASE Recover
    <2>1. \/ vis' = vis /\ Settled' /\ Moved(IF RecoverNext = "refuse" THEN Failed ELSE RecoverNext)
          \/ Moved(Failed)
      BY <1>1, OpeningWritings, ReadSync
    <2>2. CASE RecoverNext = "refuse" \/ RecoverNext = "fail" \/ Moved(Failed)
      BY <1>0, <1>f, <2>1, <2>2
    <2>3. CASE RecoverNext # "refuse" /\ vis' = vis /\ Settled' /\ Moved(RecoverNext)
      <3> DEFINE c == vis.crumb
      <3>1. CASE RecoverNext \in {"fail", "repair"} /\ c = NoExp
        BY <1>f, <1>o, <1>t, <2>3, <3>1 DEF StepInv, Established, Moved, Owned
      <3>2. CASE RecoverNext = "rbHouse" /\ c # NoExp /\ vis.mark = NoReq
        BY <1>o, <1>t, <2>3, <3>2 DEF StepInv, Established, Moved, Owned
      <3>3. ASSUME c # NoExp, vis.mark = c.req, RecoverNext = "rotate", vis.gen = c.g0,
                   vis.term = [ph |-> "prepared", exp |-> c]
            PROVE  StepInv'
        BY <1>o, <1>t, <2>3, <3>3 DEF StepInv, Established, Moved, Owned
      <3>4. ASSUME c # NoExp, vis.mark = c.req, RecoverNext = "final", vis.gen = c.g1,
                   vis.term = [ph |-> "prepared", exp |-> c]
            PROVE  StepInv'
        BY <1>o, <1>t, <2>3, <3>4 DEF StepInv, Established, Moved, Owned
      <3>5. ASSUME c # NoExp, vis.mark = c.req, RecoverNext = "clear", vis.term = [ph |-> "final", exp |-> c]
            PROVE  StepInv'
        BY <1>o, <1>t, <2>3, <3>5 DEF StepInv, Established, Moved, Owned
      <3>6. ASSUME c # NoExp, vis.mark = c.req, RecoverNext = "prepare", vis.gen = c.g0,
                   vis.term.ph # "none" => vis.term.exp # c
            PROVE  StepInv'
        <4>1. vis.term.exp # c
          BY <1>0, <3>6 DEF Good, GensOK
        <4> QED BY <1>o, <1>t, <2>3, <3>6, <4>1 DEF StepInv, Established, Moved, Owned
      <3> HIDE DEF c
      <3> QED BY <2>3, <3>1, <3>2, <3>3, <3>4, <3>5, <3>6, RecoverFacts DEF c
    <2> QED BY <2>1, <2>2, <2>3
  <1>2. CASE Prepare
    <2> DEFINE p == [ph |-> "prepared", exp |-> vis.crumb]
    <2>1. Settled /\ vis.crumb # NoExp /\ vis.mark = vis.crumb.req /\ vis.gen = vis.crumb.g0
      BY <1>2 DEF Prepare, StepInv, Established
    <2>2. Wrote("term", p, Root, "rotate", Failed)
      BY <1>2, Writings
    <2>3. ~vis'.torn /\ vis'.crumb = vis.crumb /\ vis'.mark = vis.mark /\ vis'.gen = vis.gen
      BY <1>0, <1>t, <2>2, WroteVis
    <2>4. Moved("rotate") /\ vis'.term = p /\ Settled' => StepInv'
      BY <1>o, <2>1, <2>3 DEF StepInv, Established, Moved, Owned
    <2> QED BY <1>0, <1>f, <2>1, <2>2, <2>4, WroteSync
  <1>3. CASE Rotate
    <2>1. /\ Settled /\ vis.crumb # NoExp /\ vis.mark = vis.crumb.req
          /\ vis.term = [ph |-> "prepared", exp |-> vis.crumb]
      BY <1>3 DEF Rotate, StepInv, Established
    <2>2. Wrote("gen", vis.crumb.g1, Root, "final", Failed)
      BY <1>3, Writings
    <2>3. ~vis'.torn /\ vis'.crumb = vis.crumb /\ vis'.mark = vis.mark /\ vis'.term = vis.term
      BY <1>0, <1>t, <2>2, WroteVis
    <2>4. Moved("final") /\ vis'.gen = vis.crumb.g1 /\ Settled' => StepInv'
      BY <1>o, <2>1, <2>3 DEF StepInv, Established, Moved, Owned
    <2> QED BY <1>0, <1>f, <2>1, <2>2, <2>4, WroteSync
  <1>4. CASE Final
    <2> DEFINE p == [ph |-> "final", exp |-> vis.term.exp]
    <2>1. /\ Settled /\ vis.crumb # NoExp /\ vis.mark = vis.crumb.req
          /\ vis.term.exp = vis.crumb
      BY <1>4 DEF Final, StepInv, Established
    <2>2. Wrote("term", p, Root, "clear", Failed)
      BY <1>4, Writings
    <2>3. ~vis'.torn /\ vis'.crumb = vis.crumb /\ vis'.mark = vis.mark
      BY <1>0, <1>t, <2>2, WroteVis
    <2>4. Moved("clear") /\ vis'.term = p /\ Settled' => StepInv'
      BY <1>o, <2>1, <2>3 DEF StepInv, Established, Moved, Owned
    <2> QED BY <1>0, <1>f, <2>1, <2>2, <2>4, WroteSync
  <1>5. CASE Clear
    <2>1. /\ Settled /\ vis.crumb # NoExp /\ vis.mark = vis.crumb.req
          /\ vis.term = [ph |-> "final", exp |-> vis.crumb]
      BY <1>5 DEF Clear, StepInv, Established
    <2>2. vis.gen = vis.crumb.g1
      <3>1. vis.term.ph = "final" /\ vis.term.exp = vis.crumb
        BY <2>1
      <3>2. \/ vis.term.exp.g1 < vis.crumb.g0
            \/ vis.gen = vis.crumb.g1
        BY <1>0, <2>1, <3>1 DEF Good, CrumbOK
      <3> QED BY <1>0, <2>1, <3>1, <3>2, GoodCrumb
    <2>3. \/ Wrote("crumb", NoExp, Root, "signal", Failed)
          \/ Wrote("crumb", NoExp, Root, "repair", Failed)
      BY <1>5, Writings
    <2>4. ~vis'.torn /\ vis'.gen = vis.gen /\ vis'.mark = vis.mark /\ vis'.term = vis.term
      BY <1>0, <1>t, <2>3, WroteVis
    <2>5. active_terminal_result'
      BY <2>1, <2>2, <2>4 DEF active_terminal_result
    <2>6. Moved("signal") /\ Settled' => StepInv'
      BY <1>o, <2>4, <2>5 DEF StepInv, Established, Moved, Owned
    <2>7. Moved("repair") /\ vis'.crumb = NoExp /\ Settled' => StepInv'
      BY <1>o, <2>4 DEF StepInv, Established, Moved, Owned
    <2> QED BY <1>0, <1>f, <2>1, <2>3, <2>6, <2>7, WroteSync
  <1>6. CASE RollbackHouse
    <2>1. Settled /\ vis.crumb # NoExp /\ vis.mark = NoReq
      BY <1>6 DEF RollbackHouse, StepInv, Established
    <2>2. Wrote("arts", NoArtifacts, {"arts", "mark"}, "rbWin", Failed)
      BY <1>6, <2>1, Writings
    <2>3. ~vis'.torn /\ vis'.crumb = vis.crumb /\ vis'.mark = vis.mark
      BY <1>0, <1>t, <2>2, WroteVis
    <2>4. Moved("rbWin") /\ Settled' => StepInv'
      BY <1>o, <2>1, <2>3 DEF StepInv, Established, Moved, Owned
    <2> QED BY <1>0, <1>f, <2>1, <2>2, <2>4, WroteSync
  <1>7. CASE RollbackWindow
    <2>1. Settled /\ vis.crumb # NoExp /\ vis.mark = NoReq
      BY <1>7 DEF RollbackWindow, StepInv, Established
    <2>2. Wrote("win", IdleWindow(vis.gen), {"win"}, "rbClear", Failed)
      BY <1>7, Writings
    <2>3. ~vis'.torn /\ vis'.crumb = vis.crumb /\ vis'.mark = vis.mark
      BY <1>0, <1>t, <2>2, WroteVis
    <2>4. Moved("rbClear") /\ Settled' => StepInv'
      BY <1>o, <2>1, <2>3 DEF StepInv, Established, Moved, Owned
    <2> QED BY <1>0, <1>f, <2>1, <2>2, <2>4, WroteSync
  <1>8. CASE RollbackClear
    <2>1. Settled
      BY <1>8 DEF RollbackClear, StepInv, Established
    <2>2. \/ Wrote("crumb", NoExp, Root, "fail", Failed)
          \/ Wrote("crumb", NoExp, Root, "repair", Failed)
      BY <1>8, Writings
    <2>3. ~vis'.torn
      BY <1>0, <1>t, <2>2, WroteVis
    <2>4. Moved("repair") /\ vis'.crumb = NoExp /\ Settled' => StepInv'
      BY <1>o, <2>3 DEF StepInv, Established, Moved, Owned
    <2> QED BY <1>0, <1>f, <2>1, <2>2, <2>4, WroteSync
  <1> QED BY <1>1, <1>2, <1>3, <1>4, <1>5, <1>6, <1>7, <1>8

\* Where a lookup goes, and what it has seen.
LEMMA LookupFacts ==
    ASSUME TypeOK
    PROVE  \/ LookupNext = "fail"
           \/ LookupNext = "signal" /\ active_terminal_result
           \/ LookupNext = "deliver" /\ active_terminal_result /\ mem[run.p].win.gen = vis.gen
           \/ LookupNext = "begin" /\ FirstAttemptAllowed
  BY DEF LookupNext

\* A process with a window of the current generation meets a result that is finished
\* up to its delivery.
LEMMA CurrentWindow ==
    ASSUME TypeOK, DiskInv, MemInv, active_terminal_result, NEW p \in Proc, mem[p].win.gen = vis.gen
    PROVE  vis.boot # "early" /\ vis.crumb = NoExp
  <1>1. vis \in Disk /\ Good(vis)
    BY MixEnds DEF TypeOK, DiskInv
  <1>2. vis.boot # "early"
    BY DEF MemInv
  <1>3. CASE vis.crumb # NoExp
    <2>1. vis.gen < vis.crumb.g1
      BY <1>3 DEF MemInv
    <2>2. vis.gen \in Nat /\ vis.crumb.g0 \in Nat /\ vis.crumb.g1 \in Nat /\ vis.term.exp.g1 \in Nat
          /\ vis.gen \in {vis.crumb.g0, vis.crumb.g1}
      BY <1>1, <1>3, GoodCrumb
    <2>3. vis.term.ph = "final" /\ vis.term.exp.g1 = vis.gen
      BY DEF active_terminal_result
    <2>4. vis.term.exp.g1 < vis.crumb.g0 \/ vis.gen = vis.crumb.g1
      BY <1>1, <1>3, <2>3 DEF Good, CrumbOK
    <2> QED BY <2>1, <2>2, <2>3, <2>4
  <1> QED BY <1>2, <1>3

\* The steps that answer from a result, and the repair of the bootstrap state.
LEMMA ResultStep ==
    ASSUME TypeOK, TypeOK', DiskInv, MemInv, StepInv,
           \/ Lookup \/ Deliver \/ Ready \/ Ack \/ Signal \/ Signalled \/ RepairBoot
    PROVE  StepInv'
  <1>0. /\ {"deliv", "boot", "gen"} \subseteq File /\ Root \in SUBSET File /\ {"deliv", "boot", "gen"} \subseteq Root
        /\ vis \in Disk /\ Failed \in {"fail", "exit"} /\ run.p \in Proc
    BY FailedType, Types DEF Root, File, TypeOK
  <1>f. \A at \in {"fail", "exit"} : Moved(at) => StepInv'
    BY FailedStep
  <1>o. \A at : Moved(at) => Owned'
    BY OwnedKept
  <1>t. ~vis.torn
    BY DEF Lookup, Deliver, Ready, Ack, Signal, Signalled, RepairBoot, StepInv, Established
  <1>n. run' = NoRun => StepInv'
    BY OwnedKept, EndStep DEF NoRun
  <1>1. CASE Lookup
    <2>1. \/ vis' = vis /\ Settled' /\ Moved(LookupNext)
          \/ Moved("fail")
      BY <1>1, OpeningWritings, ReadSync
    <2>2. run.req \in Req /\ mem' = mem
      BY <1>1, MemSame DEF Lookup, StepInv, Established
    <2>3. vis' = vis => active_terminal_result' = active_terminal_result
      BY DEF active_terminal_result
    <2>4. \A at : Moved(at) /\ vis' = vis => FirstAttemptAllowed' = FirstAttemptAllowed
      BY <2>2 DEF FirstAttemptAllowed, Moved
    <2>5. vis' = vis /\ Settled' /\ Moved("signal") /\ active_terminal_result => StepInv'
      BY <1>o, <1>t, <2>3 DEF StepInv, Established, Moved, Owned
    <2>6. vis' = vis /\ Settled' /\ Moved("deliver") /\ active_terminal_result
          /\ vis.boot # "early" /\ vis.crumb = NoExp => StepInv'
      BY <1>o, <1>t, <2>2, <2>3 DEF StepInv, Established, Moved, Owned
    <2>7. vis' = vis /\ Settled' /\ Moved("begin") /\ FirstAttemptAllowed => StepInv'
      BY <1>o, <1>t, <2>2, <2>4 DEF StepInv, Established, Moved, Owned
    <2>8. active_terminal_result /\ mem[run.p].win.gen = vis.gen => vis.boot # "early" /\ vis.crumb = NoExp
      BY <1>0, CurrentWindow
    <2> QED BY <1>f, <2>1, <2>5, <2>6, <2>7, <2>8, LookupFacts
  <1>2. CASE Deliver
    <2>1. /\ Settled /\ active_terminal_result /\ vis.boot # "early" /\ vis.crumb = NoExp /\ run.req \in Req
      BY <1>2 DEF Deliver, StepInv, Established
    <2>2. \/ vis.deliv = vis.term.exp /\ vis' = vis /\ Barrier(Root) /\ Moved("ready")
          \/ Moved("fail")
          \/ Wrote("deliv", vis.term.exp, Root, "ready", "fail")
      BY <1>2, MixedWritings
    <2>3. vis'.deliv = vis'.term.exp /\ Settled' /\ Moved("ready") /\ active_terminal_result'
          /\ vis'.boot = vis.boot /\ vis'.crumb = vis.crumb /\ vis'.torn = vis.torn => StepInv'
      BY <1>o, <1>t, <2>1 DEF StepInv, Established, Moved, Owned
    <2>4. CASE vis.deliv = vis.term.exp /\ vis' = vis /\ Barrier(Root) /\ Moved("ready")
      <3>1. Settled'
        BY <1>0, <2>1, <2>4, WrittenSync
      <3> QED BY <2>1, <2>3, <2>4, <3>1 DEF active_terminal_result
    <2>5. CASE Wrote("deliv", vis.term.exp, Root, "ready", "fail")
      <3>1. /\ vis'.gen = vis.gen /\ vis'.term = vis.term /\ vis'.mark = vis.mark /\ vis'.boot = vis.boot
            /\ vis'.crumb = vis.crumb /\ vis'.torn = vis.torn
        BY <1>0, <2>5, WroteVis
      <3>2. active_terminal_result'
        BY <2>1, <3>1 DEF active_terminal_result
      <3>3. \/ Moved("fail")
            \/ Moved("ready") /\ vis'.deliv = vis.term.exp /\ Settled'
        BY <1>0, <2>1, <2>5, WroteSync
      <3> QED BY <1>f, <2>3, <3>1, <3>2, <3>3
    <2> QED BY <1>f, <2>2, <2>4, <2>5
  <1>3. CASE Ready
    <2>1. /\ Settled /\ active_terminal_result /\ vis.crumb = NoExp /\ vis.deliv = vis.term.exp /\ run.req \in Req
      BY <1>3 DEF Ready, StepInv, Established
    <2>2. \/ Wrote("boot", "ready", Root, "publish", "fail")
          \/ vis.boot = "ready" /\ vis' = vis /\ dur' = dur /\ Moved("ack")
          \/ Moved("fail")
      BY <1>3, MixedWritings
    <2>3. vis'.boot = "ready" /\ Settled' /\ (Moved("ack") \/ Moved("publish")) /\ active_terminal_result' /\ vis'.deliv = vis'.term.exp
          /\ vis'.crumb = vis.crumb /\ vis'.torn = vis.torn => StepInv'
      BY <1>o, <1>t, <2>1 DEF StepInv, Established, Moved, Owned
    <2>4. CASE vis.boot = "ready" /\ vis' = vis /\ dur' = dur /\ Moved("ack")
      <3>1. Settled' /\ active_terminal_result'
        BY <2>1, <2>4 DEF Settled, RootSynced, active_terminal_result
      <3> QED BY <2>1, <2>3, <2>4, <3>1
    <2>5. CASE Wrote("boot", "ready", Root, "publish", "fail")
      <3>1. /\ vis'.gen = vis.gen /\ vis'.term = vis.term /\ vis'.mark = vis.mark /\ vis'.deliv = vis.deliv
            /\ vis'.crumb = vis.crumb /\ vis'.torn = vis.torn
        BY <1>0, <2>5, WroteVis
      <3>2. active_terminal_result'
        BY <2>1, <3>1 DEF active_terminal_result
      <3>3. \/ Moved("fail")
            \/ Moved("publish") /\ vis'.boot = "ready" /\ Settled'
        BY <1>0, <2>1, <2>5, WroteSync
      <3> QED BY <1>f, <2>1, <2>3, <3>1, <3>2, <3>3
    <2> QED BY <1>f, <2>2, <2>4, <2>5
  <1>4. CASE Ack \/ Signalled
    BY <1>4, <1>n DEF Ack, Signalled
  <1>5. CASE Signal
    <2>1. Settled /\ active_terminal_result
      BY <1>5 DEF Signal, StepInv, Established
    <2>2. \/ Wrote("boot", "restart", Root, "signalled", "fail")
          \/ Moved("exit") \/ Moved("fail")
      BY <1>5, MixedWritings
    <2>3. CASE Wrote("boot", "restart", Root, "signalled", "fail")
      <3>1. /\ vis'.gen = vis.gen /\ vis'.term = vis.term /\ vis'.mark = vis.mark /\ vis'.torn = vis.torn
        BY <1>0, <2>3, WroteVis
      <3>2. active_terminal_result'
        BY <2>1, <3>1 DEF active_terminal_result
      <3>3. Moved("signalled") /\ Settled' => StepInv'
        BY <1>o, <1>t, <3>1, <3>2 DEF StepInv, Established, Moved, Owned
      <3> QED BY <1>0, <1>f, <2>1, <2>3, <3>3, WroteSync
    <2> QED BY <1>f, <2>2, <2>3
  <1>6. CASE RepairBoot
    <2>1. Settled /\ vis.crumb = NoExp
      BY <1>6 DEF RepairBoot, StepInv, Established
    <2>2. PICK next \in {"open", "coldCheck"} :
             \/ Wrote("boot", "restart", Root, next, Failed)
             \/ /\ ~(active_terminal_result /\ vis.boot = "early")
                /\ vis' = vis /\ Barrier(Root \cup {"mark"}) /\ Moved(next)
      BY <1>6, MixedWritings
    <2>3. Moved(next) /\ Settled' /\ vis'.crumb = NoExp /\ ~vis'.torn /\ (active_terminal_result' => vis'.boot # "early")
          => StepInv'
      BY <1>o DEF StepInv, Established, Moved, Owned
    <2>4. CASE Wrote("boot", "restart", Root, next, Failed)
      <3>1. vis'.crumb = vis.crumb /\ vis'.torn = vis.torn
        BY <1>0, <2>4, WroteVis
      <3> QED BY <1>0, <1>f, <1>t, <2>1, <2>3, <2>4, <3>1, WroteSync
    <2>5. CASE /\ ~(active_terminal_result /\ vis.boot = "early")
               /\ vis' = vis /\ Barrier(Root \cup {"mark"}) /\ Moved(next)
      <3>1. Settled' /\ active_terminal_result' = active_terminal_result
        BY <2>5, ReadSync DEF active_terminal_result
      <3> QED BY <1>t, <2>1, <2>3, <2>5, <3>1
    <2> QED BY <2>2, <2>4, <2>5
  <1> QED BY <1>1, <1>2, <1>3, <1>4, <1>5, <1>6

\* The steps that open and stage a namespace, and the ends of a transaction.
LEMMA NamespaceStep ==
    ASSUME TypeOK, TypeOK', LagInv, StepInv,
           \/ Open \/ ColdCheck \/ StageOpen \/ StageIdle \/ EnterStaging \/ LocalStageTimeout \/ ReissueOpen
           \/ Finish
    PROVE  StepInv'
  <1>f. \A at \in {"fail", "exit"} : Moved(at) => StepInv'
    BY FailedStep
  <1>o. \A at : Moved(at) => Owned'
    BY OwnedKept
  <1>n. run' = NoRun => StepInv'
    BY OwnedKept, EndStep DEF NoRun
  <1>s. {"fail", "exit"} \subseteq Step
    BY DEF Step
  <1>w. "win" \in File /\ {"win"} \in SUBSET File /\ {"torn", "mark"} \subseteq File /\ Root \subseteq File
    BY DEF File, Root
  <1>1. CASE Open
    BY <1>1, <1>f, <1>n, OpeningWritings
  <1>2. CASE ColdCheck \/ Finish \/ LocalStageTimeout
    BY <1>2, <1>f, <1>n, <1>s, GoMoves DEF ColdCheck, Finish, LocalStageTimeout
  <1>3. CASE ReissueOpen
    BY <1>3, <1>f, OpeningWritings
  <1>4. CASE EnterStaging
    BY <1>4, <1>f, <1>n, StagingWriting
  <1>5. CASE StageOpen
    <2>1. ~vis.torn
      BY <1>5 DEF StageOpen, StepInv, Established
    <2>2. \/ Moved("exit")
          \/ /\ vis.mark = NoReq /\ vis' = Swept /\ Barrier(Root \cup {"win"})
             /\ Moved("staging") \/ Moved("stageIdle")
      BY <1>5, OpeningWritings
    <2>3. CASE /\ vis.mark = NoReq /\ vis' = Swept /\ Barrier(Root \cup {"win"})
               /\ Moved("staging") \/ Moved("stageIdle")
      <3>1. vis'.torn = vis.torn /\ vis'.mark = NoReq
        BY <1>w, <2>3, SweptFields DEF But
      <3>2. RootSynced'
        BY <2>3 DEF Barrier, RootSynced
      <3>3. dur.torn \/ dur.mark = vis.mark
        BY <2>3 DEF LagInv
      <3>4. "torn" \in Root \cup {"win"} /\ "mark" \notin Root \cup {"win"}
        BY DEF Root
      <3>5. dur'.mark = IF dur.torn /\ ~vis'.torn THEN vis'.mark ELSE dur.mark
        BY <2>3, <3>4 DEF Barrier
      <3>6. Settled'
        BY <2>1, <2>3, <3>1, <3>2, <3>3, <3>5 DEF Settled
      <3> QED BY <1>o, <2>1, <2>3, <3>1, <3>6 DEF StepInv, Established, Moved, Owned
    <2> QED BY <1>f, <2>2, <2>3
  <1>6. CASE StageIdle
    <2>1. ~vis.torn /\ Settled /\ vis.mark = NoReq
      BY <1>6 DEF StageIdle, StepInv, Established
    <2>2. Wrote("win", IdleWindow(vis.gen), {"win"}, "staging", "exit")
      BY <1>6, Writings
    <2>3. vis'.torn = vis.torn /\ vis'.mark = vis.mark
      BY <1>w, <2>2, WroteVis
    <2>4. Moved("staging") /\ Settled' => StepInv'
      BY <1>o, <2>1, <2>3 DEF StepInv, Established, Moved, Owned
    <2> QED BY <1>f, <1>w, <2>1, <2>2, <2>4, WroteSync
  <1> QED BY <1>1, <1>2, <1>3, <1>4, <1>5, <1>6

\* What a transaction has established depends on the files and on the memory of its own
\* process.
LEMMA SameStep ==
    ASSUME StepInv, vis' = vis, dur' = dur, run' = run, mem'[run.p] = mem[run.p]
    PROVE  StepInv'
  <1>1. active_terminal_result' = active_terminal_result /\ Settled' = Settled /\ RootSynced' = RootSynced
    BY DEF active_terminal_result, Settled, RootSynced
  <1>2. FirstAttemptAllowed' = FirstAttemptAllowed
    BY DEF FirstAttemptAllowed
  <1>3. run.op = "teardown" => mem'["daemon"] = mem["daemon"]
    BY DEF StepInv, Established
  <1> QED BY <1>1, <1>2, <1>3 DEF StepInv, Established

\* A transaction that takes the lock.
LEMMA RequestStep ==
    ASSUME TypeOK, Requests
    PROVE  StepInv'
  <1>1. PICK p \in Proc, op \in Op \ {"none"}, r \in Req \cup {NoReq} :
          /\ Acquire(p, op, r)
          /\ op = "finalize" => r \in Req
          /\ op = "teardown" => p = "daemon" /\ mem[p].up = "up" /\ mem[p].boot = "ready"
                                /\ mem[p].id # NoReq
          /\ op = "start" => p = "daemon" /\ mem[p].up = "down"
    BY RequestFacts
  <1>2. /\ vis' = vis /\ run'.p = p /\ run'.op = op /\ run'.req = r
        /\ run'.at = IF vis.torn THEN "tornRotate" ELSE FirstStep[op]
    BY <1>1, AcquireFacts
  <1>3. mem' = mem
    BY MemSame
  <1>4. CASE vis.torn
    BY <1>1, <1>2, <1>4 DEF StepInv, Established
  <1>5. CASE ~vis.torn
    <2>1. /\ FirstStep[op] \in {"lookup", "recover", "stageOpen", "reissue", "localStage", "tearCheck"}
          /\ FirstStep[op] = "lookup" => op = "finalize"
          /\ FirstStep[op] = "tearCheck" => op = "teardown"
      BY DEF FirstStep, Op
    <2> QED BY <1>1, <1>2, <1>3, <1>5, <2>1 DEF StepInv, Established
  <1> QED BY <1>4, <1>5

\* The steps that need no lock.
LEMMA FreeStep ==
    ASSUME TypeOK, TypeOK', StepInv,
           \/ Requests \/ StopInstall \/ RestartDaemon \/ (\E p \in Proc : Crash(p)) \/ PowerLoss
    PROVE  StepInv'
  <1>n. run' = NoRun => StepInv'
    BY OwnedKept, EndStep DEF NoRun
  <1>p. run.p \in Proc /\ mem \in [Proc -> Memory]
    BY Types
  <1>1. CASE Requests
    BY <1>1, RequestStep
  <1>2. CASE StopInstall
    <2>1. vis' = vis /\ dur' = dur /\ run' = run /\ run.p # "cli"
      BY <1>2 DEF StopInstall, disk
    <2>2. mem'[run.p] = mem[run.p]
      BY <1>2, <1>p, <2>1 DEF StopInstall
    <2> QED BY <2>1, <2>2, SameStep
  <1>3. CASE RestartDaemon \/ PowerLoss
    BY <1>3, <1>n DEF RestartDaemon, PowerLoss
  <1>4. ASSUME NEW p \in Proc, Crash(p) PROVE StepInv'
    <2>1. CASE run.p = p
      BY <1>4, <1>n, <2>1 DEF Crash
    <2>2. CASE run.p # p
      <3>1. vis' = vis /\ dur' = dur /\ run' = run
        BY <1>4, <2>2 DEF Crash, disk
      <3>2. mem'[run.p] = mem[run.p]
        BY <1>4, <1>p, <2>2 DEF Crash
      <3> QED BY <3>1, <3>2, SameStep
    <2> QED BY <2>1, <2>2
  <1> QED BY <1>1, <1>2, <1>3, <1>4

\* What a transaction has established stands until its next step, whatever the other
\* processes do.
LEMMA NextStepInv ==
    ASSUME TypeOK, TypeOK', DiskInv, LagInv, MemInv, StepInv, Next
    PROVE  StepInv'
  <1>1. LockHolder \/ Requests \/ StopInstall \/ RestartDaemon \/ (\E p \in Proc : Crash(p)) \/ PowerLoss
    BY NextSteps
  <1>2. CASE LockHolder
    BY <1>2, TeardownStep, InstallStep, RecoveryStep, ResultStep, NamespaceStep DEF LockHolder
  <1> QED BY <1>1, <1>2, FreeStep

\* A recovery that finds what a crash can leave recovers it, unless a command has swept
\* its window; and a start-up that has recovered finds its state and its delivery record
\* in step.
LEMMA NextRefusal ==
    ASSUME TypeOK, TypeOK', DiskInv, StepInv, RecoveryNeverRefuses, Next
    PROVE  RecoveryNeverRefuses'
  <1>0. vis \in Disk /\ Good(vis)
    BY MixEnds DEF TypeOK, DiskInv
  <1>1. ReissueOpen => (foreign => foreign')
    BY DEF ReissueOpen, TypeOK
  <1>2. CASE ~(Recover \/ Open)
    BY <1>1, <1>2, Histories DEF RecoveryNeverRefuses
  <1>3. CASE Recover
    <2>1. foreign' = foreign /\ (refused' => refused \/ RecoverNext = "refuse")
      BY <1>3 DEF Recover, TypeOK
    <2>2. RecoverNext = "refuse" => foreign
      <3> DEFINE c == vis.crumb
      <3>0. SUFFICES ASSUME c # NoExp, ~foreign PROVE RecoverNext # "refuse"
        BY DEF RecoverNext
      <3>1. c.req # NoReq /\ c.g0 # c.g1 /\ vis.gen \in Nat /\ c.g0 \in Nat /\ c.g1 \in Nat /\ vis.term.exp.g1 \in Nat
        BY <1>0, <3>0, GoodCrumb
      <3>2. /\ \/ vis.gen = c.g0 /\ vis.mark = NoReq
               \/ ArtifactsValid(c)
            /\ \/ /\ vis.gen = c.g0 /\ vis.term.ph # "prepared" /\ vis.term.exp.g1 < c.g0
               \/ vis.term = [ph |-> "prepared", exp |-> c] /\ vis.mark = c.req
               \/ vis.term = [ph |-> "final", exp |-> c] /\ vis.gen = c.g1
        BY <1>0, <3>0 DEF Good, CrumbOK, ArtifactsValid
      <3>3. vis.term.exp.g1 < c.g0 => vis.term.exp # c
        BY <1>0, <3>0, <3>1, GoodCrumb
      <3>4. vis.term.exp.g1 < c.g0 /\ vis.gen = c.g0 => vis.term.exp.g1 # vis.gen
        BY <3>1
      <3>5. ArtifactsValid(c) => vis.gen \in {c.g0, c.g1} /\ vis.mark = c.req
        BY DEF ArtifactsValid
      <3> HIDE DEF c
      <3> QED BY <3>0, <3>1, <3>2, <3>3, <3>4, <3>5 DEF RecoverNext, MayPrepare, c
    <2> QED BY <2>1, <2>2 DEF RecoveryNeverRefuses
  <1>4. CASE Open
    <2>1. foreign' = foreign /\ (refused' => refused \/ ~ReplayConsistent)
      BY <1>4 DEF Open, TypeOK
    <2>2. active_terminal_result => vis.boot # "early"
      BY <1>4 DEF Open, StepInv, Established
    <2>3. ReplayConsistent
      <3>1. SUFFICES ASSUME active_terminal_result
                     PROVE  \/ vis.boot = "restart" /\ vis.deliv.g1 # vis.gen
                            \/ vis.boot \in {"restart", "ready"} /\ vis.deliv = vis.term.exp
        BY DEF ReplayConsistent
      <3>2. vis.boot \in {"restart", "ready"}
        BY <1>0, <2>2, <3>1, DiskTypes
      <3>3. /\ vis.boot = "ready" => vis.deliv = vis.term.exp
            /\ vis.deliv.g1 = vis.gen => vis.deliv = vis.term.exp
        BY <1>0, <3>1 DEF Good, ResultOK, active_terminal_result
      <3> QED BY <3>2, <3>3
    <2> QED BY <2>1, <2>3 DEF RecoveryNeverRefuses
  <1> QED BY <1>2, <1>3, <1>4

-----------------------------------------------------------------------------
(* The invariant.                                                          *)

\* A new machine satisfies the invariant.
LEMMA InitInv == Init => InstallInv
  <1> SUFFICES ASSUME Init PROVE InstallInv
    OBVIOUS
  <1>1. NewDisk \in Disk
    BY NoReqFacts DEF NewDisk, Disk, IdleWindow, Window, NoArtifacts, Artifacts
  <1>2. /\ vis = NewDisk /\ dur = NewDisk /\ minted = 1 /\ run = NoRun /\ sent = {} /\ used = {} /\ heard = {}
        /\ foreign = FALSE /\ refused = FALSE /\ mem = [p \in Proc |-> Down]
    BY DEF Init
  <1>d. Down \in Memory
    BY DEF Down, Memory, IdleWindow, Window
  <1>3. TypeOK
    <2>1. left \in [faults : Nat, crashes : Nat, lost : Nat]
      BY InstallAssumption DEF Init
    <2>2. NoRun \in [p : Proc, op : Op, at : Step, req : Req \cup {NoReq}]
      BY DEF NoRun, Proc, Op, Step
    <2> QED BY <1>1, <1>2, <1>d, <2>1, <2>2 DEF TypeOK
  <1>n. /\ NewDisk.gen = 1 /\ NewDisk.crumb = NoExp /\ NewDisk.term.ph = "none" /\ NewDisk.term.exp = NoExp
        /\ NewDisk.deliv = NoExp /\ NewDisk.boot = "early" /\ NewDisk.torn = FALSE /\ NewDisk.mark = NoReq
        /\ NewDisk.win.req = NoReq
    BY DEF NewDisk, IdleWindow
  <1>4. DiskInv
    <2>1. SUFFICES ASSUME NEW d \in Disk, IsMix(d) PROVE Good(d)
      BY DEF DiskInv
    <2>2. /\ d.gen = 1 /\ d.crumb = NoExp /\ d.term.ph = "none" /\ d.term.exp = NoExp /\ d.deliv = NoExp
          /\ d.boot = "early" /\ d.mark = NoReq
      BY <1>2, <1>n, <2>1, MixFields
    <2> QED BY <1>2, <2>2, NoReqFacts DEF Good, GensOK, CrumbOK, ResultOK
  <1>5. LagInv /\ SentInv /\ RecoveryNeverRefuses
    BY <1>2, <1>n DEF LagInv, SentInv, RecoveryNeverRefuses
  <1>m. mem["daemon"] = Down /\ mem["cli"] = Down /\ \A p \in Proc : mem[p] = Down
    BY <1>2 DEF Proc
  <1>6. WindowInv
    <2>1. ASSUME NEW r \in Req, NEW g PROVE ~Names(r, g)
      BY <1>2, <1>m, <1>n, NoReqFacts, DownFacts DEF Names
    <2> QED BY <2>1 DEF WindowInv
  <1>7. MemInv
    BY <1>2, <1>m, <1>n, DownFacts DEF MemInv, active_terminal_result
  <1>8. StepInv
    BY <1>2 DEF StepInv, Established, NoRun
  <1> QED BY <1>3, <1>4, <1>5, <1>6, <1>7, <1>8 DEF InstallInv

\* Every step keeps the invariant.
LEMMA StepInstallInv == InstallInv /\ [Next]_vars => InstallInv'
  <1> SUFFICES ASSUME InstallInv, [Next]_vars PROVE InstallInv'
    OBVIOUS
  <1>1. CASE Next
    <2>0. TypeOK /\ DiskInv /\ LagInv /\ WindowInv /\ SentInv /\ MemInv /\ StepInv /\ RecoveryNeverRefuses
      BY DEF InstallInv
    <2>1. TypeOK'
      BY <1>1, <2>0, NextTypeOK
    <2>2. DiskInv'
      BY <1>1, <2>0, NextDiskInv
    <2>3. LagInv'
      BY <1>1, <2>0, <2>1, NextLagInv
    <2>4. WindowInv'
      BY <1>1, <2>0, <2>1, NextWindowInv
    <2>5. SentInv'
      BY <1>1, <2>0, NextSentInv
    <2>6. MemInv'
      BY <1>1, <2>0, <2>1, <2>2, NextMemInv
    <2>7. StepInv'
      BY <1>1, <2>0, <2>1, NextStepInv
    <2>8. RecoveryNeverRefuses'
      BY <1>1, <2>0, <2>1, NextRefusal
    <2> QED BY <2>1, <2>2, <2>3, <2>4, <2>5, <2>6, <2>7, <2>8 DEF InstallInv
  <1>2. CASE UNCHANGED vars
    <2>1. /\ vis' = vis /\ dur' = dur /\ minted' = minted /\ run' = run /\ mem' = mem /\ used' = used
          /\ sent' = sent /\ heard' = heard /\ refused' = refused /\ foreign' = foreign /\ left' = left
      BY <1>2 DEF vars
    <2>2. TypeOK' /\ RecoveryNeverRefuses'
      BY <2>1 DEF InstallInv, TypeOK, RecoveryNeverRefuses
    <2>3. DiskInv'
      <3>1. \A d : IsMix(d)' = IsMix(d)
        BY <2>1 DEF IsMix
      <3>2. \A d : Good(d)' = Good(d)
        BY <2>1 DEF Good, GensOK, CrumbOK, ResultOK, Begun
      <3> QED BY <3>1, <3>2 DEF InstallInv, DiskInv
    <2>4. LagInv' /\ SentInv'
      BY <2>1 DEF InstallInv, LagInv, SentInv, Begun
    <2>5. WindowInv'
      BY <2>1 DEF InstallInv, WindowInv, Names
    <2>6. MemInv'
      BY <2>1 DEF InstallInv, MemInv, Tearing, active_terminal_result
    <2>7. StepInv'
      BY <2>1, SameStep DEF InstallInv
    <2> QED BY <2>2, <2>3, <2>4, <2>5, <2>6, <2>7 DEF InstallInv
  <1> QED BY <1>1, <1>2

\* The invariant holds in every state of every behaviour, over crashes, power losses and
\* failed writes.
THEOREM InstallInvariant == Spec => []InstallInv
  <1> QED BY InitInv, StepInstallInv, PTL DEF Spec

\* Every variable has its type.
THEOREM TypeCorrect == Spec => []TypeOK
  <1>1. InstallInv => TypeOK
    BY DEF InstallInv
  <1> QED BY <1>1, InstallInvariant, PTL

\* What the stable files say after any crash can be recovered, unless a command has swept
\* the window that the recovery still needs.
THEOREM RecoveryAccepts == Spec => []RecoveryNeverRefuses
  <1>1. InstallInv => RecoveryNeverRefuses
    BY DEF InstallInv
  <1> QED BY <1>1, InstallInvariant, PTL

\* An Ack is given away only when no power loss can take back what it says.
THEOREM AcksBacked == Spec => []AckBacked
  <1>1. InstallInv => AckBacked
    <2>1. SUFFICES ASSUME InstallInv, NEW e \in sent, dur.gen = e.g1
                   PROVE  dur.mark = e.req /\ dur.deliv = e /\ dur.boot = "ready" /\ dur.crumb = NoExp
      BY DEF AckBacked
    <2>2. dur \in Disk /\ Good(dur)
      BY <2>1, MixEnds DEF InstallInv, DiskInv, TypeOK
    <2>3. dur.term = [ph |-> "final", exp |-> e] /\ dur.crumb = NoExp /\ dur.deliv = e /\ dur.boot = "ready"
      BY <2>1, <2>2 DEF Good, ResultOK
    <2>4. dur.mark = dur.term.exp.req
      BY <2>1, <2>2, <2>3 DEF Good, ResultOK
    <2> QED BY <2>3, <2>4
  <1> QED BY <1>1, InstallInvariant, PTL

\* A request that was answered belongs to one installation.
LEMMA OneInstall ==
    ASSUME TypeOK, WindowInv, SentInv, NEW e \in sent, NEW g \in Nat, Names(e.req, g)
    PROVE  g = e.g0
  <1>1. e.g0 \in Nat /\ e.req \in Req
    BY SentTypes DEF SentInv, Begun
  <1>2. Names(e.req, e.g0)
    BY DEF Names
  <1> QED BY <1>1, <1>2 DEF WindowInv

\* One generation has one Ack, and a request has at most one installation.
THEOREM OneAck == Spec => []OneAckPerInstall
  <1>1. InstallInv => OneAckPerInstall
    <2>1. SUFFICES ASSUME InstallInv, NEW e \in sent, NEW f \in sent, e # f
                   PROVE  e.g1 # f.g1 /\ e.req # f.req
      BY DEF OneAckPerInstall
    <2>2. e.g0 \in Nat /\ e.g1 \in Nat /\ f.g0 \in Nat /\ f.g1 \in Nat
      BY <2>1, SentTypes DEF InstallInv
    <2>3. e.g0 < e.g1 /\ f.g0 < f.g1 /\ (e.g1 <= f.g0 \/ f.g1 <= e.g0)
      BY <2>1 DEF InstallInv, SentInv, Begun
    <2>4. e.req = f.req => e.g0 = f.g0
      <3>1. Names(f.req, f.g0)
        BY DEF Names
      <3> QED BY <2>1, <2>2, <3>1, OneInstall DEF InstallInv
    <2> QED BY <2>2, <2>3, <2>4
  <1> QED BY <1>1, InstallInvariant, PTL

-----------------------------------------------------------------------------
(* The durable files implement the atomic installation.                    *)

\* What a step may do to the durable household: it stays, it is committed by a marker
\* that its durable breadcrumb names, or it was finished and is detached.
DurableStep ==
    \/ /\ Installed' = Installed
       /\ Installed # NoReq /\ dur.boot = "ready" => dur'.boot = "ready"
    \/ /\ Installed = NoReq /\ ~dur'.torn
       /\ dur'.crumb # NoExp /\ dur'.crumb.req = dur'.mark
    \/ Installed # NoReq /\ dur.boot = "ready" /\ Installed' = NoReq

\* A household that is durably ready is there.
LEMMA ReadyInstalled ==
    ASSUME TypeOK, DiskInv, dur.boot = "ready"
    PROVE  dur.mark # NoReq
  <1>1. Good(dur)
    BY MixEnds DEF TypeOK, DiskInv
  <1> QED BY <1>1 DEF Good, ResultOK

\* A power loss keeps one of the disks it may leave.
LEMMA LossDurable ==
    ASSUME TypeOK, TypeOK', DiskInv, LagInv, PowerLoss
    PROVE  DurableStep
  <1> DEFINE d == vis'
  <1>1. d \in Disk /\ dur' = d /\ IsMix(d)
    BY PowerLossFacts
  <1>2. /\ d.torn \in {vis.torn, dur.torn} /\ d.mark \in {vis.mark, dur.mark} /\ d.boot \in {vis.boot, dur.boot}
        /\ d.crumb \in {vis.crumb, dur.crumb}
    BY <1>1, MixFields
  <1>3. dur.torn /\ ~vis.torn /\ ~d.torn => d.mark = vis.mark
    BY <1>1 DEF IsMix
  <1>4. vis.torn \in BOOLEAN /\ dur.torn \in BOOLEAN
    BY Types, DiskTypes
  <1> HIDE DEF d
  <1>5. CASE dur.torn
    BY <1>1, <1>2, <1>3, <1>4, <1>5 DEF DurableStep, Installed, LagInv
  <1>6. CASE ~dur.torn /\ d.torn
    <2>1. dur.boot = "ready"
      BY <1>2, <1>6 DEF LagInv
    <2> QED BY <1>1, <1>6, <2>1, ReadyInstalled DEF DurableStep, Installed
  <1>7. CASE ~dur.torn /\ ~d.torn /\ d.mark = dur.mark
    <2>1. dur.boot = "ready" => d.boot = "ready"
      BY <1>2, <1>7 DEF LagInv
    <2> QED BY <1>1, <1>7, <2>1 DEF DurableStep, Installed
  <1>8. CASE ~dur.torn /\ ~d.torn /\ d.mark # dur.mark
    <2>1. d.mark = vis.mark /\ dur.mark = NoReq /\ d.crumb = vis.crumb /\ vis.crumb # NoExp
          /\ vis.crumb.req = vis.mark
      BY <1>2, <1>8 DEF LagInv
    <2> QED BY <1>1, <1>8, <2>1 DEF DurableStep, Installed
  <1> QED BY <1>5, <1>6, <1>7, <1>8

\* The detachment is of a finished household.
LEMMA DetachDurable ==
    ASSUME TypeOK, TypeOK', DiskInv, MemInv, StepInv, TearRename
    PROVE  DurableStep
  <1>1. /\ RootSynced /\ ~vis.torn /\ run.at = "tearRename"
        /\ mem["daemon"].up = "up" /\ mem["daemon"].boot = "ready" /\ mem["daemon"].id # NoReq
    BY DEF TearRename, StepInv, Established
  <1>2. dur.boot = "ready" /\ dur.mark # NoReq /\ ~dur.torn
    BY <1>1 DEF MemInv, Tearing
  <1>3. Wrote("torn", TRUE, Root, "tearBoot", "exit")
    BY Writings
  <1>4. CASE dur' = dur
    BY <1>4 DEF DurableStep, Installed
  <1>5. CASE Barrier(Root) /\ vis'.torn = TRUE
    <2>1. dur'.torn
      BY <1>5 DEF Barrier, Root
    <2> QED BY <1>2, <2>1 DEF DurableStep, Installed
  <1> QED BY <1>3, <1>4, <1>5 DEF Wrote

\* Every other step.
LEMMA PlainDurable ==
    ASSUME TypeOK, TypeOK', DiskInv, LagInv, StepInv, Next, ~TearRename, ~PowerLoss
    PROVE  DurableStep
  <1>1. HouseKept /\ HouseMoved
    BY HouseSteps
  <1>2. /\ dur'.torn \in {dur.torn, vis'.torn} /\ dur'.mark \in {dur.mark, vis'.mark}
        /\ dur'.boot \in {dur.boot, vis'.boot} /\ dur'.crumb \in {dur.crumb, vis'.crumb}
    BY <1>1 DEF HouseKept
  <1>3. /\ vis'.torn => vis.torn
        /\ ~vis.torn /\ vis.mark # NoReq => vis'.mark = vis.mark /\ (vis.boot = "ready" => vis'.boot = "ready")
        /\ vis'.mark = vis.mark \/ PromoteMarker \/ (vis.torn /\ RootSynced)
        /\ vis.torn /\ ~vis'.torn => vis'.mark = NoReq
        /\ vis.torn /\ ~RootSynced => vis'.boot = vis.boot
        /\ dur.torn /\ ~dur'.torn => dur'.mark = vis'.mark
    BY <1>1 DEF HouseKept, HouseMoved
  <1>4. /\ vis.torn \in BOOLEAN /\ dur.torn \in BOOLEAN /\ vis'.torn \in BOOLEAN /\ dur'.torn \in BOOLEAN
    BY DiskTypes DEF TypeOK
  <1>5. RootSynced => vis.torn = dur.torn /\ vis.crumb = dur.crumb
    BY DEF RootSynced, Root
  <1>6. PromoteMarker => /\ RootSynced /\ ~vis.torn /\ vis.mark = dur.mark /\ vis.mark = NoReq
                         /\ vis.crumb # NoExp /\ vis.crumb.req = run.req
    BY DEF PromoteMarker, StepInv, Established, Settled
  <1>7. CASE dur.torn
    <2>1. ~dur'.torn => dur'.mark = NoReq
      BY <1>2, <1>3, <1>4, <1>5, <1>6, <1>7 DEF LagInv
    <2> QED BY <1>4, <1>7, <2>1 DEF DurableStep, Installed
  <1>8. CASE ~dur.torn /\ dur'.torn
    <2>1. dur.boot = "ready"
      BY <1>2, <1>3, <1>4, <1>8 DEF LagInv
    <2> QED BY <1>8, <2>1, ReadyInstalled DEF DurableStep, Installed
  <1>9. CASE ~dur.torn /\ ~dur'.torn /\ dur.mark # NoReq
    <2>1. vis.mark = dur.mark
      BY <1>9 DEF LagInv
    <2>2. dur'.mark = dur.mark
      BY <1>2, <1>3, <1>5, <1>6, <1>9, <2>1
    <2>3. dur.boot = "ready" => vis.boot = "ready"
      BY <1>9 DEF LagInv
    <2>4. dur.boot = "ready" => dur'.boot = "ready"
      BY <1>2, <1>3, <1>5, <1>9, <2>1, <2>3
    <2> QED BY <1>9, <2>2, <2>4 DEF DurableStep, Installed
  <1>10. CASE ~dur.torn /\ ~dur'.torn /\ dur.mark = NoReq /\ dur'.mark # NoReq
    <2>1. dur'.mark = vis'.mark /\ vis'.mark # NoReq
      BY <1>2, <1>10
    <2>2. CASE PromoteMarker
      <3>1. Wrote("mark", run.req, {"mark"}, "recover", "recover") /\ "mark" \in File
        BY <2>2, Writings DEF File
      <3>2. vis'.crumb = vis.crumb /\ vis'.mark \in {vis.mark, run.req}
        BY <3>1, WroteVis
      <3> QED BY <1>2, <1>5, <1>6, <1>10, <2>1, <2>2, <3>2 DEF DurableStep, Installed
    <2>3. CASE ~PromoteMarker
      <3>1. vis'.mark = vis.mark /\ vis.mark # dur.mark
        BY <1>3, <1>5, <1>10, <2>1, <2>3 DEF LagInv
      <3>2. dur.crumb = vis.crumb /\ vis.crumb # NoExp /\ vis.crumb.req = vis.mark
        BY <1>10, <3>1 DEF LagInv
      <3>3. vis'.crumb = vis.crumb
        <4>1. ~Settled
          BY <3>1 DEF Settled
        <4>2. ~(Clear \/ RollbackClear \/ Begin)
          BY <4>1 DEF Clear, RollbackClear, Begin, StepInv, Established
        <4> QED BY <4>2, VisSteps DEF VisStep
      <3> QED BY <1>2, <1>10, <2>1, <3>1, <3>2, <3>3 DEF DurableStep, Installed
    <2> QED BY <2>2, <2>3
  <1>11. CASE ~dur.torn /\ ~dur'.torn /\ dur.mark = NoReq /\ dur'.mark = NoReq
    BY <1>11 DEF DurableStep, Installed
  <1> QED BY <1>4, <1>7, <1>8, <1>9, <1>10, <1>11

\* The durable breadcrumb names the durable household, and a household that is new.
Named == ~dur.torn /\ dur.crumb # NoExp /\ dur.crumb.req = dur.mark
Fresh == Installed \in Req /\ dur.boot # "ready" /\ \A e \in sent : e.req # Installed

\* A household that a durable breadcrumb names is not finished, and its request has not
\* been answered.
LEMMA FreshInstall == InstallInv /\ Named => Fresh
  <1> SUFFICES ASSUME InstallInv, ~dur.torn, dur.crumb # NoExp, dur.crumb.req = dur.mark
               PROVE  Fresh
    BY DEF Named
  <1>1. TypeOK /\ dur \in Disk /\ Good(dur)
    BY MixEnds DEF InstallInv, TypeOK, DiskInv
  <1>2. dur.crumb.g0 \in Nat /\ Begun(dur.crumb) /\ \A e \in sent : e.g1 <= dur.crumb.g0 /\ e.g1 \in Nat
    BY <1>1, GoodCrumb
  <1>3. Installed \in Req
    BY <1>2 DEF Installed, Begun
  <1>4. dur.boot # "ready"
    BY <1>1 DEF Good, CrumbOK
  <1>5. ASSUME NEW e \in sent, e.req = dur.mark PROVE FALSE
    <2>1. Names(e.req, dur.crumb.g0)
      BY <1>5 DEF Names
    <2>2. dur.crumb.g0 = e.g0
      BY <1>1, <1>2, <2>1, OneInstall DEF InstallInv
    <2>3. e.g0 < e.g1 /\ e.g0 \in Nat
      BY <1>1, SentTypes DEF InstallInv, SentInv, Begun
    <2> QED BY <1>2, <2>2, <2>3
  <1> QED BY <1>3, <1>4, <1>5 DEF Installed, Fresh

\* Every step is a step of the atomic installation, or changes nothing it speaks of.
LEMMA InstallSimulation ==
    InstallInv /\ InstallInv' /\ [Next]_vars => [Atomic!Next]_(Atomic!vars)
  <1> SUFFICES ASSUME InstallInv, InstallInv', [Next]_vars PROVE [Atomic!Next]_(Atomic!vars)
    OBVIOUS
  <1> DEFINE R == Installed # NoReq /\ dur.boot = "ready"
             T == {e.req : e \in sent}
  <1>0. TypeOK /\ TypeOK' /\ DiskInv /\ LagInv /\ MemInv /\ StepInv
    BY DEF InstallInv
  <1>s. Installed' = Installed /\ R' = R /\ T' = T => [Atomic!Next]_(Atomic!vars)
    BY DEF Atomic!vars
  <1>1. CASE UNCHANGED vars
    BY <1>1, <1>s DEF vars, Installed
  <1>2. CASE Ack
    <2>1. Settled /\ active_terminal_result /\ vis.boot = "ready" /\ ~vis.torn
      BY <1>0, <1>2 DEF Ack, StepInv, Established
    <2>2. /\ dur.boot = "ready" /\ ~dur.torn /\ dur.mark = vis.term.exp.req
      BY <2>1 DEF Settled, RootSynced, Root, active_terminal_result
    <2>3. dur.mark # NoReq
      BY <1>0, <2>2, ReadyInstalled
    <2>4. dur' = dur /\ sent' = sent \cup {vis.term.exp}
      BY <1>2 DEF Ack, disk
    <2>5. Installed' = Installed /\ Installed = vis.term.exp.req /\ Installed # NoReq /\ R /\ R'
      BY <2>2, <2>3, <2>4 DEF Installed
    <2>6. T' = T \cup {Installed}
      BY <2>4, <2>5
    <2> QED BY <2>5, <2>6 DEF Atomic!Next, Atomic!Tell
  <1>3. CASE Next /\ ~Ack
    <2>1. sent' = sent
      BY <1>0, <1>3, Histories
    <2>2. T' = T
      BY <2>1
    <2>3. DurableStep
      BY <1>0, <1>3, LossDurable, DetachDurable, PlainDurable
    <2>4. CASE Installed' = Installed /\ (R => dur'.boot = "ready")
      <3>1. CASE R' = R
        BY <1>s, <2>2, <2>4, <3>1
      <3>2. CASE R' # R
        <4>1. Installed # NoReq /\ ~R /\ R'
          BY <2>4, <3>2
        <4> QED BY <2>2, <2>4, <4>1 DEF Atomic!Next, Atomic!MakeReady
      <3> QED BY <3>1, <3>2
    <2>5. CASE Installed = NoReq /\ ~dur'.torn /\ dur'.crumb # NoExp /\ dur'.crumb.req = dur'.mark
      <3>1. /\ Installed' \in Req /\ dur'.boot # "ready" /\ \A e \in sent' : e.req # Installed'
        <4>1. Named'
          BY <2>5 DEF Named
        <4>2. Fresh'
          BY <4>1, FreshInstall, PTL
        <4> QED BY <4>2 DEF Fresh
      <3>2. Installed' \notin T /\ ~R /\ ~R'
        BY <2>1, <2>5, <3>1
      <3> QED BY <2>2, <2>5, <3>1, <3>2 DEF Atomic!Next, Atomic!Install
    <2>6. CASE R /\ Installed' = NoReq
      BY <2>2, <2>6 DEF Atomic!Next, Atomic!Remove
    <2> QED BY <2>3, <2>4, <2>5, <2>6 DEF DurableStep
  <1> QED BY <1>1, <1>2, <1>3

\* The files, through every interleaving of transactions, failed write, crash and power
\* loss, implement the installation that happens at once.
THEOREM InstallRefinement == Spec => InstallImplemented
  <1>1. Init => Atomic!Init
    BY NoReqFacts DEF Init, Atomic!Init, Installed, NewDisk
  <1> QED BY <1>1, InstallInvariant, InstallSimulation, PTL DEF Spec, InstallImplemented, Atomic!Spec
================================================================================
