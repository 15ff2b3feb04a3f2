---------------------------- MODULE HouseholdInstall ----------------------------
(***************************************************************************)
(* Joining a household: the install transaction of a candidate machine.    *)
(*                                                                         *)
(* A candidate stages a pairing window, the founder posts the finalize     *)
(* request for it, and the handler installs the household through a        *)
(* breadcrumb, staged artifacts, a commit marker, a terminal record and a  *)
(* rotation of the lifecycle generation.  Only a process started after the *)
(* rotation answers with the Ack.  Every transaction runs under the        *)
(* exclusive lifecycle lock of the state root; a process may die at any    *)
(* step, the machine may lose power, and any write may fail before or      *)
(* after its rename.                                                       *)
(*                                                                         *)
(* A file is what is visible (vis) and what is known to survive a power    *)
(* loss (dur).  A write is one step with three outcomes: renamed and       *)
(* synced, not done, or renamed and not synced.  A process killed between  *)
(* the two halves of a write is the third outcome followed by the death of *)
(* the process.                                                            *)
(***************************************************************************)
EXTENDS Naturals, FiniteSets

CONSTANTS
    Req,          \* join requests, each with the finalize request that answers it
    NoReq,        \* no request
    MaxFaults,    \* bound: reads and writes that fail
    MaxCrashes,   \* bound: processes that die and power losses
    MaxLost       \* bound: Acks that are lost on their way to the founder

ASSUME InstallAssumption ==
    /\ NoReq \notin Req
    /\ MaxFaults \in Nat /\ MaxCrashes \in Nat /\ MaxLost \in Nat

VARIABLES
    vis,      \* the files of the state root, as the processes see them
    dur,      \* what of them survives a power loss
    minted,   \* lifecycle generations drawn so far
    run,      \* the transaction that holds the lifecycle lock
    mem,      \* what the daemon and the install command hold in memory
    used,     \* requests that have been shown to the founder
    sent,     \* history: Acks given to the network, by expectation
    heard,    \* requests whose Ack has reached the founder
    refused,  \* history: a recovery has refused the files it found
    foreign,  \* history: a command has swept evidence of an open transaction
    left      \* what is left of the bounds

vars == <<vis, dur, minted, run, mem, used, sent, heard, refused, foreign, left>>
disk == <<vis, dur>>
history == <<sent, heard, refused, foreign>>

-----------------------------------------------------------------------------
(* Types.                                                                  *)

\* HouseholdInstallExpectation: the generation of the candidate, the reserved
\* terminal one, and the request with its marker and Ack bytes.
Exp == [g0 : Nat, g1 : Nat, req : Req \cup {NoReq}]
NoExp == [g0 |-> 0, g1 |-> 0, req |-> NoReq]

\* The pairing window of one lifecycle generation.  AwaitingOwner counts as
\* Staging, Aborted as Idle.
Window == [gen : Nat, st : {"Idle", "Staging", "Committed"}, req : Req \cup {NoReq}]
IdleWindow(g) == [gen |-> g, st |-> "Idle", req |-> NoReq]

Artifacts == [req : Req \cup {NoReq}, all : BOOLEAN]
NoArtifacts == [req |-> NoReq, all |-> FALSE]

\* crumb: the install breadcrumb; term: the terminal record; deliv: the delivery
\* record; boot: the bootstrap state, where "early" stands for the three states
\* before an installation; torn: household/ is household.tearing-down/; arts:
\* certificates, machine id and shard, staged or promoted; mark: the household
\* record, the commit marker; win: the one window that is kept.
Disk == [gen : Nat, crumb : Exp,
         term : [ph : {"none", "prepared", "final"}, exp : Exp],
         deliv : Exp, boot : {"early", "restart", "ready"}, torn : BOOLEAN,
         arts : Artifacts, mark : Req \cup {NoReq}, win : Window]
File == {"gen", "crumb", "term", "deliv", "boot", "torn", "arts", "mark", "win"}
\* The entries of the state root itself; one barrier covers them all.
Root == {"gen", "crumb", "term", "deliv", "boot", "torn"}

Op == {"none", "finalize", "start", "cold", "stage", "reissue", "localStage", "teardown"}
Step == {"none", "tornRotate", "tornBoot", "tornRemove", "lookup", "deliver", "ready",
         "publish", "ack", "begin", "artifacts", "promote", "window", "marker", "recover",
         "prepare", "rotate", "final", "clear", "rbHouse", "rbWin", "rbClear", "signal",
         "signalled", "repair", "open", "coldCheck", "stageOpen", "stageIdle", "staging",
         "reissue", "localStage", "tearCheck", "tearRotate", "tearRename", "tearBoot",
         "tearRemove", "fail", "exit"}
Proc == {"daemon", "cli"}
NoRun == [p |-> "daemon", op |-> "none", at |-> "none", req |-> NoReq]

\* cold: the install command has found nothing to recover and goes on to stage.
Memory == [up : {"down", "cold", "up"}, win : Window, boot : {"early", "restart", "ready"},
           id : Req \cup {NoReq}]
Down == [up |-> "down", win |-> IdleWindow(0), boot |-> "early", id |-> NoReq]

-----------------------------------------------------------------------------
(* Reads, writes and faults.                                               *)

Fault == left.faults > 0 /\ left' = [left EXCEPT !.faults = @ - 1]
NoFault == UNCHANGED left

Go(at) == run' = [run EXCEPT !.at = at]

\* A transaction that fails answers an error, or ends a process that cannot serve
\* without it.
Failed == IF run.op \in {"start", "cold", "stage", "reissue"} THEN "exit" ELSE "fail"

\* What lies in household.tearing-down/ is gone once its entry is.
Inside(was, is, files) == IF "torn" \in files /\ was.torn /\ ~is.torn THEN {"arts", "mark"} ELSE {}

Synced(new, files) ==
    [f \in File |-> IF f \in files \cup Inside(dur, new, files) THEN new[f] ELSE dur[f]]

\* The stabilised reads sync a file and its directory before they trust it.
Stabilise(files) == vis' = vis /\ dur' = Synced(vis, files)

\* Temporary file, rename, barrier of the directory, readback.
Write(new, files, ok, bad) ==
    \/ /\ NoFault
       /\ vis' = new
       /\ dur' = Synced(new, files)
       /\ Go(ok)
    \/ /\ Fault
       /\ Go(bad)
       /\ \/ UNCHANGED disk
          \/ vis' = new /\ dur' = dur

\* A terminal result is active while its generation is current and its marker is
\* installed.
active_terminal_result ==
    /\ vis.term.ph = "final"
    /\ vis.term.exp.g1 = vis.gen
    /\ vis.mark = vis.term.exp.req

-----------------------------------------------------------------------------
(* The lifecycle lock.  A teardown that was interrupted is finished by the *)
(* next holder, whatever it came for.                                      *)

FirstStep == [finalize |-> "lookup", start |-> "recover", cold |-> "recover",
              stage |-> "stageOpen", reissue |-> "reissue", localStage |-> "localStage",
              teardown |-> "tearCheck"]

Acquire(p, op, r) ==
    /\ run = NoRun
    /\ run' = [p |-> p, op |-> op, req |-> r,
               at |-> IF vis.torn THEN "tornRotate" ELSE FirstStep[op]]
    /\ UNCHANGED <<disk, minted, mem, used, history, left>>

\* Requests of the founder go to any process that listens, and are retried.
Finalize(p, r) == mem[p].up = "up" /\ r \in used /\ Acquire(p, "finalize", r)
StartDaemon == mem["daemon"].up = "down" /\ Acquire("daemon", "start", NoReq)
StartInstall == mem["cli"].up = "down" /\ Acquire("cli", "cold", NoReq)
StageInstall == mem["cli"].up = "cold" /\ Acquire("cli", "stage", NoReq)
Reissue == Acquire("cli", "reissue", NoReq) /\ mem["cli"].up = "down"
LocalStage == mem["daemon"].up = "up" /\ mem["daemon"].boot = "early"
              /\ Acquire("daemon", "localStage", NoReq)
Teardown == /\ mem["daemon"].up = "up" /\ mem["daemon"].boot = "ready"
            /\ mem["daemon"].id # NoReq
            /\ Acquire("daemon", "teardown", NoReq)

\* An error is answered, or the process ends; both give the lock back.
Finish ==
    /\ run.at \in {"fail", "exit"}
    /\ run' = NoRun
    /\ mem' = IF run.at = "exit" THEN [mem EXCEPT ![run.p] = Down] ELSE mem
    /\ UNCHANGED <<disk, minted, used, history, left>>

NextGeneration(new, ok, bad) ==
    /\ minted' = minted + 1
    /\ Write(new, Root, ok, bad)

Frame == UNCHANGED <<mem, used, history>>

\* recover_interrupted_household_teardown_under_lifecycle
TornRotate ==
    /\ run.at = "tornRotate"
    /\ NextGeneration([vis EXCEPT !.gen = minted + 1], "tornBoot", Failed)
    /\ Frame

TornBoot ==
    /\ run.at = "tornBoot"
    /\ Write([vis EXCEPT !.boot = "early"], Root, "tornRemove", Failed)
    /\ UNCHANGED minted /\ Frame

\* Start-up goes on; every other invocation is refused as stale, and a teardown
\* ends its process.
AfterTeardown == CASE run.op = "start" -> "recover"
                   [] run.op = "teardown" -> "exit"
                   [] OTHER -> Failed

NoHousehold == [vis EXCEPT !.torn = FALSE, !.arts = NoArtifacts, !.mark = NoReq]

TornRemove ==
    /\ run.at = "tornRemove"
    /\ Write(NoHousehold, Root \cup {"arts", "mark"}, AfterTeardown, Failed)
    /\ IF run.op = "localStage" /\ vis'.torn = FALSE
       THEN mem' = [mem EXCEPT ![run.p].boot = "early", ![run.p].id = NoReq]
       ELSE UNCHANGED mem
    /\ UNCHANGED <<minted, used, history>>

-----------------------------------------------------------------------------
(* local_finalize_handler: an exact replay is answered from the retained   *)
(* result, anything else must pass the gates of a first attempt.           *)

\* Mutant: the generation of the window is not compared with the current one.
FirstAttemptAllowed_mutant ==
    LET m == mem[run.p] IN
    /\ run.p = "daemon" => m.boot = "early"
    /\ m.win.st = "Staging" /\ m.win.req = run.req
\* The gates of a first attempt.  The daemon has a bootstrap state in memory, the
\* install command has none.
FirstAttemptAllowed ==
    LET m == mem[run.p] IN
    /\ run.p = "daemon" => m.boot = "early"
    /\ m.win.st = "Staging" /\ m.win.req = run.req
    /\ m.win.gen = vis.gen

LookupNext ==
    IF active_terminal_result
    THEN CASE vis.term.exp.req # run.req -> "fail"
           [] mem[run.p].win.gen # vis.gen -> "signal"
           [] OTHER -> "deliver"
    ELSE IF FirstAttemptAllowed THEN "begin" ELSE "fail"

Lookup ==
    /\ run.at = "lookup"
    /\ \/ NoFault /\ Stabilise(Root \cup {"mark"}) /\ Go(LookupNext)
       \/ Fault /\ Go("fail") /\ UNCHANGED disk
    /\ UNCHANGED minted /\ Frame

\* Mutant: the boundary is named only after Ready.
Deliver_mutant ==
    /\ run.at = "deliver"
    /\ Go("ready")
    /\ UNCHANGED <<disk, minted, left>> /\ Frame
\* prepare_finalize_ack_delivery_under_lifecycle names the delivery durably before
\* Ready or the Ack can be seen.
Deliver ==
    /\ run.at = "deliver"
    /\ CASE vis.deliv = vis.term.exp ->
              /\ NoFault /\ Stabilise(Root) /\ Go("ready")
         [] vis.deliv # vis.term.exp /\ vis.deliv.g1 = vis.gen ->
              /\ NoFault /\ Stabilise(Root) /\ Go("fail")
         [] OTHER -> Write([vis EXCEPT !.deliv = vis.term.exp], Root, "ready", "fail")
    /\ UNCHANGED minted /\ Frame

\* persist_ready_then_publish, once; later replays only read what it has stored.
Ready ==
    /\ run.at = "ready"
    /\ CASE vis.boot = "restart" ->
              Write([vis EXCEPT !.boot = "ready"], Root, "publish", "fail")
         [] vis.boot = "ready" -> NoFault /\ UNCHANGED disk /\ Go("ack")
         [] OTHER -> NoFault /\ UNCHANGED disk /\ Go("fail")
    /\ UNCHANGED minted /\ Frame

\* The request that stored Ready publishes it, a replay of it does not: a daemon
\* whose write of Ready failed after the rename answers a replay and is Ready in
\* memory only after its next start.
Ack ==
    /\ run.at \in {"publish", "ack"}
    /\ sent' = sent \cup {vis.term.exp}
    /\ mem' = IF run.at = "publish" THEN [mem EXCEPT ![run.p].boot = "ready"] ELSE mem
    /\ run' = NoRun
    /\ \/ heard' = heard \cup {run.req} /\ UNCHANGED left
       \/ /\ left.lost > 0
          /\ left' = [left EXCEPT !.lost = @ - 1]
          /\ UNCHANGED heard
    /\ UNCHANGED <<disk, minted, used, refused, foreign>>

\* begin_household_install_under_lifecycle reserves the terminal generation in the
\* breadcrumb.  Every failure is classified by the recovery.
Begin ==
    /\ run.at = "begin"
    /\ IF vis.crumb # NoExp \/ vis.term.ph = "prepared" \/ vis.mark # NoReq
       THEN NoFault /\ Stabilise(Root \cup {"mark"}) /\ Go("recover") /\ UNCHANGED minted
       ELSE NextGeneration([vis EXCEPT !.crumb = [g0 |-> vis.gen, g1 |-> minted + 1,
                                                  req |-> run.req]],
                           "artifacts", "recover")
    /\ Frame

\* stage_pair_machine_commit_under_lifecycle: nothing is in place yet.
StageArtifacts ==
    /\ run.at = "artifacts"
    /\ Write([vis EXCEPT !.arts = [req |-> run.req, all |-> FALSE]], {"arts"},
             "promote", "recover")
    /\ UNCHANGED minted /\ Frame

\* Mutant: the household record is promoted with the other artifacts.
PromoteArtifacts_mutant ==
    /\ run.at = "promote"
    /\ Write([vis EXCEPT !.arts.all = TRUE, !.mark = run.req], {"arts", "mark"},
             "window", "recover")
    /\ UNCHANGED minted /\ Frame
\* commit_preserve_on_error promotes the staged files one by one ...
PromoteArtifacts ==
    /\ run.at = "promote"
    /\ Write([vis EXCEPT !.arts.all = TRUE], {"arts"}, "window", "recover")
    /\ UNCHANGED minted /\ Frame

PromoteWindow ==
    /\ run.at = "window"
    /\ Write([vis EXCEPT !.win = [gen |-> vis.gen, st |-> "Committed", req |-> run.req]],
             {"win"}, "marker", "recover")
    /\ UNCHANGED minted /\ Frame

\* ... and the household record, the commit marker, last.
PromoteMarker ==
    /\ run.at = "marker"
    /\ Write([vis EXCEPT !.mark = run.req], {"mark"}, "recover", "recover")
    /\ UNCHANGED minted /\ Frame

-----------------------------------------------------------------------------
(* recover_household_install_under_lifecycle: rolls a partial install back,*)
(* and a committed one forward.                                            *)

\* validate_candidate_install_artifacts, the marker, and the generation.
ArtifactsValid(c) ==
    /\ vis.mark = c.req
    /\ vis.arts = [req |-> c.req, all |-> TRUE]
    /\ vis.win = [gen |-> c.g0, st |-> "Committed", req |-> c.req]
    /\ vis.gen \in {c.g0, c.g1}

\* ensure_terminal_result_prepared: only a finished record of an earlier
\* installation may be replaced, and only before the rotation.
MayPrepare(c) ==
    /\ vis.gen = c.g0
    /\ vis.term.ph # "prepared"
    /\ vis.term.ph = "final" => vis.term.exp.g1 # vis.gen

\* Mutant: an install whose terminal record was not prepared is rolled back.
RecoverNext_mutant ==
    LET c == vis.crumb IN
    CASE c = NoExp -> IF run.op = "finalize" THEN "fail" ELSE "repair"
      [] c # NoExp /\ vis.gen = c.g0 /\ vis.term.exp # c -> "rbHouse"
      [] c # NoExp /\ vis.gen = c.g0 /\ vis.term.exp = c -> "rotate"
      [] c # NoExp /\ vis.gen = c.g1 /\ vis.term.ph = "prepared" -> "final"
      [] c # NoExp /\ vis.gen = c.g1 /\ vis.term.ph = "final" -> "clear"
      [] OTHER -> "refuse"
RecoverNext ==
    LET c == vis.crumb IN
    CASE c = NoExp -> IF run.op = "finalize" THEN "fail" ELSE "repair"
      [] c # NoExp /\ vis.mark = NoReq /\ vis.gen = c.g0 -> "rbHouse"
      [] c # NoExp /\ vis.mark # NoReq /\ ArtifactsValid(c) ->
            IF vis.term.ph # "none" /\ vis.term.exp = c
            THEN CASE vis.term.ph = "prepared" /\ vis.gen = c.g0 -> "rotate"
                   [] vis.term.ph = "prepared" /\ vis.gen # c.g0 -> "final"
                   [] vis.term.ph = "final" /\ vis.gen = c.g1 -> "clear"
                   [] OTHER -> "refuse"
            ELSE IF MayPrepare(c) THEN "prepare" ELSE "refuse"
      [] OTHER -> "refuse"

Recover ==
    /\ run.at = "recover"
    /\ \/ /\ NoFault
          /\ Stabilise(Root \cup {"mark"})
          /\ Go(IF RecoverNext = "refuse" THEN Failed ELSE RecoverNext)
          /\ refused' = (refused \/ RecoverNext = "refuse")
       \/ Fault /\ Go(Failed) /\ UNCHANGED <<disk, refused>>
    /\ UNCHANGED <<minted, mem, used, sent, heard, foreign>>

Prepare ==
    /\ run.at = "prepare"
    /\ Write([vis EXCEPT !.term = [ph |-> "prepared", exp |-> vis.crumb]], Root,
             "rotate", Failed)
    /\ UNCHANGED minted /\ Frame

\* commit_reserved_lifecycle_generation
Rotate ==
    /\ run.at = "rotate"
    /\ Write([vis EXCEPT !.gen = vis.crumb.g1], Root, "final", Failed)
    /\ UNCHANGED minted /\ Frame

Final ==
    /\ run.at = "final"
    /\ Write([vis EXCEPT !.term.ph = "final"], Root, "clear", Failed)
    /\ UNCHANGED minted /\ Frame

Clear ==
    /\ run.at = "clear"
    /\ Write([vis EXCEPT !.crumb = NoExp], Root,
             IF run.op = "finalize" THEN "signal" ELSE "repair", Failed)
    /\ UNCHANGED minted /\ Frame

\* rollback_partial_candidate_install removes what was staged or promoted, ...
RollbackHouse ==
    /\ run.at = "rbHouse"
    /\ Write([vis EXCEPT !.arts = NoArtifacts, !.mark = NoReq], {"arts", "mark"},
             "rbWin", Failed)
    /\ UNCHANGED minted /\ Frame

\* ... closes the window, in memory before on disk, ...
RollbackWindow ==
    /\ run.at = "rbWin"
    /\ Write([vis EXCEPT !.win = IdleWindow(vis.gen)], {"win"}, "rbClear", Failed)
    /\ mem' = IF run.op = "finalize" THEN [mem EXCEPT ![run.p].win = IdleWindow(vis.gen)]
              ELSE mem
    /\ UNCHANGED <<minted, used, history>>

\* ... and only then clears the breadcrumb.
RollbackClear ==
    /\ run.at = "rbClear"
    /\ Write([vis EXCEPT !.crumb = NoExp], Root,
             IF run.op = "finalize" THEN "fail" ELSE "repair", Failed)
    /\ UNCHANGED minted /\ Frame

\* terminal_install_restart_response: the process that installed still holds the
\* windows of the old generation, so it asks for a restart.
Signal ==
    /\ run.at = "signal"
    /\ IF vis.boot = "early"
       THEN Write([vis EXCEPT !.boot = "restart"], Root, "signalled", "fail")
       ELSE NoFault /\ UNCHANGED disk
            /\ Go(IF run.p = "cli" THEN "exit" ELSE "fail")
    /\ UNCHANGED minted /\ Frame

\* The daemon publishes the state; the install command executes itself anew.
Signalled ==
    /\ run.at = "signalled"
    /\ run' = NoRun
    /\ mem' = IF run.p = "cli" THEN [mem EXCEPT !["cli"] = Down]
              ELSE [mem EXCEPT ![run.p].boot = "restart"]
    /\ UNCHANGED <<disk, minted, used, history, left>>

-----------------------------------------------------------------------------
(* Start-up of the daemon and of the install command.                      *)

\* Mutant: the state is repaired only when the recovery has rotated just now.
RepairBoot_mutant ==
    /\ run.at = "repair"
    /\ NoFault /\ Stabilise(Root \cup {"mark"})
    /\ Go(IF run.op = "start" THEN "open" ELSE "coldCheck")
    /\ UNCHANGED minted /\ Frame
\* recover_candidate_install_under_lifecycle: the crash may have come before the
\* bootstrap state was written.
RepairBoot ==
    LET next == IF run.op = "start" THEN "open" ELSE "coldCheck" IN
    /\ run.at = "repair"
    /\ IF active_terminal_result /\ vis.boot = "early"
       THEN Write([vis EXCEPT !.boot = "restart"], Root, next, Failed)
       ELSE NoFault /\ Stabilise(Root \cup {"mark"}) /\ Go(next)
    /\ UNCHANGED minted /\ Frame

\* active_terminal_replay_addr: the bootstrap state and the delivery record of an
\* active result must agree.
ReplayConsistent ==
    active_terminal_result =>
        \/ vis.boot = "restart" /\ vis.deliv.g1 # vis.gen
        \/ vis.boot \in {"restart", "ready"} /\ vis.deliv = vis.term.exp

\* Mutant: a sweep leaves no window behind.
Swept_mutant == [vis EXCEPT !.win = IF @.gen = vis.gen THEN @ ELSE NoReq]
\* current_under_lifecycle: windows of retired generations are swept.
Swept == [vis EXCEPT !.win = IF @.gen = vis.gen THEN @ ELSE IdleWindow(vis.gen)]

Open ==
    /\ run.at = "open"
    /\ \/ /\ NoFault /\ ReplayConsistent
          /\ vis' = Swept
          /\ dur' = Synced(Swept, Root \cup {"mark", "win"})
          /\ mem' = [mem EXCEPT !["daemon"] = [up |-> "up", win |-> Swept.win,
                                               boot |-> vis.boot, id |-> vis.mark]]
          /\ run' = NoRun
          /\ UNCHANGED refused
       \/ /\ NoFault /\ ~ReplayConsistent
          /\ Go("exit") /\ refused' = TRUE
          /\ UNCHANGED <<disk, mem>>
       \/ /\ Fault /\ Go("exit")
          /\ UNCHANGED <<disk, mem, refused>>
    /\ UNCHANGED <<minted, used, sent, heard, foreign>>

\* load_cold_terminal_replay: with a household installed the command becomes the
\* daemon or gives up; else it goes on to stage.
ColdCheck ==
    /\ run.at = "coldCheck"
    /\ IF vis.mark # NoReq THEN Go("exit") /\ UNCHANGED mem
       ELSE run' = NoRun /\ mem' = [mem EXCEPT !["cli"].up = "cold"]
    /\ UNCHANGED <<disk, minted, used, history, left>>

-----------------------------------------------------------------------------
(* Staging a window, and the other transactions.                           *)

\* run_pair_machine opens the current namespace and closes what it finds.
StageOpen ==
    /\ run.at = "stageOpen"
    /\ NoFault
    /\ IF vis.mark # NoReq THEN Go("exit") /\ UNCHANGED disk
       ELSE /\ vis' = Swept
            /\ dur' = Synced(Swept, Root \cup {"win"})
            /\ Go(IF Swept.win.st = "Idle" THEN "staging" ELSE "stageIdle")
    /\ UNCHANGED minted /\ Frame

StageIdle ==
    /\ run.at = "stageIdle"
    /\ Write([vis EXCEPT !.win = IdleWindow(vis.gen)], {"win"}, "staging", "exit")
    /\ UNCHANGED minted /\ Frame

\* enter_staging: the request is shown once the window is stored.
EnterStaging ==
    LET Staged(r) == [gen |-> vis.gen, st |-> "Staging", req |-> r] IN
    /\ run.at = "staging"
    /\ \/ \E r \in Req \ used :
             /\ NoFault
             /\ vis' = [vis EXCEPT !.win = Staged(r)]
             /\ dur' = Synced(vis', {"win"})
             /\ run' = NoRun
             /\ mem' = [mem EXCEPT !["cli"] = [up |-> "up", win |-> Staged(r),
                                               boot |-> "early", id |-> NoReq]]
             /\ used' = used \cup {r}
       \/ /\ Fault /\ Go("exit")
          /\ \/ UNCHANGED disk
             \/ vis' = [vis EXCEPT !.win = Staged(NoReq)] /\ dur' = dur
          /\ UNCHANGED <<mem, used>>
       \/ /\ Req \ used = {}
          /\ NoFault /\ Go("exit") /\ UNCHANGED <<disk, mem, used>>
    /\ UNCHANGED <<minted, history>>

\* The command's window expires, or its operator stops it.
StopInstall ==
    /\ mem["cli"].up # "down" /\ run.p # "cli"
    /\ mem' = [mem EXCEPT !["cli"] = Down]
    /\ UNCHANGED <<disk, minted, run, used, history, left>>

\* post_pair_machine_local_stage holds the lock exclusively and calls the variant
\* of prepare_candidate that takes it shared, through another descriptor: the
\* write of the window times out after the window in memory has changed.
LocalStageTimeout ==
    LET m == mem["daemon"] IN
    /\ run.at = "localStage"
    /\ Go("fail")
    /\ mem' = [mem EXCEPT !["daemon"].win =
                  IF m.win.st = "Idle" THEN [gen |-> m.win.gen, st |-> "Staging", req |-> NoReq]
                  ELSE IdleWindow(m.win.gen)]
    /\ UNCHANGED <<disk, minted, used, history, left>>

\* prepare_reissued_pair_device_window opens the current namespace without a
\* recovery of the install before it.
ReissueOpen ==
    /\ run.at = "reissue"
    /\ Go("exit")
    /\ IF vis.mark = NoReq THEN UNCHANGED <<disk, foreign>>
       ELSE /\ vis' = Swept
            /\ dur' = Synced(Swept, Root \cup {"win"})
            /\ foreign' = (foreign \/ (vis.crumb # NoExp /\ Swept # vis))
    /\ UNCHANGED <<minted, mem, used, sent, heard, refused, left>>

\* teardown_household_on_disk: the generation is rotated before the household is
\* detached, and the process ends whatever happens from there.
TearCheck ==
    /\ run.at = "tearCheck"
    /\ Go(IF vis.mark = mem["daemon"].id THEN "tearRotate" ELSE "fail")
    /\ UNCHANGED <<disk, minted, left>> /\ Frame

TearRotate ==
    /\ run.at = "tearRotate"
    /\ NextGeneration([vis EXCEPT !.gen = minted + 1], "tearRename", "exit")
    /\ Frame

TearRename ==
    /\ run.at = "tearRename"
    /\ Write([vis EXCEPT !.torn = TRUE], Root, "tearBoot", "exit")
    /\ UNCHANGED minted /\ Frame

TearBoot ==
    /\ run.at = "tearBoot"
    /\ Write([vis EXCEPT !.boot = "early"], Root, "tearRemove", "exit")
    /\ UNCHANGED minted /\ Frame

TearRemove ==
    /\ run.at = "tearRemove"
    /\ Write(NoHousehold, Root \cup {"arts", "mark"}, "exit", "exit")
    /\ UNCHANGED minted /\ Frame

-----------------------------------------------------------------------------
(* Restarts, crashes and power losses.                                     *)

\* The operator stops the daemon between two transactions.  The daemon never does
\* so by itself: its runtime_signal is None, so it answers that a restart is
\* required and serves on.
RestartDaemon ==
    /\ mem["daemon"].up = "up"
    /\ run = NoRun
    /\ mem' = [mem EXCEPT !["daemon"] = Down]
    /\ UNCHANGED <<disk, minted, run, used, history, left>>

CrashLeft == left.crashes > 0 /\ left' = [left EXCEPT !.crashes = @ - 1]

Crash(p) ==
    /\ CrashLeft
    /\ mem[p].up # "down" \/ (run.op # "none" /\ run.p = p)
    /\ mem' = [mem EXCEPT ![p] = Down]
    /\ run' = IF run.p = p THEN NoRun ELSE run
    /\ UNCHANGED <<disk, minted, used, history>>

\* Every file is as last synced or as last written.
PowerLoss ==
    /\ CrashLeft
    /\ mem' = [p \in Proc |-> Down]
    /\ run' = NoRun
    /\ \E kept \in SUBSET {f \in File : vis[f] # dur[f]} :
          vis' = [f \in File |-> IF f \in kept \cup Inside(dur, vis, kept) THEN vis[f]
                                 ELSE dur[f]]
    /\ dur' = vis'
    /\ UNCHANGED <<minted, used, history>>

-----------------------------------------------------------------------------

NewDisk == [gen |-> 1, crumb |-> NoExp, term |-> [ph |-> "none", exp |-> NoExp],
            deliv |-> NoExp, boot |-> "early", torn |-> FALSE, arts |-> NoArtifacts,
            mark |-> NoReq, win |-> IdleWindow(1)]

Init ==
    /\ vis = NewDisk /\ dur = NewDisk
    /\ minted = 1
    /\ run = NoRun
    /\ mem = [p \in Proc |-> Down]
    /\ used = {} /\ sent = {} /\ heard = {}
    /\ refused = FALSE /\ foreign = FALSE
    /\ left = [faults |-> MaxFaults, crashes |-> MaxCrashes, lost |-> MaxLost]

LockHolder ==
    \/ TornRotate \/ TornBoot \/ TornRemove
    \/ Lookup \/ Deliver \/ Ready \/ Ack
    \/ Begin \/ StageArtifacts \/ PromoteArtifacts \/ PromoteWindow \/ PromoteMarker
    \/ Recover \/ Prepare \/ Rotate \/ Final \/ Clear
    \/ RollbackHouse \/ RollbackWindow \/ RollbackClear
    \/ Signal \/ Signalled \/ RepairBoot \/ Open \/ ColdCheck
    \/ StageOpen \/ StageIdle \/ EnterStaging \/ LocalStageTimeout \/ ReissueOpen
    \/ TearCheck \/ TearRotate \/ TearRename \/ TearBoot \/ TearRemove
    \/ Finish

Next ==
    \/ LockHolder
    \/ \E p \in Proc, r \in Req : Finalize(p, r)
    \/ StartDaemon \/ StartInstall \/ StageInstall \/ StopInstall
    \/ Reissue \/ LocalStage \/ Teardown
    \/ RestartDaemon
    \/ (\E p \in Proc : Crash(p)) \/ PowerLoss

\* A transaction that has begun goes on.
Fairness == WF_vars(LockHolder)

Spec == Init /\ [][Next]_vars
FairSpec == Spec /\ Fairness

-----------------------------------------------------------------------------
(* Properties.                                                             *)

\* Every variable has its type.
TypeOK ==
    /\ vis \in Disk /\ dur \in Disk
    /\ minted \in Nat
    /\ run \in [p : Proc, op : Op, at : Step, req : Req \cup {NoReq}]
    /\ mem \in [Proc -> Memory]
    /\ used \subseteq Req /\ heard \subseteq Req /\ sent \subseteq Exp
    /\ refused \in BOOLEAN /\ foreign \in BOOLEAN
    /\ left \in [faults : Nat, crashes : Nat, lost : Nat]

\* What the stable files say after any crash can be recovered: a start-up never
\* refuses the state it finds ("household install recovery failed closed"), unless
\* a command has swept the window that a recovery still needs.
RecoveryNeverRefuses == refused => foreign

\* An Ack is given away only when a power loss cannot take back what it says: while
\* its generation is current, the household, the delivery record and Ready are all
\* durable.
AckBacked ==
    \A e \in sent : dur.gen = e.g1 =>
        dur.mark = e.req /\ dur.deliv = e /\ dur.boot = "ready" /\ dur.crumb = NoExp

\* An installation the founder may hold an Ack for is not overtaken by another
\* one: one generation has one Ack, and a request at most one installation.
OneAckPerInstall ==
    \A e, f \in sent : e # f => e.g1 # f.g1 /\ e.req # f.req

\* What the machine itself cannot do: somebody starts a daemon that is down,
\* restarts one that asks for it (it holds the windows of a retired generation, or
\* a transaction is open), and asks for r again.  The founder's own loop ends after
\* its retry budget, so the last is an operator's promise too.
RestartIfAsked ==
    /\ mem["daemon"].win.gen # vis.gen \/ vis.crumb # NoExp
    /\ RestartDaemon
Persistent(r) ==
    /\ SF_vars(StartDaemon)
    /\ SF_vars(RestartIfAsked)
    /\ SF_vars(Finalize("daemon", r))

\* However many failed writes, crashes, lost Acks and other commands have come
\* between, a household that has been committed is answered to whoever is persistent
\* enough: the files never get into a state from which no restart and no replay
\* leads to the Ack, unless the household is torn down or its evidence was swept.
InstallAnswered ==
    \A r \in Req : Persistent(r) =>
        ((vis.mark = r /\ ~vis.torn) ~>
            \/ r \in heard
            \/ vis.mark # r \/ vis.torn
            \/ vis.term.ph = "final" /\ vis.term.exp.req = r /\ vis.term.exp.g1 # vis.gen
            \/ foreign)

\* What survives a power loss, as an installation that happens at once: the marker
\* installs, Ready finishes, the rename of a teardown removes.
Installed == IF dur.torn THEN NoReq ELSE dur.mark
Atomic == INSTANCE AtomicInstall WITH
             inst <- Installed,
             ready <- Installed # NoReq /\ dur.boot = "ready",
             told <- {e.req : e \in sent}

\* The files of the state root, through every interleaving of transactions, failed
\* barrier, crash and power loss, implement the atomic installation: a recovery
\* never takes a committed household back, a teardown removes only a finished one,
\* and an Ack speaks of the household that is there.
InstallImplemented == Atomic!Spec

\* The comment of the start-up, that the current namespace may be opened only after
\* the recovery: what an open transaction needs to be recovered is there between
\* any two transactions.
RecoveryEvidenceKept ==
    run = NoRun /\ vis.crumb # NoExp /\ vis.mark # NoReq => ArtifactsValid(vis.crumb)
=============================================================================
