------------------------------ MODULE AtomicInstall ------------------------------
(***************************************************************************)
(* What joining a household promises: an installation happens at once, it  *)
(* is not taken back by anything but a teardown of the finished            *)
(* installation, the founder is told of it only once it is finished, and a *)
(* request the founder has been told about is never installed again.       *)
(***************************************************************************)
CONSTANTS Req, NoReq

VARIABLES
    inst,    \* the request of the household that is installed
    ready,   \* the installation has been finished
    told     \* requests whose Ack has been given away

vars == <<inst, ready, told>>

Init == inst = NoReq /\ ready = FALSE /\ told = {}

Install(r) ==
    /\ inst = NoReq /\ r \notin told
    /\ inst' = r
    /\ UNCHANGED <<ready, told>>

MakeReady ==
    /\ inst # NoReq /\ ~ready
    /\ ready' = TRUE
    /\ UNCHANGED <<inst, told>>

Tell ==
    /\ inst # NoReq /\ ready
    /\ told' = told \cup {inst}
    /\ UNCHANGED <<inst, ready>>

Remove ==
    /\ inst # NoReq /\ ready
    /\ inst' = NoReq /\ ready' = FALSE
    /\ UNCHANGED told

Next == (\E r \in Req : Install(r)) \/ MakeReady \/ Tell \/ Remove

Spec == Init /\ [][Next]_vars

=============================================================================
