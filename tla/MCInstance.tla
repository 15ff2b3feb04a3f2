------------------------------- MODULE MCInstance -------------------------------
(* Instances of InstanceLifecycle for TLC.                                 *)
EXTENDS InstanceLifecycle, TLC

CONSTANTS i1, i2, c1, o1

TwoInst == {i1, i2}
OneInst == {i1}
OneClaw == {c1}
SameClaw2 == i1 :> c1 @@ i2 :> c1
SameClaw1 == i1 :> c1
OneOp == {o1}
NoOp == {}
AllRequests == {"stop", "restart", "rebuild", "delete"}
StopRestart == {"stop", "restart"}

\* Of which trouble one behaviour may have how much: each quota covers a
\* combination that interacts.
Quota(ops, crashes, faults, tables, windows) ==
    [ops |-> ops, crashes |-> crashes, faults |-> faults, tables |-> tables, maint |-> windows]
CapacityQuotas == {Quota(1, 0, 0, 2, 0), Quota(1, 1, 1, 0, 0), Quota(0, 1, 1, 2, 0)}
LivenessQuotas == {Quota(0, 1, 0, 1, 1)}
ContentionQuotas == {Quota(0, 0, 0, 0, 0)}
RestartQuotas == {Quota(2, 0, 0, 0, 0)}

=============================================================================
