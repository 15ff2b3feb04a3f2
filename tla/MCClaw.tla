--------------------------------- MODULE MCClaw ---------------------------------
(* Instances of ClawInstall for TLC.                                       *)
EXTENDS ClawInstall, TLC

CONSTANTS c1, j1, j2, h1, h2

OneClaw == {c1}
OneJob == {j1}
TwoJobs == {j1, j2}
OneCaller == {h1}
TwoCallers == {h1, h2}

\* Jobs and handlers are interchangeable; for runs without liveness.
Symmetry == Permutations(Job) \cup Permutations(Caller)

=============================================================================
