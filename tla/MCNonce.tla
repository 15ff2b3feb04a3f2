--------------------------------- MODULE MCNonce ---------------------------------
(* Instances of NonceLedger for TLC.                                       *)
EXTENDS NonceLedger, TLC

CONSTANTS i1, i2, p1, p2, c1, c2

TwoIntents == {i1, i2}
TwoProcs == {p1, p2}
TwoCallers == {c1, c2}
OneEach == c1 :> p1 @@ c2 :> p2
Together == c1 :> p1 @@ c2 :> p1
\* The floor 2 is past the first intent, and both can be asked for at 0.
Validity == i1 :> 1 @@ i2 :> 3

=============================================================================
