------------------------------- MODULE MCHousehold -------------------------------
(* Instances of HouseholdInstall for TLC.                                  *)
EXTENDS HouseholdInstall, TLC

CONSTANTS r1, r2

OneReq == {r1}
TwoReqs == {r1, r2}

=============================================================================
