--------------------------------- MODULE MCPty ---------------------------------
(* Instances of PtyBroker for TLC.                                              *)
EXTENDS PtyBroker

CONSTANT c1

OneConv == {c1}

===============================================================================
