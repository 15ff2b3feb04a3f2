------------------------------- MODULE MCSigner --------------------------------
(* Instances of SignerControl for TLC.                                          *)
EXTENDS SignerControl, TLC

CONSTANTS t1, t2, t3, w1

ThreeTxns == {t1, t2, t3}
OneWorker == {w1}

B(f, c, r, t, l) == [faults |-> f, crashes |-> c, roster |-> r, ticks |-> t, loads |-> l]

\* A failed commit with a crash, or with an expiry; a roster that moves under the
\* signer; a delegation that ends under it.
RareEvents == {B(1, 1, 0, 0, 0), B(1, 0, 0, 1, 0), B(0, 0, 1, 0, 1), B(0, 0, 0, 1, 1)}

Symmetry == Permutations(Txn) \cup Permutations(Worker)

===============================================================================
