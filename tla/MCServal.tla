------------------------------- MODULE MCServal -------------------------------
(***************************************************************************)
(* Small instances of Serval.  With N = 2 there are two workers and four   *)
(* serial numbers, with N = 3 three and nine.                              *)
(***************************************************************************)
EXTENDS Serval

CONSTANTS k1, k2, k3

OneKey    == {k1}
ThreeKeys == {k1, k2, k3}

R(k) == [ope |-> "Read", index |-> k]
U(k) == [ope |-> "Update", index |-> k]

\* One row, every batch: each transaction reads it, updates it or neither.
AllBatches == [Serials -> {<<>>, <<R(k1)>>, <<U(k1)>>}]

\* Three cores.  In the first batch the workers meet on one row with their
\* first transactions, worker 0 with two; transaction 2 reads the row, and so
\* does 7, after a writer of its own core.  In the second one two workers update
\* three rows in the same order, and the third reads.
ThreeCoreBatches ==
    LET Batch(tx) == [s \in Serials |-> IF s \in DOMAIN tx THEN tx[s] ELSE <<>>]
    IN  {Batch((0 :> <<U(k1)>>) @@ (1 :> <<U(k1)>>) @@ (2 :> <<R(k1)>>)
                 @@ (3 :> <<U(k1)>>) @@ (6 :> <<U(k1)>>) @@ (7 :> <<R(k1)>>)),
         Batch((0 :> <<U(k1), U(k2), U(k3)>>) @@ (3 :> <<U(k1), U(k2), U(k3)>>)
                 @@ (6 :> <<R(k3)>>))}
===============================================================================
