------------------------------ MODULE MCCaracal ------------------------------
(***************************************************************************)
(* Small instances of Caracal.                                             *)
(***************************************************************************)
EXTENDS Caracal

CONSTANTS k1, k2

OneKey  == {k1}
TwoKeys == {k1, k2}

R(k) == [ope |-> "Read", index |-> k]
U(k) == [ope |-> "Update", index |-> k]

\* One row that every transaction reads or updates.  The last transaction of
\* each worker follows an earlier one; the batches in which nobody updates the
\* row and in which everybody does are among them.
OneRowBatches ==
    {b \in [Serials -> {<<R(k1)>>, <<U(k1)>>}] : b[4] = b[2] /\ b[5] = b[0]}

\* Two rows, three workers with two transactions each.  In the first batch all
\* three meet on both rows; in the others their reads wait for each other's
\* transactions in both directions.
TwoRowBatches ==
    {[s \in Serials |-> IF s + 1 \in DOMAIN b THEN b[s + 1] ELSE <<>>] :
        b \in {<< <<U(k1), U(k2)>>, <<U(k2), U(k1)>>, <<U(k1), U(k2)>>, <<R(k2)>> >>,
              << <<U(k1), U(k2)>>, <<U(k2), R(k1)>>, <<U(k1)>>, <<R(k2)>>, <<R(k1)>> >>,
              << <<U(k1)>>, <<R(k1), U(k2)>>, <<U(k2)>>, <<R(k2), U(k1)>>, <<R(k1)>> >>}}
==============================================================================
