------------------------------ MODULE MCCheetah ------------------------------
(***************************************************************************)
(* Small instances of Cheetah: with N = 2 two workers and four             *)
(* transactions, with N = 3 three and nine.                                *)
(***************************************************************************)
EXTENDS Cheetah, TLC

CONSTANTS k1, k2

OneKey  == {k1}
TwoKeys == {k1, k2}

R(k) == [ope |-> "Read", index |-> k]
U(k) == [ope |-> "Update", index |-> k]

\* One row, every batch: each transaction reads it, updates it or neither.
AllBatches == [Serials -> {<<>>, <<R(k1)>>, <<U(k1)>>}]

\* Two rows, three cores: writers of all cores, readers among them, and workers
\* that wait for each other's transactions in both directions (the execution
\* phase deals transactions 0, 3, 6 to the first worker, 1, 4, 7 to the second).
ThreeCoreBatches ==
    {[s \in Serials |-> IF s \in DOMAIN b THEN b[s] ELSE <<>>] :
        b \in {0 :> <<U(k1)>> @@ 2 :> <<R(k1)>> @@ 3 :> <<U(k1), U(k2)>> @@
               5 :> <<R(k1), R(k2)>> @@ 7 :> <<U(k1)>>,
               1 :> <<U(k2)>> @@ 3 :> <<R(k2), U(k1)>> @@ 4 :> <<U(k2), R(k1)>> @@
               6 :> <<R(k2)>>,
               0 :> <<U(k1)>> @@ 1 :> <<R(k1), U(k2)>> @@ 4 :> <<U(k1), R(k2)>> @@
               5 :> <<R(k1)>> @@ 6 :> <<U(k2), U(k1)>> @@ 8 :> <<R(k2), R(k1)>>,
               0 :> <<R(k1)>> @@ 4 :> <<R(k2)>>}}
==============================================================================
