----------------------------- MODULE Transactions -----------------------------
(***************************************************************************)
(* The batches that the executables hand to the protocols: N * T           *)
(* transactions per epoch with fixed serial numbers, each a sequence of    *)
(* reads and updates (OperationSet), and what executing them one after the *)
(* other would do.                                                         *)
(***************************************************************************)
EXTENDS Integers, Sequences, FiniteSets, FiniteSetsExt

CONSTANTS N,           \* the literal 64: the number of workers
          T,           \* NUM_TXS_IN_ONE_EPOCH_IN_ONE_CORE
          Keys,        \* the rows of the table
          NumEpochs,   \* NUM_EPOCH
          Workloads    \* the batches an epoch may be given

Workers == 0 .. N - 1
Serials == 0 .. N * T - 1

Operations == [ope : {"Read", "Update"}, index : Keys]

ASSUME NAssumption == N \in Nat \ {0} /\ T \in Nat \ {0}

ASSUME KeysAssumption == IsFiniteSet(Keys) /\ Keys # {}

ASSUME EpochsAssumption == NumEpochs \in Nat \ {0}

no_dupulicate_key(tx) ==
    \A i, j \in DOMAIN tx : tx[i].index = tx[j].index => i = j

\* What the constructor of OperationSet makes: reads and updates in any order, of
\* keys that are drawn again as long as rw_set_ has them already.
OperationSet(tx) == tx \in Seq(Operations) /\ no_dupulicate_key(tx)

ASSUME WorkloadsAssumption ==
    /\ Workloads \subseteq [Serials -> Seq(Operations)]
    /\ \A batch \in Workloads : \A s \in Serials : OperationSet(batch[s])

\* An operation is named by its transaction and its place in rw_set_.
Ops(batch) == UNION {{<<s, j>> : j \in DOMAIN batch[s]} : s \in Serials}

Reads(batch)   == {o \in Ops(batch) : batch[o[1]][o[2]].ope = "Read"}
Updates(batch) == {o \in Ops(batch) : batch[o[1]][o[2]].ope = "Update"}

\* The order of the loops over transactions and over their operations.
Before(o, p) == o[1] < p[1] \/ (o[1] = p[1] /\ o[2] <= p[2])

First(S) == CHOOSE o \in S : \A p \in S : Before(o, p)

Writers(batch, k) == {o[1] : o \in {u \in Updates(batch) : batch[u[1]][u[2]].index = k}}

(***************************************************************************)
(* Versions and serial execution                                           *)
(***************************************************************************)

\* A version is named by the epoch and the serial number of its writer.
Versions == (0 .. NumEpochs) \X Serials

\* The version of the loader
Loaded == <<0, 0>>

\* What transaction s of epoch e reads of row k, when d is the state the
\* earlier epochs left.
SerialRead(batch, e, d, s, k) ==
    LET before == {u \in Writers(batch, k) : u < s}
    IN  IF before = {} THEN d[k] ELSE <<e, Max(before)>>

\* The state epoch e leaves.
SerialResult(batch, e, d) ==
    [k \in Keys |-> IF Writers(batch, k) = {} THEN d[k]
                    ELSE <<e, Max(Writers(batch, k))>>]
===============================================================================
