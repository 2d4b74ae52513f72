--------------------------- MODULE DeterministicDB ---------------------------
(***************************************************************************)
(* What a deterministic database promises: whatever the workers do, every  *)
(* read is answered as the serial order of the batch says, after the write *)
(* it depends on, every operation is executed exactly once, and an epoch   *)
(* leaves the state that serial execution leaves.  The protocols are free  *)
(* in the order in which they execute the operations of an epoch.          *)
(***************************************************************************)
EXTENDS Transactions

VARIABLES epoch,
          txs,      \* the batch of the epoch
          db,       \* db[k]: the version of row k the earlier epochs left
          done,     \* the operations that have been executed
          reads     \* the answers of the reads of this epoch

vars == <<epoch, txs, db, done, reads>>

Init ==
    /\ epoch = 1
    /\ txs \in Workloads
    /\ db = [k \in Keys |-> Loaded]
    /\ done = {}
    /\ reads = {}

\* The writer whose version an answer is, if it is one of this epoch.
Produced(v, k) ==
    v[1] = epoch =>
        \E o \in done : o[1] = v[2] /\ txs[o[1]][o[2]] = [ope |-> "Update", index |-> k]

Read(o) ==
    /\ epoch <= NumEpochs
    /\ o \in Reads(txs) \ done
    /\ LET k == txs[o[1]][o[2]].index
           v == SerialRead(txs, epoch, db, o[1], k)
       IN  /\ Produced(v, k)
           /\ reads' = reads \cup {[serial |-> o[1], index |-> k, version |-> v]}
    /\ done' = done \cup {o}
    /\ UNCHANGED <<epoch, txs, db>>

Write(o) ==
    /\ epoch <= NumEpochs
    /\ o \in Updates(txs) \ done
    /\ done' = done \cup {o}
    /\ UNCHANGED <<epoch, txs, db, reads>>

NewEpoch ==
    /\ epoch <= NumEpochs
    /\ done = Ops(txs)
    /\ epoch' = epoch + 1
    /\ db' = SerialResult(txs, epoch, db)
    /\ done' = {}
    /\ reads' = {}
    /\ IF epoch < NumEpochs THEN txs' \in Workloads ELSE UNCHANGED txs

Next == (\E o \in Ops(txs) : Read(o) \/ Write(o)) \/ NewEpoch

Spec == Init /\ [][Next]_vars
===============================================================================
