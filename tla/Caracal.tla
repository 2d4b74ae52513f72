------------------------------- MODULE Caracal -------------------------------
(***************************************************************************)
(* Caracal, protocols/caracal, as executables/ycsb_caracal.cpp drives it.  *)
(* In the initialization phase the workers append pending versions to a    *)
(* row's global array, under its lock.  A worker that finds the lock taken *)
(* gives the row a buffer with one part per core; from then on workers     *)
(* append to their parts without a lock and move them to the global array  *)
(* in batches, when a part is full and at the end of the phase.            *)
(*                                                                         *)
(* A phase ends when every worker has reached the barrier (Barrier.tla).   *)
(* try_lock and unlock are single steps (RWLock).                          *)
(***************************************************************************)
EXTENDS Transactions

CONSTANTS NumRegions,   \* NUM_REGIONS
          MaxSlots      \* MAX_SLOTS_OF_PER_CORE_BUFFER

ASSUME BufferAssumption == NumRegions \in Nat /\ MaxSlots \in Nat \ {0}

Buffers == 1 .. NumRegions
NoBuffer == 0
Free == -1

\* Global ids are epoch << 32 | serial: versions are compared by epoch, then
\* by serial number.
Less(u, v) == u[1] < v[1] \/ (u[1] = v[1] /\ u[2] < v[2])

VARIABLES
    epoch,                  \* Caracal::epoch_, the same for all workers
    phase,                  \* "init", "exec", "end"; "aborted" after a throw
    txs,                    \* the batch of the epoch
    todo,                   \* todo[w]: the operations of w's loop not begun
    op,                     \* op[w]: the operation w is in
    row,                    \* row[w]: the row (val) w is at
    pc,                     \* pc[w]: where w is
    buffer,                 \* buffer[w]: new_buffer, then the buffer in use
    spare_buffer_,          \* Caracal::spare_buffer_
    appended_core_buffers_, \* the pairs <<val, buffer>> to finalize
    visible,                \* visible[w]: the version a read waits for
    lock,                   \* lock[k]: the holder of GlobalVersionArray::rwl
    row_buffer_,            \* Value::row_buffer_
    used_,                  \* RowBufferController::used_
    core_slots,             \* core_slots[b][c]: ids_slots_ of a PerCoreBuffer
    ids_slots_,             \* ids_slots_[k]: the global array, sorted by id
    status,                 \* status[k][v]: "none" (no such object), "pending",
                            \* "written" (rec set, still PENDING), "stable"
    db,                     \* the state the earlier epochs left (not in the code)
    reads                   \* the answers of the epoch (the code drops them)

batchVars  == <<epoch, phase, txs, db>>
opVars     == <<todo, op, row>>
arrayVars  == <<core_slots, ids_slots_, status>>
bufferVars == <<row_buffer_, used_, spare_buffer_>>
vars == <<batchVars, opVars, pc, buffer, appended_core_buffers_, visible, lock,
          bufferVars, arrayVars, reads>>

\* Both phases deal the transactions round-robin: serial_id_ = i * 64 + w.
Mine(w, ops) == {o \in ops : o[1] % N = w}

Goto(w, l) == pc' = [pc EXCEPT ![w] = l]

Pending(w) == <<epoch, op[w][1]>>

\* The local variables outside the operations of a phase
NoOps       == [w \in Workers |-> <<0, 0>>]
NoRows      == [w \in Workers |-> CHOOSE k \in Keys : TRUE]
NoBuffers   == [w \in Workers |-> NoBuffer]
NoneVisible == [w \in Workers |-> Loaded]

LocalsReset ==
    /\ op' = NoOps /\ row' = NoRows /\ buffer' = NoBuffers /\ visible' = NoneVisible
    /\ pc' = [w \in Workers |-> "begin"]

Init ==
    /\ epoch = 1
    /\ phase = "init"
    /\ txs \in Workloads
    /\ todo = [w \in Workers |-> Mine(w, Updates(txs))]
    /\ op = NoOps /\ row = NoRows /\ buffer = NoBuffers /\ visible = NoneVisible
    /\ pc = [w \in Workers |-> "begin"]
    /\ spare_buffer_ = [w \in Workers |-> NoBuffer]
    /\ appended_core_buffers_ = [w \in Workers |-> {}]
    /\ lock = [k \in Keys |-> Free]
    /\ row_buffer_ = [k \in Keys |-> NoBuffer]
    /\ used_ = 0
    /\ core_slots = [b \in Buffers |-> [c \in Workers |-> {}]]
    /\ ids_slots_ = [k \in Keys |-> {Loaded}]
    /\ status = [k \in Keys |-> [v \in Versions |->
                    IF v = Loaded THEN "stable" ELSE "none"]]
    /\ db = [k \in Keys |-> Loaded]
    /\ reads = {}

\* The next operation of the phase: w_set_ in do_initialization_phase, rw_set_
\* in do_execution_phase.
Begin(w) ==
    /\ phase \in {"init", "exec"} /\ pc[w] = "begin" /\ todo[w] # {}
    /\ LET o == First(todo[w])
       IN  /\ op' = [op EXCEPT ![w] = o]
           /\ row' = [row EXCEPT ![w] = txs[o[1]][o[2]].index]
           /\ todo' = [todo EXCEPT ![w] = @ \ {o}]
           /\ Goto(w, IF phase = "init" THEN "load_buffer"
                      ELSE IF o \in Reads(txs) THEN "read" ELSE "write_rec")
    /\ buffer' = [buffer EXCEPT ![w] = NoBuffer]
    /\ visible' = [visible EXCEPT ![w] = Loaded]
    /\ UNCHANGED <<batchVars, appended_core_buffers_, lock, bufferVars, arrayVars,
                   reads>>

\* The phase's loop is over; initialization goes on to the batch appends.
EndLoop(w) ==
    /\ phase \in {"init", "exec"} /\ pc[w] = "begin" /\ todo[w] = {}
    /\ Goto(w, IF phase = "init" THEN "finalize" ELSE "done")
    /\ UNCHANGED <<batchVars, opVars, buffer, appended_core_buffers_, visible, lock,
                   bufferVars, arrayVars, reads>>
-------------------------------------------------------------------------------
(***************************************************************************)
(* do_append_pending_version                                               *)
(***************************************************************************)

\* cur_buffer = load(row_buffer_); a row that has a buffer is contended.
may_be_contented(w) ==
    /\ pc[w] = "load_buffer"
    /\ buffer' = [buffer EXCEPT ![w] = row_buffer_[row[w]]]
    /\ Goto(w, IF row_buffer_[row[w]] # NoBuffer THEN "append" ELSE "try_lock")
    /\ UNCHANGED <<batchVars, opVars, appended_core_buffers_, visible, lock,
                   bufferVars, arrayVars, reads>>

\* Mutation: the lock is kept.
MutRelease(w) == UNCHANGED lock

Release(w) == lock' = [lock EXCEPT ![row[w]] = Free]

Acquire(w) == lock[row[w]] = Free /\ lock' = [lock EXCEPT ![row[w]] = w]

try_lock(w) ==
    /\ pc[w] = "try_lock"
    /\ \/ Acquire(w) /\ Goto(w, "append_global")
       \/ lock[row[w]] # Free /\ UNCHANGED lock /\ Goto(w, "get_buffer")
    /\ UNCHANGED <<batchVars, opVars, buffer, appended_core_buffers_, visible,
                   bufferVars, arrayVars, reads>>

\* Mutations: the latest version of the earlier epochs is collected as well; no
\* version is.
MutGarbageAll(k)  == {v \in ids_slots_[k] : v[1] < epoch}
MutGarbageNone(k) == {}

\* minor_gc: of the versions of earlier epochs only the latest is kept.
Garbage(k) ==
    {v \in ids_slots_[k] : \E u \in ids_slots_[k] : Less(v, u) /\ u[1] < epoch}

\* Mutation: the collected versions are erased but not deleted.
MutFreed(k) == {}

\* gc deletes what minor_gc erases.
Freed(k) == Garbage(k)

\* minor_gc, then the versions vs are appended; those in created are new.
AppendWithGC(k, vs, created) ==
    /\ ids_slots_' = [ids_slots_ EXCEPT ![k] = (@ \ Garbage(k)) \cup vs]
    /\ status' = [status EXCEPT ![k] =
                     [v \in Versions |-> IF v \in Freed(k) THEN "none"
                                         ELSE IF v \in created THEN "pending"
                                         ELSE @[v]]]

append_to_uncontended_row(w) ==
    /\ pc[w] = "append_global"
    /\ AppendWithGC(row[w], {Pending(w)}, {Pending(w)})
    /\ Goto(w, "unlock")
    /\ UNCHANGED <<batchVars, opVars, buffer, appended_core_buffers_, visible, lock,
                   bufferVars, core_slots, reads>>

unlock(w) ==
    /\ pc[w] = "unlock"
    /\ Release(w)
    /\ Goto(w, "begin")
    /\ UNCHANGED <<batchVars, opVars, buffer, appended_core_buffers_, visible,
                   bufferVars, arrayVars, reads>>

(***************************************************************************)
(* The lock is taken: install a buffer                                     *)
(***************************************************************************)
use_spare_buffer(w) ==
    /\ pc[w] = "get_buffer" /\ spare_buffer_[w] # NoBuffer
    /\ buffer' = [buffer EXCEPT ![w] = spare_buffer_[w]]
    /\ spare_buffer_' = [spare_buffer_ EXCEPT ![w] = NoBuffer]
    /\ Goto(w, "install")
    /\ UNCHANGED <<batchVars, opVars, appended_core_buffers_, visible, lock,
                   row_buffer_, used_, arrayVars, reads>>

Exhausted == used_ >= NumRegions

\* RowBufferController::fetch_new_buffer, under its lock; nobody catches its
\* exception.
fetch_new_buffer(w) ==
    /\ phase = "init" /\ pc[w] = "get_buffer" /\ spare_buffer_[w] = NoBuffer
    /\ \/ /\ ~Exhausted
          /\ used_' = used_ + 1
          /\ buffer' = [buffer EXCEPT ![w] = used_ + 1]
          /\ Goto(w, "install")
          /\ UNCHANGED phase
       \/ /\ Exhausted
          /\ phase' = "aborted"
          /\ UNCHANGED <<used_, buffer, pc>>
    /\ UNCHANGED <<epoch, txs, db, opVars, appended_core_buffers_, visible, lock,
                   row_buffer_, spare_buffer_, arrayVars, reads>>

\* Mutation: a store instead of an exchange.
MutExchangeable(k) == TRUE

Exchangeable(k) == row_buffer_[k] = NoBuffer

\* compare_exchange(row_buffer_, nullptr, new_buffer)
try_install_new_buffer(w) ==
    /\ pc[w] = "install"
    /\ \/ /\ Exchangeable(row[w])
          /\ row_buffer_' = [row_buffer_ EXCEPT ![row[w]] = buffer[w]]
          /\ Goto(w, "append")
       \/ /\ ~Exchangeable(row[w])
          /\ Goto(w, "load_other")
          /\ UNCHANGED row_buffer_
    /\ UNCHANGED <<batchVars, opVars, buffer, appended_core_buffers_, visible, lock,
                   used_, spare_buffer_, arrayVars, reads>>

\* Somebody else has installed a buffer: use that one and keep this one.
load_other_buffer(w) ==
    /\ pc[w] = "load_other"
    /\ buffer' = [buffer EXCEPT ![w] = row_buffer_[row[w]]]
    /\ spare_buffer_' = [spare_buffer_ EXCEPT ![w] = buffer[w]]
    /\ Goto(w, "append")
    /\ UNCHANGED <<batchVars, opVars, appended_core_buffers_, visible, lock,
                   row_buffer_, used_, arrayVars, reads>>
-------------------------------------------------------------------------------
(***************************************************************************)
(* append_to_contented_row and the batch appends                           *)
(***************************************************************************)

\* Mutation: the buffer counts as full one append too late.
MutHasRoom(slots) == Cardinality(slots) <= MaxSlots

\* What PerCoreBuffer::appendable returns, after it has inserted.
HasRoom(slots) == Cardinality(slots) < MaxSlots

\* Mutation: the row is not remembered for the last batch append.
MutRemember(w) == UNCHANGED appended_core_buffers_

\* appended_core_buffers_.insert keeps an entry that the row already has.
Remember(w) ==
    appended_core_buffers_' =
        IF \E p \in appended_core_buffers_[w] : p[1] = row[w]
        THEN appended_core_buffers_
        ELSE [appended_core_buffers_ EXCEPT ![w] = @ \cup {<<row[w], buffer[w]>>}]

append_to_contented_row(w) ==
    /\ pc[w] = "append"
    /\ status' = [status EXCEPT ![row[w]][Pending(w)] = "pending"]
    /\ core_slots' = [core_slots EXCEPT ![buffer[w]][w] = @ \cup {Pending(w)}]
    /\ \/ HasRoom(core_slots'[buffer[w]][w]) /\ Remember(w) /\ Goto(w, "begin")
       \/ /\ ~HasRoom(core_slots'[buffer[w]][w])
          /\ Goto(w, "lock")
          /\ UNCHANGED appended_core_buffers_
    /\ UNCHANGED <<batchVars, opVars, buffer, visible, lock, bufferVars, ids_slots_,
                   reads>>

\* lock() spins
lock_full(w) ==
    /\ pc[w] = "lock"
    /\ Acquire(w)
    /\ Goto(w, "batch_append")
    /\ UNCHANGED <<batchVars, opVars, buffer, appended_core_buffers_, visible,
                   bufferVars, arrayVars, reads>>

batch_append(w) ==
    /\ pc[w] \in {"batch_append", "final_append"}
    /\ AppendWithGC(row[w], core_slots[buffer[w]][w], {})
    /\ core_slots' = [core_slots EXCEPT ![buffer[w]][w] = {}]
    /\ Goto(w, IF pc[w] = "batch_append" THEN "unlock" ELSE "final_unlock")
    /\ UNCHANGED <<batchVars, opVars, buffer, appended_core_buffers_, visible, lock,
                   bufferVars, reads>>

\* finalize_batch_append_optimized: the entries are taken in any order, and one
\* whose row is locked is tried again in the next round.
finalize_try_lock(w) ==
    /\ pc[w] = "finalize"
    /\ \E p \in appended_core_buffers_[w] :
          /\ lock[p[1]] = Free
          /\ lock' = [lock EXCEPT ![p[1]] = w]
          /\ row' = [row EXCEPT ![w] = p[1]]
          /\ buffer' = [buffer EXCEPT ![w] = p[2]]
    /\ Goto(w, "final_append")
    /\ UNCHANGED <<batchVars, todo, op, appended_core_buffers_, visible,
                   bufferVars, arrayVars, reads>>

finalize_unlock(w) ==
    /\ pc[w] = "final_unlock"
    /\ Release(w)
    /\ appended_core_buffers_' =
           [appended_core_buffers_ EXCEPT ![w] = @ \ {<<row[w], buffer[w]>>}]
    /\ Goto(w, "finalize")
    /\ UNCHANGED <<batchVars, opVars, buffer, visible, bufferVars, arrayVars, reads>>

finalize_end(w) ==
    /\ pc[w] = "finalize" /\ appended_core_buffers_[w] = {}
    /\ Goto(w, "done")
    /\ UNCHANGED <<batchVars, opVars, buffer, appended_core_buffers_, visible, lock,
                   bufferVars, arrayVars, reads>>
-------------------------------------------------------------------------------
(***************************************************************************)
(* The execution phase                                                     *)
(***************************************************************************)

\* search_visible_version chooses the last of these.
Visible(k, id) == {v \in ids_slots_[k] : Less(v, id)}

read(w) ==
    /\ pc[w] = "read"
    /\ \E v \in Visible(row[w], Pending(w)) :
          /\ \A u \in Visible(row[w], Pending(w)) : u = v \/ Less(u, v)
          /\ visible' = [visible EXCEPT ![w] = v]
    /\ Goto(w, "wait_stable")
    /\ UNCHANGED <<batchVars, opVars, buffer, appended_core_buffers_, lock,
                   bufferVars, arrayVars, reads>>

Answer(w) == [serial |-> op[w][1], index |-> row[w], version |-> visible[w]]

\* Mutation: the status is not waited for.
MutNotPending(k, v) == TRUE

NotPending(k, v) == status[k][v] \notin {"pending", "written"}

wait_stable_and_execute_read(w) ==
    /\ pc[w] = "wait_stable"
    /\ NotPending(row[w], visible[w])
    /\ reads' = reads \cup {Answer(w)}
    /\ Goto(w, "begin")
    /\ UNCHANGED <<batchVars, opVars, buffer, appended_core_buffers_, visible, lock,
                   bufferVars, arrayVars>>

\* upsert stores the record, then the status.
SetStatus(w, from, st, to) ==
    /\ pc[w] = from
    /\ status' = [status EXCEPT ![row[w]][Pending(w)] = st]
    /\ Goto(w, to)
    /\ UNCHANGED <<batchVars, opVars, buffer, appended_core_buffers_, visible, lock,
                   bufferVars, core_slots, ids_slots_, reads>>

write_rec(w)    == SetStatus(w, "write_rec", "written", "write_status")
write_status(w) == SetStatus(w, "write_status", "stable", "begin")
-------------------------------------------------------------------------------
(***************************************************************************)
(* run_tx: the barriers between the phases                                 *)
(***************************************************************************)
AtBarrier == \A w \in Workers : pc[w] = "done"

StartExecution ==
    /\ phase = "init" /\ AtBarrier
    /\ phase' = "exec"
    /\ todo' = [w \in Workers |-> Mine(w, Ops(txs))]
    /\ LocalsReset
    /\ UNCHANGED <<epoch, txs, db, appended_core_buffers_, lock, bufferVars, arrayVars,
                   reads>>

NewEpoch ==
    /\ phase = "exec" /\ AtBarrier
    /\ epoch' = epoch + 1
    /\ db' = SerialResult(txs, epoch, db)
    /\ reads' = {}
    /\ LocalsReset
    /\ \/ /\ epoch < NumEpochs
          /\ phase' = "init"
          /\ txs' \in Workloads
          /\ todo' = [w \in Workers |-> Mine(w, Updates(txs'))]
       \/ /\ epoch >= NumEpochs
          /\ phase' = "end"
          /\ UNCHANGED <<txs, todo>>
    /\ UNCHANGED <<appended_core_buffers_, lock, bufferVars, arrayVars>>

Step(w) ==
    /\ phase \in {"init", "exec"}
    /\ \/ Begin(w) \/ EndLoop(w)
       \/ may_be_contented(w) \/ try_lock(w) \/ append_to_uncontended_row(w)
       \/ unlock(w) \/ use_spare_buffer(w) \/ fetch_new_buffer(w)
       \/ try_install_new_buffer(w) \/ load_other_buffer(w)
       \/ append_to_contented_row(w) \/ lock_full(w) \/ batch_append(w)
       \/ finalize_try_lock(w) \/ finalize_unlock(w) \/ finalize_end(w)
       \/ read(w) \/ wait_stable_and_execute_read(w)
       \/ write_rec(w) \/ write_status(w)

Next == (\E w \in Workers : Step(w)) \/ StartExecution \/ NewEpoch

Spec == Init /\ [][Next]_vars

\* Every worker is pinned to a core of its own and keeps running.
Fairness == /\ \A w \in Workers : WF_vars(Step(w))
            /\ WF_vars(StartExecution)
            /\ WF_vars(NewEpoch)

FairSpec == Spec /\ Fairness
-------------------------------------------------------------------------------
(***************************************************************************)
(* Properties                                                              *)
(***************************************************************************)
\* The operations of the epoch that have been executed: those no worker has
\* before it or is in.
Executed ==
    IF phase # "exec" THEN {}
    ELSE Ops(txs) \ UNION {todo[w] \cup
            IF pc[w] \in {"begin", "done"} THEN {} ELSE {op[w]} : w \in Workers}

DDB == INSTANCE DeterministicDB WITH done <- Executed

\* Caracal implements DeterministicDB: every read, even of a row that the epoch
\* does not write, is answered as the serial order of the batch says, not
\* before the write it depends on, and an epoch ends when every operation has
\* been executed once.
ImplementsDeterministicDB == DDB!Spec

InEpoch(S, e) == {v \in S : v[1] = e}

\* When execution starts nothing is left in a buffer, and the global array of a
\* row holds one version for every update of the epoch and, before them, the
\* final state of the earlier epochs, whichever way the versions came.
ExecutionFindsAllVersions ==
    phase = "exec" => \A k \in Keys :
        /\ InEpoch(ids_slots_[k], epoch) = {<<epoch, s>> : s \in Writers(txs, k)}
        /\ db[k] \in ids_slots_[k]
        /\ \A v \in ids_slots_[k] : v[1] < epoch => v = db[k] \/ Less(v, db[k])
        /\ \A b \in Buffers, w \in Workers : core_slots[b][w] = {}

\* minor_gc keeps memory bounded: a row that the epoch writes enters execution
\* with a single version of earlier epochs.
OldVersionsCollected ==
    phase = "exec" => \A k \in Keys :
        Writers(txs, k) # {} => Cardinality({v \in ids_slots_[k] : v[1] < epoch}) = 1

\* Where the versions of row k can be: its global array, and the parts of its
\* buffer.
Buffered(k) ==
    IF row_buffer_[k] = NoBuffer THEN {}
    ELSE UNION {core_slots[row_buffer_[k]][w] : w \in Workers}

Live(k) == {v \in Versions : status[k][v] # "none"}

\* No version is lost and none is freed while it is still reachable: the live
\* versions of a row are exactly those in its global array and its buffer.
LiveVersionsReachable ==
    \A k \in Keys : Live(k) = ids_slots_[k] \cup Buffered(k)

\* The asserts in gc: what is freed has its record and is stable, and belongs to
\* an earlier epoch.
OnlyStableVersionsFreed ==
    [][\A k \in Keys : \A v \in Versions :
          status[k][v] # "none" /\ status'[k][v] = "none" =>
              status[k][v] = "stable" /\ v[1] < epoch /\ v # db[k]]_vars

\* assert(ids_slots_.size() < MAX_SLOTS_OF_PER_CORE_BUFFER) in appendable: a
\* worker that is about to append has room, although nobody locks the buffer.
BufferHasRoom ==
    \A w \in Workers : pc[w] = "append" =>
        Cardinality(core_slots[buffer[w]][w]) < MaxSlots

Contended == {k \in Keys : row_buffer_[k] # NoBuffer}
Spares    == {w \in Workers : spare_buffer_[w] # NoBuffer}
Holding   == {w \in Workers : pc[w] \in {"install", "load_other"}}

\* No buffer is lost: every buffer handed out is installed, kept as the one
\* spare of a worker, or about to be one of the two.  So the program needs at
\* most as many buffers as there are contended rows and workers together.
BuffersAccounted ==
    used_ = Cardinality(Contended) + Cardinality(Spares) + Cardinality(Holding)

\* All epochs finish, unless the buffers run out: the retries of the last batch
\* appends and the waits for pending versions end.
AllEpochsFinish == <>(phase \in {"end", "aborted"})
===============================================================================
