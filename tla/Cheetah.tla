------------------------------- MODULE Cheetah -------------------------------
(***************************************************************************)
(* Cheetah, protocols/cheetah, as executables/ycsb_cheetah.cpp drives it.  *)
(* In the write phase the workers record in bitmaps which transactions     *)
(* write a row; in the read phase every read finds the transaction it      *)
(* depends on and creates a placeholder for its version; only versions     *)
(* that are read, and the last one, ever exist.  In the execution phase    *)
(* the last reader of a row frees the placeholders and the last writer     *)
(* replaces the master version; whichever of the two comes later frees the *)
(* old master.                                                             *)
(*                                                                         *)
(* A phase ends when every worker has reached the barrier (Barrier.tla).   *)
(* lock, try_lock and unlock are single steps (RWLock).                    *)
(***************************************************************************)
EXTENDS Transactions, SequencesExt

\* The serial numbers are dealt in blocks of 64 and in strides of 64.
ASSUME SquareAssumption == T = N

NoVersion == <<0, -1>>
Free == -1

VARIABLES
    epoch,            \* the epoch of all workers
    phase,            \* "write", "read", "exec", "end"
    txs,              \* the batch of the epoch
    todo,             \* todo[w]: the operations of w's loop not begun
    op,               \* op[w]: the operation w is in
    row,              \* row[w]: the row w is at
    pc,               \* pc[w]: where w is
    bitmaps_,         \* bitmaps_[w][k]: the transactions of w that write row k
    pending_,         \* pending_[s][k]: Operation::pending_ of a read
    visible_id,       \* visible_id[w]: local variable of append_pending_version
    version,          \* version[w]: what identify_write_version has returned
    lock,             \* lock[k]: the holder of WriteBitmap::lock_
    ref_cnt_,         \* WriteBitmap::ref_cnt_
    core_bitmap_,     \* WriteBitmap::core_bitmap_, as a set of cores
    tx_bitmaps_,      \* WriteBitmap::tx_bitmaps_, a sequence of sets
    placeholders_,    \* WriteBitmap::placeholders_, the set of its versions,
                      \* each filed under the serial number in its name
    master_,          \* WriteBitmap::master_
    previous_master_, \* WriteBitmap::previous_master_
    status,           \* status[k][v]: "none" (no such object), "pending",
                      \* "written" (rec set, still PENDING), "stable"
    db,               \* the state the earlier epochs left (not in the code)
    reads             \* the answers of the epoch (the code drops them)

batchVars  == <<epoch, phase, txs, db>>
opVars     == <<todo, op, row>>
localVars  == <<bitmaps_, pending_, visible_id, version>>
bitmapVars == <<core_bitmap_, tx_bitmaps_>>
objectVars == <<placeholders_, master_, previous_master_, status>>
vars == <<batchVars, opVars, pc, localVars, lock, ref_cnt_, bitmapVars, objectVars,
          reads>>

\* core_ and get_tx_serial(serial_id_) of a transaction, the same in all phases
CoreOf(s) == s \div N
TxOf(s)   == s % N

\* The write and read phases deal the transactions in blocks, the execution
\* phase round-robin.
Block(w, ops)      == {o \in ops : o[1] \div N = w}
RoundRobin(w, ops) == {o \in ops : o[1] % N = w}

Goto(w, l) == pc' = [pc EXCEPT ![w] = l]

Serial(w) == op[w][1]

NoOps == [w \in Workers |-> <<0, 0>>]
NoRows == [w \in Workers |-> CHOOSE k \in Keys : TRUE]
NoIds == [w \in Workers |-> 0]
NoVersions == [w \in Workers |-> NoVersion]
NoPending == [s \in Serials |-> [k \in Keys |-> NoVersion]]

LocalsReset ==
    /\ op' = NoOps /\ row' = NoRows /\ visible_id' = NoIds /\ version' = NoVersions
    /\ pc' = [w \in Workers |-> "begin"]

Init ==
    /\ epoch = 1
    /\ phase = "write"
    /\ txs \in Workloads
    /\ todo = [w \in Workers |-> Block(w, Updates(txs))]
    /\ op = NoOps /\ row = NoRows /\ visible_id = NoIds /\ version = NoVersions
    /\ pc = [w \in Workers |-> "begin"]
    /\ bitmaps_ = [w \in Workers |-> [k \in Keys |-> {}]]
    /\ pending_ = NoPending
    /\ lock = [k \in Keys |-> Free]
    /\ ref_cnt_ = [k \in Keys |-> 0]
    /\ core_bitmap_ = [k \in Keys |-> {}]
    /\ tx_bitmaps_ = [k \in Keys |-> <<>>]
    /\ placeholders_ = [k \in Keys |-> {}]
    /\ master_ = [k \in Keys |-> Loaded]
    /\ previous_master_ = [k \in Keys |-> NoVersion]
    /\ status = [k \in Keys |-> [v \in Versions |->
                    IF v = Loaded THEN "stable" ELSE "none"]]
    /\ db = [k \in Keys |-> Loaded]
    /\ reads = {}

\* The next operation of a loop.  The write phase only notes it in bitmaps_
\* (update_write_bitmaps).
Begin(w) ==
    /\ phase # "end" /\ pc[w] = "begin" /\ todo[w] # {}
    /\ LET o == First(todo[w])
           k == txs[o[1]][o[2]].index
       IN  /\ op' = [op EXCEPT ![w] = o]
           /\ row' = [row EXCEPT ![w] = k]
           /\ todo' = [todo EXCEPT ![w] = @ \ {o}]
           /\ \/ /\ phase = "write"
                 /\ bitmaps_' = [bitmaps_ EXCEPT ![w][k] = @ \cup {TxOf(o[1])}]
                 /\ UNCHANGED pc
              \/ phase = "read" /\ Goto(w, "add_ref") /\ UNCHANGED bitmaps_
              \/ /\ phase = "exec"
                 /\ Goto(w, IF o \in Reads(txs) THEN "wait_stable" ELSE "write_lock")
                 /\ UNCHANGED bitmaps_
    /\ UNCHANGED <<batchVars, pending_, visible_id, version, lock, ref_cnt_,
                   bitmapVars, objectVars, reads>>

EndLoop(w) ==
    /\ phase # "end" /\ pc[w] = "begin" /\ todo[w] = {}
    /\ Goto(w, IF phase = "write" THEN "finalize" ELSE "done")
    /\ UNCHANGED <<batchVars, opVars, localVars, lock, ref_cnt_, bitmapVars,
                   objectVars, reads>>

\* Mutation: the lock is kept.
MutRelease(k) == UNCHANGED lock

Release(k) == lock' = [lock EXCEPT ![k] = Free]

\* lock() of row[w]
Lock(w, from, to) ==
    /\ pc[w] = from
    /\ lock[row[w]] = Free
    /\ lock' = [lock EXCEPT ![row[w]] = w]
    /\ Goto(w, to)
    /\ UNCHANGED <<batchVars, opVars, localVars, ref_cnt_, bitmapVars, objectVars,
                   reads>>

unlock(w) ==
    /\ pc[w] = "unlock"
    /\ Release(row[w])
    /\ Goto(w, "begin")
    /\ UNCHANGED <<batchVars, opVars, localVars, ref_cnt_, bitmapVars, objectVars,
                   reads>>
-------------------------------------------------------------------------------
(***************************************************************************)
(* Write phase: finalize_update_write_bitmaps                              *)
(***************************************************************************)

\* An entry whose row is locked is tried again in the next round.
finalize_try_lock(w) ==
    /\ pc[w] = "finalize"
    /\ \E k \in Keys : /\ bitmaps_[w][k] # {} /\ lock[k] = Free
                       /\ lock' = [lock EXCEPT ![k] = w]
                       /\ row' = [row EXCEPT ![w] = k]
    /\ Goto(w, "update_bitmap")
    /\ UNCHANGED <<batchVars, todo, op, localVars, ref_cnt_, bitmapVars, objectVars,
                   reads>>

count_prefix_sum(k, core) == Cardinality({c \in core_bitmap_[k] : c < core})

\* Mutation: bitmaps are appended in the order in which the cores come.
MutInsertPos(k, core) == Len(tx_bitmaps_[k]) + 1

InsertPos(k, core) == count_prefix_sum(k, core) + 1

update_bitmap(w) ==
    /\ pc[w] = "update_bitmap"
    /\ LET k == row[w]
       IN  /\ tx_bitmaps_' = [tx_bitmaps_ EXCEPT ![k] =
                                 InsertAt(@, InsertPos(k, w), bitmaps_[w][k])]
           /\ core_bitmap_' = [core_bitmap_ EXCEPT ![k] = @ \cup {w}]
    /\ Goto(w, "finalize_unlock")
    /\ UNCHANGED <<batchVars, opVars, localVars, lock, ref_cnt_, objectVars, reads>>

finalize_unlock(w) ==
    /\ pc[w] = "finalize_unlock"
    /\ Release(row[w])
    /\ bitmaps_' = [bitmaps_ EXCEPT ![w][row[w]] = {}]
    /\ Goto(w, "finalize")
    /\ UNCHANGED <<batchVars, opVars, pending_, visible_id, version, ref_cnt_,
                   bitmapVars, objectVars, reads>>

finalize_end(w) ==
    /\ pc[w] = "finalize" /\ \A k \in Keys : bitmaps_[w][k] = {}
    /\ Goto(w, "done")
    /\ UNCHANGED <<batchVars, opVars, localVars, lock, ref_cnt_, bitmapVars,
                   objectVars, reads>>
-------------------------------------------------------------------------------
(***************************************************************************)
(* Read phase: WriteBitmap::append_pending_version                         *)
(***************************************************************************)

IsFirstReader(k) == ref_cnt_[k] = 0

\* fetch_add; the reader that finds zero adds one more, later.
add_ref(w) ==
    /\ pc[w] = "add_ref"
    /\ ref_cnt_' = [ref_cnt_ EXCEPT ![row[w]] = @ + 1]
    /\ Goto(w, IF IsFirstReader(row[w]) THEN "add_first_ref" ELSE "identify")
    /\ UNCHANGED <<batchVars, opVars, localVars, lock, bitmapVars, objectVars, reads>>

add_first_ref(w) ==
    /\ pc[w] = "add_first_ref"
    /\ ref_cnt_' = [ref_cnt_ EXCEPT ![row[w]] = @ + 1]
    /\ Goto(w, "identify")
    /\ UNCHANGED <<batchVars, opVars, localVars, lock, bitmapVars, objectVars, reads>>

TxBitmap(k, core) == tx_bitmaps_[k][count_prefix_sum(k, core) + 1]

\* The largest writer of a core
LatestOf(k, core) == core * N + Max(TxBitmap(k, core))

\* identify_visible_version_in_bitmaps, as the set of the serial number found
\* or {}
identify_visible_version(k, s) ==
    LET core  == CoreOf(s)
        upto  == {c \in core_bitmap_[k] : c <= core}
        below == upto \ {core}
        own   == IF core \in upto THEN {t \in TxBitmap(k, core) : t < TxOf(s)} ELSE {}
    IN  IF own # {} THEN {core * N + Max(own)}
        ELSE IF below # {} THEN {LatestOf(k, Max(below))}
        ELSE {}

\* A read that depends on no writer of the epoch takes master_, without a lock.
read_master(w) ==
    /\ pc[w] = "identify"
    /\ identify_visible_version(row[w], Serial(w)) = {}
    /\ pending_' = [pending_ EXCEPT ![Serial(w)][row[w]] = master_[row[w]]]
    /\ Goto(w, "begin")
    /\ UNCHANGED <<batchVars, opVars, bitmaps_, visible_id, version, lock, ref_cnt_,
                   bitmapVars, objectVars, reads>>

identify(w) ==
    /\ pc[w] = "identify"
    /\ \E s \in identify_visible_version(row[w], Serial(w)) :
          visible_id' = [visible_id EXCEPT ![w] = s]
    /\ Goto(w, "placeholder_lock")
    /\ UNCHANGED <<batchVars, opVars, bitmaps_, pending_, version, lock, ref_cnt_,
                   bitmapVars, objectVars, reads>>

placeholder_lock(w) == Lock(w, "placeholder_lock", "placeholder")

\* placeholders_[s] or placeholders_.find(s), as a set
Filed(k, s) == {v \in placeholders_[k] : v[2] = s}

\* The placeholder that is there, or a new one
placeholder(w) ==
    /\ pc[w] = "placeholder"
    /\ LET k == row[w]
           v == <<epoch, visible_id[w]>>
       IN  \/ /\ Filed(k, visible_id[w]) = {}
              /\ placeholders_' = [placeholders_ EXCEPT ![k] = @ \cup {v}]
              /\ status' = [status EXCEPT ![k][v] = "pending"]
              /\ pending_' = [pending_ EXCEPT ![Serial(w)][k] = v]
           \/ /\ \E u \in Filed(k, visible_id[w]) :
                    pending_' = [pending_ EXCEPT ![Serial(w)][k] = u]
              /\ UNCHANGED <<placeholders_, status>>
    /\ Goto(w, "unlock")
    /\ UNCHANGED <<batchVars, opVars, bitmaps_, visible_id, version, lock, ref_cnt_,
                   bitmapVars, master_, previous_master_, reads>>
-------------------------------------------------------------------------------
(***************************************************************************)
(* Execution phase, reads: Serval::read and decrement_ref_cnt              *)
(***************************************************************************)
Source(w) == pending_[Serial(w)][row[w]]

\* Mutation: the status is not waited for.
MutNotPending(k, v) == TRUE

NotPending(k, v) == status[k][v] \notin {"pending", "written"}

wait_stable_and_execute_read(w) ==
    /\ pc[w] = "wait_stable"
    /\ NotPending(row[w], Source(w))
    /\ reads' = reads \cup {[serial |-> Serial(w), index |-> row[w], version |-> Source(w)]}
    /\ Goto(w, "decrement")
    /\ UNCHANGED <<batchVars, opVars, localVars, lock, ref_cnt_, bitmapVars, objectVars>>

\* Mutation: the last but one reader takes itself for the last.
MutIsFinalReader(k) == ref_cnt_[k] \in {2, 3}

\* sub_fetch == 1
IsFinalReader(k) == ref_cnt_[k] = 2

decrement_ref_cnt(w) ==
    /\ pc[w] = "decrement"
    /\ ref_cnt_' = [ref_cnt_ EXCEPT ![row[w]] = @ - 1]
    /\ Goto(w, IF IsFinalReader(row[w]) THEN "gc_lock" ELSE "begin")
    /\ UNCHANGED <<batchVars, opVars, localVars, lock, bitmapVars, objectVars, reads>>

gc_lock(w) == Lock(w, "gc_lock", "final_reader")

Delete(k, S) ==
    status' = [status EXCEPT ![k] =
                  [v \in Versions |-> IF v \in S THEN "none" ELSE @[v]]]

\* Mutation: the previous master is forgotten, not freed.
MutReaderFrees(k) == placeholders_[k]

ReaderFrees(k) == placeholders_[k] \cup {previous_master_[k]}

LastReference(k) == ref_cnt_[k] - 1

\* The final reader frees the old master, if the final writer has been here,
\* and all placeholders; only now ref_cnt_ becomes zero.
final_reader(w) ==
    /\ pc[w] = "final_reader"
    /\ Delete(row[w], ReaderFrees(row[w]))
    /\ previous_master_' = [previous_master_ EXCEPT ![row[w]] = NoVersion]
    /\ placeholders_' = [placeholders_ EXCEPT ![row[w]] = {}]
    /\ ref_cnt_' = [ref_cnt_ EXCEPT ![row[w]] = LastReference(row[w])]
    /\ Goto(w, "unlock")
    /\ UNCHANGED <<batchVars, opVars, localVars, lock, bitmapVars, master_, reads>>
-------------------------------------------------------------------------------
(***************************************************************************)
(* Execution phase, writes: upsert and identify_write_version              *)
(***************************************************************************)
is_final_state(k, s) ==
    /\ core_bitmap_[k] # {}
    /\ Max(core_bitmap_[k]) = CoreOf(s)
    /\ Max(Last(tx_bitmaps_[k])) = TxOf(s)

write_lock(w) == Lock(w, "write_lock", "identify_write")

\* placeholders_.erase(itr)
Unfile(k, vs) == placeholders_' = [placeholders_ EXCEPT ![k] = @ \ vs]

\* Mutations: the old master is freed although readers may still come; it is
\* stashed although no reader will come.
MutMasterUnused(k) == TRUE
MutMasterInUse(k)  == FALSE

\* ref_cnt_ == 0: no reader of the epoch is left, or there was none.
MasterUnused(k) == ref_cnt_[k] = 0

\* The final writer takes its placeholder or creates its version, makes it the
\* master and clears the bitmaps.
final_writer(w) ==
    /\ pc[w] = "identify_write" /\ is_final_state(row[w], Serial(w))
    /\ LET k   == row[w]
           vs  == Filed(k, Serial(w))
           new == IF vs = {} THEN <<epoch, Serial(w)>> ELSE CHOOSE v \in vs : TRUE
           old == IF MasterUnused(k) THEN {master_[k]} ELSE {}
       IN  /\ version' = [version EXCEPT ![w] = new]
           /\ Unfile(k, vs)
           /\ status' = [status EXCEPT ![k] =
                            [v \in Versions |-> IF v \in old THEN "none"
                                                ELSE IF v = new /\ vs = {} THEN "pending"
                                                ELSE @[v]]]
           /\ previous_master_' = [previous_master_ EXCEPT ![k] =
                                      IF MasterUnused(k) THEN @ ELSE master_[k]]
           /\ master_' = [master_ EXCEPT ![k] = new]
           /\ core_bitmap_' = [core_bitmap_ EXCEPT ![k] = {}]
           /\ tx_bitmaps_' = [tx_bitmaps_ EXCEPT ![k] = <<>>]
    /\ Goto(w, "write_unlock")
    /\ UNCHANGED <<batchVars, opVars, bitmaps_, pending_, visible_id, lock, ref_cnt_,
                   reads>>

\* Another writer has a version only if somebody reads it.
other_writer(w) ==
    /\ pc[w] = "identify_write" /\ ~is_final_state(row[w], Serial(w))
    /\ LET vs == Filed(row[w], Serial(w))
       IN  version' = [version EXCEPT ![w] =
                          IF vs = {} THEN NoVersion ELSE CHOOSE v \in vs : TRUE]
    /\ Goto(w, "write_unlock")
    /\ UNCHANGED <<batchVars, opVars, bitmaps_, pending_, visible_id, lock, ref_cnt_,
                   bitmapVars, objectVars, reads>>

write_unlock(w) ==
    /\ pc[w] = "write_unlock"
    /\ Release(row[w])
    /\ Goto(w, IF version[w] = NoVersion THEN "begin" ELSE "write_rec")
    /\ UNCHANGED <<batchVars, opVars, localVars, ref_cnt_, bitmapVars, objectVars, reads>>

\* The record is stored, then the status.
SetStatus(w, from, st, to) ==
    /\ pc[w] = from
    /\ status' = [status EXCEPT ![row[w]][version[w]] = st]
    /\ Goto(w, to)
    /\ UNCHANGED <<batchVars, opVars, localVars, lock, ref_cnt_, bitmapVars,
                   placeholders_, master_, previous_master_, reads>>

write_rec(w)    == SetStatus(w, "write_rec", "written", "write_status")
write_status(w) == SetStatus(w, "write_status", "stable", "begin")
-------------------------------------------------------------------------------
(***************************************************************************)
(* run_tx: the barriers between the phases                                 *)
(***************************************************************************)
AtBarrier == \A w \in Workers : pc[w] = "done"

StartReadPhase ==
    /\ phase = "write" /\ AtBarrier
    /\ phase' = "read"
    /\ todo' = [w \in Workers |-> Block(w, Reads(txs))]
    /\ LocalsReset
    /\ UNCHANGED <<epoch, txs, db, bitmaps_, pending_, lock, ref_cnt_, bitmapVars,
                   objectVars, reads>>

StartExecution ==
    /\ phase = "read" /\ AtBarrier
    /\ phase' = "exec"
    /\ todo' = [w \in Workers |-> RoundRobin(w, Ops(txs))]
    /\ LocalsReset
    /\ UNCHANGED <<epoch, txs, db, bitmaps_, pending_, lock, ref_cnt_, bitmapVars,
                   objectVars, reads>>

NewEpoch ==
    /\ phase = "exec" /\ AtBarrier
    /\ epoch' = epoch + 1
    /\ db' = SerialResult(txs, epoch, db)
    /\ reads' = {}
    /\ pending_' = NoPending
    /\ LocalsReset
    /\ \/ /\ epoch < NumEpochs
          /\ phase' = "write"
          /\ txs' \in Workloads
          /\ todo' = [w \in Workers |-> Block(w, Updates(txs'))]
       \/ /\ epoch >= NumEpochs
          /\ phase' = "end"
          /\ UNCHANGED <<txs, todo>>
    /\ UNCHANGED <<bitmaps_, lock, ref_cnt_, bitmapVars, objectVars>>

Step(w) ==
    \/ Begin(w) \/ EndLoop(w) \/ unlock(w)
    \/ finalize_try_lock(w) \/ update_bitmap(w) \/ finalize_unlock(w) \/ finalize_end(w)
    \/ add_ref(w) \/ add_first_ref(w) \/ read_master(w) \/ identify(w)
    \/ placeholder_lock(w) \/ placeholder(w)
    \/ wait_stable_and_execute_read(w) \/ decrement_ref_cnt(w)
    \/ gc_lock(w) \/ final_reader(w)
    \/ write_lock(w) \/ final_writer(w) \/ other_writer(w) \/ write_unlock(w)
    \/ write_rec(w) \/ write_status(w)

Next == \/ \E w \in Workers : Step(w)
        \/ StartReadPhase \/ StartExecution \/ NewEpoch

Spec == Init /\ [][Next]_vars

\* Every worker is pinned to a core of its own and keeps running.
Fairness == /\ \A w \in Workers : WF_vars(Step(w))
            /\ WF_vars(StartReadPhase)
            /\ WF_vars(StartExecution)
            /\ WF_vars(NewEpoch)

FairSpec == Spec /\ Fairness
-------------------------------------------------------------------------------
(***************************************************************************)
(* Properties                                                              *)
(***************************************************************************)
\* The operations of the epoch that have been executed.  A read has been once
\* its record is fetched, before the reference count is decremented.
Executed ==
    IF phase # "exec" THEN {}
    ELSE Ops(txs) \ UNION {todo[w] \cup
            IF pc[w] \in {"wait_stable", "write_lock", "identify_write",
                          "write_unlock", "write_rec", "write_status"}
            THEN {op[w]} ELSE {} : w \in Workers}

DDB == INSTANCE DeterministicDB WITH done <- Executed

\* Cheetah implements DeterministicDB: although most versions are never
\* created, every read is answered as the serial order of the batch says, not
\* before the write it depends on, and an epoch ends when every operation has
\* been executed once.
ImplementsDeterministicDB == DDB!Spec

Live(k) == {v \in Versions : status[k][v] # "none"}

\* The final reader and the final writer between them clean up, whichever comes
\* first: outside the read and execution phases a row has no references,
\* placeholders or previous master, and its only version is the result of the
\* last epoch that wrote it.
RowsCleanBetweenEpochs ==
    phase \in {"write", "end"} => \A k \in Keys :
        /\ ref_cnt_[k] = 0
        /\ placeholders_[k] = {}
        /\ previous_master_[k] = NoVersion
        /\ master_[k] = db[k]
        /\ Live(k) = {db[k]}
        /\ core_bitmap_[k] \subseteq {CoreOf(s) : s \in Writers(txs, k)}

\* After the write phase the bitmaps of a row name exactly the transactions of
\* the epoch that write it, in whichever order the cores came.
BitmapsDescribeWriters ==
    phase = "read" => \A k \in Keys :
        /\ core_bitmap_[k] = {CoreOf(s) : s \in Writers(txs, k)}
        /\ Len(tx_bitmaps_[k]) = Cardinality(core_bitmap_[k])
        /\ \A c \in core_bitmap_[k] :
              TxBitmap(k, c) = {TxOf(s) : s \in {u \in Writers(txs, k) : CoreOf(u) = c}}

\* The reads of row k that still hold a reference.
Referring(k) ==
    {o \in Reads(txs) : /\ txs[o[1]][o[2]].index = k
                        /\ \/ \E w \in Workers : o \in todo[w]
                           \/ \E w \in Workers : op[w] = o /\ pc[w] \in {"wait_stable", "decrement"}}

Collecting(k) == \E w \in Workers : row[w] = k /\ pc[w] \in {"gc_lock", "final_reader"}

\* ref_cnt_ is "#readers + 1" from the start of execution until the final reader
\* has collected, and zero from then on; the two increments of the first reader
\* and those of the others may come in any order.
RefCntCountsReaders ==
    phase = "exec" => \A k \in Keys :
        ref_cnt_[k] = Cardinality(Referring(k)) +
                      (IF Referring(k) # {} \/ Collecting(k) THEN 1 ELSE 0)

\* The version a reader has been given in the read phase is still there when it
\* gets to reading, however late that is.
ReadersVersionsLive ==
    phase = "exec" => \A k \in Keys : \A o \in Referring(k) \ Executed :
        status[k][pending_[o[1]][k]] # "none"

\* A writer never stores into a version that the final reader has freed.
WritersVersionsLive ==
    \A w \in Workers :
        /\ pc[w] \in {"write_rec", "write_status"}
             => status[row[w]][version[w]] \in {"pending", "written"}
        /\ pc[w] = "write_unlock" /\ version[w] # NoVersion
             => status[row[w]][version[w]] = "pending"

\* No version is leaked: every one that exists is a placeholder, the master or
\* the previous master, and these exist.
LiveVersionsOwned ==
    \A k \in Keys :
        Live(k) = (placeholders_[k] \cup {master_[k], previous_master_[k]}) \ {NoVersion}

\* All epochs finish: the retries of the write phase, the lock and the waits
\* for pending versions end.
AllEpochsFinish == <>(phase = "end")
===============================================================================
