-------------------------------- MODULE Serval --------------------------------
(***************************************************************************)
(* Serval, the deterministic multi-version protocol of protocols/serval,   *)
(* as executables/ycsb_serval.cpp drives it.  An epoch is a batch of       *)
(* transactions with fixed serial numbers.  In the initialization phase    *)
(* the workers append one pending version per update; in the execution     *)
(* phase they read, each read waiting for the version before it in serial  *)
(* order, and write.  A row keeps its versions in one global array until a *)
(* worker finds the row locked; then it gets a region with one array per   *)
(* core, into which each worker appends without a lock.                    *)
(*                                                                         *)
(* A phase ends when every worker has reached the barrier: Barrier.tla,    *)
(* which RendezvousBarrier implements.  try_lock and unlock are single     *)
(* steps: RWLock!TryLockFailsOnlyWhenHeld and RWLock!MutualExclusion.      *)
(***************************************************************************)
EXTENDS Integers, Sequences, FiniteSets, FiniteSetsExt, Functions, SequencesExt

CONSTANTS N,           \* the literal 64: workers, and transactions of a worker
          Keys,        \* the rows of the table
          NumEpochs,   \* NUM_EPOCH
          NumRegions,  \* NUM_REGIONS
          Workloads    \* the batches an epoch may be given

Workers == 0 .. N - 1
Cores   == 0 .. N - 1
Serials == 0 .. N * N - 1
Regions == 1 .. NumRegions

Operations == [ope : {"Read", "Update"}, index : Keys]

\* A version is named by the epoch and the serial number of its writer; the
\* loader creates <<0, -1>> and <<0, -2>> for every row.  Its second component
\* is the id it is filed under in the global array.
Versions == (0 .. NumEpochs) \X (-2 .. N * N - 1)

NoRegion == 0
NoVersion == <<0, -3>>

ASSUME NAssumption == N \in Nat \ {0}

ASSUME KeysAssumption == IsFiniteSet(Keys) /\ Keys # {}

ASSUME EpochsAssumption == NumEpochs \in Nat \ {0} /\ NumRegions \in Nat

\* What the constructor of OperationSet makes: reads and updates in any order, of
\* keys that are drawn again as long as rw_set_ has them already.
OperationSet(tx) ==
    /\ tx \in Seq(Operations)
    /\ \A i, j \in DOMAIN tx : tx[i].index = tx[j].index => i = j

ASSUME WorkloadsAssumption ==
    /\ Workloads \subseteq [Serials -> Seq(Operations)]
    /\ \A batch \in Workloads : \A s \in Serials : OperationSet(batch[s])

VARIABLES
    epoch,              \* Serval::epoch_, the same for all workers in a phase
    phase,              \* "init", "exec", "end"; "aborted" after a throw
    txs,                \* the batch of the epoch: rw_set_ of every transaction
    todo,               \* todo[w]: the <<i, j>> of w's loops not yet done
    op,                 \* op[w]: core_, serial_id_ and the operation w is in
    pc,                 \* pc[w]: where w is
    region,             \* region[w]: the local variable `region'
    visible,            \* visible[w]: the local variable `visible' of read
    got,                \* got[w]: what the read of op[w] has returned
    lock,               \* lock[k]: the holder of Value::rwl, or -1
    row_epoch,          \* Value::epoch_
    master_,            \* Value::master_
    global_array_,      \* Value::global_array_, the set of its versions
    row_region_,        \* Value::row_region_
    used_,              \* RowRegionController::used_
    core_bitmap_,       \* RowRegion::core_bitmap_, as a set of cores
    transaction_bitmap_,\* PerCoreVersionArray::transaction_bitmap_, as a set
    slots_,             \* PerCoreVersionArray::slots_
    status,             \* status[k][v]: "none" (no such object), "pending",
                        \* "written" (rec set, still PENDING) or "stable"
    db                  \* db[k]: the last version of k in the serial order of
                        \* all earlier epochs (not in the code)

workerVars == <<todo, op, pc, region, visible, got>>
rowVars    == <<row_epoch, master_, global_array_>>
opVars     == <<todo, op, visible, got>>
regionVars == <<used_, core_bitmap_, transaction_bitmap_, slots_>>
batchVars  == <<epoch, phase, txs, db>>
memVars    == <<rowVars, regionVars, status>>
vars == <<batchVars, workerVars, lock, row_region_, memVars>>
-------------------------------------------------------------------------------
(***************************************************************************)
(* Work assignment                                                         *)
(***************************************************************************)

\* do_initialization_phase: worker w takes the serial numbers w*64 + i, in
\* blocks, with core_ = w ...
InitSerial(w, i) == w * N + i
InitCore(w, i)   == w

\* ... and do_execution_phase deals them round-robin: i*64 + w, core_ = i.
ExecSerial(w, i) == i * N + w
ExecCore(w, i)   == i

Serial(ph, w, i) == IF ph = "init" THEN InitSerial(w, i) ELSE ExecSerial(w, i)
Core(ph, w, i)   == IF ph = "init" THEN InitCore(w, i) ELSE ExecCore(w, i)

\* decompose_id_serial
get_core_serial(s) == s \div N
get_tx_serial(s)   == s % N

\* The iterations of both loops of a phase: w_set_ is the updates of rw_set_.
Work(ph, batch, w) ==
    {p \in (0 .. N - 1) \X (1 .. Cardinality(Keys)) :
        /\ p[2] \in DOMAIN batch[Serial(ph, w, p[1])]
        /\ ph = "init" => batch[Serial(ph, w, p[1])][p[2]].ope = "Update"}

Before(p, q) == p[1] < q[1] \/ (p[1] = q[1] /\ p[2] <= q[2])

Key(w) == op[w].index

Goto(w, l) == pc' = [pc EXCEPT ![w] = l]

NoOp == [core |-> 0, serial |-> 0, ope |-> "None", index |-> CHOOSE k \in Keys : TRUE]

Init ==
    /\ epoch = 1
    /\ phase = "init"
    /\ txs \in Workloads
    /\ todo = [w \in Workers |-> Work("init", txs, w)]
    /\ op = [w \in Workers |-> NoOp]
    /\ pc = [w \in Workers |-> "begin"]
    /\ region = [w \in Workers |-> NoRegion]
    /\ visible = [w \in Workers |-> NoVersion]
    /\ got = [w \in Workers |-> NoVersion]
    /\ lock = [k \in Keys |-> -1]
    /\ row_epoch = [k \in Keys |-> 0]
    /\ master_ = [k \in Keys |-> <<0, -2>>]
    /\ global_array_ = [k \in Keys |-> {<<0, -1>>}]
    /\ row_region_ = [k \in Keys |-> NoRegion]
    /\ used_ = 0
    /\ core_bitmap_ = [r \in Regions |-> {}]
    /\ transaction_bitmap_ = [r \in Regions |-> [c \in Cores |-> {}]]
    /\ slots_ = [r \in Regions |-> [c \in Cores |-> <<>>]]
    /\ status = [k \in Keys |-> [v \in Versions |->
                    IF v \in {<<0, -1>>, <<0, -2>>} THEN "stable" ELSE "none"]]
    /\ db = [k \in Keys |-> <<0, -1>>]

\* The next iteration of the loops of the phase.
Begin(w) ==
    /\ phase \in {"init", "exec"} /\ pc[w] = "begin"
    /\ \E p \in todo[w] :
        /\ \A q \in todo[w] : Before(p, q)
        /\ LET s == Serial(phase, w, p[1])
           IN  op' = [op EXCEPT ![w] = [core   |-> Core(phase, w, p[1]),
                                        serial |-> s,
                                        ope    |-> txs[s][p[2]].ope,
                                        index  |-> txs[s][p[2]].index]]
        /\ todo' = [todo EXCEPT ![w] = @ \ {p}]
    /\ Goto(w, IF phase = "init" THEN "epoch_guard"
               ELSE IF op'[w].ope = "Read" THEN "read" ELSE "write")
    /\ region' = [region EXCEPT ![w] = NoRegion]
    /\ visible' = [visible EXCEPT ![w] = NoVersion]
    /\ got' = [got EXCEPT ![w] = NoVersion]
    /\ UNCHANGED <<batchVars, lock, row_region_, memVars>>

Held(w)  == lock' = [lock EXCEPT ![Key(w)] = w]
IsFree(w) == lock[Key(w)] = -1

\* A try_lock that leads to label yes or to label no.
TryLock(w, from, yes, no) ==
    /\ phase = "init" /\ pc[w] = from
    /\ \/ IsFree(w) /\ Held(w) /\ Goto(w, yes)
       \/ ~IsFree(w) /\ UNCHANGED lock /\ Goto(w, no)
    /\ UNCHANGED <<batchVars, opVars, region, row_region_, memVars>>

Unlock(w, from, to) ==
    /\ phase = "init" /\ pc[w] = from
    /\ lock' = [lock EXCEPT ![Key(w)] = -1]
    /\ Goto(w, to)
    /\ UNCHANGED <<batchVars, opVars, region, row_region_, memVars>>
-------------------------------------------------------------------------------
(***************************************************************************)
(* epoch_guard: the first worker to reach the row in this epoch folds the  *)
(* versions of the last epoch that wrote it into master_.                  *)
(***************************************************************************)

\* while (epoch_ < ...), outside the lock
epoch_guard(w) ==
    /\ phase = "init" /\ pc[w] = "epoch_guard"
    /\ Goto(w, IF row_epoch[Key(w)] < epoch THEN "guard_try_lock" ELSE "try_lock")
    /\ UNCHANGED <<batchVars, opVars, region, lock, row_region_, memVars>>

guard_try_lock(w) ==
    TryLock(w, "guard_try_lock", "initialize_the_row", "epoch_guard")

Delete(k, S) ==
    status' = [status EXCEPT ![k] =
                  [v \in Versions |-> IF v \in S THEN "none" ELSE @[v]]]

Latest(S) == CHOOSE v \in S : \A u \in S : u[2] <= v[2]

has_dirty_region(k) ==
    row_region_[k] # NoRegion /\ core_bitmap_[row_region_[k]] # {}

\* Mutation: the epoch is not tested again under the lock, so a second worker
\* initializes the row once more.
MutInitializeTheRowNoRecheck(w) ==
    /\ phase = "init" /\ pc[w] = "initialize_the_row"
    /\ LET k == Key(w)
       IN  \/ /\ global_array_[k] # {}
              /\ LET latest == Latest(global_array_[k])
                 IN  /\ Delete(k, (global_array_[k] \ {latest}) \cup {master_[k]})
                     /\ master_' = [master_ EXCEPT ![k] = latest]
              /\ global_array_' = [global_array_ EXCEPT ![k] = {}]
           \/ global_array_[k] = {} /\ UNCHANGED <<master_, global_array_, status>>
    /\ Goto(w, "store_epoch")
    /\ UNCHANGED <<batchVars, opVars, region, lock, row_region_, row_epoch, regionVars>>

\* Under the lock: the epoch is tested again, and the final state of the row
\* replaces master_.  The other versions of the global array are freed at
\* once, those of a region when their core next writes the row.  A row whose
\* epoch is behind has versions: only the loader and the last epoch that wrote
\* it set it behind, so one of the first two cases applies.
initialize_the_row(w) ==
    /\ phase = "init" /\ pc[w] = "initialize_the_row"
    /\ LET k == Key(w)
           r == row_region_[k]
       IN  \/ /\ row_epoch[k] < epoch /\ global_array_[k] # {}
              /\ LET latest == Latest(global_array_[k])
                 IN  /\ Delete(k, (global_array_[k] \ {latest}) \cup {master_[k]})
                     /\ master_' = [master_ EXCEPT ![k] = latest]
              /\ global_array_' = [global_array_ EXCEPT ![k] = {}]
              /\ Goto(w, "store_epoch")
              /\ UNCHANGED <<core_bitmap_, slots_>>
           \/ /\ row_epoch[k] < epoch /\ global_array_[k] = {} /\ has_dirty_region(k)
              /\ LET c == Max(core_bitmap_[r])
                     n == Len(slots_[r][c])
                 IN  /\ master_' = [master_ EXCEPT ![k] = slots_[r][c][n]]
                     /\ slots_' = [slots_ EXCEPT ![r][c] = SubSeq(@, 1, n - 1)]
              /\ Delete(k, {master_[k]})
              /\ core_bitmap_' = [core_bitmap_ EXCEPT ![r] = {}]
              /\ Goto(w, "store_epoch")
              /\ UNCHANGED global_array_
           \/ /\ row_epoch[k] >= epoch
              /\ Goto(w, "guard_unlock")
              /\ UNCHANGED <<master_, global_array_, core_bitmap_, slots_, status>>
    /\ UNCHANGED <<batchVars, opVars, region, lock, row_region_, row_epoch, used_,
                   transaction_bitmap_>>

\* Mutation: with the epoch the row is reset altogether, its region given back.
MutStoreEpochDropsRegion(w) ==
    /\ phase = "init" /\ pc[w] = "store_epoch"
    /\ row_epoch' = [row_epoch EXCEPT ![Key(w)] = epoch]
    /\ row_region_' = [row_region_ EXCEPT ![Key(w)] = NoRegion]
    /\ used_' = IF row_region_[Key(w)] = NoRegion THEN used_ ELSE used_ - 1
    /\ Goto(w, "guard_unlock")
    /\ UNCHANGED <<batchVars, opVars, region, lock, master_, global_array_,
                   core_bitmap_, transaction_bitmap_, slots_, status>>

store_epoch(w) ==
    /\ phase = "init" /\ pc[w] = "store_epoch"
    /\ row_epoch' = [row_epoch EXCEPT ![Key(w)] = epoch]
    /\ Goto(w, "guard_unlock")
    /\ UNCHANGED <<batchVars, opVars, region, lock, row_region_, master_,
                   global_array_, regionVars, status>>

guard_unlock(w) == Unlock(w, "guard_unlock", "try_lock")
-------------------------------------------------------------------------------
(***************************************************************************)
(* do_append_pending_version                                               *)
(***************************************************************************)
try_lock(w) == TryLock(w, "try_lock", "locked", "wait_region")

\* new Version: pending, with no record
Create(w) == status' = [status EXCEPT ![Key(w)][<<epoch, op[w].serial>>] = "pending"]

\* append_to_unconted_row, under the lock
append_to_unconted_row(w) ==
    /\ phase = "init" /\ pc[w] = "locked" /\ row_region_[Key(w)] = NoRegion
    /\ Create(w)
    /\ global_array_' =
           [global_array_ EXCEPT ![Key(w)] = @ \cup {<<epoch, op[w].serial>>}]
    /\ Goto(w, "unlock")
    /\ UNCHANGED <<batchVars, opVars, region, lock, row_region_, row_epoch,
                   master_, regionVars>>

\* may_be_contented: the row has a region, which is used under the lock here
row_has_region(w) ==
    /\ phase = "init" /\ pc[w] = "locked" /\ row_region_[Key(w)] # NoRegion
    /\ region' = [region EXCEPT ![w] = row_region_[Key(w)]]
    /\ Goto(w, "locked_append")
    /\ UNCHANGED <<batchVars, opVars, lock, row_region_, memVars>>

unlock(w) == Unlock(w, "unlock", "begin")

(***************************************************************************)
(* wait_region_installation: the row was locked, so it is contended.       *)
(***************************************************************************)
wait_region_installation(w) ==
    /\ phase = "init" /\ pc[w] = "wait_region"
    /\ region' = [region EXCEPT ![w] = row_region_[Key(w)]]
    /\ Goto(w, IF row_region_[Key(w)] = NoRegion THEN "wait_try_lock" ELSE "append")
    /\ UNCHANGED <<batchVars, opVars, lock, row_region_, memVars>>

wait_try_lock(w) == TryLock(w, "wait_try_lock", "install", "wait_region")

\* Another worker has installed a region meanwhile.
already_installed(w) ==
    /\ phase = "init" /\ pc[w] = "install" /\ row_region_[Key(w)] # NoRegion
    /\ region' = [region EXCEPT ![w] = row_region_[Key(w)]]
    /\ Goto(w, "install_unlock")
    /\ UNCHANGED <<batchVars, opVars, lock, row_region_, memVars>>

Fetch(w) ==
    /\ region' = [region EXCEPT ![w] = used_ + 1]
    /\ used_' = used_ + 1
    /\ Goto(w, "move")

FetchUnchanged == UNCHANGED <<epoch, txs, db, opVars, lock, rowVars, core_bitmap_,
                              transaction_bitmap_, slots_, status>>

\* Mutations of fetch_new_region and its call: used_ is not counted up; the
\* region is installed before it is filled; row_region_ is not tested again
\* under the lock.
MutFetchNotCounted(w) ==
    /\ phase = "init" /\ pc[w] = "install" /\ row_region_[Key(w)] = NoRegion
    /\ used_ < NumRegions
    /\ region' = [region EXCEPT ![w] = used_ + 1]
    /\ Goto(w, "move")
    /\ FetchUnchanged /\ UNCHANGED <<phase, row_region_, used_>>

MutFetchPublishesEarly(w) ==
    /\ phase = "init" /\ pc[w] = "install" /\ row_region_[Key(w)] = NoRegion
    /\ used_ < NumRegions
    /\ Fetch(w)
    /\ row_region_' = [row_region_ EXCEPT ![Key(w)] = used_ + 1]
    /\ FetchUnchanged /\ UNCHANGED phase

MutFetchNoRecheck(w) ==
    /\ phase = "init" /\ pc[w] = "install"
    /\ used_ < NumRegions
    /\ Fetch(w)
    /\ FetchUnchanged /\ UNCHANGED <<phase, row_region_>>

\* RowRegionController::fetch_new_region; nobody catches its exception.
fetch_new_region(w) ==
    /\ phase = "init" /\ pc[w] = "install" /\ row_region_[Key(w)] = NoRegion
    /\ \/ used_ < NumRegions /\ Fetch(w) /\ UNCHANGED phase
       \/ /\ used_ >= NumRegions
          /\ phase' = "aborted"
          /\ UNCHANGED <<pc, region, used_>>
    /\ FetchUnchanged /\ UNCHANGED row_region_

\* Mutations of the first write of a core: the array is not collected; its
\* bitmap, which pop_latest leaves as it was, is not reset; the bit is stored
\* and not or-ed into core_bitmap_.
MutOpenArrayNoGC(k, r, c) ==
    /\ slots_' = [slots_ EXCEPT ![r][c] = <<>>]
    /\ transaction_bitmap_' = [transaction_bitmap_ EXCEPT ![r][c] = {}]
    /\ core_bitmap_' = [core_bitmap_ EXCEPT ![r] = @ \cup {c}]
    /\ UNCHANGED status

MutOpenArrayKeepsBitmap(k, r, c) ==
    /\ Delete(k, Range(slots_[r][c]))
    /\ slots_' = [slots_ EXCEPT ![r][c] = <<>>]
    /\ core_bitmap_' = [core_bitmap_ EXCEPT ![r] = @ \cup {c}]
    /\ UNCHANGED transaction_bitmap_

MutOpenArrayStoresBit(k, r, c) ==
    /\ Delete(k, Range(slots_[r][c]))
    /\ slots_' = [slots_ EXCEPT ![r][c] = <<>>]
    /\ transaction_bitmap_' = [transaction_bitmap_ EXCEPT ![r][c] = {}]
    /\ core_bitmap_' = [core_bitmap_ EXCEPT ![r] = {c}]

\* RowRegion::append, its two parts: the first write of core c in an epoch
\* frees what is left in the array of c and sets the bit of c ...
OpenArray(k, r, c) ==
    /\ Delete(k, Range(slots_[r][c]))
    /\ slots_' = [slots_ EXCEPT ![r][c] = <<>>]
    /\ transaction_bitmap_' = [transaction_bitmap_ EXCEPT ![r][c] = {}]
    /\ core_bitmap_' = [core_bitmap_ EXCEPT ![r] = @ \cup {c}]

\* ... and PerCoreVersionArray::append inserts the version at position
\* length() = popcount(transaction_bitmap_), which is the end (BitmapsMatchSlots).
AppendToArray(r, c, t, v) ==
    /\ slots_' = [slots_ EXCEPT ![r][c] = Append(@, v)]
    /\ transaction_bitmap_' = [transaction_bitmap_ EXCEPT ![r][c] = @ \cup {t}]

\* move_global_array_to_row_region, one version at a time in ascending order.
\* The region is not published yet, so the order of clear() is not observable.
move_global_array_to_row_region(w) ==
    /\ phase = "init" /\ pc[w] = "move"
    /\ LET k == Key(w)
           r == region[w]
       IN  \/ \E v \in global_array_[k] :
                /\ \A u \in global_array_[k] : v[2] <= u[2]
                /\ LET c == get_core_serial(v[2])
                       t == get_tx_serial(v[2])
                   IN  \/ /\ c \notin core_bitmap_[r]
                          /\ OpenArray(k, r, c)
                          /\ UNCHANGED global_array_
                       \/ /\ c \in core_bitmap_[r]
                          /\ AppendToArray(r, c, t, v)
                          /\ global_array_' = [global_array_ EXCEPT ![k] = @ \ {v}]
                          /\ UNCHANGED <<core_bitmap_, status>>
                /\ UNCHANGED pc
           \/ /\ global_array_[k] = {}
              /\ Goto(w, "publish")
              /\ UNCHANGED <<global_array_, core_bitmap_, transaction_bitmap_,
                             slots_, status>>
    /\ UNCHANGED <<batchVars, opVars, region, lock, row_region_, row_epoch,
                   master_, used_>>

\* From here on the other workers may append to the region, before the unlock.
publish_region(w) ==
    /\ phase = "init" /\ pc[w] = "publish"
    /\ row_region_' = [row_region_ EXCEPT ![Key(w)] = region[w]]
    /\ Goto(w, "install_unlock")
    /\ UNCHANGED <<batchVars, opVars, region, lock, memVars>>

\* Mutation: the installing worker keeps the lock.
MutInstallUnlockForgets(w) ==
    /\ phase = "init" /\ pc[w] = "install_unlock"
    /\ Goto(w, "append")
    /\ UNCHANGED <<batchVars, opVars, region, lock, row_region_, memVars>>

install_unlock(w) == Unlock(w, "install_unlock", "append")

\* append_to_contented_row: under the lock when it comes from row_has_region,
\* without it otherwise.
first_write_of_core(w) ==
    /\ phase = "init" /\ pc[w] \in {"append", "locked_append"}
    /\ op[w].core \notin core_bitmap_[region[w]]
    /\ OpenArray(Key(w), region[w], op[w].core)
    /\ UNCHANGED <<batchVars, workerVars, lock, row_region_, rowVars, used_>>

append_to_contented_row(w) ==
    /\ phase = "init" /\ pc[w] \in {"append", "locked_append"}
    /\ op[w].core \in core_bitmap_[region[w]]
    /\ Create(w)
    /\ AppendToArray(region[w], op[w].core, get_tx_serial(op[w].serial),
                     <<epoch, op[w].serial>>)
    /\ Goto(w, IF pc[w] = "locked_append" THEN "unlock" ELSE "begin")
    /\ UNCHANGED <<batchVars, opVars, region, lock, row_region_, rowVars, used_,
                   core_bitmap_>>
-------------------------------------------------------------------------------
(***************************************************************************)
(* The execution phase                                                     *)
(***************************************************************************)

\* search_visible_version
VisibleInGlobalArray(k, s) == {v \in global_array_[k] : v[2] < s}

\* PerCoreVersionArray::get: the slot is found by counting the bits up to t.
SlotOf(r, c, t) ==
    slots_[r][c][Cardinality({u \in transaction_bitmap_[r][c] : u <= t})]

LatestOfCore(r, c) == SlotOf(r, c, Max(transaction_bitmap_[r][c]))

\* Mutation: the reader's own core is not treated apart.
MutVisibleInRegion(r, core, t) ==
    LET upto == {c \in core_bitmap_[r] : c <= core}
    IN  IF upto # {} THEN {LatestOfCore(r, Max(upto))} ELSE {}

\* identify_visible_version, as the set of the version found or {}
VisibleInRegion(r, core, t) ==
    LET smaller == {c \in core_bitmap_[r] : c < core}
        own     == {u \in transaction_bitmap_[r][core] : u < t}
    IN  IF core \in core_bitmap_[r] /\ own # {} THEN {SlotOf(r, core, Max(own))}
        ELSE IF smaller # {} THEN {LatestOfCore(r, Max(smaller))}
        ELSE {}

\* The version read waits for; {} when it returns master_ at once.
Visible(k, o) ==
    IF row_epoch[k] # epoch THEN {}
    ELSE IF global_array_[k] # {}
         THEN LET vs == VisibleInGlobalArray(k, o.serial)
              IN  IF vs = {} THEN {} ELSE {Latest(vs)}
    ELSE IF has_dirty_region(k)
         THEN VisibleInRegion(row_region_[k], o.core, get_tx_serial(o.serial))
    ELSE {}

read(w) ==
    /\ phase = "exec" /\ pc[w] = "read"
    /\ LET vs == Visible(Key(w), op[w])
       IN  \/ /\ vs = {}
              /\ got' = [got EXCEPT ![w] = master_[Key(w)]]
              /\ Goto(w, "begin")
              /\ UNCHANGED visible
           \/ \E v \in vs :
                /\ visible' = [visible EXCEPT ![w] = v]
                /\ Goto(w, "wait_stable")
                /\ UNCHANGED got
    /\ UNCHANGED <<batchVars, todo, op, region, lock, row_region_, memVars>>

\* Mutation: the reader does not wait.
MutExecuteReadAtOnce(w) ==
    /\ phase = "exec" /\ pc[w] = "wait_stable"
    /\ got' = [got EXCEPT ![w] = visible[w]]
    /\ Goto(w, "begin")
    /\ UNCHANGED <<batchVars, todo, op, region, visible, lock, row_region_, memVars>>

wait_stable_and_execute_read(w) ==
    /\ phase = "exec" /\ pc[w] = "wait_stable"
    /\ status[Key(w)][visible[w]] \notin {"pending", "written"}
    /\ got' = [got EXCEPT ![w] = visible[w]]
    /\ Goto(w, "begin")
    /\ UNCHANGED <<batchVars, todo, op, region, visible, lock, row_region_, memVars>>

\* upsert stores the record, then the status.
SetStatus(w, from, st, to) ==
    /\ phase = "exec" /\ pc[w] = from
    /\ status' = [status EXCEPT ![Key(w)][<<epoch, op[w].serial>>] = st]
    /\ Goto(w, to)
    /\ UNCHANGED <<batchVars, opVars, region, lock, row_region_, rowVars, regionVars>>

write_rec(w)    == SetStatus(w, "write", "written", "write_status")
write_status(w) == SetStatus(w, "write_status", "stable", "begin")
-------------------------------------------------------------------------------
(***************************************************************************)
(* run_tx: the barriers between the phases                                 *)
(***************************************************************************)
AtBarrier == \A w \in Workers : pc[w] = "begin" /\ todo[w] = {}

StartExecution ==
    /\ phase = "init" /\ AtBarrier
    /\ phase' = "exec"
    /\ todo' = [w \in Workers |-> Work("exec", txs, w)]
    /\ UNCHANGED <<epoch, txs, db, op, pc, region, visible, got, lock,
                   row_region_, memVars>>

Updates(batch, s, k) ==
    \E j \in DOMAIN batch[s] : batch[s][j] = [ope |-> "Update", index |-> k]

Writers(k) == {s \in Serials : Updates(txs, s, k)}

\* epoch++; the batches of all epochs are made before the experiment.
NewEpoch ==
    /\ phase = "exec" /\ AtBarrier
    /\ epoch' = epoch + 1
    /\ db' = [k \in Keys |-> IF Writers(k) = {} THEN db[k]
                             ELSE <<epoch, Max(Writers(k))>>]
    /\ \/ /\ epoch < NumEpochs
          /\ phase' = "init"
          /\ txs' \in Workloads
          /\ todo' = [w \in Workers |-> Work("init", txs', w)]
       \/ /\ epoch = NumEpochs
          /\ phase' = "end"
          /\ UNCHANGED <<txs, todo>>
    /\ op' = [w \in Workers |-> NoOp]
    /\ got' = [w \in Workers |-> NoVersion]
    /\ UNCHANGED <<pc, region, visible, lock, row_region_, memVars>>

Step(w) ==
    \/ Begin(w)
    \/ epoch_guard(w) \/ guard_try_lock(w) \/ initialize_the_row(w)
    \/ store_epoch(w) \/ guard_unlock(w)
    \/ try_lock(w) \/ append_to_unconted_row(w) \/ row_has_region(w) \/ unlock(w)
    \/ wait_region_installation(w) \/ wait_try_lock(w) \/ already_installed(w)
    \/ fetch_new_region(w) \/ move_global_array_to_row_region(w)
    \/ publish_region(w) \/ install_unlock(w)
    \/ first_write_of_core(w) \/ append_to_contented_row(w)
    \/ read(w) \/ wait_stable_and_execute_read(w)
    \/ write_rec(w) \/ write_status(w)

Next == (\E w \in Workers : Step(w)) \/ StartExecution \/ NewEpoch

Spec == Init /\ [][Next]_vars

\* Every worker is pinned to a core of its own and keeps running.
Fairness == /\ \A w \in Workers : WF_vars(Step(w))
            /\ WF_vars(StartExecution)
            /\ WF_vars(NewEpoch)

FairSpec == Spec /\ Fairness
-------------------------------------------------------------------------------
(***************************************************************************)
(* Properties                                                              *)
(***************************************************************************)
Labels == {"begin", "epoch_guard", "guard_try_lock", "initialize_the_row",
           "store_epoch", "guard_unlock", "try_lock", "locked", "unlock",
           "wait_region", "wait_try_lock", "install", "move", "publish",
           "install_unlock", "append", "locked_append", "read", "wait_stable", "write",
           "write_status"}

\* The types of the control state: the batch, the workers' positions, the locks
\* and the regions' bookkeeping.
ControlTypeOK ==
    /\ phase \in {"init", "exec", "end", "aborted"}
    /\ txs \in Workloads
    /\ phase \in {"init", "exec"} =>
          \A w \in Workers : todo[w] \subseteq Work(phase, txs, w)
    /\ todo \in [Workers -> SUBSET ((0 .. N - 1) \X (1 .. Cardinality(Keys)))]
    /\ op \in [Workers -> [core : Cores, serial : Serials, index : Keys,
                            ope : {"None", "Read", "Update"}]]
    /\ pc \in [Workers -> Labels]
    /\ region \in [Workers -> Regions \cup {NoRegion}]
    /\ lock \in [Keys -> Workers \cup {-1}]
    /\ row_region_ \in [Keys -> Regions \cup {NoRegion}]
    /\ used_ \in 0 .. NumRegions

JustRead(w) == phase = "exec" /\ pc[w] = "begin" /\ op[w].ope = "Read"

WrittenInEpoch(k) == Writers(k) # {}

\* What serial execution lets transaction s read of row k.
SerialRead(s, k) ==
    LET before == {u \in Writers(k) : u < s}
    IN  IF before = {} THEN db[k] ELSE <<epoch, Max(before)>>

\* A read of a row that the epoch writes returns the version that executing
\* the transactions one after the other would: the last smaller writer's, or
\* the final state of the earlier epochs, wherever the row keeps its versions.
ReadsSeeSerialOrder ==
    \A w \in Workers : JustRead(w) /\ WrittenInEpoch(Key(w)) =>
        got[w] = SerialRead(op[w].serial, Key(w))

\* No read returns a version whose record is not there yet or is freed.
ReadsReturnStableRecords ==
    \A w \in Workers : JustRead(w) => status[Key(w)][got[w]] = "stable"

\* The loader gives both versions of a row the same, empty, record.
Content(v) == IF v[1] = 0 THEN <<0, -1>> ELSE v

\* The comment in read on rows that the epoch does not write: the read
\* returns "the final state in one previous epoch".  It does not: master_ is
\* only brought up to date by the next write of the row.
ReadsSeeFinalState ==
    \A w \in Workers : JustRead(w) /\ ~WrittenInEpoch(Key(w)) =>
        Content(got[w]) = Content(db[Key(w)])

\* The versions of the current epoch, as the region of row k holds them.
RegionHolds(k, S) ==
    LET r == row_region_[k]
        TxsOf(c) == {get_tx_serial(s) : s \in {u \in S : get_core_serial(u) = c}}
    IN  /\ core_bitmap_[r] = {get_core_serial(s) : s \in S}
        /\ \A c \in core_bitmap_[r] :
              /\ transaction_bitmap_[r][c] = TxsOf(c)
              /\ \A t \in TxsOf(c) : SlotOf(r, c, t) = <<epoch, c * N + t>>

\* When execution starts, every row holds exactly one version for every update
\* of the epoch, all of them in one place, the global array or the region, no
\* matter which workers met on the row and when; and each is found under the
\* serial number of its transaction.
ExecutionFindsAllVersions ==
    phase = "exec" => \A k \in Keys :
        LET new == {<<epoch, s>> : s \in Writers(k)}
        IN  IF Writers(k) = {} THEN row_epoch[k] < epoch
            ELSE /\ row_epoch[k] = epoch
                 /\ \/ global_array_[k] = new /\ ~has_dirty_region(k)
                    \/ /\ global_array_[k] = {} /\ row_region_[k] # NoRegion
                       /\ RegionHolds(k, Writers(k))

\* The version initialize_the_row would choose.
FinalState(k) ==
    IF global_array_[k] # {} THEN Latest(global_array_[k])
    ELSE IF has_dirty_region(k)
         THEN Last(slots_[row_region_[k]][Max(core_bitmap_[row_region_[k]])])
    ELSE master_[k]

\* The result of the earlier epochs is never lost: until a row is initialized
\* in an epoch its containers still end with it, afterwards master_ holds it.
FinalStateKept ==
    \A k \in Keys :
        IF \/ row_epoch[k] = epoch
           \/ \E w \in Workers : pc[w] = "store_epoch" /\ Key(w) = k
        THEN master_[k] = db[k]
        ELSE FinalState(k) = db[k]

\* Regions whose arrays hold versions of row k: the installed one, and the one
\* a worker is filling.
RegionsOf(k) ==
    {r \in Regions : \/ row_region_[k] = r
                     \/ \E w \in Workers : /\ pc[w] \in {"move", "publish"}
                                           /\ Key(w) = k /\ region[w] = r}

\* The slots of the arrays of these regions: region, core and position
Slots(k) == UNION {{<<p[1], p[2], i>> : i \in DOMAIN slots_[p[1]][p[2]]} :
                      p \in RegionsOf(k) \X Cores}

InSlot(p) == slots_[p[1]][p[2]][p[3]]

Live(k) == {v \in Versions : status[k][v] # "none"}

\* Every version that has not been freed is owned by exactly one of master_,
\* the global array and one slot of the per-core arrays, and nothing owned is
\* freed: no leak, no dangling pointer and no double free in initialize_the_row,
\* the move to a region and the late garbage collection of a core's array.
EachVersionOwnedOnce ==
    \A k \in Keys :
        /\ Live(k) = {master_[k]} \cup global_array_[k] \cup {InSlot(p) : p \in Slots(k)}
        /\ master_[k] \notin global_array_[k]
        /\ \A p \in Slots(k) : InSlot(p) \notin global_array_[k] \cup {master_[k]}
        /\ \A p, q \in Slots(k) : InSlot(p) = InSlot(q) => p = q

\* assert(len == slots_.size()) in PerCoreVersionArray::append, and the order
\* get relies on: in an array opened in this epoch the n-th slot is the version
\* of the n-th transaction of the bitmap.
BitmapsMatchSlots ==
    \A k \in Keys : \A r \in RegionsOf(k) : \A c \in core_bitmap_[r] :
        /\ Len(slots_[r][c]) = Cardinality(transaction_bitmap_[r][c])
        /\ \A m, n \in DOMAIN slots_[r][c] :
              m < n => slots_[r][c][m][2] < slots_[r][c][n][2]

\* assert(slots_.size() < 64) at the end of PerCoreVersionArray::append.
ArrayNeverFull == \A r \in Regions, c \in Cores : Len(slots_[r][c]) < N

\* Where a worker holds the lock of its row.
LockedLabels == {"initialize_the_row", "store_epoch", "guard_unlock", "locked",
                 "unlock", "install", "move", "publish", "install_unlock",
                 "locked_append"}

\* A row is locked by the worker that is in a critical section on it, and by
\* nobody when there is none.
LockOwner ==
    \A w \in Workers, k \in Keys :
        lock[k] = w <=> pc[w] \in LockedLabels /\ Key(w) = k

\* A region that is being filled is out of everyone else's reach: no row and
\* no other worker refers to it before it is published.
UnpublishedRegionIsPrivate ==
    \A w \in Workers : pc[w] \in {"move", "publish"} =>
        /\ \A k \in Keys : row_region_[k] # region[w]
        /\ \A u \in Workers \ {w} : region[u] # region[w]

\* A worker appends to the region that its row has now, although it may have
\* read the pointer many steps ago and holds no lock: the append is made where
\* execution will look for it, and in a region of no other row.
AppendersUseInstalledRegion ==
    \A w \in Workers : pc[w] \in {"install_unlock", "append", "locked_append"} =>
        /\ region[w] # NoRegion
        /\ row_region_[Key(w)] = region[w]
        /\ \A k \in Keys \ {Key(w)} : row_region_[k] # region[w]

Installing == {w \in Workers : pc[w] \in {"move", "publish"}}

Contended == {k \in Keys : row_region_[k] # NoRegion}

\* No region is lost: every region handed out is the region of one row, or is
\* about to become it.  So the program aborts only when NUM_REGIONS rows are
\* contended and one more becomes so.
RegionsAccounted ==
    used_ = Cardinality(Contended) + Cardinality(Installing)

\* A row keeps the first region it gets: a worker that holds the pointer from
\* wait_region_installation appends where execution will look.
RegionInstalledOnce ==
    [][\A k \in Keys : row_region_[k] # NoRegion =>
                         row_region_'[k] = row_region_[k]]_vars

\* Regions in use were handed out before.
RegionsFetched ==
    /\ \A w \in Workers : region[w] <= used_
    /\ \A k \in Keys : row_region_[k] <= used_

\* A worker fills a region only for a row that has none.
InstallersConsistent ==
    \A w \in Installing : region[w] # NoRegion /\ row_region_[Key(w)] = NoRegion

\* Two rows never have the same region.
RegionsNotShared ==
    \A j, k \in Keys : j # k /\ row_region_[j] # NoRegion =>
                          row_region_[j] # row_region_[k]

\* The inductive invariant behind the properties of locks and regions.
IInv == /\ ControlTypeOK
        /\ LockOwner
        /\ RegionsFetched
        /\ InstallersConsistent
        /\ UnpublishedRegionIsPrivate
        /\ AppendersUseInstalledRegion
        /\ RegionsNotShared

\* All epochs finish, unless the regions run out: no worker spins for ever on a
\* lock, on a region or on a pending version.
AllEpochsFinish == <>(phase \in {"end", "aborted"})

===============================================================================
