# A TLA+ development of mvdcc

mvdcc runs three deterministic multi-version concurrency control protocols
(Serval, Caracal, Cheetah) on YCSB.  This directory holds TLA+ specifications of
the parts that run concurrently, the TLC models that check them on small
instances, and TLAPS proofs of what holds for every instance.

## 1. Inventory

| Part | State | Operations | Interaction |
| --- | --- | --- | --- |
| `RendezvousBarrier` (ycsb_common) | `ready_`, `start_` | `send_ready_and_wait_start`, `wait_all_children_and_send_start` | Separates the phases of all workers; worker 63 is the parent |
| `RWLock` (common) | one word `cnt` | lock, try_lock, shared and upgrade variants, unlocks | One per row, one per region controller |
| Serval `Value`, `GlobalVersionArray`, `RowRegion`, `PerCoreVersionArray`, `RowRegionController` | per row: epoch, master version, global array, region; per region: core bitmap, per core a transaction bitmap and slots | `append_pending_version` (epoch guard, append, region installation), `read`, `write` | All workers on all rows; locks for the global array, per-core arrays without locks |
| Serval driver (`ycsb_serval.cpp`), loader | epoch, batch | the two phases, the barriers, loading | Deals serial numbers in blocks for initialization and round-robin for execution |
| Caracal | per row: global version array, optional row buffer; per core spare buffers | append with minor GC, batch append, finalize, read, write | row buffers installed by compare-and-exchange |
| Cheetah | per row: bitmaps, placeholders, reference counter, master and previous master | write phase, read phase, execution with final-reader and final-writer GC | three barriers per epoch |
| `utils/bitmap.hpp` | none | 64-bit bitmap functions | Serval and Cheetah |
| `MasstreeIndexes`, `MasstreeWrapper` (indexes) | an ordered tree of keys in leaves with versions; per transaction a `NodeMap` of noted leaf versions | find, insert, remove, `get_next_kv`, `get_kv_in_range`, `get_kv_in_rev_range`, with and without `NodeMap` | The loader inserts, the protocols look up; the `NodeMap` calls are for optimistic protocols |
| Workload generation (`OperationSet`) | `rw_set_`, `w_set_` | the constructor | Hands the batches to the drivers |
| Statistics, NUMA, perf, scripts, TPC-C, epoch and timestamp managers | | | see section 8 |

What is hard here: every interesting operation is a race that the authors meant
to be benign.  Workers test a row's epoch outside the lock and again inside it;
a failed `try_lock` is taken as the sign of contention; a region becomes
reachable before the lock is released; appends to it use no lock at all; old
versions are freed epochs later by whoever writes next; readers spin on versions
that other workers produce in their own order; the barrier has no round number;
versions are found by shifts, masks and bit counts; and a transaction learns of
phantoms only by the leaf versions it noted before others split the leaves.
The properties below are about these points.  `PROJECT.json` lists them, with
source lines, under `hazards`.

## 2. Modules

| Module | Models | Notes |
| --- | --- | --- |
| `Barrier` | what a barrier promises | `Arrive(w)`, `Release` |
| `RendezvousBarrier` | rendezvous_barrier.hpp | one action per atomic access; `MCRendezvousBarrier` gives the schedules of the executables |
| `RWLock` | readwritelock.hpp | a load and an exchange are two steps |
| `Serval` | serval.hpp, row_region.hpp, value.hpp, ycsb_serval.cpp, the loader | `MCServal` has the batches |
| `Transactions` | operation_set.hpp | batches, and what executing them serially gives |
| `DeterministicDB` | what a deterministic database promises | `Read(o)`, `Write(o)` in any order, `NewEpoch` |
| `Caracal` | caracal.hpp, row_buffer.hpp, ycsb_caracal.cpp, the loader | implements `DeterministicDB`; `MCCaracal` has the batches |
| `Cheetah` | cheetah.hpp, rw_bitmaps.hpp, ycsb_cheetah.cpp, the loader | implements `DeterministicDB`; `MCCheetah` has the batches |
| `Bitmap` | utils/bitmap.hpp | the functions on words of `W` bits, signed shift included |
| `RowRegion` | row_region.hpp on words | `core_bitmap_`, transaction bitmaps and arrays indexed by bit counts; uses `Bitmap` |
| `MasstreeIndex` | masstree.hpp, masstree_wrapper.hpp | the tree itself is external; `MCMasstreeIndex` has keys and ranges |
| `RendezvousBarrierProofs`, `RWLockProofs`, `ServalProofs` | | theorems about the module of the name |
| `TransactionProofs` | | lemmas about batches and serial execution that the protocols' proofs share |
| `CaracalProofs`, `CaracalDataProofs` | | theorems about Caracal: locks and buffers; versions, reads and the refinement |
| `CheetahProofs` | | theorems about Cheetah, the refinement included |
| `MasstreeProofs` | | theorems about the index: NodeMaps, range queries, phantoms |

Operators whose names begin with `Mut` are deliberately wrong variants of the
definition that follows them (a dropped test, an off-by-one, a missing reset).
They are in no specification; each shows that a property notices the slip.

### Serval, state and actions

`pc[w]` names the place of worker `w` in the code.  In the initialization phase:

    begin -> epoch_guard <-> guard_try_lock -> initialize_the_row -> store_epoch
          -> guard_unlock -> try_lock -> locked -> unlock            (uncontended)
                                      -> locked -> locked_append -> unlock
                                      -> wait_region <-> wait_try_lock -> install
                                           -> move* -> publish -> install_unlock -> append
                                      -> wait_region -> append       (no lock)

and in the execution phase `begin -> read -> wait_stable`, `begin -> write ->
write_status`.  `epoch_guard`, `initialize_the_row`, `fetch_new_region`,
`append_to_contented_row` and so on are the functions of the same name;
`store_epoch`, `publish_region`, `write_rec` and `write_status` are the single
stores whose order matters.  `StartExecution` and `NewEpoch` are the barriers of
`run_tx`: the release step of `Barrier`, which `RendezvousBarrier` implements.
`try_lock` is one step because `RWLock` has `MutualExclusion` and
`TryLockFailsOnlyWhenHeld`.

Data.  A version is `<<epoch, serial number of its writer>>`; its status is
`pending`, `written` (the record is stored), `stable`, or `none` when the object
does not exist or has been freed, so that leaks, dangling pointers and double
frees are visible.  The 64-bit bitmaps are sets of positions.  The sorted global
array is a set ordered by id.  `db` is a history variable: the version that the
serial order of all finished epochs leaves in each row.  `todo` holds the loop
iterations a worker still has to do in the phase.

Steps merged into one: `initialize_the_row` up to the store of the epoch (under
the lock, and nobody looks at the containers of a row whose epoch is behind),
`RowRegion::append` split at the setting of the core bit, the whole visible
version search (nothing it reads except the status changes in the execution
phase), `fetch_new_region` (under the lock of the controller).

### The abstract database, and how the protocols map to it

`DeterministicDB` has the batch of the epoch, the state `db` that earlier epochs
left, the executed operations `done` and the answers `reads`.  A read may be
executed when the write it depends on has been, and its answer is the version of
that write; operations are otherwise executed in any order, each once.  Caracal
and Cheetah map to it by `done <- Executed`: the operations of the batch that no
worker still has before it or is in.  `db` and `reads` are history variables of
the protocols: `db` is what serial execution leaves, `reads` the versions the
code really returned (the drivers drop the records).  A read of Cheetah counts as
executed when it has its record, before it gives its reference back.  Serval has
no such theorem because it does not implement the database (section 6).

### Caracal, state and actions

    begin -> load_buffer -> try_lock -> append_global -> unlock      (uncontended)
                                     -> get_buffer -> install -> append
                                                   -> load_other -> append
          -> append -> begin
                    -> lock -> batch_append -> unlock                (part full)
          -> finalize <-> final_append -> final_unlock               (end of phase)

and in the execution phase `begin -> read -> wait_stable`, `begin -> write_rec ->
write_status`.  `core_slots[b][c]` is the part of buffer `b` that core `c` fills;
`ids_slots_[k]` the global array as a set ordered by epoch and serial number;
`Garbage` is what `minor_gc` erases and `Freed` what it deletes.  Appending with
`minor_gc` is one step (under the lock of the row); the compare-and-exchange that
installs a buffer and the load after a lost one are steps of their own.

### Cheetah, state and actions

Write phase: `Begin` notes the transactions of the worker in `bitmaps_`, then
`finalize <-> update_bitmap -> finalize_unlock` files them per row.  Read phase:
`add_ref [-> add_first_ref] -> identify -> placeholder_lock -> placeholder ->
unlock`, or `read_master` when no writer of the epoch comes before.  Execution
phase: `wait_stable -> decrement [-> gc_lock -> final_reader -> unlock]` and
`write_lock -> identify_write -> write_unlock [-> write_rec -> write_status]`,
where `identify_write` is `final_writer` or `other_writer`.  `placeholders_[k]` is
a set of versions, found by the serial number in their names; bitmaps are sets of
positions, `tx_bitmaps_` a sequence of them.  The two increments of the first
reader, the decrement and the lock of the final reader, and the stores of a
writer after its unlock are separate steps: these are the races of the design.

### RowRegion, state and actions

`Serval` has sets in the place of bitmaps; `RowRegion` has the words, for one
region: `append` is `RowRegion::append` with the reset of a core's array at its
first write of the epoch, `initialize_the_row` the first write of a later epoch
(`pop_final_state`, then `initialize_core_bitmap`, which leaves the arrays as they
are).  An append is one step, since cores append to arrays of their own and the
bit of a core is set by an atomic or.  `filed`, a history variable, has what was
appended in the epoch; every reader's search is compared with it.

### MasstreeIndex, state and actions

The tree is a set of leaves with the lowest key each is responsible for, its keys
and a version that no change of the leaf leaves alone and that never recurs, as
Masstree's full version does; an insert into a full leaf first splits it at any
key.  A call on one key is one step: inserts and removes hold the lock of the
leaf, lookups are validated by the library.  A range query is `start_scan` and
then one `visit_leaf` per leaf (per_node_func, then visit_value for each key), with
the other clients' calls in between; it ends as the code's does, when visit_value
refuses a key, so that a limit reached with the last key of a leaf still notes the
next leaf.  `find_nm` and `insert_nm` are the overloads with a `NodeMap`.  An
insert that ends in `BAD_INSERT` has inserted.  `seen` and `disturbed` are history
variables: what a transaction has learned under its `NodeMap`, and which leaves
of it changed other than by its own inserts.  An insert of its own that splits a
noted leaf disturbs it, because the NodeMap is then compared with the version
after the split (masstree.hpp:86): a transaction that splits a leaf it has noted
aborts even when it is alone.  `disturbed` depends on the tree only, never on
what a call returned, so that a needless `BAD_INSERT` violates `NodeMapExact`.

## 3. Runs

| Run | Instance | Shows |
| --- | --- | --- |
| `barrier` | 4 workers, 2 epochs of Cheetah's 3 barriers, fair | `ReadyCountsMissing`, refinement of `Barrier`, `AllCross` |
| `rwlock` | 3 threads, all six acquisitions, fair | `MutualExclusion`, `CntMatchesHolders`, `TryLockFailsOnlyWhenHeld`, `LockProgress` |
| `serval_one_row` | N = 2, 1 row, 3 epochs, all 81 batches per epoch | the versions, reads, final states and memory of a row |
| `serval_three_cores` | N = 3, 3 rows, 2 epochs, 2 regions, fair | three-way races for regions, exhaustion: `UnpublishedRegionIsPrivate`, `AppendersUseInstalledRegion`, `RegionsAccounted`, `RegionInstalledOnce`, `AllEpochsFinish` |
| `caracal_one_row` | N = 2, T = 3, 1 row, 3 epochs, 16 of the 64 batches per epoch, parts of 2 slots | refinement of `DeterministicDB`; no version lost, leaked, kept too long or freed too early; no part overfilled |
| `caracal_two_rows` | N = 3, T = 2, 2 rows, 1 epoch, 3 buffers, fair | parts do not fill here (they do in `caracal_one_row`); races to install a buffer, spares, exhaustion, `AllEpochsFinish` |
| `cheetah_one_row` | N = T = 2, 1 row, 3 epochs, all 81 batches per epoch | refinement of `DeterministicDB`; exact reference counts; final reader against final writer |
| `cheetah_three_cores` | N = T = 3, 2 rows, 2 epochs, fair | bitmaps filed in every order, stores after the unlock, `AllEpochsFinish` |
| `index` | 2 clients, one with a `NodeMap`; 5 keys, leaves of 2, 3 and 2 calls | `ScansConsistent`, `NoPhantoms`, `NodeMapExact` |
| `row_region` | words of 3 bits, 3 epochs | `BitmapsActAsSets`, `VisibleIsPredecessor`, `FinalStateIsLast` |
| `serval_stale_master` | N = 2, 1 row, 2 epochs | violated: see section 6 |
| `serval_full_array` | N = 2, 1 row | violated: see section 6 |

Bounds.  N stands for the literal 64, which is the number of workers, of
transactions per worker and of bits in a bitmap.  Two workers already reach
every action, every race between a holder and a waiter and both orders of every
pair of stores; three add a bystander who meets the region of another pair.
Three epochs are needed because a version written in epoch 1 may be folded into
`master_` in epoch 2 and the rest of its array freed in epoch 3.  Two rows are
needed for regions and for waits that could form a cycle.  Caracal's parts hold
two versions instead of four, and a worker has three transactions, so that a part
fills up, is flushed and fills again within a phase; three buffers for two rows
and three workers make spares, a lost exchange and exhaustion happen.  Cheetah
needs N = T because the phases deal blocks of 64 and strides of 64; three epochs
cover a master that is replaced, stashed and freed on either side of an epoch
that only reads.  Three bits give a bitmap a first, a middle and a last position
and every subset of them.  In the index, leaves of two make a full leaf split
within the calls of the bound, and one client with a `NodeMap` is enough because
nobody else sees it.

Type invariants are not among the runs' properties.  Those of the barrier, the
lock, Serval, Caracal, Cheetah and the index are part of the inductive invariants
and proved.

## 4. Fairness

`Fairness` is weak fairness of each worker's steps and of the barrier's release.
The code pins each worker to a core of its own and never blocks, so a worker that
can take a step does.  No strong fairness is used: a spinning worker gets the
lock in the end because the others have finitely many operations per phase.

In Serval and Caracal `AllEpochsFinish` also accepts the exception of a controller
that has no region or buffer left, which nobody catches; `RegionsAccounted` and
`BuffersAccounted` say how many the program can need.  In `RWLock` a thread is
obliged to finish a call and to release the lock, never to call again, and
`LockProgress` is about behaviours that from some moment on use `lock` and
`try_lock` only, as the protocols do.

## 5. Proofs

All are checked by TLAPS for every value of the constants, under the named
assumptions of the modules (`ASSUME`).

* `RendezvousBarrierProofs`.  `IInv` says, for every child, in which round it is
  relative to the parent (`ChildrenInRound`), what `ready_` counts
  (`ReadyCountsMissing`), and that `start_` is the type of the last opened round
  (`StartIsLastOpened`); with the assumption that neighbouring types differ, a
  child that passes `wait_start` passes for its own round.  From it: types, no
  overlap, the exact counter, and the refinement of `Barrier`, step by step.
* `RWLockProofs`.  `IInv` adds to exclusion and the count that an upgrader still
  holds its shared lock and that an exchange is only tried with a value that
  passed the test; without these a successful exchange says nothing about the
  holders.
* `ServalProofs`.  `IInv` ties the lock to the label of its owner (`LockOwner`),
  bounds all region numbers by `used_` (so that a fetched region is new), says
  that a region is filled only for a row without one and that an appender's
  pointer is the row's.  From it: privacy of unpublished regions, appends into
  the installed region, the action property that a region is never replaced, and
  by counting that no region is lost.
  The data rests on a second invariant, `DInv`, proved on top of `IInv`.  Its
  subject is `Row(k)`, the row as one value: its epoch, `master_`, the global
  array, and bitmaps and arrays of its region, the installed one or the one that
  is being filled.  *Rows* (`RowOK`): an array opened in this epoch holds, at the
  rank of each bit, the version of that transaction; the others hold what is left
  of earlier epochs; `master_` is of an earlier epoch too and in no array; what
  the global array still has is later than all that has been moved; a version
  exists exactly when it is owned.  *Progress*: a worker goes through its loops in order, so that
  `Waiting(k)`, the updates still to come, is known, and an appender comes after
  all of its core that are in the array.  *Contents*: a row of this epoch holds
  the versions of its writers that are not waiting, and no others.  *Statuses*:
  pending, written or stable by where the writer is.  *Final state*: `master_` or
  the end of the containers, by the row's epoch.  *Reads*: a waiting reader waits
  for the last writer before it.  None of the checked properties is inductive
  without the rest: a read is right because the array is complete and in order,
  an append keeps the order because the loops ascend, the final state is the end
  of the array of the largest core because no opened array stays empty
  (`NoEmptyArrays`), and the late garbage collection frees nothing in use because
  `master_` was taken out of the array before.  From it: what execution finds,
  what reads return and that it is stable, the final state, single ownership, and
  that bitmaps match slots.
* `TransactionProofs`.  The loop over operations takes one of them, a nonempty set
  of serial numbers has a last one, a transaction has one operation on a row
  (`OneOperationPerRow`, from the test for duplicate keys), and serial execution
  leaves versions.
* `CaracalProofs`, `CaracalDataProofs`.  The inductive invariant has four
  layers, each proved on top of the ones before.  *Control*: types, the labels
  of a phase, locks have owners, a worker's operations are its own.
  *Ownership*: a buffer number is in one place only (a row, a spare, a worker's
  hand) and below the number handed out, so a fetched buffer is new and a lost
  compare-and-exchange keeps its buffer.  *Slots*: a part of a buffer is full
  only while its worker is on the way to flush it, and a part that holds
  something is one its worker will still flush, now or with the last batch
  appends, so that all are empty at the barrier.  *Data*: for every row the
  live versions are those in the array and in the buffer; every update has a
  version there or is still ahead; the result of the earlier epochs is there,
  and what is older is gone once a version of the epoch is in the array; a
  version of the epoch is stable exactly when its operation has been executed.
  The last layer needs all the others: the search of a read is right only
  because at the barrier every part is empty, which is right only because no
  buffer was lost.  From it: no version is lost or leaked, each is found, one
  old version stays per row, `minor_gc` frees only stable versions of earlier
  epochs (an action property), and the refinement.
* `CheetahProofs`.  Five layers.  *Control* as above.  *Bitmaps*: what is filed of
  a row is whole cores, each at its rank among the cores filed, and a worker keeps
  its bitmap until then; from the barrier on the bitmaps are complete until the
  final writer clears them.  Insertion at the prefix sum and the two searches
  (`identify_visible_version`, `is_final_state`) are reduced to the last writer
  before a serial number by lemmas about ranks and about serial numbers as core and
  place.  *References*: the counter is the number of reads that have been counted
  and not given back, plus one, with the one reader that still owes the second
  increment and the one that collects.  *Objects*: master, previous master and
  placeholders as functions of whether the final writer has been there (the bitmaps
  are clear) and whether the row has been collected (the counter is zero).
  *Statuses*: every version a row owns is pending, written or stable by where its
  writer is, and none of the others exists; a writer has the version of its name
  if the row has it; and no read was executed before the write it depends on.  The
  last is why the final reader may free all placeholders: when the last reference
  is given back every version that somebody reads has been stored, so no writer
  holds a pointer into what is freed.  From it: `BitmapsDescribeWriters`,
  `RefCntCountsReaders`, `LiveVersionsOwned`, `ReadersVersionsLive`,
  `WritersVersionsLive`, `RowsCleanBetweenEpochs`, and the refinement.
* `MasstreeProofs`.  Four layers, for any leaf width, any number of clients and
  any set of range queries.  *Tree* (`TreeOK`): the leaves partition the keys and
  each key is in the leaf responsible for it; a step of the tree (`Grown`) never
  lowers a version, raises it where it changes a leaf, and leaves a key in its leaf
  unless that leaf changed.  *NodeMaps* (`MapExact`): a noted version equals the
  leaf's exactly when the leaf is not `disturbed`, and is behind it for
  good otherwise; that an insert of the client's own keeps this, with a split and
  the new leaf too, is the longest case.  *Scans* (`ScanOK`): a scan under way has
  delivered every key it passed that was there all the time, or is full with keys
  before it (`Delivers`, `Full`).  *Seen* (`SeenOK`): while nothing noted is
  disturbed, every answer of the transaction is still right but for its own later
  inserts, and each key of its range is in a noted leaf or beyond the limit
  (`Covered`).  This is the part `NoPhantoms` lacks as it stands: without the noted
  leaves nothing would stop an unnoticed insert into the range.  From it:
  `NodeMapExact`, `ScansConsistent`, `NoPhantoms`.

Both refinements follow one pattern.  The mapping is the one of section 2 (`done <-
Executed`).  A read of `DeterministicDB` is the step that finds the status no longer
pending; that it may happen, `Produced`, is the invariant that links a stable
version with its executed write, and that its answer is right is the invariant
that the version found is the serial order's.  A write is the store of the status
(in Cheetah also the unlock of a writer whose version nobody needs), a new epoch
the last barrier, where nothing is left to execute.  All other steps change
neither `Executed` nor `reads`.

The assumptions are those of the modules: there is a worker, a transaction per
worker, a row and an epoch; batches are sequences of operations without duplicate
keys; in Cheetah `T = N`, which the driver's dealing of serial numbers in blocks
and strides of 64 rests on; in Caracal a part of a buffer has at least one slot; in
the index a leaf has room for at least two keys, and the keys it begins with are in
one leaf.

Left to TLC: liveness (`AllCross`, `LockProgress`, `AllEpochsFinish`), which the
prover does not reach; and `Bitmap` and `RowRegion` (`BitmapsActAsSets`,
`VisibleIsPredecessor`), which use bitwise and recursive operators that it does not
support.  What `RowRegion` shows on words for small widths, that the bitmaps act as
sets of positions, is what lets `Serval` have them as sets; the search on these
sets is proved.

## 6. Findings

* `serval_stale_master`: `read` answers from `master_` when the epoch has no
  version of the row (serval.hpp:98-104).  `master_` is only brought up to date
  by the next *write* of the row, so a row written in epoch 1 and only read in
  epoch 2 is read as before epoch 1.  `FinalStateKept` shows that the right
  version is still there, `ReadsReturnStableRecords` that the wrong one is not
  freed memory, `ReadsSeeSerialOrder` that rows the epoch writes are read right.
* `serval_full_array`: the assertion after the insert in
  `PerCoreVersionArray::append` (row_region.hpp:209) fails when all 64
  transactions of a core write a contended row.

## 7. Plan

Done: the barrier and its abstract specification, the lock, Serval, the abstract
database, Caracal and Cheetah, the bitmaps and the region on words, the index with
its node maps, and the proofs of section 5: all safety properties of the runs of the
barrier, the lock, Serval, Caracal, Cheetah and the index are proved.  What is left
out follows.

## 8. Not modelled

Masstree itself is an external library: `MasstreeIndex` models it by what the
wrapper uses of it.  In the wrapper, `update_value`, its node-info variant and that
of `remove_value` have no caller, and the null-key tests of `scan` and `rscan` are
never met, because every call passes both keys.  The workers of the three
protocols only look up keys that were inserted before they start, so in their
modules a lookup is the row.  `MajorGC` is never
called.  The epoch and timestamp managers, `GarbageCollector`, `TxID` and
`TidWord` are left over from tpcc-runner and instantiated nowhere.  TPC-C is
documented as unsupported.  Statistics, perf, NUMA pinning, logging and scripts
take no decision of the protocols.  The random generators (Zipf, xoshiro) are an
input: the models take all batches over their rows that `OperationSet` can make
(distinct keys, reads and updates in any order).  The key arithmetic of
`OperationSet` is a matter of the command line: with fewer than 7 records its loop
does not end, and with fewer than 76 * 131072 + 1 a key is missing in the index;
the scripts load 10 million.
