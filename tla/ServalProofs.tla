----------------------------- MODULE ServalProofs -----------------------------
(***************************************************************************)
(* Proofs about Serval, for every number of cores, rows, epochs and        *)
(* regions and every set of batches.  First the locks and the regions: the *)
(* lock of a row has the owner the code thinks it has, a region is private *)
(* until it is published and never replaced afterwards, and none is lost.  *)
(* On top of that the data, with the invariant DInv: a row holds exactly   *)
(* the versions of its epoch that were appended, each in one place, master_*)
(* or the containers have the final state of the earlier epochs, and a     *)
(* read returns what serial execution would.                               *)
(***************************************************************************)
EXTENDS Serval, FiniteSetTheorems, WellFoundedInduction, TLAPS

Filling   == {"move", "publish"}
Appending == {"install_unlock", "append", "locked_append"}

\* The serial numbers of both phases are serial numbers of the batch, and the
\* cores are cores.
LEMMA AssignmentInRange ==
    ASSUME NEW w \in Workers, NEW i \in 0 .. N - 1, NEW ph
    PROVE  Serial(ph, w, i) \in Serials /\ Core(ph, w, i) \in Cores
<1>1. /\ w * N + i \in 0 .. N * N - 1
      /\ i * N + w \in 0 .. N * N - 1
  BY NAssumption, SMT DEF Workers
<1> QED
  BY <1>1 DEF Serial, Core, InitSerial, ExecSerial, InitCore, ExecCore,
     Serials, Cores, Workers

\* The default operation record is well typed.
LEMMA NoOpTyped ==
    NoOp \in [core : Cores, serial : Serials, index : Keys,
              ope : {"None", "Read", "Update"}]
<1>1. (CHOOSE k \in Keys : TRUE) \in Keys
  BY KeysAssumption
<1>2. 0 \in Cores /\ 0 \in Serials
  <2>1. N * N - 1 \in Nat
    BY NAssumption, SMT
  <2> QED
    BY <2>1, NAssumption DEF Cores, Serials
<1> QED
  BY <1>1, <1>2 DEF NoOp

\* A step of w that changes only its label, between labels that agree on
\* holding the lock, and enters no label where a region is filled or used.
LEMMA LocalStep ==
    ASSUME IInv,
           NEW w \in Workers, NEW l \in Labels,
           Goto(w, l),
           UNCHANGED <<phase, txs, todo, op, region, lock, row_region_, used_>>,
           l \in LockedLabels <=> pc[w] \in LockedLabels,
           l \in Filling => pc[w] \in Filling,
           l \in Appending => pc[w] \in Appending
    PROVE  IInv'
<1>1. pc' = [pc EXCEPT ![w] = l] /\ pc \in [Workers -> Labels]
  BY DEF Goto, IInv, ControlTypeOK
<1>2. ControlTypeOK'
  BY <1>1 DEF IInv, ControlTypeOK
<1>3. LockOwner'
  BY <1>1 DEF IInv, LockOwner, Key
<1>4. RegionsFetched' /\ RegionsNotShared'
  BY DEF IInv, RegionsFetched, RegionsNotShared
<1>5. InstallersConsistent' /\ UnpublishedRegionIsPrivate'
  BY <1>1 DEF IInv, InstallersConsistent, Installing, Filling, Key,
     UnpublishedRegionIsPrivate
<1>6. AppendersUseInstalledRegion'
  BY <1>1 DEF IInv, AppendersUseInstalledRegion, Appending, Key
<1> QED
  BY <1>2, <1>3, <1>4, <1>5, <1>6 DEF IInv

\* A step of w that sets only its pointer, to the region the row has, and its
\* label.
LEMMA PointerStep ==
    ASSUME IInv,
           NEW w \in Workers, NEW l \in Labels,
           Goto(w, l),
           region' = [region EXCEPT ![w] = row_region_[Key(w)]],
           UNCHANGED <<phase, txs, todo, op, lock, row_region_, used_>>,
           l \in LockedLabels <=> pc[w] \in LockedLabels,
           l \notin Filling, pc[w] \notin Filling,
           l \in Appending => row_region_[Key(w)] # NoRegion
    PROVE  IInv'
<1>1. /\ pc' = [pc EXCEPT ![w] = l] /\ pc \in [Workers -> Labels]
      /\ region \in [Workers -> Regions \cup {NoRegion}]
      /\ Key(w) \in Keys
      /\ row_region_ \in [Keys -> Regions \cup {NoRegion}]
  BY DEF Goto, IInv, ControlTypeOK, Key
<1>2. ControlTypeOK'
  BY <1>1 DEF IInv, ControlTypeOK
<1>3. LockOwner'
  BY <1>1 DEF IInv, LockOwner, Key
<1>4. RegionsFetched' /\ RegionsNotShared'
  BY <1>1 DEF IInv, RegionsFetched, RegionsNotShared
<1>5. InstallersConsistent'
  BY <1>1 DEF IInv, InstallersConsistent, Installing, Filling, Key
<1>6. UnpublishedRegionIsPrivate'
  BY <1>1 DEF IInv, UnpublishedRegionIsPrivate, Filling
<1>7. AppendersUseInstalledRegion'
  BY <1>1 DEF IInv, AppendersUseInstalledRegion, Appending, RegionsNotShared, Key
<1> QED
  BY <1>2, <1>3, <1>4, <1>5, <1>6, <1>7 DEF IInv

\* A try_lock keeps the invariant: only a free lock is taken.
LEMMA TryLockStep ==
    ASSUME IInv,
           NEW w \in Workers,
           NEW from \in Labels \ LockedLabels,
           NEW yes \in LockedLabels \ (Filling \cup Appending),
           NEW no \in Labels \ (LockedLabels \cup Appending),
           TryLock(w, from, yes, no)
    PROVE  IInv'
<1>1. /\ pc[w] = from
      /\ UNCHANGED <<phase, txs, todo, op, region, row_region_, used_>>
      /\ \/ IsFree(w) /\ Held(w) /\ Goto(w, yes)
         \/ UNCHANGED lock /\ Goto(w, no)
  BY DEF TryLock, batchVars, opVars, memVars, regionVars
<1>2. yes \in Labels /\ no \notin Filling
  BY DEF LockedLabels, Labels, Filling
<1>3. CASE UNCHANGED lock /\ Goto(w, no)
  BY <1>1, <1>2, <1>3, LocalStep
<1>4. CASE IsFree(w) /\ Held(w) /\ Goto(w, yes)
  <2>1. /\ pc' = [pc EXCEPT ![w] = yes] /\ pc \in [Workers -> Labels]
        /\ Key(w) \in Keys
        /\ lock \in [Keys -> Workers \cup {-1}]
        /\ lock[Key(w)] = -1
        /\ lock' = [lock EXCEPT ![Key(w)] = w]
    BY <1>4 DEF Goto, IInv, ControlTypeOK, Key, IsFree, Held
  <2>2. -1 \notin Workers
    BY NAssumption DEF Workers
  <2>3. ControlTypeOK'
    BY <1>1, <1>2, <2>1 DEF IInv, ControlTypeOK
  <2>4. LockOwner'
    BY <1>1, <2>1, <2>2 DEF IInv, LockOwner, Key
  <2>5. RegionsFetched' /\ RegionsNotShared'
    BY <1>1 DEF IInv, RegionsFetched, RegionsNotShared
  <2>6. InstallersConsistent' /\ UnpublishedRegionIsPrivate'
    BY <1>1, <2>1 DEF IInv, InstallersConsistent, Installing, Filling, Key,
       UnpublishedRegionIsPrivate
  <2>7. AppendersUseInstalledRegion'
    BY <1>1, <2>1 DEF IInv, AppendersUseInstalledRegion, Appending, Key
  <2> QED
    BY <2>3, <2>4, <2>5, <2>6, <2>7 DEF IInv
<1> QED
  BY <1>1, <1>3, <1>4

\* An unlock keeps the invariant: it is made by the owner.
LEMMA UnlockStep ==
    ASSUME IInv,
           NEW w \in Workers,
           NEW from \in LockedLabels,
           NEW to \in Labels \ LockedLabels,
           to \in Appending => from \in Appending,
           Unlock(w, from, to)
    PROVE  IInv'
<1>1. /\ pc[w] = from
      /\ UNCHANGED <<phase, txs, todo, op, region, row_region_, used_>>
      /\ lock' = [lock EXCEPT ![Key(w)] = -1]
      /\ Goto(w, to)
  BY DEF Unlock, batchVars, opVars, memVars, regionVars
<1>2. /\ pc' = [pc EXCEPT ![w] = to] /\ pc \in [Workers -> Labels]
      /\ Key(w) \in Keys
      /\ lock \in [Keys -> Workers \cup {-1}]
      /\ lock[Key(w)] = w
  BY <1>1 DEF Goto, IInv, ControlTypeOK, Key, LockOwner
<1>3. -1 \notin Workers /\ to \notin Filling
  BY NAssumption DEF Workers, Filling, LockedLabels
<1>4. ControlTypeOK'
  BY <1>1, <1>2 DEF IInv, ControlTypeOK
<1>5. LockOwner'
  BY <1>1, <1>2, <1>3 DEF IInv, LockOwner, Key
<1>6. RegionsFetched' /\ RegionsNotShared'
  BY <1>1 DEF IInv, RegionsFetched, RegionsNotShared
<1>7. InstallersConsistent' /\ UnpublishedRegionIsPrivate'
  BY <1>1, <1>2, <1>3 DEF IInv, InstallersConsistent, Installing, Filling, Key,
     UnpublishedRegionIsPrivate
<1>8. AppendersUseInstalledRegion'
  BY <1>1, <1>2 DEF IInv, AppendersUseInstalledRegion, Appending, Key
<1> QED
  BY <1>4, <1>5, <1>6, <1>7, <1>8 DEF IInv

\* The loaded database satisfies the invariant.
LEMMA InitIInv == Init => IInv
<1> SUFFICES ASSUME Init PROVE IInv
  OBVIOUS
<1>1. \A w \in Workers : Work("init", txs, w)
            \in SUBSET ((0 .. N - 1) \X (1 .. Cardinality(Keys)))
  BY DEF Work
<1>2. ControlTypeOK
  BY <1>1, NoOpTyped, EpochsAssumption DEF Init, ControlTypeOK, Labels, NoRegion
<1>3. -1 \notin Workers
  BY NAssumption DEF Workers
<1>4. LockOwner
  BY <1>3 DEF Init, LockOwner, LockedLabels
<1> QED
  BY <1>2, <1>4 DEF Init, IInv, RegionsFetched, InstallersConsistent, Installing,
     UnpublishedRegionIsPrivate, AppendersUseInstalledRegion, RegionsNotShared,
     NoRegion

\* The start of an operation: the worker forgets its region.
LEMMA BeginStep ==
    ASSUME IInv, NEW w \in Workers, Begin(w)
    PROVE  IInv'
<1>1. PICK p \in todo[w] :
         /\ op' = [op EXCEPT ![w] =
                     [core   |-> Core(phase, w, p[1]),
                      serial |-> Serial(phase, w, p[1]),
                      ope    |-> txs[Serial(phase, w, p[1])][p[2]].ope,
                      index  |-> txs[Serial(phase, w, p[1])][p[2]].index]]
         /\ todo' = [todo EXCEPT ![w] = @ \ {p}]
  BY DEF Begin
<1>2. /\ phase \in {"init", "exec"} /\ pc[w] = "begin"
      /\ region' = [region EXCEPT ![w] = NoRegion]
      /\ UNCHANGED <<phase, txs, lock, row_region_, used_>>
      /\ \E l \in {"epoch_guard", "read", "write"} : Goto(w, l)
  BY DEF Begin, batchVars, memVars, regionVars
<1>3. PICK l \in {"epoch_guard", "read", "write"} : Goto(w, l)
  BY <1>2
<1>4. /\ l \in Labels /\ l \notin LockedLabels /\ l \notin Filling
      /\ l \notin Appending
      /\ "begin" \notin LockedLabels /\ "begin" \notin Filling
  BY DEF Labels, LockedLabels, Filling, Appending
<1>5. /\ pc' = [pc EXCEPT ![w] = l] /\ pc \in [Workers -> Labels]
      /\ region \in [Workers -> Regions \cup {NoRegion}]
      /\ todo[w] \subseteq Work(phase, txs, w)
      /\ txs \in [Serials -> Seq(Operations)]
  BY <1>2, <1>3, WorkloadsAssumption DEF Goto, IInv, ControlTypeOK
<1>6. op'[w] \in [core : Cores, serial : Serials, index : Keys,
                  ope : {"None", "Read", "Update"}]
  <2>1. /\ p[1] \in 0 .. N - 1
        /\ p[2] \in DOMAIN txs[Serial(phase, w, p[1])]
    BY <1>5 DEF Work
  <2>2. /\ Serial(phase, w, p[1]) \in Serials
        /\ Core(phase, w, p[1]) \in Cores
    BY <2>1, AssignmentInRange
  <2>3. txs[Serial(phase, w, p[1])][p[2]] \in Operations
    BY <1>5, <2>1, <2>2
  <2> QED
    BY <1>1, <2>2, <2>3 DEF Operations, IInv, ControlTypeOK
<1>7. /\ op \in [Workers -> [core : Cores, serial : Serials, index : Keys,
                             ope : {"None", "Read", "Update"}]]
      /\ op' = [op EXCEPT ![w] = op'[w]]
  BY <1>1 DEF IInv, ControlTypeOK
<1>8. ControlTypeOK'
  BY <1>1, <1>2, <1>4, <1>5, <1>6, <1>7 DEF IInv, ControlTypeOK
<1>9. LockOwner'
  <2>1. \A u \in Workers : u # w => pc'[u] = pc[u] /\ op'[u] = op[u]
    BY <1>5, <1>7
  <2>2. pc[w] \notin LockedLabels /\ pc'[w] \notin LockedLabels
    BY <1>2, <1>4, <1>5
  <2> QED
    BY <1>2, <2>1, <2>2 DEF IInv, LockOwner, Key
<1>10. RegionsFetched'
  BY <1>2, <1>5 DEF IInv, RegionsFetched, NoRegion, ControlTypeOK
<1>11. RegionsNotShared'
  BY <1>2 DEF IInv, RegionsNotShared
<1>12. InstallersConsistent' /\ UnpublishedRegionIsPrivate'
  BY <1>2, <1>4, <1>5, <1>7 DEF IInv, InstallersConsistent, Installing, Filling,
     Key, UnpublishedRegionIsPrivate
<1>13. AppendersUseInstalledRegion'
  BY <1>2, <1>4, <1>5, <1>7 DEF IInv, AppendersUseInstalledRegion, Appending, Key
<1> QED
  BY <1>8, <1>9, <1>10, <1>11, <1>12, <1>13 DEF IInv

\* fetch_new_region hands out a region nobody has, or aborts.
LEMMA FetchStep ==
    ASSUME IInv, NEW w \in Workers, fetch_new_region(w)
    PROVE  IInv'
<1>1. /\ pc[w] = "install" /\ row_region_[Key(w)] = NoRegion
      /\ UNCHANGED <<txs, todo, op, lock, row_region_>>
  BY DEF fetch_new_region, FetchUnchanged, opVars
<1>2. CASE /\ phase' = "aborted"
           /\ UNCHANGED <<region, used_, pc>>
  BY <1>1, <1>2 DEF IInv, ControlTypeOK, LockOwner, RegionsFetched,
     InstallersConsistent, Installing, UnpublishedRegionIsPrivate,
     AppendersUseInstalledRegion, RegionsNotShared, Key
<1>3. CASE used_ < NumRegions /\ Fetch(w) /\ UNCHANGED phase
  <2>1. /\ region' = [region EXCEPT ![w] = used_ + 1]
        /\ used_' = used_ + 1
        /\ pc' = [pc EXCEPT ![w] = "move"]
        /\ pc \in [Workers -> Labels]
        /\ region \in [Workers -> Regions \cup {NoRegion}]
        /\ row_region_ \in [Keys -> Regions \cup {NoRegion}]
        /\ used_ \in 0 .. NumRegions /\ NumRegions \in Nat
    BY <1>3, EpochsAssumption DEF Fetch, Goto, IInv, ControlTypeOK
  <2>2. used_ + 1 \in Regions /\ used_ + 1 # NoRegion
    BY <1>3, <2>1 DEF Regions, NoRegion
  <2>3. /\ "move" \in Labels /\ "move" \in LockedLabels
        /\ "install" \in LockedLabels /\ "install" \notin Filling
        /\ "move" \notin Appending
    BY DEF Labels, LockedLabels, Filling, Appending
  <2>4. ControlTypeOK'
    BY <1>1, <1>3, <2>1, <2>2, <2>3 DEF IInv, ControlTypeOK
  <2>5. LockOwner'
    BY <1>1, <2>1, <2>3 DEF IInv, LockOwner, Key
  <2>6. RegionsFetched'
    BY <1>1, <2>1 DEF IInv, RegionsFetched, Regions, NoRegion
  <2>7. RegionsNotShared'
    BY <1>1 DEF IInv, RegionsNotShared
  <2>8. InstallersConsistent'
    BY <1>1, <2>1, <2>2 DEF IInv, InstallersConsistent, Installing, Key
  <2>9. UnpublishedRegionIsPrivate'
    BY <1>1, <2>1, <2>3 DEF IInv, UnpublishedRegionIsPrivate, RegionsFetched,
       Regions, NoRegion
  <2>10. AppendersUseInstalledRegion'
    BY <1>1, <2>1, <2>3 DEF IInv, AppendersUseInstalledRegion, Appending, Key
  <2> QED
    BY <2>4, <2>5, <2>6, <2>7, <2>8, <2>9, <2>10 DEF IInv
<1> QED
  BY <1>2, <1>3 DEF fetch_new_region

\* The store of row_region_: the row had none, and no other row has this one.
LEMMA PublishStep ==
    ASSUME IInv, NEW w \in Workers, publish_region(w)
    PROVE  IInv'
<1>1. /\ pc[w] = "publish"
      /\ row_region_' = [row_region_ EXCEPT ![Key(w)] = region[w]]
      /\ pc' = [pc EXCEPT ![w] = "install_unlock"]
      /\ pc \in [Workers -> Labels]
      /\ row_region_ \in [Keys -> Regions \cup {NoRegion}]
      /\ region \in [Workers -> Regions \cup {NoRegion}]
      /\ Key(w) \in Keys
      /\ UNCHANGED <<phase, txs, todo, op, region, lock, used_>>
  BY DEF publish_region, Goto, IInv, ControlTypeOK, Key, batchVars, opVars,
     memVars, regionVars
<1>2. /\ "install_unlock" \in Labels /\ "install_unlock" \in LockedLabels
      /\ "publish" \in LockedLabels
      /\ "install_unlock" \notin Filling
  BY DEF Labels, LockedLabels, Filling
<1>3. /\ region[w] # NoRegion /\ row_region_[Key(w)] = NoRegion
      /\ \A k \in Keys : row_region_[k] # region[w]
      /\ \A u \in Workers \ {w} : region[u] # region[w]
  BY <1>1 DEF IInv, InstallersConsistent, Installing, UnpublishedRegionIsPrivate
<1>4. ControlTypeOK'
  BY <1>1, <1>2 DEF IInv, ControlTypeOK
<1>5. LockOwner'
  BY <1>1, <1>2 DEF IInv, LockOwner, Key
<1>6. RegionsFetched'
  BY <1>1 DEF IInv, RegionsFetched
<1>7. RegionsNotShared'
  BY <1>1, <1>3 DEF IInv, RegionsNotShared
<1>8. InstallersConsistent'
  \* Another worker that fills a region does so for another row.
  <2>1. lock[Key(w)] = w
    BY <1>1, <1>2 DEF IInv, LockOwner
  <2>2. \A u \in Workers : u # w /\ pc[u] \in Filling => Key(u) # Key(w)
    BY <1>1, <2>1 DEF IInv, LockOwner, LockedLabels, Filling
  <2> QED
    BY <1>1, <2>2 DEF IInv, InstallersConsistent, Installing, Filling, Key
<1>9. UnpublishedRegionIsPrivate'
  BY <1>1, <1>2, <1>3 DEF IInv, UnpublishedRegionIsPrivate, Filling
<1>10. AppendersUseInstalledRegion'
  BY <1>1, <1>3 DEF IInv, AppendersUseInstalledRegion, Key
<1> QED
  BY <1>4, <1>5, <1>6, <1>7, <1>8, <1>9, <1>10 DEF IInv

\* The barriers: nobody is inside an operation.
LEMMA BarrierStep ==
    ASSUME IInv, StartExecution \/ NewEpoch
    PROVE  IInv'
<1>1. /\ \A w \in Workers : pc[w] = "begin"
      /\ UNCHANGED <<pc, region, lock, row_region_, used_>>
  BY DEF StartExecution, NewEpoch, AtBarrier, memVars, regionVars
<1>2. \A ph, batch : \A w \in Workers :
        Work(ph, batch, w) \in SUBSET ((0 .. N - 1) \X (1 .. Cardinality(Keys)))
  BY DEF Work
<1>3. ControlTypeOK'
  <2>1. CASE StartExecution
    BY <1>1, <1>2, <2>1 DEF IInv, ControlTypeOK, StartExecution
  <2>2. CASE NewEpoch
    BY <1>1, <1>2, <2>2, NoOpTyped DEF IInv, ControlTypeOK, NewEpoch
  <2> QED
    BY <2>1, <2>2
<1>4. LockOwner'
  BY <1>1 DEF IInv, LockOwner, LockedLabels
<1> QED
  BY <1>1, <1>3, <1>4 DEF IInv, RegionsFetched, InstallersConsistent, Installing,
     UnpublishedRegionIsPrivate, AppendersUseInstalledRegion, RegionsNotShared

\* The steps of a worker that change neither pointers nor locks.
LocalActions(w) ==
    \/ epoch_guard(w) \/ initialize_the_row(w) \/ store_epoch(w)
    \/ append_to_unconted_row(w) \/ move_global_array_to_row_region(w)
    \/ first_write_of_core(w) \/ append_to_contented_row(w)
    \/ read(w) \/ wait_stable_and_execute_read(w)
    \/ write_rec(w) \/ write_status(w)

\* They go to a label of the same kind.
LEMMA LocalActionsAreLocal ==
    ASSUME IInv, NEW w \in Workers, LocalActions(w)
    PROVE  IInv'
<1> USE DEF Labels, LockedLabels, Filling, Appending, batchVars, workerVars,
        opVars, memVars, rowVars, regionVars
<1> DEFINE Same == UNCHANGED <<phase, txs, todo, op, region, lock, row_region_, used_>>
           Kind(l) == /\ l \in Labels
                      /\ l \in LockedLabels <=> pc[w] \in LockedLabels
                      /\ l \in Filling => pc[w] \in Filling
                      /\ l \in Appending => pc[w] \in Appending
<1>1. CASE epoch_guard(w)
  <2>1. Same /\ \E l : Kind(l) /\ Goto(w, l)
    BY <1>1 DEF epoch_guard
  <2> QED
    BY <2>1, LocalStep
<1>2. CASE initialize_the_row(w)
  <2>1. Same /\ \E l : Kind(l) /\ Goto(w, l)
    BY <1>2 DEF initialize_the_row
  <2> QED
    BY <2>1, LocalStep
<1>3. CASE store_epoch(w) \/ append_to_unconted_row(w)
  <2>1. Same /\ \E l : Kind(l) /\ Goto(w, l)
    BY <1>3 DEF store_epoch, append_to_unconted_row
  <2> QED
    BY <2>1, LocalStep
<1>4. ASSUME UNCHANGED pc, Same PROVE IInv'
  <2>1. pc[w] \in Labels /\ Goto(w, pc[w])
    BY <1>4 DEF IInv, ControlTypeOK, Goto
  <2> HIDE DEF Labels, LockedLabels, Filling, Appending
  <2> QED
    BY <1>4, <2>1, LocalStep
<1>5. CASE move_global_array_to_row_region(w)
  <2>1. Same /\ (UNCHANGED pc \/ (pc[w] = "move" /\ Goto(w, "publish")))
    BY <1>5 DEF move_global_array_to_row_region
  <2>2. CASE pc[w] = "move" /\ Goto(w, "publish")
    <3>1. Kind("publish")
      BY <2>2
    <3> QED
      BY <2>1, <2>2, <3>1, LocalStep
  <2> QED
    BY <1>4, <2>1, <2>2
<1>6. CASE first_write_of_core(w)
  BY <1>4, <1>6 DEF first_write_of_core
<1>7. CASE append_to_contented_row(w)
  <2>1. Same /\ \E l : Kind(l) /\ Goto(w, l)
    BY <1>7 DEF append_to_contented_row
  <2> QED
    BY <2>1, LocalStep
<1>8. CASE read(w) \/ wait_stable_and_execute_read(w)
  <2>1. Same /\ \E l : Kind(l) /\ Goto(w, l)
    BY <1>8 DEF read, wait_stable_and_execute_read
  <2> QED
    BY <2>1, LocalStep
<1>9. CASE write_rec(w) \/ write_status(w)
  <2>1. Same /\ \E l : Kind(l) /\ Goto(w, l)
    BY <1>9 DEF write_rec, write_status, SetStatus
  <2> QED
    BY <2>1, LocalStep
<1> QED
  BY <1>1, <1>2, <1>3, <1>5, <1>6, <1>7, <1>8, <1>9 DEF LocalActions

\* The steps in which a worker takes over the pointer of its row.
LEMMA PointerActions ==
    ASSUME IInv, NEW w \in Workers,
           row_has_region(w) \/ wait_region_installation(w) \/ already_installed(w)
    PROVE  IInv'
<1> USE DEF Labels, LockedLabels, Filling, Appending
<1>1. /\ region' = [region EXCEPT ![w] = row_region_[Key(w)]]
      /\ UNCHANGED <<phase, txs, todo, op, lock, row_region_, used_>>
      /\ pc[w] \notin Filling
      /\ \E l \in Labels : /\ Goto(w, l)
                           /\ l \in LockedLabels <=> pc[w] \in LockedLabels
                           /\ l \notin Filling
                           /\ l \in Appending => row_region_[Key(w)] # NoRegion
  BY DEF row_has_region, wait_region_installation, already_installed, batchVars,
     opVars, memVars, regionVars
<1> HIDE DEF Labels, LockedLabels, Filling, Appending
<1> QED
  BY <1>1, PointerStep

\* Every step keeps the inductive invariant.
LEMMA NextIInv == IInv /\ [Next]_vars => IInv'
<1> SUFFICES ASSUME IInv, [Next]_vars PROVE IInv'
  OBVIOUS
<1>1. ASSUME NEW w \in Workers, Step(w) PROVE IInv'
  <2>l. /\ \A l \in {"guard_try_lock", "try_lock", "wait_try_lock"} :
              l \in Labels \ LockedLabels
        /\ \A l \in {"initialize_the_row", "locked", "install"} :
              l \in LockedLabels \ (Filling \cup Appending)
        /\ \A l \in {"epoch_guard", "wait_region"} :
              l \in Labels \ (LockedLabels \cup Appending)
        /\ \A l \in {"guard_unlock", "unlock", "install_unlock"} : l \in LockedLabels
        /\ \A l \in {"try_lock", "begin", "append"} : l \in Labels \ LockedLabels
        /\ "try_lock" \notin Appending /\ "begin" \notin Appending
        /\ "install_unlock" \in Appending
    BY DEF Labels, LockedLabels, Filling, Appending
  <2>1. CASE guard_try_lock(w) \/ try_lock(w) \/ wait_try_lock(w)
    BY <2>1, <2>l, TryLockStep DEF guard_try_lock, try_lock, wait_try_lock
  <2>2. CASE guard_unlock(w) \/ unlock(w) \/ install_unlock(w)
    BY <2>2, <2>l, UnlockStep DEF guard_unlock, unlock, install_unlock
  <2> QED
    BY <1>1, <2>1, <2>2, BeginStep, FetchStep, PublishStep, LocalActionsAreLocal,
       PointerActions DEF Step, LocalActions
<1>2. CASE UNCHANGED vars
  BY <1>2 DEF vars, batchVars, workerVars, memVars, regionVars, IInv, ControlTypeOK,
     LockOwner, RegionsFetched, InstallersConsistent, Installing,
     UnpublishedRegionIsPrivate, AppendersUseInstalledRegion, RegionsNotShared, Key
<1> QED
  BY <1>1, <1>2, BarrierStep DEF Next

\* The inductive invariant holds in every reachable state.
LEMMA InductiveInvariant == Spec => []IInv
BY InitIInv, NextIInv, PTL DEF Spec

\* The control state keeps its types: every worker is at a label of its code,
\* in an operation of its batch, with a region that exists.
THEOREM ControlTypeCorrect == Spec => []ControlTypeOK
BY InductiveInvariant, PTL DEF IInv

\* The lock of a row is held by the worker that is in a critical section on it
\* and by nobody else.
THEOREM LocksHaveOwners == Spec => []LockOwner
BY InductiveInvariant, PTL DEF IInv

\* A region is private to the installing worker until it is published.
THEOREM RegionsPrivateUntilPublished == Spec => []UnpublishedRegionIsPrivate
BY InductiveInvariant, PTL DEF IInv

\* Workers append only to the installed region of their row.
THEOREM AppendsReachTheRow == Spec => []AppendersUseInstalledRegion
BY InductiveInvariant, PTL DEF IInv

\* A step that writes row_region_ is publish_region, on a row without a region.
THEOREM RegionsNeverReplaced == Spec => RegionInstalledOnce
<1>1. IInv /\ [Next]_vars =>
        [\A k \in Keys : row_region_[k] # NoRegion =>
                            row_region_'[k] = row_region_[k]]_vars
  <2> SUFFICES ASSUME IInv, Next,
                      NEW k \in Keys, row_region_[k] # NoRegion
               PROVE  row_region_'[k] = row_region_[k]
    BY DEF vars
  <2>1. ASSUME NEW w \in Workers, publish_region(w)
        PROVE  row_region_'[k] = row_region_[k]
    <3>1. row_region_[Key(w)] = NoRegion
      BY <2>1 DEF publish_region, IInv, InstallersConsistent, Installing
    <3>2. row_region_ \in [Keys -> Regions \cup {NoRegion}]
      BY DEF IInv, ControlTypeOK
    <3> QED
      BY <2>1, <3>1, <3>2 DEF publish_region
  <2>2. ASSUME UNCHANGED row_region_
        PROVE  row_region_'[k] = row_region_[k]
    BY <2>2
  <2>3. StartExecution \/ NewEpoch => UNCHANGED row_region_
    BY DEF StartExecution, NewEpoch
  <2>4. ASSUME NEW w \in Workers, Step(w), ~publish_region(w)
        PROVE  UNCHANGED row_region_
    <3>1. Begin(w) \/ LocalActions(w) => UNCHANGED row_region_
      BY DEF Begin, LocalActions, epoch_guard, initialize_the_row, store_epoch,
         append_to_unconted_row, move_global_array_to_row_region,
         first_write_of_core, append_to_contented_row, read,
         wait_stable_and_execute_read, write_rec, write_status, SetStatus
    <3>2. guard_try_lock(w) \/ try_lock(w) \/ wait_try_lock(w) => UNCHANGED row_region_
      BY DEF guard_try_lock, try_lock, wait_try_lock, TryLock
    <3>3. guard_unlock(w) \/ unlock(w) \/ install_unlock(w) => UNCHANGED row_region_
      BY DEF guard_unlock, unlock, install_unlock, Unlock
    <3>4. row_has_region(w) \/ wait_region_installation(w) \/ already_installed(w)
             \/ fetch_new_region(w) => UNCHANGED row_region_
      BY DEF row_has_region, wait_region_installation, already_installed,
         fetch_new_region
    <3> QED
      BY <2>4, <3>1, <3>2, <3>3, <3>4 DEF Step, LocalActions
  <2> QED
    BY <2>1, <2>2, <2>3, <2>4 DEF Next
<1> QED
  BY <1>1, InductiveInvariant, PTL DEF Spec, RegionInstalledOnce

\* Workers and rows are finite, so their subsets can be counted.
LEMMA CountedSets ==
    /\ IsFiniteSet(Contended) /\ Cardinality(Contended) \in Nat
    /\ IsFiniteSet(Installing) /\ Cardinality(Installing) \in Nat
<1>1. IsFiniteSet(Workers)
  BY NAssumption, FS_Interval DEF Workers
<1>2. Contended \subseteq Keys /\ Installing \subseteq Workers
  BY DEF Contended, Installing
<1> QED
  BY <1>1, <1>2, KeysAssumption, FS_Subset, FS_CardinalityType

\* Every step keeps the books: only fetch_new_region and publish_region touch
\* them, and publishing turns an installing worker into a contended row.
LEMMA AccountingStep ==
    ASSUME IInv, RegionsAccounted, Next
    PROVE  RegionsAccounted'
<1> DEFINE Same == UNCHANGED <<Contended, Installing, used_>>
<1>1. ASSUME Same PROVE RegionsAccounted'
  BY <1>1 DEF RegionsAccounted
<1>t. pc \in [Workers -> Labels] /\ row_region_ \in [Keys -> Regions \cup {NoRegion}]
  BY DEF IInv, ControlTypeOK
<1>2. ASSUME NEW w \in Workers, NEW l, Goto(w, l),
             UNCHANGED <<row_region_, used_>>,
             l \in Filling <=> pc[w] \in Filling
      PROVE  RegionsAccounted'
  <2>1. Installing' = Installing
    BY <1>2, <1>t DEF Goto, Installing, Filling
  <2>2. Contended' = Contended
    BY <1>2 DEF Contended
  <2> QED
    BY <1>1, <1>2, <2>1, <2>2
<1>3. ASSUME UNCHANGED <<pc, row_region_, used_>> PROVE RegionsAccounted'
  BY <1>1, <1>3 DEF Contended, Installing
<1>4. ASSUME NEW w \in Workers, fetch_new_region(w), pc' # pc
      PROVE  RegionsAccounted'
  <2>1. /\ pc[w] = "install" /\ pc' = [pc EXCEPT ![w] = "move"]
        /\ used_' = used_ + 1 /\ UNCHANGED row_region_
    BY <1>4 DEF fetch_new_region, Fetch, Goto
  <2>2. Installing' = Installing \cup {w} /\ w \notin Installing
    BY <1>t, <2>1 DEF Installing
  <2>3. Cardinality(Installing') = Cardinality(Installing) + 1
    BY <2>2, CountedSets, FS_AddElement
  <2>4. Contended' = Contended
    BY <2>1 DEF Contended
  <2> QED
    BY <2>1, <2>3, <2>4, CountedSets DEF RegionsAccounted
<1>5. ASSUME NEW w \in Workers, publish_region(w)
      PROVE  RegionsAccounted'
  <2>1. /\ pc[w] = "publish" /\ pc' = [pc EXCEPT ![w] = "install_unlock"]
        /\ row_region_' = [row_region_ EXCEPT ![Key(w)] = region[w]]
        /\ UNCHANGED used_
    BY <1>5 DEF publish_region, Goto, memVars, regionVars
  <2>2. region[w] # NoRegion /\ row_region_[Key(w)] = NoRegion /\ Key(w) \in Keys
    BY <2>1 DEF IInv, InstallersConsistent, Installing, ControlTypeOK, Key
  <2>3. Installing' = Installing \ {w} /\ w \in Installing
    BY <1>t, <2>1 DEF Installing
  <2>4. Contended' = Contended \cup {Key(w)} /\ Key(w) \notin Contended
    BY <1>t, <2>1, <2>2 DEF Contended
  <2>5. Cardinality(Installing') = Cardinality(Installing) - 1
    BY <2>3, CountedSets, FS_RemoveElement
  <2>6. Cardinality(Contended') = Cardinality(Contended) + 1
    BY <2>4, CountedSets, FS_AddElement
  <2> QED
    BY <2>1, <2>5, <2>6, CountedSets DEF RegionsAccounted
<1>6. CASE StartExecution \/ NewEpoch
  <2>1. UNCHANGED <<pc, row_region_, used_>>
    BY <1>6 DEF StartExecution, NewEpoch, memVars, regionVars
  <2> QED
    BY <1>3, <2>1
<1>7. ASSUME NEW w \in Workers, Step(w), ~publish_region(w), ~fetch_new_region(w)
      PROVE  RegionsAccounted'
  <2> USE DEF Filling, memVars, regionVars, workerVars
  <2>1. CASE Begin(w)
    BY <1>2, <2>1 DEF Begin
  <2>2. CASE epoch_guard(w) \/ store_epoch(w) \/ append_to_unconted_row(w)
    BY <1>2, <2>2 DEF epoch_guard, store_epoch, append_to_unconted_row
  <2>3. CASE initialize_the_row(w)
    BY <1>2, <2>3 DEF initialize_the_row
  <2>4. CASE move_global_array_to_row_region(w)
    <3>1. /\ UNCHANGED <<row_region_, used_>>
          /\ UNCHANGED pc \/ (pc[w] = "move" /\ Goto(w, "publish"))
      BY <2>4 DEF move_global_array_to_row_region
    <3> QED
      BY <1>2, <1>3, <3>1
  <2>5. CASE first_write_of_core(w)
    BY <1>3, <2>5 DEF first_write_of_core
  <2>6. CASE append_to_contented_row(w)
    BY <1>2, <2>6 DEF append_to_contented_row
  <2>7. CASE read(w) \/ wait_stable_and_execute_read(w) \/ write_rec(w) \/ write_status(w)
    <3>1. /\ UNCHANGED <<row_region_, used_>> /\ pc[w] \notin Filling
          /\ \E l : l \notin Filling /\ Goto(w, l)
      BY <2>7 DEF read, wait_stable_and_execute_read, write_rec, write_status, SetStatus
    <3> QED
      BY <1>2, <3>1
  <2>8. CASE guard_try_lock(w) \/ try_lock(w) \/ wait_try_lock(w)
    <3>1. /\ UNCHANGED <<row_region_, used_>> /\ pc[w] \notin Filling
          /\ \E l : l \notin Filling /\ Goto(w, l)
      BY <2>8 DEF guard_try_lock, try_lock, wait_try_lock, TryLock
    <3> QED
      BY <1>2, <3>1
  <2>9. CASE guard_unlock(w) \/ unlock(w) \/ install_unlock(w)
    <3>1. /\ UNCHANGED <<row_region_, used_>> /\ pc[w] \notin Filling
          /\ \E l : l \notin Filling /\ Goto(w, l)
      BY <2>9 DEF guard_unlock, unlock, install_unlock, Unlock
    <3> QED
      BY <1>2, <3>1
  <2>10. CASE row_has_region(w) \/ wait_region_installation(w) \/ already_installed(w)
    <3>1. /\ UNCHANGED <<row_region_, used_>> /\ pc[w] \notin Filling
          /\ \E l : l \notin Filling /\ Goto(w, l)
      BY <2>10 DEF row_has_region, wait_region_installation, already_installed
    <3> QED
      BY <1>2, <3>1
  <2> QED
    BY <1>7, <2>1, <2>2, <2>3, <2>4, <2>5, <2>6, <2>7, <2>8, <2>9, <2>10 DEF Step
<1>8. ASSUME NEW w \in Workers, fetch_new_region(w), pc' = pc
      PROVE  RegionsAccounted'
  <2>1. UNCHANGED <<row_region_, used_>>
    BY <1>8, <1>t DEF fetch_new_region, Fetch, Goto
  <2> QED
    BY <1>3, <1>8, <2>1
<1> QED
  BY <1>4, <1>5, <1>6, <1>7, <1>8 DEF Next

\* No region is lost, so fetch_new_region throws only when NUM_REGIONS rows
\* have been contended.
THEOREM NoRegionIsLost == Spec => []RegionsAccounted
<1>1. Init => RegionsAccounted
  <2> SUFFICES ASSUME Init PROVE RegionsAccounted
    OBVIOUS
  <2>1. Contended = {} /\ Installing = {}
    BY DEF Init, Contended, Installing, NoRegion
  <2> QED
    BY <2>1, FS_EmptySet DEF Init, RegionsAccounted
<1>2. IInv /\ RegionsAccounted /\ [Next]_vars => RegionsAccounted'
  <2>1. CASE UNCHANGED vars
    BY <2>1 DEF vars, workerVars, memVars, regionVars, RegionsAccounted, Contended,
       Installing
  <2> QED
    BY <2>1, AccountingStep
<1> QED
  BY <1>1, <1>2, InductiveInvariant, PTL DEF Spec
-------------------------------------------------------------------------------
(***************************************************************************)
(* The data of Serval.  Row(k) is row k as one value: the epoch its        *)
(* containers belong to, master_, the global array, and the bitmaps and    *)
(* arrays of its region, which is the installed one or, before that, the   *)
(* one a worker fills for it; a row without a region has empty arrays.     *)
(***************************************************************************)
RowEpoch(k) ==
    IF \E w \in Workers : pc[w] = "store_epoch" /\ Key(w) = k THEN epoch ELSE row_epoch[k]

Fillers(k) == {w \in Workers : pc[w] \in Filling /\ Key(w) = k}

RegionOf(k) ==
    IF row_region_[k] # NoRegion THEN row_region_[k]
    ELSE IF Fillers(k) # {} THEN region[CHOOSE w \in Fillers(k) : TRUE]
    ELSE NoRegion

OfRegion(k, f, none) == IF RegionOf(k) = NoRegion THEN none ELSE f[RegionOf(k)]

Row(k) ==
    [epoch  |-> RowEpoch(k), master |-> master_[k], global |-> global_array_[k],
     cores  |-> OfRegion(k, core_bitmap_, {}),
     bits   |-> OfRegion(k, transaction_bitmap_, [c \in Cores |-> {}]),
     arrays |-> OfRegion(k, slots_, [c \in Cores |-> <<>>]),
     status |-> status[k]]

Rank(B, t) == Cardinality({u \in B : u <= t})

\* The array a of a core c that has written the row in epoch e, with bitmap B:
\* the n-th slot has the version of the n-th transaction.
Opened(e, c, B, a) ==
    /\ Len(a) = Cardinality(B)
    /\ \A t \in B : Rank(B, t) \in DOMAIN a /\ a[Rank(B, t)] = <<e, c * N + t>>
    /\ \A i \in DOMAIN a : \E t \in B : Rank(B, t) = i

\* The array of a core that has not: what is left of earlier epochs.
Left(e, c, a) ==
    /\ \A i \in DOMAIN a : /\ a[i][1] < e
                           /\ a[i][2] \in Serials /\ get_core_serial(a[i][2]) = c
    /\ \A i, j \in DOMAIN a : a[i] = a[j] => i = j

Owned(x) == {x.master} \cup x.global \cup UNION {Range(x.arrays[c]) : c \in Cores}

Statuses == {"none", "pending", "written", "stable"}

RowTyped(x) ==
    /\ x.epoch \in Nat
    /\ x.master \in Versions
    /\ x.global \subseteq Versions
    /\ x.cores \subseteq Cores
    /\ x.bits \in [Cores -> SUBSET Cores]
    /\ x.arrays \in [Cores -> Seq(Versions)]
    /\ x.status \in [Versions -> Statuses]

\* master_ is older than what the containers hold; the global array is what has
\* not been moved to the region yet; and what exists is what is owned.
RowOK(x) ==
    /\ RowTyped(x)
    /\ x.master[1] < x.epoch \/ (x.epoch = 0 /\ x.master = <<0, -2>>)
    /\ \A v \in x.global : /\ v[1] = x.epoch
                           /\ v[2] \in Serials \/ (x.epoch = 0 /\ v[2] = -1)
    /\ \A c \in x.cores : Opened(x.epoch, c, x.bits[c], x.arrays[c])
    /\ \A c \in Cores \ x.cores : Left(x.epoch, c, x.arrays[c])
    /\ \A c \in Cores : x.master \notin Range(x.arrays[c])
    /\ \A v \in x.global, c \in x.cores : \A t \in x.bits[c] : c * N + t < v[2]
    /\ \A v \in Versions : x.status[v] = "none" <=> v \notin Owned(x)

\* Regions not handed out are as the constructor left them.
FreshRegions ==
    \A r \in Regions : r > used_ =>
        /\ core_bitmap_[r] = {}
        /\ transaction_bitmap_[r] = [c \in Cores |-> {}]
        /\ slots_[r] = [c \in Cores |-> <<>>]

DataTypeOK ==
    /\ master_ \in [Keys -> Versions]
    /\ global_array_ \in [Keys -> SUBSET Versions]
    /\ core_bitmap_ \in [Regions -> SUBSET Cores]
    /\ transaction_bitmap_ \in [Regions -> [Cores -> SUBSET Cores]]
    /\ slots_ \in [Regions -> [Cores -> Seq(Versions)]]
    /\ status \in [Keys -> [Versions -> Statuses]]
    /\ row_epoch \in [Keys -> Nat]
-------------------------------------------------------------------------------
(***************************************************************************)
(* The progress of the workers                                             *)
(***************************************************************************)
Unfiled == {"epoch_guard", "guard_try_lock", "initialize_the_row", "store_epoch",
            "guard_unlock", "try_lock", "locked", "wait_region", "wait_try_lock",
            "install", "move", "publish", "install_unlock", "append", "locked_append"}

\* Where the row has been initialized in this epoch.
Guarded == {"guard_unlock", "try_lock", "locked", "unlock", "wait_region",
            "wait_try_lock", "install", "move", "publish", "install_unlock",
            "append", "locked_append"}

\* The operation of iteration p of the loops of worker w
Operation(ph, batch, w, p) ==
    LET s == Serial(ph, w, p[1])
    IN  [core |-> Core(ph, w, p[1]), serial |-> s,
         ope |-> batch[s][p[2]].ope, index |-> batch[s][p[2]].index]

Begun(w) == Work(phase, txs, w) \ todo[w]

\* The loops run in order; a worker inside an operation is in the last it began.
InLoop(w) ==
    /\ \A p \in Begun(w), q \in todo[w] : Before(p, q)
    /\ pc[w] # "begin" => \E p \in Begun(w) :
          /\ op[w] = Operation(phase, txs, w, p)
          /\ \A q \in Begun(w) : Before(q, p)

LabelsOfPhase ==
    /\ phase \in {"init", "aborted"} =>
         \A w \in Workers : /\ pc[w] \in Unfiled \cup {"begin", "unlock"}
                            /\ op[w].ope \in {"None", "Update"}
    /\ phase = "exec" =>
         \A w \in Workers : \/ pc[w] = "begin"
                            \/ pc[w] \in {"read", "wait_stable"} /\ op[w].ope = "Read"
                            \/ pc[w] \in {"write", "write_status"} /\ op[w].ope = "Update"
    /\ phase = "end" => \A w \in Workers : pc[w] = "begin"

EpochsOK ==
    /\ epoch \in Nat \ {0}
    /\ phase # "end" => epoch <= NumEpochs
    /\ \A k \in Keys : row_epoch[k] <= epoch
    /\ phase = "end" => \A k \in Keys : row_epoch[k] < epoch
    /\ \A k \in Keys : row_epoch[k] = epoch => Writers(k) # {}
    /\ \A w \in Workers : /\ pc[w] \in Guarded => row_epoch[Key(w)] = epoch
                          /\ pc[w] = "store_epoch" => row_epoch[Key(w)] < epoch

Progress ==
    /\ LabelsOfPhase
    /\ EpochsOK
    /\ phase \in {"init", "exec"} => \A w \in Workers : InLoop(w)

\* o is the update of row k by transaction s.
IsUpdate(o, s, k) == o.ope = "Update" /\ o.serial = s /\ o.index = k

\* The writers of k whose update is still to be made in this phase, and those
\* that are between the record and the status.
Waiting(k) ==
    {s \in Serials : \E w \in Workers :
        \/ \E p \in todo[w] : IsUpdate(Operation(phase, txs, w, p), s, k)
        \/ pc[w] \in Unfiled \cup {"write"} /\ IsUpdate(op[w], s, k)}

Writing(k) == {s \in Serials : \E w \in Workers :
                                  pc[w] = "write_status" /\ IsUpdate(op[w], s, k)}

Filed(k) == IF phase = "init" THEN Writers(k) \ Waiting(k) ELSE Writers(k)
-------------------------------------------------------------------------------
(***************************************************************************)
(* The invariant                                                           *)
(***************************************************************************)

\* Whether the containers of row x have a version of serial number s.
HasVersion(x, s) ==
    \/ <<x.epoch, s>> \in x.global
    \/ get_core_serial(s) \in x.cores /\ get_tx_serial(s) \in x.bits[get_core_serial(s)]

\* The containers have the versions of the epoch that were appended, no others.
Contents(k) ==
    phase \in {"init", "exec"} =>
        IF RowEpoch(k) = epoch THEN \A s \in Serials : s \in Filed(k) <=> HasVersion(Row(k), s)
        ELSE Filed(k) = {}

IsNext(x, c) == \E v \in x.global : /\ \A u \in x.global : v[2] <= u[2]
                                    /\ get_core_serial(v[2]) = c

\* A core has a version in its array, or is about to have one.
NoEmptyArrays(k) ==
    \A c \in Row(k).cores :
        \/ Row(k).bits[c] # {}
        \/ /\ RowEpoch(k) = epoch /\ phase \in {"init", "aborted"}
           /\ \/ pc[c] \in {"append", "locked_append"} /\ Key(c) = k
              \/ IsNext(Row(k), c)

\* With a region the row is done with its global array.
OnePlace(k) ==
    row_region_[k] # NoRegion \/ (\E w \in Fillers(k) : pc[w] = "publish") =>
        global_array_[k] = {}

StatusOf(k, s) == IF phase = "init" \/ s \in Waiting(k) THEN "pending"
                  ELSE IF s \in Writing(k) THEN "written" ELSE "stable"

StatusesOK(k) ==
    \A v \in Owned(Row(k)) :
        /\ v[1] < epoch => status[k][v] = "stable"
        /\ v[1] = epoch /\ phase \in {"init", "exec"} => status[k][v] = StatusOf(k, v[2])

Final(x) ==
    IF x.global # {} THEN Latest(x.global)
    ELSE IF x.cores # {} THEN Last(x.arrays[Max(x.cores)])
    ELSE x.master

FinalOK(k) ==
    IF RowEpoch(k) = epoch THEN master_[k] = db[k] ELSE Final(Row(k)) = db[k]

\* A reader waits for the last version before it in serial order; what it has
\* returned is stable, and what serial execution would return.
ReadOK(w) ==
    LET before == {u \in Writers(Key(w)) : u < op[w].serial}
    IN  /\ pc[w] = "wait_stable" => before # {} /\ visible[w] = <<epoch, Max(before)>>
        /\ JustRead(w) =>
             /\ got[w] \in Versions /\ status[Key(w)][got[w]] = "stable"
             /\ WrittenInEpoch(Key(w)) => got[w] = SerialRead(op[w].serial, Key(w))

ReadsOK == \A w \in Workers : ReadOK(w)

ReadsTyped == /\ visible \in [Workers -> Versions \cup {NoVersion}]
              /\ got \in [Workers -> Versions \cup {NoVersion}]

RowInv(k) == /\ RowOK(Row(k))
             /\ Contents(k)
             /\ NoEmptyArrays(k)
             /\ OnePlace(k)
             /\ StatusesOK(k)
             /\ FinalOK(k)

DInv == /\ DataTypeOK
        /\ Progress
        /\ FreshRegions
        /\ \A k \in Keys : RowInv(k)
        /\ ReadsTyped
        /\ ReadsOK
-------------------------------------------------------------------------------
(***************************************************************************)
(* Serial numbers, cores and ranks                                         *)
(***************************************************************************)

\* Cores are natural numbers.
LEMMA CoresAreNatural ==
    /\ N \in Nat \ {0} /\ Cores = Workers /\ Cores \subseteq Nat
    /\ \A c \in Cores : c \in Nat /\ c < N
  BY NAssumption DEF Workers, Cores

\* Serial numbers are natural numbers.
LEMMA SerialsAreNatural == N * N \in Nat \ {0} /\ Serials \subseteq Nat
<1>1. N * N \in Nat \ {0}
  BY NAssumption, SMT
<1> QED
  BY <1>1 DEF Serials

\* A serial number is its core and its place on the core.
LEMMA CoreAndTx ==
    ASSUME NEW s \in Serials
    PROVE  /\ get_core_serial(s) \in Cores /\ get_tx_serial(s) \in Cores
           /\ s = get_core_serial(s) * N + get_tx_serial(s)
<1>1. N \in Nat \ {0} /\ s \in Nat /\ s < N * N
  BY NAssumption, SerialsAreNatural DEF Serials
<1>2. /\ s \div N \in Int /\ s % N \in 0 .. N - 1
      /\ s = N * (s \div N) + (s % N)
  BY <1>1, SMT
<1> DEFINE q == s \div N
<1>3. q >= 0
  <2> SUFFICES ASSUME q < 0 PROVE FALSE
    BY <1>2
  <2>1. N * q <= N * (-1)
    BY <1>1, <1>2, SMT
  <2> QED
    BY <1>1, <1>2, <2>1, SMT
<1>4. q < N
  <2> SUFFICES ASSUME q >= N PROVE FALSE
    BY <1>1, <1>2
  <2>1. N * q >= N * N
    BY <1>1, <1>2, SMT
  <2> QED
    BY <1>1, <1>2, <2>1, SMT
<1>5. N * q = q * N
  BY <1>1, <1>2, SMT
<1> QED
  BY <1>1, <1>2, <1>3, <1>4, <1>5 DEF get_core_serial, get_tx_serial, Cores

\* Core and place make a serial number, which has them; serial numbers are
\* ordered by core, then by place.
LEMMA SerialOf ==
    ASSUME NEW c \in Cores, NEW t \in Cores
    PROVE  /\ c * N + t \in Serials
           /\ get_core_serial(c * N + t) = c /\ get_tx_serial(c * N + t) = t
           /\ \A d, x \in Cores :
                 /\ c * N + t < d * N + x <=> c < d \/ (c = d /\ t < x)
                 /\ c * N + t = d * N + x <=> c = d /\ t = x
<1>1. N \in Nat \ {0} /\ c \in Nat /\ t \in Nat /\ c < N /\ t < N
  BY CoresAreNatural
<1>2. c * N + t \in Serials
  <2>1. c * N + N <= N * N /\ c * N \in Nat
    BY <1>1, SMT
  <2> QED
    BY <1>1, <2>1 DEF Serials
<1>3. ASSUME NEW d \in Cores, NEW x \in Cores
      PROVE  /\ c * N + t < d * N + x <=> c < d \/ (c = d /\ t < x)
             /\ c * N + t = d * N + x <=> c = d /\ t = x
  <2>1. d \in Nat /\ x \in Nat /\ x < N
    BY CoresAreNatural
  <2>2. c * N \in Nat /\ d * N \in Nat
    BY <1>1, <2>1, SMT
  <2>3. d < c => d * N + N <= c * N
    BY <1>1, <2>1, SMT
  <2>4. c < d => c * N + N <= d * N
    BY <1>1, <2>1, SMT
  <2>5. c = d \/ c < d \/ d < c
    BY <1>1, <2>1
  <2> QED
    BY <1>1, <2>1, <2>2, <2>3, <2>4, <2>5
<1>4. get_core_serial(c * N + t) = c /\ get_tx_serial(c * N + t) = t
  <2>1. PICK s \in Serials : s = c * N + t
    BY <1>2
  <2>2. PICK d \in Cores, x \in Cores :
           d = get_core_serial(s) /\ x = get_tx_serial(s) /\ s = d * N + x
    BY CoreAndTx
  <2>3. c = d /\ t = x
    BY <1>3, <2>1, <2>2
  <2> QED
    BY <2>1, <2>2, <2>3
<1> QED
  BY <1>2, <1>3, <1>4

\* A bounded nonempty set of numbers has a largest one.
LEMMA MaxIsLargest ==
    ASSUME NEW M \in Nat, NEW S, S \subseteq 0 .. M, S # {}
    PROVE  Max(S) \in S /\ \A x \in S : x <= Max(S)
<1> DEFINE D == {M - x : x \in S}
<1>1. \A x \in S : x \in Nat /\ x <= M
  OBVIOUS
<1>2. D \in SUBSET Nat /\ D # {}
  BY <1>1
<1>3. PICK d \in D : \A e \in D : ~(<<e, d>> \in OpToRel(<, Nat))
  BY <1>2, NatLessThanWellFounded, WFMin
<1>4. \A e \in D : ~(e < d)
  BY <1>2, <1>3 DEF OpToRel
<1>5. PICK x \in S : d = M - x
  OBVIOUS
<1>6. ASSUME NEW y \in S PROVE x >= y
  <2>1. PICK e \in D : e = M - y
    OBVIOUS
  <2>2. ~(e < d)
    BY <1>4
  <2>3. x \in Nat /\ y \in Nat
    BY <1>1
  <2> QED
    BY <1>5, <2>1, <2>2, <2>3
<1> HIDE DEF D
<1>7. Max(S) \in S /\ \A y \in S : Max(S) >= y
  BY <1>6 DEF Max
<1> QED
  BY <1>1, <1>7

\* ... and a bounded nonempty set of cores, or of serial numbers.
LEMMA MaxOfCores ==
    ASSUME NEW S, S \subseteq Cores, S # {}
    PROVE  Max(S) \in S /\ \A x \in S : x <= Max(S)
<1>1. N - 1 \in Nat
  BY NAssumption
<1> QED
  BY <1>1, MaxIsLargest DEF Cores

\* The largest of a set of serial numbers
LEMMA MaxOfSerials ==
    ASSUME NEW S, S \subseteq Serials, S # {}
    PROVE  Max(S) \in S /\ \A x \in S : x <= Max(S)
<1>1. N * N - 1 \in Nat
  BY SerialsAreNatural
<1>2. PICK M \in Nat : M = N * N - 1
  BY <1>1
<1>3. S \subseteq 0 .. M
  BY <1>2 DEF Serials
<1> QED
  BY <1>3, MaxIsLargest

\* The largest of a set is what is in it and not below another.
LEMMA MaxIs ==
    ASSUME NEW S, S \subseteq Nat, NEW m \in S, \A x \in S : x <= m
    PROVE  Max(S) = m
<1>1. \A x \in S : m >= x
  OBVIOUS
<1>2. Max(S) \in S /\ \A y \in S : Max(S) >= y
  BY <1>1 DEF Max
<1>3. PICK n \in S : n = Max(S)
  BY <1>2
<1>4. n >= m /\ n <= m /\ n \in Nat /\ m \in Nat
  BY <1>2, <1>3
<1> QED
  BY <1>3, <1>4

\* Sets of places on a core are finite, and ranks are numbers.
LEMMA RankIsNumber ==
    ASSUME NEW B \in SUBSET Cores, NEW t
    PROVE  /\ IsFiniteSet(B) /\ Cardinality(B) \in Nat
           /\ IsFiniteSet({u \in B : u <= t}) /\ Rank(B, t) \in Nat
           /\ Rank(B, t) <= Cardinality(B)
<1>1. IsFiniteSet(Cores)
  BY NAssumption, FS_Interval DEF Cores
<1>2. IsFiniteSet(B)
  BY <1>1, FS_Subset
<1>3. {u \in B : u <= t} \in SUBSET B
  OBVIOUS
<1>4. /\ IsFiniteSet({u \in B : u <= t})
      /\ Cardinality({u \in B : u <= t}) <= Cardinality(B)
  BY <1>2, <1>3, FS_Subset
<1> QED
  BY <1>2, <1>4, FS_CardinalityType DEF Rank

\* The rank of a member is positive and below that of a later member.
LEMMA RankGrows ==
    ASSUME NEW B \in SUBSET Cores, NEW t \in B
    PROVE  /\ 1 <= Rank(B, t)
           /\ \A u \in B : t < u => Rank(B, t) < Rank(B, u)
<1> DEFINE S == {u \in B : u <= t}
<1>1. IsFiniteSet(S) /\ Cardinality(S) \in Nat /\ Rank(B, t) = Cardinality(S)
  BY RankIsNumber DEF Rank
<1>2. t \in Nat /\ B \subseteq Nat
  BY CoresAreNatural
<1>3. 1 <= Rank(B, t)
  <2>1. t \in S
    BY <1>2
  <2>2. Cardinality(S) # 0
    BY <1>1, <2>1, FS_EmptySet
  <2> QED
    BY <1>1, <2>2
<1>4. ASSUME NEW u \in B, t < u PROVE Rank(B, t) < Rank(B, u)
  <2> DEFINE U == {x \in B : x <= u}
  <2>1. IsFiniteSet(U) /\ Cardinality(U) \in Nat /\ Rank(B, u) = Cardinality(U)
    BY RankIsNumber DEF Rank
  <2>2. u \in U /\ u \notin S
    BY <1>2, <1>4
  <2>3. S \cup {u} \in SUBSET U
    <3>1. ASSUME NEW x \in S PROVE x \in B /\ x <= u
      <4>1. x \in B /\ x <= t /\ x \in Nat /\ u \in Nat
        BY <1>2
      <4> QED
        BY <1>2, <1>4, <4>1
    <3> QED
      BY <2>2, <3>1
  <2>4. Cardinality(S \cup {u}) = Cardinality(S) + 1
    BY <1>1, <2>2, FS_AddElement
  <2>5. Cardinality(S \cup {u}) <= Cardinality(U)
    BY <2>1, <2>3, FS_Subset
  <2> QED
    BY <1>1, <2>1, <2>4, <2>5
<1> QED
  BY <1>3, <1>4

\* A bit above all others leaves the ranks alone and is the last.
LEMMA RankAfterLast ==
    ASSUME NEW B \in SUBSET Cores, NEW t \in Cores, \A u \in B : u < t
    PROVE  /\ \A u \in B : Rank(B \cup {t}, u) = Rank(B, u)
           /\ Rank(B \cup {t}, t) = Cardinality(B) + 1
           /\ Cardinality(B \cup {t}) = Cardinality(B) + 1
<1>1. t \in Nat /\ B \subseteq Nat /\ t \notin B
  BY CoresAreNatural
<1>2. IsFiniteSet(B)
  BY RankIsNumber
<1>3. Cardinality(B \cup {t}) = Cardinality(B) + 1
  BY <1>1, <1>2, FS_AddElement
<1>4. {x \in B \cup {t} : x <= t} = B \cup {t}
  <2>1. \A x \in B \cup {t} : x <= t
    BY <1>1
  <2> QED
    BY <2>1
<1>5. ASSUME NEW u \in B PROVE {x \in B \cup {t} : x <= u} = {x \in B : x <= u}
  <2>1. ~(t <= u)
    BY <1>1
  <2> QED
    BY <2>1
<1> QED
  BY <1>3, <1>4, <1>5 DEF Rank

\* The rank of the last bit is the number of bits.
LEMMA RankOfMax ==
    ASSUME NEW B \in SUBSET Cores, B # {}
    PROVE  Max(B) \in B /\ (\A x \in B : x <= Max(B)) /\ Rank(B, Max(B)) = Cardinality(B)
<1>1. Max(B) \in B /\ \A x \in B : x <= Max(B)
  BY MaxOfCores
<1>2. {u \in B : u <= Max(B)} = B
  BY <1>1
<1> QED
  BY <1>1, <1>2 DEF Rank
-------------------------------------------------------------------------------
(***************************************************************************)
(* Arrays of a core                                                        *)
(***************************************************************************)

\* What a slot of an opened array holds.
LEMMA OpenedEntry ==
    ASSUME NEW e, NEW c \in Cores, NEW B \in SUBSET Cores, NEW a, Opened(e, c, B, a),
           NEW i \in DOMAIN a
    PROVE  \E t \in B : Rank(B, t) = i /\ a[i] = <<e, c * N + t>>
<1>1. PICK t \in B : Rank(B, t) = i
  BY DEF Opened
<1>2. a[Rank(B, t)] = <<e, c * N + t>>
  BY DEF Opened
<1> QED
  BY <1>1, <1>2

\* Its versions are in the order of the transactions.
LEMMA OpenedAscends ==
    ASSUME NEW e, NEW c \in Cores, NEW B \in SUBSET Cores, NEW a, Opened(e, c, B, a),
           NEW m \in DOMAIN a, NEW n \in DOMAIN a, m < n
    PROVE  a[m][2] < a[n][2]
<1>1. PICK t \in B : Rank(B, t) = m /\ a[m] = <<e, c * N + t>>
  BY OpenedEntry
<1>2. PICK u \in B : Rank(B, u) = n /\ a[n] = <<e, c * N + u>>
  BY OpenedEntry
<1>3. t \in Cores /\ u \in Cores /\ t \in Nat /\ u \in Nat /\ m \in Nat /\ n \in Nat
  BY <1>1, <1>2, CoresAreNatural, RankIsNumber
<1>4. t # u
  BY <1>1, <1>2, <1>3
<1>5. ~(u < t)
  <2> SUFFICES ASSUME u < t PROVE FALSE
    OBVIOUS
  <2>1. Rank(B, u) < Rank(B, t)
    BY RankGrows
  <2> QED
    BY <1>1, <1>2, <1>3, <2>1
<1>6. t < u
  BY <1>3, <1>4, <1>5
<1>7. c * N + t < c * N + u
  BY <1>3, <1>6, SerialOf
<1> QED
  BY <1>1, <1>2, <1>7

\* An array that is just opened is empty.
LEMMA OpenedEmpty ==
    ASSUME NEW e, NEW c
    PROVE  Opened(e, c, {}, <<>>)
  BY FS_EmptySet DEF Opened

Below(B, t) == \A u \in B : u < t

AppendedTo(e, c, B, a, t, v, b) ==
    Opened(e, c, B, a) /\ Below(B, t) /\ v = <<e, c * N + t>> /\ b = Append(a, v)

RangeGrows(a, b, v) == \A u : u \in Range(b) <=> u \in Range(a) \/ u = v

\* Appending the version of a later transaction.
LEMMA OpenedAppend ==
    ASSUME NEW e, NEW c \in Cores, NEW B \in SUBSET Cores, NEW a \in Seq(Versions),
           NEW t \in Cores, NEW v \in Versions, NEW b, AppendedTo(e, c, B, a, t, v, b)
    PROVE  Opened(e, c, B \cup {t}, b) /\ RangeGrows(a, b, v)
<1>0. Opened(e, c, B, a) /\ Below(B, t) /\ v = <<e, c * N + t>> /\ b = Append(a, v)
  BY DEF AppendedTo
<1>3. PICK C : C = B \cup {t}
  OBVIOUS
<1>4. /\ \A u \in B : Rank(C, u) = Rank(B, u)
      /\ Rank(C, t) = Cardinality(B) + 1 /\ Cardinality(C) = Cardinality(B) + 1
  BY <1>0, <1>3, RankAfterLast DEF Below
<1>5. Len(a) = Cardinality(B) /\ Cardinality(B) \in Nat
  BY <1>0, RankIsNumber DEF Opened
<1>6. /\ b \in Seq(Versions) /\ Len(b) = Len(a) + 1 /\ DOMAIN b = 1 .. Len(a) + 1
      /\ DOMAIN a = 1 .. Len(a)
      /\ \A i \in DOMAIN a : b[i] = a[i]
      /\ b[Len(a) + 1] = v
  BY <1>0
<1>7. Len(b) = Cardinality(C)
  BY <1>4, <1>5, <1>6
<1>8. ASSUME NEW u \in C PROVE Rank(C, u) \in DOMAIN b /\ b[Rank(C, u)] = <<e, c * N + u>>
  <2>1. CASE u = t
    BY <1>0, <1>4, <1>5, <1>6, <2>1
  <2>2. CASE u \in B
    <3>1. Rank(B, u) \in DOMAIN a /\ a[Rank(B, u)] = <<e, c * N + u>>
      BY <1>0, <2>2 DEF Opened
    <3> QED
      BY <1>4, <1>5, <1>6, <2>2, <3>1
  <2> QED
    BY <1>3, <2>1, <2>2
<1>9. ASSUME NEW i \in DOMAIN b PROVE \E u \in C : Rank(C, u) = i
  <2>1. CASE i = Len(a) + 1
    BY <1>3, <1>4, <1>5, <2>1
  <2>2. CASE i \in DOMAIN a
    <3>1. PICK u \in B : Rank(B, u) = i
      BY <1>0, <2>2 DEF Opened
    <3> QED
      BY <1>3, <1>4, <3>1
  <2> QED
    BY <1>5, <1>6, <2>1, <2>2
<1>10. Opened(e, c, C, b)
  BY <1>7, <1>8, <1>9 DEF Opened
<1>11. RangeGrows(a, b, v)
  <2>1. \A i \in DOMAIN b : i \in DOMAIN a \/ i = Len(a) + 1
    BY <1>5, <1>6
  <2>2. DOMAIN a \subseteq DOMAIN b /\ Len(a) + 1 \in DOMAIN b
    BY <1>5, <1>6
  <2> QED
    BY <1>6, <2>1, <2>2 DEF Range, RangeGrows
<1> QED
  BY <1>3, <1>10, <1>11

\* The last version of an array is its last transaction's.
LEMMA OpenedLast ==
    ASSUME NEW e, NEW c \in Cores, NEW B \in SUBSET Cores, B # {}, NEW a \in Seq(Versions),
           Opened(e, c, B, a)
    PROVE  /\ Len(a) \in DOMAIN a /\ a[Len(a)] = <<e, c * N + Max(B)>>
           /\ Last(a) = <<e, c * N + Max(B)>>
           /\ Max(B) \in B /\ \A u \in B : u <= Max(B)
<1>1. Max(B) \in B /\ (\A u \in B : u <= Max(B)) /\ Rank(B, Max(B)) = Cardinality(B)
  BY RankOfMax
<1>2. PICK m \in B : m = Max(B)
  BY <1>1
<1>3. Rank(B, m) \in DOMAIN a /\ a[Rank(B, m)] = <<e, c * N + m>> /\ Len(a) = Rank(B, m)
  BY <1>1, <1>2 DEF Opened
<1> QED
  BY <1>1, <1>2, <1>3 DEF Last
-------------------------------------------------------------------------------
(***************************************************************************)
(* Rows                                                                    *)
(***************************************************************************)

\* The version in a slot of a row, by whether its core has written the row.
LEMMA SlotEntry ==
    ASSUME NEW x, RowOK(x), NEW c \in Cores, NEW i \in DOMAIN x.arrays[c]
    PROVE  LET v == x.arrays[c][i]
           IN  /\ v \in Versions /\ v[2] \in Serials /\ get_core_serial(v[2]) = c
               /\ c \in x.cores => v[1] = x.epoch /\ \E t \in x.bits[c] : v = <<x.epoch, c * N + t>>
               /\ c \notin x.cores => v[1] < x.epoch
<1>1. PICK v : v = x.arrays[c][i]
  OBVIOUS
<1>2. v \in Versions
  BY <1>1 DEF RowOK, RowTyped
<1>3. CASE c \in x.cores
  <2>1. PICK B \in SUBSET Cores : B = x.bits[c]
    BY DEF RowOK, RowTyped
  <2>2. Opened(x.epoch, c, B, x.arrays[c])
    BY <1>3, <2>1 DEF RowOK
  <2>3. PICK t \in B : v = <<x.epoch, c * N + t>>
    BY <1>1, <2>2, OpenedEntry
  <2>4. c * N + t \in Serials /\ get_core_serial(c * N + t) = c
    BY <2>1, SerialOf
  <2> QED
    BY <1>1, <1>2, <1>3, <2>1, <2>3, <2>4
<1>4. CASE c \notin x.cores
  <2>1. Left(x.epoch, c, x.arrays[c])
    BY <1>4 DEF RowOK
  <2> QED
    BY <1>1, <1>2, <1>4, <2>1 DEF Left
<1> QED
  BY <1>3, <1>4

\* What a row owns.
LEMMA OwnedIs ==
    ASSUME NEW x, NEW v
    PROVE  v \in Owned(x) <=> \/ v = x.master \/ v \in x.global
                              \/ \E c \in Cores : \E i \in DOMAIN x.arrays[c] : v = x.arrays[c][i]
  BY DEF Owned, Range

\* Every version a row owns is in one place.
LEMMA OwnedOnce ==
    ASSUME NEW x, RowOK(x)
    PROVE  /\ x.master \notin x.global
           /\ \A c \in Cores : \A i \in DOMAIN x.arrays[c] :
                 x.arrays[c][i] \notin x.global /\ x.arrays[c][i] # x.master
           /\ \A c, d \in Cores : \A i \in DOMAIN x.arrays[c], j \in DOMAIN x.arrays[d] :
                 x.arrays[c][i] = x.arrays[d][j] => c = d /\ i = j
<1>0. x.epoch \in Nat /\ x.bits \in [Cores -> SUBSET Cores]
  BY DEF RowOK, RowTyped
<1>1. x.master \notin x.global
  <2> SUFFICES ASSUME x.master \in x.global PROVE FALSE
    OBVIOUS
  <2>1. x.master[1] = x.epoch /\ (x.master[2] \in Serials \/ (x.epoch = 0 /\ x.master[2] = -1))
    BY DEF RowOK
  <2>2. x.epoch = 0 /\ x.master = <<0, -2>>
    BY <1>0, <2>1 DEF RowOK
  <2>3. -2 \notin Serials /\ -2 # -1
    BY SerialsAreNatural
  <2> QED
    BY <2>1, <2>2, <2>3
<1>2. ASSUME NEW c \in Cores, NEW i \in DOMAIN x.arrays[c]
      PROVE  x.arrays[c][i] \notin x.global /\ x.arrays[c][i] # x.master
  <2>1. PICK v : v = x.arrays[c][i]
    OBVIOUS
  <2>2. v # x.master
    BY <2>1 DEF RowOK, Range
  <2>3. CASE c \in x.cores
    <3>1. PICK t \in x.bits[c] : v = <<x.epoch, c * N + t>>
      BY <2>1, <2>3, SlotEntry
    <3>2. v \in x.global => c * N + t < v[2]
      BY <2>3, <3>1 DEF RowOK
    <3>3. c * N + t \in Nat
      BY <1>0, <3>1, SerialOf, SerialsAreNatural
    <3> QED
      BY <2>1, <2>2, <3>1, <3>2, <3>3
  <2>4. CASE c \notin x.cores
    <3>1. v[1] < x.epoch
      BY <2>1, <2>4, SlotEntry
    <3>2. v \in x.global => v[1] = x.epoch
      BY DEF RowOK
    <3> QED
      BY <1>0, <2>1, <2>2, <3>1, <3>2
  <2> QED
    BY <2>3, <2>4
<1>3. ASSUME NEW c \in Cores, NEW d \in Cores,
             NEW i \in DOMAIN x.arrays[c], NEW j \in DOMAIN x.arrays[d],
             x.arrays[c][i] = x.arrays[d][j]
      PROVE  c = d /\ i = j
  <2>1. c = d
    BY <1>3, SlotEntry
  <2>2. CASE c \in x.cores
    <3>1. PICK B \in SUBSET Cores : B = x.bits[c]
      BY <1>0
    <3>2. Opened(x.epoch, c, B, x.arrays[c])
      BY <2>2, <3>1 DEF RowOK
    <3>3. PICK t \in B : Rank(B, t) = i /\ x.arrays[c][i] = <<x.epoch, c * N + t>>
      BY <3>2, OpenedEntry
    <3>4. PICK u \in B : Rank(B, u) = j /\ x.arrays[c][j] = <<x.epoch, c * N + u>>
      BY <2>1, <3>2, OpenedEntry
    <3>5. c * N + t = c * N + u
      BY <1>3, <2>1, <3>3, <3>4
    <3>6. t = u
      BY <3>5, SerialOf
    <3> QED
      BY <2>1, <3>3, <3>4, <3>6
  <2>3. CASE c \notin x.cores
    <3>1. Left(x.epoch, c, x.arrays[c])
      BY <2>3 DEF RowOK
    <3> QED
      BY <1>3, <2>1, <3>1 DEF Left
  <2> QED
    BY <2>2, <2>3
<1> QED
  BY <1>1, <1>2, <1>3
\* What a row owns is what exists of it.
LEMMA OwnedVersions ==
    ASSUME NEW x, RowOK(x)
    PROVE  Owned(x) \subseteq Versions
<1>1. ASSUME NEW v \in Owned(x) PROVE v \in Versions
  BY OwnedIs, SlotEntry DEF RowOK, RowTyped
<1> QED
  BY <1>1
-------------------------------------------------------------------------------
(***************************************************************************)
(* What the operations do to a row                                         *)
(***************************************************************************)

\* y is x with the new version v in its global array.
GlobalAppended(x, y, s, v) ==
    /\ x.cores = {} /\ v = <<x.epoch, s>> /\ v \notin Owned(x)
    /\ y.epoch = x.epoch /\ y.master = x.master /\ y.global = x.global \cup {v}
    /\ y.cores = x.cores /\ y.bits = x.bits /\ y.arrays = x.arrays
    /\ \A u \in Versions : y.status[u] = "none" <=> x.status[u] = "none" /\ u # v

OwnedGrows(x, y, v) == \A u : u \in Owned(y) <=> u \in Owned(x) \/ u = v

\* A new version in the global array of a row without a region.
LEMMA GlobalAppend ==
    ASSUME NEW x, RowOK(x), NEW s \in Serials, NEW v \in Versions,
           NEW y, RowTyped(y), GlobalAppended(x, y, s, v)
    PROVE  RowOK(y) /\ OwnedGrows(x, y, v)
<1>1. Owned(y) = Owned(x) \cup {v}
  BY DEF Owned, GlobalAppended
<1>2. \A u \in Versions : y.status[u] = "none" <=> u \notin Owned(y)
  BY <1>1 DEF RowOK, GlobalAppended
<1>3. RowOK(y)
  BY <1>2 DEF RowOK, GlobalAppended
<1> QED
  BY <1>1, <1>3 DEF OwnedGrows

\* y is x with the array of c freed and opened.
ArrayOpened(x, y, c) ==
    /\ c \notin x.cores
    /\ y.epoch = x.epoch /\ y.master = x.master /\ y.global = x.global
    /\ y.cores = x.cores \cup {c} /\ y.bits = [x.bits EXCEPT ![c] = {}]
    /\ y.arrays = [x.arrays EXCEPT ![c] = <<>>]
    /\ \A u \in Versions : y.status[u] = IF u \in Range(x.arrays[c]) THEN "none" ELSE x.status[u]

\* The array of a core that has not written the row yet is freed and opened.
LEMMA ArrayOpening ==
    ASSUME NEW x, RowOK(x), NEW c \in Cores, NEW y, RowTyped(y), ArrayOpened(x, y, c)
    PROVE  /\ RowOK(y) /\ Owned(y) \subseteq Owned(x)
           /\ \A u \in Owned(y) : y.status[u] = x.status[u]
<1>0. RowTyped(x) /\ c \notin x.cores
  BY DEF RowOK, ArrayOpened
<1>1. RowTyped(y) /\ y.epoch = x.epoch /\ y.master = x.master /\ y.global = x.global
        /\ y.cores = x.cores \cup {c}
  BY DEF ArrayOpened
<1>2. /\ y.arrays[c] = <<>> /\ y.bits[c] = {}
      /\ \A d \in Cores : d # c => y.arrays[d] = x.arrays[d] /\ y.bits[d] = x.bits[d]
  BY <1>0 DEF RowTyped, ArrayOpened
<1>3. Owned(y) = Owned(x) \ Range(x.arrays[c])
  <2>1. ASSUME NEW v \in Owned(y) PROVE v \in Owned(x) /\ v \notin Range(x.arrays[c])
    <3>1. v = x.master \/ v \in x.global
            \/ \E d \in Cores : \E i \in DOMAIN x.arrays[d] : d # c /\ v = x.arrays[d][i]
      <4>1. v = y.master \/ v \in y.global
              \/ \E d \in Cores : \E i \in DOMAIN y.arrays[d] : v = y.arrays[d][i]
        BY DEF Owned, Range
      <4> QED
        BY <1>1, <1>2, <4>1
    <3>2. v \notin Range(x.arrays[c])
      BY <3>1, OwnedOnce DEF Range
    <3> QED
      BY <3>1, <3>2, OwnedIs
  <2>2. ASSUME NEW v \in Owned(x), v \notin Range(x.arrays[c]) PROVE v \in Owned(y)
    <3>1. v = x.master \/ v \in x.global
            \/ \E d \in Cores : \E i \in DOMAIN x.arrays[d] : v = x.arrays[d][i]
      BY OwnedIs
    <3>2. v = y.master \/ v \in y.global
            \/ \E d \in Cores : \E i \in DOMAIN y.arrays[d] : v = y.arrays[d][i]
      BY <1>1, <1>2, <2>2, <3>1 DEF Range
    <3> QED
      BY <3>2, OwnedIs
  <2> QED
    BY <2>1, <2>2
<1>4. \A v \in Versions : y.status[v] = "none" <=> v \notin Owned(y)
  BY <1>3 DEF RowOK, ArrayOpened
<1>5. \A d \in y.cores : Opened(y.epoch, d, y.bits[d], y.arrays[d])
  <2>1. Opened(y.epoch, c, {}, <<>>)
    BY OpenedEmpty
  <2>2. \A d \in x.cores : d # c /\ d \in Cores /\ Opened(x.epoch, d, x.bits[d], x.arrays[d])
    BY <1>0 DEF RowOK, RowTyped
  <2> QED
    BY <1>1, <1>2, <2>1, <2>2
<1>6. \A d \in Cores \ y.cores : Left(y.epoch, d, y.arrays[d])
  <2>1. \A d \in Cores \ x.cores : Left(x.epoch, d, x.arrays[d])
    BY DEF RowOK
  <2> QED
    BY <1>1, <1>2, <2>1
<1>7. \A d \in Cores : y.master \notin Range(y.arrays[d])
  <2>1. \A d \in Cores : x.master \notin Range(x.arrays[d])
    BY DEF RowOK
  <2>2. Range(<<>>) = {}
    BY DEF Range
  <2> QED
    BY <1>1, <1>2, <2>1, <2>2
<1>8. \A v \in y.global, d \in y.cores : \A t \in y.bits[d] : d * N + t < v[2]
  <2>1. \A v \in x.global, d \in x.cores : \A t \in x.bits[d] : d * N + t < v[2]
    BY DEF RowOK
  <2>2. \A d \in y.cores : d \in Cores
    BY <1>1 DEF RowTyped
  <2> QED
    BY <1>1, <1>2, <2>1, <2>2
<1>9. RowOK(y)
  BY <1>1, <1>4, <1>5, <1>6, <1>7, <1>8 DEF RowOK
<1>10. \A u \in Owned(y) : y.status[u] = x.status[u]
  BY <1>3, <1>9, OwnedVersions DEF ArrayOpened
<1> QED
  BY <1>3, <1>9, <1>10

\* y is x with v, the version of transaction t of core c, in the array of c, and
\* not in the global array.
ArrayAppended(x, y, c, t, v) ==
    /\ v = <<x.epoch, c * N + t>> /\ Below(x.bits[c], t)
    /\ v \notin Owned(x) \ x.global /\ \A u \in x.global \ {v} : c * N + t < u[2]
    /\ y.epoch = x.epoch /\ y.master = x.master /\ y.global = x.global \ {v}
    /\ y.cores = x.cores
    /\ y.bits = [x.bits EXCEPT ![c] = @ \cup {t}]
    /\ y.arrays = [x.arrays EXCEPT ![c] = Append(@, v)]
    /\ \A u \in Versions : y.status[u] = "none" <=> x.status[u] = "none" /\ u # v

\* A version is appended to an opened array: a new one when the row has no
\* global array any more, or the first of the global array.
LEMMA ArrayAppend ==
    ASSUME NEW x, RowOK(x), NEW c \in x.cores, NEW t \in Cores, NEW v \in Versions,
           NEW y, RowTyped(y), ArrayAppended(x, y, c, t, v)
    PROVE  RowOK(y) /\ OwnedGrows(x, y, v)
<1>0. RowTyped(x) /\ c \in Cores
  BY DEF RowOK, RowTyped
<1>1. PICK B \in SUBSET Cores : B = x.bits[c]
  BY <1>0 DEF RowTyped
<1>2. PICK a \in Seq(Versions) : a = x.arrays[c]
  BY <1>0 DEF RowTyped
<1>3. Opened(x.epoch, c, B, a)
  BY <1>1, <1>2 DEF RowOK
<1>4. /\ y.bits[c] = B \cup {t} /\ y.arrays[c] = Append(a, v)
      /\ \A d \in Cores : d # c => y.arrays[d] = x.arrays[d] /\ y.bits[d] = x.bits[d]
  BY <1>0, <1>1, <1>2 DEF RowTyped, ArrayAppended
<1>5. Opened(x.epoch, c, B \cup {t}, Append(a, v)) /\ RangeGrows(a, Append(a, v), v)
  <2>1. PICK e : e = x.epoch
    OBVIOUS
  <2>2. Below(B, t) /\ v = <<e, c * N + t>> /\ Opened(e, c, B, a)
    BY <1>1, <1>3, <2>1 DEF ArrayAppended
  <2>3. PICK b : b = Append(a, v)
    OBVIOUS
  <2>4. AppendedTo(e, c, B, a, t, v, b)
    BY <2>2, <2>3 DEF AppendedTo
  <2>5. Opened(e, c, B \cup {t}, b) /\ RangeGrows(a, b, v)
    BY <1>0, <2>4, OpenedAppend
  <2> QED
    BY <2>1, <2>3, <2>5
<1>6. Owned(y) = Owned(x) \cup {v}
  <2>1. \A d \in Cores : \A u : u \in Range(y.arrays[d]) <=>
                                  u \in Range(x.arrays[d]) \/ (d = c /\ u = v)
    BY <1>2, <1>4, <1>5 DEF RangeGrows
  <2>2. \A u : u \in Owned(x) <=>
                u = x.master \/ u \in x.global \/ \E d \in Cores : u \in Range(x.arrays[d])
    BY DEF Owned
  <2>3. \A u : u \in Owned(y) <=>
                u = y.master \/ u \in y.global \/ \E d \in Cores : u \in Range(y.arrays[d])
    BY DEF Owned
  <2>4. y.master = x.master /\ y.global = x.global \ {v}
    BY DEF ArrayAppended
  <2>5. v \in Owned(y)
    BY <1>0, <2>1, <2>3
  <2>6. \A u : u \in Owned(y) <=> u \in Owned(x) \/ u = v
    BY <2>1, <2>2, <2>3, <2>4, <2>5
  <2> QED
    BY <2>6
<1>7. \A u \in Versions : y.status[u] = "none" <=> u \notin Owned(y)
  BY <1>6 DEF RowOK, ArrayAppended
<1>8. \A d \in y.cores : Opened(y.epoch, d, y.bits[d], y.arrays[d])
  <2>1. \A d \in x.cores : d \in Cores /\ Opened(x.epoch, d, x.bits[d], x.arrays[d])
    BY <1>0 DEF RowOK, RowTyped
  <2> QED
    BY <1>4, <1>5, <2>1 DEF ArrayAppended
<1>9. \A d \in Cores \ y.cores : Left(y.epoch, d, y.arrays[d])
  <2>1. \A d \in Cores \ x.cores : d # c /\ Left(x.epoch, d, x.arrays[d])
    BY DEF RowOK
  <2> QED
    BY <1>4, <2>1 DEF ArrayAppended
<1>10. \A d \in Cores : y.master \notin Range(y.arrays[d])
  <2>1. \A d \in Cores : x.master \notin Range(x.arrays[d])
    BY DEF RowOK
  <2>2. x.master # v
    <3>1. v \notin {x.master} \ x.global
      BY DEF Owned, ArrayAppended
    <3> QED
      BY <3>1, OwnedOnce
  <2>3. \A d \in Cores : \A u \in Range(y.arrays[d]) : u \in Range(x.arrays[d]) \/ u = v
    BY <1>2, <1>4, <1>5 DEF RangeGrows
  <2> QED
    BY <2>1, <2>2, <2>3 DEF ArrayAppended
<1>11. \A u \in y.global, d \in y.cores : \A z \in y.bits[d] : d * N + z < u[2]
  <2>1. \A u \in x.global, d \in x.cores : \A z \in x.bits[d] : d * N + z < u[2]
    BY DEF RowOK
  <2>2. \A d \in x.cores : d \in Cores
    BY <1>0 DEF RowTyped
  <2>3. ASSUME NEW u \in y.global, NEW d \in y.cores, NEW z \in y.bits[d]
        PROVE  d * N + z < u[2]
    <3>1. CASE d = c /\ z = t
      BY <3>1 DEF ArrayAppended
    <3>2. CASE ~(d = c /\ z = t)
      <4>1. z \in x.bits[d]
        BY <1>1, <1>4, <2>2, <3>2 DEF ArrayAppended
      <4> QED
        BY <2>1, <4>1 DEF ArrayAppended
    <3> QED
      BY <3>1, <3>2
  <2> QED
    BY <2>3
<1>12. RowOK(y)
  BY <1>7, <1>8, <1>9, <1>10, <1>11 DEF RowOK, ArrayAppended
<1> QED
  BY <1>6, <1>12 DEF OwnedGrows

\* In a later epoch every array is what is left of an earlier one.
LEMMA ArraysAreLeft ==
    ASSUME NEW x, RowOK(x), NEW e \in Nat, x.epoch < e, NEW c \in Cores
    PROVE  Left(e, c, x.arrays[c])
<1>0. x.epoch \in Nat /\ x.arrays \in [Cores -> Seq(Versions)]
  BY DEF RowOK, RowTyped
<1>1. ASSUME NEW i \in DOMAIN x.arrays[c]
      PROVE  /\ x.arrays[c][i][1] < e
             /\ x.arrays[c][i][2] \in Serials /\ get_core_serial(x.arrays[c][i][2]) = c
  <2>1. PICK v \in Versions : v = x.arrays[c][i]
    BY SlotEntry
  <2>2. v[2] \in Serials /\ get_core_serial(v[2]) = c /\ (v[1] = x.epoch \/ v[1] < x.epoch)
    BY <2>1, SlotEntry
  <2>3. v[1] \in Int
    BY EpochsAssumption DEF Versions
  <2> QED
    BY <1>0, <2>1, <2>2, <2>3
<1>2. \A i, j \in DOMAIN x.arrays[c] : x.arrays[c][i] = x.arrays[c][j] => i = j
  BY OwnedOnce
<1> QED
  BY <1>1, <1>2 DEF Left

\* y is x after initialize_the_row has folded the global array into master_.
GlobalFolded(x, y, v) ==
    /\ x.cores = {} /\ x.epoch < y.epoch /\ v \in x.global
    /\ y.master = v /\ y.global = {}
    /\ y.cores = x.cores /\ y.bits = x.bits /\ y.arrays = x.arrays
    /\ \A u \in Versions : y.status[u] = IF u \in (x.global \ {v}) \cup {x.master}
                                         THEN "none" ELSE x.status[u]

\* The fold of a global array keeps a row in order.
LEMMA FoldGlobal ==
    ASSUME NEW x, RowOK(x), NEW v, NEW y, RowTyped(y), GlobalFolded(x, y, v)
    PROVE  /\ RowOK(y) /\ Owned(y) \subseteq Owned(x)
           /\ \A u \in Owned(y) : y.status[u] = x.status[u]
<1>0. RowTyped(x)
  BY DEF RowOK
<1>1. \A u : u \in Owned(x) <=>
              u = x.master \/ u \in x.global \/ \E d \in Cores : u \in Range(x.arrays[d])
  BY DEF Owned
<1>2. \A u : u \in Owned(y) <=> u = v \/ \E d \in Cores : u \in Range(x.arrays[d])
  BY DEF Owned, GlobalFolded
<1>3. \A d \in Cores : \A u \in Range(x.arrays[d]) : u \notin x.global /\ u # x.master
  BY OwnedOnce DEF Range
<1>4. v \in x.global /\ x.master \notin x.global
  BY OwnedOnce DEF GlobalFolded
<1>5. \A u : u \in Owned(y) <=> u \in Owned(x) /\ u \notin (x.global \ {v}) \cup {x.master}
  BY <1>1, <1>2, <1>3, <1>4
<1>6. \A u \in Versions : y.status[u] = "none" <=> u \notin Owned(y)
  BY <1>5 DEF RowOK, GlobalFolded
<1>7. y.master[1] < y.epoch
  BY <1>4 DEF RowOK, GlobalFolded
<1>8. \A c \in Cores \ y.cores : Left(y.epoch, c, y.arrays[c])
  BY <1>0, ArraysAreLeft DEF RowTyped, GlobalFolded
<1>9. \A c \in Cores : y.master \notin Range(y.arrays[c])
  BY <1>3, <1>4 DEF GlobalFolded
<1>10. RowOK(y)
  BY <1>6, <1>7, <1>8, <1>9 DEF RowOK, GlobalFolded
<1>11. \A u \in Owned(y) : y.status[u] = x.status[u]
  BY <1>5, <1>10, OwnedVersions DEF GlobalFolded
<1> QED
  BY <1>5, <1>10, <1>11

\* y is x after initialize_the_row has folded the region into master_.
RegionFolded(x, y, c) ==
    /\ x.global = {} /\ x.epoch < y.epoch /\ c \in x.cores
    /\ Len(x.arrays[c]) \in DOMAIN x.arrays[c]
    /\ y.master = x.arrays[c][Len(x.arrays[c])] /\ y.global = {}
    /\ y.cores = {} /\ y.bits = x.bits
    /\ y.arrays = [x.arrays EXCEPT ![c] = SubSeq(@, 1, Len(x.arrays[c]) - 1)]
    /\ \A u \in Versions : y.status[u] = IF u = x.master THEN "none" ELSE x.status[u]

\* What pop_latest leaves of an array.
LEMMA PopLatest ==
    ASSUME NEW a \in Seq(Versions), Len(a) \in DOMAIN a,
           NEW b, b = SubSeq(a, 1, Len(a) - 1)
    PROVE  /\ b \in Seq(Versions) /\ DOMAIN b = DOMAIN a \ {Len(a)}
           /\ \A i \in DOMAIN b : b[i] = a[i]
<1>1. Len(a) \in Nat /\ DOMAIN a = 1 .. Len(a)
  OBVIOUS
<1>2. Len(a) - 1 \in 0 .. Len(a)
  BY <1>1
<1>3. b \in Seq(Versions) /\ Len(b) = Len(a) - 1 /\ \A i \in 1 .. Len(b) : b[i] = a[i]
  BY <1>1, <1>2
<1>4. DOMAIN b = 1 .. Len(a) - 1
  BY <1>3
<1> QED
  BY <1>1, <1>3, <1>4

\* The fold of a region keeps a row in order.
LEMMA FoldRegion ==
    ASSUME NEW x, RowOK(x), NEW c, NEW y, RowTyped(y), RegionFolded(x, y, c)
    PROVE  /\ RowOK(y) /\ Owned(y) \subseteq Owned(x)
           /\ \A u \in Owned(y) : y.status[u] = x.status[u]
<1>0. RowTyped(x) /\ c \in Cores /\ c \in x.cores
  BY DEF RowOK, RowTyped, RegionFolded
<1>a. PICK a \in Seq(Versions) : a = x.arrays[c]
  BY <1>0 DEF RowTyped
<1>b. PICK v : v = y.master
  OBVIOUS
<1>c. Len(a) \in DOMAIN a /\ v = a[Len(a)]
  BY <1>a, <1>b DEF RegionFolded
<1>d. PICK b : b = y.arrays[c] /\ b = SubSeq(a, 1, Len(a) - 1)
  BY <1>0, <1>a DEF RowTyped, RegionFolded
<1>e. DOMAIN b = DOMAIN a \ {Len(a)} /\ \A i \in DOMAIN b : b[i] = a[i]
  BY <1>c, <1>d, PopLatest
<1>f. \A d \in Cores : d # c => y.arrays[d] = x.arrays[d]
  BY <1>0 DEF RowTyped, RegionFolded
<1>1. \A u : u \in Owned(x) <=> u = x.master \/ \E d \in Cores : u \in Range(x.arrays[d])
  BY DEF Owned, RegionFolded
<1>2. \A u : u \in Owned(y) <=> u = v \/ \E d \in Cores : u \in Range(y.arrays[d])
  BY <1>b DEF Owned, RegionFolded
<1>3. \A d \in Cores : \A u \in Range(x.arrays[d]) : u # x.master
  BY OwnedOnce DEF Range
<1>4. \A u : u \in Range(a) <=> u \in Range(b) \/ u = v
  BY <1>c, <1>e DEF Range
<1>5. \A u : (\E d \in Cores : u \in Range(x.arrays[d]))
               <=> u = v \/ \E d \in Cores : u \in Range(y.arrays[d])
  BY <1>0, <1>4, <1>a, <1>d, <1>f
<1>6. \A u : u \in Owned(y) <=> u \in Owned(x) /\ u # x.master
  BY <1>1, <1>2, <1>3, <1>5
<1>7. \A u \in Versions : y.status[u] = "none" <=> u \notin Owned(y)
  BY <1>6 DEF RowOK, RegionFolded
<1>8. y.master[1] < y.epoch
  <2>1. v[1] = x.epoch
    BY <1>0, <1>a, <1>c, SlotEntry
  <2> QED
    BY <1>b, <2>1 DEF RegionFolded
<1>9. ASSUME NEW d \in Cores PROVE Left(y.epoch, d, y.arrays[d])
  <2>1. Left(y.epoch, d, x.arrays[d])
    BY ArraysAreLeft DEF RowTyped, RegionFolded
  <2>2. CASE d # c
    BY <1>f, <2>1, <2>2
  <2>3. CASE d = c
    <3>1. Left(y.epoch, c, a)
      BY <1>a, <2>1, <2>3
    <3>2. Left(y.epoch, c, b)
      BY <1>e, <3>1 DEF Left
    <3> QED
      BY <1>d, <2>3, <3>2
  <2> QED
    BY <2>2, <2>3
<1>10. ASSUME NEW d \in Cores PROVE y.master \notin Range(y.arrays[d])
  <2>1. CASE d # c
    <3>1. v \notin Range(x.arrays[d])
      BY <1>0, <1>a, <1>c, <2>1, OwnedOnce DEF Range
    <3> QED
      BY <1>b, <1>f, <2>1, <3>1
  <2>2. CASE d = c
    <3>1. \A i \in DOMAIN b : b[i] # v
      BY <1>0, <1>a, <1>c, <1>e, OwnedOnce
    <3> QED
      BY <1>b, <1>d, <2>2, <3>1 DEF Range
  <2> QED
    BY <2>1, <2>2
<1>11. RowOK(y)
  BY <1>7, <1>8, <1>9, <1>10 DEF RowOK, RegionFolded
<1>12. \A u \in Owned(y) : y.status[u] = x.status[u]
  BY <1>6, <1>11, OwnedVersions DEF RegionFolded
<1> QED
  BY <1>6, <1>11, <1>12

\* A status is set of a version that is there.
StatusSet(x, y) ==
    /\ y.epoch = x.epoch /\ y.master = x.master /\ y.global = x.global
    /\ y.cores = x.cores /\ y.bits = x.bits /\ y.arrays = x.arrays
    /\ \A u \in Versions : y.status[u] = "none" <=> x.status[u] = "none"

\* A store to a status changes nothing of what the row owns.
LEMMA SetStatusKeeps ==
    ASSUME NEW x, RowOK(x), NEW y, RowTyped(y), StatusSet(x, y)
    PROVE  RowOK(y) /\ Owned(y) = Owned(x)
<1>1. Owned(y) = Owned(x)
  BY DEF Owned, StatusSet
<1>2. \A u \in Versions : y.status[u] = "none" <=> u \notin Owned(y)
  BY <1>1 DEF RowOK, StatusSet
<1>3. RowOK(y)
  BY <1>2 DEF RowOK, StatusSet
<1> QED
  BY <1>1, <1>3
-------------------------------------------------------------------------------
(***************************************************************************)
(* The region of a row                                                     *)
(***************************************************************************)
RegionIsOwn(k) ==
    /\ RegionOf(k) \in Regions \cup {NoRegion} /\ RegionOf(k) <= used_
    /\ row_region_[k] # NoRegion => RegionOf(k) = row_region_[k]
    /\ row_region_[k] = NoRegion /\ Fillers(k) = {} => RegionOf(k) = NoRegion
    /\ \A w \in Fillers(k) : /\ RegionOf(k) = region[w] /\ RegionOf(k) # NoRegion
                             /\ row_region_[k] = NoRegion /\ lock[k] = w
    /\ \A j \in Keys \ {k} : RegionOf(k) # NoRegion => RegionOf(j) # RegionOf(k)

\* A row has one region, the installed one or the one being filled, and no
\* other row has it.
LEMMA RegionsOwn == IInv => \A k \in Keys : RegionIsOwn(k)
<1> SUFFICES ASSUME IInv PROVE \A k \in Keys : RegionIsOwn(k)
  OBVIOUS
<1>1. ASSUME NEW k \in Keys, NEW w \in Fillers(k)
      PROVE  /\ w \in Workers /\ RegionOf(k) = region[w] /\ row_region_[k] = NoRegion
             /\ region[w] \in Regions /\ region[w] # NoRegion /\ region[w] <= used_
             /\ lock[k] = w
  <2>1. w \in Workers /\ pc[w] \in Filling /\ Key(w) = k
    BY DEF Fillers
  <2>2. lock[k] = w
    BY <2>1 DEF IInv, LockOwner, Filling, LockedLabels
  <2>3. row_region_[k] = NoRegion /\ region[w] # NoRegion
    BY <2>1 DEF IInv, InstallersConsistent, Installing, Filling
  <2>4. region[w] \in Regions /\ region[w] <= used_
    BY <2>1, <2>3 DEF IInv, ControlTypeOK, RegionsFetched
  <2>5. ASSUME NEW u \in Fillers(k) PROVE u = w
    <3>1. u \in Workers /\ pc[u] \in Filling /\ Key(u) = k
      BY DEF Fillers
    <3>2. lock[k] = u
      BY <3>1 DEF IInv, LockOwner, Filling, LockedLabels
    <3> QED
      BY <2>2, <3>2
  <2>6. (CHOOSE u \in Fillers(k) : TRUE) = w
    BY <2>5
  <2>7. RegionOf(k) = region[w]
    BY <2>3, <2>6 DEF RegionOf
  <2> QED
    BY <2>1, <2>2, <2>3, <2>4, <2>7
<1>2. ASSUME NEW k \in Keys, Fillers(k) = {}
      PROVE  /\ RegionOf(k) = row_region_[k] /\ RegionOf(k) \in Regions \cup {NoRegion}
             /\ RegionOf(k) <= used_
  <2>1. RegionOf(k) = row_region_[k]
    BY <1>2 DEF RegionOf
  <2> QED
    BY <2>1 DEF IInv, ControlTypeOK, RegionsFetched
<1>3. ASSUME NEW k \in Keys, NEW j \in Keys \ {k}, RegionOf(k) # NoRegion
      PROVE  RegionOf(j) # RegionOf(k)
  <2>1. ASSUME NEW w \in Fillers(k), Fillers(j) = {} PROVE RegionOf(j) # RegionOf(k)
    <3>1. RegionOf(j) = row_region_[j] /\ RegionOf(k) = region[w]
      BY <1>1, <1>2, <2>1
    <3>2. pc[w] \in Filling /\ w \in Workers
      BY DEF Fillers
    <3> QED
      BY <3>1, <3>2 DEF IInv, UnpublishedRegionIsPrivate, Filling
  <2>2. ASSUME NEW w \in Fillers(k), NEW u \in Fillers(j) PROVE RegionOf(j) # RegionOf(k)
    <3>1. RegionOf(j) = region[u] /\ RegionOf(k) = region[w]
      BY <1>1
    <3>2. w \in Workers /\ u \in Workers /\ pc[w] \in Filling /\ Key(w) = k /\ Key(u) = j
      BY DEF Fillers
    <3>3. u # w
      BY <3>2
    <3> QED
      BY <3>1, <3>2, <3>3 DEF IInv, UnpublishedRegionIsPrivate, Filling
  <2>3. ASSUME Fillers(k) = {}, NEW u \in Fillers(j) PROVE RegionOf(j) # RegionOf(k)
    <3>1. RegionOf(k) = row_region_[k] /\ RegionOf(j) = region[u]
      BY <1>1, <1>2, <2>3
    <3>2. pc[u] \in Filling /\ u \in Workers
      BY DEF Fillers
    <3> QED
      BY <3>1, <3>2 DEF IInv, UnpublishedRegionIsPrivate, Filling
  <2>4. ASSUME Fillers(k) = {}, Fillers(j) = {} PROVE RegionOf(j) # RegionOf(k)
    <3>1. RegionOf(j) = row_region_[j] /\ RegionOf(k) = row_region_[k]
      BY <1>2, <2>4
    <3> QED
      BY <1>3, <3>1 DEF IInv, RegionsNotShared
  <2> QED
    BY <2>1, <2>2, <2>3, <2>4
<1>4. ASSUME NEW k \in Keys PROVE RegionIsOwn(k)
  <2>1. CASE Fillers(k) = {}
    <3>1. \A w \in Fillers(k) : FALSE
      BY <2>1
    <3> QED
      BY <1>2, <1>3, <2>1, <3>1 DEF RegionIsOwn
  <2>2. CASE Fillers(k) # {}
    <3>1. PICK w : w \in Fillers(k)
      BY <2>2
    <3> QED
      BY <1>1, <1>3, <3>1 DEF RegionIsOwn
  <2> QED
    BY <2>1, <2>2
<1> QED
  BY <1>4

\* ... also in the next state.
LEMMA RegionsOwnNext == IInv' => (\A k \in Keys : RegionIsOwn(k))'
BY RegionsOwn, PTL

\* The regions that RegionsOf lists are this one.
LEMMA RegionsOfIs ==
    ASSUME IInv, NEW k \in Keys, NEW r
    PROVE  r \in RegionsOf(k) <=> r = RegionOf(k) /\ r # NoRegion
<1>1. RegionIsOwn(k)
  BY RegionsOwn
<1>2. NoRegion \notin Regions
  BY DEF NoRegion, Regions
<1>3. ASSUME r \in RegionsOf(k) PROVE r = RegionOf(k) /\ r # NoRegion
  <2>1. r \in Regions /\ (row_region_[k] = r \/ \E w \in Fillers(k) : region[w] = r)
    BY <1>3 DEF RegionsOf, Fillers, Filling
  <2> QED
    BY <1>1, <1>2, <2>1 DEF RegionIsOwn
<1>4. ASSUME r = RegionOf(k), r # NoRegion PROVE r \in RegionsOf(k)
  <2>1. r \in Regions
    BY <1>1, <1>4 DEF RegionIsOwn
  <2>2. row_region_[k] = r \/ \E w \in Fillers(k) : region[w] = r
    BY <1>1, <1>4 DEF RegionIsOwn
  <2> QED
    BY <2>1, <2>2 DEF RegionsOf, Fillers, Filling
<1> QED
  BY <1>3, <1>4

\* A row keeps its region when neither it nor the worker that fills one for it
\* is changed.
LEMMA RegionKept ==
    ASSUME IInv, IInv', NEW k \in Keys, row_region_'[k] = row_region_[k],
           Fillers(k)' = Fillers(k), \A u \in Fillers(k) : region'[u] = region[u]
    PROVE  RegionOf(k)' = RegionOf(k)
<1>1. RegionIsOwn(k) /\ RegionIsOwn(k)'
  BY RegionsOwn, RegionsOwnNext
<1>2. CASE row_region_[k] # NoRegion
  BY <1>1, <1>2 DEF RegionIsOwn, NoRegion
<1>3. CASE row_region_[k] = NoRegion /\ Fillers(k) = {}
  BY <1>1, <1>3 DEF RegionIsOwn, NoRegion
<1>4. CASE Fillers(k) # {}
  <2>1. PICK w : w \in Fillers(k)
    BY <1>4
  <2>2. RegionOf(k) = region[w]
    BY <1>1, <2>1 DEF RegionIsOwn
  <2>3. w \in Fillers(k)'
    BY <2>1
  <2>4. RegionOf(k)' = region'[w]
    BY <1>1, <2>3 DEF RegionIsOwn
  <2> QED
    BY <2>1, <2>2, <2>4
<1> QED
  BY <1>2, <1>3, <1>4
-------------------------------------------------------------------------------
(***************************************************************************)
(* What a step leaves alone                                                *)
(***************************************************************************)

\* The views of two states are the same when their parts are.
LEMMA SameRow ==
    ASSUME NEW k \in Keys, RowEpoch(k)' = RowEpoch(k), master_'[k] = master_[k],
           global_array_'[k] = global_array_[k], status'[k] = status[k],
           OfRegion(k, core_bitmap_, {})' = OfRegion(k, core_bitmap_, {}),
           OfRegion(k, transaction_bitmap_, [c \in Cores |-> {}])'
             = OfRegion(k, transaction_bitmap_, [c \in Cores |-> {}]),
           OfRegion(k, slots_, [c \in Cores |-> <<>>])'
             = OfRegion(k, slots_, [c \in Cores |-> <<>>])
    PROVE  Row(k)' = Row(k)
  BY DEF Row

\* ... when the row keeps its region and the region is not changed.
LEMMA SameRegionSameRow ==
    ASSUME NEW k \in Keys, RowEpoch(k)' = RowEpoch(k), master_'[k] = master_[k],
           global_array_'[k] = global_array_[k], status'[k] = status[k],
           RegionOf(k)' = RegionOf(k),
           RegionOf(k) # NoRegion =>
               /\ core_bitmap_'[RegionOf(k)] = core_bitmap_[RegionOf(k)]
               /\ transaction_bitmap_'[RegionOf(k)] = transaction_bitmap_[RegionOf(k)]
               /\ slots_'[RegionOf(k)] = slots_[RegionOf(k)]
    PROVE  Row(k)' = Row(k)
<1>1. NoRegion' = NoRegion
  BY DEF NoRegion
<1>2. OfRegion(k, core_bitmap_, {})' = OfRegion(k, core_bitmap_, {})
  BY <1>1 DEF OfRegion
<1>3. OfRegion(k, transaction_bitmap_, [c \in Cores |-> {}])'
        = OfRegion(k, transaction_bitmap_, [c \in Cores |-> {}])
  BY <1>1 DEF OfRegion
<1>4. OfRegion(k, slots_, [c \in Cores |-> <<>>])'
        = OfRegion(k, slots_, [c \in Cores |-> <<>>])
  BY <1>1 DEF OfRegion
<1> QED
  BY <1>2, <1>3, <1>4, SameRow

\* A step of w inside an operation changes at most w, its row and its region.
Frame(w) ==
    /\ UNCHANGED <<epoch, txs, db, todo, op>>
    /\ \A u \in Workers \ {w} : pc'[u] = pc[u] /\ region'[u] = region[u]
    /\ \A j \in Keys \ {Key(w)} :
          /\ master_'[j] = master_[j] /\ global_array_'[j] = global_array_[j]
          /\ row_epoch'[j] = row_epoch[j] /\ row_region_'[j] = row_region_[j]
          /\ status'[j] = status[j]
    /\ \A r \in Regions : r # RegionOf(Key(w)) =>
          /\ core_bitmap_'[r] = core_bitmap_[r]
          /\ transaction_bitmap_'[r] = transaction_bitmap_[r]
          /\ slots_'[r] = slots_[r]

\* It leaves the other rows alone.
LEMMA OtherRows ==
    ASSUME IInv, IInv', NEW w \in Workers, Frame(w), NEW j \in Keys, j # Key(w),
           RegionOf(Key(w)) # NoRegion \/ UNCHANGED <<core_bitmap_, transaction_bitmap_, slots_>>
    PROVE  Row(j)' = Row(j) /\ Fillers(j)' = Fillers(j)
<1>0. Key(w) \in Keys
  BY DEF IInv, ControlTypeOK, Key
<1>1. \A u \in Workers : op'[u] = op[u] /\ (Key(u) = j => pc'[u] = pc[u] /\ region'[u] = region[u])
  BY DEF Frame, Key
<1>2. Fillers(j)' = Fillers(j) /\ \A u \in Fillers(j) : region'[u] = region[u]
  <2>1. \A u \in Workers : pc'[u] \in Filling /\ Key(u)' = j <=> pc[u] \in Filling /\ Key(u) = j
    BY <1>1 DEF Key
  <2> QED
    BY <1>1, <2>1 DEF Fillers
<1>3. RegionOf(j)' = RegionOf(j)
  BY <1>2, RegionKept DEF Frame
<1>4. RowEpoch(j)' = RowEpoch(j)
  <2>1. (\E u \in Workers : pc'[u] = "store_epoch" /\ Key(u)' = j)
          <=> (\E u \in Workers : pc[u] = "store_epoch" /\ Key(u) = j)
    BY <1>1 DEF Key
  <2> QED
    BY <2>1 DEF RowEpoch, Frame
<1>5. RegionIsOwn(j) /\ RegionIsOwn(Key(w))
  BY <1>0, RegionsOwn
<1>6. ASSUME RegionOf(j) # NoRegion
      PROVE  /\ core_bitmap_'[RegionOf(j)] = core_bitmap_[RegionOf(j)]
             /\ transaction_bitmap_'[RegionOf(j)] = transaction_bitmap_[RegionOf(j)]
             /\ slots_'[RegionOf(j)] = slots_[RegionOf(j)]
  <2>1. RegionOf(j) \in Regions
    BY <1>5, <1>6 DEF RegionIsOwn
  <2>2. RegionOf(Key(w)) # NoRegion => RegionOf(j) # RegionOf(Key(w))
    BY <1>0, <1>5 DEF RegionIsOwn
  <2> QED
    BY <2>1, <2>2 DEF Frame
<1> QED
  BY <1>2, <1>3, <1>4, <1>6, SameRegionSameRow DEF Frame

\* The serial numbers still to come and being written: those of other rows stay,
\* and those of w's row when w stays on its side of them.
LEMMA SameWaiting ==
    ASSUME IInv, NEW w \in Workers, NEW j \in Keys,
           UNCHANGED <<phase, txs, todo, op>>,
           \A u \in Workers \ {w} : pc'[u] = pc[u],
           Key(w) = j => /\ pc'[w] \in Unfiled \cup {"write"} <=> pc[w] \in Unfiled \cup {"write"}
                         /\ pc'[w] = "write_status" <=> pc[w] = "write_status"
    PROVE  Waiting(j)' = Waiting(j) /\ Writing(j)' = Writing(j)
<1> DEFINE Comes(u, s) == \E p \in todo[u] : IsUpdate(Operation(phase, txs, u, p), s, j)
<1>1. ASSUME NEW u \in Workers, NEW s
      PROVE  /\ Comes(u, s)' <=> Comes(u, s)
             /\ IsUpdate(op[u], s, j)' <=> IsUpdate(op[u], s, j)
             /\ IsUpdate(op[u], s, j) =>
                  /\ pc'[u] \in Unfiled \cup {"write"} <=> pc[u] \in Unfiled \cup {"write"}
                  /\ pc'[u] = "write_status" <=> pc[u] = "write_status"
  BY DEF IsUpdate, Operation, Serial, Core, InitSerial, ExecSerial, InitCore, ExecCore, Key
<1> HIDE DEF Comes
<1>2. ASSUME NEW s PROVE s \in Waiting(j)' <=> s \in Waiting(j)
  <2>1. s \in Waiting(j) <=> s \in Serials /\ \E u \in Workers : Comes(u, s) \/
            (pc[u] \in Unfiled \cup {"write"} /\ IsUpdate(op[u], s, j))
    BY DEF Waiting, Comes
  <2>2. s \in Waiting(j)' <=> s \in Serials /\ \E u \in Workers : Comes(u, s)' \/
            (pc'[u] \in Unfiled \cup {"write"} /\ IsUpdate(op[u], s, j)')
    BY DEF Waiting, Comes
  <2> HIDE DEF Unfiled
  <2> QED
    BY <1>1, <2>1, <2>2
<1>3. Writing(j)' = Writing(j)
  BY <1>1 DEF Writing
<1> QED
  BY <1>2, <1>3

\* A row that looks the same keeps its invariant.
LEMMA QuietRow ==
    ASSUME NEW k \in Keys, RowInv(k), Row(k)' = Row(k), UNCHANGED <<epoch, phase, txs, db>>,
           Waiting(k)' = Waiting(k), Writing(k)' = Writing(k),
           \A c \in Cores : pc[c] \in {"append", "locked_append"} /\ Key(c) = k =>
                              pc'[c] \in {"append", "locked_append"} /\ Key(c)' = k,
           OnePlace(k)'
    PROVE  RowInv(k)'
<1>1. /\ RowEpoch(k)' = RowEpoch(k) /\ master_'[k] = master_[k]
      /\ global_array_'[k] = global_array_[k] /\ status'[k] = status[k]
  BY DEF Row
<1>2. Writers(k)' = Writers(k) /\ Filed(k)' = Filed(k)
  BY DEF Writers, Updates, Filed
<1>3. RowOK(Row(k))'
  BY DEF RowInv
<1>4. Contents(k)'
  BY <1>1, <1>2 DEF RowInv, Contents
<1>5. StatusesOK(k)'
  BY <1>1 DEF RowInv, StatusesOK, StatusOf
<1>6. FinalOK(k)'
  BY <1>1 DEF RowInv, FinalOK
<1>7. NoEmptyArrays(k)'
  <2>1. Row(k).cores \subseteq Cores
    BY DEF RowInv, RowOK, RowTyped
  <2> QED
    BY <1>1, <2>1 DEF RowInv, NoEmptyArrays
<1> QED
  BY <1>3, <1>4, <1>5, <1>6, <1>7 DEF RowInv
-------------------------------------------------------------------------------
(***************************************************************************)
(* The iterations of the loops                                             *)
(***************************************************************************)

\* A transaction is not longer than the table has rows.
LEMMA TransactionsAreShort ==
    ASSUME NEW tx, OperationSet(tx), NEW i \in DOMAIN tx
    PROVE  i \in 1 .. Cardinality(Keys) /\ tx[i] \in Operations
<1>1. tx \in Seq(Operations) /\ DOMAIN tx = 1 .. Len(tx) /\ Len(tx) \in Nat
  BY DEF OperationSet
<1>2. \A j \in 1 .. Len(tx) : tx[j] \in Operations /\ tx[j].index \in Keys
  <2>1. \A o \in Operations : o.index \in Keys
    BY DEF Operations
  <2>2. \A j \in 1 .. Len(tx) : tx[j] \in Operations
    BY <1>1
  <2> QED
    BY <2>1, <2>2
<1>3. PICK f : f = [j \in 1 .. Len(tx) |-> tx[j].index]
  OBVIOUS
<1>4. f \in [1 .. Len(tx) -> Keys]
  BY <1>2, <1>3
<1>5. \A a, b \in 1 .. Len(tx) : f[a] = f[b] => a = b
  BY <1>1, <1>3 DEF OperationSet
<1>6. f \in Injection(1 .. Len(tx), Keys)
  BY <1>4, <1>5 DEF Injection, IsInjective
<1>7. Cardinality(1 .. Len(tx)) <= Cardinality(Keys)
  BY <1>6, KeysAssumption, FS_Injection
<1>8. Cardinality(1 .. Len(tx)) = Len(tx)
  <2>1. 1 \in Int /\ Len(tx) \in Int
    BY <1>1
  <2>2. Cardinality(1 .. Len(tx)) = IF 1 > Len(tx) THEN 0 ELSE Len(tx) - 1 + 1
    BY <2>1, FS_Interval
  <2> QED
    BY <1>1, <2>2
<1>9. Cardinality(Keys) \in Nat
  BY KeysAssumption, FS_CardinalityType
<1> QED
  BY <1>1, <1>2, <1>7, <1>8, <1>9

\* The loops of a phase give every serial number to one worker, once.
LEMMA OneSerial ==
    ASSUME NEW ph, NEW w \in Workers, NEW u \in Workers, NEW i \in Cores, NEW j \in Cores,
           Serial(ph, w, i) = Serial(ph, u, j)
    PROVE  w = u /\ i = j
<1>1. w \in Cores /\ u \in Cores
  BY CoresAreNatural
<1>2. CASE ph = "init"
  <2>1. w * N + i = u * N + j
    BY <1>2 DEF Serial, InitSerial
  <2> QED
    BY <1>1, <2>1, SerialOf
<1>3. CASE ph # "init"
  <2>1. i * N + w = j * N + u
    BY <1>3 DEF Serial, ExecSerial
  <2> QED
    BY <1>1, <2>1, SerialOf
<1> QED
  BY <1>2, <1>3

\* The parts of an iteration.
LEMMA IterationIs ==
    ASSUME NEW ph, NEW batch \in Workloads, NEW w \in Workers, NEW p \in Work(ph, batch, w)
    PROVE  /\ p = <<p[1], p[2]>> /\ p[1] \in Cores /\ p[2] \in Nat
           /\ Serial(ph, w, p[1]) \in Serials
           /\ OperationSet(batch[Serial(ph, w, p[1])])
           /\ p[2] \in DOMAIN batch[Serial(ph, w, p[1])]
           /\ batch[Serial(ph, w, p[1])][p[2]] \in Operations
           /\ ph = "init" => batch[Serial(ph, w, p[1])][p[2]].ope = "Update"
<1>1. p \in (0 .. N - 1) \X (1 .. Cardinality(Keys))
  BY DEF Work
<1>2. /\ p[2] \in DOMAIN batch[Serial(ph, w, p[1])]
      /\ ph = "init" => batch[Serial(ph, w, p[1])][p[2]].ope = "Update"
  BY DEF Work
<1>3. PICK s \in Serials : s = Serial(ph, w, p[1])
  BY <1>1, AssignmentInRange
<1>4. OperationSet(batch[s])
  BY WorkloadsAssumption
<1>5. batch[s][p[2]] \in Operations
  BY <1>2, <1>3, <1>4, TransactionsAreShort
<1> QED
  BY <1>1, <1>2, <1>3, <1>4, <1>5 DEF Cores

\* No two iterations have the same serial number and the same row.
LEMMA OneIteration ==
    ASSUME NEW ph, NEW batch \in Workloads, NEW w \in Workers, NEW u \in Workers,
           NEW p \in Work(ph, batch, w), NEW q \in Work(ph, batch, u),
           Operation(ph, batch, w, p).serial = Operation(ph, batch, u, q).serial,
           Operation(ph, batch, w, p).index = Operation(ph, batch, u, q).index
    PROVE  w = u /\ p = q
<1>1. /\ p = <<p[1], p[2]>> /\ p[1] \in Cores /\ OperationSet(batch[Serial(ph, w, p[1])])
      /\ p[2] \in DOMAIN batch[Serial(ph, w, p[1])]
      /\ q = <<q[1], q[2]>> /\ q[1] \in Cores
      /\ q[2] \in DOMAIN batch[Serial(ph, u, q[1])]
  BY IterationIs
<1>2. Serial(ph, w, p[1]) = Serial(ph, u, q[1])
  BY DEF Operation
<1>3. w = u /\ p[1] = q[1]
  BY <1>1, <1>2, OneSerial
<1>4. PICK s : s = Serial(ph, w, p[1])
  OBVIOUS
<1>5. batch[s][p[2]].index = batch[s][q[2]].index
  BY <1>2, <1>4 DEF Operation
<1>6. p[2] = q[2]
  BY <1>1, <1>2, <1>4, <1>5 DEF OperationSet
<1> QED
  BY <1>1, <1>3, <1>6

\* The worker and the iteration of a serial number.
LEMMA WorkerOf ==
    ASSUME NEW ph, NEW s \in Serials
    PROVE  \E w \in Workers, i \in Cores :
              /\ Serial(ph, w, i) = s
              /\ ph = "init" => w = get_core_serial(s) /\ i = get_tx_serial(s)
<1>1. PICK c \in Cores, t \in Cores :
         c = get_core_serial(s) /\ t = get_tx_serial(s) /\ s = c * N + t
  BY CoreAndTx
<1>2. c \in Workers /\ t \in Workers
  BY CoresAreNatural
<1>3. CASE ph = "init"
  <2>1. Serial(ph, c, t) = s
    BY <1>1, <1>3 DEF Serial, InitSerial
  <2> QED
    BY <1>1, <1>2, <2>1
<1>4. CASE ph # "init"
  <2>1. Serial(ph, t, c) = s
    BY <1>1, <1>4 DEF Serial, ExecSerial
  <2> QED
    BY <1>2, <1>4, <2>1
<1> QED
  BY <1>3, <1>4

\* Every update of a batch is an iteration of both phases.
LEMMA EveryUpdateIterates ==
    ASSUME NEW ph, NEW batch \in Workloads, NEW s \in Serials, NEW k \in Keys,
           Updates(batch, s, k)
    PROVE  \E w \in Workers : \E p \in Work(ph, batch, w) :
              /\ IsUpdate(Operation(ph, batch, w, p), s, k)
              /\ ph = "init" => w = get_core_serial(s) /\ p[1] = get_tx_serial(s)
<1>1. PICK j \in DOMAIN batch[s] : batch[s][j] = [ope |-> "Update", index |-> k]
  BY DEF Updates
<1>2. PICK w, i : /\ w \in Workers /\ i \in Cores /\ Serial(ph, w, i) = s
                  /\ ph = "init" => w = get_core_serial(s) /\ i = get_tx_serial(s)
  BY WorkerOf
<1>3. OperationSet(batch[s])
  BY WorkloadsAssumption
<1>4. j \in 1 .. Cardinality(Keys)
  BY <1>3, TransactionsAreShort
<1>5. PICK p : p = <<i, j>>
  OBVIOUS
<1>6. p \in (0 .. N - 1) \X (1 .. Cardinality(Keys)) /\ p[1] = i /\ p[2] = j
  BY <1>2, <1>4, <1>5 DEF Cores
<1>7. p \in Work(ph, batch, w)
  BY <1>1, <1>2, <1>6 DEF Work
<1>8. IsUpdate(Operation(ph, batch, w, p), s, k)
  BY <1>1, <1>2, <1>6 DEF IsUpdate, Operation
<1> QED
  BY <1>2, <1>6, <1>7, <1>8

\* An iteration that is an update is one of the batch.
LEMMA IterationUpdates ==
    ASSUME NEW ph, NEW batch \in Workloads, NEW w \in Workers, NEW p \in Work(ph, batch, w),
           NEW s, NEW k, IsUpdate(Operation(ph, batch, w, p), s, k)
    PROVE  s \in Serials /\ k \in Keys /\ Updates(batch, s, k)
<1>1. s = Serial(ph, w, p[1]) /\ batch[s][p[2]].ope = "Update" /\ batch[s][p[2]].index = k
  BY DEF IsUpdate, Operation
<1>2. s \in Serials /\ p[2] \in DOMAIN batch[s] /\ batch[s][p[2]] \in Operations
  BY <1>1, IterationIs
<1>3. PICK j \in DOMAIN batch[s] : j = p[2]
  BY <1>2
<1>4. batch[s][j] = [ope |-> "Update", index |-> k] /\ k \in Keys
  BY <1>1, <1>2, <1>3 DEF Operations
<1> QED
  BY <1>2, <1>4 DEF Updates

\* The operation a worker is in.
InOperation(w, p) ==
    /\ p \in Work(phase, txs, w) \ todo[w] /\ op[w] = Operation(phase, txs, w, p)
    /\ \A q \in Begun(w) : Before(q, p)

Running == phase \in {"init", "exec"}

\* A worker in an operation is in one of the batch, with the core and the place of
\* its serial number.
LEMMA OperationOf ==
    ASSUME IInv, Progress, Running, NEW w \in Workers, pc[w] # "begin"
    PROVE  \E p : /\ InOperation(w, p) /\ p[1] \in Cores
                  /\ phase = "init" => /\ op[w].core = w /\ get_core_serial(op[w].serial) = w
                                       /\ get_tx_serial(op[w].serial) = p[1]
                                       /\ op[w].ope = "Update"
                  /\ op[w].core = get_core_serial(op[w].serial)
                  /\ op[w].ope = "Update" => op[w].serial \in Writers(Key(w))
<1>1. txs \in Workloads
  BY DEF IInv, ControlTypeOK
<1>2. InLoop(w)
  BY DEF Progress, Running
<1>3. PICK p \in Begun(w) : op[w] = Operation(phase, txs, w, p) /\ \A q \in Begun(w) : Before(q, p)
  BY <1>2 DEF InLoop
<1>4. p \in Work(phase, txs, w) \ todo[w]
  BY <1>3 DEF Begun
<1>5. PICK i : i = p[1] /\ i \in Cores
  BY <1>1, <1>4, IterationIs
<1>6. w \in Cores
  BY CoresAreNatural
<1>7. op[w].core = Core(phase, w, i) /\ op[w].serial = Serial(phase, w, i)
  BY <1>3, <1>5 DEF Operation
<1>8. ASSUME phase = "init"
      PROVE  /\ op[w].core = w /\ get_core_serial(op[w].serial) = w
             /\ get_tx_serial(op[w].serial) = p[1] /\ op[w].ope = "Update"
  <2>1. op[w].core = w /\ op[w].serial = w * N + i
    BY <1>7, <1>8 DEF Core, Serial, InitCore, InitSerial
  <2>2. op[w].ope = "Update"
    BY <1>1, <1>3, <1>4, <1>8, IterationIs DEF Operation
  <2> QED
    BY <1>5, <1>6, <2>1, <2>2, SerialOf
<1>9. op[w].core = get_core_serial(op[w].serial)
  <2>1. ASSUME phase = "exec" PROVE op[w].core = get_core_serial(op[w].serial)
    <3>1. op[w].core = i /\ op[w].serial = i * N + w
      BY <1>7, <2>1 DEF Core, Serial, ExecCore, ExecSerial
    <3> QED
      BY <1>5, <1>6, <3>1, SerialOf
  <2> QED
    BY <1>8, <2>1 DEF Running
<1>10. ASSUME op[w].ope = "Update" PROVE op[w].serial \in Writers(Key(w))
  <2>1. IsUpdate(Operation(phase, txs, w, p), op[w].serial, Key(w))
    BY <1>3, <1>10 DEF IsUpdate, Key
  <2>2. op[w].serial \in Serials /\ Updates(txs, op[w].serial, Key(w))
    BY <1>1, <1>4, <2>1, IterationUpdates
  <2> QED
    BY <2>2 DEF Writers
<1>11. InOperation(w, p)
  BY <1>3, <1>4 DEF InOperation
<1> QED
  BY <1>5, <1>8, <1>9, <1>10, <1>11

\* Nobody else makes the same update, neither now nor later.
LEMMA OnlyUpdater ==
    ASSUME IInv, Progress, Running, NEW w \in Workers, pc[w] # "begin",
           NEW u \in Workers
    PROVE  /\ \A q \in todo[u] :
                 ~IsUpdate(Operation(phase, txs, u, q), op[w].serial, Key(w))
           /\ u # w /\ pc[u] # "begin" => ~IsUpdate(op[u], op[w].serial, Key(w))
<1>1. txs \in Workloads /\ todo[u] \subseteq Work(phase, txs, u)
  BY DEF IInv, ControlTypeOK, Running
<1>2. PICK p : InOperation(w, p)
  BY OperationOf
<1>3. /\ p \in Work(phase, txs, w) /\ p \notin todo[w]
      /\ Key(w) = Operation(phase, txs, w, p).index
      /\ op[w].serial = Operation(phase, txs, w, p).serial
  BY <1>2 DEF InOperation, Key
<1>4. ASSUME NEW q \in Work(phase, txs, u),
             IsUpdate(Operation(phase, txs, u, q), op[w].serial, Key(w))
      PROVE  w = u /\ p = q
  <2>1. /\ Operation(phase, txs, w, p).serial = Operation(phase, txs, u, q).serial
        /\ Operation(phase, txs, w, p).index = Operation(phase, txs, u, q).index
    BY <1>3, <1>4 DEF IsUpdate
  <2> QED
    BY <1>1, <1>3, <2>1, OneIteration
<1>5. \A q \in todo[u] : ~IsUpdate(Operation(phase, txs, u, q), op[w].serial, Key(w))
  BY <1>1, <1>3, <1>4
<1>6. ASSUME u # w, pc[u] # "begin", IsUpdate(op[u], op[w].serial, Key(w)) PROVE FALSE
  <2>1. PICK q : InOperation(u, q)
    BY <1>6, OperationOf
  <2>2. q \in Work(phase, txs, u) /\ IsUpdate(Operation(phase, txs, u, q), op[w].serial, Key(w))
    BY <1>6, <2>1 DEF InOperation
  <2> QED
    BY <1>4, <1>6, <2>2
<1> QED
  BY <1>5, <1>6

Unmade == Unfiled \cup {"write"}

\* The serial numbers still to come and being written, when the worker of an
\* update goes on.
LEMMA UpdaterMoves ==
    ASSUME IInv, Progress, Running, NEW w \in Workers, pc[w] # "begin",
           op[w].ope = "Update", UNCHANGED <<phase, txs, todo, op>>,
           \A u \in Workers \ {w} : pc'[u] = pc[u],
           NEW s, s = op[w].serial, NEW k, k = Key(w)
    PROVE  /\ s \in Serials
           /\ s \in Waiting(k) <=> pc[w] \in Unmade
           /\ s \in Writing(k) <=> pc[w] = "write_status"
           /\ s \in Waiting(k)' <=> pc'[w] \in Unmade
           /\ s \in Writing(k)' <=> pc'[w] = "write_status"
           /\ \A z : z # s => /\ z \in Waiting(k)' <=> z \in Waiting(k)
                              /\ z \in Writing(k)' <=> z \in Writing(k)
<1> DEFINE Comes(u, z) == \E p \in todo[u] : IsUpdate(Operation(phase, txs, u, p), z, k)
<1>1. s \in Serials /\ k \in Keys
  BY DEF IInv, ControlTypeOK, Key
<1>2. \A z : /\ IsUpdate(op[w], z, k) <=> z = s
  BY DEF IsUpdate, Key
<1>3. \A u \in Workers : /\ ~Comes(u, s)
                         /\ u # w /\ pc[u] # "begin" => ~IsUpdate(op[u], s, k)
  BY OnlyUpdater
<1>4. ASSUME NEW u \in Workers, NEW z
      PROVE  /\ (\E p \in todo[u] : IsUpdate(Operation(phase, txs, u, p), z, k))' <=> Comes(u, z)
             /\ IsUpdate(op[u], z, k)' <=> IsUpdate(op[u], z, k)
  BY DEF IsUpdate, Operation, Serial, Core, InitSerial, ExecSerial, InitCore, ExecCore, Key
<1>5. \A l : (l \in Unmade <=> l \in Unfiled \cup {"write"}) /\ (l = "begin" => l \notin Unmade)
  BY DEF Unmade, Unfiled
<1> HIDE DEF Comes
<1>7. \A z : z \in Waiting(k) <=> z \in Serials /\ \E u \in Workers : Comes(u, z) \/
            (pc[u] \in Unmade /\ IsUpdate(op[u], z, k))
  BY <1>5 DEF Waiting, Comes
<1>8. \A z : z \in Waiting(k)' <=> z \in Serials /\ \E u \in Workers : Comes(u, z) \/
            (pc'[u] \in Unmade /\ IsUpdate(op[u], z, k))
  <2>1. \A z : z \in Waiting(k)' <=> z \in Serials /\ \E u \in Workers :
           \/ (\E p \in todo[u] : IsUpdate(Operation(phase, txs, u, p), z, k))'
           \/ (pc'[u] \in Unmade /\ IsUpdate(op[u], z, k)')
    BY <1>5 DEF Waiting
  <2> QED
    BY <1>4, <2>1
<1>9. \A z : z \in Writing(k) <=> z \in Serials /\ \E u \in Workers :
            pc[u] = "write_status" /\ IsUpdate(op[u], z, k)
  BY DEF Writing
<1>10. \A z : z \in Writing(k)' <=> z \in Serials /\ \E u \in Workers :
            pc'[u] = "write_status" /\ IsUpdate(op[u], z, k)
  BY <1>4 DEF Writing
<1> QED
  BY <1>1, <1>2, <1>3, <1>5, <1>7, <1>8, <1>9, <1>10

\* Taking the next iteration changes neither.
LEMMA BeginWaits ==
    ASSUME IInv, Progress, NEW w \in Workers, Begin(w), NEW k \in Keys
    PROVE  Waiting(k)' = Waiting(k) /\ Writing(k)' = Writing(k)
<1>1. PICK p \in todo[w] :
         /\ op' = [op EXCEPT ![w] = Operation(phase, txs, w, p)]
         /\ todo' = [todo EXCEPT ![w] = @ \ {p}]
  BY DEF Begin, Operation
<1>2. /\ phase \in {"init", "exec"} /\ pc[w] = "begin" /\ UNCHANGED <<phase, txs>>
      /\ pc' = [pc EXCEPT ![w] = IF phase = "init" THEN "epoch_guard"
                                 ELSE IF op'[w].ope = "Read" THEN "read" ELSE "write"]
  BY DEF Begin, Goto, batchVars
<1>3. /\ op \in [Workers -> [core : Cores, serial : Serials, index : Keys,
                             ope : {"None", "Read", "Update"}]]
      /\ todo \in [Workers -> SUBSET ((0 .. N - 1) \X (1 .. Cardinality(Keys)))]
      /\ pc \in [Workers -> Labels]
  BY DEF IInv, ControlTypeOK
<1>4. /\ op'[w] = Operation(phase, txs, w, p) /\ todo'[w] = todo[w] \ {p}
      /\ \A u \in Workers : u # w => /\ op'[u] = op[u] /\ todo'[u] = todo[u]
                                     /\ pc'[u] = pc[u]
  BY <1>1, <1>2, <1>3
<1>5. ASSUME NEW z PROVE IsUpdate(op'[w], z, k) <=>
                           pc'[w] \in Unmade /\ IsUpdate(op'[w], z, k)
  <2>1. op'[w].ope = "Update" => pc'[w] \in Unmade
    BY <1>2, <1>3 DEF Unmade, Unfiled
  <2> QED
    BY <2>1 DEF IsUpdate
<1>6. pc[w] \notin Unmade /\ pc[w] # "write_status" /\ pc'[w] # "write_status"
  BY <1>2, <1>3 DEF Unmade, Unfiled
<1> DEFINE Comes(u, q, z) == IsUpdate(Operation(phase, txs, u, q), z, k)
<1>7. \A u, q, z : IsUpdate(Operation(phase, txs, u, q), z, k)' <=> Comes(u, q, z)
  BY <1>2 DEF IsUpdate, Operation, Serial, Core, InitSerial, ExecSerial, InitCore, ExecCore
<1>8. \A z : Comes(w, p, z) <=> IsUpdate(op'[w], z, k)
  BY <1>4
<1>9. \A z : z \in Waiting(k) <=> z \in Serials /\ \E u \in Workers :
            (\E q \in todo[u] : Comes(u, q, z)) \/ (pc[u] \in Unmade /\ IsUpdate(op[u], z, k))
  BY DEF Waiting, Unmade
<1> HIDE DEF Comes
<1>10. \A z : z \in Waiting(k)' <=> z \in Serials /\ \E u \in Workers :
            (\E q \in todo'[u] : Comes(u, q, z)) \/ (pc'[u] \in Unmade /\ IsUpdate(op'[u], z, k))
  <2>1. \A z : z \in Waiting(k)' <=> z \in Serials /\ \E u \in Workers :
            (\E q \in todo'[u] : IsUpdate(Operation(phase, txs, u, q), z, k)')
              \/ (pc'[u] \in Unmade /\ IsUpdate(op'[u], z, k))
    BY DEF Waiting, Unmade, IsUpdate
  <2> QED
    BY <1>7, <2>1
<1>11. ASSUME NEW z PROVE z \in Waiting(k)' <=> z \in Waiting(k)
  <2>1. ASSUME NEW u \in Workers
        PROVE  (\E q \in todo'[u] : Comes(u, q, z)) \/ (pc'[u] \in Unmade /\ IsUpdate(op'[u], z, k))
           <=> (\E q \in todo[u] : Comes(u, q, z)) \/ (pc[u] \in Unmade /\ IsUpdate(op[u], z, k))
    <3>1. CASE u # w
      BY <1>4, <3>1
    <3>2. CASE u = w
      <4>1. \A q : q \in todo[w] <=> q \in todo'[w] \/ q = p
        BY <1>4
      <4> QED
        BY <1>5, <1>6, <1>8, <3>2, <4>1
    <3> QED
      BY <3>1, <3>2
  <2> QED
    BY <1>9, <1>10, <2>1
<1>12. ASSUME NEW z PROVE z \in Writing(k)' <=> z \in Writing(k)
  <2>1. z \in Writing(k) <=> z \in Serials /\ \E u \in Workers :
            pc[u] = "write_status" /\ IsUpdate(op[u], z, k)
    BY DEF Writing
  <2>2. z \in Writing(k)' <=> z \in Serials /\ \E u \in Workers :
            pc'[u] = "write_status" /\ IsUpdate(op'[u], z, k)
    BY DEF Writing, IsUpdate
  <2> QED
    BY <1>4, <1>6, <2>1, <2>2
<1> QED
  BY <1>11, <1>12

\* Only updates of the batch are waited for: all of them when the loops start,
\* none when they end.
LEMMA WaitingIs ==
    ASSUME IInv, Progress, Running, NEW k \in Keys
    PROVE  /\ Waiting(k) \subseteq Writers(k) /\ Writing(k) \subseteq Writers(k)
           /\ AtBarrier => Waiting(k) = {} /\ Writing(k) = {}
<1>1. txs \in Workloads /\ \A w \in Workers : todo[w] \subseteq Work(phase, txs, w)
  BY DEF IInv, ControlTypeOK, Running
<1>2. ASSUME NEW w \in Workers, pc[w] # "begin", NEW z, IsUpdate(op[w], z, k)
      PROVE  z \in Writers(k)
  <2>1. op[w].ope = "Update" => op[w].serial \in Writers(Key(w))
    BY <1>2, OperationOf
  <2> QED
    BY <1>2, <2>1 DEF IsUpdate, Key
<1>3. ASSUME NEW w \in Workers, NEW p \in todo[w], NEW z,
             IsUpdate(Operation(phase, txs, w, p), z, k)
      PROVE  z \in Writers(k)
  <2>1. z \in Serials /\ Updates(txs, z, k)
    BY <1>1, <1>3, IterationUpdates
  <2> QED
    BY <2>1 DEF Writers
<1>4. "begin" \notin Unfiled \cup {"write"}
  BY DEF Unfiled
<1>5. Waiting(k) \subseteq Writers(k)
  BY <1>2, <1>3, <1>4 DEF Waiting
<1>6. Writing(k) \subseteq Writers(k)
  BY <1>2 DEF Writing
<1>7. ASSUME AtBarrier PROVE Waiting(k) = {} /\ Writing(k) = {}
  BY <1>4, <1>7 DEF AtBarrier, Waiting, Writing
<1> QED
  BY <1>5, <1>6, <1>7

LoopsStart == txs \in Workloads /\ \A w \in Workers : todo[w] = Work(phase, txs, w)

\* When the loops of a phase start, every update is still to be made;
LEMMA AllWaiting == LoopsStart => \A k \in Keys : Writers(k) \subseteq Waiting(k)
<1>1. ASSUME LoopsStart, NEW k \in Keys, NEW s \in Writers(k) PROVE s \in Waiting(k)
  <2>1. s \in Serials /\ Updates(txs, s, k) /\ txs \in Workloads
    BY <1>1 DEF Writers, LoopsStart
  <2>2. PICK w \in Workers : \E p \in Work(phase, txs, w) :
                                IsUpdate(Operation(phase, txs, w, p), s, k)
    BY <2>1, EveryUpdateIterates
  <2> QED
    BY <1>1, <2>1, <2>2 DEF Waiting, LoopsStart
<1> QED
  BY <1>1

\* the same after a step that starts them.
LEMMA AllWaitingNext == LoopsStart' => (\A k \in Keys : Writers(k) \subseteq Waiting(k))'
BY AllWaiting, PTL
-------------------------------------------------------------------------------
(***************************************************************************)
(* The workers' progress is an invariant                                   *)
(***************************************************************************)

\* The rows a batch writes do not change with a step inside an epoch.
LEMMA SameWriters ==
    ASSUME txs' = txs, NEW k
    PROVE  Writers(k)' = Writers(k)
  BY DEF Writers, Updates

\* A worker is inside an operation: it goes to label l.
LEMMA LabelStep ==
    ASSUME IInv, Progress, NEW w \in Workers, NEW l, Goto(w, l),
           UNCHANGED <<epoch, phase, txs, todo, op, row_epoch>>, pc[w] # "begin",
           \/ phase = "init" /\ l \in Unfiled \cup {"begin", "unlock"}
           \/ phase = "exec" /\ \/ l = "begin"
                                \/ l = "wait_stable" /\ op[w].ope = "Read"
                                \/ l = "write_status" /\ op[w].ope = "Update",
           l \in Guarded => row_epoch[Key(w)] = epoch,
           l = "store_epoch" => row_epoch[Key(w)] < epoch
    PROVE  Progress'
<1>1. pc \in [Workers -> Labels] /\ pc' = [pc EXCEPT ![w] = l]
  BY DEF IInv, ControlTypeOK, Goto
<1>2. pc'[w] = l /\ \A u \in Workers : u # w => pc'[u] = pc[u]
  BY <1>1
<1>3. LabelsOfPhase'
  <2>1. CASE phase = "init"
    BY <1>2, <2>1 DEF Progress, LabelsOfPhase
  <2>2. CASE phase = "exec"
    BY <1>2, <2>2 DEF Progress, LabelsOfPhase
  <2> QED
    BY <2>1, <2>2
<1>4. EpochsOK'
  <2>1. \A k \in Keys : Writers(k)' = Writers(k)
    BY SameWriters
  <2>2. \A u \in Workers : Key(u)' = Key(u)
    BY DEF Key
  <2>3. \A u \in Workers : /\ pc'[u] \in Guarded => row_epoch[Key(u)] = epoch
                           /\ pc'[u] = "store_epoch" => row_epoch[Key(u)] < epoch
    BY <1>2 DEF Progress, EpochsOK
  <2> QED
    BY <2>1, <2>2, <2>3 DEF Progress, EpochsOK
<1>5. ASSUME phase \in {"init", "exec"}, NEW u \in Workers PROVE InLoop(u)'
  <2>1. InLoop(u)
    BY <1>5 DEF Progress
  <2>2. pc'[u] # "begin" => pc[u] # "begin"
    BY <1>2
  <2>3. Begun(u)' = Begun(u) /\ \A p : Operation(phase, txs, u, p)' = Operation(phase, txs, u, p)
    BY DEF Begun, Work, Operation, Serial, Core, InitSerial, ExecSerial, InitCore, ExecCore
  <2>4. op'[u] = op[u] /\ todo'[u] = todo[u]
    OBVIOUS
  <2> QED
    BY <2>1, <2>2, <2>3, <2>4 DEF InLoop
<1> QED
  BY <1>3, <1>4, <1>5 DEF Progress

\* The iterations are taken in order.
LEMMA BeginProgress ==
    ASSUME IInv, Progress, NEW w \in Workers, Begin(w)
    PROVE  Progress'
<1>1. PICK p \in todo[w] :
         /\ op' = [op EXCEPT ![w] = Operation(phase, txs, w, p)]
         /\ todo' = [todo EXCEPT ![w] = @ \ {p}]
         /\ \A q \in todo[w] : Before(p, q)
  BY DEF Begin, Operation
<1>2. /\ phase \in {"init", "exec"} /\ pc[w] = "begin"
      /\ UNCHANGED <<epoch, phase, txs, row_epoch>>
      /\ pc' = [pc EXCEPT ![w] = IF phase = "init" THEN "epoch_guard"
                                 ELSE IF op'[w].ope = "Read" THEN "read" ELSE "write"]
  BY DEF Begin, Goto, batchVars, memVars, rowVars
<1>3. /\ op \in [Workers -> [core : Cores, serial : Serials, index : Keys,
                             ope : {"None", "Read", "Update"}]]
      /\ todo \in [Workers -> SUBSET ((0 .. N - 1) \X (1 .. Cardinality(Keys)))]
      /\ pc \in [Workers -> Labels] /\ txs \in Workloads
      /\ todo[w] \subseteq Work(phase, txs, w)
  BY <1>2 DEF IInv, ControlTypeOK
<1>4. /\ op'[w] = Operation(phase, txs, w, p) /\ todo'[w] = todo[w] \ {p}
      /\ \A u \in Workers : u # w => /\ op'[u] = op[u] /\ todo'[u] = todo[u]
                                     /\ pc'[u] = pc[u]
  BY <1>1, <1>2, <1>3
<1>5. /\ phase = "init" => pc'[w] = "epoch_guard" /\ op'[w].ope = "Update"
      /\ phase = "exec" => \/ pc'[w] = "read" /\ op'[w].ope = "Read"
                           \/ pc'[w] = "write" /\ op'[w].ope = "Update"
  <2>1. p \in Work(phase, txs, w)
    BY <1>3
  <2>2. PICK o \in Operations : o = txs[Serial(phase, w, p[1])][p[2]]
    BY <1>3, <2>1, IterationIs
  <2>3. op'[w].ope = o.ope /\ (phase = "init" => o.ope = "Update") /\ o.ope \in {"Read", "Update"}
    <3>1. phase = "init" => o.ope = "Update"
      BY <1>3, <2>1, <2>2, IterationIs
    <3> QED
      BY <1>4, <2>2, <3>1 DEF Operation, Operations
  <2> QED
    BY <1>2, <1>3, <2>3
<1>6. LabelsOfPhase'
  <2>1. CASE phase = "init"
    BY <1>2, <1>4, <1>5, <2>1 DEF Progress, LabelsOfPhase, Unfiled
  <2>2. CASE phase = "exec"
    BY <1>2, <1>4, <1>5, <2>2 DEF Progress, LabelsOfPhase
  <2> QED
    BY <1>2, <2>1, <2>2
<1>7. EpochsOK'
  <2>1. \A k \in Keys : Writers(k)' = Writers(k)
    BY <1>2, SameWriters
  <2>2. \A u \in Workers : u # w => Key(u)' = Key(u)
    BY <1>4 DEF Key
  <2>3. pc'[w] \notin Guarded /\ pc'[w] # "store_epoch"
    BY <1>2, <1>5 DEF Guarded
  <2>4. \A u \in Workers : /\ pc'[u] \in Guarded => row_epoch[Key(u)'] = epoch
                           /\ pc'[u] = "store_epoch" => row_epoch[Key(u)'] < epoch
    BY <1>4, <2>2, <2>3 DEF Progress, EpochsOK
  <2> QED
    BY <1>2, <2>1, <2>4 DEF Progress, EpochsOK
<1>8. ASSUME NEW u \in Workers PROVE InLoop(u)'
  <2>1. InLoop(u)
    BY <1>2 DEF Progress
  <2>2. /\ Work(phase, txs, u)' = Work(phase, txs, u)
        /\ \A q : Operation(phase, txs, u, q)' = Operation(phase, txs, u, q)
    BY <1>2 DEF Work, Operation, Serial, Core, InitSerial, ExecSerial, InitCore, ExecCore
  <2>3. CASE u # w
    <3>1. Begun(u)' = Begun(u)
      BY <1>4, <2>2, <2>3 DEF Begun
    <3> QED
      BY <1>4, <2>1, <2>2, <2>3, <3>1 DEF InLoop
  <2>4. CASE u = w
    <3>1. \A q : q \in Begun(w)' <=> q \in Begun(w) \/ q = p
      BY <1>3, <1>4, <2>2, <2>4 DEF Begun
    <3>2. Before(p, p)
      <4>1. p[2] \in Nat
        BY <1>3, IterationIs
      <4> QED
        BY <4>1 DEF Before
    <3>3. \A q \in Begun(w) : Before(q, p)
      BY <2>1, <2>4 DEF InLoop
    <3>4. \A a \in Begun(w)', b \in todo'[w] : Before(a, b)
      BY <1>1, <1>4, <2>1, <2>4, <3>1 DEF InLoop
    <3>5. p \in Begun(w)' /\ op'[w] = Operation(phase, txs, w, p)'
             /\ \A q \in Begun(w)' : Before(q, p)
      BY <1>4, <2>2, <2>4, <3>1, <3>2, <3>3
    <3> QED
      BY <2>4, <3>4, <3>5 DEF InLoop
  <2> QED
    BY <2>3, <2>4
<1> QED
  BY <1>6, <1>7, <1>8 DEF Progress

\* A step of w to label l that LabelStep speaks of.
LabelKept(w, l) ==
    /\ Goto(w, l) /\ UNCHANGED <<epoch, phase, txs, todo, op, row_epoch>> /\ pc[w] # "begin"
    /\ \/ phase = "init" /\ l \in Unfiled \cup {"begin", "unlock"}
       \/ phase = "exec" /\ \/ l = "begin"
                            \/ l = "wait_stable" /\ op[w].ope = "Read"
                            \/ l = "write_status" /\ op[w].ope = "Update"
    /\ l \in Guarded => row_epoch[Key(w)] = epoch
    /\ l = "store_epoch" => row_epoch[Key(w)] < epoch

\* Most steps of a worker are of this kind.
LEMMA StepsKeepLabels ==
    ASSUME IInv, DataTypeOK, Progress, NEW w \in Workers, Step(w),
           ~Begin(w), ~store_epoch(w), ~fetch_new_region(w)
    PROVE  \E l : LabelKept(w, l)
<1> USE DEF LabelKept, Goto, batchVars, opVars, workerVars, memVars, rowVars
<1>0. /\ pc \in [Workers -> Labels] /\ Key(w) \in Keys
      /\ row_epoch[Key(w)] \in Nat /\ epoch \in Nat /\ row_epoch[Key(w)] <= epoch
      /\ pc[w] \in Guarded => row_epoch[Key(w)] = epoch
  BY DEF IInv, ControlTypeOK, DataTypeOK, Progress, EpochsOK, Key
<1>p. pc' = pc => pc' = [pc EXCEPT ![w] = pc[w]]
  BY <1>0
<1>1. CASE epoch_guard(w)
  <2>1. CASE row_epoch[Key(w)] < epoch
    <3>1. LabelKept(w, "guard_try_lock")
      BY <1>1, <2>1 DEF epoch_guard, Unfiled, Guarded
    <3> QED
      BY <3>1
  <2>2. CASE ~(row_epoch[Key(w)] < epoch)
    <3>1. LabelKept(w, "try_lock")
      BY <1>0, <1>1, <2>2 DEF epoch_guard, Unfiled, Guarded
    <3> QED
      BY <3>1
  <2> QED
    BY <2>1, <2>2
<1>2. CASE guard_try_lock(w)
  BY <1>0, <1>2 DEF guard_try_lock, TryLock, Unfiled, Guarded
<1>3. CASE initialize_the_row(w)
  BY <1>0, <1>3 DEF initialize_the_row, Unfiled, Guarded
<1>4. CASE guard_unlock(w) \/ unlock(w) \/ install_unlock(w)
  BY <1>0, <1>4 DEF guard_unlock, unlock, install_unlock, Unlock, Unfiled, Guarded
<1>5. CASE try_lock(w) \/ wait_try_lock(w)
  BY <1>0, <1>5 DEF try_lock, wait_try_lock, TryLock, Unfiled, Guarded
<1>6. CASE append_to_unconted_row(w) \/ row_has_region(w)
  BY <1>0, <1>6 DEF append_to_unconted_row, row_has_region, Unfiled, Guarded
<1>7. CASE wait_region_installation(w) \/ already_installed(w) \/ publish_region(w)
  BY <1>0, <1>7 DEF wait_region_installation, already_installed, publish_region,
     Unfiled, Guarded
<1>8. CASE move_global_array_to_row_region(w)
  BY <1>0, <1>p, <1>8 DEF move_global_array_to_row_region, Unfiled, Guarded
<1>9. CASE first_write_of_core(w)
  BY <1>0, <1>p, <1>9 DEF first_write_of_core, Unfiled, Guarded
<1>10. CASE append_to_contented_row(w)
  <2>1. PICK l : /\ l = IF pc[w] = "locked_append" THEN "unlock" ELSE "begin"
                 /\ pc' = [pc EXCEPT ![w] = l]
    BY <1>10 DEF append_to_contented_row
  <2>2. phase = "init" /\ pc[w] \in Guarded /\ pc[w] # "begin"
    BY <1>10 DEF append_to_contented_row, Guarded
  <2>3. l \in {"begin", "unlock"} /\ l # "store_epoch"
    BY <2>1
  <2>4. UNCHANGED <<epoch, phase, txs, todo, op, row_epoch>>
    BY <1>10 DEF append_to_contented_row
  <2>5. LabelKept(w, l)
    BY <1>0, <2>1, <2>2, <2>3, <2>4
  <2> QED
    BY <2>5
<1>11. CASE read(w) \/ wait_stable_and_execute_read(w)
  <2>1. phase = "exec" /\ pc[w] \in {"read", "wait_stable"}
    BY <1>11 DEF read, wait_stable_and_execute_read
  <2>2. op[w].ope = "Read"
    BY <2>1 DEF Progress, LabelsOfPhase
  <2> QED
    BY <1>0, <1>11, <2>1, <2>2 DEF read, wait_stable_and_execute_read, Guarded
<1>12. CASE write_rec(w) \/ write_status(w)
  <2>1. phase = "exec" /\ pc[w] \in {"write", "write_status"}
    BY <1>12 DEF write_rec, write_status, SetStatus
  <2>2. op[w].ope = "Update"
    BY <2>1 DEF Progress, LabelsOfPhase
  <2> QED
    BY <1>0, <1>12, <2>1, <2>2 DEF write_rec, write_status, SetStatus, Guarded
<1> QED
  BY <1>1, <1>2, <1>3, <1>4, <1>5, <1>6, <1>7, <1>8, <1>9, <1>10, <1>11, <1>12 DEF Step

\* The row's epoch is stored by the worker that holds its lock.
LEMMA StoreEpochProgress ==
    ASSUME IInv, DataTypeOK, Progress, NEW w \in Workers, store_epoch(w)
    PROVE  Progress'
<1>1. /\ phase = "init" /\ pc[w] = "store_epoch" /\ pc' = [pc EXCEPT ![w] = "guard_unlock"]
      /\ row_epoch' = [row_epoch EXCEPT ![Key(w)] = epoch]
      /\ UNCHANGED <<epoch, phase, txs, todo, op>>
  BY DEF store_epoch, Goto, batchVars, opVars
<1>2. pc \in [Workers -> Labels] /\ row_epoch \in [Keys -> Nat] /\ Key(w) \in Keys
  BY DEF IInv, ControlTypeOK, DataTypeOK, Key
<1>3. pc'[w] = "guard_unlock" /\ \A u \in Workers : u # w => pc'[u] = pc[u]
  BY <1>1, <1>2
<1>4. LabelsOfPhase'
  BY <1>1, <1>3 DEF Progress, LabelsOfPhase, Unfiled
<1>5. EpochsOK'
  <2>1. \A k \in Keys : Writers(k)' = Writers(k)
    BY <1>1, SameWriters
  <2>2. \A u \in Workers : Key(u)' = Key(u)
    BY <1>1 DEF Key
  <2>3. Writers(Key(w)) # {}
    <3>1. op[w].ope = "Update" /\ (op[w].ope = "Update" => op[w].serial \in Writers(Key(w)))
      BY <1>1, OperationOf DEF Running
    <3> QED
      BY <3>1
  <2>4. \A u \in Workers : u # w /\ pc[u] = "store_epoch" => Key(u) # Key(w)
    <3>1. lock[Key(w)] = w
      BY <1>1, <1>2 DEF IInv, LockOwner, LockedLabels
    <3>2. \A u \in Workers : pc[u] = "store_epoch" /\ Key(u) = Key(w) => lock[Key(w)] = u
      BY <1>2 DEF IInv, LockOwner, LockedLabels
    <3> QED
      BY <3>1, <3>2
  <2>5. /\ row_epoch'[Key(w)] = epoch /\ epoch \in Nat \ {0}
        /\ \A k \in Keys : k # Key(w) => row_epoch'[k] = row_epoch[k]
    BY <1>1, <1>2 DEF Progress, EpochsOK
  <2>6. \A u \in Workers : Key(u) \in Keys
    BY DEF IInv, ControlTypeOK, Key
  <2>7. \A u \in Workers : /\ pc'[u] \in Guarded => row_epoch'[Key(u)] = epoch
                           /\ pc'[u] = "store_epoch" => row_epoch'[Key(u)] < epoch
    <3>1. ASSUME NEW u \in Workers, u # w
          PROVE  /\ pc[u] \in Guarded => row_epoch'[Key(u)] = epoch
                 /\ pc[u] = "store_epoch" => row_epoch'[Key(u)] < epoch
      BY <2>4, <2>5, <2>6, <3>1 DEF Progress, EpochsOK
    <3> QED
      BY <1>3, <2>5, <3>1
  <2>8. \A k \in Keys : row_epoch'[k] <= epoch /\ (row_epoch'[k] = epoch => Writers(k) # {})
    BY <2>3, <2>5 DEF Progress, EpochsOK
  <2> QED
    BY <1>1, <2>1, <2>2, <2>5, <2>7, <2>8 DEF Progress, EpochsOK
<1>6. ASSUME NEW u \in Workers PROVE InLoop(u)'
  <2>1. InLoop(u)
    BY <1>1 DEF Progress
  <2>2. pc'[u] # "begin" => pc[u] # "begin"
    BY <1>1, <1>3
  <2>3. Begun(u)' = Begun(u) /\ \A p : Operation(phase, txs, u, p)' = Operation(phase, txs, u, p)
    BY <1>1 DEF Begun, Work, Operation, Serial, Core, InitSerial, ExecSerial, InitCore, ExecCore
  <2>4. op'[u] = op[u] /\ todo'[u] = todo[u]
    BY <1>1
  <2> QED
    BY <2>1, <2>2, <2>3, <2>4 DEF InLoop
<1> QED
  BY <1>4, <1>5, <1>6 DEF Progress

\* A region is fetched, or there is none and the program ends.
LEMMA FetchProgress ==
    ASSUME IInv, DataTypeOK, Progress, NEW w \in Workers, fetch_new_region(w)
    PROVE  Progress'
<1>1. /\ phase = "init" /\ pc[w] = "install"
      /\ UNCHANGED <<epoch, txs, todo, op, row_epoch>>
      /\ \/ UNCHANGED phase /\ Goto(w, "move")
         \/ phase' = "aborted" /\ UNCHANGED pc
  BY DEF fetch_new_region, Fetch, FetchUnchanged, opVars, rowVars
<1>2. CASE UNCHANGED phase /\ Goto(w, "move")
  <2>1. row_epoch[Key(w)] = epoch
    BY <1>1 DEF Progress, EpochsOK, Guarded
  <2>2. "move" \in Unfiled
    BY DEF Unfiled
  <2> QED
    BY <1>1, <1>2, <2>1, <2>2, LabelStep
<1>3. CASE phase' = "aborted" /\ UNCHANGED pc
  <2>1. \A k \in Keys : Writers(k)' = Writers(k)
    BY <1>1, SameWriters
  <2>2. \A u \in Workers : Key(u)' = Key(u)
    BY <1>1 DEF Key
  <2>3. EpochsOK'
    BY <1>1, <1>3, <2>1, <2>2 DEF Progress, EpochsOK
  <2>4. LabelsOfPhase'
    BY <1>1, <1>3 DEF Progress, LabelsOfPhase
  <2> QED
    BY <1>3, <2>3, <2>4 DEF Progress
<1> QED
  BY <1>1, <1>2, <1>3

\* The barriers
LEMMA BarrierProgress ==
    ASSUME IInv, DataTypeOK, Progress, StartExecution \/ NewEpoch
    PROVE  Progress'
<1>1. /\ \A u \in Workers : pc[u] = "begin"
      /\ UNCHANGED <<pc, row_epoch>>
  BY DEF StartExecution, NewEpoch, AtBarrier, memVars, rowVars
<1>2. \A u \in Workers : pc[u] \notin Guarded /\ pc[u] # "store_epoch"
  BY <1>1 DEF Guarded
<1>3. row_epoch \in [Keys -> Nat] /\ epoch \in Nat \ {0} /\ \A k \in Keys : row_epoch[k] <= epoch
  BY DEF DataTypeOK, Progress, EpochsOK
<1>4. ASSUME phase' \in {"init", "exec"}, \A u \in Workers : todo'[u] = Work(phase, txs, u)'
      PROVE  \A u \in Workers : InLoop(u)'
  <2>1. \A u \in Workers : Begun(u)' = {}
    BY <1>4 DEF Begun
  <2> QED
    BY <1>1, <2>1 DEF InLoop
<1>5. CASE StartExecution
  <2>1. /\ phase = "init" /\ phase' = "exec" /\ UNCHANGED <<epoch, txs, op>>
        /\ \A u \in Workers : todo'[u] = Work(phase, txs, u)'
    BY <1>5 DEF StartExecution, Work, Serial, InitSerial, ExecSerial
  <2>2. LabelsOfPhase'
    BY <1>1, <2>1 DEF LabelsOfPhase
  <2>3. \A k \in Keys : Writers(k)' = Writers(k)
    BY <2>1, SameWriters
  <2>4. EpochsOK'
    BY <1>1, <1>2, <2>1, <2>3 DEF Progress, EpochsOK
  <2> QED
    BY <1>4, <2>1, <2>2, <2>4 DEF Progress
<1>6. CASE NewEpoch
  <2>1. /\ epoch' = epoch + 1 /\ op' = [u \in Workers |-> NoOp]
        /\ \/ /\ epoch < NumEpochs /\ phase' = "init"
              /\ \A u \in Workers : todo'[u] = Work(phase, txs, u)'
           \/ epoch = NumEpochs /\ phase' = "end"
    BY <1>6 DEF NewEpoch, Work, Serial, InitSerial, ExecSerial
  <2>2. \A k \in Keys : row_epoch[k] < epoch'
    BY <1>3, <2>1
  <2>3. EpochsOK'
    <3>1. epoch' \in Nat \ {0} /\ (phase' # "end" => epoch' <= NumEpochs)
      BY <1>3, <2>1, EpochsAssumption
    <3>2. \A k \in Keys : row_epoch[k] <= epoch' /\ row_epoch[k] # epoch'
      BY <1>3, <2>2, <3>1
    <3> QED
      BY <1>1, <1>2, <2>2, <3>1, <3>2 DEF EpochsOK
  <2>4. LabelsOfPhase'
    <3>1. \A u \in Workers : op'[u].ope = "None"
      BY <2>1 DEF NoOp
    <3> QED
      BY <1>1, <2>1, <3>1 DEF LabelsOfPhase
  <2> QED
    BY <1>4, <2>1, <2>3, <2>4 DEF Progress
<1> QED
  BY <1>5, <1>6

\* Every step keeps the workers' progress.
LEMMA NextProgress ==
    ASSUME IInv, DataTypeOK, Progress, Next
    PROVE  Progress'
<1>1. ASSUME NEW w \in Workers, Step(w) PROVE Progress'
  <2>1. CASE Begin(w)
    BY <2>1, BeginProgress
  <2>2. CASE store_epoch(w)
    BY <2>2, StoreEpochProgress
  <2>3. CASE fetch_new_region(w)
    BY <2>3, FetchProgress
  <2>4. CASE ~Begin(w) /\ ~store_epoch(w) /\ ~fetch_new_region(w)
    <3>1. PICK l : LabelKept(w, l)
      BY <1>1, <2>4, StepsKeepLabels
    <3> QED
      BY <3>1, LabelStep DEF LabelKept
  <2> QED
    BY <2>1, <2>2, <2>3, <2>4
<1> QED
  BY <1>1, BarrierProgress DEF Next
-------------------------------------------------------------------------------
(***************************************************************************)
(* The steps that change no row                                            *)
(***************************************************************************)
Storing(k) == \E w \in Workers : pc[w] = "store_epoch" /\ Key(w) = k

\* The epoch of a row's containers.
LEMMA RowEpochIs ==
    ASSUME DataTypeOK, Progress, NEW k \in Keys
    PROVE  /\ RowEpoch(k) \in Nat /\ RowEpoch(k) <= epoch
           /\ row_epoch[k] = epoch => RowEpoch(k) = epoch
           /\ RowEpoch(k) # epoch => RowEpoch(k) = row_epoch[k] /\ row_epoch[k] < epoch
           /\ RowEpoch(k) = epoch <=> row_epoch[k] = epoch \/ Storing(k)
<1>1. /\ row_epoch[k] \in Nat /\ epoch \in Nat \ {0} /\ row_epoch[k] <= epoch
      /\ \A w \in Workers : pc[w] = "store_epoch" => row_epoch[Key(w)] < epoch
  BY DEF DataTypeOK, Progress, EpochsOK
<1>2. RowEpoch(k) = IF Storing(k) THEN epoch ELSE row_epoch[k]
  BY DEF RowEpoch, Storing
<1> QED
  BY <1>1, <1>2

\* The row of a worker keeps its region when the worker neither starts nor stops
\* to fill one.
LEMMA OwnRegion ==
    ASSUME IInv, IInv', NEW w \in Workers, NEW k \in Keys, UNCHANGED op,
           \A u \in Workers \ {w} : pc'[u] = pc[u] /\ region'[u] = region[u],
           row_region_'[k] = row_region_[k],
           Key(w) = k => /\ pc'[w] \in Filling <=> pc[w] \in Filling
                         /\ pc[w] \in Filling => region'[w] = region[w]
    PROVE  RegionOf(k)' = RegionOf(k) /\ Fillers(k)' = Fillers(k)
<1>1. \A u \in Workers : Key(u)' = Key(u)
  BY DEF Key
<1>2. \A u \in Workers : pc'[u] \in Filling /\ Key(u)' = k <=> pc[u] \in Filling /\ Key(u) = k
  BY <1>1
<1>3. Fillers(k)' = Fillers(k)
  BY <1>2 DEF Fillers
<1>4. \A u \in Fillers(k) : region'[u] = region[u]
  BY DEF Fillers
<1> QED
  BY <1>3, <1>4, RegionKept

\* A row with its region and without a new worker that publishes one is in one
\* place.
LEMMA OnePlaceKept ==
    ASSUME NEW k \in Keys, OnePlace(k), row_region_'[k] = row_region_[k],
           \A u \in Fillers(k)' : pc'[u] = "publish" => u \in Fillers(k) /\ pc[u] = "publish",
           global_array_'[k] \subseteq global_array_[k]
    PROVE  OnePlace(k)'
  BY DEF OnePlace, NoRegion

DataUnchanged == UNCHANGED <<epoch, phase, txs, db, master_, global_array_, status,
                             core_bitmap_, transaction_bitmap_, slots_>>

AppendLabels == {"append", "locked_append"}

\* A row of which nothing changes.
LEMMA UntouchedRow ==
    ASSUME NEW k \in Keys, RowInv(k), DataUnchanged, RowEpoch(k)' = RowEpoch(k),
           RegionOf(k)' = RegionOf(k),
           Waiting(k)' = Waiting(k), Writing(k)' = Writing(k),
           \A c \in Cores : pc[c] \in AppendLabels /\ Key(c) = k =>
                              pc'[c] \in AppendLabels /\ Key(c)' = k,
           OnePlace(k)'
    PROVE  RowInv(k)'
<1>1. Row(k)' = Row(k)
  BY SameRegionSameRow DEF DataUnchanged
<1> QED
  BY <1>1, QuietRow DEF DataUnchanged, AppendLabels

\* A step of w that only moves on, on its side of the labels that matter.
PlainStep(w, l) ==
    /\ LabelKept(w, l) /\ DataUnchanged /\ UNCHANGED <<row_region_, used_>>
    /\ \A u \in Workers \ {w} : region'[u] = region[u]
    /\ pc[w] \notin Filling \cup AppendLabels \cup {"store_epoch", "write_status"}
    /\ l \notin Filling \cup {"store_epoch", "write_status"}
    /\ l \in Unmade <=> pc[w] \in Unmade

\* A step that moves no version keeps the rows.
LEMMA PlainStepKeeps ==
    ASSUME IInv, IInv', DInv, NEW w \in Workers, NEW l, PlainStep(w, l)
    PROVE  DataTypeOK' /\ FreshRegions' /\ \A k \in Keys : RowInv(k)'
<1>1. DataTypeOK' /\ FreshRegions'
  BY DEF DInv, DataTypeOK, FreshRegions, PlainStep, DataUnchanged, LabelKept
<1>2. /\ pc \in [Workers -> Labels] /\ pc' = [pc EXCEPT ![w] = l]
      /\ UNCHANGED <<phase, txs, epoch, todo, op, row_epoch, row_region_>>
  BY DEF PlainStep, LabelKept, Goto, IInv, ControlTypeOK
<1>3. pc'[w] = l /\ \A u \in Workers : u # w => pc'[u] = pc[u]
  BY <1>2
<1>4. \A u \in Workers : Key(u)' = Key(u)
  BY <1>2 DEF Key
<1>5. ASSUME NEW k \in Keys PROVE RowInv(k)'
  <2>1. RegionOf(k)' = RegionOf(k) /\ Fillers(k)' = Fillers(k)
    BY <1>2, <1>3, OwnRegion DEF PlainStep
  <2>2. RowEpoch(k)' = RowEpoch(k)
    <3>1. \A u \in Workers : pc'[u] = "store_epoch" <=> pc[u] = "store_epoch"
      BY <1>3 DEF PlainStep
    <3> QED
      BY <1>2, <1>4, <3>1 DEF RowEpoch
  <2>3. /\ pc'[w] \in Unfiled \cup {"write"} <=> pc[w] \in Unfiled \cup {"write"}
        /\ pc'[w] = "write_status" <=> pc[w] = "write_status"
    BY <1>3 DEF PlainStep, Unmade
  <2>4. Waiting(k)' = Waiting(k) /\ Writing(k)' = Writing(k)
    BY <1>2, <1>3, <2>3, SameWaiting
  <2>5. OnePlace(k)'
    <3>1. \A u \in Fillers(k) : u # w
      BY DEF Fillers, PlainStep
    <3>2. \A u \in Fillers(k) : u \in Workers
      BY DEF Fillers
    <3>3. OnePlace(k)
      BY DEF DInv, RowInv
    <3> QED
      BY <1>2, <1>3, <2>1, <3>1, <3>2, <3>3, OnePlaceKept DEF PlainStep, DataUnchanged
  <2>6. \A c \in Cores : pc[c] \in AppendLabels /\ Key(c) = k =>
                             pc'[c] \in AppendLabels /\ Key(c)' = k
    BY <1>3, <1>4, CoresAreNatural DEF PlainStep
  <2>7. RowInv(k)
    BY DEF DInv
  <2> QED
    BY <2>1, <2>2, <2>4, <2>5, <2>6, <2>7, UntouchedRow DEF PlainStep
<1> QED
  BY <1>1, <1>5

\* The plain steps of the code.
PlainActions(w) ==
    \/ epoch_guard(w) \/ guard_try_lock(w) \/ guard_unlock(w) \/ try_lock(w)
    \/ row_has_region(w) \/ unlock(w) \/ wait_region_installation(w) \/ wait_try_lock(w)
    \/ already_installed(w) \/ install_unlock(w) \/ read(w)
    \/ wait_stable_and_execute_read(w)
    \/ initialize_the_row(w) /\ row_epoch[Key(w)] >= epoch

\* The steps on locks and pointers, and the reads, are such steps.
LEMMA PlainActionsArePlain ==
    ASSUME IInv, DInv, NEW w \in Workers, PlainActions(w)
    PROVE  \E l : PlainStep(w, l)
<1>1. Step(w) /\ ~Begin(w) /\ ~store_epoch(w) /\ ~fetch_new_region(w)
  <2>1. Step(w)
    BY DEF PlainActions, Step
  <2>2. pc[w] \notin {"begin", "store_epoch"}
    BY DEF PlainActions, epoch_guard, guard_try_lock, guard_unlock, try_lock, row_has_region,
       unlock, wait_region_installation, wait_try_lock, already_installed, install_unlock,
       read, wait_stable_and_execute_read, initialize_the_row, TryLock, Unlock
  <2>3. pc[w] = "install" => row_region_[Key(w)] # NoRegion
    BY DEF PlainActions, epoch_guard, guard_try_lock, guard_unlock, try_lock, row_has_region,
       unlock, wait_region_installation, wait_try_lock, already_installed, install_unlock,
       read, wait_stable_and_execute_read, initialize_the_row, TryLock, Unlock
  <2> QED
    BY <2>1, <2>2, <2>3 DEF Begin, store_epoch, fetch_new_region
<1>2. PICK l : LabelKept(w, l)
  BY <1>1, StepsKeepLabels DEF DInv
<1>3. pc \in [Workers -> Labels] /\ region \in [Workers -> Regions \cup {NoRegion}]
  BY DEF IInv, ControlTypeOK
<1>4. pc' = [pc EXCEPT ![w] = l] /\ pc'[w] = l
  BY <1>2, <1>3 DEF LabelKept, Goto
<1> USE DEF Goto, Filling, AppendLabels, Unmade, Unfiled, batchVars, opVars, workerVars,
        memVars, rowVars, regionVars, DataUnchanged
<1> DEFINE Moves ==
      /\ DataUnchanged /\ UNCHANGED <<row_region_, used_>>
      /\ \A u \in Workers \ {w} : region'[u] = region[u]
      /\ pc[w] \notin Filling \cup AppendLabels \cup {"store_epoch", "write_status"}
      /\ pc'[w] \notin Filling \cup {"store_epoch", "write_status"}
      /\ pc'[w] \in Unmade <=> pc[w] \in Unmade
<1>5. CASE epoch_guard(w)
  <2>1. pc'[w] \in {"guard_try_lock", "try_lock"}
    BY <1>3, <1>5 DEF epoch_guard
  <2>2. Moves
    BY <1>5, <2>1 DEF epoch_guard
  <2> QED
    BY <1>2, <1>4, <2>2 DEF PlainStep
<1>6. CASE guard_try_lock(w) \/ try_lock(w) \/ wait_try_lock(w)
  <2>1. Moves
    BY <1>3, <1>6 DEF guard_try_lock, try_lock, wait_try_lock, TryLock
  <2> QED
    BY <1>2, <1>4, <2>1 DEF PlainStep
<1>7. CASE guard_unlock(w) \/ unlock(w) \/ install_unlock(w)
  <2>1. Moves
    BY <1>3, <1>7 DEF guard_unlock, unlock, install_unlock, Unlock
  <2> QED
    BY <1>2, <1>4, <2>1 DEF PlainStep
<1>8. CASE row_has_region(w) \/ already_installed(w)
  <2>1. Moves
    BY <1>3, <1>8 DEF row_has_region, already_installed
  <2> QED
    BY <1>2, <1>4, <2>1 DEF PlainStep
<1>9. CASE wait_region_installation(w)
  <2>1. pc'[w] \in {"wait_try_lock", "append"}
    BY <1>3, <1>9 DEF wait_region_installation
  <2>2. Moves
    BY <1>3, <1>9, <2>1 DEF wait_region_installation
  <2> QED
    BY <1>2, <1>4, <2>2 DEF PlainStep
<1>10. CASE read(w) \/ wait_stable_and_execute_read(w)
  <2>1. Moves
    BY <1>3, <1>10 DEF read, wait_stable_and_execute_read
  <2> QED
    BY <1>2, <1>4, <2>1 DEF PlainStep
<1>11. CASE initialize_the_row(w) /\ row_epoch[Key(w)] >= epoch
  <2>1. ~(row_epoch[Key(w)] < epoch)
    <3>1. row_epoch[Key(w)] \in Nat /\ epoch \in Nat
      BY DEF DInv, DataTypeOK, Progress, EpochsOK, IInv, ControlTypeOK, Key
    <3> QED
      BY <1>11, <3>1
  <2>2. Moves
    BY <1>3, <1>11, <2>1 DEF initialize_the_row
  <2> QED
    BY <1>2, <1>4, <2>2 DEF PlainStep
<1> QED
  BY <1>5, <1>6, <1>7, <1>8, <1>9, <1>10, <1>11 DEF PlainActions

\* The start of an operation changes no row.
LEMMA BeginKeeps ==
    ASSUME IInv, IInv', DInv, NEW w \in Workers, Begin(w)
    PROVE  DataTypeOK' /\ FreshRegions' /\ \A k \in Keys : RowInv(k)'
<1>1. /\ DataUnchanged /\ UNCHANGED <<row_region_, used_, row_epoch>>
      /\ phase \in {"init", "exec"} /\ pc[w] = "begin"
      /\ pc' = [pc EXCEPT ![w] = IF phase = "init" THEN "epoch_guard"
                                 ELSE IF op'[w].ope = "Read" THEN "read" ELSE "write"]
      /\ region' = [region EXCEPT ![w] = NoRegion]
      /\ \E o : op' = [op EXCEPT ![w] = o]
  BY DEF Begin, Goto, DataUnchanged, batchVars, memVars, rowVars, regionVars
<1>2. DataTypeOK' /\ FreshRegions'
  BY <1>1 DEF DInv, DataTypeOK, FreshRegions, DataUnchanged
<1>3. /\ pc \in [Workers -> Labels] /\ region \in [Workers -> Regions \cup {NoRegion}]
      /\ op \in [Workers -> [core : Cores, serial : Serials, index : Keys,
                            ope : {"None", "Read", "Update"}]]
  BY DEF IInv, ControlTypeOK
<1>4. \A u \in Workers : u # w => pc'[u] = pc[u] /\ region'[u] = region[u] /\ Key(u)' = Key(u)
  BY <1>1, <1>3 DEF Key
<1>5. pc'[w] \in {"epoch_guard", "read", "write"}
  BY <1>1, <1>3
<1>6. ASSUME NEW k \in Keys PROVE RowInv(k)'
  <2>1. Fillers(k)' = Fillers(k) /\ \A u \in Fillers(k) : u \in Workers /\ u # w
    <3>1. \A u \in Workers : pc'[u] \in Filling /\ Key(u)' = k <=> pc[u] \in Filling /\ Key(u) = k
      BY <1>1, <1>4, <1>5 DEF Filling
    <3>2. pc[w] \notin Filling
      BY <1>1 DEF Filling
    <3> QED
      BY <3>1, <3>2 DEF Fillers
  <2>2. RegionOf(k)' = RegionOf(k)
    BY <1>1, <1>4, <2>1, RegionKept
  <2>3. RowEpoch(k)' = RowEpoch(k)
    <3>1. \A u \in Workers : pc'[u] = "store_epoch" /\ Key(u)' = k <=>
                               pc[u] = "store_epoch" /\ Key(u) = k
      BY <1>1, <1>4, <1>5
    <3> QED
      BY <1>1, <3>1 DEF RowEpoch, DataUnchanged
  <2>4. Waiting(k)' = Waiting(k) /\ Writing(k)' = Writing(k)
    BY BeginWaits DEF DInv
  <2>5. RowInv(k) /\ OnePlace(k)
    BY DEF DInv, RowInv
  <2>6. OnePlace(k)'
    BY <1>1, <1>4, <2>1, <2>5, OnePlaceKept DEF DataUnchanged
  <2>7. \A c \in Cores : pc[c] \in AppendLabels /\ Key(c) = k =>
                             pc'[c] \in AppendLabels /\ Key(c)' = k
    <3>1. pc[w] \notin AppendLabels
      BY <1>1 DEF AppendLabels
    <3> QED
      BY <1>4, <3>1, CoresAreNatural
  <2> QED
    BY <1>1, <2>2, <2>3, <2>4, <2>5, <2>6, <2>7, UntouchedRow
<1> QED
  BY <1>2, <1>6

\* Nor does storing its epoch, which the row's containers belong to already.
LEMMA StoreEpochKeeps ==
    ASSUME IInv, IInv', DInv, NEW w \in Workers, store_epoch(w)
    PROVE  DataTypeOK' /\ FreshRegions' /\ \A k \in Keys : RowInv(k)'
<1>1. /\ DataUnchanged /\ UNCHANGED <<row_region_, used_, todo, op, region>>
      /\ pc[w] = "store_epoch" /\ pc' = [pc EXCEPT ![w] = "guard_unlock"]
      /\ row_epoch' = [row_epoch EXCEPT ![Key(w)] = epoch]
  BY DEF store_epoch, Goto, DataUnchanged, batchVars, opVars, regionVars
<1>2. /\ pc \in [Workers -> Labels] /\ row_epoch \in [Keys -> Nat] /\ Key(w) \in Keys
      /\ epoch \in Nat
  BY DEF IInv, ControlTypeOK, DInv, DataTypeOK, Key, Progress, EpochsOK
<1>3. DataTypeOK' /\ FreshRegions'
  BY <1>1, <1>2 DEF DInv, DataTypeOK, FreshRegions, DataUnchanged
<1>4. pc'[w] = "guard_unlock" /\ \A u \in Workers : u # w => pc'[u] = pc[u]
  BY <1>1, <1>2
<1>5. \A u \in Workers : Key(u)' = Key(u)
  BY <1>1 DEF Key
<1>6. ASSUME NEW k \in Keys PROVE RowInv(k)'
  <2>1. pc[w] \notin Filling /\ pc'[w] \notin Filling /\ pc[w] \notin AppendLabels
    BY <1>1, <1>4 DEF Filling, AppendLabels
  <2>2. RegionOf(k)' = RegionOf(k) /\ Fillers(k)' = Fillers(k)
    BY <1>1, <1>4, <2>1, OwnRegion
  <2>3. RowEpoch(k)' = RowEpoch(k)
    <3>1. CASE k = Key(w)
      <4>1. RowEpoch(k) = epoch
        BY <1>1, <3>1 DEF RowEpoch
      <4>2. row_epoch'[k] = epoch /\ epoch' = epoch
        BY <1>1, <1>2, <3>1 DEF DataUnchanged
      <4> QED
        BY <4>1, <4>2 DEF RowEpoch
    <3>2. CASE k # Key(w)
      <4>1. \A u \in Workers : pc'[u] = "store_epoch" /\ Key(u)' = k <=>
                                 pc[u] = "store_epoch" /\ Key(u) = k
        BY <1>4, <1>5, <3>2
      <4>2. row_epoch'[k] = row_epoch[k] /\ epoch' = epoch
        BY <1>1, <1>2, <3>2 DEF DataUnchanged
      <4> QED
        BY <4>1, <4>2 DEF RowEpoch
    <3> QED
      BY <3>1, <3>2
  <2>4. Waiting(k)' = Waiting(k) /\ Writing(k)' = Writing(k)
    <3>1. /\ pc'[w] \in Unfiled \cup {"write"} /\ pc[w] \in Unfiled \cup {"write"}
          /\ pc'[w] # "write_status" /\ pc[w] # "write_status"
      BY <1>1, <1>4 DEF Unfiled
    <3> QED
      BY <1>1, <1>4, <3>1, SameWaiting DEF DataUnchanged
  <2>5. RowInv(k) /\ OnePlace(k)
    BY DEF DInv, RowInv
  <2>6. OnePlace(k)'
    <3>1. \A u \in Fillers(k) : u \in Workers /\ u # w
      BY <2>1 DEF Fillers
    <3> QED
      BY <1>1, <1>4, <2>2, <2>5, <3>1, OnePlaceKept DEF DataUnchanged
  <2>7. \A c \in Cores : pc[c] \in AppendLabels /\ Key(c) = k =>
                             pc'[c] \in AppendLabels /\ Key(c)' = k
    BY <1>4, <1>5, <2>1, CoresAreNatural
  <2> QED
    BY <1>1, <2>2, <2>3, <2>4, <2>5, <2>6, <2>7, UntouchedRow
<1> QED
  BY <1>3, <1>6

\* A worker that holds the lock of its row and fills no region: nobody does.
LEMMA NobodyFills ==
    ASSUME IInv, NEW w \in Workers, pc[w] \in LockedLabels \ Filling
    PROVE  Fillers(Key(w)) = {} /\ RegionOf(Key(w)) = row_region_[Key(w)]
<1>1. Key(w) \in Keys
  BY DEF IInv, ControlTypeOK, Key
<1>2. lock[Key(w)] = w
  BY <1>1 DEF IInv, LockOwner
<1>3. \A u \in Fillers(Key(w)) : lock[Key(w)] = u /\ u # w
  BY <1>1, RegionsOwn DEF RegionIsOwn, Fillers
<1>4. Fillers(Key(w)) = {}
  BY <1>2, <1>3
<1> QED
  BY <1>4 DEF RegionOf

\* A fetched region is as empty as no region.
LEMMA FetchKeeps ==
    ASSUME IInv, IInv', DInv, NEW w \in Workers, fetch_new_region(w)
    PROVE  DataTypeOK' /\ FreshRegions' /\ \A k \in Keys : RowInv(k)'
<1>1. /\ phase = "init" /\ pc[w] = "install" /\ row_region_[Key(w)] = NoRegion
      /\ UNCHANGED <<epoch, txs, db, todo, op, row_epoch, master_, global_array_, status,
                     core_bitmap_, transaction_bitmap_, slots_, row_region_>>
      /\ \/ used_ < NumRegions /\ Fetch(w) /\ UNCHANGED phase
         \/ phase' = "aborted" /\ UNCHANGED <<pc, region, used_>>
  BY DEF fetch_new_region, FetchUnchanged, opVars, rowVars
<1>2. Key(w) \in Keys /\ pc \in [Workers -> Labels] /\ used_ \in Nat
      /\ region \in [Workers -> Regions \cup {NoRegion}]
  BY EpochsAssumption DEF IInv, ControlTypeOK, Key
<1>3. DataTypeOK' /\ FreshRegions'
  <2>1. used_' = used_ \/ used_' = used_ + 1
    BY <1>1 DEF Fetch
  <2>2. \A r \in Regions : r > used_' => r > used_
    BY <1>2, <2>1 DEF Regions
  <2> QED
    BY <1>1, <2>2 DEF DInv, DataTypeOK, FreshRegions
<1>4. \A u \in Workers : Key(u)' = Key(u)
  BY <1>1 DEF Key
<1>5. ASSUME NEW k \in Keys, used_ < NumRegions, Fetch(w), UNCHANGED phase PROVE RowInv(k)'
  <2>1. /\ pc' = [pc EXCEPT ![w] = "move"] /\ used_' = used_ + 1
        /\ region' = [region EXCEPT ![w] = used_ + 1]
    BY <1>5 DEF Fetch, Goto
  <2>2. /\ pc'[w] = "move" /\ region'[w] = used_ + 1
        /\ \A u \in Workers : u # w => pc'[u] = pc[u] /\ region'[u] = region[u]
    BY <1>2, <2>1
  <2>3. DataUnchanged
    BY <1>1, <1>5 DEF DataUnchanged
  <2>4. RowEpoch(k)' = RowEpoch(k)
    <3>1. \A u \in Workers : pc'[u] = "store_epoch" <=> pc[u] = "store_epoch"
      BY <1>1, <2>2
    <3> QED
      BY <1>1, <1>4, <3>1 DEF RowEpoch
  <2>5. Waiting(k)' = Waiting(k) /\ Writing(k)' = Writing(k)
    <3>1. /\ pc'[w] \in Unfiled \cup {"write"} /\ pc[w] \in Unfiled \cup {"write"}
          /\ pc'[w] # "write_status" /\ pc[w] # "write_status"
      BY <1>1, <2>2 DEF Unfiled
    <3> QED
      BY <1>1, <1>5, <2>2, <3>1, SameWaiting
  <2>6. \A c \in Cores : pc[c] \in {"append", "locked_append"} /\ Key(c) = k =>
                             pc'[c] \in {"append", "locked_append"} /\ Key(c)' = k
    BY <1>1, <1>4, <2>2, CoresAreNatural
  <2>7. RowInv(k) /\ OnePlace(k)
    BY DEF DInv, RowInv
  <2>8. OnePlace(k)'
    <3>1. \A u \in Fillers(k)' : pc'[u] = "publish" => u \in Fillers(k) /\ pc[u] = "publish"
      BY <1>4, <2>2 DEF Fillers
    <3> QED
      BY <1>1, <2>7, <3>1, OnePlaceKept
  <2>9. Row(k)' = Row(k)
    <3>1. CASE k # Key(w)
      <4>1. RegionOf(k)' = RegionOf(k)
        BY <1>1, <2>2, <3>1, OwnRegion
      <4> QED
        BY <1>1, <2>4, <4>1, SameRegionSameRow
    <3>2. CASE k = Key(w)
      <4>1. RegionOf(k) = NoRegion
        BY <1>1, <3>2, NobodyFills DEF LockedLabels, Filling
      <4>2. w \in Fillers(k)'
        BY <1>4, <2>2, <3>2 DEF Fillers, Filling
      <4>3. RegionOf(k)' = used_ + 1
        BY <2>2, <4>2, RegionsOwnNext DEF RegionIsOwn
      <4>4. used_ + 1 \in Regions /\ used_ + 1 > used_ /\ used_ + 1 # NoRegion
        BY <1>2, <1>5, EpochsAssumption DEF Regions, NoRegion
      <4>5. /\ core_bitmap_[used_ + 1] = {}
            /\ transaction_bitmap_[used_ + 1] = [c \in Cores |-> {}]
            /\ slots_[used_ + 1] = [c \in Cores |-> <<>>]
        BY <4>4 DEF DInv, FreshRegions
      <4>6. OfRegion(k, core_bitmap_, {})' = OfRegion(k, core_bitmap_, {})
        BY <1>1, <4>1, <4>3, <4>4, <4>5 DEF OfRegion, NoRegion
      <4>7. OfRegion(k, transaction_bitmap_, [c \in Cores |-> {}])'
              = OfRegion(k, transaction_bitmap_, [c \in Cores |-> {}])
        BY <1>1, <4>1, <4>3, <4>4, <4>5 DEF OfRegion, NoRegion
      <4>8. OfRegion(k, slots_, [c \in Cores |-> <<>>])'
              = OfRegion(k, slots_, [c \in Cores |-> <<>>])
        BY <1>1, <4>1, <4>3, <4>4, <4>5 DEF OfRegion, NoRegion
      <4> QED
        BY <1>1, <2>4, <4>6, <4>7, <4>8, SameRow
    <3> QED
      BY <3>1, <3>2
  <2> QED
    BY <1>1, <1>5, <2>5, <2>6, <2>7, <2>8, <2>9, QuietRow
<1>6. ASSUME NEW k \in Keys, phase' = "aborted", UNCHANGED <<pc, region, used_>>
      PROVE  RowInv(k)'
  <2>1. Row(k)' = Row(k) /\ RowEpoch(k)' = RowEpoch(k) /\ Fillers(k)' = Fillers(k)
    BY <1>1, <1>6 DEF Row, RowEpoch, OfRegion, RegionOf, Fillers, Key
  <2>2. RowInv(k)
    BY DEF DInv
  <2>3. RowOK(Row(k))' /\ Contents(k)'
    BY <1>6, <2>1, <2>2 DEF RowInv, Contents
  <2>4. StatusesOK(k)'
    BY <1>1, <1>6, <2>1, <2>2 DEF RowInv, StatusesOK
  <2>5. FinalOK(k)' /\ OnePlace(k)'
    BY <1>1, <1>6, <2>1, <2>2 DEF RowInv, FinalOK, OnePlace
  <2>6. NoEmptyArrays(k)'
    BY <1>1, <1>6, <2>1, <2>2 DEF RowInv, NoEmptyArrays, Key
  <2> QED
    BY <2>3, <2>4, <2>5, <2>6 DEF RowInv
<1> QED
  BY <1>1, <1>3, <1>5, <1>6

\* A filled region is published: it is the row's region already.
LEMMA PublishKeeps ==
    ASSUME IInv, IInv', DInv, NEW w \in Workers,
           \/ publish_region(w)
           \/ move_global_array_to_row_region(w) /\ global_array_[Key(w)] = {}
    PROVE  DataTypeOK' /\ FreshRegions' /\ \A k \in Keys : RowInv(k)'
<1>0. Key(w) \in Keys /\ pc \in [Workers -> Labels]
      /\ row_region_ \in [Keys -> Regions \cup {NoRegion}]
  BY DEF IInv, ControlTypeOK, Key
<1>1. /\ DataUnchanged /\ UNCHANGED <<row_epoch, used_, todo, op, region>>
      /\ \/ /\ pc[w] = "publish" /\ pc' = [pc EXCEPT ![w] = "install_unlock"]
            /\ row_region_' = [row_region_ EXCEPT ![Key(w)] = region[w]]
         \/ /\ pc[w] = "move" /\ pc' = [pc EXCEPT ![w] = "publish"]
            /\ row_region_' = row_region_ /\ global_array_[Key(w)] = {}
  BY DEF publish_region, move_global_array_to_row_region, Goto, DataUnchanged,
     batchVars, opVars, memVars, rowVars, regionVars
<1>2. DataTypeOK' /\ FreshRegions'
  BY <1>1 DEF DInv, DataTypeOK, FreshRegions, DataUnchanged
<1>3. pc'[w] \in {"publish", "install_unlock"} /\ \A u \in Workers : u # w => pc'[u] = pc[u]
  BY <1>0, <1>1
<1>4. \A u \in Workers : Key(u)' = Key(u)
  BY <1>1 DEF Key
<1>5. ASSUME NEW k \in Keys PROVE RowInv(k)'
  <2>1. RowInv(k) /\ OnePlace(k)
    BY DEF DInv, RowInv
  <2>2. RowEpoch(k)' = RowEpoch(k)
    <3>1. \A u \in Workers : pc'[u] = "store_epoch" <=> pc[u] = "store_epoch"
      BY <1>1, <1>3
    <3> QED
      BY <1>1, <1>4, <3>1 DEF RowEpoch, DataUnchanged
  <2>3. Waiting(k)' = Waiting(k) /\ Writing(k)' = Writing(k)
    <3>1. /\ pc'[w] \in Unfiled \cup {"write"} /\ pc[w] \in Unfiled \cup {"write"}
          /\ pc'[w] # "write_status" /\ pc[w] # "write_status"
      BY <1>1, <1>3 DEF Unfiled
    <3> QED
      BY <1>1, <1>3, <3>1, SameWaiting DEF DataUnchanged
  <2>4. \A c \in Cores : pc[c] \in AppendLabels /\ Key(c) = k =>
                             pc'[c] \in AppendLabels /\ Key(c)' = k
    BY <1>1, <1>3, <1>4, CoresAreNatural DEF AppendLabels
  <2>5. CASE k # Key(w)
    <3>1. row_region_'[k] = row_region_[k]
      BY <1>0, <1>1, <2>5
    <3>2. RegionOf(k)' = RegionOf(k) /\ Fillers(k)' = Fillers(k)
      BY <1>1, <1>3, <2>5, <3>1, OwnRegion
    <3>3. \A u \in Fillers(k) : u \in Workers /\ u # w
      BY <2>5 DEF Fillers
    <3>4. OnePlace(k)'
      BY <1>1, <1>3, <2>1, <3>1, <3>2, <3>3, OnePlaceKept DEF DataUnchanged
    <3> QED
      BY <1>1, <2>1, <2>2, <2>3, <2>4, <3>2, <3>4, UntouchedRow
  <2>6. CASE k = Key(w)
    <3>1. w \in Fillers(k)
      BY <1>1, <2>6 DEF Fillers, Filling
    <3>2. RegionOf(k) = region[w] /\ RegionOf(k) # NoRegion
      BY <3>1, RegionsOwn DEF RegionIsOwn
    <3>3. global_array_[k] = {}
      BY <1>1, <2>1, <2>6, <3>1 DEF OnePlace
    <3>4. OnePlace(k)'
      BY <1>1, <3>3 DEF OnePlace, DataUnchanged
    <3>5. CASE pc[w] = "move"
      <4>1. pc'[w] \in Filling /\ pc[w] \in Filling /\ row_region_'[k] = row_region_[k]
        BY <1>0, <1>1, <3>5 DEF Filling
      <4>2. RegionOf(k)' = RegionOf(k)
        BY <1>1, <1>3, <4>1, OwnRegion
      <4> QED
        BY <1>1, <2>1, <2>2, <2>3, <2>4, <3>4, <4>2, UntouchedRow
    <3>6. CASE pc[w] = "publish"
      <4>1. row_region_'[k] = region[w] /\ NoRegion' = NoRegion
        BY <1>0, <1>1, <2>6, <3>6 DEF NoRegion
      <4>2. RegionIsOwn(k)'
        BY RegionsOwnNext
      <4>3. RegionOf(k)' = region[w]
        BY <3>2, <4>1, <4>2 DEF RegionIsOwn
      <4>4. RegionOf(k)' = RegionOf(k)
        BY <3>2, <4>3
      <4> QED
        BY <1>1, <2>1, <2>2, <2>3, <2>4, <3>4, <4>4, UntouchedRow
    <3> QED
      BY <1>1, <3>5, <3>6
  <2> QED
    BY <2>5, <2>6
<1> QED
  BY <1>2, <1>5
-------------------------------------------------------------------------------
(***************************************************************************)
(* The steps that change one row                                           *)
(***************************************************************************)

\* They keep the invariant of the other rows.
LEMMA OtherRowsKept ==
    ASSUME IInv, IInv', DInv, NEW w \in Workers, Frame(w), phase' = phase,
           RegionOf(Key(w)) # NoRegion \/ UNCHANGED <<core_bitmap_, transaction_bitmap_, slots_>>,
           NEW j \in Keys, j # Key(w)
    PROVE  RowInv(j)'
<1>1. Row(j)' = Row(j) /\ Fillers(j)' = Fillers(j)
  BY OtherRows
<1>2. /\ UNCHANGED <<epoch, txs, db, todo, op>>
      /\ \A u \in Workers \ {w} : pc'[u] = pc[u]
      /\ row_region_'[j] = row_region_[j] /\ global_array_'[j] = global_array_[j]
  BY DEF Frame
<1>3. Waiting(j)' = Waiting(j) /\ Writing(j)' = Writing(j)
  BY <1>2, SameWaiting
<1>4. \A u \in Workers : Key(u)' = Key(u) /\ (Key(u) = j => pc'[u] = pc[u])
  BY <1>2 DEF Key
<1>5. RowInv(j) /\ OnePlace(j)
  BY DEF DInv, RowInv
<1>6. OnePlace(j)'
  <2>1. \A u \in Fillers(j) : u \in Workers /\ Key(u) = j
    BY DEF Fillers
  <2> QED
    BY <1>1, <1>2, <1>4, <1>5, <2>1, OnePlaceKept
<1>7. \A c \in Cores : pc[c] \in {"append", "locked_append"} /\ Key(c) = j =>
                          pc'[c] \in {"append", "locked_append"} /\ Key(c)' = j
  BY <1>4, CoresAreNatural
<1> QED
  BY <1>1, <1>2, <1>3, <1>5, <1>6, <1>7, QuietRow

\* The view of a row has its types.
LEMMA RowsTyped == IInv /\ DataTypeOK /\ Progress => \A k \in Keys : RowTyped(Row(k))
<1>1. ASSUME IInv, DataTypeOK, Progress, NEW k \in Keys PROVE RowTyped(Row(k))
  <2>1. RegionOf(k) # NoRegion => RegionOf(k) \in Regions
    BY <1>1, RegionsOwn DEF RegionIsOwn
  <2>2. RowEpoch(k) \in Nat
    BY <1>1, RowEpochIs
  <2>3. OfRegion(k, core_bitmap_, {}) \in SUBSET Cores
    BY <1>1, <2>1 DEF OfRegion, DataTypeOK
  <2>4. OfRegion(k, transaction_bitmap_, [c \in Cores |-> {}]) \in [Cores -> SUBSET Cores]
    BY <1>1, <2>1 DEF OfRegion, DataTypeOK
  <2>5. OfRegion(k, slots_, [c \in Cores |-> <<>>]) \in [Cores -> Seq(Versions)]
    BY <1>1, <2>1 DEF OfRegion, DataTypeOK
  <2> QED
    BY <1>1, <2>2, <2>3, <2>4, <2>5 DEF Row, RowTyped, DataTypeOK
<1> QED
  BY <1>1

\* Rows have their types after a step.
LEMMA RowsTypedNext ==
    IInv' /\ DataTypeOK' /\ Progress' => (\A k \in Keys : RowTyped(Row(k)))'
BY RowsTyped, PTL

\* A row is made of master_, the global array and the region.
LEMMA RowIs ==
    ASSUME NEW k \in Keys
    PROVE  /\ Row(k).epoch = RowEpoch(k) /\ Row(k).master = master_[k]
           /\ Row(k).global = global_array_[k] /\ Row(k).status = status[k]
           /\ RegionOf(k) # NoRegion =>
                 /\ Row(k).cores = core_bitmap_[RegionOf(k)]
                 /\ Row(k).bits = transaction_bitmap_[RegionOf(k)]
                 /\ Row(k).arrays = slots_[RegionOf(k)]
           /\ RegionOf(k) = NoRegion => Row(k).cores = {}
  BY DEF Row, OfRegion

\* ... also in the next state.
LEMMA RowIsNext ==
    ASSUME NEW k \in Keys
    PROVE  /\ Row(k)'.epoch = RowEpoch(k)' /\ Row(k)'.master = master_'[k]
           /\ Row(k)'.global = global_array_'[k] /\ Row(k)'.status = status'[k]
           /\ RegionOf(k)' # NoRegion =>
                 /\ Row(k)'.cores = core_bitmap_'[RegionOf(k)']
                 /\ Row(k)'.bits = transaction_bitmap_'[RegionOf(k)']
                 /\ Row(k)'.arrays = slots_'[RegionOf(k)']
           /\ RegionOf(k)' = RegionOf(k) /\ RegionOf(k) = NoRegion =>
                 Row(k)'.cores = {} /\ Row(k)'.bits = Row(k).bits /\ Row(k)'.arrays = Row(k).arrays
  BY DEF Row, OfRegion, NoRegion

\* The versions the workers create.
LEMMA VersionOfEpoch ==
    ASSUME Progress, phase # "end", NEW s \in Serials
    PROVE  <<epoch, s>> \in Versions
<1>1. epoch \in 0 .. NumEpochs
  BY EpochsAssumption DEF Progress, EpochsOK
<1>2. s \in -2 .. N * N - 1
  BY SerialsAreNatural DEF Serials
<1> QED
  BY <1>1, <1>2 DEF Versions

\* The versions of its epoch that a row owns are those in its containers.
LEMMA OwnedOfEpoch ==
    ASSUME NEW x, RowOK(x), x.epoch # 0
    PROVE  /\ \A s \in Serials : <<x.epoch, s>> \in Owned(x) <=> HasVersion(x, s)
           /\ \A v \in Owned(x) : v[1] = x.epoch => /\ v[2] \in Serials /\ v = <<x.epoch, v[2]>>
                                                    /\ HasVersion(x, v[2])
           /\ \A v \in Owned(x) : v[1] <= x.epoch
<1>0. x.epoch \in Nat /\ x.bits \in [Cores -> SUBSET Cores] /\ x.cores \subseteq Cores
  BY DEF RowOK, RowTyped
<1>1. x.master \in Versions /\ x.master[1] < x.epoch
  BY DEF RowOK, RowTyped
<1>2. ASSUME NEW v \in Owned(x), v[1] = x.epoch
      PROVE  v[2] \in Serials /\ v = <<x.epoch, v[2]>> /\ HasVersion(x, v[2])
  <2>1. v # x.master
    BY <1>0, <1>1, <1>2
  <2>2. v \in Versions
    BY OwnedVersions
  <2>3. v = <<x.epoch, v[2]>>
    BY <1>2, <2>2 DEF Versions
  <2>4. CASE v \in x.global
    <3>1. v[2] \in Serials
      BY <2>4 DEF RowOK
    <3> QED
      BY <2>3, <2>4, <3>1 DEF HasVersion
  <2>5. CASE v \notin x.global
    <3>1. PICK c, i : c \in Cores /\ i \in DOMAIN x.arrays[c] /\ v = x.arrays[c][i]
      BY <2>1, <2>5, OwnedIs
    <3>2. v[2] \in Serials /\ get_core_serial(v[2]) = c
      BY <3>1, SlotEntry
    <3>3. c \in x.cores
      BY <1>0, <1>2, <3>1, SlotEntry
    <3>4. PICK t \in x.bits[c] : v = <<x.epoch, c * N + t>>
      BY <3>1, <3>3, SlotEntry
    <3>5. t \in Cores /\ v[2] = c * N + t
      BY <1>0, <3>1, <3>4
    <3>6. get_tx_serial(v[2]) = t
      BY <3>1, <3>5, SerialOf
    <3> QED
      BY <2>3, <3>2, <3>3, <3>4, <3>6 DEF HasVersion
  <2> QED
    BY <2>4, <2>5
<1>3. ASSUME NEW s \in Serials, HasVersion(x, s) PROVE <<x.epoch, s>> \in Owned(x)
  <2>1. CASE <<x.epoch, s>> \in x.global
    BY <2>1 DEF Owned
  <2>2. CASE <<x.epoch, s>> \notin x.global
    <3>1. PICK c \in Cores, t \in Cores :
             c = get_core_serial(s) /\ t = get_tx_serial(s) /\ s = c * N + t
      BY CoreAndTx
    <3>2. c \in x.cores /\ t \in x.bits[c]
      BY <1>3, <2>2, <3>1 DEF HasVersion
    <3>3. Opened(x.epoch, c, x.bits[c], x.arrays[c])
      BY <3>2 DEF RowOK
    <3>4. \E i \in DOMAIN x.arrays[c] : x.arrays[c][i] = <<x.epoch, c * N + t>>
      BY <3>2, <3>3 DEF Opened
    <3> QED
      BY <3>1, <3>4, OwnedIs
  <2> QED
    BY <2>1, <2>2
<1>4. ASSUME NEW v \in Owned(x) PROVE v[1] <= x.epoch
  <2>1. v \in Versions
    BY OwnedVersions
  <2>2. v[1] \in Int
    BY <2>1, EpochsAssumption DEF Versions
  <2>3. CASE v = x.master \/ v \in x.global
    BY <1>0, <1>1, <2>2, <2>3 DEF RowOK
  <2>4. CASE ~(v = x.master \/ v \in x.global)
    <3>1. PICK c, i : c \in Cores /\ i \in DOMAIN x.arrays[c] /\ v = x.arrays[c][i]
      BY <2>4, OwnedIs
    <3>2. v[1] = x.epoch \/ v[1] < x.epoch
      BY <3>1, SlotEntry
    <3> QED
      BY <1>0, <2>2, <3>2
  <2> QED
    BY <2>3, <2>4
<1> QED
  BY <1>2, <1>3, <1>4

\* The latest of a set of versions
LEMMA LatestIs ==
    ASSUME NEW S, S \subseteq Versions, S # {}
    PROVE  Latest(S) \in S /\ \A u \in S : u[2] <= Latest(S)[2]
<1>1. PICK M \in Nat : M = N * N + 1
  BY SerialsAreNatural
<1>2. \A v \in S : v[2] \in Int /\ v[2] + 2 \in 0 .. M
  <2>1. \A v \in Versions : v[2] \in -2 .. N * N - 1
    BY DEF Versions
  <2>2. N * N \in Nat
    BY SerialsAreNatural
  <2> QED
    BY <1>1, <2>1, <2>2
<1>3. PICK T : T = {v[2] + 2 : v \in S}
  OBVIOUS
<1>4. T \subseteq 0 .. M /\ T # {}
  BY <1>2, <1>3
<1>5. Max(T) \in T /\ \A t \in T : t <= Max(T)
  BY <1>4, MaxIsLargest
<1>6. PICK v \in S : Max(T) = v[2] + 2
  BY <1>3, <1>5
<1>7. \A u \in S : u[2] <= v[2]
  <2>1. \A u \in S : u[2] + 2 \in T
    BY <1>3
  <2>2. \A u \in S : u[2] + 2 <= v[2] + 2
    BY <1>5, <1>6, <2>1
  <2> QED
    BY <1>2, <2>2
<1>8. \E l \in S : \A u \in S : u[2] <= l[2]
  BY <1>7
<1> QED
  BY <1>8 DEF Latest

\* What initialize_the_row finds: the row is locked, of an earlier epoch, and has
\* no version of this one.
LEMMA StaleRow ==
    ASSUME IInv, DInv, NEW w \in Workers, pc[w] = "initialize_the_row", phase = "init",
           NEW k, k = Key(w), row_epoch[k] < epoch
    PROVE  /\ k \in Keys /\ RowEpoch(k) = row_epoch[k] /\ RowEpoch(k) # epoch
           /\ Fillers(k) = {} /\ RegionOf(k) = row_region_[k]
           /\ Filed(k) = {} /\ Final(Row(k)) = db[k]
           /\ \A c \in Row(k).cores : Row(k).bits[c] # {}
<1>1. k \in Keys
  BY DEF IInv, ControlTypeOK, Key
<1>2. lock[k] = w
  BY <1>1 DEF IInv, LockOwner, LockedLabels
<1>3. ~Storing(k)
  BY <1>1, <1>2 DEF Storing, IInv, LockOwner, LockedLabels
<1>4. RowEpoch(k) = row_epoch[k] /\ RowEpoch(k) # epoch
  <2>1. RowEpoch(k) = row_epoch[k]
    BY <1>3 DEF RowEpoch, Storing
  <2>2. row_epoch[k] \in Nat /\ epoch \in Nat
    BY <1>1 DEF DInv, DataTypeOK, Progress, EpochsOK
  <2> QED
    BY <2>1, <2>2
<1>5. Fillers(k) = {} /\ RegionOf(k) = row_region_[k]
  BY NobodyFills DEF LockedLabels, Filling
<1>6. RowInv(k)
  BY <1>1 DEF DInv
<1>7. Filed(k) = {} /\ Final(Row(k)) = db[k]
  BY <1>4, <1>6 DEF RowInv, Contents, FinalOK
<1>8. \A c \in Row(k).cores : Row(k).bits[c] # {}
  BY <1>4, <1>6 DEF RowInv, NoEmptyArrays
<1> QED
  BY <1>1, <1>4, <1>5, <1>7, <1>8

\* What it makes of the row: empty containers of this epoch, and master_ the
\* final state.
LEMMA FoldedRow ==
    ASSUME NEW k \in Keys, RowInv(k), RowOK(Row(k)'), RowEpoch(k)' = epoch, epoch' = epoch,
           phase = "init", phase' = "init", txs' = txs, db' = db,
           Owned(Row(k)') \subseteq Owned(Row(k)),
           \A v \in Owned(Row(k)') : status'[k][v] = status[k][v],
           Row(k)'.global = {}, Row(k)'.cores = {}, Row(k)'.master = db[k],
           Filed(k) = {}, Waiting(k)' = Waiting(k)
    PROVE  RowInv(k)'
<1>1. Row(k)'.global = global_array_'[k] /\ Row(k)'.master = master_'[k]
  BY RowIsNext
<1>2. Filed(k)' = {}
  <2>1. Writers(k)' = Writers(k)
    BY SameWriters
  <2> QED
    BY <2>1 DEF Filed
<1>3. \A s : ~HasVersion(Row(k)', s)
  BY DEF HasVersion
<1>4. Contents(k)'
  BY <1>2, <1>3 DEF Contents
<1>5. NoEmptyArrays(k)'
  BY DEF NoEmptyArrays
<1>6. OnePlace(k)'
  BY <1>1 DEF OnePlace
<1>7. StatusesOK(k)'
  <2>1. \A v \in Owned(Row(k)) : /\ v[1] < epoch => status[k][v] = "stable"
                                 /\ v[1] = epoch => status[k][v] = "pending"
    BY DEF RowInv, StatusesOK, StatusOf
  <2>2. \A v \in Owned(Row(k)') : /\ v[1] < epoch => status'[k][v] = "stable"
                                  /\ v[1] = epoch => status'[k][v] = "pending"
    BY <2>1
  <2> QED
    BY <2>2 DEF StatusesOK, StatusOf
<1>8. FinalOK(k)'
  BY <1>1 DEF FinalOK
<1> QED
  BY <1>4, <1>5, <1>6, <1>7, <1>8 DEF RowInv

\* The end of the versions of a row that is in the region.
LEMMA LastOfRegion ==
    ASSUME NEW x, RowOK(x), x.cores # {}, \A c \in x.cores : x.bits[c] # {},
           NEW c, c = Max(x.cores)
    PROVE  /\ c \in x.cores /\ c \in Cores /\ Len(x.arrays[c]) \in DOMAIN x.arrays[c]
           /\ x.arrays[c] \in Seq(Versions)
           /\ x.arrays[c][Len(x.arrays[c])] = <<x.epoch, c * N + Max(x.bits[c])>>
           /\ Last(x.arrays[c]) = x.arrays[c][Len(x.arrays[c])]
<1>1. x.cores \subseteq Cores /\ x.bits \in [Cores -> SUBSET Cores]
        /\ x.arrays \in [Cores -> Seq(Versions)]
  BY DEF RowOK, RowTyped
<1>2. c \in x.cores /\ c \in Cores
  BY <1>1, MaxOfCores
<1>3. PICK B \in SUBSET Cores : B = x.bits[c]
  BY <1>1, <1>2
<1>4. PICK a \in Seq(Versions) : a = x.arrays[c]
  BY <1>1, <1>2
<1>5. B # {} /\ Opened(x.epoch, c, B, a)
  BY <1>2, <1>3, <1>4 DEF RowOK
<1>6. PICK e : e = x.epoch
  OBVIOUS
<1>7. Len(a) \in DOMAIN a /\ a[Len(a)] = <<e, c * N + Max(B)>> /\ Last(a) = <<e, c * N + Max(B)>>
  BY <1>2, <1>5, <1>6, OpenedLast
<1> QED
  BY <1>2, <1>3, <1>4, <1>6, <1>7

\* The deletion of versions of a row
LEMMA DeleteIs ==
    ASSUME DataTypeOK, NEW k \in Keys, NEW S, Delete(k, S)
    PROVE  /\ status' \in [Keys -> [Versions -> Statuses]]
           /\ status'[k] = [v \in Versions |-> IF v \in S THEN "none" ELSE status[k][v]]
           /\ \A j \in Keys : j # k => status'[j] = status[j]
<1>1. status \in [Keys -> [Versions -> Statuses]] /\ "none" \in Statuses
  BY DEF DataTypeOK, Statuses
<1>2. PICK f : f = [v \in Versions |-> IF v \in S THEN "none" ELSE status[k][v]]
  OBVIOUS
<1>3. f \in [Versions -> Statuses]
  BY <1>1, <1>2
<1>4. status' = [status EXCEPT ![k] = f]
  BY <1>1, <1>2 DEF Delete
<1> QED
  BY <1>1, <1>2, <1>3, <1>4

\* A row is initialized from its global array.
LEMMA InitializeFromGlobal ==
    ASSUME IInv, IInv', DInv, Progress', NEW w \in Workers, initialize_the_row(w),
           row_epoch[Key(w)] < epoch, global_array_[Key(w)] # {}
    PROVE  DataTypeOK' /\ FreshRegions' /\ \A k \in Keys : RowInv(k)'
<1>0. PICK k : k = Key(w)
  OBVIOUS
<1>1. phase = "init" /\ pc[w] = "initialize_the_row"
  BY DEF initialize_the_row
<1>2. /\ k \in Keys /\ RowEpoch(k) = row_epoch[k] /\ RowEpoch(k) # epoch
      /\ Fillers(k) = {} /\ RegionOf(k) = row_region_[k]
      /\ Filed(k) = {} /\ Final(Row(k)) = db[k]
  BY <1>0, <1>1, StaleRow
<1>3. RowInv(k) /\ RowOK(Row(k)) /\ DataTypeOK
  BY <1>2 DEF DInv, RowInv
<1>4. RegionOf(k) = NoRegion
  BY <1>0, <1>2, <1>3 DEF RowInv, OnePlace
<1>5. PICK v : v = Latest(global_array_[k])
  OBVIOUS
<1>6. v \in global_array_[k] /\ v \in Versions
  <2>1. global_array_[k] \subseteq Versions
    BY <1>2, <1>3 DEF DataTypeOK
  <2> QED
    BY <1>0, <1>5, <2>1, LatestIs
<1>7. row_epoch[k] \in Nat /\ epoch \in Nat /\ ~(row_epoch[k] >= epoch)
  <2>1. row_epoch[k] \in Nat /\ epoch \in Nat
    BY <1>2 DEF DInv, DataTypeOK, Progress, EpochsOK
  <2> QED
    BY <1>0, <2>1
<1>8. /\ Delete(k, (global_array_[k] \ {v}) \cup {master_[k]})
      /\ master_' = [master_ EXCEPT ![k] = v]
      /\ global_array_' = [global_array_ EXCEPT ![k] = {}]
      /\ pc' = [pc EXCEPT ![w] = "store_epoch"]
      /\ UNCHANGED <<core_bitmap_, slots_>>
      /\ UNCHANGED <<epoch, phase, txs, db, todo, op, region, row_region_, row_epoch, used_,
                     transaction_bitmap_>>
  BY <1>0, <1>5, <1>7 DEF initialize_the_row, Goto, batchVars, opVars
<1>9. /\ status' \in [Keys -> [Versions -> Statuses]]
      /\ status'[k] = [u \in Versions |-> IF u \in (global_array_[k] \ {v}) \cup {master_[k]}
                                           THEN "none" ELSE status[k][u]]
      /\ \A j \in Keys : j # k => status'[j] = status[j]
  BY <1>2, <1>3, <1>8, DeleteIs
<1>10. DataTypeOK'
  BY <1>2, <1>3, <1>6, <1>8, <1>9 DEF DataTypeOK
<1>11. FreshRegions'
  BY <1>8 DEF DInv, FreshRegions
<1>12. /\ pc \in [Workers -> Labels] /\ master_ \in [Keys -> Versions]
       /\ global_array_ \in [Keys -> SUBSET Versions]
  BY <1>3 DEF IInv, ControlTypeOK, DataTypeOK
<1>13. pc'[w] = "store_epoch" /\ \A u \in Workers : u # w => pc'[u] = pc[u]
  BY <1>8, <1>12
<1>14. Frame(w)
  BY <1>0, <1>8, <1>9, <1>12, <1>13 DEF Frame
<1>15. ASSUME NEW j \in Keys, j # k PROVE RowInv(j)'
  BY <1>0, <1>8, <1>14, <1>15, OtherRowsKept
<1>16. RegionOf(k)' = RegionOf(k)
  <2>1. pc[w] \notin Filling /\ pc'[w] \notin Filling
    BY <1>1, <1>13 DEF Filling
  <2> QED
    BY <1>2, <1>8, <1>13, <2>1, OwnRegion
<1>17. RowEpoch(k)' = epoch
  BY <1>0, <1>8, <1>13 DEF RowEpoch, Key
<1>18. PICK x : x = Row(k)
  OBVIOUS
<1>19. PICK y : y = Row(k)'
  OBVIOUS
<1>20. /\ x.epoch = row_epoch[k] /\ x.master = master_[k] /\ x.global = global_array_[k]
       /\ x.status = status[k] /\ x.cores = {} /\ RowOK(x)
  BY <1>2, <1>3, <1>4, <1>18, RowIs
<1>21. /\ y.epoch = epoch /\ y.master = v /\ y.global = {} /\ y.cores = {}
       /\ y.bits = x.bits /\ y.arrays = x.arrays /\ y.status = status'[k]
  BY <1>2, <1>4, <1>8, <1>12, <1>16, <1>17, <1>18, <1>19, RowIsNext
<1>22. RowTyped(y)
  BY <1>2, <1>10, <1>19, RowsTypedNext
<1>23. GlobalFolded(x, y, v)
  BY <1>0, <1>6, <1>9, <1>20, <1>21 DEF GlobalFolded
<1>24. /\ RowOK(y) /\ Owned(y) \subseteq Owned(x)
       /\ \A u \in Owned(y) : y.status[u] = x.status[u]
  BY <1>20, <1>22, <1>23, FoldGlobal
<1>25. y.master = db[k]
  <2>1. Final(x) = v
    BY <1>0, <1>5, <1>20 DEF Final
  <2> QED
    BY <1>2, <1>18, <1>21, <2>1
<1>26. Waiting(k)' = Waiting(k)
  <2>1. /\ pc'[w] \in Unfiled \cup {"write"} /\ pc[w] \in Unfiled \cup {"write"}
        /\ pc'[w] # "write_status" /\ pc[w] # "write_status"
    BY <1>1, <1>13 DEF Unfiled
  <2> QED
    BY <1>2, <1>8, <1>13, <2>1, SameWaiting
<1>27. RowInv(k)'
  BY <1>1, <1>2, <1>3, <1>8, <1>17, <1>18, <1>19, <1>20, <1>21, <1>24, <1>25, <1>26, FoldedRow
<1> QED
  BY <1>10, <1>11, <1>15, <1>27

\* A row is initialized from its region.
LEMMA InitializeFromRegion ==
    ASSUME IInv, IInv', DInv, Progress', NEW w \in Workers, initialize_the_row(w),
           row_epoch[Key(w)] < epoch, global_array_[Key(w)] = {}
    PROVE  DataTypeOK' /\ FreshRegions' /\ \A k \in Keys : RowInv(k)'
<1>0. PICK k : k = Key(w)
  OBVIOUS
<1>1. phase = "init" /\ pc[w] = "initialize_the_row"
  BY DEF initialize_the_row
<1>2. /\ k \in Keys /\ RowEpoch(k) = row_epoch[k] /\ RowEpoch(k) # epoch
      /\ Fillers(k) = {} /\ RegionOf(k) = row_region_[k]
      /\ Filed(k) = {} /\ Final(Row(k)) = db[k]
      /\ \A c \in Row(k).cores : Row(k).bits[c] # {}
  BY <1>0, <1>1, StaleRow
<1>3. RowInv(k) /\ RowOK(Row(k)) /\ DataTypeOK
  BY <1>2 DEF DInv, RowInv
<1>4. row_epoch[k] \in Nat /\ epoch \in Nat /\ ~(row_epoch[k] >= epoch)
  <2>1. row_epoch[k] \in Nat /\ epoch \in Nat
    BY <1>2 DEF DInv, DataTypeOK, Progress, EpochsOK
  <2> QED
    BY <1>0, <2>1
<1>5. PICK r : r = RegionOf(k)
  OBVIOUS
<1>6. PICK c : c = Max(core_bitmap_[r])
  OBVIOUS
<1>7. /\ r # NoRegion /\ core_bitmap_[r] # {}
      /\ master_' = [master_ EXCEPT ![k] = slots_[r][c][Len(slots_[r][c])]]
      /\ slots_' = [slots_ EXCEPT ![r][c] = SubSeq(@, 1, Len(slots_[r][c]) - 1)]
      /\ Delete(k, {master_[k]})
      /\ core_bitmap_' = [core_bitmap_ EXCEPT ![r] = {}]
      /\ pc' = [pc EXCEPT ![w] = "store_epoch"]
      /\ UNCHANGED <<epoch, phase, txs, db, todo, op, region, row_region_, row_epoch, used_,
                     transaction_bitmap_, global_array_>>
  BY <1>0, <1>2, <1>4, <1>5, <1>6 DEF initialize_the_row, has_dirty_region, Goto,
     batchVars, opVars
<1>8. r \in Regions /\ r <= used_
  BY <1>2, <1>5, <1>7, RegionsOwn DEF RegionIsOwn
<1>9. PICK x : x = Row(k)
  OBVIOUS
<1>10. PICK y : y = Row(k)'
  OBVIOUS
<1>11. /\ x.epoch = row_epoch[k] /\ x.master = master_[k] /\ x.global = {}
       /\ x.status = status[k] /\ x.cores = core_bitmap_[r] /\ RowOK(x)
       /\ x.bits = transaction_bitmap_[r] /\ x.arrays = slots_[r]
  BY <1>0, <1>2, <1>3, <1>5, <1>7, <1>9, RowIs
<1>12. /\ c \in x.cores /\ c \in Cores /\ Len(x.arrays[c]) \in DOMAIN x.arrays[c]
       /\ x.arrays[c] \in Seq(Versions)
       /\ Last(x.arrays[c]) = x.arrays[c][Len(x.arrays[c])]
  BY <1>2, <1>6, <1>7, <1>9, <1>11, LastOfRegion
<1>13. PICK a \in Seq(Versions) : a = slots_[r][c]
  BY <1>11, <1>12
<1>14. PICK b : b = SubSeq(a, 1, Len(a) - 1)
  OBVIOUS
<1>15. b \in Seq(Versions) /\ a[Len(a)] \in Versions
  BY <1>11, <1>12, <1>13, <1>14, PopLatest
<1>16. /\ status' \in [Keys -> [Versions -> Statuses]]
       /\ status'[k] = [u \in Versions |-> IF u \in {master_[k]} THEN "none" ELSE status[k][u]]
       /\ \A j \in Keys : j # k => status'[j] = status[j]
  BY <1>2, <1>3, <1>7, DeleteIs
<1>17. /\ pc \in [Workers -> Labels] /\ master_ \in [Keys -> Versions]
       /\ slots_ \in [Regions -> [Cores -> Seq(Versions)]]
       /\ core_bitmap_ \in [Regions -> SUBSET Cores]
  BY <1>3 DEF IInv, ControlTypeOK, DataTypeOK
<1>18. /\ slots_' \in [Regions -> [Cores -> Seq(Versions)]]
       /\ slots_'[r] = [slots_[r] EXCEPT ![c] = b]
       /\ \A q \in Regions : q # r => slots_'[q] = slots_[q]
       /\ core_bitmap_' \in [Regions -> SUBSET Cores] /\ core_bitmap_'[r] = {}
       /\ \A q \in Regions : q # r => core_bitmap_'[q] = core_bitmap_[q]
  BY <1>7, <1>8, <1>12, <1>13, <1>14, <1>15, <1>17
<1>19. master_' \in [Keys -> Versions]
  BY <1>7, <1>13, <1>15, <1>17
<1>20. DataTypeOK'
  BY <1>3, <1>7, <1>16, <1>18, <1>19 DEF DataTypeOK
<1>21. FreshRegions'
  <2>1. \A q \in Regions : q > used_ => q # r
    BY <1>8, EpochsAssumption DEF Regions, IInv, ControlTypeOK
  <2> QED
    BY <1>7, <1>18, <2>1 DEF DInv, FreshRegions
<1>22. pc'[w] = "store_epoch" /\ \A u \in Workers : u # w => pc'[u] = pc[u]
  BY <1>7, <1>17
<1>23. Frame(w)
  BY <1>0, <1>5, <1>7, <1>16, <1>17, <1>18, <1>22 DEF Frame
<1>24. ASSUME NEW j \in Keys, j # k PROVE RowInv(j)'
  BY <1>0, <1>5, <1>7, <1>23, <1>24, OtherRowsKept
<1>25. RegionOf(k)' = RegionOf(k)
  <2>1. pc[w] \notin Filling /\ pc'[w] \notin Filling
    BY <1>1, <1>22 DEF Filling
  <2> QED
    BY <1>2, <1>7, <1>22, <2>1, OwnRegion
<1>26. RowEpoch(k)' = epoch
  BY <1>0, <1>7, <1>22 DEF RowEpoch, Key
<1>27. /\ y.epoch = epoch /\ y.master = a[Len(a)] /\ y.global = {} /\ y.cores = {}
       /\ y.bits = x.bits /\ y.arrays = [x.arrays EXCEPT ![c] = b] /\ y.status = status'[k]
  <2>1. /\ y.epoch = RowEpoch(k)' /\ y.master = master_'[k] /\ y.global = global_array_'[k]
        /\ y.status = status'[k]
    BY <1>2, <1>10, RowIsNext
  <2>2. RegionOf(k)' = r /\ RegionOf(k)' # NoRegion
    BY <1>5, <1>7, <1>25
  <2>3. y.cores = core_bitmap_'[r] /\ y.bits = transaction_bitmap_'[r] /\ y.arrays = slots_'[r]
    BY <1>2, <1>10, <2>2, RowIsNext
  <2>4. master_'[k] = a[Len(a)] /\ global_array_'[k] = {}
    BY <1>0, <1>2, <1>7, <1>13, <1>17
  <2> QED
    BY <1>7, <1>11, <1>18, <1>26, <2>1, <2>3, <2>4
<1>28. RowTyped(y)
  BY <1>2, <1>10, <1>20, RowsTypedNext
<1>29. RegionFolded(x, y, c)
  BY <1>0, <1>11, <1>12, <1>13, <1>14, <1>16, <1>27 DEF RegionFolded
<1>30. /\ RowOK(y) /\ Owned(y) \subseteq Owned(x)
       /\ \A u \in Owned(y) : y.status[u] = x.status[u]
  BY <1>11, <1>28, <1>29, FoldRegion
<1>31. y.master = db[k]
  <2>1. Final(x) = Last(x.arrays[Max(x.cores)])
    BY <1>7, <1>11 DEF Final
  <2> QED
    BY <1>2, <1>6, <1>9, <1>11, <1>12, <1>13, <1>27, <2>1
<1>32. Waiting(k)' = Waiting(k)
  <2>1. /\ pc'[w] \in Unfiled \cup {"write"} /\ pc[w] \in Unfiled \cup {"write"}
        /\ pc'[w] # "write_status" /\ pc[w] # "write_status"
    BY <1>1, <1>22 DEF Unfiled
  <2> QED
    BY <1>2, <1>7, <1>22, <2>1, SameWaiting
<1>33. RowInv(k)'
  BY <1>1, <1>2, <1>3, <1>7, <1>26, <1>9, <1>10, <1>11, <1>27, <1>30, <1>31, <1>32, FoldedRow
<1> QED
  BY <1>20, <1>21, <1>24, <1>33

\* A worker with an update to file: its version does not exist yet.
LEMMA NewVersion ==
    ASSUME IInv, DInv, NEW w \in Workers, phase = "init", pc[w] \in Unfiled \cap Guarded,
           NEW k, k = Key(w), NEW s, s = op[w].serial
    PROVE  /\ k \in Keys /\ s \in Serials /\ s \in Writers(k) /\ <<epoch, s>> \in Versions
           /\ RowEpoch(k) = epoch /\ epoch # 0 /\ row_epoch[k] = epoch
           /\ ~HasVersion(Row(k), s) /\ <<epoch, s>> \notin Owned(Row(k))
           /\ op[w].ope = "Update"
<1>1. k \in Keys /\ s \in Serials
  BY DEF IInv, ControlTypeOK, Key
<1>2. pc[w] # "begin" /\ pc[w] \in Unmade
  BY DEF Guarded, Unmade
<1>3. Progress /\ Running /\ DataTypeOK /\ RowInv(k)
  BY <1>1 DEF DInv, Running
<1>4. op[w].ope = "Update" /\ s \in Writers(k)
  BY <1>2, <1>3, OperationOf
<1>5. row_epoch[k] = epoch /\ epoch # 0
  BY <1>3 DEF Progress, EpochsOK
<1>6. RowEpoch(k) = epoch
  BY <1>1, <1>3, <1>5, RowEpochIs
<1>7. s \in Waiting(k)
  BY <1>1, <1>2, <1>4 DEF Waiting, IsUpdate, Key, Unmade
<1>8. ~HasVersion(Row(k), s)
  <2>1. s \notin Filed(k)
    BY <1>7 DEF Filed
  <2> QED
    BY <1>1, <1>3, <1>6, <2>1 DEF RowInv, Contents
<1>9. <<epoch, s>> \notin Owned(Row(k))
  <2>1. PICK x : x = Row(k)
    OBVIOUS
  <2>2. RowOK(x) /\ x.epoch = epoch /\ ~HasVersion(x, s)
    BY <1>1, <1>3, <1>6, <1>8, <2>1, RowIs DEF RowInv
  <2>3. <<epoch, s>> \notin Owned(x)
    BY <1>1, <1>5, <2>2, OwnedOfEpoch
  <2> QED
    BY <2>1, <2>3
<1>10. <<epoch, s>> \in Versions
  BY <1>1, <1>3, VersionOfEpoch
<1> QED
  BY <1>1, <1>4, <1>5, <1>6, <1>8, <1>9, <1>10

\* The version is filed.
LEMMA FiledRow ==
    ASSUME NEW k \in Keys, RowInv(k), NEW s, s \in Writers(k), RowOK(Row(k)'),
           OwnedGrows(Row(k), Row(k)', <<epoch, s>>),
           <<epoch, s>> \notin Owned(Row(k)),
           RowEpoch(k) = epoch, RowEpoch(k)' = epoch, epoch' = epoch,
           phase = "init", phase' = "init", txs' = txs, db' = db, master_'[k] = master_[k],
           s \in Waiting(k), s \notin Waiting(k)',
           \A z : z # s => (z \in Waiting(k)' <=> z \in Waiting(k)),
           \A z \in Serials : HasVersion(Row(k)', z) <=> HasVersion(Row(k), z) \/ z = s,
           status'[k][<<epoch, s>>] = "pending",
           \A u \in Owned(Row(k)) : status'[k][u] = status[k][u],
           NoEmptyArrays(k)', OnePlace(k)'
    PROVE  RowInv(k)'
<1>1. Writers(k)' = Writers(k)
  BY SameWriters
<1>2. \A z : z \in Filed(k)' <=> z \in Filed(k) \/ z = s
  BY <1>1 DEF Filed
<1>3. Contents(k)'
  <2>1. \A z \in Serials : z \in Filed(k) <=> HasVersion(Row(k), z)
    BY DEF RowInv, Contents
  <2> QED
    BY <1>2, <2>1 DEF Contents
<1>4. StatusesOK(k)'
  <2>1. \A v \in Owned(Row(k)) : /\ v[1] < epoch => status[k][v] = "stable"
                                 /\ v[1] = epoch => status[k][v] = "pending"
    BY DEF RowInv, StatusesOK, StatusOf
  <2>2. ASSUME NEW v \in Owned(Row(k)')
        PROVE  /\ v[1] < epoch => status'[k][v] = "stable"
               /\ v[1] = epoch => status'[k][v] = "pending"
    <3>1. CASE v \in Owned(Row(k))
      BY <2>1, <3>1
    <3>2. CASE v = <<epoch, s>>
      <4>1. v[1] = epoch /\ ~(epoch < epoch)
        <5>1. epoch \in Nat
          BY DEF RowInv, RowOK, RowTyped, Row
        <5> QED
          BY <3>2, <5>1
      <4> QED
        BY <3>2, <4>1
    <3> QED
      BY <3>1, <3>2 DEF OwnedGrows
  <2> QED
    BY <2>2 DEF StatusesOK, StatusOf
<1>5. FinalOK(k)'
  BY DEF RowInv, FinalOK
<1> QED
  BY <1>3, <1>4, <1>5 DEF RowInv

\* A step that files nothing leaves the containers' contents alone.
LEMMA SameContents ==
    ASSUME NEW k \in Keys, RowInv(k), RowOK(Row(k)'),
           Owned(Row(k)') \subseteq Owned(Row(k)),
           RowEpoch(k) = epoch, RowEpoch(k)' = epoch, epoch' = epoch,
           phase = "init", phase' = "init", txs' = txs, db' = db, master_'[k] = master_[k],
           Waiting(k)' = Waiting(k),
           \A z \in Serials : HasVersion(Row(k)', z) <=> HasVersion(Row(k), z),
           \A u \in Owned(Row(k)') : status'[k][u] = status[k][u],
           NoEmptyArrays(k)', OnePlace(k)'
    PROVE  RowInv(k)'
<1>1. Writers(k)' = Writers(k)
  BY SameWriters
<1>2. Filed(k)' = Filed(k)
  BY <1>1 DEF Filed
<1>3. Contents(k)'
  <2>1. \A z \in Serials : z \in Filed(k) <=> HasVersion(Row(k), z)
    BY DEF RowInv, Contents
  <2> QED
    BY <1>2, <2>1 DEF Contents
<1>4. StatusesOK(k)'
  <2>1. \A v \in Owned(Row(k)) : /\ v[1] < epoch => status[k][v] = "stable"
                                 /\ v[1] = epoch => status[k][v] = "pending"
    BY DEF RowInv, StatusesOK, StatusOf
  <2>2. \A v \in Owned(Row(k)') : /\ v[1] < epoch => status'[k][v] = "stable"
                                  /\ v[1] = epoch => status'[k][v] = "pending"
    BY <2>1
  <2> QED
    BY <2>2 DEF StatusesOK, StatusOf
<1>5. FinalOK(k)'
  BY DEF RowInv, FinalOK
<1> QED
  BY <1>3, <1>4, <1>5 DEF RowInv

\* A status is stored.
Stored(w, st) == status' = [status EXCEPT ![Key(w)][<<epoch, op[w].serial>>] = st]

StatusOfOne(k, v, st) ==
    /\ status'[k][v] = st
    /\ \A u \in Versions : u # v => status'[k][u] = status[k][u]
    /\ \A j \in Keys : j # k => status'[j] = status[j]

\* The store to one status: the others, and other rows, are as before.
LEMMA StoredIs ==
    ASSUME IInv, DataTypeOK, NEW w \in Workers, NEW k \in Keys, k = Key(w),
           NEW v \in Versions, v = <<epoch, op[w].serial>>, NEW st \in Statuses, Stored(w, st)
    PROVE  status' \in [Keys -> [Versions -> Statuses]] /\ StatusOfOne(k, v, st)
<1>1. status \in [Keys -> [Versions -> Statuses]]
  BY DEF DataTypeOK
<1>2. status' = [status EXCEPT ![k] = [status[k] EXCEPT ![v] = st]]
  BY <1>1 DEF Stored
<1>3. [status[k] EXCEPT ![v] = st] \in [Versions -> Statuses]
  BY <1>1
<1> QED
  BY <1>1, <1>2, <1>3 DEF StatusOfOne

\* append_to_unconted_row
LEMMA UncontendedAppendKeeps ==
    ASSUME IInv, IInv', DInv, Progress', NEW w \in Workers, append_to_unconted_row(w)
    PROVE  DataTypeOK' /\ FreshRegions' /\ \A k \in Keys : RowInv(k)'
<1>0. PICK k : k = Key(w)
  OBVIOUS
<1>s. PICK s : s = op[w].serial
  OBVIOUS
<1>1. /\ phase = "init" /\ pc[w] = "locked" /\ row_region_[k] = NoRegion
      /\ status' = [status EXCEPT ![Key(w)][<<epoch, op[w].serial>>] = "pending"]
      /\ global_array_' = [global_array_ EXCEPT ![k] = @ \cup {<<epoch, s>>}]
      /\ pc' = [pc EXCEPT ![w] = "unlock"]
      /\ UNCHANGED <<epoch, phase, txs, db, todo, op, region, row_region_, row_epoch, master_,
                     used_, core_bitmap_, transaction_bitmap_, slots_>>
  BY <1>0, <1>s DEF append_to_unconted_row, Create, Goto, batchVars, opVars, regionVars
<1>2. /\ k \in Keys /\ s \in Serials /\ s \in Writers(k) /\ <<epoch, s>> \in Versions
      /\ RowEpoch(k) = epoch /\ epoch # 0 /\ row_epoch[k] = epoch
      /\ ~HasVersion(Row(k), s) /\ <<epoch, s>> \notin Owned(Row(k))
      /\ op[w].ope = "Update"
  <2>1. pc[w] \in Unfiled \cap Guarded
    BY <1>1 DEF Unfiled, Guarded
  <2> QED
    BY <1>0, <1>s, <1>1, <2>1, NewVersion
<1>v. PICK v \in Versions : v = <<epoch, s>>
  BY <1>2
<1>3. RowInv(k) /\ RowOK(Row(k)) /\ DataTypeOK /\ Progress
  BY <1>2 DEF DInv, RowInv
<1>4. Fillers(k) = {} /\ RegionOf(k) = NoRegion
  BY <1>0, <1>1, NobodyFills DEF LockedLabels, Filling
<1>5. /\ pc \in [Workers -> Labels] /\ global_array_ \in [Keys -> SUBSET Versions]
  BY <1>3 DEF IInv, ControlTypeOK, DataTypeOK
<1>6. status' \in [Keys -> [Versions -> Statuses]] /\ StatusOfOne(k, v, "pending")
  <2>1. "pending" \in Statuses /\ Stored(w, "pending")
    BY <1>1 DEF Statuses, Stored
  <2>2. v = <<epoch, op[w].serial>>
    BY <1>s, <1>v
  <2> QED
    BY <1>0, <1>2, <1>3, <2>1, <2>2, StoredIs
<1>7. DataTypeOK'
  BY <1>1, <1>2, <1>3, <1>6 DEF DataTypeOK
<1>8. FreshRegions'
  BY <1>1 DEF DInv, FreshRegions
<1>9. pc'[w] = "unlock" /\ \A u \in Workers : u # w => pc'[u] = pc[u]
  BY <1>1, <1>5
<1>10. Frame(w)
  BY <1>0, <1>1, <1>5, <1>6, <1>9 DEF Frame, StatusOfOne
<1>11. ASSUME NEW j \in Keys, j # k PROVE RowInv(j)'
  BY <1>0, <1>1, <1>10, <1>11, OtherRowsKept
<1>12. RegionOf(k)' = RegionOf(k) /\ Fillers(k)' = {}
  <2>1. pc[w] \notin Filling /\ pc'[w] \notin Filling
    BY <1>1, <1>9 DEF Filling
  <2> QED
    BY <1>1, <1>2, <1>4, <1>9, <2>1, OwnRegion
<1>13. RowEpoch(k)' = epoch
  BY <1>1, <1>2 DEF RowEpoch
<1>14. PICK x : x = Row(k)
  OBVIOUS
<1>15. PICK y : y = Row(k)'
  OBVIOUS
<1>16. /\ x.epoch = epoch /\ x.master = master_[k] /\ x.global = global_array_[k]
       /\ x.status = status[k] /\ x.cores = {} /\ RowOK(x) /\ v \notin Owned(x)
  BY <1>v, <1>2, <1>3, <1>4, <1>14, RowIs
<1>17. /\ y.epoch = epoch /\ y.master = x.master /\ y.global = x.global \cup {v}
       /\ y.cores = x.cores /\ y.bits = x.bits /\ y.arrays = x.arrays
       /\ y.status = status'[k]
  <2>1. /\ y.epoch = RowEpoch(k)' /\ y.master = master_'[k] /\ y.global = global_array_'[k]
        /\ y.status = status'[k]
    BY <1>2, <1>15, RowIsNext
  <2>2. y.cores = {} /\ y.bits = x.bits /\ y.arrays = x.arrays
    BY <1>2, <1>4, <1>12, <1>14, <1>15, RowIsNext
  <2> QED
    BY <1>v, <1>1, <1>2, <1>5, <1>6, <1>13, <1>16, <2>1, <2>2
<1>18. RowOK(y) /\ OwnedGrows(x, y, v)
  <2>1. RowTyped(y)
    BY <1>2, <1>7, <1>15, RowsTypedNext
  <2>2. GlobalAppended(x, y, s, v)
    BY <1>v, <1>6, <1>16, <1>17 DEF GlobalAppended, StatusOfOne
  <2> QED
    BY <1>2, <1>16, <2>1, <2>2, GlobalAppend
<1>19. \A z \in Serials : HasVersion(y, z) <=> HasVersion(x, z) \/ z = s
  BY <1>v, <1>16, <1>17 DEF HasVersion
<1>20. /\ s \in Waiting(k) /\ s \notin Waiting(k)'
       /\ \A z : z # s => (z \in Waiting(k)' <=> z \in Waiting(k))
  <2>1. pc[w] \in Unmade /\ pc'[w] \notin Unmade /\ pc[w] # "begin" /\ Running
    BY <1>1, <1>9 DEF Unmade, Unfiled, Running
  <2> QED
    BY <1>0, <1>s, <1>1, <1>2, <1>3, <1>9, <2>1, UpdaterMoves
<1>21. \A u \in Owned(x) : status'[k][u] = status[k][u]
  BY <1>6, <1>16, OwnedVersions DEF StatusOfOne
<1>22. NoEmptyArrays(k)'
  BY <1>15, <1>16, <1>17 DEF NoEmptyArrays
<1>23. OnePlace(k)'
  BY <1>1, <1>12 DEF OnePlace, NoRegion
<1>24. /\ RowOK(Row(k)') /\ OwnedGrows(Row(k), Row(k)', <<epoch, s>>)
       /\ \A z \in Serials : HasVersion(Row(k)', z) <=> HasVersion(Row(k), z) \/ z = s
       /\ status'[k][<<epoch, s>>] = "pending"
       /\ \A u \in Owned(Row(k)) : status'[k][u] = status[k][u]
       /\ <<epoch, s>> \notin Owned(Row(k))
  BY <1>v, <1>2, <1>6, <1>14, <1>15, <1>18, <1>19, <1>21 DEF StatusOfOne
<1>25. /\ epoch' = epoch /\ phase = "init" /\ phase' = "init" /\ txs' = txs /\ db' = db
       /\ master_'[k] = master_[k]
  BY <1>1
<1>26. RowInv(k)'
  BY <1>2, <1>3, <1>13, <1>20, <1>22, <1>23, <1>24, <1>25, FiledRow
<1> QED
  BY <1>7, <1>8, <1>11, <1>26

\* The region of a row with one of its arrays opened
RegionOpened(r, c) ==
    /\ slots_'[r] = [slots_[r] EXCEPT ![c] = <<>>]
    /\ transaction_bitmap_'[r] = [transaction_bitmap_[r] EXCEPT ![c] = {}]
    /\ core_bitmap_'[r] = core_bitmap_[r] \cup {c}

\* ... or appended to
RegionAppended(r, c, t, v) ==
    /\ slots_'[r] = [slots_[r] EXCEPT ![c] = Append(@, v)]
    /\ transaction_bitmap_'[r] = [transaction_bitmap_[r] EXCEPT ![c] = @ \cup {t}]
    /\ core_bitmap_'[r] = core_bitmap_[r]

RegionsTyped ==
    /\ core_bitmap_ \in [Regions -> SUBSET Cores]
    /\ transaction_bitmap_ \in [Regions -> [Cores -> SUBSET Cores]]
    /\ slots_ \in [Regions -> [Cores -> Seq(Versions)]]

OtherRegionsKept(r) ==
    \A q \in Regions : q # r => /\ slots_'[q] = slots_[q] /\ core_bitmap_'[q] = core_bitmap_[q]
                                /\ transaction_bitmap_'[q] = transaction_bitmap_[q]

\* The two parts of RowRegion::append
LEMMA OpenArrayIs ==
    ASSUME RegionsTyped, NEW k, NEW r \in Regions, NEW c \in Cores, OpenArray(k, r, c)
    PROVE  RegionOpened(r, c) /\ RegionsTyped' /\ OtherRegionsKept(r)
<1>1. slots_' = [slots_ EXCEPT ![r] = [slots_[r] EXCEPT ![c] = <<>>]]
  BY DEF OpenArray, RegionsTyped
<1>2. transaction_bitmap_' =
        [transaction_bitmap_ EXCEPT ![r] = [transaction_bitmap_[r] EXCEPT ![c] = {}]]
  BY DEF OpenArray, RegionsTyped
<1>3. core_bitmap_' = [core_bitmap_ EXCEPT ![r] = core_bitmap_[r] \cup {c}]
  BY DEF OpenArray, RegionsTyped
<1>4. /\ [slots_[r] EXCEPT ![c] = <<>>] \in [Cores -> Seq(Versions)]
      /\ [transaction_bitmap_[r] EXCEPT ![c] = {}] \in [Cores -> SUBSET Cores]
      /\ core_bitmap_[r] \cup {c} \in SUBSET Cores
  BY DEF RegionsTyped
<1> QED
  BY <1>1, <1>2, <1>3, <1>4 DEF RegionOpened, RegionsTyped, OtherRegionsKept

\* PerCoreVersionArray::append changes the array and the bitmap of one core.
LEMMA AppendToArrayIs ==
    ASSUME RegionsTyped, NEW r \in Regions, NEW c \in Cores, NEW t \in Cores,
           NEW v \in Versions, AppendToArray(r, c, t, v), UNCHANGED core_bitmap_
    PROVE  RegionAppended(r, c, t, v) /\ RegionsTyped' /\ OtherRegionsKept(r)
<1>0. PICK a \in Seq(Versions) : a = slots_[r][c]
  BY DEF RegionsTyped
<1>b. Append(a, v) \in Seq(Versions)
  OBVIOUS
<1>1. slots_' = [slots_ EXCEPT ![r] = [slots_[r] EXCEPT ![c] = Append(a, v)]]
  BY <1>0 DEF AppendToArray, RegionsTyped
<1>2. transaction_bitmap_' =
        [transaction_bitmap_ EXCEPT ![r] = [transaction_bitmap_[r] EXCEPT ![c] = @ \cup {t}]]
  BY DEF AppendToArray, RegionsTyped
<1>4. /\ [slots_[r] EXCEPT ![c] = Append(a, v)] \in [Cores -> Seq(Versions)]
      /\ [transaction_bitmap_[r] EXCEPT ![c] = @ \cup {t}] \in [Cores -> SUBSET Cores]
  BY <1>b DEF RegionsTyped
<1> QED
  BY <1>0, <1>1, <1>2, <1>4 DEF RegionAppended, RegionsTyped, OtherRegionsKept

\* The array of a core is opened, for the version that comes next.
LEMMA OpenArrayKeeps ==
    ASSUME IInv, IInv', DInv, Progress', NEW w \in Workers, phase = "init",
           NEW k \in Keys, k = Key(w), NEW r, r = RegionOf(k), r # NoRegion, NEW c \in Cores,
           c \notin core_bitmap_[r], OpenArray(k, r, c), row_epoch[k] = epoch,
           UNCHANGED <<epoch, phase, txs, db, todo, op, pc, region, row_region_, row_epoch,
                       master_, used_, global_array_>>,
           (pc[c] \in AppendLabels /\ Key(c) = k) \/ IsNext(Row(k), c)
    PROVE  DataTypeOK' /\ FreshRegions' /\ \A j \in Keys : RowInv(j)'
<1>1. r \in Regions /\ r <= used_
  BY RegionsOwn DEF RegionIsOwn
<1>2. RowInv(k) /\ RowOK(Row(k)) /\ DataTypeOK /\ Progress /\ RegionsTyped
  BY DEF DInv, RowInv, DataTypeOK, RegionsTyped
<1>3. RegionOpened(r, c) /\ RegionsTyped' /\ OtherRegionsKept(r)
  BY <1>1, <1>2, OpenArrayIs
<1>4. /\ status' \in [Keys -> [Versions -> Statuses]]
      /\ status'[k] = [u \in Versions |-> IF u \in Range(slots_[r][c]) THEN "none" ELSE status[k][u]]
      /\ \A j \in Keys : j # k => status'[j] = status[j]
  BY <1>2, DeleteIs DEF OpenArray
<1>5. DataTypeOK'
  BY <1>2, <1>3, <1>4 DEF DataTypeOK, RegionsTyped
<1>6. FreshRegions'
  <2>1. \A q \in Regions : q > used_ => q # r
    BY <1>1, EpochsAssumption DEF Regions, IInv, ControlTypeOK
  <2> QED
    BY <1>3, <2>1 DEF DInv, FreshRegions, OtherRegionsKept
<1>7. Frame(w)
  BY <1>3, <1>4 DEF Frame, OtherRegionsKept
<1>8. ASSUME NEW j \in Keys, j # k PROVE RowInv(j)'
  BY <1>7, <1>8, OtherRowsKept
<1>9. RegionOf(k)' = RegionOf(k) /\ Fillers(k)' = Fillers(k)
  BY OwnRegion
<1>10. RowEpoch(k) = epoch /\ RowEpoch(k)' = epoch
  BY DEF RowEpoch
<1>11. PICK x : x = Row(k)
  OBVIOUS
<1>12. PICK y : y = Row(k)'
  OBVIOUS
<1>13. /\ x.epoch = epoch /\ x.master = master_[k] /\ x.global = global_array_[k]
       /\ x.status = status[k] /\ x.cores = core_bitmap_[r] /\ RowOK(x)
       /\ x.bits = transaction_bitmap_[r] /\ x.arrays = slots_[r]
  BY <1>2, <1>10, <1>11, RowIs
<1>14. /\ y.epoch = epoch /\ y.master = x.master /\ y.global = x.global
       /\ y.cores = x.cores \cup {c} /\ y.bits = [x.bits EXCEPT ![c] = {}]
       /\ y.arrays = [x.arrays EXCEPT ![c] = <<>>] /\ y.status = status'[k]
  <2>1. /\ y.epoch = RowEpoch(k)' /\ y.master = master_'[k] /\ y.global = global_array_'[k]
        /\ y.status = status'[k]
    BY <1>12, RowIsNext
  <2>2. RegionOf(k)' = r /\ RegionOf(k)' # NoRegion
    BY <1>9
  <2>3. y.cores = core_bitmap_'[r] /\ y.bits = transaction_bitmap_'[r] /\ y.arrays = slots_'[r]
    BY <1>12, <2>2, RowIsNext
  <2> QED
    BY <1>3, <1>10, <1>13, <2>1, <2>3 DEF RegionOpened
<1>15. RowTyped(y)
  BY <1>5, <1>12, RowsTypedNext
<1>16. ArrayOpened(x, y, c)
  BY <1>4, <1>13, <1>14 DEF ArrayOpened
<1>17. /\ RowOK(y) /\ Owned(y) \subseteq Owned(x)
       /\ \A u \in Owned(y) : y.status[u] = x.status[u]
  BY <1>13, <1>15, <1>16, ArrayOpening
<1>18. x.bits \in [Cores -> SUBSET Cores] /\ x.cores \subseteq Cores
  BY <1>13 DEF RowOK, RowTyped
<1>19. y.bits[c] = {} /\ \A d \in Cores : d # c => y.bits[d] = x.bits[d]
  BY <1>14, <1>18
<1>20. \A z \in Serials : HasVersion(y, z) <=> HasVersion(x, z)
  <2>1. ASSUME NEW z \in Serials PROVE HasVersion(y, z) <=> HasVersion(x, z)
    <3>1. get_core_serial(z) \in Cores
      BY CoreAndTx
    <3>2. c \notin x.cores
      BY <1>13
    <3> QED
      BY <1>13, <1>14, <1>19, <3>1, <3>2 DEF HasVersion
  <2> QED
    BY <2>1
<1>21. Waiting(k)' = Waiting(k)
  BY SameWaiting
<1>22. NoEmptyArrays(k)'
  <2>1. \A d : IsNext(y, d) <=> IsNext(x, d)
    BY <1>14 DEF IsNext
  <2>2. \A d \in Workers : Key(d)' = Key(d)
    BY DEF Key
  <2>3. ASSUME NEW d \in y.cores
        PROVE  \/ y.bits[d] # {}
               \/ (pc'[d] \in AppendLabels /\ Key(d)' = k) \/ IsNext(y, d)
    <3>1. CASE d = c
      BY <1>11, <2>1, <2>2, <3>1, CoresAreNatural
    <3>2. CASE d # c
      <4>1. d \in x.cores /\ d \in Cores /\ d \in Workers
        BY <1>14, <1>18, <3>2, CoresAreNatural
      <4>2. \/ x.bits[d] # {}
            \/ pc[d] \in AppendLabels /\ Key(d) = k
            \/ IsNext(x, d)
        BY <1>2, <1>11, <4>1 DEF RowInv, NoEmptyArrays, AppendLabels
      <4> QED
        BY <1>19, <2>1, <2>2, <3>2, <4>1, <4>2
    <3> QED
      BY <3>1, <3>2
  <2> QED
    BY <1>10, <1>12, <2>3 DEF NoEmptyArrays, AppendLabels
<1>23. OnePlace(k)'
  <2>1. OnePlace(k)
    BY <1>2 DEF RowInv
  <2> QED
    BY <1>9, <2>1, OnePlaceKept
<1>24. /\ RowOK(Row(k)') /\ Owned(Row(k)') \subseteq Owned(Row(k))
       /\ \A z \in Serials : HasVersion(Row(k)', z) <=> HasVersion(Row(k), z)
       /\ \A u \in Owned(Row(k)') : status'[k][u] = status[k][u]
  BY <1>11, <1>12, <1>13, <1>14, <1>17, <1>20
<1>25. /\ epoch' = epoch /\ phase = "init" /\ phase' = "init" /\ txs' = txs /\ db' = db
       /\ master_'[k] = master_[k]
  OBVIOUS
<1>26. RowInv(k)'
  BY <1>2, <1>10, <1>21, <1>22, <1>23, <1>24, <1>25, SameContents
<1> QED
  BY <1>5, <1>6, <1>8, <1>26

\* The worker that appends to a region, its row and its core
LEMMA AppenderIs ==
    ASSUME IInv, DInv, NEW w \in Workers, phase = "init", pc[w] \in AppendLabels,
           NEW k, k = Key(w), NEW r, r = region[w]
    PROVE  /\ k \in Keys /\ r = RegionOf(k) /\ r # NoRegion /\ r = row_region_[k]
           /\ r \in Regions /\ r <= used_ /\ op[w].core = w /\ w \in Cores
           /\ row_epoch[k] = epoch /\ global_array_[k] = {} /\ Fillers(k) = {}
<1>1. k \in Keys
  BY DEF IInv, ControlTypeOK, Key
<1>2. r # NoRegion /\ r = row_region_[k]
  BY DEF AppendLabels, IInv, AppendersUseInstalledRegion
<1>3. /\ r = RegionOf(k) /\ r \in Regions /\ r <= used_ /\ Fillers(k) = {}
  BY <1>1, <1>2, RegionsOwn DEF RegionIsOwn
<1>4. Progress /\ Running /\ pc[w] # "begin" /\ pc[w] \in Guarded
  BY DEF DInv, Running, AppendLabels, Guarded
<1>5. op[w].core = w /\ w \in Cores
  BY <1>4, OperationOf, CoresAreNatural
<1>6. row_epoch[k] = epoch
  BY <1>4 DEF Progress, EpochsOK
<1>7. global_array_[k] = {}
  BY <1>1, <1>2 DEF DInv, RowInv, OnePlace
<1> QED
  BY <1>1, <1>2, <1>3, <1>5, <1>6, <1>7

\* first_write_of_core
LEMMA FirstWriteKeeps ==
    ASSUME IInv, IInv', DInv, Progress', NEW w \in Workers, first_write_of_core(w)
    PROVE  DataTypeOK' /\ FreshRegions' /\ \A k \in Keys : RowInv(k)'
<1>0. PICK k : k = Key(w)
  OBVIOUS
<1>r. PICK r : r = region[w]
  OBVIOUS
<1>1. /\ phase = "init" /\ pc[w] \in AppendLabels /\ op[w].core \notin core_bitmap_[r]
      /\ OpenArray(k, r, op[w].core)
      /\ UNCHANGED <<epoch, phase, txs, db, todo, op, pc, region, row_region_, row_epoch,
                     master_, used_, global_array_>>
  BY <1>0, <1>r DEF first_write_of_core, AppendLabels, batchVars, workerVars, rowVars
<1>2. /\ k \in Keys /\ r = RegionOf(k) /\ r # NoRegion /\ op[w].core = w /\ w \in Cores
      /\ row_epoch[k] = epoch
  BY <1>0, <1>r, <1>1, AppenderIs
<1> QED
  BY <1>0, <1>1, <1>2, OpenArrayKeeps

\* A worker files its versions of a row in the order of its transactions.
LEMMA AppendsAscend ==
    ASSUME IInv, DInv, NEW w \in Workers, phase = "init", pc[w] \in AppendLabels,
           NEW k, k = Key(w), NEW x, x = Row(k), w \in x.cores
    PROVE  Below(x.bits[w], get_tx_serial(op[w].serial))
<1>1. /\ k \in Keys /\ w \in Cores /\ row_epoch[k] = epoch
  BY AppenderIs
<1>2. Progress /\ Running /\ pc[w] # "begin" /\ DataTypeOK /\ RowInv(k)
      /\ txs \in Workloads /\ todo[w] \subseteq Work(phase, txs, w)
      /\ op[w].serial \in Serials /\ pc[w] \in Unmade
  BY <1>1 DEF DInv, Running, AppendLabels, IInv, ControlTypeOK, Unmade, Unfiled
<1>3. RowEpoch(k) = epoch
  BY <1>1, <1>2, RowEpochIs
<1>4. x.bits \in [Cores -> SUBSET Cores]
  BY <1>2 DEF RowInv, RowOK, RowTyped
<1>5. PICK p : /\ InOperation(w, p) /\ get_tx_serial(op[w].serial) = p[1] /\ p[1] \in Cores
               /\ op[w].ope = "Update"
  BY <1>2, OperationOf
<1>6. ASSUME NEW t \in x.bits[w] PROVE t < p[1]
  <2>1. t \in Cores
    BY <1>1, <1>4
  <2>2. PICK s \in Serials : s = w * N + t
    BY <1>1, <2>1, SerialOf
  <2>3. get_core_serial(s) = w /\ get_tx_serial(s) = t
    BY <1>1, <2>1, <2>2, SerialOf
  <2>4. HasVersion(x, s)
    BY <2>3 DEF HasVersion
  <2>5. s \in Filed(k)
    BY <1>2, <1>3, <2>4 DEF RowInv, Contents
  <2>6. s \in Writers(k) /\ s \notin Waiting(k)
    BY <2>5 DEF Filed
  <2>7. Updates(txs, s, k)
    BY <2>6 DEF Writers
  <2>8. PICK q : /\ q \in Work(phase, txs, w) /\ q[1] = t
                 /\ IsUpdate(Operation(phase, txs, w, q), s, k)
    BY <1>1, <1>2, <2>3, <2>7, EveryUpdateIterates
  <2>9. q \notin todo[w]
    BY <2>6, <2>8 DEF Waiting
  <2>10. q \in Begun(w)
    BY <2>8, <2>9 DEF Begun
  <2>11. Before(q, p)
    BY <1>5, <2>10 DEF InOperation
  <2>12. t # p[1]
    <3>1. s # op[w].serial
      BY <1>2, <1>5, <2>6 DEF Waiting, IsUpdate, Key, Unmade
    <3>2. PICK z : z = op[w].serial /\ z \in Serials
      BY <1>2
    <3>3. get_core_serial(z) = w
      BY <1>2, <3>2, OperationOf
    <3> QED
      BY <1>5, <2>2, <2>3, <3>1, <3>2, <3>3, CoreAndTx
  <2> QED
    BY <1>5, <2>1, <2>8, <2>11, <2>12, CoresAreNatural DEF Before
<1> QED
  BY <1>5, <1>6 DEF Below

\* append_to_contented_row
LEMMA ContendedAppendKeeps ==
    ASSUME IInv, IInv', DInv, Progress', NEW w \in Workers, append_to_contented_row(w)
    PROVE  DataTypeOK' /\ FreshRegions' /\ \A k \in Keys : RowInv(k)'
<1>0. PICK k : k = Key(w)
  OBVIOUS
<1>s. PICK s : s = op[w].serial
  OBVIOUS
<1>r. PICK r : r = region[w]
  OBVIOUS
<1>1. /\ phase = "init" /\ pc[w] \in AppendLabels /\ op[w].core \in core_bitmap_[r]
      /\ Stored(w, "pending")
      /\ AppendToArray(r, op[w].core, get_tx_serial(s), <<epoch, s>>)
      /\ pc' = [pc EXCEPT ![w] = IF pc[w] = "locked_append" THEN "unlock" ELSE "begin"]
      /\ UNCHANGED <<epoch, phase, txs, db, todo, op, region, row_region_, row_epoch, master_,
                     used_, core_bitmap_, global_array_>>
  BY <1>0, <1>s, <1>r DEF append_to_contented_row, Create, Stored, Goto, AppendLabels, batchVars,
     opVars, rowVars
<1>2. /\ k \in Keys /\ s \in Serials /\ s \in Writers(k) /\ <<epoch, s>> \in Versions
      /\ RowEpoch(k) = epoch /\ epoch # 0 /\ row_epoch[k] = epoch
      /\ ~HasVersion(Row(k), s) /\ <<epoch, s>> \notin Owned(Row(k))
      /\ op[w].ope = "Update"
  <2>1. pc[w] \in Unfiled \cap Guarded
    BY <1>1 DEF Unfiled, Guarded, AppendLabels
  <2> QED
    BY <1>0, <1>s, <1>1, <2>1, NewVersion
<1>v. PICK v \in Versions : v = <<epoch, s>>
  BY <1>2
<1>3. RowInv(k) /\ RowOK(Row(k)) /\ DataTypeOK /\ Progress /\ RegionsTyped
  BY <1>2 DEF DInv, RowInv, DataTypeOK, RegionsTyped
<1>4. /\ r = RegionOf(k) /\ r # NoRegion /\ r = row_region_[k] /\ r \in Regions /\ r <= used_
      /\ op[w].core = w /\ w \in Cores /\ global_array_[k] = {} /\ Fillers(k) = {}
  BY <1>0, <1>r, <1>1, AppenderIs
<1>t. PICK t \in Cores : t = get_tx_serial(s) /\ s = w * N + t /\ get_core_serial(s) = w
  <2>1. get_core_serial(s) = w
    BY <1>s, <1>1, <1>3, OperationOf DEF Running, AppendLabels
  <2> QED
    BY <1>2, <2>1, CoreAndTx
<1>5. pc \in [Workers -> Labels]
  BY DEF IInv, ControlTypeOK
<1>6. status' \in [Keys -> [Versions -> Statuses]] /\ StatusOfOne(k, v, "pending")
  <2>1. "pending" \in Statuses
    BY DEF Statuses
  <2>2. v = <<epoch, op[w].serial>>
    BY <1>s, <1>v
  <2> QED
    BY <1>0, <1>1, <1>2, <1>3, <2>1, <2>2, StoredIs
<1>7. RegionAppended(r, w, t, v) /\ RegionsTyped' /\ OtherRegionsKept(r)
  <2>1. AppendToArray(r, w, t, v)
    BY <1>t, <1>v, <1>1, <1>4
  <2> QED
    BY <1>1, <1>3, <1>4, <2>1, AppendToArrayIs
<1>8. DataTypeOK'
  BY <1>1, <1>3, <1>6, <1>7 DEF DataTypeOK, RegionsTyped
<1>9. FreshRegions'
  <2>1. \A q \in Regions : q > used_ => q # r
    BY <1>4, EpochsAssumption DEF Regions, IInv, ControlTypeOK
  <2> QED
    BY <1>1, <1>7, <2>1 DEF DInv, FreshRegions, OtherRegionsKept
<1>10. pc'[w] \in {"unlock", "begin"} /\ \A u \in Workers : u # w => pc'[u] = pc[u]
  BY <1>1, <1>5
<1>11. Frame(w)
  BY <1>0, <1>1, <1>4, <1>6, <1>7, <1>10 DEF Frame, StatusOfOne, OtherRegionsKept
<1>12. ASSUME NEW j \in Keys, j # k PROVE RowInv(j)'
  BY <1>0, <1>1, <1>4, <1>11, <1>12, OtherRowsKept
<1>13. RegionOf(k)' = RegionOf(k) /\ Fillers(k)' = {}
  <2>1. pc[w] \notin Filling /\ pc'[w] \notin Filling
    BY <1>1, <1>10 DEF Filling, AppendLabels
  <2> QED
    BY <1>1, <1>2, <1>4, <1>10, <2>1, OwnRegion
<1>14. RowEpoch(k)' = epoch
  BY <1>1, <1>2 DEF RowEpoch
<1>15. PICK x : x = Row(k)
  OBVIOUS
<1>16. PICK y : y = Row(k)'
  OBVIOUS
<1>17. /\ x.epoch = epoch /\ x.master = master_[k] /\ x.global = {}
       /\ x.status = status[k] /\ x.cores = core_bitmap_[r] /\ RowOK(x)
       /\ x.bits = transaction_bitmap_[r] /\ x.arrays = slots_[r] /\ v \notin Owned(x)
       /\ w \in x.cores
  BY <1>v, <1>1, <1>2, <1>3, <1>4, <1>15, RowIs
<1>18. /\ y.epoch = epoch /\ y.master = x.master /\ y.global = {}
       /\ y.cores = x.cores /\ y.bits = [x.bits EXCEPT ![w] = @ \cup {t}]
       /\ y.arrays = [x.arrays EXCEPT ![w] = Append(@, v)] /\ y.status = status'[k]
  <2>1. /\ y.epoch = RowEpoch(k)' /\ y.master = master_'[k] /\ y.global = global_array_'[k]
        /\ y.status = status'[k]
    BY <1>2, <1>16, RowIsNext
  <2>2. RegionOf(k)' = r /\ RegionOf(k)' # NoRegion
    BY <1>4, <1>13
  <2>3. y.cores = core_bitmap_'[r] /\ y.bits = transaction_bitmap_'[r] /\ y.arrays = slots_'[r]
    BY <1>2, <1>16, <2>2, RowIsNext
  <2> QED
    BY <1>1, <1>4, <1>7, <1>14, <1>17, <2>1, <2>3 DEF RegionAppended
<1>19. RowOK(y) /\ OwnedGrows(x, y, v)
  <2>1. RowTyped(y)
    BY <1>2, <1>8, <1>16, RowsTypedNext
  <2>2. Below(x.bits[w], t)
    BY <1>0, <1>s, <1>t, <1>1, <1>15, <1>17, AppendsAscend
  <2>3. \A u \in Versions : y.status[u] = "none" <=> x.status[u] = "none" /\ u # v
    <3>1. y.status[v] = "pending"
      BY <1>6, <1>18 DEF StatusOfOne
    <3>2. \A u \in Versions : u # v => y.status[u] = x.status[u]
      BY <1>6, <1>17, <1>18 DEF StatusOfOne
    <3> QED
      BY <3>1, <3>2
  <2>4. v = <<x.epoch, w * N + t>>
    BY <1>t, <1>v, <1>17
  <2>5. y.global = x.global \ {v} /\ x.global = {}
    BY <1>17, <1>18
  <2>6. ArrayAppended(x, y, w, t, v)
    BY <1>17, <1>18, <2>2, <2>3, <2>4, <2>5 DEF ArrayAppended
  <2> QED
    BY <1>17, <2>1, <2>6, ArrayAppend
<1>20. /\ x.bits \in [Cores -> SUBSET Cores]
       /\ \A d \in Cores : y.bits[d] = IF d = w THEN x.bits[w] \cup {t} ELSE x.bits[d]
  <2>1. x.bits \in [Cores -> SUBSET Cores]
    BY <1>17 DEF RowOK, RowTyped
  <2> QED
    BY <1>18, <2>1
<1>21. ASSUME NEW z \in Serials PROVE HasVersion(y, z) <=> HasVersion(x, z) \/ z = s
  <2>1. PICK c \in Cores, b \in Cores :
           c = get_core_serial(z) /\ b = get_tx_serial(z) /\ z = c * N + b
    BY CoreAndTx
  <2>2. HasVersion(y, z) <=> c \in y.cores /\ b \in y.bits[c]
    BY <1>18, <2>1 DEF HasVersion
  <2>3. HasVersion(x, z) <=> c \in x.cores /\ b \in x.bits[c]
    BY <1>17, <2>1 DEF HasVersion
  <2>4. z = s <=> c = w /\ b = t
    BY <1>t, <2>1
  <2> QED
    BY <1>17, <1>18, <1>20, <2>1, <2>2, <2>3, <2>4
<1>22. /\ s \in Waiting(k) /\ s \notin Waiting(k)'
       /\ \A z : z # s => (z \in Waiting(k)' <=> z \in Waiting(k))
  <2>1. pc[w] \in Unmade /\ pc'[w] \notin Unmade /\ pc[w] # "begin" /\ Running
    BY <1>1, <1>10 DEF Unmade, Unfiled, Running, AppendLabels
  <2> QED
    BY <1>0, <1>s, <1>1, <1>2, <1>3, <1>10, <2>1, UpdaterMoves
<1>23. \A u \in Owned(x) : status'[k][u] = status[k][u]
  BY <1>6, <1>17, OwnedVersions DEF StatusOfOne
<1>24. NoEmptyArrays(k)'
  <2>1. x.cores \subseteq Cores
    BY <1>17 DEF RowOK, RowTyped
  <2>2. \A d \in Workers : Key(d)' = Key(d)
    BY <1>1 DEF Key
  <2>3. ASSUME NEW d \in y.cores
        PROVE  \/ y.bits[d] # {}
               \/ (pc'[d] \in AppendLabels /\ Key(d)' = k) \/ IsNext(y, d)
    <3>1. d \in Cores /\ d \in Workers /\ d \in x.cores
      BY <1>18, <2>1, CoresAreNatural
    <3>2. \/ x.bits[d] # {} \/ IsNext(x, d)
          \/ pc[d] \in AppendLabels /\ Key(d) = k
      BY <1>3, <1>15, <3>1 DEF RowInv, NoEmptyArrays, AppendLabels
    <3>3. ~IsNext(x, d)
      BY <1>17 DEF IsNext
    <3> QED
      BY <1>10, <1>20, <2>2, <3>1, <3>2, <3>3
  <2> QED
    BY <1>1, <1>14, <1>16, <2>3 DEF NoEmptyArrays, AppendLabels
<1>25. OnePlace(k)'
  BY <1>1, <1>4 DEF OnePlace
<1>26. /\ RowOK(Row(k)') /\ OwnedGrows(Row(k), Row(k)', <<epoch, s>>)
       /\ \A z \in Serials : HasVersion(Row(k)', z) <=> HasVersion(Row(k), z) \/ z = s
       /\ status'[k][<<epoch, s>>] = "pending"
       /\ \A u \in Owned(Row(k)) : status'[k][u] = status[k][u]
       /\ <<epoch, s>> \notin Owned(Row(k))
  BY <1>v, <1>2, <1>6, <1>15, <1>16, <1>19, <1>21, <1>23 DEF StatusOfOne
<1>27. /\ epoch' = epoch /\ phase = "init" /\ phase' = "init" /\ txs' = txs /\ db' = db
       /\ master_'[k] = master_[k]
  BY <1>1
<1>28. RowInv(k)'
  BY <1>2, <1>3, <1>14, <1>22, <1>24, <1>25, <1>26, <1>27, FiledRow
<1> QED
  BY <1>8, <1>9, <1>12, <1>28

\* The version that is moved next: the first of the global array
FirstOf(x, v) == v \in x.global /\ \A u \in x.global : v[2] <= u[2]

\* There is one first version, and its core is the next the move comes to.
LEMMA FirstIs ==
    ASSUME NEW x, RowOK(x), x.epoch # 0, NEW v, FirstOf(x, v)
    PROVE  /\ v \in Versions /\ v[2] \in Serials /\ v = <<x.epoch, v[2]>>
           /\ \A u \in x.global \ {v} : v[2] < u[2]
           /\ \A d : IsNext(x, d) => d = get_core_serial(v[2])
           /\ IsNext(x, get_core_serial(v[2]))
<1>1. x.global \subseteq Versions
  BY DEF RowOK, RowTyped
<1>2. \A u \in x.global : u[1] = x.epoch /\ u[2] \in Serials
  BY DEF RowOK
<1>3. \A u \in x.global : u = <<x.epoch, u[2]>> /\ u[2] \in Nat
  <2>1. ASSUME NEW u \in x.global PROVE u = <<x.epoch, u[2]>> /\ u[2] \in Nat
    <3>1. u = <<u[1], u[2]>>
      BY <1>1 DEF Versions
    <3> QED
      BY <1>2, <3>1, SerialsAreNatural
  <2> QED
    BY <2>1
<1>4. v \in x.global /\ \A u \in x.global : v[2] <= u[2]
  BY DEF FirstOf
<1>5. ASSUME NEW u \in x.global \ {v} PROVE v[2] < u[2]
  BY <1>3, <1>4
<1>6. ASSUME NEW d, IsNext(x, d) PROVE d = get_core_serial(v[2])
  <2>1. PICK u \in x.global : (\A z \in x.global : u[2] <= z[2]) /\ get_core_serial(u[2]) = d
    BY <1>6 DEF IsNext
  <2>2. u[2] = v[2]
    BY <1>3, <1>4, <2>1
  <2> QED
    BY <2>1, <2>2
<1>7. IsNext(x, get_core_serial(v[2]))
  BY <1>4 DEF IsNext
<1> QED
  BY <1>1, <1>2, <1>3, <1>4, <1>5, <1>6, <1>7

\* The worker that moves the global array
LEMMA MoverIs ==
    ASSUME IInv, DInv, NEW w \in Workers, phase = "init", pc[w] = "move",
           NEW k, k = Key(w), NEW r, r = region[w]
    PROVE  /\ k \in Keys /\ r = RegionOf(k) /\ r # NoRegion
           /\ r \in Regions /\ r <= used_ /\ row_epoch[k] = epoch /\ epoch # 0
           /\ RowEpoch(k) = epoch
<1>1. k \in Keys
  BY DEF IInv, ControlTypeOK, Key
<1>2. w \in Fillers(k)
  BY DEF Fillers, Filling
<1>3. r = RegionOf(k) /\ r # NoRegion /\ r \in Regions /\ r <= used_
  BY <1>1, <1>2, RegionsOwn DEF RegionIsOwn
<1>4. row_epoch[k] = epoch /\ epoch # 0
  BY DEF DInv, Progress, EpochsOK, Guarded
<1>5. RowEpoch(k) = epoch
  BY <1>1, <1>4, RowEpochIs DEF DInv
<1> QED
  BY <1>1, <1>3, <1>4, <1>5

\* A version is moved from the global array to the array of its core.
LEMMA MoveOneKeeps ==
    ASSUME IInv, IInv', DInv, Progress', NEW w \in Workers, phase = "init", pc[w] = "move",
           NEW k, k = Key(w), NEW r, r = region[w],
           NEW v, FirstOf(Row(k), v), NEW c, c = get_core_serial(v[2]), c \in core_bitmap_[r],
           AppendToArray(r, c, get_tx_serial(v[2]), v),
           global_array_' = [global_array_ EXCEPT ![k] = @ \ {v}],
           UNCHANGED <<epoch, phase, txs, db, todo, op, pc, region, row_region_, row_epoch,
                       master_, used_, core_bitmap_, status>>
    PROVE  DataTypeOK' /\ FreshRegions' /\ \A j \in Keys : RowInv(j)'
<1>1. /\ k \in Keys /\ r = RegionOf(k) /\ r # NoRegion
      /\ r \in Regions /\ r <= used_ /\ row_epoch[k] = epoch /\ epoch # 0
      /\ RowEpoch(k) = epoch
  BY MoverIs
<1>2. RowInv(k) /\ RowOK(Row(k)) /\ DataTypeOK /\ Progress /\ RegionsTyped
  BY <1>1 DEF DInv, RowInv, DataTypeOK, RegionsTyped
<1>3. PICK x : x = Row(k)
  OBVIOUS
<1>4. PICK y : y = Row(k)'
  OBVIOUS
<1>5. /\ x.epoch = epoch /\ x.master = master_[k] /\ x.global = global_array_[k]
      /\ x.status = status[k] /\ x.cores = core_bitmap_[r] /\ RowOK(x)
      /\ x.bits = transaction_bitmap_[r] /\ x.arrays = slots_[r] /\ FirstOf(x, v)
  BY <1>1, <1>2, <1>3, RowIs
<1>6. /\ v \in Versions /\ v[2] \in Serials /\ v = <<epoch, v[2]>>
      /\ \A u \in x.global \ {v} : v[2] < u[2]
      /\ \A d : IsNext(x, d) => d = c
  BY <1>1, <1>5, FirstIs
<1>t. PICK t \in Cores : t = get_tx_serial(v[2]) /\ v[2] = c * N + t /\ c \in Cores
  BY <1>6, CoreAndTx
<1>7. RegionAppended(r, c, t, v) /\ RegionsTyped' /\ OtherRegionsKept(r)
  <2>1. AppendToArray(r, c, t, v)
    BY <1>t
  <2> QED
    BY <1>t, <1>1, <1>2, <1>6, <2>1, AppendToArrayIs
<1>8. /\ global_array_ \in [Keys -> SUBSET Versions]
      /\ global_array_' \in [Keys -> SUBSET Versions] /\ global_array_'[k] = x.global \ {v}
      /\ \A j \in Keys : j # k => global_array_'[j] = global_array_[j]
  BY <1>1, <1>2, <1>5 DEF DataTypeOK
<1>9. DataTypeOK'
  BY <1>2, <1>7, <1>8 DEF DataTypeOK, RegionsTyped
<1>10. FreshRegions'
  <2>1. \A q \in Regions : q > used_ => q # r
    BY <1>1, EpochsAssumption DEF Regions, IInv, ControlTypeOK
  <2> QED
    BY <1>7, <2>1 DEF DInv, FreshRegions, OtherRegionsKept
<1>11. Frame(w)
  BY <1>1, <1>7, <1>8 DEF Frame, OtherRegionsKept
<1>12. ASSUME NEW j \in Keys, j # k PROVE RowInv(j)'
  BY <1>1, <1>11, <1>12, OtherRowsKept
<1>13. RegionOf(k)' = RegionOf(k) /\ Fillers(k)' = Fillers(k)
  BY <1>1, OwnRegion
<1>14. RowEpoch(k)' = epoch
  BY <1>1 DEF RowEpoch
<1>15. /\ y.epoch = epoch /\ y.master = x.master /\ y.global = x.global \ {v}
       /\ y.cores = x.cores /\ y.bits = [x.bits EXCEPT ![c] = @ \cup {t}]
       /\ y.arrays = [x.arrays EXCEPT ![c] = Append(@, v)] /\ y.status = x.status
  <2>1. /\ y.epoch = RowEpoch(k)' /\ y.master = master_'[k] /\ y.global = global_array_'[k]
        /\ y.status = status'[k]
    BY <1>1, <1>4, RowIsNext
  <2>2. RegionOf(k)' = r /\ RegionOf(k)' # NoRegion
    BY <1>1, <1>13
  <2>3. y.cores = core_bitmap_'[r] /\ y.bits = transaction_bitmap_'[r] /\ y.arrays = slots_'[r]
    BY <1>1, <1>4, <2>2, RowIsNext
  <2> QED
    BY <1>5, <1>7, <1>8, <1>14, <2>1, <2>3 DEF RegionAppended
<1>16. /\ x.bits \in [Cores -> SUBSET Cores] /\ x.cores \subseteq Cores
       /\ \A d \in Cores : y.bits[d] = IF d = c THEN x.bits[c] \cup {t} ELSE x.bits[d]
  <2>1. x.bits \in [Cores -> SUBSET Cores] /\ x.cores \subseteq Cores
    BY <1>5 DEF RowOK, RowTyped
  <2> QED
    BY <1>t, <1>15, <2>1
<1>17. v \in x.global /\ v \in Owned(x)
  BY <1>5 DEF FirstOf, Owned
<1>18. RowOK(y) /\ OwnedGrows(x, y, v)
  <2>1. RowTyped(y)
    BY <1>1, <1>4, <1>9, RowsTypedNext
  <2>2. Below(x.bits[c], t)
    <3>1. ASSUME NEW u \in x.bits[c] PROVE u < t
      <4>1. u \in Cores
        BY <1>t, <1>16
      <4>2. c * N + u < v[2]
        BY <1>5, <1>17 DEF RowOK
      <4>3. c * N + u < c * N + t
        BY <1>t, <4>2
      <4>4. c < c \/ (c = c /\ u < t)
        BY <1>t, <4>1, <4>3, SerialOf
      <4> QED
        BY <1>t, <4>4, CoresAreNatural
    <3> QED
      BY <3>1 DEF Below
  <2>3. \A u \in Versions : y.status[u] = "none" <=> x.status[u] = "none" /\ u # v
    <3>1. x.status[v] # "none"
      BY <1>5, <1>6, <1>17 DEF RowOK
    <3> QED
      BY <1>15, <3>1
  <2>4. v = <<x.epoch, c * N + t>>
    BY <1>t, <1>5, <1>6
  <2>5. \A u \in x.global \ {v} : c * N + t < u[2]
    BY <1>t, <1>6
  <2>6. ArrayAppended(x, y, c, t, v)
    BY <1>5, <1>15, <1>17, <2>2, <2>3, <2>4, <2>5 DEF ArrayAppended
  <2> QED
    BY <1>t, <1>5, <1>6, <2>1, <2>6, ArrayAppend
<1>19. ASSUME NEW z \in Serials PROVE HasVersion(y, z) <=> HasVersion(x, z)
  <2>1. PICK d \in Cores, b \in Cores :
           d = get_core_serial(z) /\ b = get_tx_serial(z) /\ z = d * N + b
    BY CoreAndTx
  <2>2. HasVersion(y, z) <=> <<epoch, z>> \in y.global \/ (d \in y.cores /\ b \in y.bits[d])
    BY <1>15, <2>1 DEF HasVersion
  <2>3. HasVersion(x, z) <=> <<epoch, z>> \in x.global \/ (d \in x.cores /\ b \in x.bits[d])
    BY <1>5, <2>1 DEF HasVersion
  <2>4. v[2] = z <=> d = c /\ b = t
    BY <1>t, <2>1
  <2>5. <<epoch, z>> = v <=> v[2] = z
    BY <1>6
  <2>6. <<epoch, z>> \in y.global <=> <<epoch, z>> \in x.global /\ ~(d = c /\ b = t)
    BY <1>15, <2>4, <2>5
  <2>7. b \in y.bits[d] <=> b \in x.bits[d] \/ (d = c /\ b = t)
    <3>1. CASE d = c
      BY <1>16, <2>1, <3>1
    <3>2. CASE d # c
      BY <1>16, <2>1, <3>2
    <3> QED
      BY <3>1, <3>2
  <2>8. (d = c /\ b = t) => <<epoch, z>> \in x.global /\ d \in y.cores
    BY <1>5, <1>15, <1>17, <2>4, <2>5
  <2> QED
    BY <1>15, <2>2, <2>3, <2>6, <2>7, <2>8
<1>20. /\ Owned(y) \subseteq Owned(x)
       /\ \A u \in Owned(y) : status'[k][u] = status[k][u]
  BY <1>17, <1>18 DEF OwnedGrows
<1>21. Waiting(k)' = Waiting(k)
  BY <1>1, SameWaiting
<1>22. NoEmptyArrays(k)'
  <2>1. \A d \in Workers : Key(d)' = Key(d)
    BY DEF Key
  <2>2. ASSUME NEW d \in y.cores
        PROVE  \/ y.bits[d] # {} \/ (pc'[d] \in AppendLabels /\ Key(d)' = k)
    <3>1. d \in Cores /\ d \in Workers /\ d \in x.cores
      BY <1>15, <1>16, CoresAreNatural
    <3>2. \/ x.bits[d] # {} \/ IsNext(x, d)
          \/ pc[d] \in AppendLabels /\ Key(d) = k
      BY <1>2, <1>3, <3>1 DEF RowInv, NoEmptyArrays, AppendLabels
    <3> QED
      BY <1>6, <1>16, <2>1, <3>1, <3>2
  <2> QED
    BY <1>14, <1>4, <2>2 DEF NoEmptyArrays, AppendLabels
<1>23. OnePlace(k)'
  <2>1. OnePlace(k)
    BY <1>2 DEF RowInv
  <2>2. global_array_'[k] \subseteq global_array_[k]
    BY <1>5, <1>8
  <2> QED
    BY <1>1, <1>13, <2>1, <2>2, OnePlaceKept
<1>24. /\ RowOK(Row(k)') /\ Owned(Row(k)') \subseteq Owned(Row(k))
       /\ \A z \in Serials : HasVersion(Row(k)', z) <=> HasVersion(Row(k), z)
       /\ \A u \in Owned(Row(k)') : status'[k][u] = status[k][u]
  BY <1>3, <1>4, <1>18, <1>19, <1>20
<1>25. /\ epoch' = epoch /\ phase = "init" /\ phase' = "init" /\ txs' = txs /\ db' = db
       /\ master_'[k] = master_[k]
  OBVIOUS
<1>26. RowInv(k)'
  BY <1>1, <1>2, <1>14, <1>21, <1>22, <1>23, <1>24, <1>25, SameContents
<1> QED
  BY <1>9, <1>10, <1>12, <1>26

\* move_global_array_to_row_region, while there is something to move
LEMMA MoveKeeps ==
    ASSUME IInv, IInv', DInv, Progress', NEW w \in Workers,
           move_global_array_to_row_region(w), global_array_[Key(w)] # {}
    PROVE  DataTypeOK' /\ FreshRegions' /\ \A k \in Keys : RowInv(k)'
<1>0. PICK k : k = Key(w)
  OBVIOUS
<1>r. PICK r : r = region[w]
  OBVIOUS
<1>1. /\ phase = "init" /\ pc[w] = "move"
      /\ UNCHANGED <<epoch, phase, txs, db, todo, op, region, row_region_, row_epoch,
                     master_, used_>>
  BY DEF move_global_array_to_row_region, batchVars, opVars
<1>2. PICK v \in global_array_[k] :
        /\ \A u \in global_array_[k] : v[2] <= u[2]
        /\ LET c == get_core_serial(v[2])
               t == get_tx_serial(v[2])
           IN  \/ /\ c \notin core_bitmap_[r]
                  /\ OpenArray(k, r, c)
                  /\ UNCHANGED global_array_
               \/ /\ c \in core_bitmap_[r]
                  /\ AppendToArray(r, c, t, v)
                  /\ global_array_' = [global_array_ EXCEPT ![k] = @ \ {v}]
                  /\ UNCHANGED <<core_bitmap_, status>>
        /\ UNCHANGED pc
  BY <1>0, <1>r DEF move_global_array_to_row_region
<1>3. PICK c : c = get_core_serial(v[2])
  OBVIOUS
<1>4. /\ k \in Keys /\ r = RegionOf(k) /\ r # NoRegion
      /\ r \in Regions /\ row_epoch[k] = epoch /\ epoch # 0 /\ RowEpoch(k) = epoch
  BY <1>0, <1>r, <1>1, MoverIs
<1>5. PICK x : x = Row(k)
  OBVIOUS
<1>6. x.global = global_array_[k] /\ x.epoch = epoch /\ RowOK(x)
  BY <1>4, <1>5, RowIs DEF DInv, RowInv
<1>7. FirstOf(x, v)
  BY <1>2, <1>6 DEF FirstOf
<1>8. v[2] \in Serials /\ IsNext(x, c)
  BY <1>3, <1>4, <1>6, <1>7, FirstIs
<1>9. c \in Cores
  BY <1>3, <1>8, CoreAndTx
<1>10. CASE c \notin core_bitmap_[r]
  <2>1. OpenArray(k, r, c) /\ UNCHANGED <<global_array_, pc>>
    BY <1>2, <1>3, <1>10
  <2> QED
    BY <1>0, <1>1, <1>4, <1>5, <1>8, <1>9, <1>10, <2>1, OpenArrayKeeps
<1>11. CASE c \in core_bitmap_[r]
  <2>1. /\ AppendToArray(r, c, get_tx_serial(v[2]), v)
        /\ global_array_' = [global_array_ EXCEPT ![k] = @ \ {v}]
        /\ UNCHANGED <<core_bitmap_, status, pc>>
    BY <1>2, <1>3, <1>11
  <2> QED
    BY <1>0, <1>r, <1>1, <1>3, <1>5, <1>7, <1>11, <2>1, MoveOneKeeps
<1> QED
  BY <1>10, <1>11

\* A writer of the execution phase finds the version it appended.
LEMMA WriterFinds ==
    ASSUME IInv, DInv, NEW w \in Workers, phase = "exec", pc[w] \in {"write", "write_status"},
           NEW k, k = Key(w), NEW s, s = op[w].serial
    PROVE  /\ k \in Keys /\ s \in Serials /\ op[w].ope = "Update" /\ s \in Writers(k)
           /\ RowEpoch(k) = epoch /\ epoch # 0 /\ <<epoch, s>> \in Versions
           /\ <<epoch, s>> \in Owned(Row(k))
<1>1. k \in Keys /\ s \in Serials
  BY DEF IInv, ControlTypeOK, Key
<1>2. Progress /\ Running /\ DataTypeOK /\ RowInv(k) /\ pc[w] # "begin"
  BY <1>1 DEF DInv, Running
<1>3. op[w].ope = "Update" /\ epoch # 0
  BY <1>2 DEF Progress, LabelsOfPhase, EpochsOK
<1>4. s \in Writers(k)
  BY <1>2, <1>3, OperationOf
<1>5. s \in Filed(k)
  BY <1>4 DEF Filed
<1>6. RowEpoch(k) = epoch /\ HasVersion(Row(k), s)
  BY <1>1, <1>2, <1>5 DEF RowInv, Contents
<1>7. PICK x : x = Row(k)
  OBVIOUS
<1>8. RowOK(x) /\ x.epoch = epoch /\ HasVersion(x, s)
  BY <1>1, <1>2, <1>6, <1>7, RowIs DEF RowInv
<1>9. <<epoch, s>> \in Owned(x)
  BY <1>1, <1>3, <1>8, OwnedOfEpoch
<1>10. <<epoch, s>> \in Versions
  BY <1>1, <1>2, VersionOfEpoch
<1> QED
  BY <1>1, <1>3, <1>4, <1>6, <1>7, <1>9, <1>10

\* upsert stores the record or the status.
WriteStep(w, from, st, to) ==
    /\ SetStatus(w, from, st, to)
    /\ \/ from = "write" /\ st = "written" /\ to = "write_status"
       \/ from = "write_status" /\ st = "stable" /\ to = "begin"

\* upsert: the record, then the status.
LEMMA WriteKeeps ==
    ASSUME IInv, IInv', DInv, Progress', NEW w \in Workers, NEW from, NEW st, NEW to,
           WriteStep(w, from, st, to)
    PROVE  DataTypeOK' /\ FreshRegions' /\ \A k \in Keys : RowInv(k)'
<1>0. PICK k : k = Key(w)
  OBVIOUS
<1>s. PICK s : s = op[w].serial
  OBVIOUS
<1>1. /\ phase = "exec" /\ pc[w] = from /\ Stored(w, st) /\ pc' = [pc EXCEPT ![w] = to]
      /\ UNCHANGED <<epoch, phase, txs, db, todo, op, region, row_region_, row_epoch, master_,
                     used_, core_bitmap_, transaction_bitmap_, slots_, global_array_>>
  BY DEF WriteStep, SetStatus, Stored, Goto, batchVars, opVars, rowVars, regionVars
<1>2. \/ from = "write" /\ st = "written" /\ to = "write_status"
      \/ from = "write_status" /\ st = "stable" /\ to = "begin"
  BY DEF WriteStep
<1>3. /\ k \in Keys /\ s \in Serials /\ op[w].ope = "Update" /\ s \in Writers(k)
      /\ RowEpoch(k) = epoch /\ epoch # 0 /\ <<epoch, s>> \in Versions
      /\ <<epoch, s>> \in Owned(Row(k))
  BY <1>0, <1>s, <1>1, <1>2, WriterFinds
<1>v. PICK v \in Versions : v = <<epoch, s>>
  BY <1>3
<1>4. RowInv(k) /\ RowOK(Row(k)) /\ DataTypeOK /\ Progress
  BY <1>3 DEF DInv, RowInv
<1>5. pc \in [Workers -> Labels]
  BY DEF IInv, ControlTypeOK
<1>6. pc'[w] = to /\ \A u \in Workers : u # w => pc'[u] = pc[u]
  BY <1>1, <1>5
<1>7. status' \in [Keys -> [Versions -> Statuses]] /\ StatusOfOne(k, v, st)
  <2>1. st \in Statuses
    BY <1>2 DEF Statuses
  <2>2. v = <<epoch, op[w].serial>>
    BY <1>s, <1>v
  <2> QED
    BY <1>0, <1>1, <1>3, <1>4, <2>1, <2>2, StoredIs
<1>8. DataTypeOK' /\ FreshRegions'
  BY <1>1, <1>4, <1>7 DEF DataTypeOK, DInv, FreshRegions
<1>9. Frame(w)
  BY <1>0, <1>1, <1>6, <1>7 DEF Frame, StatusOfOne
<1>10. ASSUME NEW j \in Keys, j # k PROVE RowInv(j)'
  BY <1>0, <1>1, <1>9, <1>10, OtherRowsKept
<1>11. RegionOf(k)' = RegionOf(k) /\ Fillers(k)' = Fillers(k)
  <2>1. pc[w] \notin Filling /\ pc'[w] \notin Filling
    BY <1>1, <1>2, <1>6 DEF Filling
  <2> QED
    BY <1>1, <1>3, <1>6, <2>1, OwnRegion
<1>12. RowEpoch(k)' = epoch
  <2>1. \A u \in Workers : pc'[u] = "store_epoch" <=> pc[u] = "store_epoch"
    BY <1>1, <1>2, <1>6
  <2>2. \A u \in Workers : Key(u)' = Key(u)
    BY <1>1 DEF Key
  <2>3. RowEpoch(k)' = RowEpoch(k)
    BY <1>1, <2>1, <2>2 DEF RowEpoch
  <2> QED
    BY <1>3, <2>3
<1>13. PICK x : x = Row(k)
  OBVIOUS
<1>14. PICK y : y = Row(k)'
  OBVIOUS
<1>15. /\ x.epoch = epoch /\ x.status = status[k] /\ RowOK(x) /\ v \in Owned(x)
  BY <1>v, <1>3, <1>4, <1>13, RowIs
<1>16. /\ y.epoch = x.epoch /\ y.master = x.master /\ y.global = x.global
       /\ y.cores = x.cores /\ y.bits = x.bits /\ y.arrays = x.arrays
       /\ y.status = status'[k]
  <2>1. /\ y.epoch = epoch /\ y.master = master_'[k] /\ y.global = global_array_'[k]
        /\ y.status = status'[k]
    BY <1>3, <1>12, <1>14, RowIsNext
  <2>2. x.master = master_[k] /\ x.global = global_array_[k]
    BY <1>3, <1>13, RowIs
  <2>3. CASE RegionOf(k) = NoRegion
    <3>1. y.cores = {} /\ y.bits = x.bits /\ y.arrays = x.arrays
      BY <1>3, <1>11, <1>13, <1>14, <2>3, RowIsNext
    <3>2. x.cores = {}
      BY <1>3, <1>13, <2>3, RowIs
    <3> QED
      BY <1>1, <1>15, <2>1, <2>2, <3>1, <3>2
  <2>4. CASE RegionOf(k) # NoRegion
    <3>1. PICK r : r = RegionOf(k)
      OBVIOUS
    <3>2. RegionOf(k)' = r /\ RegionOf(k)' # NoRegion
      BY <1>11, <2>4, <3>1
    <3>3. y.cores = core_bitmap_'[r] /\ y.bits = transaction_bitmap_'[r] /\ y.arrays = slots_'[r]
      BY <1>3, <1>14, <3>2, RowIsNext
    <3>4. x.cores = core_bitmap_[r] /\ x.bits = transaction_bitmap_[r] /\ x.arrays = slots_[r]
      BY <1>3, <1>13, <2>4, <3>1, RowIs
    <3> QED
      BY <1>1, <1>15, <2>1, <2>2, <3>3, <3>4
  <2> QED
    BY <2>3, <2>4
<1>17. RowOK(y) /\ Owned(y) = Owned(x)
  <2>1. RowTyped(y)
    BY <1>3, <1>8, <1>14, RowsTypedNext
  <2>2. \A u \in Versions : y.status[u] = "none" <=> x.status[u] = "none"
    <3>1. y.status[v] # "none" /\ x.status[v] # "none"
      BY <1>2, <1>7, <1>15, <1>16 DEF StatusOfOne, RowOK
    <3>2. \A u \in Versions : u # v => y.status[u] = x.status[u]
      BY <1>7, <1>15, <1>16 DEF StatusOfOne
    <3> QED
      BY <3>1, <3>2
  <2>3. StatusSet(x, y)
    BY <1>16, <2>2 DEF StatusSet
  <2> QED
    BY <1>15, <2>1, <2>3, SetStatusKeeps
<1>18. Writers(k)' = Writers(k)
  BY <1>1, <1>3, SameWriters
<1>19. Contents(k)'
  <2>1. \A z \in Serials : z \in Writers(k) <=> HasVersion(x, z)
    BY <1>1, <1>3, <1>4, <1>13 DEF RowInv, Contents, Filed
  <2>2. \A z : HasVersion(y, z) <=> HasVersion(x, z)
    BY <1>16 DEF HasVersion
  <2>3. \A z \in Serials : z \in Writers(k)' <=> HasVersion(y, z)
    BY <1>18, <2>1, <2>2
  <2> QED
    BY <1>1, <1>12, <1>14, <2>3 DEF Contents, Filed
<1>20. NoEmptyArrays(k)'
  <2>1. \A c \in x.cores : x.bits[c] # {}
    BY <1>1, <1>4, <1>13 DEF RowInv, NoEmptyArrays
  <2> QED
    BY <1>14, <1>16, <2>1 DEF NoEmptyArrays
<1>21. OnePlace(k)'
  <2>1. OnePlace(k) /\ \A u \in Fillers(k) : u # w /\ u \in Workers
    BY <1>1, <1>2, <1>4 DEF RowInv, Fillers, Filling
  <2> QED
    BY <1>1, <1>3, <1>6, <1>11, <2>1, OnePlaceKept
<1>22. /\ StatusOf(k, s)' = st
       /\ \A z : z # s => StatusOf(k, z)' = StatusOf(k, z)
  <2>1. /\ s \in Waiting(k)' <=> to \in Unmade
        /\ s \in Writing(k)' <=> to = "write_status"
        /\ \A z : z # s => /\ z \in Waiting(k)' <=> z \in Waiting(k)
                           /\ z \in Writing(k)' <=> z \in Writing(k)
    <3>1. pc[w] # "begin" /\ Running
      BY <1>1, <1>2 DEF Running
    <3> QED
      BY <1>0, <1>s, <1>1, <1>3, <1>4, <1>6, <3>1, UpdaterMoves
  <2>2. to \notin Unmade
    BY <1>2 DEF Unmade, Unfiled
  <2> QED
    BY <1>1, <1>2, <2>1, <2>2 DEF StatusOf
<1>23. StatusesOK(k)'
  <2>1. ASSUME NEW u \in Owned(y)
        PROVE  /\ u[1] < epoch => status'[k][u] = "stable"
               /\ u[1] = epoch => status'[k][u] = StatusOf(k, u[2])'
    <3>1. u \in Owned(x) /\ u \in Versions
      BY <1>15, <1>17, OwnedVersions
    <3>2. /\ u[1] < epoch => status[k][u] = "stable"
          /\ u[1] = epoch => status[k][u] = StatusOf(k, u[2])
      BY <1>1, <1>4, <1>13, <3>1 DEF RowInv, StatusesOK
    <3>3. CASE u = v
      <4>1. u[1] = epoch /\ u[2] = s /\ epoch \in Nat
        BY <1>v, <1>4, <3>3 DEF Progress, EpochsOK
      <4> QED
        BY <1>7, <1>22, <3>3, <4>1 DEF StatusOfOne
    <3>4. CASE u # v
      <4>1. status'[k][u] = status[k][u]
        BY <1>7, <3>1, <3>4 DEF StatusOfOne
      <4>2. u[1] = epoch => u[2] # s
        BY <1>v, <3>1, <3>4 DEF Versions
      <4> QED
        BY <1>22, <3>2, <4>1, <4>2
    <3> QED
      BY <3>3, <3>4
  <2> QED
    BY <1>1, <1>14, <2>1 DEF StatusesOK
<1>24. FinalOK(k)'
  <2>1. master_[k] = db[k]
    BY <1>3, <1>4 DEF RowInv, FinalOK
  <2> QED
    BY <1>1, <1>12, <2>1 DEF FinalOK
<1>25. RowInv(k)'
  BY <1>14, <1>17, <1>19, <1>20, <1>21, <1>23, <1>24 DEF RowInv
<1> QED
  BY <1>8, <1>10, <1>25
-------------------------------------------------------------------------------
(***************************************************************************)
(* The barriers                                                            *)
(***************************************************************************)

\* A row at rest: its versions are in one place, and no array is empty.
AtRest(x) == /\ x.cores # {} => x.global = {}
             /\ \A c \in x.cores : x.bits[c] # {}

\* A step of the barrier changes no row.
LEMMA BarrierRow ==
    ASSUME IInv, IInv', DInv, AtBarrier, NEW k \in Keys,
           UNCHANGED <<pc, region, row_region_, row_epoch, master_, global_array_, core_bitmap_,
                       transaction_bitmap_, slots_, status>>
    PROVE  /\ Row(k)' = Row(k) /\ Fillers(k)' = {} /\ Fillers(k) = {}
           /\ RowEpoch(k) = row_epoch[k] /\ RowEpoch(k)' = row_epoch[k] /\ AtRest(Row(k))
<1>1. \A w \in Workers : pc[w] = "begin"
  BY DEF AtBarrier
<1>2. Fillers(k)' = {} /\ Fillers(k) = {}
  BY <1>1 DEF Fillers, Filling
<1>3. RowEpoch(k) = row_epoch[k] /\ RowEpoch(k)' = row_epoch[k]
  BY <1>1 DEF RowEpoch
<1>4. RegionOf(k)' = RegionOf(k)
  BY <1>2, RegionKept
<1>5. Row(k)' = Row(k)
  BY <1>3, <1>4, SameRegionSameRow
<1>6. PICK x : x = Row(k)
  OBVIOUS
<1>7. x.cores # {} => x.global = {}
  <2>1. ASSUME x.cores # {} PROVE x.global = {}
    <3>1. RegionOf(k) # NoRegion
      BY <1>6, <2>1, RowIs
    <3>2. row_region_[k] # NoRegion
      BY <1>2, <3>1, RegionsOwn DEF RegionIsOwn
    <3>3. global_array_[k] = {}
      BY <3>2 DEF DInv, RowInv, OnePlace
    <3> QED
      BY <1>6, <3>3, RowIs
  <2> QED
    BY <2>1
<1>8. \A c \in x.cores : x.bits[c] # {}
  <2>1. ASSUME NEW c \in x.cores PROVE x.bits[c] # {}
    <3>1. RowOK(x) /\ NoEmptyArrays(k)
      BY <1>6 DEF DInv, RowInv
    <3>2. c \in Workers
      BY <3>1, CoresAreNatural DEF RowOK, RowTyped
    <3>3. ~IsNext(x, c)
      BY <1>7, <2>1 DEF IsNext
    <3> QED
      BY <1>1, <1>6, <2>1, <3>1, <3>2, <3>3 DEF NoEmptyArrays
  <2> QED
    BY <2>1
<1> QED
  BY <1>2, <1>3, <1>5, <1>6, <1>7, <1>8 DEF AtRest

\* No version is later than its row.
LEMMA OwnedNotLater ==
    ASSUME NEW x, RowOK(x), NEW v \in Owned(x)
    PROVE  v[1] <= x.epoch /\ v[1] \in Nat /\ x.epoch \in Nat
<1>1. x.epoch \in Nat
  BY DEF RowOK, RowTyped
<1>2. v \in Versions
  BY OwnedVersions
<1>3. v[1] \in Nat
  BY <1>2, EpochsAssumption DEF Versions
<1>4. CASE v = x.master
  <2>1. x.master[1] < x.epoch \/ (x.epoch = 0 /\ x.master = <<0, -2>>)
    BY DEF RowOK
  <2> QED
    BY <1>1, <1>3, <1>4, <2>1
<1>5. CASE v \in x.global
  BY <1>1, <1>5 DEF RowOK
<1>6. CASE ~(v = x.master \/ v \in x.global)
  <2>1. PICK c, i : c \in Cores /\ i \in DOMAIN x.arrays[c] /\ v = x.arrays[c][i]
    BY <1>6, OwnedIs
  <2>2. v[1] = x.epoch \/ v[1] < x.epoch
    BY <2>1, SlotEntry
  <2> QED
    BY <1>1, <1>3, <2>2
<1> QED
  BY <1>1, <1>3, <1>4, <1>5, <1>6

\* What a row owns of the current epoch, it has of a writer.
LEMMA OwnedByWriter ==
    ASSUME DInv, Running, NEW k \in Keys, NEW v \in Owned(Row(k)), v[1] = epoch
    PROVE  v[2] \in Filed(k) /\ RowEpoch(k) = epoch
<1>1. PICK x : x = Row(k)
  OBVIOUS
<1>2. /\ RowOK(x) /\ x.epoch = RowEpoch(k) /\ RowEpoch(k) <= epoch /\ epoch \in Nat \ {0}
      /\ RowInv(k) /\ v \in Owned(x)
  BY <1>1, RowIs, RowEpochIs DEF DInv, RowInv, Progress, EpochsOK
<1>3. x.epoch = epoch /\ x.epoch # 0
  <2>1. v[1] <= x.epoch /\ x.epoch \in Nat
    BY <1>2, OwnedNotLater
  <2> QED
    BY <1>2, <2>1
<1>4. v[2] \in Serials /\ HasVersion(x, v[2])
  BY <1>2, <1>3, OwnedOfEpoch
<1> QED
  BY <1>1, <1>2, <1>3, <1>4 DEF RowInv, Contents, Running

\* The execution phase starts.
LEMMA StartExecutionKeeps ==
    ASSUME IInv, IInv', DInv, StartExecution
    PROVE  DataTypeOK' /\ FreshRegions' /\ \A k \in Keys : RowInv(k)'
<1>1. /\ phase = "init" /\ AtBarrier /\ phase' = "exec"
      /\ todo' = [w \in Workers |-> Work("exec", txs, w)]
      /\ UNCHANGED <<epoch, txs, db, op, pc, region, row_region_, row_epoch, master_,
                     global_array_, used_, core_bitmap_, transaction_bitmap_, slots_, status>>
  BY DEF StartExecution, memVars, rowVars, regionVars
<1>2. DataTypeOK' /\ FreshRegions'
  BY <1>1 DEF DInv, DataTypeOK, FreshRegions
<1>3. (\A k \in Keys : Writers(k) \subseteq Waiting(k))'
  <2>1. \A w \in Workers : todo'[w] = Work("exec", txs, w)
    BY <1>1
  <2>2. ASSUME NEW w \in Workers PROVE Work(phase, txs, w)' = Work("exec", txs, w)
    BY <1>1 DEF Work, Serial, InitSerial, ExecSerial
  <2>3. txs' \in Workloads
    BY <1>1 DEF IInv, ControlTypeOK
  <2>4. LoopsStart'
    BY <2>1, <2>2, <2>3 DEF LoopsStart
  <2> QED
    BY <2>4, AllWaitingNext
<1>4. Progress /\ Running
  BY <1>1 DEF DInv, Running
<1>5. ASSUME NEW k \in Keys PROVE RowInv(k)'
  <2>1. /\ Row(k)' = Row(k) /\ Fillers(k)' = {} /\ Fillers(k) = {}
        /\ RowEpoch(k)' = RowEpoch(k) /\ AtRest(Row(k))
    BY <1>1, BarrierRow
  <2>2. RowInv(k)
    BY DEF DInv
  <2>3. RowOK(Row(k)')
    BY <2>1, <2>2 DEF RowInv
  <2>4. Filed(k) = Writers(k)
    <3>1. Waiting(k) = {}
      BY <1>1, <1>4, WaitingIs
    <3> QED
      BY <1>1, <3>1 DEF Filed
  <2>5. Filed(k)' = Filed(k)
    <3>1. Writers(k)' = Writers(k)
      BY <1>1, SameWriters
    <3> QED
      BY <1>1, <2>4, <3>1 DEF Filed
  <2>6. Contents(k)'
    BY <1>1, <2>1, <2>2, <2>5 DEF RowInv, Contents
  <2>7. NoEmptyArrays(k)'
    BY <2>1 DEF NoEmptyArrays, AtRest
  <2>8. OnePlace(k)'
    BY <1>1, <2>1, <2>2 DEF RowInv, OnePlace, NoRegion
  <2>9. StatusesOK(k)'
    <3>1. ASSUME NEW v \in Owned(Row(k)), v[1] = epoch
          PROVE  status[k][v] = "pending" /\ v[2] \in Waiting(k)'
      <4>1. v[2] \in Writers(k)
        BY <1>4, <2>4, <3>1, OwnedByWriter
      <4>2. Writers(k)' = Writers(k)
        BY <1>1, SameWriters
      <4>3. v[2] \in Waiting(k)'
        BY <1>3, <4>1, <4>2
      <4> QED
        BY <1>1, <2>2, <3>1, <4>3 DEF RowInv, StatusesOK, StatusOf
    <3>2. \A v \in Owned(Row(k)) : v[1] < epoch => status[k][v] = "stable"
      BY <2>2 DEF RowInv, StatusesOK
    <3> QED
      BY <1>1, <2>1, <3>1, <3>2 DEF StatusesOK, StatusOf
  <2>10. FinalOK(k)'
    BY <1>1, <2>1, <2>2 DEF RowInv, FinalOK
  <2> QED
    BY <2>3, <2>6, <2>7, <2>8, <2>9, <2>10 DEF RowInv
<1> QED
  BY <1>2, <1>5

\* The serial numbers in the containers of row x are those of W.
Holds(x, W) == W \subseteq Serials /\ \A s \in Serials : s \in W <=> HasVersion(x, s)

\* A row at rest that has its versions in the global array
LEMMA HeldInGlobal ==
    ASSUME NEW x, RowOK(x), x.epoch # 0, AtRest(x), NEW W, Holds(x, W), x.global # {}
    PROVE  /\ \A v \in x.global : v = <<x.epoch, v[2]>> /\ v[2] \in W
           /\ \A s \in W : <<x.epoch, s>> \in x.global
<1>1. x.cores = {} /\ x.global \subseteq Versions
  BY DEF AtRest, RowOK, RowTyped
<1>2. ASSUME NEW v \in x.global PROVE v = <<x.epoch, v[2]>> /\ v[2] \in W
  <2>1. v = <<v[1], v[2]>>
    BY <1>1 DEF Versions
  <2>2. v[1] = x.epoch /\ v[2] \in Serials
    BY DEF RowOK
  <2>3. v = <<x.epoch, v[2]>>
    BY <2>1, <2>2
  <2>4. HasVersion(x, v[2])
    BY <2>3 DEF HasVersion
  <2> QED
    BY <2>2, <2>3, <2>4 DEF Holds
<1>3. ASSUME NEW s \in W PROVE <<x.epoch, s>> \in x.global
  <2>1. HasVersion(x, s)
    BY DEF Holds
  <2> QED
    BY <1>1, <2>1 DEF HasVersion
<1> QED
  BY <1>2, <1>3

\* ... and in the region
LEMMA HeldInRegion ==
    ASSUME NEW x, RowOK(x), x.epoch # 0, AtRest(x), NEW W, Holds(x, W), x.global = {}
    PROVE  /\ \A c \in x.cores : \A t \in x.bits[c] :
                 c \in Cores /\ t \in Cores /\ c * N + t \in W
           /\ \A s \in W : \E c \in Cores, t \in Cores :
                 s = c * N + t /\ c \in x.cores /\ t \in x.bits[c]
<1>1. x.cores \subseteq Cores /\ x.bits \in [Cores -> SUBSET Cores]
  BY DEF RowOK, RowTyped
<1>2. ASSUME NEW c \in x.cores, NEW t \in x.bits[c]
      PROVE  c \in Cores /\ t \in Cores /\ c * N + t \in W
  <2>1. c \in Cores /\ t \in Cores
    BY <1>1
  <2>2. PICK s \in Serials : s = c * N + t
    BY <2>1, SerialOf
  <2>3. get_core_serial(s) = c /\ get_tx_serial(s) = t
    BY <2>1, <2>2, SerialOf
  <2>4. HasVersion(x, s)
    BY <2>3 DEF HasVersion
  <2> QED
    BY <2>1, <2>2, <2>4 DEF Holds
<1>3. ASSUME NEW s \in W
      PROVE  \E c \in Cores, t \in Cores : s = c * N + t /\ c \in x.cores /\ t \in x.bits[c]
  <2>1. s \in Serials /\ HasVersion(x, s)
    BY DEF Holds
  <2>2. PICK c \in Cores, t \in Cores :
           c = get_core_serial(s) /\ t = get_tx_serial(s) /\ s = c * N + t
    BY <2>1, CoreAndTx
  <2>3. c \in x.cores /\ t \in x.bits[c]
    BY <2>1, <2>2 DEF HasVersion
  <2> QED
    BY <2>2, <2>3
<1> QED
  BY <1>2, <1>3

\* The final state of a row at rest is the version of its last writer.
LEMMA FinalIs ==
    ASSUME NEW x, RowOK(x), x.epoch # 0, AtRest(x), NEW W, Holds(x, W), W # {}
    PROVE  Final(x) = <<x.epoch, Max(W)>>
<1>1. W \subseteq Nat /\ Max(W) \in W /\ \A s \in W : s <= Max(W)
  BY MaxOfSerials, SerialsAreNatural DEF Holds
<1>2. CASE x.global # {}
  <2>1. PICK l : l = Latest(x.global)
    OBVIOUS
  <2>2. x.global \subseteq Versions
    BY DEF RowOK, RowTyped
  <2>3. l \in x.global /\ \A u \in x.global : u[2] <= l[2]
    BY <1>2, <2>1, <2>2, LatestIs
  <2>4. l = <<x.epoch, l[2]>> /\ l[2] \in W
    BY <1>2, <2>3, HeldInGlobal
  <2>5. \A s \in W : s <= l[2]
    <3>1. ASSUME NEW s \in W PROVE s <= l[2]
      <4>1. PICK u \in x.global : u = <<x.epoch, s>>
        BY <1>2, HeldInGlobal
      <4>2. u[2] = s
        BY <4>1
      <4> QED
        BY <2>3, <4>2
    <3> QED
      BY <3>1
  <2>6. Max(W) = l[2]
    BY <1>1, <2>4, <2>5, MaxIs
  <2> QED
    BY <1>2, <2>1, <2>4, <2>6 DEF Final
<1>3. CASE x.global = {}
  <2>1. x.cores # {}
    BY <1>1, <1>3, HeldInRegion
  <2>2. PICK c : c = Max(x.cores)
    OBVIOUS
  <2>3. x.cores \subseteq Cores /\ x.bits \in [Cores -> SUBSET Cores]
    BY DEF RowOK, RowTyped
  <2>4. c \in x.cores /\ c \in Cores /\ \A d \in x.cores : d <= c
    BY <2>1, <2>2, <2>3, MaxOfCores
  <2>5. PICK m : m = Max(x.bits[c])
    OBVIOUS
  <2>6. m \in x.bits[c] /\ m \in Cores /\ \A t \in x.bits[c] : t <= m
    BY <2>3, <2>4, <2>5, MaxOfCores DEF AtRest
  <2>7. Final(x) = <<x.epoch, c * N + m>>
    <3>1. /\ x.arrays[c][Len(x.arrays[c])] = <<x.epoch, c * N + Max(x.bits[c])>>
          /\ Last(x.arrays[c]) = x.arrays[c][Len(x.arrays[c])]
      BY <2>1, <2>2, LastOfRegion DEF AtRest
    <3> QED
      BY <1>3, <2>1, <2>2, <2>5, <3>1 DEF Final
  <2>8. c * N + m \in W
    BY <1>3, <2>4, <2>6, HeldInRegion
  <2>9. \A s \in W : s <= c * N + m
    <3>1. ASSUME NEW s \in W PROVE s <= c * N + m
      <4>1. PICK d \in Cores, t \in Cores : s = d * N + t /\ d \in x.cores /\ t \in x.bits[d]
        BY <1>3, HeldInRegion
      <4>2. d <= c /\ (d = c => t <= m)
        BY <2>4, <2>6, <4>1
      <4>3. ~(c < d \/ (c = d /\ m < t))
        BY <2>4, <2>6, <4>1, <4>2, CoresAreNatural
      <4>4. ~(c * N + m < d * N + t)
        BY <2>4, <2>6, <4>1, <4>3, SerialOf
      <4>5. PICK a \in Nat, b \in Nat : a = c * N + m /\ b = d * N + t
        BY <1>1, <2>8, <4>1
      <4>6. ~(a < b) /\ s = b
        BY <4>1, <4>4, <4>5
      <4>7. s <= a
        BY <4>5, <4>6
      <4> QED
        BY <4>5, <4>7
    <3> QED
      BY <3>1
  <2>10. Max(W) = c * N + m
    BY <1>1, <2>8, <2>9, MaxIs
  <2> QED
    BY <2>7, <2>10
<1> QED
  BY <1>2, <1>3

\* When all updates of the execution phase are made, what the row owns is stable.
LEMMA AllStable ==
    ASSUME IInv, DInv, phase = "exec", AtBarrier, NEW k \in Keys, NEW v \in Owned(Row(k))
    PROVE  status[k][v] = "stable" /\ v[1] <= epoch /\ v[1] \in Nat
<1>1. Progress /\ Running /\ RowInv(k) /\ DataTypeOK
  BY DEF DInv, Running
<1>2. Waiting(k) = {} /\ Writing(k) = {}
  BY <1>1, WaitingIs
<1>3. \A s : StatusOf(k, s) = "stable"
  BY <1>2 DEF StatusOf
<1>4. /\ v[1] < epoch => status[k][v] = "stable"
      /\ v[1] = epoch => status[k][v] = "stable"
  BY <1>1, <1>3 DEF RowInv, StatusesOK
<1>5. v[1] <= Row(k).epoch /\ v[1] \in Nat /\ Row(k).epoch \in Nat
  BY <1>1, OwnedNotLater DEF RowInv
<1>6. Row(k).epoch <= epoch /\ epoch \in Nat
  BY <1>1, RowIs, RowEpochIs DEF Progress, EpochsOK
<1> QED
  BY <1>4, <1>5, <1>6

\* The serial numbers a row holds in the execution phase are its writers.
LEMMA HoldsWriters ==
    ASSUME DInv, phase = "exec", NEW k \in Keys
    PROVE  /\ RowEpoch(k) = epoch <=> Writers(k) # {}
           /\ RowEpoch(k) = epoch => Holds(Row(k), Writers(k)) /\ Row(k).epoch = epoch
           /\ Row(k).epoch = RowEpoch(k) /\ RowEpoch(k) = row_epoch[k]
           /\ Writers(k) \subseteq Serials
<1>1. RowInv(k) /\ Progress /\ DataTypeOK
  BY DEF DInv
<1>2. RowEpoch(k) = row_epoch[k]
  BY <1>1 DEF RowEpoch, Progress, LabelsOfPhase
<1>3. RowEpoch(k) = epoch => Writers(k) # {}
  BY <1>1, <1>2 DEF Progress, EpochsOK
<1>4. Filed(k) = Writers(k)
  BY DEF Filed
<1>5. RowEpoch(k) # epoch => Writers(k) = {}
  BY <1>1, <1>4 DEF RowInv, Contents
<1>6. Writers(k) \subseteq Serials
  BY DEF Writers
<1>7. RowEpoch(k) = epoch => Holds(Row(k), Writers(k))
  BY <1>1, <1>4, <1>6 DEF RowInv, Contents, Holds
<1> QED
  BY <1>2, <1>3, <1>5, <1>6, <1>7, RowIs

\* The next epoch starts: the containers of a row end with its last writer.
LEMMA NewEpochKeeps ==
    ASSUME IInv, IInv', DInv, Progress', NewEpoch
    PROVE  DataTypeOK' /\ FreshRegions' /\ \A k \in Keys : RowInv(k)'
<1>1. /\ phase = "exec" /\ AtBarrier /\ epoch' = epoch + 1
      /\ db' = [k \in Keys |-> IF Writers(k) = {} THEN db[k] ELSE <<epoch, Max(Writers(k))>>]
      /\ UNCHANGED <<pc, region, row_region_, row_epoch, master_,
                     global_array_, used_, core_bitmap_, transaction_bitmap_, slots_, status>>
  BY DEF NewEpoch, memVars, rowVars, regionVars
<1>2. \/ /\ phase' = "init" /\ txs' \in Workloads
         /\ todo' = [w \in Workers |-> Work("init", txs', w)]
      \/ phase' = "end"
  BY DEF NewEpoch
<1>3. DataTypeOK' /\ FreshRegions'
  BY <1>1 DEF DInv, DataTypeOK, FreshRegions
<1>4. phase' = "init" => (\A k \in Keys : Writers(k) \subseteq Waiting(k))'
  <2>1. ASSUME phase' = "init" PROVE LoopsStart'
    <3>1. \A w \in Workers : todo'[w] = Work("init", txs', w)
      BY <1>2, <2>1
    <3>2. ASSUME NEW w \in Workers PROVE Work(phase, txs, w)' = Work("init", txs', w)
      BY <2>1 DEF Work, Serial, InitSerial, ExecSerial
    <3>3. txs' \in Workloads
      BY <1>2, <2>1
    <3> QED
      BY <3>1, <3>2, <3>3 DEF LoopsStart
  <2> QED
    BY <2>1, AllWaitingNext
<1>5. Progress /\ DataTypeOK /\ epoch \in Nat \ {0}
  BY DEF DInv, Progress, EpochsOK
<1>6. ASSUME NEW k \in Keys PROVE RowInv(k)'
  <2>1. /\ Row(k)' = Row(k) /\ Fillers(k)' = {} /\ Fillers(k) = {}
        /\ RowEpoch(k) = row_epoch[k] /\ RowEpoch(k)' = RowEpoch(k) /\ AtRest(Row(k))
    BY <1>1, BarrierRow
  <2>2. RowInv(k)
    BY DEF DInv
  <2>3. RowOK(Row(k)')
    BY <2>1, <2>2 DEF RowInv
  <2>4. RowEpoch(k)' # epoch' /\ RowEpoch(k)' < epoch'
    <3>1. RowEpoch(k) \in Nat /\ RowEpoch(k) <= epoch
      BY <1>5, RowEpochIs
    <3> QED
      BY <1>1, <1>5, <2>1, <3>1
  <2>5. Contents(k)'
    <3>1. phase' = "init" => Filed(k)' = {}
      BY <1>4 DEF Filed
    <3> QED
      BY <1>2, <2>4, <3>1 DEF Contents
  <2>6. NoEmptyArrays(k)'
    BY <2>1 DEF NoEmptyArrays, AtRest
  <2>7. OnePlace(k)'
    BY <1>1, <2>1, <2>2 DEF RowInv, OnePlace, NoRegion
  <2>8. StatusesOK(k)'
    <3>1. ASSUME NEW v \in Owned(Row(k)) PROVE status[k][v] = "stable" /\ v[1] # epoch'
      <4>1. status[k][v] = "stable" /\ v[1] <= epoch /\ v[1] \in Nat
        BY <1>1, AllStable
      <4> QED
        BY <1>1, <1>5, <4>1
    <3> QED
      BY <1>1, <2>1, <3>1 DEF StatusesOK
  <2>9. Final(Row(k)) = db'[k]
    <3>1. CASE Writers(k) = {}
      <4>1. RowEpoch(k) # epoch
        BY <1>1, <3>1, HoldsWriters
      <4>2. Final(Row(k)) = db[k]
        BY <2>2, <4>1 DEF RowInv, FinalOK
      <4> QED
        BY <1>1, <3>1, <4>2
    <3>2. CASE Writers(k) # {}
      <4>1. Holds(Row(k), Writers(k)) /\ Row(k).epoch = epoch
        BY <1>1, <3>2, HoldsWriters
      <4>2. RowOK(Row(k))
        BY <2>2 DEF RowInv
      <4>3. Final(Row(k)) = <<epoch, Max(Writers(k))>>
        BY <1>5, <2>1, <3>2, <4>1, <4>2, FinalIs
      <4> QED
        BY <1>1, <3>2, <4>3
    <3> QED
      BY <3>1, <3>2
  <2>10. FinalOK(k)'
    BY <2>1, <2>4, <2>9 DEF FinalOK
  <2> QED
    BY <2>3, <2>5, <2>6, <2>7, <2>8, <2>10 DEF RowInv
<1> QED
  BY <1>3, <1>6

\* Every step keeps the types and the rows.
LEMMA NextKeepsRows ==
    ASSUME IInv, IInv', DInv, Progress', Next
    PROVE  DataTypeOK' /\ FreshRegions' /\ \A k \in Keys : RowInv(k)'
<1>1. CASE StartExecution
  BY <1>1, StartExecutionKeeps
<1>2. CASE NewEpoch
  BY <1>2, NewEpochKeeps
<1>3. ASSUME NEW w \in Workers, Step(w)
      PROVE  DataTypeOK' /\ FreshRegions' /\ \A k \in Keys : RowInv(k)'
  <2>0. row_epoch[Key(w)] < epoch \/ row_epoch[Key(w)] >= epoch
    <3>1. row_epoch[Key(w)] \in Nat /\ epoch \in Nat
      BY DEF DInv, DataTypeOK, Progress, EpochsOK, IInv, ControlTypeOK, Key
    <3> QED
      BY <3>1
  <2>1. CASE PlainActions(w)
    BY <2>1, PlainActionsArePlain, PlainStepKeeps
  <2>2. CASE Begin(w)
    BY <2>2, BeginKeeps
  <2>3. CASE initialize_the_row(w) /\ row_epoch[Key(w)] < epoch
    BY <2>3, InitializeFromGlobal, InitializeFromRegion
  <2>4. CASE store_epoch(w)
    BY <2>4, StoreEpochKeeps
  <2>5. CASE append_to_unconted_row(w)
    BY <2>5, UncontendedAppendKeeps
  <2>6. CASE fetch_new_region(w)
    BY <2>6, FetchKeeps
  <2>7. CASE move_global_array_to_row_region(w)
    BY <2>7, MoveKeeps, PublishKeeps
  <2>8. CASE publish_region(w)
    BY <2>8, PublishKeeps
  <2>9. CASE first_write_of_core(w)
    BY <2>9, FirstWriteKeeps
  <2>10. CASE append_to_contented_row(w)
    BY <2>10, ContendedAppendKeeps
  <2>11. CASE write_rec(w)
    <3>1. WriteStep(w, "write", "written", "write_status")
      BY <2>11 DEF write_rec, WriteStep
    <3> QED
      BY <3>1, WriteKeeps
  <2>12. CASE write_status(w)
    <3>1. WriteStep(w, "write_status", "stable", "begin")
      BY <2>12 DEF write_status, WriteStep
    <3> QED
      BY <3>1, WriteKeeps
  <2> QED
    BY <1>3, <2>0, <2>1, <2>2, <2>3, <2>4, <2>5, <2>6, <2>7, <2>8, <2>9, <2>10, <2>11, <2>12
       DEF Step, PlainActions
<1> QED
  BY <1>1, <1>2, <1>3 DEF Next
-------------------------------------------------------------------------------
(***************************************************************************)
(* Reads                                                                   *)
(***************************************************************************)

\* In the execution phase all rows are at rest.
LEMMA RestInExecution ==
    ASSUME IInv, DInv, phase = "exec", NEW k \in Keys
    PROVE  AtRest(Row(k)) /\ RegionOf(k) = row_region_[k]
<1>1. \A w \in Workers : pc[w] \notin Filling
  BY DEF DInv, Progress, LabelsOfPhase, Filling
<1>2. Fillers(k) = {}
  BY <1>1 DEF Fillers
<1>3. RegionOf(k) = row_region_[k]
  BY <1>2, RegionsOwn DEF RegionIsOwn
<1>4. PICK x : x = Row(k)
  OBVIOUS
<1>5. ASSUME x.cores # {} PROVE x.global = {}
  <2>1. row_region_[k] # NoRegion
    BY <1>3, <1>4, <1>5, RowIs
  <2>2. global_array_[k] = {}
    BY <2>1 DEF DInv, RowInv, OnePlace
  <2> QED
    BY <1>4, <2>2, RowIs
<1>6. \A c \in x.cores : x.bits[c] # {}
  BY <1>4 DEF DInv, RowInv, NoEmptyArrays
<1> QED
  BY <1>3, <1>4, <1>5, <1>6 DEF AtRest

\* Serial numbers are ordered by core, then by transaction.
LEMMA SerialOrder ==
    ASSUME NEW c \in Cores, NEW m \in Cores, NEW d \in Cores, NEW b \in Cores,
           d < c \/ (d = c /\ b <= m)
    PROVE  d * N + b <= c * N + m
<1>1. ~(c < d \/ (c = d /\ m < b))
  BY CoresAreNatural
<1>2. ~(c * N + m < d * N + b)
  BY <1>1, SerialOf
<1>3. PICK u \in Nat, v \in Nat : u = c * N + m /\ v = d * N + b
  BY SerialOf, SerialsAreNatural
<1>4. v <= u
  BY <1>2, <1>3
<1> QED
  BY <1>3, <1>4

Prior(W, s) == {u \in W : u < s}

PriorIn(G, s) == {v \in G : v[2] < s}

\* The versions before serial number s, in the global array
LEMMA VisibleGlobal ==
    ASSUME NEW x, RowOK(x), x.epoch # 0, AtRest(x), NEW W, Holds(x, W), x.global # {},
           NEW s \in Serials, NEW B, B = Prior(W, s), NEW vs, vs = PriorIn(x.global, s)
    PROVE  /\ vs = {} <=> B = {}
           /\ B # {} => Latest(vs) = <<x.epoch, Max(B)>>
<1> USE DEF Prior, PriorIn
<1>1. W \subseteq Nat
  BY SerialsAreNatural DEF Holds
<1>2. ASSUME NEW v \in vs PROVE v \in x.global /\ v = <<x.epoch, v[2]>> /\ v[2] \in B
  BY HeldInGlobal
<1>3. ASSUME NEW u \in B PROVE \E v \in vs : v[2] = u
  <2>1. PICK v \in x.global : v = <<x.epoch, u>>
    BY HeldInGlobal
  <2>2. v[2] = u
    BY <2>1
  <2> QED
    BY <2>2
<1>4. ASSUME B # {} PROVE Latest(vs) = <<x.epoch, Max(B)>>
  <2>1. vs # {} /\ vs \subseteq Versions
    BY <1>3, <1>4 DEF RowOK, RowTyped
  <2>2. PICK l : l = Latest(vs)
    OBVIOUS
  <2>3. l \in vs /\ \A u \in vs : u[2] <= l[2]
    BY <2>1, <2>2, LatestIs
  <2>4. l = <<x.epoch, l[2]>> /\ l[2] \in B
    BY <1>2, <2>3
  <2>5. \A u \in B : u <= l[2]
    BY <1>3, <2>3
  <2>6. Max(B) = l[2]
    BY <1>1, <2>4, <2>5, MaxIs
  <2> QED
    BY <2>2, <2>4, <2>6
<1> QED
  BY <1>2, <1>3, <1>4

\* A slot found by counting bits has the version of the bit.
LEMMA SlotFound ==
    ASSUME NEW x, RowOK(x), NEW c \in x.cores, NEW t \in x.bits[c]
    PROVE  x.arrays[c][Rank(x.bits[c], t)] = <<x.epoch, c * N + t>>
  BY DEF RowOK, Opened

\* What identify_visible_version does with the bitmaps and arrays of row x
Found(x, core, t) ==
    LET smaller == {c \in x.cores : c < core}
        own     == {u \in x.bits[core] : u < t}
        Slot(c, u) == x.arrays[c][Rank(x.bits[c], u)]
    IN  IF core \in x.cores /\ own # {} THEN {Slot(core, Max(own))}
        ELSE IF smaller # {} THEN {Slot(Max(smaller), Max(x.bits[Max(smaller)]))}
        ELSE {}

\* It finds the last version before serial number core * N + t.
LEMMA FoundIs ==
    ASSUME NEW x, RowOK(x), x.epoch # 0, AtRest(x), NEW W, Holds(x, W), x.global = {},
           NEW core \in Cores, NEW t \in Cores, NEW s, s = core * N + t,
           NEW B, B = Prior(W, s)
    PROVE  Found(x, core, t) = IF B = {} THEN {} ELSE {<<x.epoch, Max(B)>>}
<1> DEFINE smaller == {c \in x.cores : c < core}
           own     == {u \in x.bits[core] : u < t}
<1> USE DEF Prior
<1>1. W \subseteq Nat /\ x.cores \subseteq Cores /\ x.bits \in [Cores -> SUBSET Cores]
  BY SerialsAreNatural DEF Holds, RowOK, RowTyped
<1>2. ASSUME NEW z \in B
      PROVE  \E d \in Cores, b \in Cores :
                /\ z = d * N + b /\ d \in x.cores /\ b \in x.bits[d]
                /\ d \in smaller \/ (d = core /\ b \in own)
  <2>1. PICK d \in Cores, b \in Cores : z = d * N + b /\ d \in x.cores /\ b \in x.bits[d]
    BY HeldInRegion
  <2>2. d * N + b < core * N + t
    BY <2>1
  <2>3. d < core \/ (d = core /\ b < t)
    BY <2>1, <2>2, SerialOf
  <2> QED
    BY <2>1, <2>3
<1>3. ASSUME NEW c \in x.cores, NEW u \in x.bits[c], c < core \/ (c = core /\ u < t)
      PROVE  c * N + u \in B
  <2>1. c \in Cores /\ u \in Cores /\ c * N + u \in W
    BY HeldInRegion
  <2>2. c * N + u < core * N + t
    BY <1>3, <2>1, SerialOf
  <2> QED
    BY <2>1, <2>2
<1>4. ASSUME NEW c \in Cores, NEW m \in Cores, c * N + m \in B,
             \A d \in Cores, b \in Cores :
                 d \in x.cores /\ b \in x.bits[d] /\ (d \in smaller \/ (d = core /\ b \in own))
                   => d < c \/ (d = c /\ b <= m)
      PROVE  B # {} /\ Max(B) = c * N + m
  <2>1. ASSUME NEW z \in B PROVE z <= c * N + m
    <3>1. PICK d, b : /\ d \in Cores /\ b \in Cores
                      /\ z = d * N + b /\ d \in x.cores /\ b \in x.bits[d]
                      /\ d \in smaller \/ (d = core /\ b \in own)
      BY <1>2
    <3>2. d < c \/ (d = c /\ b <= m)
      BY <1>4, <3>1
    <3> QED
      BY <3>1, <3>2, SerialOrder
  <2>2. Max(B) = c * N + m
    BY <1>1, <1>4, <2>1, MaxIs
  <2> QED
    BY <1>4, <2>2
<1>5. CASE core \in x.cores /\ own # {}
  <2>1. PICK m : m = Max(own)
    OBVIOUS
  <2>2. own \subseteq Cores
    BY <1>1
  <2>3. m \in own /\ m \in Cores /\ \A u \in own : u <= m
    BY <1>5, <2>1, <2>2, MaxOfCores
  <2>4. x.arrays[core][Rank(x.bits[core], m)] = <<x.epoch, core * N + m>>
    BY <1>5, <2>3, SlotFound
  <2>5. core * N + m \in B
    BY <1>3, <1>5, <2>3
  <2>6. B # {} /\ Max(B) = core * N + m
    BY <1>4, <2>3, <2>5
  <2>7. Found(x, core, t) = {x.arrays[core][Rank(x.bits[core], m)]}
    BY <1>5, <2>1 DEF Found
  <2> QED
    BY <2>4, <2>6, <2>7
<1>6. CASE ~(core \in x.cores /\ own # {}) /\ smaller # {}
  <2>1. PICK c : c = Max(smaller)
    OBVIOUS
  <2>2. smaller \subseteq Cores
    BY <1>1
  <2>3. c \in smaller /\ c \in Cores /\ c \in x.cores /\ c < core /\ \A d \in smaller : d <= c
    BY <1>6, <2>1, <2>2, MaxOfCores
  <2>4. PICK m : m = Max(x.bits[c])
    OBVIOUS
  <2>5. m \in x.bits[c] /\ m \in Cores /\ \A u \in x.bits[c] : u <= m
    BY <1>1, <2>3, <2>4, MaxOfCores DEF AtRest
  <2>6. x.arrays[c][Rank(x.bits[c], m)] = <<x.epoch, c * N + m>>
    BY <2>3, <2>5, SlotFound
  <2>7. c * N + m \in B
    BY <1>3, <2>3, <2>5
  <2>8. ASSUME NEW d \in Cores, NEW b \in Cores, d \in x.cores, b \in x.bits[d],
               d \in smaller \/ (d = core /\ b \in own)
        PROVE  d < c \/ (d = c /\ b <= m)
    <3>1. d \in smaller
      BY <1>6, <2>8
    <3> QED
      BY <2>3, <2>5, <2>8, <3>1, CoresAreNatural
  <2>9. B # {} /\ Max(B) = c * N + m
    BY <1>4, <2>3, <2>5, <2>7, <2>8
  <2>10. Found(x, core, t) = {x.arrays[c][Rank(x.bits[c], m)]}
    BY <1>6, <2>1, <2>4 DEF Found
  <2> QED
    BY <2>6, <2>9, <2>10
<1>7. CASE ~(core \in x.cores /\ own # {}) /\ smaller = {}
  <2>1. B = {}
    BY <1>2, <1>7
  <2>2. Found(x, core, t) = {}
    BY <1>7 DEF Found
  <2> QED
    BY <2>1, <2>2
<1> QED
  BY <1>5, <1>6, <1>7

\* A read finds the version of the last writer before it, and none when there is
\* no such writer.
LEMMA VisibleIs ==
    ASSUME IInv, DInv, phase = "exec", NEW w \in Workers, pc[w] # "begin",
           NEW k, k = Key(w), NEW s, s = op[w].serial,
           NEW B, B = Prior(Writers(k), s)
    PROVE  Visible(k, op[w]) = IF B = {} THEN {} ELSE {<<epoch, Max(B)>>}
<1>1. k \in Keys /\ s \in Serials
  BY DEF IInv, ControlTypeOK, Key
<1>2. PICK x : x = Row(k)
  OBVIOUS
<1>3. RowOK(x) /\ Progress /\ Running /\ epoch # 0
  BY <1>1, <1>2 DEF DInv, RowInv, Running, Progress, EpochsOK
<1>4. AtRest(x) /\ RegionOf(k) = row_region_[k]
  BY <1>1, <1>2, RestInExecution
<1>5. /\ row_epoch[k] = epoch <=> Writers(k) # {}
      /\ row_epoch[k] = epoch => Holds(x, Writers(k)) /\ x.epoch = epoch
  BY <1>1, <1>2, HoldsWriters
<1>6. PICK core \in Cores, t \in Cores :
         core = op[w].core /\ core = get_core_serial(s) /\ t = get_tx_serial(s) /\ s = core * N + t
  <2>1. op[w].core = get_core_serial(s)
    BY <1>3, OperationOf
  <2> QED
    BY <1>1, <2>1, CoreAndTx
<1>7. CASE row_epoch[k] # epoch
  <2>1. B = {}
    BY <1>5, <1>7 DEF Prior
  <2> QED
    BY <1>7, <2>1 DEF Visible
<1>8. CASE row_epoch[k] = epoch /\ global_array_[k] # {}
  <2>1. PICK vs : vs = PriorIn(x.global, s)
    OBVIOUS
  <2>2. x.global = global_array_[k] /\ x.global # {}
    BY <1>1, <1>2, <1>8, RowIs
  <2>3. vs = VisibleInGlobalArray(k, s)
    BY <2>1, <2>2 DEF VisibleInGlobalArray, PriorIn
  <2>4. Visible(k, op[w]) = IF vs = {} THEN {} ELSE {Latest(vs)}
    BY <1>8, <2>3 DEF Visible
  <2>5. PICK W : W = Writers(k)
    OBVIOUS
  <2>6. Holds(x, W) /\ x.epoch = epoch /\ x.epoch # 0 /\ B = Prior(W, s)
    BY <1>3, <1>5, <1>8, <2>5
  <2>7. (vs = {} <=> B = {}) /\ (B # {} => Latest(vs) = <<x.epoch, Max(B)>>)
    BY <1>1, <1>3, <1>4, <2>1, <2>2, <2>6, VisibleGlobal
  <2> QED
    BY <2>4, <2>6, <2>7
<1>9. CASE row_epoch[k] = epoch /\ global_array_[k] = {} /\ has_dirty_region(k)
  <2>1. PICK r : r = row_region_[k] /\ r # NoRegion /\ r = RegionOf(k)
    BY <1>4, <1>9 DEF has_dirty_region
  <2>2. /\ x.global = {} /\ x.cores = core_bitmap_[r] /\ x.bits = transaction_bitmap_[r]
        /\ x.arrays = slots_[r]
    BY <1>1, <1>2, <1>9, <2>1, RowIs
  <2>3. Visible(k, op[w]) = VisibleInRegion(r, core, t)
    BY <1>6, <1>9, <2>1 DEF Visible
  <2>4. VisibleInRegion(r, core, t) = Found(x, core, t)
    BY <2>2 DEF VisibleInRegion, Found, LatestOfCore, SlotOf, Rank
  <2>5. PICK W : W = Writers(k)
    OBVIOUS
  <2>6. Holds(x, W) /\ x.epoch = epoch /\ x.epoch # 0 /\ B = Prior(W, s)
    BY <1>3, <1>5, <1>9, <2>5
  <2>7. s = core * N + t /\ x.global = {}
    BY <1>6, <2>2
  <2>8. Found(x, core, t) = IF B = {} THEN {} ELSE {<<x.epoch, Max(B)>>}
    BY <1>3, <1>4, <2>6, <2>7, FoundIs
  <2> QED
    BY <2>3, <2>4, <2>6, <2>8
<1>10. CASE row_epoch[k] = epoch /\ global_array_[k] = {} /\ ~has_dirty_region(k)
  <2>1. x.cores = {} /\ x.global = {}
    BY <1>1, <1>2, <1>4, <1>10, RowIs DEF has_dirty_region
  <2>2. Writers(k) = {}
    BY <1>3, <1>4, <1>5, <1>10, <2>1, HeldInRegion
  <2> QED
    BY <1>5, <1>10, <2>2
<1> QED
  BY <1>7, <1>8, <1>9, <1>10

\* The version of a writer is there, with the status of the writer's progress.
LEMMA WriterStatus ==
    ASSUME IInv, DInv, phase = "exec", NEW k \in Keys, NEW s \in Writers(k)
    PROVE  /\ status[k][<<epoch, s>>] = StatusOf(k, s)
           /\ RowEpoch(k) = epoch
<1>1. RowEpoch(k) = epoch /\ Holds(Row(k), Writers(k)) /\ Row(k).epoch = epoch /\ s \in Serials
  BY HoldsWriters
<1>2. PICK x : x = Row(k)
  OBVIOUS
<1>3. RowOK(x) /\ x.epoch = epoch /\ x.epoch # 0 /\ HasVersion(x, s) /\ RowInv(k)
  BY <1>1, <1>2 DEF DInv, RowInv, Progress, EpochsOK, Holds
<1>4. PICK v \in Owned(x) : v = <<epoch, s>>
  BY <1>1, <1>3, OwnedOfEpoch
<1>5. v[1] = epoch /\ v[2] = s
  BY <1>4
<1>6. status[k][v] = StatusOf(k, v[2])
  BY <1>2, <1>3, <1>4, <1>5 DEF RowInv, StatusesOK
<1> QED
  BY <1>1, <1>4, <1>5, <1>6

\* master_ is stable.
LEMMA MasterStable ==
    ASSUME DInv, NEW k \in Keys
    PROVE  status[k][master_[k]] = "stable"
<1>1. RowInv(k) /\ Row(k).master = master_[k] /\ Row(k).epoch = RowEpoch(k)
  BY RowIs DEF DInv
<1>2. RowEpoch(k) \in Nat /\ RowEpoch(k) <= epoch /\ epoch \in Nat \ {0}
  BY RowEpochIs DEF DInv, Progress, EpochsOK
<1>3. master_[k] \in Owned(Row(k))
  BY <1>1 DEF Owned
<1>4. master_[k][1] < epoch
  <2>1. master_[k][1] \in Nat
    BY EpochsAssumption DEF DInv, DataTypeOK, Versions
  <2>2. \/ master_[k][1] < RowEpoch(k)
        \/ RowEpoch(k) = 0 /\ master_[k] = <<0, -2>>
    BY <1>1 DEF RowInv, RowOK
  <2> QED
    BY <1>2, <2>1, <2>2
<1> QED
  BY <1>1, <1>3, <1>4 DEF RowInv, StatusesOK

\* A worker whose reads nobody touches.
LEMMA ReadKept ==
    ASSUME NEW w \in Workers, ReadOK(w), UNCHANGED <<epoch, phase, txs, db>>,
           pc'[w] = pc[w], op'[w] = op[w], visible'[w] = visible[w], got'[w] = got[w],
           JustRead(w) => status'[Key(w)][got[w]] = status[Key(w)][got[w]]
    PROVE  ReadOK(w)'
<1>1. Key(w)' = Key(w)
  BY DEF Key
<1>2. \A k : Writers(k)' = Writers(k)
  BY SameWriters
<1>3. \A k : WrittenInEpoch(k)' <=> WrittenInEpoch(k)
  BY <1>2 DEF WrittenInEpoch
<1>4. \A s, k : SerialRead(s, k)' = SerialRead(s, k)
  BY <1>2 DEF SerialRead
<1>5. JustRead(w)' <=> JustRead(w)
  BY DEF JustRead
<1> QED
  BY <1>1, <1>2, <1>3, <1>4, <1>5 DEF ReadOK

\* A worker that neither waits nor has just read.
LEMMA NoRead ==
    ASSUME NEW w \in Workers, pc'[w] # "wait_stable",
           phase' # "exec" \/ pc'[w] # "begin" \/ op'[w].ope # "Read"
    PROVE  ReadOK(w)'
  BY DEF ReadOK, JustRead

\* read
LEMMA ReadReturns ==
    ASSUME IInv, DInv, NEW w \in Workers, read(w)
    PROVE  ReadsTyped' /\ ReadsOK'
<1>0. PICK k : k = Key(w)
  OBVIOUS
<1>s. PICK s : s = op[w].serial
  OBVIOUS
<1>b. PICK B : B = Prior(Writers(k), s)
  OBVIOUS
<1>1. /\ phase = "exec" /\ pc[w] = "read"
      /\ UNCHANGED <<epoch, phase, txs, db, op, status>>
      /\ \/ /\ Visible(k, op[w]) = {}
            /\ got' = [got EXCEPT ![w] = master_[k]]
            /\ pc' = [pc EXCEPT ![w] = "begin"]
            /\ UNCHANGED visible
         \/ \E v \in Visible(k, op[w]) :
              /\ visible' = [visible EXCEPT ![w] = v]
              /\ pc' = [pc EXCEPT ![w] = "wait_stable"]
              /\ UNCHANGED got
  BY <1>0 DEF read, Goto, batchVars, memVars
<1>2. pc \in [Workers -> Labels] /\ ReadsTyped /\ k \in Keys /\ s \in Serials /\ Progress
  BY <1>0, <1>s DEF IInv, ControlTypeOK, DInv, Key
<1>3. Visible(k, op[w]) = IF B = {} THEN {} ELSE {<<epoch, Max(B)>>}
  BY <1>0, <1>s, <1>b, <1>1, VisibleIs
<1>4. ASSUME NEW u \in Workers, u # w PROVE ReadOK(u)'
  <2>1. ReadOK(u)
    BY DEF DInv, ReadsOK
  <2>2. pc'[u] = pc[u] /\ op'[u] = op[u] /\ visible'[u] = visible[u] /\ got'[u] = got[u]
    BY <1>1, <1>2, <1>4 DEF ReadsTyped
  <2> QED
    BY <1>1, <2>1, <2>2, ReadKept
<1>5. Key(w)' = k /\ op'[w].serial = s /\ Writers(k)' = Writers(k)
  BY <1>0, <1>s, <1>1, SameWriters DEF Key
<1>6. CASE B = {}
  <2>1. /\ got' = [got EXCEPT ![w] = master_[k]] /\ pc' = [pc EXCEPT ![w] = "begin"]
        /\ UNCHANGED visible
    BY <1>1, <1>3, <1>6
  <2>2. master_[k] \in Versions
    BY <1>2 DEF DInv, DataTypeOK
  <2>3. ReadsTyped' /\ got'[w] = master_[k] /\ pc'[w] = "begin"
    BY <1>2, <2>1, <2>2 DEF ReadsTyped
  <2>4. status'[k][master_[k]] = "stable"
    BY <1>1, <1>2, MasterStable
  <2>5. ASSUME Writers(k) # {} PROVE master_[k] = db[k]
    <3>1. RowEpoch(k) = epoch
      BY <1>1, <1>2, <2>5, HoldsWriters
    <3> QED
      BY <1>2, <3>1 DEF DInv, RowInv, FinalOK
  <2>6. SerialRead(s, k)' = db[k]
    BY <1>b, <1>1, <1>5, <1>6 DEF SerialRead, Prior
  <2>7. ReadOK(w)'
    BY <1>5, <2>2, <2>3, <2>4, <2>5, <2>6 DEF ReadOK, WrittenInEpoch
  <2> QED
    BY <1>4, <2>3, <2>7 DEF ReadsOK
<1>7. CASE B # {}
  <2>1. /\ visible' = [visible EXCEPT ![w] = <<epoch, Max(B)>>]
        /\ pc' = [pc EXCEPT ![w] = "wait_stable"] /\ UNCHANGED got
    BY <1>1, <1>3, <1>7
  <2>2. <<epoch, Max(B)>> \in Versions
    <3>1. B \subseteq Serials
      BY <1>b DEF Writers, Prior
    <3>2. Max(B) \in Serials
      BY <1>7, <3>1, MaxOfSerials
    <3> QED
      BY <1>1, <1>2, <3>2, VersionOfEpoch
  <2>3. ReadsTyped' /\ visible'[w] = <<epoch, Max(B)>> /\ pc'[w] = "wait_stable"
    BY <1>2, <2>1, <2>2 DEF ReadsTyped
  <2>4. ReadOK(w)'
    <3>1. ~JustRead(w)'
      BY <2>3 DEF JustRead
    <3> QED
      BY <1>b, <1>1, <1>5, <1>7, <2>3, <3>1 DEF ReadOK, Prior
  <2> QED
    BY <1>4, <2>3, <2>4 DEF ReadsOK
<1> QED
  BY <1>6, <1>7

\* wait_stable_and_execute_read
LEMMA WaitReturns ==
    ASSUME IInv, DInv, NEW w \in Workers, wait_stable_and_execute_read(w)
    PROVE  ReadsTyped' /\ ReadsOK'
<1>0. PICK k : k = Key(w)
  OBVIOUS
<1>s. PICK s : s = op[w].serial
  OBVIOUS
<1>b. PICK B : B = Prior(Writers(k), s)
  OBVIOUS
<1>1. /\ phase = "exec" /\ pc[w] = "wait_stable"
      /\ status[k][visible[w]] \notin {"pending", "written"}
      /\ got' = [got EXCEPT ![w] = visible[w]] /\ pc' = [pc EXCEPT ![w] = "begin"]
      /\ UNCHANGED <<epoch, phase, txs, db, op, status, visible>>
  BY <1>0 DEF wait_stable_and_execute_read, Goto, batchVars, memVars
<1>2. pc \in [Workers -> Labels] /\ ReadsTyped /\ k \in Keys
  BY <1>0 DEF IInv, ControlTypeOK, DInv, Key
<1>3. ReadsTyped' /\ got'[w] = visible[w] /\ pc'[w] = "begin"
  BY <1>1, <1>2 DEF ReadsTyped
<1>4. ASSUME NEW u \in Workers, u # w PROVE ReadOK(u)'
  <2>1. ReadOK(u)
    BY DEF DInv, ReadsOK
  <2>2. pc'[u] = pc[u] /\ op'[u] = op[u] /\ visible'[u] = visible[u] /\ got'[u] = got[u]
    BY <1>1, <1>2, <1>4 DEF ReadsTyped
  <2> QED
    BY <1>1, <2>1, <2>2, ReadKept
<1>5. Key(w)' = k /\ op'[w].serial = s /\ Writers(k)' = Writers(k)
  BY <1>0, <1>s, <1>1, SameWriters DEF Key
<1>6. B # {} /\ visible[w] = <<epoch, Max(B)>>
  BY <1>0, <1>s, <1>b, <1>1 DEF DInv, ReadsOK, ReadOK, Prior
<1>7. Max(B) \in Writers(k)
  <2>1. B \subseteq Serials
    BY <1>b DEF Writers, Prior
  <2> QED
    BY <1>b, <1>6, <2>1, MaxOfSerials DEF Prior
<1>v. visible[w] \in Versions
  <2>1. Max(B) \in Serials /\ Progress
    BY <1>7 DEF Writers, DInv
  <2> QED
    BY <1>1, <1>6, <2>1, VersionOfEpoch
<1>8. status[k][visible[w]] = "stable"
  <2>1. status[k][visible[w]] = StatusOf(k, Max(B))
    BY <1>1, <1>2, <1>6, <1>7, WriterStatus
  <2> QED
    BY <1>1, <2>1 DEF StatusOf
<1>9. SerialRead(s, k)' = <<epoch, Max(B)>>
  BY <1>b, <1>1, <1>5, <1>6 DEF SerialRead, Prior
<1>10. ReadOK(w)'
  BY <1>v, <1>1, <1>3, <1>5, <1>6, <1>8, <1>9 DEF ReadOK
<1> QED
  BY <1>3, <1>4, <1>10 DEF ReadsOK

\* upsert does not touch what a read has returned.
LEMMA WriteKeepsReads ==
    ASSUME IInv, DInv, NEW w \in Workers, NEW from, NEW st, NEW to, WriteStep(w, from, st, to)
    PROVE  ReadsTyped' /\ ReadsOK'
<1>0. PICK k : k = Key(w)
  OBVIOUS
<1>s. PICK s : s = op[w].serial
  OBVIOUS
<1>1. /\ phase = "exec" /\ pc[w] = from /\ Stored(w, st) /\ pc' = [pc EXCEPT ![w] = to]
      /\ UNCHANGED <<epoch, phase, txs, db, todo, op, visible, got>>
  BY DEF WriteStep, SetStatus, Stored, Goto, batchVars, opVars
<1>2. \/ from = "write" /\ st = "written" /\ to = "write_status"
      \/ from = "write_status" /\ st = "stable" /\ to = "begin"
  BY DEF WriteStep
<1>3. /\ k \in Keys /\ op[w].ope = "Update" /\ s \in Writers(k) /\ <<epoch, s>> \in Versions
  BY <1>0, <1>s, <1>1, <1>2, WriterFinds
<1>v. PICK v \in Versions : v = <<epoch, s>>
  BY <1>3
<1>4. /\ pc \in [Workers -> Labels] /\ ReadsTyped /\ DataTypeOK /\ Progress
  BY DEF IInv, ControlTypeOK, DInv
<1>5. ReadsTyped' /\ pc'[w] = to /\ \A u \in Workers : u # w => pc'[u] = pc[u]
  BY <1>1, <1>4 DEF ReadsTyped
<1>6. status' \in [Keys -> [Versions -> Statuses]] /\ StatusOfOne(k, v, st)
  <2>1. st \in Statuses
    BY <1>2 DEF Statuses
  <2>2. v = <<epoch, op[w].serial>>
    BY <1>s, <1>v
  <2> QED
    BY <1>0, <1>1, <1>3, <1>4, <2>1, <2>2, StoredIs
<1>7. status[k][v] # "stable"
  <2>1. s \in Waiting(k) \/ s \in Writing(k)
    <3>1. pc[w] # "begin" /\ Running /\ (pc[w] \in Unmade \/ pc[w] = "write_status")
      BY <1>1, <1>2 DEF Running, Unmade
    <3> QED
      BY <1>0, <1>s, <1>1, <1>3, <1>4, <1>5, <3>1, UpdaterMoves
  <2>2. status[k][v] = StatusOf(k, s)
    BY <1>v, <1>1, <1>3, WriterStatus
  <2> QED
    BY <1>1, <2>1, <2>2 DEF StatusOf
<1>8. ReadOK(w)'
  BY <1>1, <1>2, <1>3, <1>5, NoRead
<1>9. ASSUME NEW u \in Workers, u # w PROVE ReadOK(u)'
  <2>1. ReadOK(u) /\ Key(u) \in Keys
    BY DEF DInv, ReadsOK, IInv, ControlTypeOK, Key
  <2>2. ASSUME JustRead(u)
        PROVE  status'[Key(u)][got[u]] = status[Key(u)][got[u]]
    <3>0. got[u] \in Versions /\ status[Key(u)][got[u]] = "stable"
      BY <2>1, <2>2 DEF ReadOK
    <3>1. CASE Key(u) # k
      BY <1>6, <2>1, <3>1 DEF StatusOfOne
    <3>2. CASE Key(u) = k
      BY <1>6, <1>7, <3>0, <3>2 DEF StatusOfOne
    <3> QED
      BY <3>1, <3>2
  <2> QED
    BY <1>1, <1>5, <1>9, <2>1, <2>2, ReadKept
<1> QED
  BY <1>5, <1>8, <1>9 DEF ReadsOK

\* Outside the execution phase there is nothing to show.
LEMMA NoReads ==
    ASSUME IInv', Progress', phase' # "exec"
    PROVE  ReadsOK'
<1>1. ASSUME NEW w \in Workers PROVE pc'[w] # "wait_stable"
  <2>1. phase' \in {"init", "aborted", "end"}
    BY DEF IInv, ControlTypeOK
  <2> QED
    BY <2>1 DEF Progress, LabelsOfPhase, Unfiled
<1> QED
  BY <1>1, NoRead DEF ReadsOK

\* Every step keeps the reads.
LEMMA NextKeepsReads ==
    ASSUME IInv, IInv', DInv, Progress', Next
    PROVE  ReadsTyped' /\ ReadsOK'
<1>0. /\ pc \in [Workers -> Labels] /\ ReadsTyped /\ Progress
  BY DEF IInv, ControlTypeOK, DInv
<1>1. CASE NewEpoch
  <2>1. phase' # "exec" /\ UNCHANGED visible /\ got' = [w \in Workers |-> NoVersion]
    BY <1>1 DEF NewEpoch
  <2>2. ReadsTyped'
    BY <1>0, <2>1 DEF ReadsTyped, NoVersion
  <2> QED
    BY <2>1, <2>2, NoReads
<1>2. CASE StartExecution
  <2>1. phase = "init" /\ AtBarrier /\ UNCHANGED <<op, pc, visible, got>>
    BY <1>2 DEF StartExecution
  <2>2. ReadsTyped'
    BY <1>0, <2>1 DEF ReadsTyped, NoVersion
  <2>3. ASSUME NEW w \in Workers PROVE pc'[w] = "begin" /\ op'[w].ope # "Read"
    BY <1>0, <2>1 DEF AtBarrier, Progress, LabelsOfPhase
  <2> QED
    BY <2>2, <2>3, NoRead DEF ReadsOK
<1>3. ASSUME NEW w \in Workers, Step(w) PROVE ReadsTyped' /\ ReadsOK'
  <2>1. CASE Begin(w)
    <3>1. /\ visible' = [visible EXCEPT ![w] = NoVersion] /\ got' = [got EXCEPT ![w] = NoVersion]
          /\ pc' = [pc EXCEPT ![w] = IF phase = "init" THEN "epoch_guard"
                                     ELSE IF op'[w].ope = "Read" THEN "read" ELSE "write"]
          /\ \E o : op' = [op EXCEPT ![w] = o]
          /\ UNCHANGED <<epoch, phase, txs, db, status>>
      BY <2>1 DEF Begin, Goto, batchVars, memVars
    <3>2. ReadsTyped'
      BY <1>0, <3>1 DEF ReadsTyped, NoVersion
    <3>3. pc'[w] \in {"epoch_guard", "read", "write"}
      BY <1>0, <3>1
    <3>4. ReadOK(w)'
      BY <3>3, NoRead
    <3>5. ASSUME NEW u \in Workers, u # w PROVE ReadOK(u)'
      <4>1. DOMAIN op = Workers
        BY DEF IInv, ControlTypeOK
      <4>2. pc'[u] = pc[u] /\ visible'[u] = visible[u] /\ got'[u] = got[u]
        BY <1>0, <3>1, <3>5 DEF ReadsTyped
      <4>3. op'[u] = op[u]
        BY <3>1, <3>5, <4>1
      <4>4. ReadOK(u)
        BY DEF DInv, ReadsOK
      <4> QED
        BY <3>1, <4>2, <4>3, <4>4, ReadKept
    <3> QED
      BY <3>2, <3>4, <3>5 DEF ReadsOK
  <2>2. CASE read(w)
    BY <2>2, ReadReturns
  <2>3. CASE wait_stable_and_execute_read(w)
    BY <2>3, WaitReturns
  <2>4. CASE write_rec(w)
    <3>1. WriteStep(w, "write", "written", "write_status")
      BY <2>4 DEF write_rec, WriteStep
    <3> QED
      BY <3>1, WriteKeepsReads
  <2>5. CASE write_status(w)
    <3>1. WriteStep(w, "write_status", "stable", "begin")
      BY <2>5 DEF write_status, WriteStep
    <3> QED
      BY <3>1, WriteKeepsReads
  <2>6. CASE ~(\/ Begin(w) \/ read(w) \/ wait_stable_and_execute_read(w)
               \/ write_rec(w) \/ write_status(w))
    <3>1. phase' # "exec" /\ UNCHANGED <<visible, got>>
      <4> USE DEF batchVars, opVars, workerVars
      <4>1. CASE epoch_guard(w) \/ initialize_the_row(w) \/ store_epoch(w)
        BY <4>1 DEF epoch_guard, initialize_the_row, store_epoch
      <4>2. CASE guard_try_lock(w) \/ try_lock(w) \/ wait_try_lock(w)
        BY <4>2 DEF guard_try_lock, try_lock, wait_try_lock, TryLock
      <4>3. CASE guard_unlock(w) \/ unlock(w) \/ install_unlock(w)
        BY <4>3 DEF guard_unlock, unlock, install_unlock, Unlock
      <4>4. CASE append_to_unconted_row(w) \/ row_has_region(w) \/ wait_region_installation(w)
                   \/ already_installed(w)
        BY <4>4 DEF append_to_unconted_row, row_has_region, wait_region_installation,
           already_installed
      <4>5. CASE fetch_new_region(w)
        BY <4>5 DEF fetch_new_region, FetchUnchanged
      <4>6. CASE move_global_array_to_row_region(w) \/ publish_region(w)
        BY <4>6 DEF move_global_array_to_row_region, publish_region
      <4>7. CASE first_write_of_core(w) \/ append_to_contented_row(w)
        BY <4>7 DEF first_write_of_core, append_to_contented_row
      <4> QED
        BY <1>3, <2>6, <4>1, <4>2, <4>3, <4>4, <4>5, <4>6, <4>7 DEF Step
    <3>2. ReadsTyped'
      BY <1>0, <3>1 DEF ReadsTyped, NoVersion
    <3> QED
      BY <3>1, <3>2, NoReads
  <2> QED
    BY <2>1, <2>2, <2>3, <2>4, <2>5, <2>6
<1> QED
  BY <1>1, <1>2, <1>3 DEF Next
-------------------------------------------------------------------------------
(***************************************************************************)
(* The invariant is inductive                                              *)
(***************************************************************************)

\* What the loader leaves.
LEMMA LoadedRow ==
    ASSUME Init, NEW k \in Keys
    PROVE  RowInv(k)
<1>1. \A w \in Workers : pc[w] = "begin"
  BY DEF Init
<1>2. RowEpoch(k) = 0 /\ Fillers(k) = {} /\ epoch = 1 /\ phase = "init"
  BY <1>1 DEF RowEpoch, Fillers, Filling, Init
<1>3. RegionOf(k) = NoRegion /\ row_region_[k] = NoRegion
  BY <1>2 DEF RegionOf, Init
<1>4. PICK x : x = Row(k)
  OBVIOUS
<1>5. /\ x.epoch = 0 /\ x.master = <<0, -2>> /\ x.global = {<<0, -1>>} /\ x.cores = {}
      /\ x.bits = [c \in Cores |-> {}] /\ x.arrays = [c \in Cores |-> <<>>]
      /\ x.status = [v \in Versions |-> IF v \in {<<0, -1>>, <<0, -2>>} THEN "stable" ELSE "none"]
  BY <1>2, <1>3, <1>4 DEF Row, OfRegion, Init
<1>6. <<0, -1>> \in Versions /\ <<0, -2>> \in Versions
  BY EpochsAssumption, SerialsAreNatural DEF Versions
<1>7. ASSUME NEW v PROVE v \in Owned(x) <=> v = <<0, -1>> \/ v = <<0, -2>>
  <2>1. ASSUME NEW c \in Cores, NEW i \in DOMAIN x.arrays[c] PROVE FALSE
    <3>1. x.arrays[c] = <<>>
      BY <1>5
    <3> QED
      BY <2>1, <3>1
  <2> QED
    BY <1>5, <2>1, OwnedIs
<1>8. RowOK(x)
  <2>1. RowTyped(x)
    BY <1>5, <1>6 DEF RowTyped, Statuses
  <2>2. \A c \in Cores : x.arrays[c] = <<>> /\ Range(x.arrays[c]) = {}
    BY <1>5 DEF Range
  <2>3. \A c \in Cores \ x.cores : Left(x.epoch, c, x.arrays[c])
    BY <2>2 DEF Left
  <2>4. \A v \in Versions : x.status[v] = "none" <=> v \notin Owned(x)
    BY <1>5, <1>7
  <2> QED
    BY <1>5, <2>1, <2>2, <2>3, <2>4 DEF RowOK
<1>9. Contents(k)
  <2>1. LoopsStart
    BY DEF Init, LoopsStart
  <2>2. Filed(k) = {}
    BY <2>1, AllWaiting DEF Filed, Init
  <2> QED
    BY <1>2, <2>2 DEF Contents
<1>10. NoEmptyArrays(k)
  BY <1>4, <1>5 DEF NoEmptyArrays
<1>11. OnePlace(k)
  BY <1>2, <1>3 DEF OnePlace
<1>12. StatusesOK(k)
  <2>1. ASSUME NEW v \in Owned(x) PROVE v[1] = 0 /\ status[k][v] = "stable"
    <3>1. v = <<0, -1>> \/ v = <<0, -2>>
      BY <1>7, <2>1
    <3>2. x.status = status[k]
      BY <1>4 DEF Row
    <3>3. v \in Versions /\ v \in {<<0, -1>>, <<0, -2>>} /\ v[1] = 0
      BY <1>6, <3>1
    <3> QED
      BY <1>5, <3>2, <3>3
  <2> QED
    BY <1>2, <1>4, <2>1 DEF StatusesOK
<1>13. FinalOK(k)
  <2>1. Latest({<<0, -1>>}) = <<0, -1>>
    BY <1>6, LatestIs
  <2>2. Final(x) = <<0, -1>>
    BY <1>5, <2>1 DEF Final
  <2>3. db[k] = <<0, -1>>
    BY DEF Init
  <2> QED
    BY <1>2, <1>4, <2>2, <2>3 DEF FinalOK
<1> QED
  BY <1>4, <1>8, <1>9, <1>10, <1>11, <1>12, <1>13 DEF RowInv

\* The loader establishes the invariant.
LEMMA InitDInv == Init => DInv
<1> SUFFICES ASSUME Init PROVE DInv
  OBVIOUS
<1>1. <<0, -1>> \in Versions /\ <<0, -2>> \in Versions
  BY EpochsAssumption, SerialsAreNatural DEF Versions
<1>2. DataTypeOK
  BY <1>1 DEF Init, DataTypeOK, Statuses
<1>3. Progress
  <2>1. LabelsOfPhase
    BY DEF Init, LabelsOfPhase, NoOp
  <2>2. EpochsOK
    BY EpochsAssumption DEF Init, EpochsOK, Guarded
  <2>3. \A w \in Workers : InLoop(w)
    BY DEF Init, InLoop, Begun
  <2> QED
    BY <2>1, <2>2, <2>3 DEF Progress
<1>4. FreshRegions
  BY DEF Init, FreshRegions
<1>5. ReadsTyped
  BY DEF Init, ReadsTyped
<1>6. ReadsOK
  BY DEF Init, ReadsOK, ReadOK, JustRead
<1> QED
  BY <1>2, <1>3, <1>4, <1>5, <1>6, LoadedRow DEF DInv

\* A step of other parts of the system.
LEMMA StutterDInv ==
    ASSUME IInv, IInv', DInv, UNCHANGED vars
    PROVE  DInv'
<1>1. /\ UNCHANGED <<epoch, phase, txs, db, todo, op, pc, region, visible, got, lock, row_region_,
                     row_epoch, master_, global_array_, used_, core_bitmap_,
                     transaction_bitmap_, slots_, status>>
  BY DEF vars, batchVars, workerVars, memVars, rowVars, regionVars
<1>2. DataTypeOK' /\ FreshRegions' /\ ReadsTyped'
  BY <1>1 DEF DInv, DataTypeOK, FreshRegions, ReadsTyped
<1>3. \A u \in Workers : Key(u)' = Key(u)
  BY <1>1 DEF Key
<1>4. Progress'
  <2>1. LabelsOfPhase'
    BY <1>1 DEF DInv, Progress, LabelsOfPhase
  <2>2. EpochsOK'
    <3>1. \A k \in Keys : Writers(k)' = Writers(k)
      BY <1>1, SameWriters
    <3> QED
      BY <1>1, <1>3, <3>1 DEF DInv, Progress, EpochsOK
  <2>3. ASSUME phase \in {"init", "exec"}, NEW w \in Workers PROVE InLoop(w)'
    <3>1. InLoop(w)
      BY <2>3 DEF DInv, Progress
    <3>2. Work(phase, txs, w)' = Work(phase, txs, w)
      BY <1>1 DEF Work, Serial, InitSerial, ExecSerial
    <3>3. Begun(w)' = Begun(w)
      BY <1>1, <3>2 DEF Begun
    <3>4. \A p : Operation(phase, txs, w, p)' = Operation(phase, txs, w, p)
      BY <1>1 DEF Operation, Serial, InitSerial, ExecSerial, Core, InitCore, ExecCore
    <3> QED
      BY <1>1, <3>1, <3>3, <3>4 DEF InLoop
  <2> QED
    BY <1>1, <2>1, <2>2, <2>3 DEF Progress
<1>5. ASSUME NEW k \in Keys PROVE RowInv(k)'
  <2>1. Fillers(k)' = Fillers(k)
    BY <1>1, <1>3 DEF Fillers
  <2>2. RegionOf(k)' = RegionOf(k)
    BY <1>1, <2>1, RegionKept
  <2>3. RowEpoch(k)' = RowEpoch(k)
    BY <1>1, <1>3 DEF RowEpoch
  <2>4. Waiting(k)' = Waiting(k) /\ Writing(k)' = Writing(k)
    <3>1. 0 \in Workers
      BY NAssumption DEF Workers
    <3> QED
      BY <1>1, <3>1, SameWaiting
  <2>5. RowInv(k) /\ OnePlace(k)
    BY DEF DInv, RowInv
  <2>6. OnePlace(k)'
    BY <1>1, <2>1, <2>5, OnePlaceKept
  <2>7. DataUnchanged
    BY <1>1 DEF DataUnchanged
  <2>8. \A c \in Cores : pc[c] \in AppendLabels /\ Key(c) = k =>
                            pc'[c] \in AppendLabels /\ Key(c)' = k
    BY <1>1, <1>3, CoresAreNatural
  <2> QED
    BY <2>2, <2>3, <2>4, <2>5, <2>6, <2>7, <2>8, UntouchedRow
<1>6. ASSUME NEW w \in Workers PROVE ReadOK(w)'
  <2>1. ReadOK(w)
    BY DEF DInv, ReadsOK
  <2> QED
    BY <1>1, <2>1, ReadKept
<1> QED
  BY <1>2, <1>4, <1>5, <1>6 DEF DInv, ReadsOK

\* Every step keeps it.
LEMMA NextDInv == IInv /\ IInv' /\ DInv /\ [Next]_vars => DInv'
<1> SUFFICES ASSUME IInv, IInv', DInv, [Next]_vars PROVE DInv'
  OBVIOUS
<1>1. CASE UNCHANGED vars
  BY <1>1, StutterDInv
<1>2. CASE Next
  <2>1. DataTypeOK /\ Progress
    BY DEF DInv
  <2>2. Progress'
    BY <1>2, <2>1, NextProgress
  <2>3. DataTypeOK' /\ FreshRegions' /\ \A k \in Keys : RowInv(k)'
    BY <1>2, <2>2, NextKeepsRows
  <2>4. ReadsTyped' /\ ReadsOK'
    BY <1>2, <2>2, NextKeepsReads
  <2> QED
    BY <2>2, <2>3, <2>4 DEF DInv
<1> QED
  BY <1>1, <1>2

\* The inductive invariant of the data.
LEMMA DataInvariant == Spec => [](IInv /\ DInv)
BY InductiveInvariant, InitIInv, InitDInv, NextIInv, NextDInv, PTL DEF Spec
-------------------------------------------------------------------------------
(***************************************************************************)
(* The properties                                                          *)
(***************************************************************************)

\* The bitmap and the array of a core agree, in the region of a row.
LEMMA BitmapsMatch == IInv /\ DInv => BitmapsMatchSlots
<1> SUFFICES ASSUME IInv, DInv, NEW k \in Keys, NEW r \in RegionsOf(k), NEW c \in core_bitmap_[r]
             PROVE  /\ Len(slots_[r][c]) = Cardinality(transaction_bitmap_[r][c])
                    /\ \A m, n \in DOMAIN slots_[r][c] :
                          m < n => slots_[r][c][m][2] < slots_[r][c][n][2]
  BY DEF BitmapsMatchSlots
<1>1. PICK x : x = Row(k)
  OBVIOUS
<1>2. r = RegionOf(k) /\ r # NoRegion
  BY RegionsOfIs
<1>3. x.cores = core_bitmap_[r] /\ x.bits = transaction_bitmap_[r] /\ x.arrays = slots_[r]
  BY <1>1, <1>2, RowIs
<1>4. RowOK(x)
  BY <1>1 DEF DInv, RowInv
<1>5. c \in Cores /\ x.bits[c] \in SUBSET Cores /\ Opened(x.epoch, c, x.bits[c], x.arrays[c])
  BY <1>3, <1>4 DEF RowOK, RowTyped
<1>6. Len(x.arrays[c]) = Cardinality(x.bits[c])
  BY <1>5 DEF Opened
<1>7. ASSUME NEW m \in DOMAIN x.arrays[c], NEW n \in DOMAIN x.arrays[c], m < n
      PROVE  x.arrays[c][m][2] < x.arrays[c][n][2]
  BY <1>5, <1>7, OpenedAscends
<1> QED
  BY <1>3, <1>6, <1>7

\* The slots of a row are those of the arrays of its region.
LEMMA SlotsAre ==
    ASSUME IInv, NEW k \in Keys, NEW x, x = Row(k)
    PROVE  /\ \A p \in Slots(k) : \E c \in Cores : \E i \in DOMAIN x.arrays[c] :
                 p = <<RegionOf(k), c, i>> /\ InSlot(p) = x.arrays[c][i]
           /\ \A c \in Cores : \A i \in DOMAIN x.arrays[c] :
                 <<RegionOf(k), c, i>> \in Slots(k)
<1>1. PICK R : R = RegionOf(k)
  OBVIOUS
<1>2. ASSUME NEW p \in Slots(k)
      PROVE  \E c \in Cores : \E i \in DOMAIN x.arrays[c] :
                p = <<R, c, i>> /\ InSlot(p) = x.arrays[c][i]
  <2>1. PICK q \in RegionsOf(k) \X Cores :
           p \in {<<q[1], q[2], i>> : i \in DOMAIN slots_[q[1]][q[2]]}
    BY DEF Slots
  <2>2. PICK i \in DOMAIN slots_[q[1]][q[2]] : p = <<q[1], q[2], i>>
    BY <2>1
  <2>3. PICK c \in Cores : c = q[2]
    BY <2>1
  <2>4. q[1] = R /\ R # NoRegion
    BY <1>1, <2>1, RegionsOfIs
  <2>5. x.arrays = slots_[R]
    BY <1>1, <2>4, RowIs
  <2>6. i \in DOMAIN x.arrays[c] /\ p = <<R, c, i>>
    BY <2>2, <2>3, <2>4, <2>5
  <2>7. InSlot(p) = x.arrays[c][i]
    BY <2>5, <2>6 DEF InSlot
  <2> QED
    BY <2>6, <2>7
<1>3. ASSUME NEW c \in Cores, NEW i \in DOMAIN x.arrays[c]
      PROVE  <<R, c, i>> \in Slots(k)
  <2>1. R # NoRegion
    <3>1. ASSUME R = NoRegion PROVE x.arrays[c] = <<>>
      BY <1>1, <3>1 DEF Row, OfRegion
    <3>2. ASSUME x.arrays[c] = <<>> PROVE FALSE
      BY <1>3, <3>2
    <3> QED
      BY <3>1, <3>2
  <2>2. R \in RegionsOf(k)
    BY <1>1, <2>1, RegionsOfIs
  <2>3. x.arrays = slots_[R]
    BY <1>1, <2>1, RowIs
  <2>4. PICK q \in RegionsOf(k) \X Cores : q = <<R, c>>
    BY <2>2
  <2>5. <<R, c, i>> \in {<<q[1], q[2], j>> : j \in DOMAIN slots_[q[1]][q[2]]}
    BY <1>3, <2>3, <2>4
  <2> QED
    BY <2>4, <2>5 DEF Slots
<1> QED
  BY <1>1, <1>2, <1>3

\* Every version that is not freed is in one place.
LEMMA OwnedOnceEach == IInv /\ DInv => EachVersionOwnedOnce
<1> SUFFICES ASSUME IInv, DInv, NEW k \in Keys
             PROVE  /\ Live(k) = {master_[k]} \cup global_array_[k] \cup {InSlot(p) : p \in Slots(k)}
                    /\ master_[k] \notin global_array_[k]
                    /\ \A p \in Slots(k) : InSlot(p) \notin global_array_[k] \cup {master_[k]}
                    /\ \A p, q \in Slots(k) : InSlot(p) = InSlot(q) => p = q
  BY DEF EachVersionOwnedOnce
<1>1. PICK x : x = Row(k)
  OBVIOUS
<1>2. RowOK(x)
  BY <1>1 DEF DInv, RowInv
<1>3. master_[k] = x.master /\ global_array_[k] = x.global /\ status[k] = x.status
  BY <1>1, RowIs
<1>4. /\ \A p \in Slots(k) : \E c \in Cores : \E i \in DOMAIN x.arrays[c] :
            p = <<RegionOf(k), c, i>> /\ InSlot(p) = x.arrays[c][i]
      /\ \A c \in Cores : \A i \in DOMAIN x.arrays[c] : <<RegionOf(k), c, i>> \in Slots(k)
  BY <1>1, SlotsAre
<1>5. ASSUME NEW v
      PROVE  v \in Live(k) <=> v \in {x.master} \cup x.global \cup {InSlot(p) : p \in Slots(k)}
  <2>1. v \in Live(k) <=> v \in Owned(x)
    <3>1. v \in Owned(x) => v \in Versions
      <4>1. CASE v = x.master \/ v \in x.global
        BY <1>2, <4>1 DEF RowOK, RowTyped
      <4>2. CASE \E c \in Cores : \E i \in DOMAIN x.arrays[c] : v = x.arrays[c][i]
        <5>1. PICK c, i : c \in Cores /\ i \in DOMAIN x.arrays[c] /\ v = x.arrays[c][i]
          BY <4>2
        <5>2. x.arrays[c] \in Seq(Versions)
          BY <1>2, <5>1 DEF RowOK, RowTyped
        <5> QED
          BY <5>1, <5>2
      <4> QED
        BY <4>1, <4>2, OwnedIs
    <3>2. v \in Versions => (x.status[v] = "none" <=> v \notin Owned(x))
      BY <1>2 DEF RowOK
    <3> QED
      BY <1>3, <3>1, <3>2 DEF Live
  <2>2. (\E c \in Cores : \E i \in DOMAIN x.arrays[c] : v = x.arrays[c][i]) <=>
           v \in {InSlot(p) : p \in Slots(k)}
    <3>1. ASSUME NEW c \in Cores, NEW i \in DOMAIN x.arrays[c], v = x.arrays[c][i]
          PROVE  v \in {InSlot(p) : p \in Slots(k)}
      <4>1. PICK p \in Slots(k) : p = <<RegionOf(k), c, i>>
        BY <1>4, <3>1
      <4>2. PICK d, j : /\ d \in Cores /\ j \in DOMAIN x.arrays[d]
                        /\ p = <<RegionOf(k), d, j>> /\ InSlot(p) = x.arrays[d][j]
        BY <1>4
      <4>3. d = c /\ j = i
        BY <4>1, <4>2
      <4> QED
        BY <3>1, <4>2, <4>3
    <3>2. ASSUME NEW p \in Slots(k), v = InSlot(p)
          PROVE  \E c \in Cores : \E i \in DOMAIN x.arrays[c] : v = x.arrays[c][i]
      BY <1>4, <3>2
    <3> QED
      BY <3>1, <3>2
  <2> QED
    BY <2>1, <2>2, OwnedIs
<1>6. /\ x.master \notin x.global
      /\ \A c \in Cores : \A i \in DOMAIN x.arrays[c] :
            x.arrays[c][i] \notin x.global /\ x.arrays[c][i] # x.master
      /\ \A c, d \in Cores : \A i \in DOMAIN x.arrays[c], j \in DOMAIN x.arrays[d] :
            x.arrays[c][i] = x.arrays[d][j] => c = d /\ i = j
  BY <1>2, OwnedOnce
<1>7. ASSUME NEW p \in Slots(k) PROVE InSlot(p) \notin global_array_[k] \cup {master_[k]}
  <2>1. PICK c, i : c \in Cores /\ i \in DOMAIN x.arrays[c] /\ InSlot(p) = x.arrays[c][i]
    BY <1>4
  <2> QED
    BY <1>3, <1>6, <2>1
<1>8. ASSUME NEW p \in Slots(k), NEW q \in Slots(k), InSlot(p) = InSlot(q) PROVE p = q
  <2>1. PICK c, i : /\ c \in Cores /\ i \in DOMAIN x.arrays[c]
                    /\ p = <<RegionOf(k), c, i>> /\ InSlot(p) = x.arrays[c][i]
    BY <1>4
  <2>2. PICK d, j : /\ d \in Cores /\ j \in DOMAIN x.arrays[d]
                    /\ q = <<RegionOf(k), d, j>> /\ InSlot(q) = x.arrays[d][j]
    BY <1>4
  <2>3. c = d /\ i = j
    BY <1>6, <1>8, <2>1, <2>2
  <2> QED
    BY <2>1, <2>2, <2>3
<1>9. Live(k) = {master_[k]} \cup global_array_[k] \cup {InSlot(p) : p \in Slots(k)}
  BY <1>3, <1>5
<1> QED
  BY <1>3, <1>6, <1>7, <1>8, <1>9

\* The final state of the earlier epochs is kept.
LEMMA FinalKept == IInv /\ DInv => FinalStateKept
<1> SUFFICES ASSUME IInv, DInv, NEW k \in Keys
             PROVE  IF row_epoch[k] = epoch \/ Storing(k)
                    THEN master_[k] = db[k] ELSE FinalState(k) = db[k]
  BY DEF FinalStateKept, Storing
<1>1. RowInv(k) /\ DataTypeOK /\ Progress
  BY DEF DInv
<1>2. RowEpoch(k) = epoch <=> row_epoch[k] = epoch \/ Storing(k)
  BY <1>1, RowEpochIs
<1>3. CASE RowEpoch(k) = epoch
  BY <1>1, <1>2, <1>3 DEF RowInv, FinalOK
<1>4. CASE RowEpoch(k) # epoch
  <2>1. PICK x : x = Row(k)
    OBVIOUS
  <2>2. Final(x) = db[k]
    BY <1>1, <1>4, <2>1 DEF RowInv, FinalOK
  <2>3. Fillers(k) = {}
    <3>1. ASSUME NEW w \in Fillers(k) PROVE FALSE
      <4>1. w \in Workers /\ pc[w] \in Guarded /\ Key(w) = k
        BY <3>1 DEF Fillers, Filling, Guarded
      <4>2. row_epoch[k] = epoch
        BY <1>1, <4>1 DEF Progress, EpochsOK
      <4> QED
        BY <1>2, <1>4, <4>2
    <3> QED
      BY <3>1
  <2>4. RegionOf(k) = row_region_[k]
    BY <2>3, RegionsOwn DEF RegionIsOwn
  <2>5. x.global = global_array_[k] /\ x.master = master_[k]
    BY <2>1, RowIs
  <2>6. CASE row_region_[k] = NoRegion
    <3>1. x.cores = {}
      BY <2>1, <2>4, <2>6, RowIs
    <3>2. FinalState(k) = IF x.global # {} THEN Latest(x.global) ELSE x.master
      BY <2>5, <2>6 DEF FinalState, has_dirty_region
    <3> QED
      BY <1>2, <1>4, <2>2, <3>1, <3>2 DEF Final
  <2>7. CASE row_region_[k] # NoRegion
    <3>1. x.cores = core_bitmap_[row_region_[k]] /\ x.arrays = slots_[row_region_[k]]
      BY <2>1, <2>4, <2>7, RowIs
    <3>2. FinalState(k) = Final(x)
      BY <2>5, <2>7, <3>1 DEF FinalState, has_dirty_region, Final
    <3> QED
      BY <1>2, <1>4, <2>2, <3>2
  <2> QED
    BY <2>6, <2>7
<1> QED
  BY <1>3, <1>4

\* The region of a row at rest holds the versions of the transactions W.
LEMMA HeldByRegion ==
    ASSUME NEW k \in Keys, NEW x, x = Row(k), RegionOf(k) = row_region_[k],
           row_region_[k] # NoRegion, RowOK(x), x.epoch = epoch, x.epoch # 0, AtRest(x),
           NEW W, Holds(x, W), x.global = {}
    PROVE  RegionHolds(k, W)
<1>1. PICK r : r = row_region_[k]
  OBVIOUS
<1>2. x.cores = core_bitmap_[r] /\ x.bits = transaction_bitmap_[r] /\ x.arrays = slots_[r]
  BY <1>1, RowIs
<1>3. /\ \A c \in x.cores : \A t \in x.bits[c] : c \in Cores /\ t \in Cores /\ c * N + t \in W
      /\ \A s \in W : \E c \in Cores, t \in Cores :
            s = c * N + t /\ c \in x.cores /\ t \in x.bits[c]
  BY HeldInRegion
<1>4. ASSUME NEW s \in W
      PROVE  /\ get_core_serial(s) \in x.cores
             /\ get_tx_serial(s) \in x.bits[get_core_serial(s)]
  <2>1. PICK c \in Cores, t \in Cores : s = c * N + t /\ c \in x.cores /\ t \in x.bits[c]
    BY <1>3
  <2>2. get_core_serial(s) = c /\ get_tx_serial(s) = t
    BY <2>1, SerialOf
  <2> QED
    BY <2>1, <2>2
<1>5. ASSUME NEW c \in x.cores, NEW t \in x.bits[c]
      PROVE  \E s \in W : s = c * N + t /\ get_core_serial(s) = c /\ get_tx_serial(s) = t
  <2>1. PICK s \in W : s = c * N + t
    BY <1>3
  <2>2. c \in Cores /\ t \in Cores
    BY <1>3
  <2>3. get_core_serial(s) = c /\ get_tx_serial(s) = t
    BY <2>1, <2>2, SerialOf
  <2> QED
    BY <2>1, <2>3
<1> DEFINE TxsOf(c) == {get_tx_serial(s) : s \in {u \in W : get_core_serial(u) = c}}
<1>6. x.cores = {get_core_serial(s) : s \in W}
  <2>1. ASSUME NEW c \in x.cores PROVE c \in {get_core_serial(s) : s \in W}
    <3>1. PICK t : t \in x.bits[c]
      BY DEF AtRest
    <3> QED
      BY <1>5, <3>1
  <2> QED
    BY <1>4, <2>1
<1>7. ASSUME NEW c \in x.cores
      PROVE  /\ x.bits[c] = TxsOf(c)
             /\ \A t \in TxsOf(c) : SlotOf(r, c, t) = <<epoch, c * N + t>>
  <2>1. ASSUME NEW t \in x.bits[c] PROVE t \in TxsOf(c)
    BY <1>5
  <2>2. ASSUME NEW t \in TxsOf(c) PROVE t \in x.bits[c]
    <3>1. PICK s \in W : get_core_serial(s) = c /\ get_tx_serial(s) = t
      BY <2>2
    <3> QED
      BY <1>4, <3>1
  <2>3. ASSUME NEW t \in x.bits[c] PROVE SlotOf(r, c, t) = <<epoch, c * N + t>>
    <3>1. SlotOf(r, c, t) = x.arrays[c][Rank(x.bits[c], t)]
      BY <1>2 DEF SlotOf, Rank
    <3> QED
      BY <3>1, SlotFound
  <2> HIDE DEF TxsOf
  <2> QED
    BY <2>1, <2>2, <2>3
<1> QED
  BY <1>1, <1>2, <1>6, <1>7 DEF RegionHolds

\* In the execution phase a row has the versions of its writers.
LEMMA AllVersionsFound == IInv /\ DInv => ExecutionFindsAllVersions
<1> SUFFICES ASSUME IInv, DInv, phase = "exec", NEW k \in Keys
             PROVE  IF Writers(k) = {} THEN row_epoch[k] < epoch
                    ELSE /\ row_epoch[k] = epoch
                         /\ \/ /\ global_array_[k] = {<<epoch, s>> : s \in Writers(k)}
                               /\ ~has_dirty_region(k)
                            \/ /\ global_array_[k] = {} /\ row_region_[k] # NoRegion
                               /\ RegionHolds(k, Writers(k))
  BY DEF ExecutionFindsAllVersions
<1>1. PICK x, W : x = Row(k) /\ W = Writers(k)
  OBVIOUS
<1>2. RowOK(x) /\ Progress /\ DataTypeOK /\ epoch # 0
  BY <1>1 DEF DInv, RowInv, Progress, EpochsOK
<1>3. AtRest(x) /\ RegionOf(k) = row_region_[k]
  BY <1>1, RestInExecution
<1>4. /\ RowEpoch(k) = epoch <=> W # {}
      /\ RowEpoch(k) = epoch => Holds(x, W) /\ x.epoch = epoch
      /\ RowEpoch(k) = row_epoch[k]
  BY <1>1, HoldsWriters
<1>5. x.global = global_array_[k]
  BY <1>1, RowIs
<1>6. CASE W = {}
  <2>1. row_epoch[k] < epoch
    BY <1>2, <1>4, <1>6, RowEpochIs
  <2> QED
    BY <1>1, <1>6, <2>1
<1>7. CASE W # {} /\ x.global # {}
  <2>1. Holds(x, W) /\ x.epoch = epoch /\ row_epoch[k] = epoch
    BY <1>4, <1>7
  <2>2. /\ \A v \in x.global : v = <<x.epoch, v[2]>> /\ v[2] \in W
        /\ \A s \in W : <<x.epoch, s>> \in x.global
    BY <1>2, <1>3, <1>7, <2>1, HeldInGlobal
  <2>3. global_array_[k] = {<<epoch, s>> : s \in W}
    BY <1>5, <2>1, <2>2
  <2>4. ~has_dirty_region(k)
    <3>1. x.cores = {}
      BY <1>3, <1>7 DEF AtRest
    <3>2. row_region_[k] # NoRegion => core_bitmap_[row_region_[k]] = x.cores
      BY <1>1, <1>3, RowIs
    <3> QED
      BY <3>1, <3>2 DEF has_dirty_region
  <2> QED
    BY <1>1, <1>7, <2>1, <2>3, <2>4
<1>8. CASE W # {} /\ x.global = {}
  <2>1. Holds(x, W) /\ x.epoch = epoch /\ row_epoch[k] = epoch
    BY <1>4, <1>8
  <2>2. row_region_[k] # NoRegion
    <3>1. PICK s : s \in W
      BY <1>8
    <3>2. s \in Serials /\ HasVersion(x, s)
      BY <2>1, <3>1 DEF Holds
    <3>3. x.cores # {}
      BY <1>8, <3>2 DEF HasVersion
    <3> QED
      BY <1>1, <1>3, <3>3, RowIs
  <2>3. RegionHolds(k, W)
    BY <1>1, <1>2, <1>3, <1>8, <2>1, <2>2, HeldByRegion
  <2> QED
    BY <1>1, <1>5, <1>8, <2>1, <2>2, <2>3
<1> QED
  BY <1>6, <1>7, <1>8

\* When execution starts, and as long as it goes on, every row holds exactly
\* one version for every update of the epoch, in the global array or in the
\* region, where the reads of identify_visible_version look for it, whatever
\* the workers of do_append_pending_version met on the row.
THEOREM VersionsComplete == Spec => []ExecutionFindsAllVersions
BY DataInvariant, AllVersionsFound, PTL

\* ServalProtocol::read of a row that the epoch writes returns what executing
\* the transactions one after the other in serial order would.
THEOREM ReadsAreSerial == Spec => []ReadsSeeSerialOrder
<1>1. DInv => ReadsSeeSerialOrder
  BY DEF DInv, ReadsOK, ReadOK, ReadsSeeSerialOrder
<1> QED
  BY <1>1, DataInvariant, PTL

\* ServalProtocol::read returns no version whose record has not been written
\* by upsert yet, and none that has been freed.
THEOREM ReadsAreStable == Spec => []ReadsReturnStableRecords
<1>1. DInv => ReadsReturnStableRecords
  BY DEF DInv, ReadsOK, ReadOK, ReadsReturnStableRecords
<1> QED
  BY <1>1, DataInvariant, PTL

\* initialize_the_row never loses the result of the earlier epochs: a row ends
\* with it until it is initialized, and then master_ is it.
THEOREM FinalStateNeverLost == Spec => []FinalStateKept
BY DataInvariant, FinalKept, PTL

\* Every version that is not freed is owned once: initialize_the_row, the move
\* to a region and the late garbage collection of a core's array neither leak
\* nor free twice.
THEOREM OwnedExactlyOnce == Spec => []EachVersionOwnedOnce
BY DataInvariant, OwnedOnceEach, PTL

\* PerCoreVersionArray::append keeps bitmap and slots alike and the slots in
\* the order of the serial numbers.
THEOREM ArraysMatchBitmaps == Spec => []BitmapsMatchSlots
BY DataInvariant, BitmapsMatch, PTL

\* The types of the rows, the regions and the versions.
THEOREM DataTypeCorrect == Spec => [](DataTypeOK /\ ReadsTyped)
<1>1. DInv => DataTypeOK /\ ReadsTyped
  BY DEF DInv
<1> QED
  BY <1>1, DataInvariant, PTL

===============================================================================
