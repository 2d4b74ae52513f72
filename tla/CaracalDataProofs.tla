--------------------------- MODULE CaracalDataProofs ---------------------------
(***************************************************************************)
(* Proofs about the versions of Caracal, on top of the invariants of       *)
(* CaracalProofs: none is lost, none is freed too early, execution finds   *)
(* exactly the versions of the batch, and the protocol implements          *)
(* DeterministicDB.                                                        *)
(***************************************************************************)
EXTENDS CaracalProofs

Structure == Control /\ Ownership /\ Slots

-------------------------------------------------------------------------------
(***************************************************************************)
(* The fourth invariant: versions                                          *)
(***************************************************************************)
InInit == phase \in {"init", "aborted"}

RowOf(o) == txs[o[1]][o[2]].index

\* The versions of row k, wherever they are
Present(k) == ids_slots_[k] \cup Buffered(k)

\* The version of update o does not exist yet: its worker has not come to it.
Unborn(o) ==
    \E w \in Workers : o \in todo[w] \/ (pc[w] \in Preparing /\ op[w] = o)

\* Operation o of the batch has not been executed yet.
Waiting(o) ==
    \E w \in Workers : o \in todo[w] \/ (pc[w] \notin {"begin", "done"} /\ op[w] = o)

DataTypeOK ==
    /\ ids_slots_ \in [Keys -> SUBSET Versions]
    /\ status \in [Keys -> [Versions -> {"none", "pending", "written", "stable"}]]
    /\ db \in [Keys -> Versions]
    /\ visible \in [Workers -> Versions]

\* The global array holds the final state of the earlier epochs, and everything
\* else it holds of them is older; nothing is left of it but the final state
\* once the array holds a version of this epoch.
OldVersionsKept ==
    \A k \in Keys :
        /\ db[k] \in ids_slots_[k] /\ db[k][1] < epoch
        /\ \A v \in ids_slots_[k] : v[1] < epoch => v = db[k] \/ Less(v, db[k])
        /\ \A u, v \in ids_slots_[k] : u[1] = epoch /\ v[1] < epoch => v = db[k]

\* Every version of this epoch has its writer in the batch, and a buffer holds
\* no other.
VersionsHaveWriters ==
    \A k \in Keys :
        /\ \A v \in ids_slots_[k] :
              v[1] < epoch \/ (v[1] = epoch /\ phase # "end" /\ v[2] \in Writers(txs, k))
        /\ \A v \in Buffered(k) :
              v[1] = epoch /\ phase # "end" /\ v[2] \in Writers(txs, k)

\* Every update that has been appended has its version, in the global array
\* when execution starts.
UpdatesHaveVersions ==
    /\ InInit => \A o \in Updates(txs) :
          Unborn(o) \/ <<epoch, o[1]>> \in Present(RowOf(o))
    /\ phase = "exec" => \A o \in Updates(txs) : <<epoch, o[1]>> \in ids_slots_[RowOf(o)]

\* A version of an earlier epoch is stable; one of this epoch is not stable
\* before its update has been executed, and is after.
StatusFollows ==
    /\ \A k \in Keys : \A v \in ids_slots_[k] : v[1] < epoch => status[k][v] = "stable"
    /\ InInit => \A k \in Keys : \A v \in Present(k) :
          v[1] = epoch => status[k][v] # "stable"
    /\ phase = "exec" => \A o \in Updates(txs) :
          status[RowOf(o)][<<epoch, o[1]>>] = "stable" <=> ~Waiting(o)

\* A read waits for the version that the serial order gives it.
VisibleIsSerial ==
    \A w \in Workers : pc[w] = "wait_stable" =>
        visible[w] = SerialRead(txs, epoch, db, op[w][1], row[w])

Data == /\ DataTypeOK /\ OldVersionsKept /\ VersionsHaveWriters
        /\ UpdatesHaveVersions /\ LiveVersionsReachable /\ StatusFollows
        /\ VisibleIsSerial

\* The parts of a version.
LEMMA VersionTyped ==
    ASSUME NEW v \in Versions
    PROVE  /\ v[1] \in 0 .. NumEpochs /\ v[1] \in Nat
           /\ v[2] \in Serials /\ v[2] \in Nat /\ v = <<v[1], v[2]>>
<1>1. v[1] \in 0 .. NumEpochs /\ v[2] \in Serials /\ v = <<v[1], v[2]>>
  BY DEF Versions
<1> QED
  BY <1>1, SerialsAreNatural, EpochsAssumption

\* The loader's version is a version.
LEMMA LoadedIsVersion == Loaded \in Versions
  BY SerialsAreNatural, EpochsAssumption DEF Versions, Loaded

\* An update of the batch is an operation of it, on a row.
LEMMA UpdateTyped ==
    ASSUME Control, NEW o \in Updates(txs)
    PROVE  /\ o \in Ops(txs) /\ RowOf(o) \in Keys /\ o[1] \in Serials
           /\ o[1] \in Writers(txs, RowOf(o))
<1>1. o \in Ops(txs) /\ txs \in Workloads
  BY DEF Updates, Control, ControlTypeOK
<1> QED
  BY <1>1, OperationsOfBatch, WritersAreUpdates DEF RowOf

\* Two updates of a row by the same transaction are the same.
LEMMA UpdateUnique ==
    ASSUME Control, NEW o \in Updates(txs), NEW p \in Updates(txs),
           o[1] = p[1], RowOf(o) = RowOf(p)
    PROVE  o = p
<1>1. o \in Ops(txs) /\ p \in Ops(txs) /\ txs \in Workloads
  BY DEF Updates, Control, ControlTypeOK
<1> QED
  BY <1>1, OneOperationPerRow DEF RowOf

\* The loader leaves every row with its stable version, and no update is appended.
LEMMA InitData == Init => Data
<1> SUFFICES ASSUME Init PROVE Data
  OBVIOUS
<1>1. DataTypeOK
  BY LoadedIsVersion DEF Init, DataTypeOK, NoneVisible
<1>2. \A k \in Keys : Buffered(k) = {}
  BY DEF Init, Buffered
<1>3. OldVersionsKept /\ VersionsHaveWriters
  BY <1>2 DEF Init, OldVersionsKept, VersionsHaveWriters, Loaded
<1>4. UpdatesHaveVersions
  <2> SUFFICES ASSUME NEW o \in Updates(txs) PROVE Unborn(o)
    BY DEF Init, UpdatesHaveVersions, InInit
  <2>1. o \in Ops(txs) /\ txs \in Workloads
    BY DEF Init, Updates
  <2>2. o[1] \in Nat
    BY <2>1, OperationsOfBatch
  <2>3. o[1] % N \in Workers
    BY <2>2, NAssumption DEF Workers
  <2>4. o \in todo[o[1] % N]
    BY <2>3 DEF Init, Mine
  <2> QED
    BY <2>3, <2>4 DEF Unborn
<1>5. LiveVersionsReachable
  <2>1. ASSUME NEW k \in Keys PROVE Live(k) = {Loaded}
    BY LoadedIsVersion DEF Init, Live
  <2>2. \A k \in Keys : ids_slots_[k] = {Loaded}
    BY DEF Init
  <2> QED
    BY <1>2, <2>1, <2>2 DEF LiveVersionsReachable
<1>6. StatusFollows
  <2>1. \A k \in Keys : /\ ids_slots_[k] = {Loaded} /\ Present(k) = {Loaded}
                       /\ status[k][Loaded] = "stable"
    BY <1>2, LoadedIsVersion DEF Init, Present
  <2>2. Loaded[1] = 0 /\ epoch = 1 /\ phase = "init"
    BY DEF Init, Loaded
  <2> QED
    BY <2>1, <2>2 DEF StatusFollows
<1>7. VisibleIsSerial
  BY DEF Init, VisibleIsSerial
<1> QED
  BY <1>1, <1>3, <1>4, <1>5, <1>6, <1>7 DEF Data

\* A step that changes no version and no array: it may only move workers.
LEMMA DataQuiet ==
    ASSUME Control, Data,
           UNCHANGED <<epoch, txs, db, ids_slots_, status>>,
           phase' = phase \/ (phase = "init" /\ phase' = "aborted"),
           \A k \in Keys : Buffered(k)' = Buffered(k),
           visible' \in [Workers -> Versions],
           InInit => \A o \in Updates(txs) : Unborn(o) => Unborn(o)',
           phase = "exec" => \A o \in Updates(txs) : Waiting(o)' <=> Waiting(o),
           VisibleIsSerial'
    PROVE  Data'
<1>1. /\ InInit' <=> InInit
      /\ (phase' = "exec") <=> (phase = "exec")
      /\ (phase' = "end") <=> (phase = "end")
  BY DEF InInit
<1>2. /\ \A k \in Keys : Present(k)' = Present(k) /\ Live(k)' = Live(k)
      /\ \A o : RowOf(o)' = RowOf(o)
  BY DEF Present, Live, RowOf
<1>3. DataTypeOK'
  BY DEF Data, DataTypeOK
<1>4. OldVersionsKept'
  BY DEF Data, OldVersionsKept
<1>5. VersionsHaveWriters'
  BY <1>1 DEF Data, VersionsHaveWriters
<1>6. UpdatesHaveVersions'
  <2>1. ASSUME InInit', NEW o \in Updates(txs)'
        PROVE  Unborn(o)' \/ (<<epoch, o[1]>> \in Present(RowOf(o)))'
    <3>1. o \in Updates(txs) /\ RowOf(o) \in Keys
      BY UpdateTyped
    <3>2. Unborn(o) \/ <<epoch, o[1]>> \in Present(RowOf(o))
      BY <1>1, <2>1, <3>1 DEF Data, UpdatesHaveVersions
    <3>3. Present(RowOf(o))' = Present(RowOf(o))
      BY <1>2, <3>1 DEF Present
    <3> QED
      BY <1>1, <2>1, <3>1, <3>2, <3>3
  <2>2. ASSUME phase' = "exec", NEW o \in Updates(txs)'
        PROVE  (<<epoch, o[1]>> \in ids_slots_[RowOf(o)])'
    BY <1>1, <1>2, <2>2 DEF Data, UpdatesHaveVersions
  <2> QED
    BY <2>1, <2>2 DEF UpdatesHaveVersions
<1>7. LiveVersionsReachable'
  BY <1>2 DEF Data, LiveVersionsReachable
<1>8. StatusFollows'
  BY <1>1, <1>2 DEF Data, StatusFollows
<1> QED
  BY <1>3, <1>4, <1>5, <1>6, <1>7, <1>8 DEF Data

\* A step of w within an operation that touches no array and no version.
LEMMA DataLocal ==
    ASSUME Structure, Data,
           NEW w \in Workers, NEW l \in Labels,
           Goto(w, l),
           UNCHANGED <<epoch, txs, db, phase, todo, op, ids_slots_, status, core_slots,
                       row_buffer_, visible>>,
           \A v \in Workers : v # w => row'[v] = row[v],
           l \in Preparing <=> pc[w] \in Preparing,
           phase = "exec" => (l \in {"begin", "done"} <=> pc[w] \in {"begin", "done"}),
           l # "wait_stable"
    PROVE  Data'
<1>1. pc' = [pc EXCEPT ![w] = l] /\ pc \in [Workers -> Labels]
  BY DEF Goto, Structure, Control, ControlTypeOK
<1>2. \A k \in Keys : Buffered(k)' = Buffered(k)
  BY DEF Buffered
<1>3. \A o : Unborn(o) => Unborn(o)'
  BY <1>1 DEF Unborn
<1>4. phase = "exec" => \A o : Waiting(o)' <=> Waiting(o)
  BY <1>1 DEF Waiting
<1>5. VisibleIsSerial'
  BY <1>1 DEF Data, VisibleIsSerial
<1>6. visible' \in [Workers -> Versions]
  BY DEF Data, DataTypeOK
<1> QED
  BY <1>2, <1>3, <1>4, <1>5, <1>6, DataQuiet DEF Structure

\* The loop: the operation is neither appended nor executed by being begun.
LEMMA DataBegin ==
    ASSUME Structure, Data, NEW w \in Workers, Begin(w)
    PROVE  Data'
<1> DEFINE o == First(todo[w])
           l == IF phase = "init" THEN "load_buffer"
                ELSE IF o \in Reads(txs) THEN "read" ELSE "write_rec"
<1>1. /\ pc[w] = "begin" /\ pc' = [pc EXCEPT ![w] = l]
      /\ phase \in {"init", "exec"}
      /\ op' = [op EXCEPT ![w] = o]
      /\ todo' = [todo EXCEPT ![w] = @ \ {o}]
      /\ row' = [row EXCEPT ![w] = txs[o[1]][o[2]].index]
      /\ visible' = [visible EXCEPT ![w] = Loaded]
      /\ UNCHANGED <<epoch, txs, db, phase, ids_slots_, status, core_slots, row_buffer_>>
  BY DEF Begin, Goto, batchVars, bufferVars, arrayVars
<1>2. /\ pc \in [Workers -> Labels] /\ op \in [Workers -> Serials \X Nat]
      /\ todo \in [Workers -> SUBSET Ops(txs)] /\ row \in [Workers -> Keys]
  BY DEF Structure, Control, ControlTypeOK
<1>3. o \in todo[w]
  <2>1. todo[w] # {} /\ todo[w] \subseteq Ops(txs) /\ txs \in Workloads
    BY <1>2 DEF Begin, Structure, Control, ControlTypeOK
  <2>2. todo[w] \subseteq Serials \X Nat
    BY <2>1, OperationsOfBatch
  <2> QED
    BY <2>1, <2>2, FirstIsMember
<1> HIDE DEF o
<1>4. \A k \in Keys : Buffered(k)' = Buffered(k)
  BY <1>1 DEF Buffered
<1>5. ASSUME InInit, NEW p, Unborn(p) PROVE Unborn(p)'
  <2>1. PICK v \in Workers : p \in todo[v] \/ (pc[v] \in Preparing /\ op[v] = p)
    BY <1>5 DEF Unborn
  <2>2. CASE v = w /\ p = o
    <3>1. pc'[w] \in Preparing /\ op'[w] = p
      BY <1>1, <1>2, <1>5, <2>2 DEF Preparing, InInit
    <3> QED
      BY <3>1 DEF Unborn
  <2>3. CASE ~(v = w /\ p = o)
    <3>1. p \in todo'[v] \/ (pc'[v] \in Preparing /\ op'[v] = p)
      BY <1>1, <1>2, <2>1, <2>3 DEF Preparing
    <3> QED
      BY <3>1 DEF Unborn
  <2> QED
    BY <2>2, <2>3
<1>6. ASSUME NEW p PROVE Waiting(p)' <=> Waiting(p)
  BY <1>1, <1>2, <1>3 DEF Waiting
<1>7. VisibleIsSerial'
  BY <1>1, <1>2 DEF Data, VisibleIsSerial
<1>8. visible' \in [Workers -> Versions]
  BY <1>1, LoadedIsVersion DEF Data, DataTypeOK
<1> QED
  BY <1>1, <1>4, <1>5, <1>6, <1>7, <1>8, DataQuiet DEF Structure

\* A buffer that is installed is empty.
LEMMA DataInstall ==
    ASSUME Structure, Data, NEW w \in Workers, try_install_new_buffer(w)
    PROVE  Data'
<1>1. /\ pc[w] = "install"
      /\ UNCHANGED <<epoch, txs, db, phase, todo, op, row, ids_slots_, status, core_slots,
                     visible>>
      /\ pc \in [Workers -> Labels] /\ row[w] \in Keys
  BY ControlTypes DEF try_install_new_buffer, batchVars, opVars, arrayVars, Structure
<1>2. CASE ~Exchangeable(row[w])
  <2>1. Goto(w, "load_other") /\ UNCHANGED row_buffer_ /\ "load_other" \in Labels
    BY <1>2 DEF try_install_new_buffer, Labels, Preparing
  <2>2. "load_other" \in Preparing /\ pc[w] \in Preparing
    BY <1>1 DEF Preparing
  <2> QED
    BY <1>1, <2>1, <2>2, DataLocal
<1>3. CASE Exchangeable(row[w])
  <2>1. /\ pc' = [pc EXCEPT ![w] = "append"]
        /\ row_buffer_[row[w]] = NoBuffer
        /\ row_buffer_' = [row_buffer_ EXCEPT ![row[w]] = buffer[w]]
        /\ row_buffer_ \in [Keys -> Buffers \cup {NoBuffer}]
        /\ buffer[w] \in Buffers
    BY <1>1, <1>3, ControlTypes DEF try_install_new_buffer, Goto, Exchangeable, Structure,
       Ownership, BuffersNotShared, HoldingLabels
  <2>2. \A v \in Workers : core_slots[buffer[w]][v] = {}
    <3>1. \A k \in Keys : row_buffer_[k] # buffer[w]
      BY <1>1 DEF Structure, Ownership, BuffersNotShared, HoldingLabels
    <3> QED
      BY <2>1, <3>1 DEF Structure, Slots, SlotsRemembered
  <2>3. ASSUME NEW k \in Keys PROVE Buffered(k)' = Buffered(k)
    <3>1. CASE k = row[w]
      BY <1>1, <2>1, <2>2, <3>1 DEF Buffered
    <3>2. CASE k # row[w]
      BY <1>1, <2>1, <3>2 DEF Buffered
    <3> QED
      BY <3>1, <3>2
  <2>4. \A o : Unborn(o) => Unborn(o)'
    BY <1>1, <2>1 DEF Unborn, Preparing
  <2>5. \A o : Waiting(o)' <=> Waiting(o)
    BY <1>1, <2>1 DEF Waiting
  <2>6. VisibleIsSerial' /\ visible' \in [Workers -> Versions]
    BY <1>1, <2>1 DEF Data, DataTypeOK, VisibleIsSerial
  <2> QED
    BY <1>1, <2>3, <2>4, <2>5, <2>6, DataQuiet DEF Structure
<1> QED
  BY <1>2, <1>3
-------------------------------------------------------------------------------
(***************************************************************************)
(* The appends                                                             *)
(***************************************************************************)

\* minor_gc collects all versions of earlier epochs but the final state.
LEMMA GarbageIs ==
    ASSUME Control, Data, NEW k \in Keys
    PROVE  /\ Garbage(k) \subseteq ids_slots_[k]
           /\ \A v \in ids_slots_[k] : v \in Garbage(k) <=> v[1] < epoch /\ v # db[k]
<1>1. /\ ids_slots_[k] \subseteq Versions /\ db[k] \in ids_slots_[k]
      /\ db[k][1] < epoch /\ epoch \in Nat
      /\ \A v \in ids_slots_[k] : v[1] < epoch => v = db[k] \/ Less(v, db[k])
  BY EpochsAssumption DEF Data, DataTypeOK, OldVersionsKept, Control, ControlTypeOK
<1>2. ASSUME NEW v \in ids_slots_[k], v \in Garbage(k) PROVE v[1] < epoch /\ v # db[k]
  <2>1. PICK u \in ids_slots_[k] : Less(v, u) /\ u[1] < epoch
    BY <1>2 DEF Garbage
  <2>2. /\ u[1] \in Nat /\ u[2] \in Nat /\ v[1] \in Nat /\ v[2] \in Nat
        /\ db[k][1] \in Nat /\ db[k][2] \in Nat
    BY <1>1, VersionTyped
  <2>3. u = db[k] \/ Less(u, db[k])
    BY <1>1, <2>1
  <2> QED
    BY <1>1, <2>1, <2>2, <2>3 DEF Less
<1>3. ASSUME NEW v \in ids_slots_[k], v[1] < epoch, v # db[k] PROVE v \in Garbage(k)
  BY <1>1, <1>3 DEF Garbage
<1> QED
  BY <1>2, <1>3 DEF Garbage

\* A step that changes the versions of row k only: those in collected go, and
\* those in new come, with the updates that come into being.
RowChanges(k, collected, new) ==
    /\ UNCHANGED <<epoch, phase, txs, db, visible>>
    /\ collected = {} \/ collected = Garbage(k)
    /\ new \subseteq {<<epoch, s>> : s \in Writers(txs, k)}
    /\ ids_slots_' \in [Keys -> SUBSET Versions]
    /\ status' = [status EXCEPT ![k] =
                     [v \in Versions |-> IF v \in collected THEN "none"
                                         ELSE IF v \in new THEN "pending"
                                         ELSE status[k][v]]]
    /\ \A j \in Keys : j # k =>
          ids_slots_'[j] = ids_slots_[j] /\ Buffered(j)' = Buffered(j)
    /\ Present(k)' = (Present(k) \ collected) \cup new
    /\ Buffered(k)' \subseteq Buffered(k) \cup new
    /\ ids_slots_[k] \ collected \subseteq ids_slots_'[k]
    /\ (\E u \in ids_slots_'[k] : u \notin ids_slots_[k]) => collected = Garbage(k)
    /\ \A o \in Updates(txs) : Unborn(o) =>
          Unborn(o)' \/ (RowOf(o) = k /\ <<epoch, o[1]>> \in new)

\* In the initialization phase such a step keeps the invariant.
LEMMA DataAppends ==
    ASSUME Control, Control', Data, phase = "init",
           NEW k \in Keys, NEW collected, NEW new, RowChanges(k, collected, new)
    PROVE  Data'
<1> USE DEF RowChanges
<1>1. /\ epoch \in Nat /\ epoch \in 0 .. NumEpochs /\ txs \in Workloads
      /\ ids_slots_ \in [Keys -> SUBSET Versions]
      /\ status \in [Keys -> [Versions -> {"none", "pending", "written", "stable"}]]
  BY EpochsAssumption DEF Control, ControlTypeOK, Data, DataTypeOK
<1>2. /\ new \subseteq Versions
      /\ \A v \in new : v[1] = epoch /\ v[2] \in Writers(txs, k)
  BY <1>1, WritersAreUpdates DEF Versions
<1>3. /\ collected \subseteq ids_slots_[k]
      /\ \A v \in collected : v[1] < epoch /\ v # db[k] /\ v \notin new
      /\ \A v \in collected : v \notin Buffered(k)
      /\ collected = Garbage(k) =>
            \A v \in ids_slots_[k] \ collected : v[1] = epoch \/ v = db[k]
  <2>1. \A v \in ids_slots_[k] : v[1] \in Nat /\ (v[1] < epoch \/ v[1] = epoch)
    BY <1>1, VersionTyped DEF Data, VersionsHaveWriters
  <2>2. \A v \in Garbage(k) : v[1] # epoch
    BY <1>1, <2>1, GarbageIs
  <2> QED
    BY <1>2, <2>1, <2>2, GarbageIs DEF Data, VersionsHaveWriters
<1>4. /\ ids_slots_'[k] \subseteq (Present(k) \ collected) \cup new
      /\ \A v \in ids_slots_'[k] : v \in ids_slots_[k] \ collected
                                      \/ v \in Buffered(k) \cup new
      /\ \A v \in Buffered(k) \cup new : v[1] = epoch /\ v[2] \in Writers(txs, k)
  BY <1>2, <1>3 DEF Present, Data, VersionsHaveWriters
<1>5. DataTypeOK'
  BY <1>1 DEF Data, DataTypeOK
<1>6. OldVersionsKept'
  <2> SUFFICES ASSUME NEW j \in Keys
               PROVE  /\ db[j] \in ids_slots_'[j] /\ db[j][1] < epoch
                      /\ \A v \in ids_slots_'[j] : v[1] < epoch =>
                            v = db[j] \/ Less(v, db[j])
                      /\ \A u, v \in ids_slots_'[j] :
                            u[1] = epoch /\ v[1] < epoch => v = db[j]
    BY DEF OldVersionsKept
  <2>1. CASE j # k
    BY <2>1 DEF Data, OldVersionsKept
  <2>2. CASE j = k
    <3>1. db[k] \in ids_slots_'[k] /\ db[k][1] < epoch
      BY <1>3 DEF Data, OldVersionsKept
    <3>2. ASSUME NEW v \in ids_slots_'[k], v[1] < epoch
          PROVE  v = db[k] \/ Less(v, db[k])
      BY <1>1, <1>4, <3>2 DEF Data, OldVersionsKept
    <3>3. ASSUME NEW u \in ids_slots_'[k], NEW v \in ids_slots_'[k],
                 u[1] = epoch, v[1] < epoch
          PROVE  v = db[k]
      <4>1. v \in ids_slots_[k] \ collected
        BY <1>1, <1>4, <3>3
      <4>2. CASE u \in ids_slots_[k]
        BY <3>3, <4>1, <4>2 DEF Data, OldVersionsKept
      <4>3. CASE u \notin ids_slots_[k]
        BY <1>1, <1>3, <3>3, <4>1, <4>3
      <4> QED
        BY <4>2, <4>3
    <3> QED
      BY <2>2, <3>1, <3>2, <3>3
  <2> QED
    BY <2>1, <2>2
<1>7. VersionsHaveWriters'
  <2> SUFFICES ASSUME NEW j \in Keys
               PROVE  /\ \A v \in ids_slots_'[j] : v[1] < epoch \/
                            (v[1] = epoch /\ phase # "end" /\ v[2] \in Writers(txs, j))
                      /\ \A v \in Buffered(j)' :
                            v[1] = epoch /\ phase # "end" /\ v[2] \in Writers(txs, j)
    BY DEF VersionsHaveWriters
  <2>1. CASE j # k
    BY <2>1 DEF Data, VersionsHaveWriters
  <2>2. CASE j = k
    BY <1>4, <2>2 DEF Data, VersionsHaveWriters
  <2> QED
    BY <2>1, <2>2
<1>8. UpdatesHaveVersions'
  <2> SUFFICES ASSUME NEW o \in Updates(txs)'
               PROVE  Unborn(o)' \/ (<<epoch, o[1]>> \in Present(RowOf(o)))'
    BY DEF UpdatesHaveVersions
  <2>1. PICK j \in Keys : j = RowOf(o) /\ j = RowOf(o)'
    BY UpdateTyped DEF RowOf
  <2>2. o \in Updates(txs)
    OBVIOUS
  <2>3. CASE Unborn(o) /\ j = k /\ <<epoch, o[1]>> \in new
    <3>1. <<epoch, o[1]>> \in Present(j)'
      BY <2>3
    <3> QED
      BY <2>1, <3>1
  <2>4. CASE Unborn(o) /\ ~(j = k /\ <<epoch, o[1]>> \in new)
    BY <2>1, <2>2, <2>4
  <2>5. CASE ~Unborn(o)
    <3>1. <<epoch, o[1]>> \in Present(j)
      BY <2>1, <2>2, <2>5 DEF Data, UpdatesHaveVersions, InInit
    <3>2. <<epoch, o[1]>> \notin collected
      BY <1>1, <1>3
    <3>3. <<epoch, o[1]>> \in Present(j)'
      BY <3>1, <3>2 DEF Present
    <3> QED
      BY <2>1, <3>3
  <2> QED
    BY <2>3, <2>4, <2>5
<1>9. LiveVersionsReachable'
  <2> SUFFICES ASSUME NEW j \in Keys PROVE Live(j)' = Present(j)'
    BY DEF LiveVersionsReachable, Present
  <2>0. Live(j) = Present(j)
    BY DEF Data, LiveVersionsReachable, Present
  <2>1. CASE j # k
    BY <1>1, <2>0, <2>1 DEF Live, Present
  <2>2. CASE j = k
    <3>1. \A v \in Versions : status'[k][v] = IF v \in collected THEN "none"
                                              ELSE IF v \in new THEN "pending"
                                              ELSE status[k][v]
      BY <1>1
    <3>2. Live(k)' = (Live(k) \ collected) \cup new
      BY <1>2, <1>3, <3>1 DEF Live
    <3> QED
      BY <2>0, <2>2, <3>2
  <2> QED
    BY <2>1, <2>2
<1>10. StatusFollows'
  <2>1. ASSUME NEW j \in Keys, NEW v \in ids_slots_'[j], v[1] < epoch
        PROVE  status'[j][v] = "stable"
    <3>1. CASE j # k
      BY <1>1, <2>1, <3>1 DEF Data, StatusFollows
    <3>2. CASE j = k
      <4>1. v \in ids_slots_[k] /\ v \notin collected /\ v \notin new /\ v \in Versions
        BY <1>1, <1>2, <1>4, <2>1, <3>2
      <4> QED
        BY <1>1, <2>1, <3>2, <4>1 DEF Data, StatusFollows
    <3> QED
      BY <3>1, <3>2
  <2>2. ASSUME NEW j \in Keys, NEW v \in Present(j)', v[1] = epoch
        PROVE  status'[j][v] # "stable"
    <3>1. CASE j # k
      <4>1. v \in Present(j)
        BY <2>2, <3>1 DEF Present
      <4> QED
        BY <1>1, <2>2, <3>1, <4>1 DEF Data, StatusFollows, InInit
    <3>2. CASE j = k
      <4>1. v \in Versions
        BY <1>2, <2>2, <3>2 DEF Data, LiveVersionsReachable, Live, Present
      <4>2. CASE v \in new
        BY <1>1, <1>3, <3>2, <4>1, <4>2
      <4>3. CASE v \in Present(k) /\ v \notin new
        BY <1>1, <2>2, <3>2, <4>1, <4>3 DEF Data, StatusFollows, InInit
      <4> QED
        BY <2>2, <3>2, <4>2, <4>3
    <3> QED
      BY <3>1, <3>2
  <2> QED
    BY <2>1, <2>2 DEF StatusFollows, InInit
<1>11. VisibleIsSerial'
  BY DEF Control, PhaseLabels, Reading, VisibleIsSerial
<1> QED
  BY <1>5, <1>6, <1>7, <1>8, <1>9, <1>10, <1>11 DEF Data

\* What AppendWithGC leaves.
LEMMA AppendWithGCEffect ==
    ASSUME Control, Data, NEW k \in Keys, NEW vs, NEW created,
           vs \subseteq Versions, AppendWithGC(k, vs, created)
    PROVE  /\ ids_slots_' \in [Keys -> SUBSET Versions]
           /\ ids_slots_'[k] = (ids_slots_[k] \ Garbage(k)) \cup vs
           /\ \A j \in Keys : j # k => ids_slots_'[j] = ids_slots_[j]
           /\ status' = [status EXCEPT ![k] =
                            [v \in Versions |-> IF v \in Garbage(k) THEN "none"
                                                ELSE IF v \in created THEN "pending"
                                                ELSE status[k][v]]]
<1>1. /\ ids_slots_ \in [Keys -> SUBSET Versions]
      /\ ids_slots_' = [ids_slots_ EXCEPT ![k] = (@ \ Garbage(k)) \cup vs]
  BY DEF AppendWithGC, Data, DataTypeOK
<1>2. status' = [status EXCEPT ![k] =
                    [v \in Versions |-> IF v \in Garbage(k) THEN "none"
                                        ELSE IF v \in created THEN "pending"
                                        ELSE status[k][v]]]
  BY DEF AppendWithGC, Freed, Data, DataTypeOK
<1> QED
  BY <1>1, <1>2

\* The operation a worker appends the version of.
LEMMA AppenderFacts ==
    ASSUME Control, NEW w \in Workers, pc[w] \in Preparing
    PROVE  /\ phase \in {"init", "aborted"} /\ op[w] \in Updates(txs)
           /\ row[w] \in Keys /\ row[w] = RowOf(op[w])
           /\ Pending(w) \in {<<epoch, s>> : s \in Writers(txs, row[w])}
           /\ Pending(w) = <<epoch, op[w][1]>>
<1>1. /\ op[w] \in Updates(txs) /\ row[w] = RowOf(op[w])
      /\ phase \in {"init", "aborted"} /\ row[w] \in Keys
  BY DEF Control, OwnOperations, PhaseLabels, Preparing, Reading, Writing, RowOf,
     ControlTypeOK
<1> QED
  BY <1>1, UpdateTyped DEF Pending

\* w's operation comes into being when w leaves the labels before the append.
LEMMA UnbornAfter ==
    ASSUME Control, NEW w \in Workers, NEW l, l \notin Preparing,
           Goto(w, l), UNCHANGED <<todo, op>>, NEW o, Unborn(o)
    PROVE  Unborn(o)' \/ (o = op[w] /\ pc[w] \in Preparing)
<1>1. PICK v \in Workers : o \in todo[v] \/ (pc[v] \in Preparing /\ op[v] = o)
  BY DEF Unborn
<1>2. CASE v = w
  BY <1>1, <1>2 DEF Unborn
<1>3. CASE v # w
  <2>1. pc'[v] = pc[v]
    BY <1>3 DEF Goto, Control, ControlTypeOK
  <2> QED
    BY <1>1, <2>1 DEF Unborn
<1> QED
  BY <1>2, <1>3

\* The buffer a worker uses is that of its row, and of no other.
LEMMA UserOfBuffer ==
    ASSUME Control, Ownership, NEW w \in Workers, pc[w] \in UsingLabels
    PROVE  /\ buffer[w] \in Buffers /\ buffer[w] # NoBuffer
           /\ row_buffer_[row[w]] = buffer[w]
           /\ \A j \in Keys : j # row[w] => row_buffer_[j] # buffer[w]
           /\ row_buffer_ \in [Keys -> Buffers \cup {NoBuffer}]
<1>1. /\ buffer[w] \in Buffers /\ buffer[w] # NoBuffer
      /\ row_buffer_[row[w]] = buffer[w] /\ row[w] \in Keys
      /\ row_buffer_ \in [Keys -> Buffers \cup {NoBuffer}]
  BY ControlTypes DEF Ownership, AppendersUseRowBuffer
<1> QED
  BY <1>1 DEF Ownership, BuffersNotShared

\* The buffers of a row are those of the parts, if these are the same.
LEMMA BufferedSame ==
    ASSUME NEW j \in Keys, UNCHANGED row_buffer_,
           row_buffer_[j] # NoBuffer => \A v \in Workers :
               core_slots'[row_buffer_[j]][v] = core_slots[row_buffer_[j]][v]
    PROVE  Buffered(j)' = Buffered(j)
<1>1. CASE row_buffer_[j] = NoBuffer
  BY <1>1 DEF Buffered
<1>2. CASE row_buffer_[j] # NoBuffer
  <2>1. {core_slots'[row_buffer_'[j]][v] : v \in Workers} =
            {core_slots[row_buffer_[j]][v] : v \in Workers}
    BY <1>2
  <2> QED
    BY <1>2, <2>1 DEF Buffered
<1> QED
  BY <1>1, <1>2

\* append_to_uncontended_row: minor_gc and the new version, under the lock.
LEMMA DataAppendGlobal ==
    ASSUME Structure, Control', Data, phase \in {"init", "exec"},
           NEW w \in Workers, append_to_uncontended_row(w)
    PROVE  Data'
<1>k. PICK k, new, gone : k = row[w] /\ new = {Pending(w)} /\ gone = Garbage(k)
  OBVIOUS
<1>1. /\ pc[w] = "append_global" /\ pc[w] \in Preparing
      /\ AppendWithGC(k, new, new) /\ Goto(w, "unlock")
      /\ UNCHANGED <<epoch, phase, txs, db, visible, todo, op, row_buffer_, core_slots>>
  BY <1>k DEF append_to_uncontended_row, batchVars, opVars, bufferVars, Preparing
<1>2. Control
  BY DEF Structure
<1>3. /\ phase = "init" /\ k \in Keys /\ new \subseteq Versions
      /\ k = RowOf(op[w]) /\ new = {<<epoch, op[w][1]>>}
      /\ new \subseteq {<<epoch, s>> : s \in Writers(txs, k)}
  BY <1>k, <1>1, <1>2, AppenderFacts, PendingIsVersion
<1>4. /\ ids_slots_' \in [Keys -> SUBSET Versions]
      /\ ids_slots_'[k] = (ids_slots_[k] \ gone) \cup new
      /\ \A j \in Keys : j # k => ids_slots_'[j] = ids_slots_[j]
      /\ status' = [status EXCEPT ![k] =
                       [v \in Versions |-> IF v \in gone THEN "none"
                                           ELSE IF v \in new THEN "pending"
                                           ELSE status[k][v]]]
  BY <1>k, <1>1, <1>2, <1>3, AppendWithGCEffect
<1>5. \A j \in Keys : Buffered(j)' = Buffered(j)
  BY <1>1 DEF Buffered
<1>6. \A v \in Buffered(k) : v \notin gone
  <2>1. epoch \in Nat
    BY <1>2, EpochsAssumption DEF Control, ControlTypeOK
  <2> QED
    BY <1>k, <1>2, <1>3, <2>1, GarbageIs DEF Data, VersionsHaveWriters
<1>7. \A o \in Updates(txs) : Unborn(o) =>
         Unborn(o)' \/ (RowOf(o) = k /\ <<epoch, o[1]>> \in new)
  <2>1. "unlock" \notin Preparing
    BY DEF Preparing
  <2> QED
    BY <1>1, <1>2, <1>3, <2>1, UnbornAfter
<1>8. Present(k)' = (Present(k) \ gone) \cup new
  BY <1>3, <1>4, <1>5, <1>6 DEF Present
<1>9. gone = {} \/ gone = Garbage(k)
  BY <1>k
<1> QED
  <2>1. /\ Buffered(k)' \subseteq Buffered(k) \cup new
        /\ ids_slots_[k] \ gone \subseteq ids_slots_'[k]
        /\ \A j \in Keys : j # k =>
              ids_slots_'[j] = ids_slots_[j] /\ Buffered(j)' = Buffered(j)
    BY <1>3, <1>4, <1>5
  <2>2. UNCHANGED <<epoch, phase, txs, db, visible>>
    BY <1>1
  <2>3. (\E u \in ids_slots_'[k] : u \notin ids_slots_[k]) => gone = Garbage(k)
    BY <1>k
  <2> QED
    <3>1. RowChanges(k, gone, new)
      BY <1>3, <1>4, <1>7, <1>8, <1>9, <2>1, <2>2, <2>3 DEF RowChanges
    <3> QED
      BY <1>2, <1>3, <3>1, DataAppends

\* append_to_contented_row: the new version goes to w's part of the buffer.
LEMMA DataAppendBuffer ==
    ASSUME Structure, Control', Data, phase \in {"init", "exec"},
           NEW w \in Workers, append_to_contented_row(w)
    PROVE  Data'
<1>k. PICK k, new, b : k = row[w] /\ new = {Pending(w)} /\ b = buffer[w]
  OBVIOUS
<1>1. /\ pc[w] = "append" /\ pc[w] \in Preparing
      /\ status' = [status EXCEPT ![k][Pending(w)] = "pending"]
      /\ core_slots' = [core_slots EXCEPT ![b][w] = @ \cup new]
      /\ UNCHANGED <<epoch, phase, txs, db, visible, todo, op, row_buffer_, ids_slots_>>
  BY <1>k DEF append_to_contented_row, batchVars, opVars, bufferVars, Preparing
<1>2. Control /\ Ownership /\ SlotsTyped
  BY DEF Structure, Slots
<1>3. /\ phase = "init" /\ k \in Keys /\ new \subseteq Versions
      /\ k = RowOf(op[w]) /\ new = {<<epoch, op[w][1]>>}
      /\ new \subseteq {<<epoch, s>> : s \in Writers(txs, k)}
  BY <1>k, <1>1, <1>2, AppenderFacts, PendingIsVersion
<1>4. /\ b \in Buffers /\ b # NoBuffer /\ row_buffer_[k] = b
      /\ \A j \in Keys : j # k => row_buffer_[j] # b
      /\ row_buffer_ \in [Keys -> Buffers \cup {NoBuffer}]
  BY <1>k, <1>1, <1>2, UserOfBuffer DEF UsingLabels
<1>5. \A c \in Buffers, v \in Workers :
         core_slots'[c][v] = IF c = b /\ v = w THEN core_slots[b][w] \cup new
                             ELSE core_slots[c][v]
  BY <1>1, <1>2, <1>4 DEF SlotsTyped
<1>6. ASSUME NEW j \in Keys, j # k PROVE Buffered(j)' = Buffered(j)
  BY <1>1, <1>4, <1>5, <1>6, BufferedSame
<1>7. Buffered(k)' = Buffered(k) \cup new
  BY <1>1, <1>4, <1>5 DEF Buffered
<1>8. status' = [status EXCEPT ![k] =
                    [v \in Versions |-> IF v \in {} THEN "none"
                                        ELSE IF v \in new THEN "pending"
                                        ELSE status[k][v]]]
  <2>1. status \in [Keys -> [Versions -> {"none", "pending", "written", "stable"}]]
    BY DEF Data, DataTypeOK
  <2> QED
    BY <1>k, <1>1, <1>3, <2>1
<1>9. \A o \in Updates(txs) : Unborn(o) =>
         Unborn(o)' \/ (RowOf(o) = k /\ <<epoch, o[1]>> \in new)
  <2>1. PICK l : l \notin Preparing /\ Goto(w, l)
    BY DEF append_to_contented_row, Preparing
  <2> QED
    BY <1>1, <1>2, <1>3, <2>1, UnbornAfter
<1>10. Present(k)' = (Present(k) \ {}) \cup new
  BY <1>1, <1>7 DEF Present
<1>11. ids_slots_' \in [Keys -> SUBSET Versions]
  BY <1>1 DEF Data, DataTypeOK
<1> QED
  <2>1. /\ Buffered(k)' \subseteq Buffered(k) \cup new
        /\ ids_slots_[k] \ {} \subseteq ids_slots_'[k]
        /\ \A j \in Keys : j # k =>
              ids_slots_'[j] = ids_slots_[j] /\ Buffered(j)' = Buffered(j)
        /\ ~ \E u \in ids_slots_'[k] : u \notin ids_slots_[k]
    BY <1>1, <1>6, <1>7
  <2>2. UNCHANGED <<epoch, phase, txs, db, visible>>
    BY <1>1
  <2> QED
    <3>1. RowChanges(k, {}, new)
      BY <1>3, <1>8, <1>9, <1>10, <1>11, <2>1, <2>2 DEF RowChanges
    <3> QED
      BY <1>2, <1>3, <3>1, DataAppends

\* batch_append: a part moves to the global array, after minor_gc.
LEMMA DataBatchAppend ==
    ASSUME Structure, Control', Data, phase \in {"init", "exec"},
           NEW w \in Workers, batch_append(w)
    PROVE  Data'
<1>k. PICK k, b, part, gone :
          k = row[w] /\ b = buffer[w] /\ part = core_slots[b][w] /\ gone = Garbage(k)
  OBVIOUS
<1>1. /\ pc[w] \in {"batch_append", "final_append"} /\ pc[w] \notin Preparing
      /\ AppendWithGC(k, part, {})
      /\ core_slots' = [core_slots EXCEPT ![b][w] = {}]
      /\ UNCHANGED <<epoch, phase, txs, db, visible, todo, op, row_buffer_>>
  BY <1>k DEF batch_append, batchVars, opVars, bufferVars, Preparing
<1>2. Control /\ Ownership /\ SlotsTyped
  BY DEF Structure, Slots
<1>3. phase = "init" /\ k \in Keys
  BY <1>k, <1>1, <1>2, ControlTypes DEF Control, PhaseLabels, Reading, Writing
<1>4. /\ b \in Buffers /\ b # NoBuffer /\ row_buffer_[k] = b
      /\ \A j \in Keys : j # k => row_buffer_[j] # b
      /\ row_buffer_ \in [Keys -> Buffers \cup {NoBuffer}]
  BY <1>k, <1>1, <1>2, UserOfBuffer DEF UsingLabels
<1>5. \A c \in Buffers, v \in Workers :
         core_slots'[c][v] = IF c = b /\ v = w THEN {} ELSE core_slots[c][v]
  BY <1>1, <1>2, <1>4 DEF SlotsTyped
<1>6. part \subseteq Versions /\ part \subseteq Buffered(k)
  BY <1>k, <1>2, <1>4 DEF SlotsTyped, Buffered
<1>7. /\ ids_slots_' \in [Keys -> SUBSET Versions]
      /\ ids_slots_'[k] = (ids_slots_[k] \ gone) \cup part
      /\ \A j \in Keys : j # k => ids_slots_'[j] = ids_slots_[j]
      /\ status' = [status EXCEPT ![k] =
                       [v \in Versions |-> IF v \in gone THEN "none"
                                           ELSE IF v \in {} THEN "pending"
                                           ELSE status[k][v]]]
  BY <1>k, <1>1, <1>2, <1>3, <1>6, AppendWithGCEffect
<1>8. ASSUME NEW j \in Keys, j # k PROVE Buffered(j)' = Buffered(j)
  BY <1>1, <1>4, <1>5, <1>8, BufferedSame
<1>9. Buffered(k)' \subseteq Buffered(k) /\ Buffered(k) \subseteq Buffered(k)' \cup part
  BY <1>k, <1>1, <1>4, <1>5 DEF Buffered
<1>10. \A v \in Buffered(k) : v \notin gone
  <2>1. epoch \in Nat
    BY <1>2, EpochsAssumption DEF Control, ControlTypeOK
  <2> QED
    BY <1>k, <1>2, <1>3, <2>1, GarbageIs DEF Data, VersionsHaveWriters
<1>11. Present(k)' = (Present(k) \ gone) \cup {}
  BY <1>6, <1>7, <1>9, <1>10 DEF Present
<1>12. \A o \in Updates(txs) : Unborn(o) => Unborn(o)'
  <2>1. PICK l : l \notin Preparing /\ Goto(w, l)
    BY DEF batch_append, Preparing
  <2> QED
    BY <1>1, <1>2, <2>1, UnbornAfter
<1>13. gone = {} \/ gone = Garbage(k)
  BY <1>k
<1> QED
  <2>1. /\ Buffered(k)' \subseteq Buffered(k) \cup {}
        /\ ids_slots_[k] \ gone \subseteq ids_slots_'[k]
        /\ \A j \in Keys : j # k =>
              ids_slots_'[j] = ids_slots_[j] /\ Buffered(j)' = Buffered(j)
        /\ {} \subseteq {<<epoch, s>> : s \in Writers(txs, k)}
    BY <1>7, <1>8, <1>9
  <2>2. UNCHANGED <<epoch, phase, txs, db, visible>>
    BY <1>1
  <2>3. (\E u \in ids_slots_'[k] : u \notin ids_slots_[k]) => gone = Garbage(k)
    BY <1>k
  <2> QED
    <3>1. RowChanges(k, gone, {})
      BY <1>7, <1>11, <1>12, <1>13, <2>1, <2>2, <2>3 DEF RowChanges
    <3> QED
      BY <1>2, <1>3, <3>1, DataAppends
-------------------------------------------------------------------------------
(***************************************************************************)
(* Execution                                                               *)
(***************************************************************************)

\* An operation is in one worker's hands only: when w ends it, it is executed.
LEMMA WaitingAfter ==
    ASSUME Control, NEW w \in Workers, pc[w] \in Reading \cup Writing,
           Goto(w, "begin"), UNCHANGED <<todo, op>>,
           NEW o
    PROVE  Waiting(o)' <=> Waiting(o) /\ o # op[w]
<1>1. /\ pc \in [Workers -> Labels] /\ pc' = [pc EXCEPT ![w] = "begin"]
      /\ pc[w] \notin {"begin", "done"}
  BY DEF Goto, Control, ControlTypeOK, Reading, Writing
<1>2. /\ op[w] \in Mine(w, Ops(txs)) /\ op[w] \notin todo[w]
  BY DEF Control, OwnOperations
<1>3. ASSUME NEW v \in Workers, v # w
      PROVE  op[w] \notin todo[v] /\ (pc[v] \notin {"begin", "done"} => op[v] # op[w]
                                      \/ pc[v] \in Finalizing)
  <2>1. todo[v] \subseteq Mine(v, Ops(txs)) /\ op[w][1] % N = w
    BY <1>2 DEF Control, OwnOperations, Mine
  <2>2. op[w] \notin todo[v]
    BY <1>3, <2>1 DEF Mine
  <2>3. pc[v] \in Preparing \cup Appended \cup Reading \cup Writing => op[v][1] % N = v
    BY DEF Control, OwnOperations, Mine
  <2>4. pc[v] \in {"begin", "done"} \cup Preparing \cup Appended \cup Finalizing
                     \cup Reading \cup Writing
    BY <1>1 DEF Labels
  <2> QED
    BY <1>3, <2>1, <2>2, <2>3, <2>4
<1>4. \A v \in Workers : pc[v] \notin Finalizing
  <2>1. phase \notin {"init", "aborted"}
    BY DEF Control, PhaseLabels
  <2> QED
    BY <2>1 DEF Control, PhaseLabels, Finalizing, Reading, Writing
<1>5. o # op[w] => (Waiting(o)' <=> Waiting(o))
  BY <1>1 DEF Waiting
<1>6. o = op[w] => ~Waiting(o)'
  BY <1>1, <1>2, <1>3, <1>4 DEF Waiting
<1> QED
  BY <1>5, <1>6

\* search_visible_version finds the version that the serial order gives.
LEMMA VisibleVersion ==
    ASSUME Control, Data, phase = "exec", NEW k \in Keys, NEW s \in Serials,
           NEW v \in Visible(k, <<epoch, s>>),
           \A u \in Visible(k, <<epoch, s>>) : u = v \/ Less(u, v)
    PROVE  v = SerialRead(txs, epoch, db, s, k)
<1> DEFINE before == {u \in Writers(txs, k) : u < s}
<1>1. /\ ids_slots_[k] \subseteq Versions /\ epoch \in Nat /\ s \in Nat
      /\ txs \in Workloads /\ v \in ids_slots_[k] /\ Less(v, <<epoch, s>>)
      /\ Writers(txs, k) \subseteq Serials /\ before \subseteq Serials
  BY EpochsAssumption, SerialsAreNatural, WritersAreUpdates
     DEF Control, ControlTypeOK, Data, DataTypeOK, Visible
<1>2. v[1] \in Nat /\ v[2] \in Nat /\ v = <<v[1], v[2]>>
  BY <1>1, VersionTyped
<1>3. v[1] = epoch => v[2] \in before
  <2>1. v[1] = epoch => v[2] \in Writers(txs, k)
    BY <1>1 DEF Data, VersionsHaveWriters
  <2>2. v[1] = epoch => v[2] < s
    BY <1>1, <1>2 DEF Less
  <2> QED
    BY <2>1, <2>2
<1>4. v[1] = epoch \/ v[1] < epoch
  BY <1>1, <1>2 DEF Less
<1>5. CASE before = {}
  <2>1. v[1] < epoch
    BY <1>3, <1>4, <1>5
  <2>2. v = db[k] \/ Less(v, db[k])
    BY <1>1, <2>1 DEF Data, OldVersionsKept
  <2>3. db[k] \in ids_slots_[k] /\ db[k][1] < epoch
    BY DEF Data, OldVersionsKept
  <2>4. db[k] \in Visible(k, <<epoch, s>>)
    BY <2>3 DEF Visible, Less
  <2>5. db[k][1] \in Nat /\ db[k][2] \in Nat
    BY <1>1, <2>3, VersionTyped
  <2>6. v = db[k]
    BY <1>2, <2>2, <2>4, <2>5 DEF Less
  <2> QED
    BY <1>5, <2>6 DEF SerialRead
<1>6. CASE before # {}
  <2>m. PICK m : m = Max(before)
    OBVIOUS
  <2>1. m \in before /\ \A x \in before : x <= m
    BY <1>1, <1>6, <2>m, MaxIsLast
  <2>2. PICK o \in Updates(txs) : o[1] = m /\ RowOf(o) = k
    <3>1. m \in Writers(txs, k)
      BY <2>1
    <3> QED
      BY <1>1, <3>1, WritersAreUpdates DEF RowOf
  <2>3. <<epoch, m>> \in ids_slots_[k]
    BY <2>2 DEF Data, UpdatesHaveVersions
  <2>4. <<epoch, m>> \in Visible(k, <<epoch, s>>)
    BY <2>1, <2>3 DEF Visible, Less
  <2>5. m \in Nat
    BY <1>1, <2>1, SerialsAreNatural
  <2>6. <<epoch, m>> = v \/ Less(<<epoch, m>>, v)
    BY <2>4
  <2>7. v[1] = epoch /\ v[2] >= m
    BY <1>1, <1>2, <1>4, <2>5, <2>6 DEF Less
  <2>8. v[2] <= m
    BY <1>3, <2>1, <2>7
  <2>9. v = <<epoch, m>>
    BY <1>2, <2>5, <2>7, <2>8
  <2> QED
    BY <1>6, <2>m, <2>9 DEF SerialRead
<1> QED
  BY <1>5, <1>6

\* read
LEMMA DataRead ==
    ASSUME Structure, Data, phase \in {"init", "exec"}, NEW w \in Workers, read(w)
    PROVE  Data'
<1>1. /\ pc[w] = "read" /\ pc' = [pc EXCEPT ![w] = "wait_stable"]
      /\ UNCHANGED <<epoch, txs, db, phase, todo, op, row, ids_slots_, status, core_slots,
                     row_buffer_>>
  BY DEF read, Goto, batchVars, opVars, bufferVars, arrayVars
<1>2. PICK v \in Visible(row[w], Pending(w)) :
          /\ \A u \in Visible(row[w], Pending(w)) : u = v \/ Less(u, v)
          /\ visible' = [visible EXCEPT ![w] = v]
  BY DEF read
<1>3. /\ pc \in [Workers -> Labels] /\ row[w] \in Keys /\ op[w][1] \in Serials
      /\ visible \in [Workers -> Versions] /\ v \in Versions /\ phase = "exec"
      /\ Control
  <2>1. op[w] \in Serials \X Nat
    BY DEF Structure, Control, ControlTypeOK
  <2>2. row[w] \in Keys /\ v \in ids_slots_[row[w]]
    BY <1>2, ControlTypes DEF Structure, Visible
  <2> QED
    BY <1>1, <2>1, <2>2, ControlTypes DEF Structure, Data, DataTypeOK, Control, PhaseLabels,
       Reading
<1>4. v = SerialRead(txs, epoch, db, op[w][1], row[w])
  BY <1>2, <1>3, VisibleVersion DEF Pending
<1>5. VisibleIsSerial'
  BY <1>1, <1>2, <1>3, <1>4 DEF Data, VisibleIsSerial
<1>6. \A k \in Keys : Buffered(k)' = Buffered(k)
  BY <1>1 DEF Buffered
<1>7. \A o : (Unborn(o) => Unborn(o)') /\ (Waiting(o)' <=> Waiting(o))
  BY <1>1, <1>3 DEF Unborn, Waiting, Preparing
<1>8. visible' \in [Workers -> Versions]
  BY <1>2, <1>3
<1> QED
  BY <1>1, <1>3, <1>5, <1>6, <1>7, <1>8, DataQuiet

\* wait_stable_and_execute_read
LEMMA DataReadEnd ==
    ASSUME Structure, Data, phase \in {"init", "exec"},
           NEW w \in Workers, wait_stable_and_execute_read(w)
    PROVE  Data'
<1>1. /\ pc[w] = "wait_stable" /\ Goto(w, "begin")
      /\ UNCHANGED <<epoch, txs, db, phase, todo, op, row, ids_slots_, status, core_slots,
                     row_buffer_, visible>>
  BY DEF wait_stable_and_execute_read, batchVars, opVars, bufferVars, arrayVars
<1>2. Control /\ op[w] \in Reads(txs) /\ phase = "exec" /\ pc \in [Workers -> Labels]
  BY <1>1 DEF Structure, Control, PhaseLabels, OwnOperations, Reading, ControlTypeOK
<1>3. \A o \in Updates(txs) : o # op[w]
  BY <1>2 DEF Reads, Updates
<1>4. \A o \in Updates(txs) : Waiting(o)' <=> Waiting(o)
  <2>1. pc[w] \in Reading \cup Writing
    BY <1>1 DEF Reading
  <2> QED
    BY <1>1, <1>2, <1>3, <2>1, WaitingAfter
<1>5. VisibleIsSerial' /\ visible' \in [Workers -> Versions]
  BY <1>1, <1>2 DEF Goto, Data, DataTypeOK, VisibleIsSerial
<1>6. \A k \in Keys : Buffered(k)' = Buffered(k)
  BY <1>1 DEF Buffered
<1>7. ~InInit
  BY <1>2 DEF InInit
<1> QED
  BY <1>1, <1>2, <1>4, <1>5, <1>6, <1>7, DataQuiet

\* upsert: w sets the status of the version of its update, which exists; the
\* version is stable exactly when the operation is over.
LEMMA DataWrite ==
    ASSUME Structure, Data, phase \in {"init", "exec"},
           NEW w \in Workers, write_rec(w) \/ write_status(w)
    PROVE  Data'
<1>k. PICK k, p, o : k = row[w] /\ p = Pending(w) /\ o = op[w]
  OBVIOUS
<1>1. PICK st \in {"written", "stable"}, l \in {"write_status", "begin"} :
          /\ st = "stable" <=> l = "begin"
          /\ pc[w] \in Writing /\ Goto(w, l)
          /\ status' = [status EXCEPT ![k][p] = st]
          /\ UNCHANGED <<epoch, txs, db, phase, todo, op, row, ids_slots_, core_slots,
                         row_buffer_, visible>>
  BY <1>k DEF write_rec, write_status, SetStatus, Writing, batchVars, opVars, bufferVars
<1>2. /\ Control /\ phase = "exec" /\ ~InInit
      /\ o \in Updates(txs) /\ RowOf(o) = k /\ k \in Keys
      /\ p = <<epoch, o[1]>> /\ p \in Versions /\ p[1] = epoch
      /\ pc \in [Workers -> Labels] /\ pc' = [pc EXCEPT ![w] = l]
      /\ epoch \in Nat
  <2>1. Control
    BY DEF Structure
  <2>2. /\ o \in Updates(txs) /\ RowOf(o) = k /\ k \in Keys /\ phase = "exec"
        /\ pc \in [Workers -> Labels] /\ pc' = [pc EXCEPT ![w] = l]
        /\ epoch \in Nat
    BY <1>k, <1>1, <2>1, EpochsAssumption
       DEF Goto, Control, ControlTypeOK, OwnOperations, PhaseLabels, RowOf
  <2> QED
    BY <1>k, <2>1, <2>2, PendingIsVersion DEF Pending, InInit
<1>3. p \in ids_slots_[k]
  BY <1>2 DEF Data, UpdatesHaveVersions
<1>4. /\ status \in [Keys -> [Versions -> {"none", "pending", "written", "stable"}]]
      /\ status' \in [Keys -> [Versions -> {"none", "pending", "written", "stable"}]]
      /\ status'[k][p] = st
      /\ \A j \in Keys, v \in Versions : ~(j = k /\ v = p) => status'[j][v] = status[j][v]
  <2>1. status \in [Keys -> [Versions -> {"none", "pending", "written", "stable"}]]
    BY DEF Data, DataTypeOK
  <2> QED
    BY <1>1, <1>2, <2>1
<1>5. DataTypeOK' /\ OldVersionsKept'
  BY <1>1, <1>4 DEF Data, DataTypeOK, OldVersionsKept
<1>6. \A j \in Keys : Buffered(j)' = Buffered(j)
  BY <1>1 DEF Buffered
<1>7. VersionsHaveWriters'
  BY <1>1, <1>6 DEF Data, VersionsHaveWriters
<1>8. UpdatesHaveVersions'
  BY <1>1, <1>2 DEF Data, UpdatesHaveVersions, RowOf, InInit
<1>9. LiveVersionsReachable'
  <2> SUFFICES ASSUME NEW j \in Keys PROVE Live(j)' = Live(j)
    BY <1>1, <1>6 DEF Data, LiveVersionsReachable
  <2>1. p \in Live(k)
    BY <1>2, <1>3 DEF Data, LiveVersionsReachable
  <2>2. \A v \in Versions : status'[j][v] # "none" <=> status[j][v] # "none"
    BY <1>1, <1>2, <1>4, <2>1 DEF Live
  <2> QED
    BY <2>2 DEF Live
<1>10. StatusFollows'
  <2>1. ASSUME NEW j \in Keys, NEW v \in ids_slots_[j], v[1] < epoch
        PROVE  status'[j][v] = "stable"
    <3>1. v \in Versions /\ v # p
      BY <1>2, <2>1 DEF Data, DataTypeOK
    <3> QED
      BY <1>4, <2>1, <3>1 DEF Data, StatusFollows
  <2>2. ASSUME NEW q \in Updates(txs)
        PROVE  status'[RowOf(q)][<<epoch, q[1]>>] = "stable" <=> ~Waiting(q)'
    <3>0. status[RowOf(q)][<<epoch, q[1]>>] = "stable" <=> ~Waiting(q)
      BY <1>2 DEF Data, StatusFollows
    <3>1. CASE q = o
      <4>1. CASE l = "begin"
        <5>1. ~Waiting(q)'
          BY <1>k, <1>1, <1>2, <3>1, <4>1, WaitingAfter
        <5> QED
          BY <1>1, <1>2, <1>4, <3>1, <4>1, <5>1
      <4>2. CASE l = "write_status"
        <5>1. Waiting(q)'
          BY <1>k, <1>1, <1>2, <3>1, <4>2 DEF Waiting
        <5> QED
          BY <1>1, <1>2, <1>4, <3>1, <4>2, <5>1
      <4> QED
        BY <1>1, <4>1, <4>2
    <3>2. CASE q # o
      <4>1. RowOf(q) \in Keys /\ <<epoch, q[1]>> \in Versions
        <5>1. q[1] \in Serials /\ RowOf(q) \in Keys
          BY <1>2, UpdateTyped
        <5>2. epoch \in 0 .. NumEpochs
          BY <1>2, EpochsAssumption DEF Control, ControlTypeOK
        <5> QED
          BY <5>1, <5>2 DEF Versions
      <4>2. ~(RowOf(q) = k /\ <<epoch, q[1]>> = p)
        BY <1>2, <3>2, UpdateUnique
      <4>3. status'[RowOf(q)][<<epoch, q[1]>>] = status[RowOf(q)][<<epoch, q[1]>>]
        BY <1>4, <4>1, <4>2
      <4>4. Waiting(q)' <=> Waiting(q)
        <5>1. CASE l = "begin"
          BY <1>k, <1>1, <1>2, <3>2, <5>1, WaitingAfter
        <5>2. CASE l = "write_status"
          BY <1>1, <1>2, <5>2 DEF Waiting, Writing
        <5> QED
          BY <1>1, <5>1, <5>2
      <4> QED
        BY <3>0, <4>3, <4>4
    <3> QED
      BY <3>1, <3>2
  <2> QED
    BY <1>1, <1>2, <2>1, <2>2 DEF StatusFollows, InInit, RowOf
<1>11. VisibleIsSerial'
  BY <1>1, <1>2 DEF Data, VisibleIsSerial
<1> QED
  BY <1>5, <1>7, <1>8, <1>9, <1>10, <1>11 DEF Data
-------------------------------------------------------------------------------
(***************************************************************************)
(* The barriers                                                            *)
(***************************************************************************)

\* At a barrier no operation is left, and no version is in a buffer.
LEMMA BarrierState ==
    ASSUME Structure, AtBarrier
    PROVE  /\ \A o : ~Unborn(o) /\ ~Waiting(o)
           /\ \A k \in Keys : Buffered(k) = {} /\ Present(k) = ids_slots_[k]
<1>1. \A w \in Workers : pc[w] = "done" /\ todo[w] = {}
  BY DEF Structure, Control, OwnOperations, AtBarrier
<1>2. \A k \in Keys : row_buffer_[k] = NoBuffer \/ row_buffer_[k] \in Buffers
  BY DEF Structure, Control, ControlTypeOK
<1>3. \A b \in Buffers, w \in Workers : core_slots[b][w] = {}
  BY BarrierFindsNoSlots DEF Structure
<1>4. \A k \in Keys : Buffered(k) = {}
  BY <1>2, <1>3 DEF Buffered
<1>5. \A o : ~Unborn(o) /\ ~Waiting(o)
  BY <1>1 DEF Unborn, Waiting, Preparing
<1> QED
  BY <1>4, <1>5 DEF Present

\* Execution starts: every update has its version, and none is executed.
LEMMA DataStartExecution ==
    ASSUME Structure, Data, StartExecution
    PROVE  Data'
<1>1. /\ phase = "init" /\ phase' = "exec" /\ AtBarrier
      /\ todo' = [w \in Workers |-> Mine(w, Ops(txs))]
      /\ visible' = NoneVisible /\ pc' = [w \in Workers |-> "begin"]
      /\ UNCHANGED <<epoch, txs, db, row_buffer_, core_slots, ids_slots_, status>>
  BY DEF StartExecution, LocalsReset, bufferVars, arrayVars
<1>2. /\ \A o : ~Unborn(o) /\ ~Waiting(o)
      /\ \A k \in Keys : Buffered(k) = {} /\ Present(k) = ids_slots_[k]
  BY <1>1, BarrierState
<1>3. \A k \in Keys : Buffered(k)' = Buffered(k)
  BY <1>1 DEF Buffered
<1>4. DataTypeOK'
  BY <1>1, LoadedIsVersion DEF Data, DataTypeOK, NoneVisible
<1>5. OldVersionsKept' /\ VersionsHaveWriters'
  <2>1. OldVersionsKept'
    BY <1>1 DEF Data, OldVersionsKept
  <2>2. VersionsHaveWriters'
    BY <1>1, <1>3 DEF Data, VersionsHaveWriters
  <2> QED
    BY <2>1, <2>2
<1>6. \A o \in Updates(txs) : RowOf(o) \in Keys /\ <<epoch, o[1]>> \in ids_slots_[RowOf(o)]
  BY <1>1, <1>2, UpdateTyped DEF Structure, Data, UpdatesHaveVersions, InInit
<1>7. UpdatesHaveVersions'
  BY <1>1, <1>6 DEF UpdatesHaveVersions, InInit, RowOf
<1>8. LiveVersionsReachable'
  BY <1>1, <1>3 DEF Data, LiveVersionsReachable, Live
<1>9. StatusFollows'
  <2>1. ASSUME NEW o \in Updates(txs)
        PROVE  status[RowOf(o)][<<epoch, o[1]>>] # "stable" /\ Waiting(o)'
    <3>1. o \in Ops(txs) /\ o[1] \in Nat
      BY UpdateTyped, SerialsAreNatural DEF Structure
    <3>2. o[1] % N \in Workers
      BY <3>1, NAssumption DEF Workers
    <3>3. o \in todo'[o[1] % N]
      BY <1>1, <3>1, <3>2 DEF Mine
    <3>4. Waiting(o)'
      BY <3>2, <3>3 DEF Waiting
    <3>5. status[RowOf(o)][<<epoch, o[1]>>] # "stable"
      <4>1. <<epoch, o[1]>> \in Present(RowOf(o)) /\ RowOf(o) \in Keys
        BY <1>2, <1>6
      <4>2. <<epoch, o[1]>>[1] = epoch
        OBVIOUS
      <4>3. InInit
        BY <1>1 DEF InInit
      <4> QED
        BY <4>1, <4>2, <4>3 DEF Data, StatusFollows
    <3> QED
      BY <3>4, <3>5
  <2>2. \A k \in Keys : \A v \in ids_slots_[k] : v[1] < epoch => status[k][v] = "stable"
    BY DEF Data, StatusFollows
  <2> QED
    BY <1>1, <2>1, <2>2 DEF StatusFollows, InInit, RowOf
<1>10. VisibleIsSerial'
  BY <1>1 DEF VisibleIsSerial
<1> QED
  BY <1>4, <1>5, <1>7, <1>8, <1>9, <1>10 DEF Data

\* An epoch ends: the versions of its updates are the final state.
LEMMA DataNewEpoch ==
    ASSUME Structure, Data, NewEpoch
    PROVE  Data'
<1>1. /\ phase = "exec" /\ AtBarrier /\ epoch' = epoch + 1
      /\ db' = SerialResult(txs, epoch, db)
      /\ visible' = NoneVisible /\ pc' = [w \in Workers |-> "begin"]
      /\ UNCHANGED <<row_buffer_, core_slots, ids_slots_, status>>
      /\ phase' \in {"init", "end"}
      /\ phase' = "init" => todo' = [w \in Workers |-> Mine(w, Updates(txs'))]
  BY DEF NewEpoch, LocalsReset, bufferVars, arrayVars
<1>2. /\ \A o : ~Unborn(o) /\ ~Waiting(o)
      /\ \A k \in Keys : Buffered(k) = {} /\ Present(k) = ids_slots_[k]
  BY <1>1, BarrierState
<1>3. \A k \in Keys : Buffered(k)' = {} /\ Present(k)' = ids_slots_[k]
  BY <1>1, <1>2 DEF Buffered, Present
<1>4. /\ epoch \in 0 .. NumEpochs /\ epoch \in Nat /\ txs \in Workloads /\ txs' \in Workloads
      /\ db \in [Keys -> Versions]
      /\ \A k \in Keys : ids_slots_[k] \subseteq Versions
  <2>1. Control /\ Control'
    BY ControlBarrier DEF Structure
  <2> QED
    BY <1>1, <2>1, EpochsAssumption DEF Control, ControlTypeOK, Data, DataTypeOK
<1>5. db' \in [Keys -> Versions]
  BY <1>1, <1>4, SerialResultTyped
<1>6. DataTypeOK'
  BY <1>1, <1>5, LoadedIsVersion DEF Data, DataTypeOK, NoneVisible
<1>7. ASSUME NEW k \in Keys, NEW v \in ids_slots_[k]
      PROVE  /\ v[1] \in Nat /\ v[2] \in Nat /\ v = <<v[1], v[2]>>
             /\ v[1] < epoch \/ (v[1] = epoch /\ v[2] \in Writers(txs, k))
             /\ v[1] < epoch'
  <2>1. v[1] \in Nat /\ v[2] \in Nat /\ v = <<v[1], v[2]>>
    BY <1>4, VersionTyped
  <2>2. v[1] < epoch \/ (v[1] = epoch /\ v[2] \in Writers(txs, k))
    BY DEF Data, VersionsHaveWriters
  <2> QED
    BY <1>1, <1>4, <2>1, <2>2
<1>8. OldVersionsKept'
  <2> SUFFICES ASSUME NEW k \in Keys
               PROVE  /\ db'[k] \in ids_slots_[k]
                      /\ \A v \in ids_slots_[k] : v = db'[k] \/ Less(v, db'[k])
    BY <1>1, <1>7 DEF OldVersionsKept
  <2>1. CASE Writers(txs, k) = {}
    <3>1. db'[k] = db[k]
      BY <1>1, <2>1 DEF SerialResult
    <3> QED
      BY <1>7, <2>1, <3>1 DEF Data, OldVersionsKept
  <2>2. CASE Writers(txs, k) # {}
    <3>m. PICK m : m = Max(Writers(txs, k))
      OBVIOUS
    <3>1. m \in Writers(txs, k) /\ \A x \in Writers(txs, k) : x <= m
      BY <1>4, <2>2, <3>m, MaxIsLast, WritersAreUpdates
    <3>2. db'[k] = <<epoch, m>>
      BY <1>1, <2>2, <3>m DEF SerialResult
    <3>3. PICK o \in Updates(txs) : o[1] = m /\ RowOf(o) = k
      BY <1>4, <3>1, WritersAreUpdates DEF RowOf
    <3>4. <<epoch, m>> \in ids_slots_[k]
      BY <1>1, <3>3 DEF Data, UpdatesHaveVersions
    <3>5. m \in Nat
      BY <1>4, <3>1, WritersAreUpdates, SerialsAreNatural
    <3>6. ASSUME NEW v \in ids_slots_[k] PROVE v = <<epoch, m>> \/ Less(v, <<epoch, m>>)
      <4>1. v[1] = epoch => v[2] <= m
        BY <1>4, <1>7, <3>1
      <4> QED
        BY <1>4, <1>7, <3>5, <4>1 DEF Less
    <3> QED
      BY <3>2, <3>4, <3>6
  <2> QED
    BY <2>1, <2>2
<1>9. VersionsHaveWriters'
  BY <1>1, <1>3, <1>7 DEF VersionsHaveWriters
<1>10. UpdatesHaveVersions'
  <2>1. ASSUME phase' = "init", NEW o \in Updates(txs') PROVE Unborn(o)'
    <3>1. o \in Ops(txs')
      BY DEF Updates
    <3>2. o[1] \in Nat
      BY <1>4, <3>1, OperationsOfBatch
    <3>3. o[1] % N \in Workers
      BY <3>2, NAssumption DEF Workers
    <3>4. o \in todo'[o[1] % N]
      BY <1>1, <2>1, <3>3 DEF Mine
    <3> QED
      BY <3>3, <3>4 DEF Unborn
  <2> QED
    BY <1>1, <2>1 DEF UpdatesHaveVersions, InInit
<1>11. LiveVersionsReachable'
  <2>1. ASSUME NEW k \in Keys PROVE Live(k)' = Live(k)
    BY <1>1 DEF Live
  <2> QED
    BY <1>1, <1>2, <1>3, <2>1 DEF Data, LiveVersionsReachable
<1>12. StatusFollows'
  <2>1. ASSUME NEW k \in Keys, NEW v \in ids_slots_[k] PROVE status[k][v] = "stable"
    <3>1. CASE v[1] < epoch
      BY <3>1 DEF Data, StatusFollows
    <3>2. CASE v[1] = epoch /\ v[2] \in Writers(txs, k)
      <4>1. PICK o \in Updates(txs) : o[1] = v[2] /\ RowOf(o) = k
        BY <1>4, <3>2, WritersAreUpdates DEF RowOf
      <4>2. status[RowOf(o)][<<epoch, o[1]>>] = "stable"
        BY <1>1, <1>2 DEF Data, StatusFollows
      <4>3. v = <<epoch, o[1]>>
        BY <1>7, <3>2, <4>1
      <4> QED
        BY <4>1, <4>2, <4>3
    <3> QED
      BY <1>7, <3>1, <3>2
  <2>2. ASSUME NEW k \in Keys, NEW v \in ids_slots_[k] PROVE v[1] # epoch'
    BY <1>1, <1>4, <1>7
  <2> QED
    BY <1>1, <1>3, <2>1, <2>2 DEF StatusFollows
<1>13. VisibleIsSerial'
  BY <1>1 DEF VisibleIsSerial
<1> QED
  BY <1>6, <1>8, <1>9, <1>10, <1>11, <1>12, <1>13 DEF Data

\* A step that moves nobody.
LEMMA DataUnchanged ==
    ASSUME Control, Data,
           UNCHANGED <<epoch, txs, db, ids_slots_, status, core_slots, row_buffer_, visible,
                       pc, todo, op, row>>,
           phase' = phase \/ (phase = "init" /\ phase' = "aborted")
    PROVE  Data'
<1>1. \A k \in Keys : Buffered(k)' = Buffered(k)
  BY DEF Buffered
<1>2. \A o : (Unborn(o)' <=> Unborn(o)) /\ (Waiting(o)' <=> Waiting(o))
  BY DEF Unborn, Waiting
<1>3. VisibleIsSerial' /\ visible' \in [Workers -> Versions]
  BY DEF Data, DataTypeOK, VisibleIsSerial
<1> QED
  BY <1>1, <1>2, <1>3, DataQuiet

\* Every step keeps the invariant of the versions.
LEMMA DataNext == Structure /\ Data /\ [Next]_vars => Data'
<1> SUFFICES ASSUME Structure, Data, [Next]_vars PROVE Data'
  OBVIOUS
<1> USE DEF batchVars, opVars, bufferVars, arrayVars
<1>1. CASE UNCHANGED vars
  BY <1>1, DataUnchanged DEF vars, Structure
<1>2. CASE StartExecution \/ NewEpoch
  BY <1>2, DataStartExecution, DataNewEpoch
<1>3. ASSUME NEW w \in Workers, Step(w) PROVE Data'
  <2>p. phase \in {"init", "exec"}
    BY <1>3 DEF Step
  <2>c. Control'
    BY <1>3, ControlNext DEF Structure, Next
  <2>l. /\ {"begin", "done"} \cup Preparing \cup Appended \cup Finalizing
              \cup Reading \cup Writing = Labels
        /\ "wait_stable" \notin Preparing \cup Appended \cup Finalizing \cup {"begin", "done"}
        /\ (Appended \cup Finalizing \cup {"begin", "done"}) \cap Preparing = {}
    BY DEF Labels, Preparing, Appended, Finalizing
  <2>e. pc[w] \in Preparing \cup Appended \cup Finalizing => phase = "init"
    BY <2>p DEF Structure, Control, PhaseLabels, Preparing, Appended, Finalizing, Reading,
       Writing
  <2>1. CASE Begin(w)
    BY <2>1, DataBegin
  <2>2. CASE EndLoop(w)
    <3>1. PICK l \in {"finalize", "done"} : Goto(w, l) /\ (phase = "exec" => l = "done")
      BY <2>2 DEF EndLoop
    <3> QED
      BY <2>2, <2>l, <3>1, DataLocal DEF EndLoop, Finalizing
  <2>3. CASE may_be_contented(w) \/ try_lock(w)
    <3>1. PICK l \in Preparing : Goto(w, l)
      BY <2>3 DEF may_be_contented, try_lock, Preparing
    <3>2. pc[w] \in Preparing
      BY <2>3 DEF may_be_contented, try_lock, Preparing
    <3> QED
      BY <2>3, <2>l, <2>e, <3>1, <3>2, DataLocal DEF may_be_contented, try_lock
  <2>5. CASE append_to_uncontended_row(w)
    BY <2>5, <2>p, <2>c, DataAppendGlobal
  <2>6. CASE unlock(w)
    <3>1. pc[w] \in Appended /\ Goto(w, "begin")
      BY <2>6 DEF unlock, Appended
    <3> QED
      BY <2>6, <2>l, <2>e, <3>1, DataLocal DEF unlock
  <2>7. CASE use_spare_buffer(w) \/ load_other_buffer(w)
    <3>1. PICK l \in Preparing : Goto(w, l)
      BY <2>7 DEF use_spare_buffer, load_other_buffer, Preparing
    <3>2. pc[w] \in Preparing
      BY <2>7 DEF use_spare_buffer, load_other_buffer, Preparing
    <3> QED
      BY <2>7, <2>l, <2>e, <3>1, <3>2, DataLocal DEF use_spare_buffer, load_other_buffer
  <2>8. CASE fetch_new_buffer(w)
    <3>1. CASE Exhausted
      BY <2>8, <3>1, DataUnchanged DEF fetch_new_buffer, Structure
    <3>2. CASE ~Exhausted
      <4>1. "install" \in Preparing /\ pc[w] \in Preparing /\ Goto(w, "install")
        BY <2>8, <3>2 DEF fetch_new_buffer, Preparing
      <4> QED
        BY <2>8, <2>l, <2>e, <3>2, <4>1, DataLocal DEF fetch_new_buffer
    <3> QED
      BY <3>1, <3>2
  <2>9. CASE try_install_new_buffer(w)
    BY <2>9, DataInstall
  <2>11. CASE append_to_contented_row(w)
    BY <2>11, <2>p, <2>c, DataAppendBuffer
  <2>12. CASE lock_full(w)
    <3>1. pc[w] \in Appended /\ "batch_append" \in Appended /\ Goto(w, "batch_append")
      BY <2>12 DEF lock_full, Appended
    <3> QED
      BY <2>12, <2>l, <2>e, <3>1, DataLocal DEF lock_full
  <2>13. CASE batch_append(w)
    BY <2>13, <2>p, <2>c, DataBatchAppend
  <2>14. CASE finalize_try_lock(w)
    <3>1. pc[w] \in Finalizing /\ "final_append" \in Finalizing /\ Goto(w, "final_append")
      BY <2>14 DEF finalize_try_lock, Finalizing
    <3>2. \A v \in Workers : v # w => row'[v] = row[v]
      BY <2>14, ControlTypes DEF finalize_try_lock, Structure
    <3> QED
      BY <2>14, <2>l, <2>e, <3>1, <3>2, DataLocal DEF finalize_try_lock
  <2>15. CASE finalize_unlock(w) \/ finalize_end(w)
    <3>1. PICK l \in {"finalize", "done"} : Goto(w, l)
      BY <2>15 DEF finalize_unlock, finalize_end
    <3>2. pc[w] \in Finalizing
      BY <2>15 DEF finalize_unlock, finalize_end, Finalizing
    <3>3. l \in Labels /\ l \notin Preparing /\ l # "wait_stable" /\ pc[w] \notin Preparing
      BY <2>l, <3>1, <3>2 DEF Finalizing
    <3> QED
      BY <2>15, <2>e, <3>1, <3>2, <3>3, DataLocal DEF finalize_unlock, finalize_end
  <2>17. CASE read(w)
    BY <2>17, <2>p, DataRead
  <2>18. CASE wait_stable_and_execute_read(w)
    BY <2>18, <2>p, DataReadEnd
  <2>19. CASE write_rec(w) \/ write_status(w)
    BY <2>19, <2>p, DataWrite
  <2> QED
    BY <1>3, <2>1, <2>2, <2>3, <2>5, <2>6, <2>7, <2>8, <2>9, <2>11, <2>12,
       <2>13, <2>14, <2>15, <2>17, <2>18, <2>19 DEF Step
<1> QED
  BY <1>1, <1>2, <1>3 DEF Next
-------------------------------------------------------------------------------
(***************************************************************************)
(* The theorems                                                            *)
(***************************************************************************)
IInv == Structure /\ Data

\* The conjunction of the four invariants is inductive.
LEMMA InvariantHolds == Spec => []IInv
<1>1. Init => IInv
  BY InitControl, InitOwnership, InitSlots, InitData DEF IInv, Structure
<1>2. IInv /\ [Next]_vars => IInv'
  BY ControlNext, OwnershipNext, SlotsNext, DataNext DEF IInv, Structure
<1> QED
  BY <1>1, <1>2, PTL DEF Spec

\* No version is lost and none is freed while it is reachable, however the
\* appends of the workers to a row interleave.
THEOREM NoVersionLost == Spec => []LiveVersionsReachable
<1>1. IInv => LiveVersionsReachable
  BY DEF IInv, Data
<1> QED
  BY <1>1, InvariantHolds, PTL

\* Execution finds exactly the versions of the batch and, before them, the final
\* state of the earlier epochs; the buffers are empty.
THEOREM VersionsComplete == Spec => []ExecutionFindsAllVersions
<1>1. ASSUME IInv, phase = "exec", NEW k \in Keys
      PROVE  /\ InEpoch(ids_slots_[k], epoch) = {<<epoch, s>> : s \in Writers(txs, k)}
             /\ db[k] \in ids_slots_[k]
             /\ \A v \in ids_slots_[k] : v[1] < epoch => v = db[k] \/ Less(v, db[k])
             /\ \A b \in Buffers, w \in Workers : core_slots[b][w] = {}
  <2>1. /\ ids_slots_[k] \subseteq Versions /\ txs \in Workloads /\ epoch \in Nat
    BY <1>1, EpochsAssumption DEF IInv, Structure, Control, ControlTypeOK, Data, DataTypeOK
  <2>2. ASSUME NEW v \in InEpoch(ids_slots_[k], epoch)
        PROVE  v \in {<<epoch, s>> : s \in Writers(txs, k)}
    <3>1. v \in ids_slots_[k] /\ v[1] = epoch /\ v = <<v[1], v[2]>>
      BY <2>1, VersionTyped DEF InEpoch
    <3>2. v[2] \in Writers(txs, k)
      BY <1>1, <2>1, <3>1 DEF IInv, Data, VersionsHaveWriters
    <3> QED
      BY <3>1, <3>2
  <2>3. ASSUME NEW s \in Writers(txs, k)
        PROVE  <<epoch, s>> \in InEpoch(ids_slots_[k], epoch)
    <3>1. PICK o \in Updates(txs) : o[1] = s /\ RowOf(o) = k
      BY <2>1, WritersAreUpdates DEF RowOf
    <3>2. <<epoch, s>> \in ids_slots_[k]
      BY <1>1, <3>1 DEF IInv, Data, UpdatesHaveVersions
    <3> QED
      BY <3>2 DEF InEpoch
  <2>4. \A b \in Buffers, w \in Workers : core_slots[b][w] = {}
    <3> SUFFICES ASSUME NEW b \in Buffers, NEW w \in Workers, core_slots[b][w] # {}
                 PROVE  FALSE
      OBVIOUS
    <3>1. appended_core_buffers_[w] = {}
      BY <1>1 DEF IInv, Structure, Slots, SlotsFinalized
    <3>2. pc[w] \in {"begin", "done"} \cup Reading \cup Writing
      BY <1>1 DEF IInv, Structure, Control, PhaseLabels
    <3>3. pc[w] \notin FullLabels
      BY <3>2 DEF FullLabels, Reading, Writing
    <3> QED
      BY <1>1, <3>1, <3>3 DEF IInv, Structure, Slots, SlotsRemembered
  <2>5. InEpoch(ids_slots_[k], epoch) = {<<epoch, s>> : s \in Writers(txs, k)}
    BY <2>2, <2>3
  <2> QED
    BY <1>1, <2>4, <2>5 DEF IInv, Data, OldVersionsKept
<1>2. IInv => ExecutionFindsAllVersions
  BY <1>1 DEF ExecutionFindsAllVersions
<1> QED
  BY <1>2, InvariantHolds, PTL

\* minor_gc leaves a row that the epoch writes one version of earlier epochs.
THEOREM MemoryBounded == Spec => []OldVersionsCollected
<1>1. ASSUME IInv, phase = "exec", NEW k \in Keys, Writers(txs, k) # {}
      PROVE  Cardinality({v \in ids_slots_[k] : v[1] < epoch}) = 1
  <2>1. PICK s \in Writers(txs, k) : TRUE
    BY <1>1
  <2>2. PICK o \in Updates(txs) : o[1] = s /\ RowOf(o) = k
    BY <1>1, <2>1, WritersAreUpdates DEF RowOf, IInv, Structure, Control, ControlTypeOK
  <2>3. <<epoch, s>> \in ids_slots_[k] /\ <<epoch, s>>[1] = epoch
    BY <1>1, <2>2 DEF IInv, Data, UpdatesHaveVersions
  <2>4. {v \in ids_slots_[k] : v[1] < epoch} = {db[k]}
    BY <1>1, <2>3 DEF IInv, Data, OldVersionsKept
  <2> QED
    BY <2>4, FS_Singleton
<1>2. IInv => OldVersionsCollected
  BY <1>1 DEF OldVersionsCollected
<1> QED
  BY <1>2, InvariantHolds, PTL

\* The assertions in gc: whatever is freed is stable, belongs to an earlier epoch
\* and is not its final state.
THEOREM GarbageIsStable == Spec => OnlyStableVersionsFreed
<1> DEFINE A == \A k \in Keys : \A v \in Versions :
                   status[k][v] # "none" /\ status'[k][v] = "none" =>
                       status[k][v] = "stable" /\ v[1] < epoch /\ v # db[k]
<1>1. ASSUME IInv, NEW k \in Keys, NEW vs, NEW created, AppendWithGC(k, vs, created)
      PROVE  A
  <2>1. /\ status \in [Keys -> [Versions -> {"none", "pending", "written", "stable"}]]
        /\ Control /\ Data
    BY <1>1 DEF IInv, Structure, Data, DataTypeOK
  <2>2. \A v \in Garbage(k) : status[k][v] = "stable" /\ v[1] < epoch /\ v # db[k]
    <3>1. /\ Garbage(k) \subseteq ids_slots_[k]
          /\ \A v \in ids_slots_[k] : v \in Garbage(k) <=> v[1] < epoch /\ v # db[k]
      BY <2>1, GarbageIs
    <3> QED
      BY <2>1, <3>1 DEF Data, StatusFollows
  <2>3. status' = [status EXCEPT ![k] =
                     [v \in Versions |-> IF v \in Garbage(k) THEN "none"
                                         ELSE IF v \in created THEN "pending"
                                         ELSE @[v]]]
    BY <1>1 DEF AppendWithGC, Freed
  <2>4. ASSUME NEW j \in Keys, NEW v \in Versions, status[j][v] # "none",
               status'[j][v] = "none"
        PROVE  j = k /\ v \in Garbage(k)
    BY <2>1, <2>3, <2>4
  <2> QED
    BY <2>2, <2>4
<1>2. ASSUME IInv, NEW k \in Keys, NEW p \in Versions, NEW st, st # "none",
             status' = [status EXCEPT ![k][p] = st]
      PROVE  A
  <2>1. status \in [Keys -> [Versions -> {"none", "pending", "written", "stable"}]]
    BY <1>2 DEF IInv, Data, DataTypeOK
  <2> QED
    BY <1>2, <2>1
<1>3. ASSUME UNCHANGED status PROVE A
  BY <1>3
<1> HIDE DEF A
<1>4. IInv /\ [Next]_vars => [A]_vars
  <2> SUFFICES ASSUME IInv, Next PROVE A
    OBVIOUS
  <2>1. CASE StartExecution \/ NewEpoch
    BY <1>3, <2>1 DEF StartExecution, NewEpoch, arrayVars
  <2>2. ASSUME NEW w \in Workers, Step(w) PROVE A
    <3>1. row[w] \in Keys /\ Control /\ phase \in {"init", "exec"}
      BY <2>2, ControlTypes DEF IInv, Structure, Step
    <3>2. CASE append_to_uncontended_row(w)
      BY <1>1, <3>1, <3>2 DEF append_to_uncontended_row
    <3>3. CASE batch_append(w)
      BY <1>1, <3>1, <3>3 DEF batch_append
    <3>4. Pending(w) \in Versions
      BY <3>1, PendingIsVersion
    <3>5. CASE append_to_contented_row(w)
      <4>1. status' = [status EXCEPT ![row[w]][Pending(w)] = "pending"]
        BY <3>5 DEF append_to_contented_row
      <4> QED
        BY <1>2, <3>1, <3>4, <4>1
    <3>6. CASE write_rec(w) \/ write_status(w)
      <4>1. PICK st \in {"written", "stable"} :
               status' = [status EXCEPT ![row[w]][Pending(w)] = st]
        BY <3>6 DEF write_rec, write_status, SetStatus
      <4> QED
        BY <1>2, <3>1, <3>4, <4>1
    <3>7. CASE Begin(w) \/ EndLoop(w) \/ may_be_contented(w) \/ try_lock(w) \/ unlock(w)
               \/ use_spare_buffer(w) \/ fetch_new_buffer(w) \/ try_install_new_buffer(w)
               \/ load_other_buffer(w) \/ lock_full(w) \/ finalize_try_lock(w)
               \/ finalize_unlock(w) \/ finalize_end(w) \/ read(w)
               \/ wait_stable_and_execute_read(w)
      BY <1>3, <3>7 DEF Begin, EndLoop, may_be_contented, try_lock, unlock, use_spare_buffer,
         fetch_new_buffer, try_install_new_buffer, load_other_buffer, lock_full,
         finalize_try_lock, finalize_unlock, finalize_end, read,
         wait_stable_and_execute_read, arrayVars
    <3> QED
      BY <2>2, <3>2, <3>3, <3>5, <3>6, <3>7 DEF Step
  <2> QED
    BY <2>1, <2>2 DEF Next
<1>5. [A]_vars => [\A k \in Keys : \A v \in Versions :
          status[k][v] # "none" /\ status'[k][v] = "none" =>
              status[k][v] = "stable" /\ v[1] < epoch /\ v # db[k]]_vars
  BY DEF A
<1> QED
  BY <1>4, <1>5, InvariantHolds, PTL DEF Spec, OnlyStableVersionsFreed
-------------------------------------------------------------------------------
(***************************************************************************)
(* Caracal implements DeterministicDB                                      *)
(***************************************************************************)

\* The operators of the batches are the same in both modules.
LEMMA SameOperators ==
    /\ DDB!Serials = Serials /\ DDB!Loaded = Loaded
    /\ \A b : DDB!Ops(b) = Ops(b) /\ DDB!Reads(b) = Reads(b) /\ DDB!Updates(b) = Updates(b)
    /\ \A b, k : DDB!Writers(b, k) = Writers(b, k)
    /\ \A S : DDB!Max(S) = Max(S)
<1>1. DDB!Serials = Serials /\ DDB!Loaded = Loaded
  BY DEF DDB!Serials, Serials, DDB!Loaded, Loaded
<1>2. \A b : DDB!Ops(b) = Ops(b)
  BY <1>1 DEF DDB!Ops, Ops
<1>3. \A b : DDB!Reads(b) = Reads(b) /\ DDB!Updates(b) = Updates(b)
  BY <1>2 DEF DDB!Reads, Reads, DDB!Updates, Updates
<1>4. \A b, k : DDB!Writers(b, k) = Writers(b, k)
  BY <1>3 DEF DDB!Writers, Writers
<1>5. \A S : DDB!Max(S) = Max(S)
  BY DEF DDB!Max, Max
<1> QED
  BY <1>1, <1>2, <1>3, <1>4, <1>5

\* So is what serial execution reads and leaves.
LEMMA SameSerialExecution ==
    ASSUME NEW b, NEW e, NEW d
    PROVE  /\ DDB!SerialResult(b, e, d) = SerialResult(b, e, d)
           /\ \A s, k : DDB!SerialRead(b, e, d, s, k) = SerialRead(b, e, d, s, k)
<1>1. DDB!SerialResult(b, e, d) = SerialResult(b, e, d)
  BY SameOperators DEF DDB!SerialResult, SerialResult
<1>2. ASSUME NEW s, NEW k PROVE DDB!SerialRead(b, e, d, s, k) = SerialRead(b, e, d, s, k)
  BY SameOperators DEF DDB!SerialRead, SerialRead
<1> QED
  BY <1>1, <1>2

\* The executed operations are those that are not waiting, now and after a step.
LEMMA ExecutedIs ==
    /\ Executed = {o \in Ops(txs) : phase = "exec" /\ ~Waiting(o)}
    /\ Executed' = {o \in Ops(txs') : phase' = "exec" /\ ~Waiting(o)'}
  BY DEF Executed, Waiting

\* A step that executes nothing.
LEMMA NothingExecuted ==
    ASSUME UNCHANGED txs, phase' = "exec" <=> phase = "exec",
           phase = "exec" => \A o \in Ops(txs) : Waiting(o)' <=> Waiting(o)
    PROVE  Executed' = Executed
  BY ExecutedIs

\* A read is answered by a version that the serial order gives, after its writer.
LEMMA RefinesRead ==
    ASSUME IInv, phase \in {"init", "exec"}, NEW w \in Workers,
           wait_stable_and_execute_read(w)
    PROVE  DDB!Read(op[w]) /\ op[w] \in Ops(txs)
<1>k. PICK o, k, v : o = op[w] /\ k = row[w] /\ v = visible[w]
  OBVIOUS
<1>1. /\ pc[w] = "wait_stable" /\ Goto(w, "begin") /\ NotPending(k, v)
      /\ reads' = reads \cup {[serial |-> o[1], index |-> k, version |-> v]}
      /\ UNCHANGED <<epoch, txs, db, phase, todo, op>>
  BY <1>k DEF wait_stable_and_execute_read, Answer, batchVars, opVars
<1>2. Control /\ Data
  BY DEF IInv, Structure
<1>3. /\ phase = "exec" /\ o \in Reads(txs) /\ o \in Ops(txs) /\ k = RowOf(o) /\ k \in Keys
      /\ epoch \in Nat /\ epoch <= NumEpochs /\ txs \in Workloads
  <2>1. phase = "exec" /\ o \in Reads(txs) /\ k = RowOf(o) /\ k \in Keys
    BY <1>k, <1>1, <1>2, ControlTypes DEF Control, PhaseLabels, OwnOperations, Reading, RowOf
  <2> QED
    BY <1>2, <2>1, EpochsAssumption DEF Control, ControlTypeOK, Reads
<1>4. v = SerialRead(txs, epoch, db, o[1], k)
  BY <1>k, <1>1, <1>2 DEF Data, VisibleIsSerial
<1>5. \A p : Waiting(p)' <=> Waiting(p) /\ p # o
  BY <1>k, <1>1, <1>2, WaitingAfter DEF Reading
<1>6. Waiting(o)
  BY <1>k, <1>1 DEF Waiting
<1>7. o \notin Executed /\ Executed' = Executed \cup {o}
  BY <1>1, <1>3, <1>5, <1>6, ExecutedIs
<1>8. DDB!Produced(v, k)
  <2> SUFFICES ASSUME v[1] = epoch
               PROVE  \E p \in Executed :
                         p[1] = v[2] /\ txs[p[1]][p[2]] = [ope |-> "Update", index |-> k]
    BY DEF DDB!Produced
  <2> DEFINE before == {u \in Writers(txs, k) : u < o[1]}
  <2>1. before # {}
    <3>1. db[k][1] # epoch
      BY <1>2, <1>3 DEF Data, DataTypeOK, OldVersionsKept
    <3> QED
      BY <1>4, <3>1 DEF SerialRead
  <2>2. PICK m : m = Max(before)
    OBVIOUS
  <2>3. v = <<epoch, m>>
    BY <1>4, <2>1, <2>2 DEF SerialRead
  <2>4. m \in Writers(txs, k)
    <3>1. before \subseteq Serials
      BY <1>3, WritersAreUpdates
    <3>2. m \in before
      BY <2>1, <2>2, <3>1, MaxIsLast
    <3> QED
      BY <3>2
  <2>5. PICK p \in Updates(txs) : p[1] = m /\ RowOf(p) = k
    BY <1>3, <2>4, WritersAreUpdates DEF RowOf
  <2>6. v \in ids_slots_[k] /\ v \in Versions
    BY <1>2, <1>3, <2>3, <2>5 DEF Data, DataTypeOK, UpdatesHaveVersions
  <2>7. status[k][v] = "stable"
    <3>1. v \in Live(k)
      BY <1>2, <1>3, <2>6 DEF Data, LiveVersionsReachable
    <3> QED
      BY <1>1, <1>2, <1>3, <2>6, <3>1 DEF Live, NotPending, Data, DataTypeOK
  <2>8. ~Waiting(p)
    BY <1>2, <1>3, <2>3, <2>5, <2>7 DEF Data, StatusFollows
  <2>9. p \in Executed /\ p \in Ops(txs) /\ txs[p[1]][p[2]].ope = "Update"
    BY <1>3, <2>8, ExecutedIs DEF Updates
  <2>10. txs[p[1]][p[2]] = [ope |-> "Update", index |-> k]
    BY <1>3, <2>5, <2>9, OperationsOfBatch DEF RowOf
  <2> QED
    BY <2>3, <2>5, <2>9, <2>10
<1>9. DDB!Read(o)
  BY <1>1, <1>3, <1>4, <1>7, <1>8, SameOperators, SameSerialExecution DEF DDB!Read, RowOf
<1> QED
  BY <1>k, <1>3, <1>9

\* An update is executed when its version becomes stable.
LEMMA RefinesWrite ==
    ASSUME IInv, phase \in {"init", "exec"}, NEW w \in Workers, write_status(w)
    PROVE  DDB!Write(op[w]) /\ op[w] \in Ops(txs)
<1>k. PICK o : o = op[w]
  OBVIOUS
<1>1. /\ pc[w] = "write_status" /\ Goto(w, "begin")
      /\ UNCHANGED <<epoch, txs, db, phase, todo, op, reads>>
  BY DEF write_status, SetStatus, batchVars, opVars
<1>2. Control
  BY DEF IInv, Structure
<1>3. /\ phase = "exec" /\ o \in Updates(txs) /\ o \in Ops(txs) /\ epoch <= NumEpochs
  <2>1. phase = "exec" /\ o \in Updates(txs)
    BY <1>k, <1>1, <1>2 DEF Control, PhaseLabels, OwnOperations, Writing
  <2> QED
    BY <1>2, <2>1 DEF Control, ControlTypeOK, Updates
<1>5. \A p : Waiting(p)' <=> Waiting(p) /\ p # o
  BY <1>k, <1>1, <1>2, WaitingAfter DEF Writing
<1>6. Waiting(o)
  BY <1>k, <1>1 DEF Waiting
<1>7. o \notin Executed /\ Executed' = Executed \cup {o}
  BY <1>1, <1>3, <1>5, <1>6, ExecutedIs
<1> QED
  BY <1>k, <1>1, <1>3, <1>7, SameOperators DEF DDB!Write

\* The barriers: execution starts with nothing executed, and an epoch ends when
\* everything is.
LEMMA RefinesBarrier ==
    ASSUME IInv
    PROVE  /\ StartExecution => UNCHANGED <<epoch, txs, db, Executed, reads>>
           /\ NewEpoch => DDB!NewEpoch
<1>1. ASSUME StartExecution PROVE UNCHANGED <<epoch, txs, db, Executed, reads>>
  <2>1. /\ phase = "init" /\ todo' = [w \in Workers |-> Mine(w, Ops(txs))]
        /\ UNCHANGED <<epoch, txs, db, reads>> /\ txs \in Workloads
    BY <1>1 DEF StartExecution, IInv, Structure, Control, ControlTypeOK
  <2>2. ASSUME NEW o \in Ops(txs) PROVE Waiting(o)'
    <3>1. o[1] % N \in Workers
      <4>1. o[1] \in Nat
        BY <2>1, OperationsOfBatch
      <4> QED
        BY <4>1, NAssumption DEF Workers
    <3>2. o \in todo'[o[1] % N]
      BY <2>1, <3>1 DEF Mine
    <3> QED
      BY <3>1, <3>2 DEF Waiting
  <2>3. Executed = {} /\ Executed' = {}
    BY <2>1, <2>2, ExecutedIs
  <2> QED
    BY <2>1, <2>3
<1>2. ASSUME NewEpoch PROVE DDB!NewEpoch
  <2>1. /\ phase = "exec" /\ AtBarrier /\ phase' # "exec" /\ epoch' = epoch + 1
        /\ db' = SerialResult(txs, epoch, db) /\ reads' = {}
        /\ IF epoch < NumEpochs THEN txs' \in Workloads ELSE UNCHANGED txs
    <3>1. epoch \in Nat /\ NumEpochs \in Nat
      BY EpochsAssumption DEF IInv, Structure, Control, ControlTypeOK
    <3> QED
      BY <1>2, <3>1 DEF NewEpoch
  <2>2. epoch <= NumEpochs
    BY <2>1 DEF IInv, Structure, Control, ControlTypeOK
  <2>3. Executed = Ops(txs) /\ Executed' = {}
    <3>1. \A o : ~Waiting(o)
      BY <2>1, BarrierState DEF IInv
    <3> QED
      BY <2>1, <3>1, ExecutedIs
  <2> QED
    BY <2>1, <2>2, <2>3, SameOperators, SameSerialExecution DEF DDB!NewEpoch
<1> QED
  BY <1>1, <1>2

\* A step of w that neither starts nor ends an operation of the execution phase.
LEMMA RefinesStutter ==
    ASSUME Control, NEW w \in Workers, NEW l, Goto(w, l),
           UNCHANGED <<epoch, txs, db, phase, todo, op, reads>>,
           phase = "exec" => (l \in {"begin", "done"} <=> pc[w] \in {"begin", "done"})
    PROVE  UNCHANGED <<epoch, txs, db, Executed, reads>>
<1>1. pc' = [pc EXCEPT ![w] = l] /\ pc \in [Workers -> Labels]
  BY DEF Goto, Control, ControlTypeOK
<1>2. phase = "exec" => \A o : Waiting(o)' <=> Waiting(o)
  BY <1>1 DEF Waiting
<1> QED
  BY <1>2, NothingExecuted

\* The loop starts an operation.
LEMMA RefinesBegin ==
    ASSUME Control, NEW w \in Workers, Begin(w)
    PROVE  UNCHANGED <<epoch, txs, db, Executed, reads>>
<1>k. PICK o : o = First(todo[w])
  OBVIOUS
<1>1. /\ pc[w] = "begin" /\ op' = [op EXCEPT ![w] = o]
      /\ todo' = [todo EXCEPT ![w] = @ \ {o}]
      /\ UNCHANGED <<epoch, txs, db, phase, reads>>
      /\ todo[w] # {} /\ todo[w] \subseteq Ops(txs) /\ txs \in Workloads
  BY <1>k DEF Begin, batchVars, Control, ControlTypeOK
<1>2. PICK l \in {"load_buffer", "read", "write_rec"} : pc' = [pc EXCEPT ![w] = l]
  BY DEF Begin, Goto
<1>3. /\ pc \in [Workers -> Labels] /\ op \in [Workers -> Serials \X Nat]
      /\ todo \in [Workers -> SUBSET Ops(txs)]
  BY DEF Control, ControlTypeOK
<1>4. o \in todo[w]
  <2>1. todo[w] \subseteq Serials \X Nat
    BY <1>1, OperationsOfBatch
  <2> QED
    BY <1>k, <1>1, <2>1, FirstIsMember
<1>5. ASSUME NEW p PROVE Waiting(p)' <=> Waiting(p)
  BY <1>1, <1>2, <1>3, <1>4 DEF Waiting
<1> QED
  BY <1>1, <1>5, NothingExecuted

\* Caracal implements DeterministicDB, for any number of workers, rows, buffers
\* and epochs and for any batches: every read is answered by the version that the
\* serial order gives it, not before the write it depends on, every operation is
\* executed once, and an epoch leaves the state that serial execution leaves.
THEOREM CaracalRefines == Spec => ImplementsDeterministicDB
<1>1. Init => DDB!Init
  <2> SUFFICES ASSUME Init PROVE DDB!Init
    OBVIOUS
  <2>1. Executed = {}
    BY DEF Init, Executed
  <2> QED
    BY <2>1, SameOperators DEF Init, DDB!Init
<1>2. IInv /\ [Next]_vars => [DDB!Next]_(DDB!vars)
  <2> SUFFICES ASSUME IInv, [Next]_vars
               PROVE  DDB!Next \/ UNCHANGED <<epoch, txs, db, Executed, reads>>
    BY DEF DDB!vars
  <2> USE DEF batchVars, opVars
  <2>1. CASE UNCHANGED vars
    BY <2>1 DEF vars, Executed
  <2>2. CASE StartExecution \/ NewEpoch
    BY <2>2, RefinesBarrier DEF DDB!Next
  <2>3. ASSUME NEW w \in Workers, Step(w)
        PROVE  DDB!Next \/ UNCHANGED <<epoch, txs, db, Executed, reads>>
    <3>p. phase \in {"init", "exec"} /\ Control
      BY <2>3 DEF Step, IInv, Structure
    <3>1. CASE wait_stable_and_execute_read(w)
      BY <3>1, <3>p, RefinesRead, SameOperators DEF DDB!Next
    <3>2. CASE write_status(w)
      BY <3>2, <3>p, RefinesWrite, SameOperators DEF DDB!Next
    <3>3. CASE Begin(w)
      BY <3>3, <3>p, RefinesBegin
    <3>4. CASE EndLoop(w)
      <4>1. PICK l \in {"finalize", "done"} : Goto(w, l) /\ (phase = "exec" => l = "done")
        BY <3>4 DEF EndLoop
      <4> QED
        BY <3>4, <3>p, <4>1, RefinesStutter DEF EndLoop
    <3>5. CASE read(w) \/ write_rec(w)
      <4>1. PICK l \in {"wait_stable", "write_status"} : Goto(w, l)
        BY <3>5 DEF read, write_rec, SetStatus
      <4>2. pc[w] \notin {"begin", "done"}
        BY <3>5 DEF read, write_rec, SetStatus
      <4> QED
        BY <3>5, <3>p, <4>1, <4>2, RefinesStutter DEF read, write_rec, SetStatus
    <3>6. CASE fetch_new_buffer(w)
      BY <3>6, NothingExecuted DEF fetch_new_buffer
    <3>7. ASSUME pc[w] \in Preparing \cup Appended \cup Finalizing PROVE phase # "exec"
      BY <3>p, <3>7 DEF Control, PhaseLabels, Preparing, Appended, Finalizing, Reading, Writing
    <3>8. CASE may_be_contented(w) \/ try_lock(w) \/ append_to_uncontended_row(w)
               \/ unlock(w) \/ use_spare_buffer(w) \/ try_install_new_buffer(w)
               \/ load_other_buffer(w)
      <4>1. /\ pc[w] \in Preparing \cup Appended
            /\ UNCHANGED <<epoch, txs, db, phase, reads>>
        BY <3>8 DEF may_be_contented, try_lock, append_to_uncontended_row, unlock,
           use_spare_buffer, try_install_new_buffer, load_other_buffer, Preparing, Appended
      <4> QED
        BY <3>7, <4>1, NothingExecuted
    <3>9. CASE append_to_contented_row(w) \/ lock_full(w) \/ batch_append(w)
               \/ finalize_try_lock(w) \/ finalize_unlock(w) \/ finalize_end(w)
      <4>1. /\ pc[w] \in Preparing \cup Appended \cup Finalizing
            /\ UNCHANGED <<epoch, txs, db, phase, reads>>
        BY <3>9 DEF append_to_contented_row, lock_full, batch_append, finalize_try_lock,
           finalize_unlock, finalize_end, Preparing, Appended, Finalizing
      <4> QED
        BY <3>7, <4>1, NothingExecuted
    <3> QED
      BY <2>3, <3>1, <3>2, <3>3, <3>4, <3>5, <3>6, <3>8, <3>9 DEF Step
  <2> QED
    BY <2>1, <2>2, <2>3 DEF Next
<1> QED
  BY <1>1, <1>2, InvariantHolds, PTL DEF Spec, ImplementsDeterministicDB, DDB!Spec
===============================================================================
