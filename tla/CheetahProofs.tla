----------------------------- MODULE CheetahProofs -----------------------------
(***************************************************************************)
(* Proofs about Cheetah, for every number of cores, rows and epochs and    *)
(* every set of batches: locks, write bitmaps, reference counts, the       *)
(* ownership of versions, and that the protocol implements                 *)
(* DeterministicDB.                                                        *)
(***************************************************************************)
EXTENDS Cheetah, TransactionProofs, FiniteSetTheorems, SequenceTheorems

-------------------------------------------------------------------------------
(***************************************************************************)
(* The first invariant: types, the place of a worker in its loop, locks    *)
(***************************************************************************)
Filing      == {"finalize", "update_bitmap", "finalize_unlock"}
Referencing == {"add_ref", "add_first_ref", "identify", "placeholder_lock", "placeholder"}
Reading     == {"wait_stable", "decrement", "gc_lock", "final_reader"}
Writing     == {"write_lock", "identify_write", "write_unlock", "write_rec", "write_status"}
Labels      == {"begin", "done", "unlock"} \cup Filing \cup Referencing \cup Reading
                   \cup Writing

Locked == {"update_bitmap", "finalize_unlock", "placeholder", "unlock", "final_reader",
           "identify_write", "write_unlock"}

\* The operations of the batch that w's loop goes over in this phase.
Share(w) ==
    IF phase = "exec" THEN RoundRobin(w, Ops(txs))
    ELSE Block(w, IF phase = "write" THEN Updates(txs) ELSE Reads(txs))

ControlTypeOK ==
    /\ epoch \in 1 .. NumEpochs + 1
    /\ phase \in {"write", "read", "exec", "end"}
    /\ phase # "end" => epoch <= NumEpochs
    /\ txs \in Workloads
    /\ todo \in [Workers -> SUBSET Ops(txs)]
    /\ op \in [Workers -> Serials \X Nat]
    /\ row \in [Workers -> Keys]
    /\ pc \in [Workers -> Labels]
    /\ lock \in [Keys -> Workers \cup {Free}]

\* The lock of a row is held by the one worker that is where the code holds it.
LockOwner ==
    \A k \in Keys, w \in Workers : lock[k] = w <=> pc[w] \in Locked /\ row[w] = k

\* The labels of a phase
PhaseLabels ==
    \A w \in Workers :
        /\ phase = "write" => pc[w] \in {"begin", "done"} \cup Filing
        /\ phase = "read" => pc[w] \in {"begin", "done", "unlock"} \cup Referencing
        /\ phase = "exec" => pc[w] \in {"begin", "done", "unlock"} \cup Reading \cup Writing
        /\ phase = "end" => pc[w] = "begin"

\* The worker's operations are its own, the one it is in has left its list, and
\* row is the row of that operation.
OwnOperations ==
    \A w \in Workers :
        /\ todo[w] \subseteq Share(w)
        /\ pc[w] \in Filing \cup {"done"} \/ phase = "end" => todo[w] = {}
        /\ pc[w] \in {"unlock"} \cup Referencing \cup Reading \cup Writing =>
              /\ op[w] \in Share(w) /\ op[w] \notin todo[w]
              /\ row[w] = txs[op[w][1]][op[w][2]].index
              /\ IF pc[w] \in Writing THEN op[w] \in Updates(txs) ELSE op[w] \in Reads(txs)

Control == ControlTypeOK /\ LockOwner /\ PhaseLabels /\ OwnOperations

\* The default row is a row, and no worker is the value of a free lock.
LEMMA Defaults ==
    /\ NoRows \in [Workers -> Keys]
    /\ NoOps \in [Workers -> Serials \X Nat]
    /\ Free \notin Workers
<1>1. (CHOOSE k \in Keys : TRUE) \in Keys
  BY KeysAssumption
<1>2. Free \notin Workers
  BY NAssumption DEF Free, Workers
<1> QED
  BY <1>1, <1>2, SerialsAreNatural DEF NoRows, NoOps

\* A share is a set of operations of the batch.
LEMMA ShareOfBatch ==
    ASSUME NEW w
    PROVE  /\ Share(w) \subseteq Ops(txs)
           /\ phase = "write" => Share(w) \subseteq Updates(txs)
           /\ phase = "read" => Share(w) \subseteq Reads(txs)
  BY DEF Share, RoundRobin, Block, Updates, Reads

\* The first invariant holds initially ...
LEMMA InitControl == Init => Control
<1> SUFFICES ASSUME Init PROVE Control
  OBVIOUS
<1> USE DEF Init
<1>1. ControlTypeOK
  BY Defaults, EpochsAssumption DEF ControlTypeOK, Labels, Block, Updates
<1>2. LockOwner
  BY Defaults DEF LockOwner, Locked
<1>3. PhaseLabels
  BY DEF PhaseLabels
<1>4. OwnOperations
  BY DEF OwnOperations, Share, Filing, Referencing, Reading, Writing
<1> QED
  BY <1>1, <1>2, <1>3, <1>4 DEF Control

\* What a step of w does to the lock of its row, when it goes from one label to
\* another: nothing, take it or give it back.
LockFollows(w, from, l) ==
    \/ UNCHANGED lock /\ (l \in Locked <=> from \in Locked)
    \/ /\ lock[row[w]] = Free /\ lock' = [lock EXCEPT ![row[w]] = w]
       /\ l \in Locked /\ from \notin Locked
    \/ Release(row[w]) /\ l \notin Locked /\ from \in Locked

\* A step of w within its operation or to the end of it.
LEMMA ControlStays ==
    ASSUME Control, NEW w \in Workers, NEW l \in Labels,
           Goto(w, l), LockFollows(w, pc[w], l),
           UNCHANGED <<epoch, phase, txs, todo, op, row>>,
           phase # "end",
           l \in Reading => pc[w] \in Reading,
           l \in Writing => pc[w] \in Writing,
           l \in Referencing => pc[w] \in Referencing,
           l = "unlock" => pc[w] \in Referencing \cup Reading,
           l \in Filing => phase = "write",
           l \in Filing \cup {"done"} => todo[w] = {}
    PROVE  Control'
<1>1. /\ pc' = [pc EXCEPT ![w] = l] /\ pc \in [Workers -> Labels]
      /\ row \in [Workers -> Keys] /\ lock \in [Keys -> Workers \cup {Free}]
  BY DEF Goto, Control, ControlTypeOK
<1>2. LockOwner' /\ lock' \in [Keys -> Workers \cup {Free}]
  <2>1. CASE UNCHANGED lock /\ (l \in Locked <=> pc[w] \in Locked)
    BY <1>1, <2>1 DEF Control, LockOwner
  <2>2. CASE /\ lock[row[w]] = Free /\ lock' = [lock EXCEPT ![row[w]] = w]
             /\ l \in Locked /\ pc[w] \notin Locked
    BY <1>1, <2>2, Defaults DEF Control, LockOwner
  <2>3. CASE Release(row[w]) /\ l \notin Locked /\ pc[w] \in Locked
    BY <1>1, <2>3, Defaults DEF Control, LockOwner, Release
  <2> QED
    BY <2>1, <2>2, <2>3 DEF LockFollows
<1>3. PhaseLabels'
  BY <1>1 DEF Control, ControlTypeOK, PhaseLabels, Labels, Reading, Writing, Referencing, Filing
<1>4. OwnOperations'
  <2>1. \A v \in Workers : Share(v)' = Share(v)
    BY DEF Share
  <2> QED
    BY <1>1, <2>1 DEF Control, OwnOperations, Labels, Reading, Writing, Referencing, Filing
<1>5. ControlTypeOK'
  BY <1>1, <1>2 DEF Control, ControlTypeOK
<1> QED
  BY <1>2, <1>3, <1>4, <1>5 DEF Control

\* The loop gives a worker its next operation.
LEMMA BeginTakes ==
    ASSUME Control, NEW w \in Workers, Begin(w)
    PROVE  \E o \in todo[w] :
              /\ o \in Share(w) /\ o \in Ops(txs) /\ o \in Serials \X Nat
              /\ txs[o[1]][o[2]].index \in Keys
              /\ op' = [op EXCEPT ![w] = o]
              /\ row' = [row EXCEPT ![w] = txs[o[1]][o[2]].index]
              /\ todo' = [todo EXCEPT ![w] = @ \ {o}]
              /\ \/ /\ phase = "write" /\ o \in Updates(txs) /\ UNCHANGED pc
                    /\ bitmaps_' = [bitmaps_ EXCEPT ![w][txs[o[1]][o[2]].index] =
                                       @ \cup {TxOf(o[1])}]
                 \/ /\ phase = "read" /\ o \in Reads(txs)
                    /\ Goto(w, "add_ref") /\ UNCHANGED bitmaps_
                 \/ /\ phase = "exec" /\ UNCHANGED bitmaps_
                    /\ \/ o \in Reads(txs) /\ Goto(w, "wait_stable")
                       \/ o \in Updates(txs) /\ o \notin Reads(txs) /\ Goto(w, "write_lock")
<1> DEFINE o == First(todo[w])
<1>1. /\ txs \in Workloads /\ todo[w] \subseteq Ops(txs) /\ todo[w] # {}
      /\ todo[w] \subseteq Share(w)
  BY DEF Begin, Control, ControlTypeOK, OwnOperations
<1>2. o \in todo[w]
  <2>1. todo[w] \subseteq Serials \X Nat
    BY <1>1, OperationsOfBatch
  <2> QED
    BY <1>1, <2>1, FirstIsMember
<1>3. /\ o \in Ops(txs) /\ o \in Serials \X Nat /\ txs[o[1]][o[2]].index \in Keys
      /\ o \in Reads(txs) \/ o \in Updates(txs)
      /\ ~(o \in Reads(txs) /\ o \in Updates(txs))
  BY <1>1, <1>2, OperationsOfBatch
<1>4. /\ phase = "write" => o \in Updates(txs)
      /\ phase = "read" => o \in Reads(txs)
  BY <1>1, <1>2, ShareOfBatch
<1>5. /\ op' = [op EXCEPT ![w] = o]
      /\ row' = [row EXCEPT ![w] = txs[o[1]][o[2]].index]
      /\ todo' = [todo EXCEPT ![w] = @ \ {o}]
      /\ \/ /\ phase = "write"
            /\ bitmaps_' = [bitmaps_ EXCEPT ![w][txs[o[1]][o[2]].index] =
                               @ \cup {TxOf(o[1])}]
            /\ UNCHANGED pc
         \/ phase = "read" /\ Goto(w, "add_ref") /\ UNCHANGED bitmaps_
         \/ /\ phase = "exec"
            /\ Goto(w, IF o \in Reads(txs) THEN "wait_stable" ELSE "write_lock")
            /\ UNCHANGED bitmaps_
  BY DEF Begin
<1> HIDE DEF o
<1> QED
  BY <1>1, <1>2, <1>3, <1>4, <1>5

\* Its place in the loop stays consistent.
LEMMA ControlBegin ==
    ASSUME Control, NEW w \in Workers, Begin(w)
    PROVE  Control'
<1>1. PICK o \in todo[w] :
         /\ o \in Share(w) /\ o \in Ops(txs) /\ o \in Serials \X Nat
         /\ txs[o[1]][o[2]].index \in Keys
         /\ op' = [op EXCEPT ![w] = o]
         /\ row' = [row EXCEPT ![w] = txs[o[1]][o[2]].index]
         /\ todo' = [todo EXCEPT ![w] = @ \ {o}]
         /\ \/ phase = "write" /\ UNCHANGED pc
            \/ phase = "read" /\ o \in Reads(txs) /\ Goto(w, "add_ref")
            \/ phase = "exec" /\ o \in Reads(txs) /\ Goto(w, "wait_stable")
            \/ /\ phase = "exec" /\ o \in Updates(txs) /\ Goto(w, "write_lock")
  BY BeginTakes
<1>2. /\ pc[w] = "begin" /\ UNCHANGED <<epoch, phase, txs, lock>>
      /\ todo \in [Workers -> SUBSET Ops(txs)] /\ op \in [Workers -> Serials \X Nat]
      /\ row \in [Workers -> Keys] /\ pc \in [Workers -> Labels]
  BY DEF Begin, batchVars, Control, ControlTypeOK
<1>3. PICK l \in {"begin", "add_ref", "wait_stable", "write_lock"} :
         /\ pc' = [pc EXCEPT ![w] = l]
         /\ l = "begin" => phase = "write"
         /\ l = "add_ref" => phase = "read" /\ o \in Reads(txs)
         /\ l = "wait_stable" => phase = "exec" /\ o \in Reads(txs)
         /\ l = "write_lock" => phase = "exec" /\ o \in Updates(txs)
  BY <1>1, <1>2 DEF Goto
<1>4. \A v \in Workers : Share(v)' = Share(v)
  BY <1>2 DEF Share
<1>5. ControlTypeOK'
  BY <1>1, <1>2, <1>3 DEF Control, ControlTypeOK, Labels, Referencing, Reading, Writing
<1>6. LockOwner'
  BY <1>1, <1>2, <1>3 DEF Control, LockOwner, Locked
<1>7. PhaseLabels'
  BY <1>2, <1>3 DEF Control, PhaseLabels, Referencing, Reading, Writing
<1>8. OwnOperations'
  <2> SUFFICES ASSUME NEW v \in Workers
               PROVE  /\ todo'[v] \subseteq Share(v)
                      /\ pc'[v] \in Filing \cup {"done"} \/ phase = "end" => todo'[v] = {}
                      /\ pc'[v] \in {"unlock"} \cup Referencing \cup Reading \cup Writing =>
                            /\ op'[v] \in Share(v) /\ op'[v] \notin todo'[v]
                            /\ row'[v] = txs[op'[v][1]][op'[v][2]].index
                            /\ IF pc'[v] \in Writing THEN op'[v] \in Updates(txs)
                               ELSE op'[v] \in Reads(txs)
    BY <1>2, <1>4 DEF OwnOperations
  <2>1. CASE v = w
    <3>1. phase # "end" /\ todo[w] \subseteq Share(w)
      BY DEF Begin, Control, OwnOperations
    <3>2. /\ pc'[w] = l /\ op'[w] = o /\ todo'[w] = todo[w] \ {o}
          /\ row'[w] = txs[o[1]][o[2]].index
      BY <1>1, <1>2, <1>3
    <3>3. /\ l \notin Filing \cup {"done", "unlock"}
          /\ l \in Referencing \cup Reading \cup Writing => l # "begin"
          /\ l \in Writing <=> l = "write_lock"
      BY DEF Filing, Referencing, Reading, Writing
    <3> QED
      BY <1>1, <1>3, <2>1, <3>1, <3>2, <3>3
  <2>2. CASE v # w
    <3>1. pc'[v] = pc[v] /\ op'[v] = op[v] /\ todo'[v] = todo[v] /\ row'[v] = row[v]
      BY <1>1, <1>2, <1>3, <2>2
    <3> QED
      BY <3>1 DEF Control, OwnOperations
  <2> QED
    BY <2>1, <2>2
<1> QED
  BY <1>5, <1>6, <1>7, <1>8 DEF Control

\* finalize_update_write_bitmaps chooses a row whose lock is free.
LEMMA ControlFinalize ==
    ASSUME Control, NEW w \in Workers, finalize_try_lock(w)
    PROVE  Control'
<1>1. /\ pc[w] = "finalize" /\ pc' = [pc EXCEPT ![w] = "update_bitmap"]
      /\ UNCHANGED <<epoch, phase, txs, todo, op>>
  BY DEF finalize_try_lock, Goto, batchVars
<1>2. PICK k \in Keys :
          /\ lock[k] = Free
          /\ lock' = [lock EXCEPT ![k] = w]
          /\ row' = [row EXCEPT ![w] = k]
  BY DEF finalize_try_lock
<1>3. /\ row \in [Workers -> Keys] /\ pc \in [Workers -> Labels]
      /\ lock \in [Keys -> Workers \cup {Free}] /\ phase = "write"
  BY <1>1 DEF Control, ControlTypeOK, PhaseLabels, Filing, Referencing, Reading, Writing
<1>4. \A v \in Workers : Share(v)' = Share(v)
  BY <1>1 DEF Share
<1>5. ControlTypeOK'
  BY <1>1, <1>2, <1>3 DEF Control, ControlTypeOK, Labels, Filing
<1>6. LockOwner'
  BY <1>1, <1>2, <1>3, Defaults DEF Control, LockOwner, Locked
<1>7. PhaseLabels'
  BY <1>1, <1>3 DEF Control, PhaseLabels, Filing
<1>8. OwnOperations'
  BY <1>1, <1>2, <1>3, <1>4 DEF Control, OwnOperations, Filing, Referencing, Reading, Writing
<1> QED
  BY <1>5, <1>6, <1>7, <1>8 DEF Control

\* The barriers between the phases: nobody holds a lock.
LEMMA ControlBarrier ==
    ASSUME Control, StartReadPhase \/ StartExecution \/ NewEpoch
    PROVE  Control'
<1>1. /\ \A w \in Workers : pc[w] = "done"
      /\ op' = NoOps /\ row' = NoRows
      /\ pc' = [w \in Workers |-> "begin"]
      /\ UNCHANGED lock
  BY DEF StartReadPhase, StartExecution, NewEpoch, AtBarrier, LocalsReset
<1>2. /\ phase' \in {"write", "read", "exec", "end"} /\ epoch' \in 1 .. NumEpochs + 1
      /\ phase' # "end" => epoch' <= NumEpochs
      /\ txs' \in Workloads
  BY <1>1, EpochsAssumption DEF StartReadPhase, StartExecution, NewEpoch, Control, ControlTypeOK
<1>3. ASSUME NEW w \in Workers
      PROVE  /\ todo'[w] \subseteq Share(w)' /\ todo'[w] \subseteq Ops(txs')
             /\ phase' = "end" => todo'[w] = {}
  <2>1. todo[w] = {}
    BY <1>1 DEF Control, OwnOperations
  <2> QED
    BY <2>1 DEF StartReadPhase, StartExecution, NewEpoch, Share, Updates, Reads, Block,
       RoundRobin
<1>4. todo' \in [Workers -> SUBSET Ops(txs')]
  <2>1. todo' = [w \in Workers |-> todo'[w]]
    BY DEF StartReadPhase, StartExecution, NewEpoch, Control, ControlTypeOK
  <2> QED
    BY <1>3, <2>1
<1>5. ControlTypeOK'
  BY <1>1, <1>2, <1>4, Defaults DEF Control, ControlTypeOK, Labels
<1>6. LockOwner'
  BY <1>1 DEF Control, LockOwner, Locked
<1>7. PhaseLabels'
  BY <1>1, <1>2 DEF PhaseLabels
<1>8. OwnOperations'
  BY <1>1, <1>2, <1>3 DEF OwnOperations, Filing, Referencing, Reading, Writing
<1> QED
  BY <1>5, <1>6, <1>7, <1>8 DEF Control

\* ... and every step keeps it.
LEMMA ControlNext == Control /\ [Next]_vars => Control'
<1> SUFFICES ASSUME Control, [Next]_vars PROVE Control'
  OBVIOUS
<1>1. CASE UNCHANGED vars
  BY <1>1 DEF vars, batchVars, opVars, Control, ControlTypeOK, LockOwner, PhaseLabels,
     OwnOperations, Share
<1>2. CASE StartReadPhase \/ StartExecution \/ NewEpoch
  BY <1>2, ControlBarrier
<1>3. ASSUME NEW w \in Workers, Step(w) PROVE Control'
  <2> USE DEF batchVars, opVars
  <2>t. pc[w] \in Labels /\ row[w] \in Keys
    BY DEF Control, ControlTypeOK
  <2>l. /\ {"begin", "done", "unlock"} \cup Filing \cup Referencing \cup Reading \cup Writing
              = Labels
        /\ \A l : l \in {"begin", "done", "unlock"} =>
                     l \notin Filing \cup Referencing \cup Reading \cup Writing
        /\ pc[w] \in Filing \cup Referencing \cup Reading \cup Writing \cup {"unlock"} =>
              phase # "end"
        /\ pc[w] \in Filing => phase = "write" /\ todo[w] = {}
    BY DEF Labels, Filing, Referencing, Reading, Writing, Control, PhaseLabels, OwnOperations,
       ControlTypeOK
  <2>1. CASE Begin(w)
    BY <2>1, ControlBegin
  <2>2. CASE finalize_try_lock(w)
    BY <2>2, ControlFinalize
  <2>3. CASE EndLoop(w)
    <3>1. PICK l \in {"finalize", "done"} : Goto(w, l) /\ (l = "finalize" => phase = "write")
      BY <2>3 DEF EndLoop
    <3>2. /\ l \in Labels /\ LockFollows(w, pc[w], l)
          /\ l \notin Referencing \cup Reading \cup Writing
      BY <2>3, <2>l, <3>1 DEF EndLoop, LockFollows, Locked, Filing, Referencing, Reading, Writing
    <3> QED
      BY <2>3, <3>1, <3>2, ControlStays DEF EndLoop, Filing
  <2>4. CASE unlock(w)
    <3>1. LockFollows(w, pc[w], "begin") /\ Goto(w, "begin")
      BY <2>4 DEF unlock, LockFollows, Locked
    <3> QED
      BY <2>4, <2>l, <3>1, ControlStays DEF unlock
  <2>5. CASE update_bitmap(w) \/ finalize_unlock(w) \/ finalize_end(w)
    <3>1. PICK l \in Filing \cup {"done"} : Goto(w, l) /\ LockFollows(w, pc[w], l)
      BY <2>5 DEF update_bitmap, finalize_unlock, finalize_end, LockFollows, Locked, Filing
    <3>2. pc[w] \in Filing
      BY <2>5 DEF update_bitmap, finalize_unlock, finalize_end, Filing
    <3>3. l \notin Referencing \cup Reading \cup Writing /\ l # "unlock" /\ l \in Labels
      BY <2>l, <3>1 DEF Filing, Referencing, Reading, Writing
    <3> QED
      BY <2>5, <2>l, <3>1, <3>2, <3>3, ControlStays
         DEF update_bitmap, finalize_unlock, finalize_end
  <2>6. CASE add_ref(w) \/ add_first_ref(w) \/ read_master(w) \/ identify(w)
             \/ placeholder_lock(w) \/ placeholder(w)
    <3>1. PICK l \in Referencing \cup {"begin", "unlock"} :
             Goto(w, l) /\ LockFollows(w, pc[w], l)
      BY <2>6 DEF add_ref, add_first_ref, read_master, identify, placeholder_lock, placeholder,
         Lock, LockFollows, Locked, Referencing
    <3>2. pc[w] \in Referencing
      BY <2>6 DEF add_ref, add_first_ref, read_master, identify, placeholder_lock, placeholder,
         Lock, Referencing
    <3>3. l \notin Filing \cup Reading \cup Writing /\ l # "done" /\ l \in Labels
      BY <2>l, <3>1 DEF Filing, Referencing, Reading, Writing
    <3>4. UNCHANGED <<epoch, phase, txs, todo, op, row>>
      BY <2>6 DEF add_ref, add_first_ref, read_master, identify, placeholder_lock, placeholder,
         Lock
    <3> QED
      BY <2>l, <3>1, <3>2, <3>3, <3>4, ControlStays
  <2>7. CASE wait_stable_and_execute_read(w) \/ decrement_ref_cnt(w) \/ gc_lock(w)
             \/ final_reader(w)
    <3>1. PICK l \in Reading \cup {"begin", "unlock"} : Goto(w, l) /\ LockFollows(w, pc[w], l)
      BY <2>7 DEF wait_stable_and_execute_read, decrement_ref_cnt, gc_lock, final_reader,
         Lock, LockFollows, Locked, Reading
    <3>2. pc[w] \in Reading
      BY <2>7 DEF wait_stable_and_execute_read, decrement_ref_cnt, gc_lock, final_reader,
         Lock, Reading
    <3>3. l \notin Filing \cup Referencing \cup Writing /\ l # "done" /\ l \in Labels
      BY <2>l, <3>1 DEF Filing, Referencing, Reading, Writing
    <3>4. UNCHANGED <<epoch, phase, txs, todo, op, row>>
      BY <2>7 DEF wait_stable_and_execute_read, decrement_ref_cnt, gc_lock, final_reader, Lock
    <3> QED
      BY <2>l, <3>1, <3>2, <3>3, <3>4, ControlStays
  <2>8. CASE write_lock(w) \/ final_writer(w) \/ other_writer(w) \/ write_unlock(w)
             \/ write_rec(w) \/ write_status(w)
    <3>1. PICK l \in Writing \cup {"begin"} : Goto(w, l) /\ LockFollows(w, pc[w], l)
      BY <2>8 DEF write_lock, final_writer, other_writer, write_unlock, write_rec, write_status,
         SetStatus, Lock, LockFollows, Locked, Writing
    <3>2. pc[w] \in Writing
      BY <2>8 DEF write_lock, final_writer, other_writer, write_unlock, write_rec, write_status,
         SetStatus, Lock, Writing
    <3>3. l \notin Filing \cup Referencing \cup Reading /\ l # "done" /\ l # "unlock"
          /\ l \in Labels
      BY <2>l, <3>1 DEF Filing, Referencing, Reading, Writing
    <3>4. UNCHANGED <<epoch, phase, txs, todo, op, row>>
      BY <2>8 DEF write_lock, final_writer, other_writer, write_unlock, write_rec, write_status,
         SetStatus, Lock
    <3> QED
      BY <2>l, <3>1, <3>2, <3>3, <3>4, ControlStays
  <2> QED
    BY <1>3, <2>1, <2>2, <2>3, <2>4, <2>5, <2>6, <2>7, <2>8 DEF Step
<1> QED
  BY <1>1, <1>2, <1>3 DEF Next

\* The control state of Cheetah keeps its types, and the lock of a row is held
\* exactly by the worker in a critical section on it.
THEOREM LocksHaveOwners == Spec => [](ControlTypeOK /\ LockOwner)
<1>1. Control => ControlTypeOK /\ LockOwner
  BY DEF Control
<1> QED
  BY <1>1, InitControl, ControlNext, PTL DEF Spec
-------------------------------------------------------------------------------
(***************************************************************************)
(* How far the epoch has come                                              *)
(***************************************************************************)
InHand == {"unlock"} \cup Referencing \cup Reading \cup Writing

\* The operations that no worker has begun, and those that a worker is in and
\* has not brought beyond the labels L.
Ahead(L) ==
    UNION {todo[w] \cup IF pc[w] \in L THEN {op[w]} ELSE {} : w \in Workers}

\* The members of this union.
LEMMA AheadMembers ==
    ASSUME NEW L, NEW o
    PROVE  /\ o \in Ahead(L) <=>
                 \E w \in Workers : o \in todo[w] \/ (pc[w] \in L /\ o = op[w])
           /\ o \in Ahead(L)' <=>
                 \E w \in Workers : o \in todo[w]' \/ (pc[w]' \in L /\ o = op[w]')
  BY DEF Ahead

\* No operation belongs to two workers.
LEMMA OneWorkerPerOperation ==
    ASSUME Control, NEW v \in Workers, NEW w \in Workers, v # w, NEW o,
           o \in todo[v] \/ (pc[v] \in InHand /\ o = op[v])
    PROVE  o \notin todo[w] /\ ~(pc[w] \in InHand /\ o = op[w])
<1>1. o \in Share(v)
  BY DEF Control, OwnOperations, InHand
<1>2. o \notin Share(w)
  BY <1>1 DEF Share, Block, RoundRobin
<1> QED
  BY <1>2 DEF Control, OwnOperations, InHand

\* A step within L or outside of L changes nothing, ...
LEMMA AheadStays ==
    ASSUME Control, NEW w \in Workers, NEW l, Goto(w, l), UNCHANGED <<todo, op>>,
           NEW L, l \in L <=> pc[w] \in L
    PROVE  Ahead(L)' = Ahead(L)
<1>1. \A v \in Workers : pc'[v] \in L <=> pc[v] \in L
  BY DEF Control, ControlTypeOK, Goto
<1> QED
  BY <1>1 DEF Ahead

\* ... a step out of L takes the operation away, ...
LEMMA AheadLeaves ==
    ASSUME Control, NEW w \in Workers, NEW l, Goto(w, l), UNCHANGED <<todo, op>>,
           NEW L, L \subseteq InHand, pc[w] \in L, l \notin L
    PROVE  op[w] \in Ahead(L) /\ Ahead(L)' = Ahead(L) \ {op[w]}
<1>1. op[w] \in Ahead(L)
  BY AheadMembers
<1>2. pc'[w] = l /\ \A v \in Workers : v # w => pc'[v] = pc[v]
  BY DEF Control, ControlTypeOK, Goto
<1>3. op[w] \notin todo[w]
  BY DEF Control, OwnOperations, InHand
<1>4. ASSUME NEW v \in Workers, v # w
      PROVE  op[w] \notin todo[v] /\ ~(pc[v] \in L /\ op[w] = op[v])
  BY <1>4, OneWorkerPerOperation
<1>5. ASSUME NEW o PROVE o \in Ahead(L)' <=> o \in Ahead(L) /\ o # op[w]
  <2>1. o \in Ahead(L)' <=> \E v \in Workers : o \in todo[v] \/ (pc'[v] \in L /\ o = op[v])
    BY AheadMembers
  <2>2. o \in Ahead(L) <=> \E v \in Workers : o \in todo[v] \/ (pc[v] \in L /\ o = op[v])
    BY AheadMembers
  <2> QED
    BY <1>2, <1>3, <1>4, <2>1, <2>2
<1> QED
  BY <1>1, <1>5

\* Worker w begins operation o and goes to l.
Begins(w, o, l) ==
    /\ pc' = [pc EXCEPT ![w] = l]
    /\ op' = [op EXCEPT ![w] = o]
    /\ todo' = [todo EXCEPT ![w] = @ \ {o}]

\* ... and an operation that is begun stays if it is begun within L.
LEMMA AheadBegins ==
    ASSUME Control, NEW w \in Workers, NEW l, NEW o \in todo[w],
           Begins(w, o, l), NEW L, L \subseteq InHand, pc[w] \notin L
    PROVE  /\ o \in Ahead(L)
           /\ l \in L => Ahead(L)' = Ahead(L)
           /\ l \notin L => Ahead(L)' = Ahead(L) \ {o}
<1>1. o \in Ahead(L)
  BY AheadMembers
<1>2. /\ pc'[w] = l /\ op'[w] = o /\ todo'[w] = todo[w] \ {o}
      /\ \A v \in Workers : v # w => pc'[v] = pc[v] /\ op'[v] = op[v] /\ todo'[v] = todo[v]
  BY DEF Control, ControlTypeOK, Begins
<1>3. ASSUME NEW v \in Workers, v # w
      PROVE  o \notin todo[v] /\ ~(pc[v] \in L /\ o = op[v])
  BY <1>3, OneWorkerPerOperation
<1>4. ASSUME NEW p PROVE p \in Ahead(L)' <=> p \in Ahead(L) /\ (p = o => l \in L)
  <2>1. p \in Ahead(L)' <=> \E v \in Workers : p \in todo'[v] \/ (pc'[v] \in L /\ p = op'[v])
    BY AheadMembers
  <2>2. p \in Ahead(L) <=> \E v \in Workers : p \in todo[v] \/ (pc[v] \in L /\ p = op[v])
    BY AheadMembers
  <2>3. CASE p = o
    BY <1>1, <1>2, <1>3, <2>1, <2>3
  <2>4. CASE p # o
    BY <1>2, <2>1, <2>2, <2>4
  <2> QED
    BY <2>3, <2>4
<1>5. CASE l \in L
  BY <1>1, <1>4, <1>5
<1>6. CASE l \notin L
  BY <1>1, <1>4, <1>6
<1> QED
  BY <1>5, <1>6

\* At a barrier nothing is left.
LEMMA AheadAtBarrier ==
    ASSUME Control, AtBarrier, NEW L, L \subseteq InHand
    PROVE  Ahead(L) = {}
<1>1. "done" \notin L
  BY DEF InHand, Referencing, Reading, Writing
<1>2. \A w \in Workers : todo[w] = {} /\ pc[w] = "done"
  BY DEF AtBarrier, Control, OwnOperations
<1> QED
  BY <1>1, <1>2 DEF Ahead
-------------------------------------------------------------------------------
(***************************************************************************)
(* Serial numbers: core and transaction                                    *)
(***************************************************************************)

\* A serial number is its core and its place on the core.
LEMMA CoreAndTx ==
    ASSUME NEW s \in Serials
    PROVE  /\ CoreOf(s) \in Workers /\ TxOf(s) \in Workers
           /\ s = CoreOf(s) * N + TxOf(s)
<1>1. N \in Nat \ {0} /\ s \in Nat /\ s < N * N
  BY NAssumption, SquareAssumption, SerialsAreNatural DEF Serials
<1>2. /\ s \div N \in Int /\ s % N \in 0 .. N - 1
      /\ s = N * (s \div N) + (s % N)
  BY <1>1, SMT
<1> DEFINE q == s \div N
<1>3. q >= 0
  <2> SUFFICES ASSUME q < 0 PROVE FALSE
    BY <1>2
  <2>1. N * q <= N * (-1)
    BY <1>1, <1>2, SMT
  <2> QED
    BY <1>1, <1>2, <2>1, SMT
<1>4. q < N
  <2> SUFFICES ASSUME q >= N PROVE FALSE
    BY <1>1, <1>2
  <2>1. N * q >= N * N
    BY <1>1, <1>2, SMT
  <2> QED
    BY <1>1, <1>2, <2>1, SMT
<1>5. N * q = q * N
  BY <1>1, <1>2, SMT
<1> QED
  BY <1>1, <1>2, <1>3, <1>4, <1>5 DEF CoreOf, TxOf, Workers

\* Serial numbers are ordered by core, then by place.
LEMMA SerialOrder ==
    ASSUME NEW s \in Serials, NEW u \in Serials
    PROVE  /\ u < s <=> \/ CoreOf(u) < CoreOf(s)
                        \/ CoreOf(u) = CoreOf(s) /\ TxOf(u) < TxOf(s)
           /\ u = s <=> CoreOf(u) = CoreOf(s) /\ TxOf(u) = TxOf(s)
<1> DEFINE c == CoreOf(s) t == TxOf(s) d == CoreOf(u) x == TxOf(u)
<1>1. /\ c \in Workers /\ t \in Workers /\ s = c * N + t
      /\ d \in Workers /\ x \in Workers /\ u = d * N + x
  BY CoreAndTx
<1> HIDE DEF c, t, d, x
<1>2. /\ N \in Nat \ {0} /\ c \in Nat /\ d \in Nat /\ t \in Nat /\ x \in Nat
      /\ t < N /\ x < N /\ c * N \in Nat /\ d * N \in Nat
  <2>1. N \in Nat \ {0} /\ c \in Nat /\ d \in Nat /\ t \in Nat /\ x \in Nat
        /\ t < N /\ x < N
    BY <1>1, NAssumption DEF Workers
  <2> QED
    BY <2>1, SMT
<1>3. d < c => d * N + N <= c * N
  BY <1>2, SMT
<1>4. c < d => c * N + N <= d * N
  BY <1>2, SMT
<1>5. c = d \/ c < d \/ d < c
  BY <1>2
<1>6. /\ u < s <=> d < c \/ (d = c /\ x < t)
      /\ u = s <=> d = c /\ x = t
  BY <1>1, <1>2, <1>3, <1>4, <1>5
<1> QED
  BY <1>6 DEF c, t, d, x
-------------------------------------------------------------------------------
(***************************************************************************)
(* The second invariant: the write bitmaps                                 *)
(***************************************************************************)
RowOf(o) == txs[o[1]][o[2]].index

\* The place of core c among the cores C
Rank(C, c) == Cardinality({d \in C : d < c})

\* A set of cores is finite, and ranks are numbers below its size.
LEMMA RankIsNumber ==
    ASSUME NEW C \in SUBSET Workers, NEW c
    PROVE  /\ IsFiniteSet(C) /\ Cardinality(C) \in Nat
           /\ IsFiniteSet({d \in C : d < c}) /\ Rank(C, c) \in Nat
           /\ Rank(C, c) <= Cardinality(C)
<1>1. IsFiniteSet(Workers)
  BY NAssumption, FS_Interval DEF Workers
<1>2. IsFiniteSet(C)
  BY <1>1, FS_Subset
<1>3. {d \in C : d < c} \in SUBSET C
  OBVIOUS
<1>4. /\ IsFiniteSet({d \in C : d < c})
      /\ Cardinality({d \in C : d < c}) <= Cardinality(C)
  BY <1>2, <1>3, FS_Subset
<1> QED
  BY <1>2, <1>4, FS_CardinalityType DEF Rank

\* A member of C ranks below every later core, and below the size of C.
LEMMA RankGrows ==
    ASSUME NEW C \in SUBSET Workers, NEW c \in C
    PROVE  /\ Rank(C, c) < Cardinality(C)
           /\ \A d \in Workers : c < d => Rank(C, c) < Rank(C, d)
<1> DEFINE S == {x \in C : x < c}
<1>1. IsFiniteSet(S) /\ Cardinality(S) \in Nat /\ Rank(C, c) = Cardinality(S)
  BY RankIsNumber DEF Rank
<1>2. c \in Nat /\ C \subseteq Nat
  BY NAssumption DEF Workers
<1>3. c \notin S
  BY <1>2
<1>4. IsFiniteSet(S \cup {c}) /\ Cardinality(S \cup {c}) = Cardinality(S) + 1
  BY <1>1, <1>3, FS_AddElement
<1>5. Rank(C, c) < Cardinality(C)
  <2>1. S \cup {c} \in SUBSET C /\ IsFiniteSet(C) /\ Cardinality(C) \in Nat
    BY RankIsNumber
  <2>2. Cardinality(S \cup {c}) <= Cardinality(C)
    BY <2>1, FS_Subset
  <2> QED
    BY <1>1, <1>4, <2>1, <2>2
<1>6. ASSUME NEW d \in Workers, c < d PROVE Rank(C, c) < Rank(C, d)
  <2> DEFINE D == {x \in C : x < d}
  <2>1. IsFiniteSet(D) /\ Cardinality(D) \in Nat /\ Rank(C, d) = Cardinality(D)
    BY RankIsNumber DEF Rank
  <2>2. d \in Nat
    BY NAssumption DEF Workers
  <2>3. S \cup {c} \in SUBSET D
    <3>1. ASSUME NEW x \in S \cup {c} PROVE x \in C /\ x < d
      <4>1. x \in C /\ (x < c \/ x = c)
        OBVIOUS
      <4>2. x \in Nat
        BY <1>2, <4>1
      <4> QED
        BY <1>2, <1>6, <2>2, <4>1, <4>2
    <3> QED
      BY <3>1
  <2>4. Cardinality(S \cup {c}) <= Cardinality(D)
    BY <2>1, <2>3, FS_Subset
  <2> QED
    BY <1>1, <1>4, <2>1, <2>4
<1> QED
  BY <1>5, <1>6

\* A new core raises the ranks of the later ones.
LEMMA RankAfterAdding ==
    ASSUME NEW C \in SUBSET Workers, NEW w \in Workers, w \notin C, NEW c \in Workers
    PROVE  Rank(C \cup {w}, c) = IF w < c THEN Rank(C, c) + 1 ELSE Rank(C, c)
<1> DEFINE S == {x \in C : x < c}
<1>1. IsFiniteSet(S) /\ Rank(C, c) = Cardinality(S)
  BY RankIsNumber DEF Rank
<1>2. CASE w < c
  <2>1. {x \in C \cup {w} : x < c} = S \cup {w} /\ w \notin S
    BY <1>2
  <2> QED
    BY <1>1, <1>2, <2>1, FS_AddElement DEF Rank
<1>3. CASE ~(w < c)
  <2>1. {x \in C \cup {w} : x < c} = S
    BY <1>3
  <2> QED
    BY <1>1, <1>3, <2>1 DEF Rank
<1> QED
  BY <1>2, <1>3

\* r is q with b at place i.
Inserted(r, q, i, b) ==
    \A j \in 1 .. Len(q) + 1 :
        r[j] = IF j < i THEN q[j] ELSE IF j = i THEN b ELSE q[j - 1]

\* What InsertAt makes of a sequence.
LEMMA InsertedAt ==
    ASSUME NEW S, NEW q \in Seq(S), NEW b \in S, NEW i \in Nat, 1 <= i, i <= Len(q) + 1
    PROVE  /\ InsertAt(q, i, b) \in Seq(S)
           /\ Len(InsertAt(q, i, b)) = Len(q) + 1
           /\ Inserted(InsertAt(q, i, b), q, i, b)
<1>1. Len(q) \in Nat /\ i \in Int
  OBVIOUS
<1> DEFINE A == SubSeq(q, 1, i - 1)
           B == SubSeq(q, i, Len(q))
<1>2. A \in Seq(S) /\ Len(A) = i - 1 /\ \A j \in 1 .. i - 1 : A[j] = q[j]
  <2>1. \A j \in 1 .. i - 1 : q[j] \in S
    BY <1>1
  <2>2. i - 1 \in Int /\ 1 \in Int
    BY <1>1
  <2> HIDE DEF A
  <2>3. /\ A \in Seq(S) /\ Len(A) = IF 1 <= i - 1 THEN (i - 1) - 1 + 1 ELSE 0
        /\ \A j \in 1 .. (i - 1) - 1 + 1 : A[j] = q[1 + j - 1]
    BY <2>1, <2>2, SubSeqProperties DEF A
  <2> QED
    BY <1>1, <2>3
<1>3. /\ B \in Seq(S) /\ Len(B) = Len(q) - i + 1
      /\ \A j \in 1 .. Len(q) - i + 1 : B[j] = q[i + j - 1]
  <2>1. \A j \in i .. Len(q) : q[j] \in S
    BY <1>1
  <2>2. Len(q) \in Int
    BY <1>1
  <2> HIDE DEF B
  <2>3. /\ B \in Seq(S) /\ Len(B) = IF i <= Len(q) THEN Len(q) - i + 1 ELSE 0
        /\ \A j \in 1 .. Len(q) - i + 1 : B[j] = q[i + j - 1]
    BY <1>1, <2>1, <2>2, SubSeqProperties DEF B
  <2> QED
    BY <1>1, <2>3
<1>4. InsertAt(q, i, b) = (A \o <<b>>) \o B
  BY DEF InsertAt
<1> HIDE DEF A, B
<1>5. /\ <<b>> \in Seq(S) /\ Len(<<b>>) = 1 /\ <<b>>[1] = b
  OBVIOUS
<1> DEFINE M == A \o <<b>>
<1>6. /\ M \in Seq(S) /\ Len(M) = i
      /\ \A j \in 1 .. i : M[j] = IF j <= i - 1 THEN A[j] ELSE <<b>>[j - (i - 1)]
  <2>1. /\ M \in Seq(S) /\ Len(M) = Len(A) + 1
        /\ \A j \in 1 .. Len(A) + 1 : M[j] = IF j <= Len(A) THEN A[j] ELSE <<b>>[j - Len(A)]
    BY <1>2, <1>5, ConcatProperties
  <2> QED
    BY <1>1, <1>2, <2>1
<1>7. M[i] = b /\ \A j \in 1 .. i : j < i => M[j] = q[j]
  BY <1>1, <1>2, <1>5, <1>6
<1> HIDE DEF M
<1>8. /\ M \o B \in Seq(S) /\ Len(M \o B) = Len(M) + Len(B)
      /\ \A j \in 1 .. Len(M) + Len(B) : (M \o B)[j] = IF j <= Len(M) THEN M[j] ELSE B[j - Len(M)]
  BY <1>3, <1>6, ConcatProperties
<1>9. InsertAt(q, i, b) = M \o B
  BY <1>4 DEF M
<1>10. Len(M) + Len(B) = Len(q) + 1
  BY <1>1, <1>3, <1>6
<1>11. ASSUME NEW j \in 1 .. Len(q) + 1
       PROVE  (M \o B)[j] = IF j < i THEN q[j] ELSE IF j = i THEN b ELSE q[j - 1]
  <2>1. CASE j <= i
    BY <1>1, <1>6, <1>7, <1>8, <1>10, <2>1
  <2>2. CASE j > i
    <3>1. (M \o B)[j] = B[j - i] /\ j - i \in 1 .. Len(q) - i + 1
      BY <1>1, <1>6, <1>8, <1>10, <2>2
    <3>2. B[j - i] = q[i + (j - i) - 1]
      BY <1>3, <3>1
    <3>3. i + (j - i) - 1 = j - 1
      BY <1>1
    <3> QED
      BY <2>2, <3>1, <3>2, <3>3
  <2>3. j <= i \/ j > i
    BY <1>1
  <2> QED
    BY <2>1, <2>2, <2>3
<1> QED
  BY <1>8, <1>9, <1>10, <1>11 DEF Inserted

\* The cores C keep in r the bitmaps they have in q, when the cores are D.
KeepBitmaps(r, D, q, C) == \A c \in C : r[Rank(D, c) + 1] = q[Rank(C, c) + 1]

\* A core's bitmap is filed at its rank, and the others keep theirs.
LEMMA BitmapFiled ==
    ASSUME NEW C \in SUBSET Workers, NEW w \in Workers, w \notin C,
           NEW S, NEW q \in Seq(S), Len(q) = Cardinality(C), NEW b \in S,
           NEW q2, q2 = InsertAt(q, Rank(C, w) + 1, b)
    PROVE  /\ q2 \in Seq(S) /\ Len(q2) = Cardinality(C \cup {w})
           /\ q2[Rank(C \cup {w}, w) + 1] = b
           /\ KeepBitmaps(q2, C \cup {w}, q, C)
<1>1. /\ Rank(C, w) \in Nat /\ Rank(C, w) <= Cardinality(C) /\ Cardinality(C) \in Nat
      /\ Cardinality(C \cup {w}) = Cardinality(C) + 1
  BY RankIsNumber, FS_AddElement
<1>2. PICK i : i = Rank(C, w) + 1
  OBVIOUS
<1>3. /\ q2 \in Seq(S) /\ Len(q2) = Len(q) + 1
      /\ \A j \in 1 .. Len(q) + 1 :
            q2[j] = IF j < Rank(C, w) + 1 THEN q[j]
                    ELSE IF j = Rank(C, w) + 1 THEN b ELSE q[j - 1]
  <2>1. i \in Nat /\ 1 <= i /\ i <= Len(q) + 1
    BY <1>1, <1>2
  <2>2. /\ InsertAt(q, i, b) \in Seq(S)
        /\ Len(InsertAt(q, i, b)) = Len(q) + 1
        /\ Inserted(InsertAt(q, i, b), q, i, b)
    BY <2>1, InsertedAt
  <2>3. q2 = InsertAt(q, i, b)
    BY <1>2
  <2> QED
    BY <1>2, <2>2, <2>3 DEF Inserted
<1>4. w \in Nat
  BY NAssumption DEF Workers
<1>5. Rank(C \cup {w}, w) = Rank(C, w)
  BY <1>4, RankAfterAdding
<1>6. q2[Rank(C, w) + 1] = b
  BY <1>1, <1>2, <1>3
<1>7. ASSUME NEW c \in C PROVE q2[Rank(C \cup {w}, c) + 1] = q[Rank(C, c) + 1]
  <2>1. /\ c \in Nat /\ c # w /\ Rank(C, c) \in Nat /\ Rank(C, c) < Cardinality(C)
        /\ c < w => Rank(C, c) < Rank(C, w)
    <3>1. Rank(C, c) \in Nat
      BY RankIsNumber
    <3>2. Rank(C, c) < Cardinality(C) /\ (c < w => Rank(C, c) < Rank(C, w))
      BY RankGrows
    <3>3. c \in Nat
      BY NAssumption DEF Workers
    <3> QED
      BY <3>1, <3>2, <3>3
  <2>2. CASE c < w
    <3>1. Rank(C \cup {w}, c) = Rank(C, c)
      BY <1>4, <2>1, <2>2, RankAfterAdding
    <3> QED
      BY <1>1, <1>3, <2>1, <2>2, <3>1
  <2>3. CASE w < c
    <3>1. Rank(C \cup {w}, c) = Rank(C, c) + 1
      BY <1>4, <2>1, <2>3, RankAfterAdding
    <3>2. Rank(C, w) <= Rank(C, c)
      <4>1. {d \in C : d < w} \in SUBSET {d \in C : d < c}
        <5>1. \A d \in C : d \in Nat
          BY NAssumption DEF Workers
        <5>2. \A d \in C : d < w => d < c
          BY <1>4, <2>1, <2>3, <5>1
        <5> QED
          BY <5>2
      <4>2. IsFiniteSet({d \in C : d < c})
        BY RankIsNumber
      <4> QED
        BY <4>1, <4>2, FS_Subset DEF Rank
    <3> QED
      BY <1>1, <1>3, <2>1, <3>1, <3>2
  <2> QED
    BY <1>4, <2>1, <2>2, <2>3
<1> QED
  BY <1>1, <1>3, <1>5, <1>6, <1>7 DEF KeepBitmaps

\* The transactions of core c that write row k, and the cores that have one
OfCore(k, c) == {TxOf(s) : s \in {u \in Writers(txs, k) : CoreOf(u) = c}}
Cores(k)     == {CoreOf(s) : s \in Writers(txs, k)}

\* The transactions whose update of row k the loop of w will still note
NotNoted(w, k) == {TxOf(o[1]) : o \in {u \in todo[w] : RowOf(u) = k}}

BitmapsTypeOK ==
    /\ bitmaps_ \in [Workers -> [Keys -> SUBSET Workers]]
    /\ core_bitmap_ \in [Keys -> SUBSET Workers]
    /\ tx_bitmaps_ \in [Keys -> Seq(SUBSET Workers)]

\* What has been filed: whole cores, each at its rank.
FiledBitmap(k) ==
    /\ core_bitmap_[k] \subseteq Cores(k)
    /\ Len(tx_bitmaps_[k]) = Cardinality(core_bitmap_[k])
    /\ \A c \in core_bitmap_[k] :
          tx_bitmaps_[k][Rank(core_bitmap_[k], c) + 1] = OfCore(k, c)

FiledBitmaps == \A k \in Keys : FiledBitmap(k)

\* What has not: a worker keeps its bitmap of a row until it has filed it.
OpenBitmap(w, k) ==
    /\ w \notin core_bitmap_[k] => bitmaps_[w][k] \cup NotNoted(w, k) = OfCore(k, w)
    /\ w \in core_bitmap_[k] =>
          /\ pc[w] \in Filing \cup {"done"}
          /\ bitmaps_[w][k] = {} \/ (pc[w] = "finalize_unlock" /\ row[w] = k)
    /\ pc[w] = "update_bitmap" /\ row[w] = k =>
          w \notin core_bitmap_[k] /\ bitmaps_[w][k] # {}
    /\ pc[w] = "finalize_unlock" /\ row[w] = k => w \in core_bitmap_[k]
    /\ pc[w] = "done" => bitmaps_[w][k] = {}

OpenBitmaps == phase = "write" => \A w \in Workers, k \in Keys : OpenBitmap(w, k)

\* The final writer of row k has not been in identify_write_version.
BeforeWrite == {"write_lock", "identify_write"}

FinalPending(k) ==
    \E u \in Updates(txs) :
        RowOf(u) = k /\ u[1] = Max(Writers(txs, k)) /\ u \in Ahead(BeforeWrite)

\* From the write phase on the bitmaps are complete, until the final writer of
\* the row clears them.
KeptBitmaps ==
    \A k \in Keys :
        /\ phase # "write" => \A w \in Workers : bitmaps_[w][k] = {}
        /\ phase = "read" => core_bitmap_[k] = Cores(k)
        /\ phase = "exec" => core_bitmap_[k] = IF FinalPending(k) THEN Cores(k) ELSE {}
        /\ phase = "end" => core_bitmap_[k] = {}

Bitmaps == BitmapsTypeOK /\ FiledBitmaps /\ OpenBitmaps /\ KeptBitmaps

\* The cores and the transactions of the writers of a row.
LEMMA WritersOnCores ==
    ASSUME Control, NEW k
    PROVE  /\ Writers(txs, k) \subseteq Serials
           /\ Cores(k) \subseteq Workers
           /\ \A c : OfCore(k, c) \subseteq Workers
           /\ \A c : c \in Cores(k) <=> OfCore(k, c) # {}
<1>1. Writers(txs, k) \subseteq Serials
  BY WritersAreUpdates DEF Control, ControlTypeOK
<1> QED
  BY <1>1, CoreAndTx DEF Cores, OfCore

\* A batch gives the loop of each worker the updates of its transactions.
LEMMA BlocksOfUpdates ==
    ASSUME NEW batch \in Workloads, NEW w \in Workers, NEW k \in Keys
    PROVE  {TxOf(o[1]) : o \in {u \in Block(w, Updates(batch)) : batch[u[1]][u[2]].index = k}}
              = {TxOf(s) : s \in {u \in Writers(batch, k) : CoreOf(u) = w}}
  BY WritersAreUpdates DEF Block, CoreOf

\* The second invariant holds initially ...
LEMMA InitBitmaps == Init => Bitmaps
<1> SUFFICES ASSUME Init PROVE Bitmaps
  OBVIOUS
<1> USE DEF Init
<1>1. BitmapsTypeOK
  BY DEF BitmapsTypeOK
<1>2. FiledBitmaps
  <2>1. Cardinality({}) = 0 /\ Len(<<>>) = 0
    BY FS_EmptySet
  <2> QED
    BY <2>1 DEF FiledBitmaps, FiledBitmap
<1>3. OpenBitmaps
  BY BlocksOfUpdates DEF OpenBitmaps, OpenBitmap, NotNoted, OfCore, RowOf
<1>4. KeptBitmaps
  BY DEF KeptBitmaps
<1> QED
  BY <1>1, <1>2, <1>3, <1>4 DEF Bitmaps

\* The cores and transactions of a batch that stays.
LEMMA SameBatch ==
    ASSUME UNCHANGED txs
    PROVE  \A k : /\ Cores(k)' = Cores(k) /\ \A c : OfCore(k, c)' = OfCore(k, c)
                  /\ \A o : RowOf(o)' = RowOf(o)
  BY DEF Cores, OfCore, RowOf

\* What a worker has noted of a row stays while others work on it.
LEMMA OpenBitmapKept ==
    ASSUME Bitmaps, phase = "write", NEW v \in Workers, NEW k \in Keys, UNCHANGED txs,
           v \in core_bitmap_'[k] <=> v \in core_bitmap_[k],
           bitmaps_'[v][k] = bitmaps_[v][k],
           todo'[v] = todo[v], pc'[v] = pc[v], row'[v] = row[v]
    PROVE  OpenBitmap(v, k)'
<1>1. OpenBitmap(v, k)
  BY DEF Bitmaps, OpenBitmaps
<1>2. NotNoted(v, k)' = NotNoted(v, k) /\ OfCore(k, v)' = OfCore(k, v)
  BY DEF NotNoted, RowOf, OfCore
<1> QED
  BY <1>1, <1>2 DEF OpenBitmap

\* update_write_bitmaps notes the next update.
LEMMA BitmapsBegin ==
    ASSUME Control, Bitmaps, NEW w \in Workers, Begin(w), phase = "write"
    PROVE  Bitmaps'
<1>1. PICK o \in todo[w] :
         /\ RowOf(o) \in Keys /\ o[1] \in Serials
         /\ todo' = [todo EXCEPT ![w] = @ \ {o}]
         /\ UNCHANGED pc
         /\ bitmaps_' = [bitmaps_ EXCEPT ![w][RowOf(o)] = @ \cup {TxOf(o[1])}]
  BY BeginTakes DEF RowOf
<1>2. /\ UNCHANGED <<phase, txs, core_bitmap_, tx_bitmaps_>> /\ pc[w] = "begin"
  BY DEF Begin, batchVars, bitmapVars
<1>3. /\ todo \in [Workers -> SUBSET Ops(txs)]
      /\ bitmaps_ \in [Workers -> [Keys -> SUBSET Workers]]
  BY DEF Control, ControlTypeOK, Bitmaps, BitmapsTypeOK
<1>4. \A k : w \notin core_bitmap_[k] \/ k \notin Keys
  BY <1>2 DEF Bitmaps, OpenBitmaps, OpenBitmap, Filing
<1>5. BitmapsTypeOK'
  BY <1>1, <1>2, <1>3, CoreAndTx DEF Bitmaps, BitmapsTypeOK
<1>6. FiledBitmaps' /\ KeptBitmaps'
  BY <1>2, SameBatch DEF Bitmaps, FiledBitmaps, FiledBitmap, KeptBitmaps
<1>7. OpenBitmaps'
  <2>1. row \in [Workers -> Keys] /\ \A v \in Workers : v # w => row'[v] = row[v]
    BY DEF Begin, Control, ControlTypeOK
  <2>2. ASSUME NEW v \in Workers, NEW k \in Keys, v # w PROVE OpenBitmap(v, k)'
    BY <1>1, <1>2, <1>3, <2>1, <2>2, OpenBitmapKept
  <2>3. ASSUME NEW k \in Keys PROVE OpenBitmap(w, k)'
    <3>1. /\ bitmaps_'[w][k] = IF k = RowOf(o) THEN bitmaps_[w][k] \cup {TxOf(o[1])}
                               ELSE bitmaps_[w][k]
          /\ todo'[w] = todo[w] \ {o}
      BY <1>1, <1>3
    <3>2. NotNoted(w, k)' = {TxOf(p[1]) : p \in {u \in todo[w] \ {o} : RowOf(u) = k}}
      BY <1>2, <3>1 DEF NotNoted, RowOf
    <3>3. bitmaps_'[w][k] \cup NotNoted(w, k)' = bitmaps_[w][k] \cup NotNoted(w, k)
      <4>1. CASE k = RowOf(o)
        BY <3>1, <3>2, <4>1 DEF NotNoted
      <4>2. CASE k # RowOf(o)
        BY <3>1, <3>2, <4>2 DEF NotNoted
      <4> QED
        BY <4>1, <4>2
    <3>4. OpenBitmap(w, k) /\ w \notin core_bitmap_[k]
      BY <1>4 DEF Bitmaps, OpenBitmaps
    <3>5. OfCore(k, w)' = OfCore(k, w)
      BY <1>2, SameBatch
    <3> QED
      BY <1>1, <1>2, <3>3, <3>4, <3>5 DEF OpenBitmap
  <2> QED
    BY <2>2, <2>3 DEF OpenBitmaps
<1> QED
  BY <1>5, <1>6, <1>7 DEF Bitmaps

\* The steps of the write phase that touch no bitmap of the row.
LEMMA BitmapsMove ==
    ASSUME Control, Bitmaps, NEW w \in Workers, phase = "write",
           EndLoop(w) \/ finalize_try_lock(w) \/ finalize_end(w)
    PROVE  Bitmaps'
<1>1. /\ UNCHANGED <<phase, txs, core_bitmap_, tx_bitmaps_, bitmaps_, todo>>
      /\ pc \in [Workers -> Labels] /\ row \in [Workers -> Keys]
      /\ \A v \in Workers : v # w => pc'[v] = pc[v] /\ row'[v] = row[v]
  BY DEF EndLoop, finalize_try_lock, finalize_end, Goto, batchVars, opVars, localVars, bitmapVars,
     Control, ControlTypeOK
<1>2. BitmapsTypeOK' /\ FiledBitmaps' /\ KeptBitmaps'
  BY <1>1, SameBatch DEF Bitmaps, BitmapsTypeOK, FiledBitmaps, FiledBitmap,
     KeptBitmaps
<1>3. \A v, k : NotNoted(v, k)' = NotNoted(v, k)
  BY <1>1 DEF NotNoted, RowOf
<1>4. \/ pc'[w] = "finalize" /\ pc[w] = "begin"
      \/ pc'[w] = "done" /\ pc[w] = "finalize" /\ \A k \in Keys : bitmaps_[w][k] = {}
      \/ pc'[w] = "update_bitmap" /\ pc[w] = "finalize" /\ bitmaps_[w][row'[w]] # {}
  BY <1>1 DEF EndLoop, finalize_try_lock, finalize_end, Goto
<1>5. OpenBitmaps'
  <2>1. ASSUME NEW v \in Workers, NEW k \in Keys, v # w PROVE OpenBitmap(v, k)'
    BY <1>1, <2>1, OpenBitmapKept
  <2>2. ASSUME NEW k \in Keys PROVE OpenBitmap(w, k)'
    <3>1. OpenBitmap(w, k)
      BY DEF Bitmaps, OpenBitmaps
    <3>2. OfCore(k, w)' = OfCore(k, w)
      BY <1>1, SameBatch
    <3> QED
      BY <1>1, <1>3, <1>4, <3>1, <3>2 DEF OpenBitmap, Filing
  <2> QED
    BY <2>1, <2>2 DEF OpenBitmaps
<1> QED
  BY <1>2, <1>5 DEF Bitmaps

\* A worker files its bitmap of a row.
LEMMA BitmapsFile ==
    ASSUME Control, Bitmaps, NEW w \in Workers, update_bitmap(w)
    PROVE  Bitmaps'
<1>0. PICK k : k = row[w]
  OBVIOUS
<1>1. /\ pc[w] = "update_bitmap" /\ k \in Keys /\ phase = "write" /\ todo[w] = {}
      /\ UNCHANGED <<phase, txs, bitmaps_, todo, row>>
      /\ pc \in [Workers -> Labels] /\ pc' = [pc EXCEPT ![w] = "finalize_unlock"]
      /\ core_bitmap_' = [core_bitmap_ EXCEPT ![k] = @ \cup {w}]
      /\ tx_bitmaps_' = [tx_bitmaps_ EXCEPT ![k] =
                            InsertAt(@, Rank(core_bitmap_[k], w) + 1, bitmaps_[w][k])]
  BY <1>0 DEF update_bitmap, Goto, batchVars, opVars, localVars, Control, ControlTypeOK, PhaseLabels,
     OwnOperations, Filing, Referencing, Reading, Writing, InsertPos, count_prefix_sum, Rank
<1>2. /\ core_bitmap_ \in [Keys -> SUBSET Workers]
      /\ tx_bitmaps_ \in [Keys -> Seq(SUBSET Workers)]
      /\ bitmaps_ \in [Workers -> [Keys -> SUBSET Workers]]
  BY DEF Bitmaps, BitmapsTypeOK
<1>3. w \notin core_bitmap_[k] /\ bitmaps_[w][k] = OfCore(k, w) /\ w \in Cores(k)
  <2>1. OpenBitmap(w, k)
    BY <1>1 DEF Bitmaps, OpenBitmaps
  <2>2. NotNoted(w, k) = {}
    BY <1>1 DEF NotNoted
  <2> QED
    BY <1>0, <1>1, <2>1, <2>2, WritersOnCores DEF OpenBitmap
<1>c. PICK C : C = core_bitmap_[k]
  OBVIOUS
<1>q. PICK q : q = tx_bitmaps_[k]
  OBVIOUS
<1>b. PICK b : b = bitmaps_[w][k]
  OBVIOUS
<1>i. PICK q2 : q2 = InsertAt(q, Rank(C, w) + 1, b)
  OBVIOUS
<1> USE <1>c, <1>q, <1>b
<1>4. /\ C \in SUBSET Workers /\ w \notin C
      /\ q \in Seq(SUBSET Workers) /\ b \in SUBSET Workers /\ Len(q) = Cardinality(C)
  BY <1>1, <1>2, <1>3 DEF Bitmaps, FiledBitmaps, FiledBitmap
<1>5. /\ core_bitmap_'[k] = C \cup {w} /\ tx_bitmaps_'[k] = q2
      /\ \A j \in Keys : j # k => core_bitmap_'[j] = core_bitmap_[j]
                                  /\ tx_bitmaps_'[j] = tx_bitmaps_[j]
  BY <1>1, <1>2, <1>i
<1>6. /\ q2 \in Seq(SUBSET Workers) /\ Len(q2) = Cardinality(C \cup {w})
      /\ q2[Rank(C \cup {w}, w) + 1] = b
      /\ \A c \in C : q2[Rank(C \cup {w}, c) + 1] = q[Rank(C, c) + 1]
  <2> HIDE <1>c, <1>q, <1>b
  <2>1. PICK S : S = SUBSET Workers
    OBVIOUS
  <2>2. q \in Seq(S) /\ b \in S
    BY <1>4, <2>1
  <2>3. /\ q2 \in Seq(S) /\ Len(q2) = Cardinality(C \cup {w})
        /\ q2[Rank(C \cup {w}, w) + 1] = b
        /\ KeepBitmaps(q2, C \cup {w}, q, C)
    BY <1>4, <1>i, <2>2, BitmapFiled
  <2> QED
    BY <2>1, <2>3 DEF KeepBitmaps
<1>7. BitmapsTypeOK'
  <2>1. core_bitmap_' \in [Keys -> SUBSET Workers]
    BY <1>1, <1>2
  <2>2. \A j \in Keys : tx_bitmaps_'[j] \in Seq(SUBSET Workers)
    BY <1>2, <1>5, <1>6
  <2>3. tx_bitmaps_' \in [Keys -> Seq(SUBSET Workers)]
    BY <1>1, <1>2, <2>2
  <2> QED
    BY <1>1, <1>2, <2>1, <2>3 DEF BitmapsTypeOK
<1>8. FiledBitmaps'
  <2>1. ASSUME NEW j \in Keys, j # k PROVE FiledBitmap(j)'
    <3>1. FiledBitmap(j)
      BY DEF Bitmaps, FiledBitmaps
    <3> QED
      BY <1>1, <1>5, <2>1, <3>1, SameBatch DEF FiledBitmap
  <2>2. FiledBitmap(k)'
    <3>1. /\ C \subseteq Cores(k)
          /\ \A c \in C : q[Rank(C, c) + 1] = OfCore(k, c)
      BY <1>1 DEF Bitmaps, FiledBitmaps, FiledBitmap
    <3>2. b = OfCore(k, w)
      BY <1>3
    <3>3. /\ core_bitmap_'[k] \subseteq Cores(k)
          /\ Len(tx_bitmaps_'[k]) = Cardinality(core_bitmap_'[k])
          /\ \A c \in core_bitmap_'[k] :
                tx_bitmaps_'[k][Rank(core_bitmap_'[k], c) + 1] = OfCore(k, c)
      BY <1>3, <1>5, <1>6, <3>1, <3>2
    <3> QED
      BY <1>1, <3>3, SameBatch DEF FiledBitmap
  <2> QED
    BY <2>1, <2>2 DEF FiledBitmaps
<1>9. OpenBitmaps'
  <2>1. ASSUME NEW v \in Workers, NEW j \in Keys, v # w PROVE OpenBitmap(v, j)'
    <3>1. v \in core_bitmap_'[j] <=> v \in core_bitmap_[j]
      BY <1>5, <2>1
    <3>2. pc'[v] = pc[v]
      BY <1>1, <2>1
    <3> QED
      BY <1>1, <3>1, <3>2, OpenBitmapKept
  <2>2. ASSUME NEW j \in Keys PROVE OpenBitmap(w, j)'
    <3>1. OpenBitmap(w, j)
      BY <1>1 DEF Bitmaps, OpenBitmaps
    <3>2. /\ OfCore(j, w)' = OfCore(j, w) /\ NotNoted(w, j)' = NotNoted(w, j)
      BY <1>1 DEF NotNoted, RowOf, OfCore
    <3>3. pc'[w] = "finalize_unlock" /\ row'[w] = k
      BY <1>0, <1>1
    <3>4. w \in core_bitmap_'[k] /\ (j # k => core_bitmap_'[j] = core_bitmap_[j])
      BY <1>5
    <3> QED
      BY <1>1, <3>1, <3>2, <3>3, <3>4 DEF OpenBitmap, Filing
  <2> QED
    BY <2>1, <2>2 DEF OpenBitmaps
<1>10. KeptBitmaps'
  BY <1>1 DEF KeptBitmaps
<1> QED
  BY <1>7, <1>8, <1>9, <1>10 DEF Bitmaps

\* It drops its own copy when it unlocks the row.
LEMMA BitmapsDrop ==
    ASSUME Control, Bitmaps, NEW w \in Workers, finalize_unlock(w)
    PROVE  Bitmaps'
<1> DEFINE k == row[w]
<1>1. /\ pc[w] = "finalize_unlock" /\ k \in Keys /\ phase = "write"
      /\ UNCHANGED <<phase, txs, todo, row, core_bitmap_, tx_bitmaps_>>
      /\ pc \in [Workers -> Labels] /\ pc' = [pc EXCEPT ![w] = "finalize"]
      /\ bitmaps_ \in [Workers -> [Keys -> SUBSET Workers]]
      /\ bitmaps_' = [bitmaps_ EXCEPT ![w][k] = {}]
  BY DEF finalize_unlock, Goto, batchVars, opVars, bitmapVars, Control, ControlTypeOK, PhaseLabels,
     Filing, Referencing, Reading, Writing, Bitmaps, BitmapsTypeOK
<1>2. BitmapsTypeOK' /\ FiledBitmaps' /\ KeptBitmaps'
  BY <1>1, SameBatch DEF Bitmaps, BitmapsTypeOK, FiledBitmaps, FiledBitmap,
     KeptBitmaps
<1>3. OpenBitmaps'
  <2>1. ASSUME NEW v \in Workers, NEW j \in Keys, v # w PROVE OpenBitmap(v, j)'
    BY <1>1, <2>1, OpenBitmapKept
  <2>2. ASSUME NEW j \in Keys PROVE OpenBitmap(w, j)'
    <3>1. OpenBitmap(w, j)
      BY <1>1 DEF Bitmaps, OpenBitmaps
    <3>2. /\ OfCore(j, w)' = OfCore(j, w) /\ NotNoted(w, j)' = NotNoted(w, j)
      BY <1>1 DEF NotNoted, RowOf, OfCore
    <3>3. pc'[w] = "finalize" /\ bitmaps_'[w][j] = IF j = k THEN {} ELSE bitmaps_[w][j]
      BY <1>1
    <3> QED
      BY <1>1, <3>1, <3>2, <3>3 DEF OpenBitmap, Filing
  <2> QED
    BY <2>1, <2>2 DEF OpenBitmaps
<1> QED
  BY <1>2, <1>3 DEF Bitmaps

\* Workers are numbers.
LEMMA WorkersAreNatural == \A c \in Workers : c \in Nat
  BY NAssumption DEF Workers

\* A nonempty set of workers has a last one, whose rank is the last.
LEMMA LastCore ==
    ASSUME NEW C \in SUBSET Workers, C # {}
    PROVE  /\ Max(C) \in C /\ \A c \in C : c <= Max(C)
           /\ Cardinality(C) = Rank(C, Max(C)) + 1
<1>1. C \subseteq Nat /\ C \subseteq Serials
  <2>1. N \in Nat /\ T \in Nat /\ N <= N * T
    BY NAssumption, SMT
  <2> QED
    BY <2>1 DEF Workers, Serials
<1>2. Max(C) \in C /\ \A c \in C : c <= Max(C)
  BY <1>1, MaxIsLast
<1>3. {d \in C : d < Max(C)} = C \ {Max(C)}
  <2>1. PICK m \in C : m = Max(C)
    BY <1>2
  <2>2. \A d \in C : d < m <=> d # m
    BY <1>1, <1>2, <2>1
  <2> QED
    BY <2>1, <2>2
<1>4. IsFiniteSet(C)
  BY RankIsNumber
<1>5. Cardinality(C \ {Max(C)}) = Cardinality(C) - 1 /\ Cardinality(C) \in Nat
  BY <1>2, <1>4, FS_RemoveElement, FS_CardinalityType
<1> QED
  BY <1>2, <1>3, <1>5 DEF Rank

\* The bitmap of the last core names the last writer.
LEMMA LastWriter ==
    ASSUME Control, NEW k \in Keys, Writers(txs, k) # {}
    PROVE  /\ Max(Writers(txs, k)) \in Writers(txs, k)
           /\ \A u \in Writers(txs, k) : u <= Max(Writers(txs, k))
           /\ Cores(k) # {} /\ CoreOf(Max(Writers(txs, k))) = Max(Cores(k))
           /\ TxOf(Max(Writers(txs, k))) = Max(OfCore(k, Max(Cores(k))))
<1> DEFINE W == Writers(txs, k)
           m == Max(W)
           C == Cores(k)
           c == Max(C)
           O == OfCore(k, c)
<1>1. W \subseteq Serials /\ C \subseteq Workers /\ O \subseteq Workers
  BY WritersOnCores
<1>2. m \in W /\ \A u \in W : u <= m
  BY <1>1, MaxIsLast
<1>3. C # {} /\ CoreOf(m) \in C
  BY <1>2 DEF Cores
<1>4. c \in C /\ \A d \in C : d <= c
  BY <1>1, <1>3, LastCore
<1>5. O # {}
  BY <1>4, WritersOnCores
<1>6. Max(O) \in O /\ \A x \in O : x <= Max(O)
  BY <1>1, <1>5, LastCore
<1>7. PICK u \in W : CoreOf(u) = c /\ TxOf(u) = Max(O)
  <2>1. O = {TxOf(s) : s \in {u \in W : CoreOf(u) = c}}
    BY DEF OfCore
  <2> HIDE DEF O, W, c
  <2> QED
    BY <1>6, <2>1
<1> HIDE DEF W, m, C, c, O
<1>8. m \in Serials /\ u \in Serials /\ m \in Nat /\ u \in Nat /\ u <= m
  BY <1>1, <1>2, <1>7, SerialsAreNatural
<1>9. ~(m < u)
  BY <1>8
<1>10. CoreOf(m) <= c /\ CoreOf(m) \in Nat /\ c \in Nat
  <2>1. CoreOf(m) \in Workers /\ c \in Workers
    BY <1>1, <1>3, <1>4
  <2> QED
    BY <1>3, <1>4, <2>1, WorkersAreNatural
<1>11. CoreOf(m) = c
  BY <1>7, <1>8, <1>9, <1>10, SerialOrder
<1>12. TxOf(m) \in O
  BY <1>2, <1>11 DEF O, OfCore, W
<1>13. TxOf(m) \in Nat /\ Max(O) \in Nat /\ TxOf(m) <= Max(O)
  <2>1. TxOf(m) \in Workers /\ Max(O) \in Workers
    BY <1>1, <1>6, <1>12
  <2> QED
    BY <1>6, <1>12, <2>1, WorkersAreNatural
<1>14. TxOf(m) = Max(O)
  BY <1>7, <1>8, <1>9, <1>11, <1>13, SerialOrder
<1> QED
  BY <1>2, <1>3, <1>11, <1>14 DEF W, m, C, c, O

\* is_final_state recognises the last writer.
LEMMA FinalState ==
    ASSUME Control, Bitmaps, NEW k \in Keys, core_bitmap_[k] = Cores(k),
           NEW s \in Writers(txs, k)
    PROVE  is_final_state(k, s) <=> s = Max(Writers(txs, k))
<1>1. PICK m : m = Max(Writers(txs, k))
  OBVIOUS
<1>2. /\ m \in Writers(txs, k) /\ Cores(k) # {} /\ CoreOf(m) = Max(Cores(k))
      /\ TxOf(m) = Max(OfCore(k, Max(Cores(k))))
  BY <1>1, LastWriter
<1>3. Writers(txs, k) \subseteq Serials /\ Cores(k) \subseteq Workers
  BY WritersOnCores
<1>4. /\ Max(Cores(k)) \in Cores(k)
      /\ Len(tx_bitmaps_[k]) = Rank(Cores(k), Max(Cores(k))) + 1
  BY <1>2, <1>3, LastCore DEF Bitmaps, FiledBitmaps, FiledBitmap
<1>5. Last(tx_bitmaps_[k]) = OfCore(k, Max(Cores(k)))
  BY <1>4 DEF Bitmaps, FiledBitmaps, FiledBitmap, Last
<1>6. is_final_state(k, s) <=> CoreOf(m) = CoreOf(s) /\ TxOf(m) = TxOf(s)
  BY <1>2, <1>5 DEF is_final_state
<1>7. s = m <=> CoreOf(m) = CoreOf(s) /\ TxOf(m) = TxOf(s)
  BY <1>2, <1>3, SerialOrder
<1> QED
  BY <1>1, <1>6, <1>7

\* The bitmaps stay complete as long as nobody touches them.
LEMMA BitmapsStay ==
    ASSUME Bitmaps, phase # "write",
           UNCHANGED <<phase, txs, bitmaps_, core_bitmap_, tx_bitmaps_>>,
           phase = "exec" => \A k \in Keys : \A u \in Updates(txs) :
               RowOf(u) = k /\ u[1] = Max(Writers(txs, k)) =>
                   (u \in Ahead(BeforeWrite)' <=> u \in Ahead(BeforeWrite))
    PROVE  Bitmaps'
<1>1. phase = "exec" => \A k \in Keys : FinalPending(k)' <=> FinalPending(k)
  BY DEF FinalPending, RowOf
<1>2. KeptBitmaps'
  BY <1>1, SameBatch DEF Bitmaps, KeptBitmaps
<1> QED
  BY <1>2, SameBatch DEF Bitmaps, BitmapsTypeOK, FiledBitmaps, FiledBitmap, OpenBitmaps

\* The final writer clears the bitmaps of the row, and only it.
LEMMA BitmapsCleared ==
    ASSUME Control, Bitmaps, NEW w \in Workers, final_writer(w) \/ other_writer(w)
    PROVE  /\ Bitmaps'
           /\ Serial(w) \in Writers(txs, row[w])
           /\ final_writer(w) <=> Serial(w) = Max(Writers(txs, row[w]))
           /\ final_writer(w) => FinalPending(row[w])
<1>0. PICK k : k = row[w]
  OBVIOUS
<1>1. /\ pc[w] = "identify_write" /\ k \in Keys /\ phase = "exec" /\ txs \in Workloads
      /\ op[w] \in Updates(txs) /\ RowOf(op[w]) = k
      /\ UNCHANGED <<phase, txs, bitmaps_, todo, op>> /\ Goto(w, "write_unlock")
      /\ core_bitmap_ \in [Keys -> SUBSET Workers]
      /\ tx_bitmaps_ \in [Keys -> Seq(SUBSET Workers)]
  BY <1>0 DEF final_writer, other_writer, batchVars, opVars, Control, ControlTypeOK, PhaseLabels,
     OwnOperations, Filing, Referencing, Reading, Writing, RowOf, Bitmaps, BitmapsTypeOK
<1>2. Serial(w) \in Writers(txs, k)
  BY <1>1, WritersAreUpdates DEF Serial, RowOf
<1>3. /\ op[w] \in Ahead(BeforeWrite) /\ Ahead(BeforeWrite)' = Ahead(BeforeWrite) \ {op[w]}
  <2>1. BeforeWrite \subseteq InHand /\ pc[w] \in BeforeWrite /\ "write_unlock" \notin BeforeWrite
    BY <1>1 DEF BeforeWrite, InHand, Writing
  <2> QED
    BY <1>1, <2>1, AheadLeaves
<1>4. is_final_state(k, Serial(w)) <=> Serial(w) = Max(Writers(txs, k))
  <2>1. CASE FinalPending(k)
    <3>1. core_bitmap_[k] = Cores(k)
      BY <1>1, <2>1 DEF Bitmaps, KeptBitmaps
    <3> QED
      BY <1>1, <1>2, <3>1, FinalState
  <2>2. CASE ~FinalPending(k)
    <3>1. core_bitmap_[k] = {}
      BY <1>1, <2>2 DEF Bitmaps, KeptBitmaps
    <3>2. Serial(w) # Max(Writers(txs, k))
      BY <1>1, <1>3, <2>2 DEF FinalPending, Serial
    <3> QED
      BY <3>1, <3>2 DEF is_final_state
  <2> QED
    BY <2>1, <2>2
<1>5. final_writer(w) <=> Serial(w) = Max(Writers(txs, k))
  BY <1>0, <1>4 DEF final_writer, other_writer
<1>6. final_writer(w) => FinalPending(k)
  BY <1>1, <1>3, <1>5 DEF FinalPending, Serial
<1>7. ASSUME NEW j \in Keys, NEW u \in Updates(txs), RowOf(u) = j,
             u[1] = Max(Writers(txs, j)), j # k \/ ~final_writer(w)
      PROVE  u \in Ahead(BeforeWrite)' <=> u \in Ahead(BeforeWrite)
  <2>1. u # op[w]
    BY <1>1, <1>5, <1>7 DEF Serial
  <2> QED
    BY <1>3, <2>1
<1>8. CASE other_writer(w)
  <2>1. ~final_writer(w) /\ UNCHANGED <<core_bitmap_, tx_bitmaps_>>
    BY <1>8 DEF other_writer, final_writer, bitmapVars
  <2>2. Bitmaps'
    BY <1>1, <1>7, <2>1, BitmapsStay
  <2> QED
    BY <1>0, <1>2, <1>5, <1>6, <2>2
<1>9. CASE final_writer(w)
  <2>1. /\ core_bitmap_' = [core_bitmap_ EXCEPT ![k] = {}]
        /\ tx_bitmaps_' = [tx_bitmaps_ EXCEPT ![k] = <<>>]
    BY <1>0, <1>9 DEF final_writer
  <2>2. /\ core_bitmap_'[k] = {} /\ tx_bitmaps_'[k] = <<>>
        /\ \A j \in Keys : j # k => core_bitmap_'[j] = core_bitmap_[j]
                                    /\ tx_bitmaps_'[j] = tx_bitmaps_[j]
    BY <1>1, <2>1
  <2>3. BitmapsTypeOK'
    <3>1. <<>> \in Seq(SUBSET Workers)
      OBVIOUS
    <3> QED
      BY <1>1, <2>1, <3>1 DEF Bitmaps, BitmapsTypeOK
  <2>4. FiledBitmaps'
    <3>1. Cardinality({}) = 0 /\ Len(<<>>) = 0
      BY FS_EmptySet
    <3>2. FiledBitmap(k)'
      BY <2>2, <3>1 DEF FiledBitmap
    <3>3. ASSUME NEW j \in Keys, j # k PROVE FiledBitmap(j)'
      <4>1. FiledBitmap(j)
        BY DEF Bitmaps, FiledBitmaps
      <4> QED
        BY <1>1, <2>2, <3>3, <4>1, SameBatch DEF FiledBitmap
    <3> QED
      BY <3>2, <3>3 DEF FiledBitmaps
  <2>5. ~FinalPending(k)'
    <3>1. ASSUME NEW u \in Updates(txs), RowOf(u) = k, u[1] = Max(Writers(txs, k))
          PROVE  u \notin Ahead(BeforeWrite)'
      <4>1. u \in Ops(txs) /\ op[w] \in Ops(txs)
        BY <1>1 DEF Updates
      <4>2. u = op[w]
        BY <1>1, <1>5, <1>9, <3>1, <4>1, OneOperationPerRow DEF RowOf, Serial
      <4> QED
        BY <1>3, <4>2
    <3> QED
      BY <1>1, <3>1 DEF FinalPending, RowOf
  <2>6. \A j \in Keys : j # k => (FinalPending(j)' <=> FinalPending(j))
    BY <1>1, <1>7 DEF FinalPending, RowOf
  <2>7. KeptBitmaps'
    BY <1>1, <2>2, <2>5, <2>6, SameBatch DEF Bitmaps, KeptBitmaps
  <2>8. OpenBitmaps'
    BY <1>1 DEF OpenBitmaps
  <2> QED
    BY <1>0, <1>2, <1>5, <1>6, <2>3, <2>4, <2>7, <2>8 DEF Bitmaps
<1> QED
  BY <1>8, <1>9

\* The loops of a phase between them go over all its operations.
LEMMA AheadAtStart ==
    ASSUME Control, NEW L, L \subseteq InHand
    PROVE  /\ StartReadPhase => Ahead(L)' = Reads(txs)
           /\ StartExecution => Ahead(L)' = Ops(txs)
<1>1. "begin" \notin L
  BY DEF InHand, Referencing, Reading, Writing
<1>2. \A o \in Ops(txs) : CoreOf(o[1]) \in Workers /\ TxOf(o[1]) \in Workers
  BY OperationsOfBatch, CoreAndTx DEF Control, ControlTypeOK
<1>3. ASSUME StartReadPhase PROVE Ahead(L)' = Reads(txs)
  <2>1. /\ todo' = [w \in Workers |-> Block(w, Reads(txs))]
        /\ pc' = [w \in Workers |-> "begin"]
    BY <1>3 DEF StartReadPhase, LocalsReset
  <2>2. Ahead(L)' = UNION {Block(w, Reads(txs)) : w \in Workers}
    BY <1>1, <2>1 DEF Ahead
  <2> QED
    BY <1>2, <2>2 DEF Block, CoreOf, Reads
<1>4. ASSUME StartExecution PROVE Ahead(L)' = Ops(txs)
  <2>1. /\ todo' = [w \in Workers |-> RoundRobin(w, Ops(txs))]
        /\ pc' = [w \in Workers |-> "begin"]
    BY <1>4 DEF StartExecution, LocalsReset
  <2>2. Ahead(L)' = UNION {RoundRobin(w, Ops(txs)) : w \in Workers}
    BY <1>1, <2>1 DEF Ahead
  <2> QED
    BY <1>2, <2>2 DEF RoundRobin, TxOf
<1> QED
  BY <1>3, <1>4

\* At the barrier after the write phase every core is filed; at the end of the
\* epoch the bitmaps are clear.
LEMMA BitmapsBarrier ==
    ASSUME Control, Bitmaps, StartReadPhase \/ StartExecution \/ NewEpoch
    PROVE  Bitmaps'
<1>1. /\ UNCHANGED <<bitmaps_, core_bitmap_, tx_bitmaps_>> /\ AtBarrier
  BY DEF StartReadPhase, StartExecution, NewEpoch, bitmapVars
<1>2. BitmapsTypeOK'
  BY <1>1 DEF Bitmaps, BitmapsTypeOK
<1>i. BeforeWrite \subseteq InHand
  BY DEF BeforeWrite, InHand, Writing
<1>3. CASE StartReadPhase
  <2>1. phase = "write" /\ phase' = "read" /\ UNCHANGED txs
    BY <1>3 DEF StartReadPhase
  <2>2. ASSUME NEW w \in Workers, NEW k \in Keys
        PROVE  bitmaps_[w][k] = {} /\ (w \notin core_bitmap_[k] => w \notin Cores(k))
    <3>1. OpenBitmap(w, k) /\ pc[w] = "done" /\ todo[w] = {}
      BY <1>1, <2>1 DEF Bitmaps, OpenBitmaps, AtBarrier, Control, OwnOperations
    <3>2. NotNoted(w, k) = {}
      BY <3>1 DEF NotNoted
    <3> QED
      BY <3>1, <3>2, WritersOnCores DEF OpenBitmap
  <2>3. ASSUME NEW k \in Keys PROVE core_bitmap_[k] = Cores(k)
    <3>1. Cores(k) \subseteq Workers /\ core_bitmap_[k] \subseteq Cores(k)
      BY WritersOnCores DEF Bitmaps, FiledBitmaps, FiledBitmap
    <3> QED
      BY <2>2, <3>1
  <2>4. FiledBitmaps'
    BY <1>1, <2>1, SameBatch DEF Bitmaps, FiledBitmaps, FiledBitmap
  <2>5. KeptBitmaps' /\ OpenBitmaps'
    BY <1>1, <2>1, <2>2, <2>3, SameBatch DEF KeptBitmaps, OpenBitmaps
  <2> QED
    BY <1>2, <2>4, <2>5 DEF Bitmaps
<1>4. CASE StartExecution
  <2>1. phase = "read" /\ phase' = "exec" /\ UNCHANGED txs
    BY <1>4 DEF StartExecution
  <2>2. Ahead(BeforeWrite)' = Ops(txs)
    BY <1>4, <1>i, AheadAtStart
  <2>3. ASSUME NEW k \in Keys, Cores(k) # {} PROVE FinalPending(k)'
    <3>1. Writers(txs, k) # {}
      BY <2>3 DEF Cores
    <3>2. Max(Writers(txs, k)) \in Writers(txs, k)
      BY <3>1, LastWriter
    <3>3. PICK u \in Updates(txs) : u[1] = Max(Writers(txs, k)) /\ RowOf(u) = k
      BY <3>2, WritersAreUpdates DEF Control, ControlTypeOK, RowOf
    <3>4. u \in Ops(txs)
      BY DEF Updates
    <3> QED
      BY <2>1, <2>2, <3>3, <3>4 DEF FinalPending, RowOf
  <2>4. FiledBitmaps'
    BY <1>1, <2>1, SameBatch DEF Bitmaps, FiledBitmaps, FiledBitmap
  <2>5. KeptBitmaps' /\ OpenBitmaps'
    BY <1>1, <2>1, <2>3, SameBatch DEF Bitmaps, KeptBitmaps, OpenBitmaps
  <2> QED
    BY <1>2, <2>4, <2>5 DEF Bitmaps
<1>5. CASE NewEpoch
  <2>1. phase = "exec" /\ phase' \in {"write", "end"}
    BY <1>5 DEF NewEpoch
  <2>2. Ahead(BeforeWrite) = {}
    BY <1>1, <1>i, AheadAtBarrier
  <2>3. ASSUME NEW k \in Keys
        PROVE  core_bitmap_[k] = {} /\ tx_bitmaps_[k] = <<>>
               /\ \A w \in Workers : bitmaps_[w][k] = {}
    <3>1. core_bitmap_[k] = {} /\ \A w \in Workers : bitmaps_[w][k] = {}
      BY <2>1, <2>2 DEF Bitmaps, KeptBitmaps, FinalPending
    <3>2. Len(tx_bitmaps_[k]) = 0 /\ tx_bitmaps_[k] \in Seq(SUBSET Workers)
      BY <3>1, FS_EmptySet DEF Bitmaps, BitmapsTypeOK, FiledBitmaps, FiledBitmap
    <3> QED
      BY <3>1, <3>2
  <2>4. FiledBitmaps'
    <3>1. Cardinality({}) = 0 /\ Len(<<>>) = 0
      BY FS_EmptySet
    <3> QED
      BY <1>1, <2>3, <3>1 DEF FiledBitmaps, FiledBitmap
  <2>5. KeptBitmaps'
    BY <1>1, <2>1, <2>3 DEF KeptBitmaps
  <2>6. OpenBitmaps'
    <3>1. CASE phase' = "write"
      <4>1. /\ pc' = [w \in Workers |-> "begin"] /\ txs' \in Workloads
            /\ todo' = [w \in Workers |-> Block(w, Updates(txs'))]
        BY <1>5, <3>1 DEF NewEpoch, LocalsReset
      <4>2. ASSUME NEW w \in Workers, NEW k \in Keys PROVE NotNoted(w, k)' = OfCore(k, w)'
        BY <4>1, BlocksOfUpdates DEF NotNoted, OfCore, RowOf
      <4>3. ASSUME NEW w \in Workers, NEW k \in Keys PROVE OpenBitmap(w, k)'
        BY <1>1, <2>3, <4>1, <4>2 DEF OpenBitmap
      <4> QED
        BY <4>3 DEF OpenBitmaps
    <3> QED
      BY <2>1, <3>1 DEF OpenBitmaps
  <2> QED
    BY <1>2, <2>4, <2>5, <2>6 DEF Bitmaps
<1> QED
  BY <1>3, <1>4, <1>5

\* ... and every step keeps it.
LEMMA BitmapsNext == Control /\ Bitmaps /\ [Next]_vars => Bitmaps'
<1> SUFFICES ASSUME Control, Bitmaps, [Next]_vars PROVE Bitmaps'
  OBVIOUS
<1>1. CASE UNCHANGED vars
  <2>1. Ahead(BeforeWrite)' = Ahead(BeforeWrite)
    BY <1>1 DEF vars, opVars, Ahead
  <2>2. CASE phase = "write"
    <3>1. ASSUME NEW w \in Workers, NEW k \in Keys PROVE OpenBitmap(w, k)'
      BY <1>1, <2>2, OpenBitmapKept DEF vars, batchVars, opVars, localVars, bitmapVars
    <3> QED
      BY <1>1, <2>2, <3>1, SameBatch DEF vars, batchVars, localVars, bitmapVars, Bitmaps,
         BitmapsTypeOK, FiledBitmaps, FiledBitmap, OpenBitmaps, KeptBitmaps
  <2>3. CASE phase # "write"
    BY <1>1, <2>1, <2>3, BitmapsStay DEF vars, batchVars, localVars, bitmapVars
  <2> QED
    BY <2>2, <2>3
<1>2. CASE StartReadPhase \/ StartExecution \/ NewEpoch
  BY <1>2, BitmapsBarrier
<1>3. ASSUME NEW w \in Workers, Step(w) PROVE Bitmaps'
  <2>0. /\ BeforeWrite \subseteq InHand
        /\ pc[w] \in Filing <=> pc[w] \in {"finalize", "update_bitmap", "finalize_unlock"}
        /\ pc[w] \in Filing => phase = "write"
        /\ phase = "write" => pc[w] \in Filing \cup {"begin", "done"}
    BY DEF BeforeWrite, InHand, Writing, Filing, Referencing, Reading, Control, ControlTypeOK,
       PhaseLabels
  <2>1. CASE update_bitmap(w)
    BY <2>1, BitmapsFile
  <2>2. CASE finalize_unlock(w)
    BY <2>2, BitmapsDrop
  <2>3. CASE finalize_try_lock(w) \/ finalize_end(w) \/ (EndLoop(w) /\ phase = "write")
    BY <2>0, <2>3, BitmapsMove DEF finalize_try_lock, finalize_end
  <2>4. CASE Begin(w) /\ phase = "write"
    BY <2>4, BitmapsBegin
  <2>5. CASE final_writer(w) \/ other_writer(w)
    BY <2>5, BitmapsCleared
  <2>6. CASE Begin(w) /\ phase # "write"
    <3>1. PICK o \in todo[w] :
             /\ op' = [op EXCEPT ![w] = o] /\ todo' = [todo EXCEPT ![w] = @ \ {o}]
             /\ UNCHANGED bitmaps_ /\ o \in Ops(txs)
             /\ \/ phase = "read" /\ Goto(w, "add_ref")
                \/ phase = "exec" /\ o \in Reads(txs) /\ Goto(w, "wait_stable")
                \/ phase = "exec" /\ o \in Updates(txs) /\ Goto(w, "write_lock")
      BY <2>6, BeginTakes
    <3>2. PICK l : /\ Goto(w, l)
                   /\ l = "write_lock" \/ phase = "read" \/ o \in Reads(txs)
      BY <3>1
    <3>3. pc[w] \notin BeforeWrite /\ UNCHANGED <<phase, txs, core_bitmap_, tx_bitmaps_>>
      BY <2>6 DEF Begin, BeforeWrite, batchVars, bitmapVars
    <3>4. /\ l \in BeforeWrite => Ahead(BeforeWrite)' = Ahead(BeforeWrite)
          /\ l \notin BeforeWrite => Ahead(BeforeWrite)' = Ahead(BeforeWrite) \ {o}
      <4>1. Begins(w, o, l)
        BY <3>1, <3>2 DEF Goto, Begins
      <4> QED
        BY <2>0, <3>3, <4>1, AheadBegins
    <3>5. phase = "exec" => \A u \in Updates(txs) :
              u \in Ahead(BeforeWrite)' <=> u \in Ahead(BeforeWrite)
      <4>1. o \notin Reads(txs) \/ o \notin Updates(txs)
        BY <3>1, OperationsOfBatch DEF Control, ControlTypeOK
      <4> QED
        BY <3>2, <3>4, <4>1 DEF BeforeWrite
    <3> QED
      BY <2>6, <3>1, <3>3, <3>5, BitmapsStay
  <2>7. CASE \/ EndLoop(w) /\ phase # "write"
             \/ unlock(w) \/ add_ref(w) \/ add_first_ref(w) \/ read_master(w) \/ identify(w)
             \/ placeholder_lock(w) \/ placeholder(w) \/ wait_stable_and_execute_read(w)
             \/ decrement_ref_cnt(w) \/ gc_lock(w) \/ final_reader(w) \/ write_lock(w)
             \/ write_unlock(w) \/ write_rec(w) \/ write_status(w)
    <3> USE DEF EndLoop, unlock, add_ref, add_first_ref, read_master, identify, placeholder_lock,
                placeholder, wait_stable_and_execute_read, decrement_ref_cnt, gc_lock,
                final_reader, write_lock, write_unlock, write_rec, write_status, Lock, SetStatus
    <3>1. PICK l : Goto(w, l) /\ (l \in BeforeWrite <=> pc[w] \in BeforeWrite)
      BY <2>7 DEF BeforeWrite
    <3>2. UNCHANGED <<phase, txs, bitmaps_, core_bitmap_, tx_bitmaps_, todo, op>>
      BY <2>7 DEF batchVars, opVars, localVars, bitmapVars
    <3>3. phase # "write"
      BY <2>0, <2>7 DEF Filing
    <3> HIDE DEF EndLoop, unlock, add_ref, add_first_ref, read_master, identify, placeholder_lock,
                placeholder, wait_stable_and_execute_read, decrement_ref_cnt, gc_lock,
                final_reader, write_lock, write_unlock, write_rec, write_status, Lock, SetStatus
    <3>4. Ahead(BeforeWrite)' = Ahead(BeforeWrite)
      BY <3>1, <3>2, AheadStays
    <3> QED
      BY <3>2, <3>3, <3>4, BitmapsStay
  <2> QED
    BY <1>3, <2>1, <2>2, <2>3, <2>4, <2>5, <2>6, <2>7 DEF Step
<1> QED
  BY <1>1, <1>2, <1>3 DEF Next

\* After the write phase the bitmaps of a row name exactly the transactions of
\* the epoch that write it, in whichever order the workers of the write phase
\* got the lock of the row.
THEOREM WritersFound == Spec => []BitmapsDescribeWriters
<1>1. Control /\ Bitmaps => BitmapsDescribeWriters
  <2> SUFFICES ASSUME Control, Bitmaps, phase = "read", NEW k \in Keys
               PROVE  /\ core_bitmap_[k] = Cores(k)
                      /\ Len(tx_bitmaps_[k]) = Cardinality(core_bitmap_[k])
                      /\ \A c \in core_bitmap_[k] : TxBitmap(k, c) = OfCore(k, c)
    BY DEF BitmapsDescribeWriters, Cores, OfCore
  <2> QED
    BY DEF Bitmaps, FiledBitmaps, FiledBitmap, KeptBitmaps, TxBitmap, count_prefix_sum, Rank
<1> QED
  BY <1>1, InitControl, ControlNext, InitBitmaps, BitmapsNext, PTL DEF Spec

\* A reader finds in complete bitmaps the writer that it depends on.
LEMMA VisibleIsSerial ==
    ASSUME Control, Bitmaps, NEW k \in Keys, core_bitmap_[k] = Cores(k), NEW s \in Serials
    PROVE  LET before == {u \in Writers(txs, k) : u < s}
           IN  identify_visible_version(k, s) = IF before = {} THEN {} ELSE {Max(before)}
<1> DEFINE before == {u \in Writers(txs, k) : u < s}
           core  == CoreOf(s)
           upto  == {c \in Cores(k) : c <= core}
           below == upto \ {core}
           own   == IF core \in upto THEN {t \in OfCore(k, core) : t < TxOf(s)} ELSE {}
<1>1. /\ Writers(txs, k) \subseteq Serials /\ Cores(k) \subseteq Workers
      /\ \A c : OfCore(k, c) \subseteq Workers
      /\ \A c : c \in Cores(k) <=> OfCore(k, c) # {}
  BY WritersOnCores
<1>2. \A c \in Cores(k) : TxBitmap(k, c) = OfCore(k, c)
  BY DEF Bitmaps, FiledBitmaps, FiledBitmap, TxBitmap, count_prefix_sum, Rank
<1>3. core \in Workers /\ TxOf(s) \in Workers
  BY CoreAndTx
<1>4. identify_visible_version(k, s) =
         IF own # {} THEN {core * N + Max(own)}
         ELSE IF below # {} THEN {Max(below) * N + Max(OfCore(k, Max(below)))}
         ELSE {}
  <2> DEFINE own2 == IF core \in upto THEN {t \in TxBitmap(k, core) : t < TxOf(s)} ELSE {}
  <2>1. identify_visible_version(k, s) =
           IF own2 # {} THEN {core * N + Max(own2)}
           ELSE IF below # {} THEN {Max(below) * N + Max(TxBitmap(k, Max(below)))}
           ELSE {}
    BY DEF identify_visible_version, LatestOf
  <2>2. own2 = own
    BY <1>2
  <2>3. below # {} => Max(below) \in Cores(k)
    BY <1>1, LastCore
  <2> HIDE DEF own, own2, below
  <2>4. below # {} => TxBitmap(k, Max(below)) = OfCore(k, Max(below))
    BY <1>2, <2>3
  <2> QED
    BY <2>1, <2>2, <2>4
<1>5. ASSUME NEW u
      PROVE  u \in before <=> /\ u \in Writers(txs, k)
                              /\ \/ CoreOf(u) < core
                                 \/ CoreOf(u) = core /\ TxOf(u) < TxOf(s)
  BY <1>1, SerialOrder
<1>6. ASSUME NEW m \in before, \A u \in before : u <= m PROVE Max(before) = m
  <2>1. before \subseteq Serials /\ before # {}
    BY <1>1
  <2>2. Max(before) \in before /\ \A u \in before : u <= Max(before)
    BY <2>1, MaxIsLast
  <2>3. m \in Nat /\ Max(before) \in Nat
    BY <2>1, <2>2, SerialsAreNatural
  <2> HIDE DEF before
  <2> QED
    BY <1>6, <2>2, <2>3
<1>o. \A t : t \in own <=> /\ t \in Workers /\ t < TxOf(s)
                         /\ \E u \in Writers(txs, k) : CoreOf(u) = core /\ TxOf(u) = t
  <2>1. \A t : t \in OfCore(k, core) <=>
            \E u \in Writers(txs, k) : CoreOf(u) = core /\ TxOf(u) = t
    BY DEF OfCore
  <2>2. core <= core
    BY <1>3, WorkersAreNatural
  <2> QED
    BY <1>1, <2>1, <2>2
<1>b. \A c : c \in below <=> /\ c \in Workers /\ c < core
                           /\ \E u \in Writers(txs, k) : CoreOf(u) = c
  <2>1. \A c : c \in Cores(k) <=> \E u \in Writers(txs, k) : CoreOf(u) = c
    BY DEF Cores
  <2>2. \A c \in Workers : c < core <=> c <= core /\ c # core
    BY <1>3, WorkersAreNatural
  <2> QED
    BY <1>1, <2>1, <2>2
<1> HIDE DEF before, core, upto, below, own
<1>7. CASE own # {}
  <2>1. own \subseteq Workers
    BY <1>o
  <2>2. PICK t \in own : t = Max(own) /\ \A x \in own : x <= t
    BY <1>7, <2>1, LastCore
  <2>3. PICK u \in Writers(txs, k) : CoreOf(u) = core /\ TxOf(u) = t
    BY <1>o
  <2>4. u \in Serials /\ u = core * N + t
    BY <1>1, <2>3, CoreAndTx
  <2>5. u \in before
    BY <1>5, <1>o, <2>2, <2>3
  <2>6. ASSUME NEW v \in before PROVE v <= u
    <3>1. /\ v \in Writers(txs, k) /\ v \in Serials
          /\ CoreOf(v) < core \/ (CoreOf(v) = core /\ TxOf(v) < TxOf(s))
      BY <1>1, <1>5
    <3>2. TxOf(v) \in Workers /\ CoreOf(v) \in Workers
      BY <3>1, CoreAndTx
    <3>3. CoreOf(v) = core => TxOf(v) <= t
      <4> SUFFICES ASSUME CoreOf(v) = core PROVE TxOf(v) \in own
        BY <2>2
      <4>1. TxOf(v) < TxOf(s)
        BY <1>3, <3>1, WorkersAreNatural
      <4> QED
        BY <1>o, <3>1, <3>2, <4>1
    <3>4. ~(u < v)
      <4>1. core \in Nat /\ t \in Nat /\ TxOf(v) \in Nat /\ CoreOf(v) \in Nat
        BY <1>3, <2>1, <3>2, WorkersAreNatural
      <4>2. u < v <=> core < CoreOf(v) \/ (core = CoreOf(v) /\ t < TxOf(v))
        BY <2>3, <2>4, <3>1, SerialOrder
      <4> QED
        BY <3>1, <3>3, <4>1, <4>2
    <3> QED
      BY <2>4, <3>1, <3>4, SerialsAreNatural
  <2>7. Max(before) = u
    BY <1>6, <2>5, <2>6
  <2> QED
    BY <1>4, <1>7, <2>2, <2>4, <2>5, <2>7 DEF before
<1>8. CASE own = {} /\ below # {}
  <2>1. below \subseteq Workers
    BY <1>b
  <2>2. PICK c \in below : c = Max(below) /\ \A d \in below : d <= c
    BY <1>8, <2>1, LastCore
  <2>3. c \in Cores(k) /\ c < core /\ c \in Workers
    BY <1>b DEF Cores
  <2>4. OfCore(k, c) # {} /\ OfCore(k, c) \subseteq Workers
    BY <1>1, <2>3
  <2>5. PICK t \in OfCore(k, c) : t = Max(OfCore(k, c)) /\ \A x \in OfCore(k, c) : x <= t
    BY <2>4, LastCore
  <2>6. PICK u \in Writers(txs, k) : CoreOf(u) = c /\ TxOf(u) = t
    BY DEF OfCore
  <2>7. u \in Serials /\ u = c * N + t
    BY <1>1, <2>6, CoreAndTx
  <2>8. u \in before
    BY <1>5, <2>3, <2>6
  <2>9. ASSUME NEW v \in before PROVE v <= u
    <3>1. /\ v \in Writers(txs, k) /\ v \in Serials
          /\ CoreOf(v) < core \/ (CoreOf(v) = core /\ TxOf(v) < TxOf(s))
      BY <1>1, <1>5
    <3>2. TxOf(v) \in Workers /\ CoreOf(v) \in Workers
      BY <3>1, CoreAndTx
    <3>3. ~(CoreOf(v) = core /\ TxOf(v) < TxOf(s))
      BY <1>8, <1>o, <3>1, <3>2
    <3>4. CoreOf(v) \in below
      BY <1>b, <3>1, <3>2, <3>3
    <3>5. CoreOf(v) = c => TxOf(v) <= t
      BY <2>5, <3>1 DEF OfCore
    <3>6. ~(u < v)
      <4>1. c \in Nat /\ t \in Nat /\ TxOf(v) \in Nat /\ CoreOf(v) \in Nat
        BY <2>3, <2>4, <3>2, WorkersAreNatural
      <4>2. u < v <=> c < CoreOf(v) \/ (c = CoreOf(v) /\ t < TxOf(v))
        BY <2>6, <2>7, <3>1, SerialOrder
      <4>3. CoreOf(v) <= c
        BY <2>2, <3>4
      <4> QED
        BY <3>5, <4>1, <4>2, <4>3
    <3> QED
      BY <2>7, <3>1, <3>6, SerialsAreNatural
  <2>10. Max(before) = u
    BY <1>6, <2>8, <2>9
  <2> QED
    BY <1>4, <1>8, <2>2, <2>5, <2>7, <2>8, <2>10 DEF before
<1>9. CASE own = {} /\ below = {}
  <2>1. ASSUME NEW v \in before PROVE FALSE
    <3>1. /\ v \in Writers(txs, k) /\ v \in Serials
          /\ CoreOf(v) < core \/ (CoreOf(v) = core /\ TxOf(v) < TxOf(s))
      BY <1>1, <1>5
    <3>2. TxOf(v) \in Workers /\ CoreOf(v) \in Workers
      BY <3>1, CoreAndTx
    <3> QED
      BY <1>9, <1>o, <1>b, <3>1, <3>2
  <2> QED
    BY <1>4, <1>9, <2>1 DEF before
<1> QED
  BY <1>7, <1>8, <1>9
-------------------------------------------------------------------------------
(***************************************************************************)
(* The third invariant: the reference counts                               *)
(***************************************************************************)
ReadsOf(k) == {o \in Reads(txs) : RowOf(o) = k}

\* The workers that are at one of the labels L for row k
AtRow(k, L) == {w \in Workers : row[w] = k /\ pc[w] \in L}

AtMostOne(S) == \A x, y \in S : x = y

\* In the read phase: the reads that have been counted, and the worker that owes
\* the extra reference.
Counted(k) == ReadsOf(k) \ Ahead({"add_ref"})
Owing(k)   == AtRow(k, {"add_first_ref"})

\* In the execution phase: the reads that hold a reference, and the worker that
\* collects.
Holding(k)  == ReadsOf(k) \cap Ahead({"wait_stable", "decrement"})
Freeing(k)  == AtRow(k, {"gc_lock", "final_reader"})

RefsOfRow(k) ==
    /\ phase \in {"write", "end"} => ref_cnt_[k] = 0
    /\ phase = "read" =>
          /\ ref_cnt_[k] = Cardinality(Counted(k)) +
                           IF Counted(k) # {} /\ Owing(k) = {} THEN 1 ELSE 0
          /\ Owing(k) # {} => Counted(k) # {}
          /\ AtMostOne(Owing(k))
    /\ phase = "exec" =>
          /\ ref_cnt_[k] = Cardinality(Holding(k)) +
                           IF Holding(k) # {} \/ Freeing(k) # {} THEN 1 ELSE 0
          /\ Freeing(k) # {} => Holding(k) = {}
          /\ AtMostOne(Freeing(k))

References == ref_cnt_ \in [Keys -> Nat] /\ \A k \in Keys : RefsOfRow(k)

\* The reads of a row are finitely many, at most one of each transaction, and
\* so are those that are counted.
LEMMA ReadsAreFinite ==
    ASSUME Control, NEW k
    PROVE  /\ IsFiniteSet(ReadsOf(k))
           /\ IsFiniteSet(Counted(k)) /\ Cardinality(Counted(k)) \in Nat
           /\ Counted(k) = {} <=> Cardinality(Counted(k)) = 0
           /\ IsFiniteSet(Holding(k)) /\ Cardinality(Holding(k)) \in Nat
           /\ Holding(k) = {} <=> Cardinality(Holding(k)) = 0
<1>1. IsFiniteSet(ReadsOf(k))
  <2> DEFINE R == ReadsOf(k)
             S == {o[1] : o \in R}
             f == [s \in S |-> CHOOSE o \in R : o[1] = s]
  <2>1. txs \in Workloads /\ \A o \in R : o \in Ops(txs) /\ RowOf(o) = k
    BY DEF Control, ControlTypeOK, ReadsOf, Reads
  <2>2. S \in SUBSET Serials
    BY <2>1, OperationsOfBatch
  <2>3. IsFiniteSet(S)
    <3>1. IsFiniteSet(Serials)
      BY SerialsAreNatural, FS_Interval DEF Serials
    <3> QED
      BY <2>2, <3>1, FS_Subset
  <2>4. \A o, p \in R : o[1] = p[1] => o = p
    BY <2>1, OneOperationPerRow DEF RowOf
  <2> HIDE DEF R
  <2>5. \A s \in S : f[s] \in R /\ f[s][1] = s
    OBVIOUS
  <2>6. \A o \in R : o[1] \in S /\ f[o[1]] = o
    BY <2>4, <2>5
  <2>7. f \in Surjection(S, R)
    BY <2>5, <2>6 DEF Surjection
  <2> QED
    BY <2>3, <2>7, FS_Surjection DEF R
<1>2. Counted(k) \subseteq ReadsOf(k) /\ Holding(k) \subseteq ReadsOf(k)
  BY DEF Counted, Holding
<1>3. IsFiniteSet(Counted(k)) /\ IsFiniteSet(Holding(k))
  BY <1>1, <1>2, FS_Subset
<1> QED
  BY <1>1, <1>3, FS_EmptySet, FS_CardinalityType

\* Who is at a row changes only with the steps into and out of the labels.
LEMMA AtRowStep ==
    ASSUME Control, NEW w \in Workers, NEW l, Goto(w, l), NEW L, NEW k,
           \A v \in Workers : v # w => row'[v] = row[v],
           row'[w] = row[w] \/ (pc[w] \notin L /\ l \notin L)
    PROVE  /\ (pc[w] \in L <=> l \in L) \/ row[w] # k => AtRow(k, L)' = AtRow(k, L)
           /\ pc[w] \notin L /\ l \in L /\ row[w] = k => AtRow(k, L)' = AtRow(k, L) \cup {w}
           /\ pc[w] \in L /\ l \notin L => AtRow(k, L)' = AtRow(k, L) \ {w}
<1>1. pc'[w] = l /\ \A v \in Workers : v # w => pc'[v] = pc[v]
  BY DEF Control, ControlTypeOK, Goto
<1>2. ASSUME NEW v \in Workers, v # w PROVE v \in AtRow(k, L)' <=> v \in AtRow(k, L)
  BY <1>1, <1>2 DEF AtRow
<1>3. /\ w \in AtRow(k, L)' <=> row'[w] = k /\ l \in L
      /\ w \in AtRow(k, L) <=> row[w] = k /\ pc[w] \in L
  BY <1>1 DEF AtRow
<1>4. \A v : v \in AtRow(k, L)' \/ v \in AtRow(k, L) => v \in Workers
  BY DEF AtRow
<1> QED
  BY <1>2, <1>3, <1>4

\* A row whose readers stay keeps its count.
LEMMA RefsKept ==
    ASSUME NEW k \in Keys, RefsOfRow(k), UNCHANGED phase, ref_cnt_'[k] = ref_cnt_[k],
           phase = "read" => Counted(k)' = Counted(k) /\ Owing(k)' = Owing(k),
           phase = "exec" => Holding(k)' = Holding(k) /\ Freeing(k)' = Freeing(k)
    PROVE  RefsOfRow(k)'
<1>1. CASE phase = "read"
  BY <1>1 DEF RefsOfRow
<1>2. CASE phase = "exec"
  BY <1>2 DEF RefsOfRow
<1>3. CASE phase \notin {"read", "exec"}
  BY <1>3 DEF RefsOfRow
<1> QED
  BY <1>1, <1>2, <1>3

\* The third invariant holds initially, ...
LEMMA InitReferences == Init => References
  BY DEF Init, References, RefsOfRow

\* ... at the barriers, ...
LEMMA ReferencesBarrier ==
    ASSUME Control, References, StartReadPhase \/ StartExecution \/ NewEpoch
    PROVE  References'
<1>1. /\ UNCHANGED ref_cnt_ /\ AtBarrier /\ pc' = [w \in Workers |-> "begin"]
  BY DEF StartReadPhase, StartExecution, NewEpoch, LocalsReset
<1>2. /\ {"add_ref"} \subseteq InHand /\ {"wait_stable", "decrement"} \subseteq InHand
  BY DEF InHand, Referencing, Reading
<1>3. \A k : Owing(k)' = {} /\ Freeing(k)' = {} /\ Owing(k) = {} /\ Freeing(k) = {}
  BY <1>1 DEF Owing, Freeing, AtRow, AtBarrier
<1>e. Cardinality({}) = 0 /\ AtMostOne({})
  BY FS_EmptySet DEF AtMostOne
<1>4. CASE StartReadPhase
  <2>1. phase = "write" /\ phase' = "read" /\ UNCHANGED txs
    BY <1>4 DEF StartReadPhase
  <2>2. Ahead({"add_ref"})' = Reads(txs)
    BY <1>2, <1>4, AheadAtStart
  <2>3. ASSUME NEW k \in Keys PROVE RefsOfRow(k)'
    <3>1. Counted(k)' = {}
      BY <2>1, <2>2 DEF Counted, ReadsOf, RowOf
    <3>2. ref_cnt_[k] = 0
      BY <2>1 DEF References, RefsOfRow
    <3> QED
      BY <1>1, <1>3, <1>e, <2>1, <3>1, <3>2 DEF RefsOfRow
  <2> QED
    BY <1>1, <2>3 DEF References
<1>5. CASE StartExecution
  <2>1. phase = "read" /\ phase' = "exec" /\ UNCHANGED txs
    BY <1>5 DEF StartExecution
  <2>2. Ahead({"wait_stable", "decrement"})' = Ops(txs) /\ Ahead({"add_ref"}) = {}
    BY <1>1, <1>2, <1>5, AheadAtStart, AheadAtBarrier
  <2>3. ASSUME NEW k \in Keys PROVE RefsOfRow(k)'
    <3>1. Counted(k) = ReadsOf(k) /\ Holding(k)' = ReadsOf(k)
      BY <2>1, <2>2 DEF Counted, Holding, ReadsOf, RowOf, Reads
    <3>2. RefsOfRow(k)
      BY DEF References
    <3> QED
      BY <1>1, <1>3, <1>e, <2>1, <3>1, <3>2 DEF RefsOfRow
  <2> QED
    BY <1>1, <2>3 DEF References
<1>6. CASE NewEpoch
  <2>1. phase = "exec" /\ phase' \in {"write", "end"}
    BY <1>6 DEF NewEpoch
  <2>2. Ahead({"wait_stable", "decrement"}) = {}
    BY <1>1, <1>2, AheadAtBarrier
  <2>3. ASSUME NEW k \in Keys PROVE RefsOfRow(k)'
    <3>1. Holding(k) = {}
      BY <2>2 DEF Holding
    <3>2. ref_cnt_[k] = 0
      <4>1. RefsOfRow(k)
        BY DEF References
      <4>2. ref_cnt_[k] = Cardinality({}) + 0
        BY <1>3, <2>1, <3>1, <4>1 DEF RefsOfRow
      <4> QED
        BY <1>e, <4>2
    <3> QED
      BY <1>1, <2>1, <3>2 DEF RefsOfRow
  <2> QED
    BY <1>1, <2>3 DEF References
<1> QED
  BY <1>4, <1>5, <1>6

\* ... with the two increments of the read phase, ...
LEMMA ReferencesCount ==
    ASSUME Control, References, NEW w \in Workers, add_ref(w) \/ add_first_ref(w)
    PROVE  References'
<1>0. PICK k : k = row[w]
  OBVIOUS
<1>1. /\ k \in Keys /\ phase = "read" /\ txs \in Workloads
      /\ op[w] \in Reads(txs) /\ RowOf(op[w]) = k
      /\ UNCHANGED <<phase, txs, todo, op, row>>
      /\ ref_cnt_ \in [Keys -> Nat] /\ ref_cnt_' = [ref_cnt_ EXCEPT ![k] = @ + 1]
      /\ pc[w] \in {"add_ref", "add_first_ref"}
  BY <1>0 DEF add_ref, add_first_ref, batchVars, opVars, Control, ControlTypeOK, PhaseLabels,
     OwnOperations, Filing, Referencing, Reading, Writing, RowOf, References
<1>2. PICK l : /\ Goto(w, l) /\ l \in {"add_first_ref", "identify"}
               /\ pc[w] = "add_ref" => (l = "add_first_ref" <=> ref_cnt_[k] = 0)
               /\ pc[w] = "add_first_ref" => l = "identify"
  BY <1>0 DEF add_ref, add_first_ref, IsFirstReader
<1>3. /\ ref_cnt_'[k] = ref_cnt_[k] + 1 /\ ref_cnt_[k] \in Nat
      /\ \A j \in Keys : j # k => ref_cnt_'[j] = ref_cnt_[j]
      /\ ref_cnt_' \in [Keys -> Nat]
  BY <1>1
<1>4. {"add_ref"} \subseteq InHand
  BY DEF InHand, Referencing
<1>5. \A j : ReadsOf(j)' = ReadsOf(j)
  BY <1>1 DEF ReadsOf, RowOf
<1>6. RefsOfRow(k) /\ \A j \in Keys : RefsOfRow(j)
  BY <1>1 DEF References
<1>7. /\ IsFiniteSet(Counted(k)) /\ Cardinality(Counted(k)) \in Nat
      /\ Counted(k) = {} <=> Cardinality(Counted(k)) = 0
  BY ReadsAreFinite
<1>8. CASE pc[w] = "add_ref"
  <2>1. op[w] \in Ahead({"add_ref"}) /\ Ahead({"add_ref"})' = Ahead({"add_ref"}) \ {op[w]}
    BY <1>1, <1>2, <1>4, <1>8, AheadLeaves
  <2>2. Counted(k)' = Counted(k) \cup {op[w]} /\ op[w] \notin Counted(k)
    BY <1>1, <1>5, <2>1 DEF Counted, ReadsOf
  <2>3. Cardinality(Counted(k)') = Cardinality(Counted(k)) + 1
    BY <1>7, <2>2, FS_AddElement
  <2>4. ASSUME NEW j \in Keys, j # k PROVE RefsOfRow(j)'
    <3>1. Counted(j)' = Counted(j)
      BY <1>1, <1>5, <2>1, <2>4 DEF Counted, ReadsOf
    <3>2. Owing(j)' = Owing(j)
      BY <1>0, <1>1, <1>2, <2>4, AtRowStep DEF Owing
    <3>3. /\ UNCHANGED phase /\ ref_cnt_'[j] = ref_cnt_[j] /\ RefsOfRow(j)
          /\ phase = "read" => Counted(j)' = Counted(j) /\ Owing(j)' = Owing(j)
          /\ phase # "exec"
      BY <1>1, <1>3, <1>6, <3>1, <3>2, <2>4
    <3> QED
      BY <3>3, RefsKept
  <2>5. CASE ref_cnt_[k] = 0
    <3>1. Counted(k) = {} /\ Owing(k) = {}
      BY <1>1, <1>6, <1>7, <2>5 DEF RefsOfRow
    <3>2. Owing(k)' = {w}
      <4>1. Owing(k)' = Owing(k) \cup {w}
        BY <1>0, <1>1, <1>2, <1>8, <2>5, AtRowStep DEF Owing
      <4> QED
        BY <3>1, <4>1
    <3>3. ref_cnt_'[k] = Cardinality(Counted(k)') /\ Counted(k)' # {}
      BY <1>3, <1>7, <2>2, <2>3, <2>5, <3>1
    <3>4. AtMostOne({w})
      BY DEF AtMostOne
    <3>5. RefsOfRow(k)'
      BY <1>1, <1>3, <3>2, <3>3, <3>4 DEF RefsOfRow
    <3> QED
      BY <1>3, <2>4, <3>5 DEF References
  <2>6. CASE ref_cnt_[k] # 0
    <3>1. Counted(k) # {} /\ Counted(k)' # {}
      BY <1>1, <1>6, <1>7, <2>2, <2>6 DEF RefsOfRow
    <3>2. Owing(k)' = Owing(k)
      BY <1>1, <1>2, <1>8, <2>6, AtRowStep DEF Owing
    <3>3. RefsOfRow(k)'
      BY <1>1, <1>3, <1>6, <1>7, <2>3, <3>1, <3>2 DEF RefsOfRow
    <3> QED
      BY <1>3, <2>4, <3>3 DEF References
  <2> QED
    BY <2>5, <2>6
<1>9. CASE pc[w] = "add_first_ref"
  <2>1. Ahead({"add_ref"})' = Ahead({"add_ref"})
    BY <1>1, <1>2, <1>9, AheadStays
  <2>2. \A j : Counted(j)' = Counted(j)
    BY <1>5, <2>1 DEF Counted
  <2>3. ASSUME NEW j \in Keys, j # k PROVE RefsOfRow(j)'
    <3>2. Owing(j)' = Owing(j)
      BY <1>0, <1>1, <1>2, <2>3, AtRowStep DEF Owing
    <3>3. /\ UNCHANGED phase /\ ref_cnt_'[j] = ref_cnt_[j] /\ RefsOfRow(j)
          /\ phase = "read" => Counted(j)' = Counted(j) /\ Owing(j)' = Owing(j)
          /\ phase # "exec"
      BY <1>1, <1>3, <1>6, <2>2, <3>2, <2>3
    <3> QED
      BY <3>3, RefsKept
  <2>4. Owing(k)' = {} /\ Owing(k) # {}
    <3>1. Owing(k)' = Owing(k) \ {w}
      BY <1>1, <1>2, <1>9, AtRowStep DEF Owing
    <3>2. w \in Owing(k) /\ AtMostOne(Owing(k))
      BY <1>0, <1>1, <1>6, <1>9 DEF Owing, AtRow, RefsOfRow
    <3> QED
      BY <3>1, <3>2 DEF AtMostOne
  <2>5. AtMostOne({})
    BY DEF AtMostOne
  <2>6. RefsOfRow(k)'
    BY <1>1, <1>3, <1>6, <1>7, <2>2, <2>4, <2>5 DEF RefsOfRow
  <2> QED
    BY <1>3, <2>3, <2>6 DEF References
<1> QED
  BY <1>1, <1>8, <1>9

\* ... with the decrement of a reader and the last one of the final reader, ...
LEMMA ReferencesRelease ==
    ASSUME Control, References, NEW w \in Workers, decrement_ref_cnt(w) \/ final_reader(w)
    PROVE  /\ References'
           /\ phase = "exec" /\ row[w] \in Keys
           /\ final_reader(w) =>
                 ref_cnt_[row[w]] = 1 /\ ref_cnt_'[row[w]] = 0 /\ Holding(row[w]) = {}
           /\ decrement_ref_cnt(w) => ref_cnt_[row[w]] # 0 /\ ref_cnt_'[row[w]] # 0
<1> DEFINE L == {"wait_stable", "decrement"}
           G == {"gc_lock", "final_reader"}
<1>0. PICK k : k = row[w]
  OBVIOUS
<1>1. /\ k \in Keys /\ phase = "exec" /\ txs \in Workloads
      /\ op[w] \in Reads(txs) /\ RowOf(op[w]) = k
      /\ UNCHANGED <<phase, txs, todo, op, row>>
      /\ ref_cnt_ \in [Keys -> Nat] /\ ref_cnt_' = [ref_cnt_ EXCEPT ![k] = @ - 1]
      /\ pc[w] \in {"decrement", "final_reader"}
  BY <1>0 DEF decrement_ref_cnt, final_reader, LastReference, batchVars, opVars, Control,
     ControlTypeOK, PhaseLabels, OwnOperations, Filing, Referencing, Reading, Writing, RowOf,
     References
<1>2. PICK l : /\ Goto(w, l) /\ l \in {"gc_lock", "begin", "unlock"}
               /\ pc[w] = "decrement" => (l = "gc_lock" <=> ref_cnt_[k] = 2)
               /\ pc[w] = "final_reader" => l = "unlock"
  BY <1>0 DEF decrement_ref_cnt, final_reader, IsFinalReader
<1>3. /\ ref_cnt_'[k] = ref_cnt_[k] - 1 /\ ref_cnt_[k] \in Nat
      /\ \A j \in Keys : j # k => ref_cnt_'[j] = ref_cnt_[j]
  BY <1>1
<1>4. L \subseteq InHand
  BY DEF InHand, Reading
<1>5. \A j : ReadsOf(j)' = ReadsOf(j)
  BY <1>1 DEF ReadsOf, RowOf
<1>6. RefsOfRow(k) /\ \A j \in Keys : RefsOfRow(j)
  BY <1>1 DEF References
<1>7. /\ IsFiniteSet(Holding(k)) /\ Cardinality(Holding(k)) \in Nat
      /\ Holding(k) = {} <=> Cardinality(Holding(k)) = 0
  BY ReadsAreFinite
<1>p. ASSUME NEW j \in Keys, j # k, Holding(j)' = Holding(j), Freeing(j)' = Freeing(j)
      PROVE  RefsOfRow(j)'
  <2>1. /\ UNCHANGED phase /\ ref_cnt_'[j] = ref_cnt_[j] /\ RefsOfRow(j) /\ phase # "read"
    BY <1>1, <1>3, <1>6, <1>p
  <2> QED
    BY <1>p, <2>1, RefsKept
<1>q. ref_cnt_[k] # 0 => ref_cnt_' \in [Keys -> Nat]
  BY <1>1, <1>3
<1>8. CASE pc[w] = "decrement"
  <2>1. op[w] \in Ahead(L) /\ Ahead(L)' = Ahead(L) \ {op[w]}
    <3>1. pc[w] \in L /\ l \notin L /\ UNCHANGED <<todo, op>>
      BY <1>1, <1>2, <1>8
    <3> HIDE DEF L
    <3> QED
      BY <1>2, <1>4, <3>1, AheadLeaves
  <2>2. Holding(k)' = Holding(k) \ {op[w]} /\ op[w] \in Holding(k)
    BY <1>1, <1>5, <2>1 DEF Holding, ReadsOf
  <2>3. Cardinality(Holding(k)') = Cardinality(Holding(k)) - 1
    BY <1>7, <2>2, FS_RemoveElement
  <2>4. Freeing(k) = {} /\ ref_cnt_[k] = Cardinality(Holding(k)) + 1
    BY <1>1, <1>6, <2>2 DEF RefsOfRow
  <2>5. ASSUME NEW j \in Keys, j # k PROVE RefsOfRow(j)'
    <3>1. Holding(j)' = Holding(j)
      BY <1>1, <1>5, <2>1, <2>5 DEF Holding, ReadsOf
    <3>2. Freeing(j)' = Freeing(j)
      BY <1>0, <1>1, <1>2, <2>5, AtRowStep DEF Freeing
    <3> QED
      BY <1>p, <2>5, <3>1, <3>2
  <2>6. IsFiniteSet(Holding(k)') /\ (Holding(k)' = {} <=> Cardinality(Holding(k)') = 0)
    BY <1>7, <2>2, FS_RemoveElement, FS_EmptySet
  <2>7. RefsOfRow(k)'
    <3>1. CASE ref_cnt_[k] = 2
      <4>1. Freeing(k)' = {w}
        <5>1. Freeing(k)' = Freeing(k) \cup {w}
          BY <1>0, <1>1, <1>2, <1>8, <3>1, AtRowStep DEF Freeing
        <5> QED
          BY <2>4, <5>1
      <4>2. Holding(k)' = {} /\ ref_cnt_'[k] = Cardinality(Holding(k)') + 1
        BY <1>3, <1>7, <2>3, <2>4, <2>6, <3>1
      <4>3. AtMostOne({w})
        BY DEF AtMostOne
      <4> QED
        BY <1>1, <4>1, <4>2, <4>3 DEF RefsOfRow
    <3>2. CASE ref_cnt_[k] # 2
      <4>1. Freeing(k)' = Freeing(k)
        BY <1>1, <1>2, <1>8, <3>2, AtRowStep DEF Freeing
      <4>2. Holding(k)' # {} /\ ref_cnt_'[k] = Cardinality(Holding(k)') + 1
        BY <1>3, <1>7, <2>3, <2>4, <2>6, <3>2
      <4>3. AtMostOne({})
        BY DEF AtMostOne
      <4> QED
        BY <1>1, <2>4, <4>1, <4>2, <4>3 DEF RefsOfRow
    <3> QED
      BY <3>1, <3>2
  <2>8. ref_cnt_[k] # 0 /\ ref_cnt_'[k] # 0
    BY <1>3, <1>7, <2>2, <2>4
  <2>9. ~final_reader(w)
    BY <1>8 DEF final_reader
  <2> QED
    BY <1>0, <1>1, <1>q, <2>5, <2>7, <2>8, <2>9 DEF References
<1>9. CASE pc[w] = "final_reader"
  <2>1. Ahead(L)' = Ahead(L)
    <3>1. pc[w] \notin L /\ l \notin L /\ UNCHANGED <<todo, op>>
      BY <1>1, <1>2, <1>9
    <3> HIDE DEF L
    <3> QED
      BY <1>2, <3>1, AheadStays
  <2>2. \A j : Holding(j)' = Holding(j)
    BY <1>5, <2>1 DEF Holding
  <2>3. ASSUME NEW j \in Keys, j # k PROVE RefsOfRow(j)'
    <3>2. Freeing(j)' = Freeing(j)
      BY <1>0, <1>1, <1>2, <2>3, AtRowStep DEF Freeing
    <3> QED
      BY <1>p, <2>2, <2>3, <3>2
  <2>4. /\ Freeing(k)' = {} /\ Freeing(k) # {} /\ Holding(k) = {}
        /\ ref_cnt_[k] = Cardinality(Holding(k)) + 1
    <3>1. Freeing(k)' = Freeing(k) \ {w}
      BY <1>1, <1>2, <1>9, AtRowStep DEF Freeing
    <3>2. w \in Freeing(k)
      BY <1>0, <1>1, <1>9 DEF Freeing, AtRow
    <3>3. AtMostOne(Freeing(k))
      BY <1>1, <1>6 DEF RefsOfRow
    <3>4. Holding(k) = {} /\ ref_cnt_[k] = Cardinality(Holding(k)) + 1
      BY <1>1, <1>6, <3>2 DEF RefsOfRow
    <3> QED
      BY <3>1, <3>2, <3>3, <3>4 DEF AtMostOne
  <2>5. AtMostOne({})
    BY DEF AtMostOne
  <2>6. ref_cnt_[k] = 1 /\ ref_cnt_'[k] = 0 /\ Cardinality(Holding(k)) = 0
    BY <1>3, <1>7, <2>4
  <2>7. RefsOfRow(k)'
    <3>1. /\ phase' = "exec" /\ Holding(k)' = {} /\ Freeing(k)' = {}
          /\ ref_cnt_'[k] = 0
      BY <1>1, <2>2, <2>4, <2>6
    <3>2. Cardinality(Holding(k)') = 0
      BY <2>2, <2>6
    <3> QED
      BY <2>5, <3>1, <3>2 DEF RefsOfRow
  <2>9. ~decrement_ref_cnt(w)
    BY <1>9 DEF decrement_ref_cnt
  <2> QED
    BY <1>0, <1>1, <1>q, <2>3, <2>4, <2>6, <2>7, <2>9 DEF References
<1> QED
  BY <1>1, <1>8, <1>9

\* ... and with every other step, so that
LEMMA ReferencesNext == Control /\ References /\ [Next]_vars => References'
<1> SUFFICES ASSUME Control, References, [Next]_vars PROVE References'
  OBVIOUS
<1>1. CASE UNCHANGED vars
  <2>1. UNCHANGED <<phase, ref_cnt_>>
    BY <1>1 DEF vars, batchVars
  <2>2. \A k : Counted(k)' = Counted(k) /\ Owing(k)' = Owing(k)
               /\ Holding(k)' = Holding(k) /\ Freeing(k)' = Freeing(k)
    BY <1>1 DEF vars, batchVars, opVars, Counted, Owing, Holding, Freeing, ReadsOf, RowOf, Ahead,
       AtRow
  <2>3. ASSUME NEW k \in Keys PROVE RefsOfRow(k)'
    <3>1. RefsOfRow(k)
      BY DEF References
    <3> QED
      BY <2>1, <2>2, <3>1, RefsKept
  <2> QED
    BY <2>1, <2>3 DEF References
<1>2. CASE StartReadPhase \/ StartExecution \/ NewEpoch
  BY <1>2, ReferencesBarrier
<1>3. ASSUME NEW w \in Workers, Step(w) PROVE References'
  <2> DEFINE A == {"add_ref"}
             F == {"add_first_ref"}
             L == {"wait_stable", "decrement"}
             G == {"gc_lock", "final_reader"}
  <2>0. A \subseteq InHand /\ L \subseteq InHand
    BY DEF InHand, Referencing, Reading
  <2>k. ASSUME UNCHANGED <<phase, txs, ref_cnt_>>,
               phase = "read" => \A k : Counted(k)' = Counted(k) /\ Owing(k)' = Owing(k),
               phase = "exec" => \A k : Holding(k)' = Holding(k) /\ Freeing(k)' = Freeing(k)
        PROVE  References'
    <3>1. ASSUME NEW k \in Keys PROVE RefsOfRow(k)'
      <4>1. RefsOfRow(k)
        BY DEF References
      <4>2. UNCHANGED phase /\ ref_cnt_'[k] = ref_cnt_[k]
        BY <2>k
      <4> QED
        BY <2>k, <4>1, <4>2, RefsKept
    <3> QED
      BY <2>k, <3>1 DEF References
  <2>1. CASE add_ref(w) \/ add_first_ref(w)
    BY <2>1, ReferencesCount
  <2>2. CASE decrement_ref_cnt(w) \/ final_reader(w)
    BY <2>2, ReferencesRelease
  <2>3. CASE Begin(w)
    <3>1. PICK o \in todo[w] :
             /\ op' = [op EXCEPT ![w] = o] /\ todo' = [todo EXCEPT ![w] = @ \ {o}]
             /\ row' = [row EXCEPT ![w] = txs[o[1]][o[2]].index]
             /\ o \in Ops(txs)
             /\ \/ phase = "write"
                \/ phase = "read" /\ Goto(w, "add_ref")
                \/ phase = "exec" /\ o \in Reads(txs) /\ Goto(w, "wait_stable")
                \/ phase = "exec" /\ o \in Updates(txs) /\ Goto(w, "write_lock")
      BY <2>3, BeginTakes
    <3>2. /\ pc[w] = "begin" /\ UNCHANGED <<phase, txs, ref_cnt_>>
          /\ \A v \in Workers : v # w => row'[v] = row[v]
      BY <2>3, <3>1 DEF Begin, batchVars, Control, ControlTypeOK
    <3>3. \A k : ReadsOf(k)' = ReadsOf(k)
      BY <3>2 DEF ReadsOf, RowOf
    <3>4. CASE phase = "write"
      BY <2>k, <3>2, <3>4
    <3>5. CASE phase = "read"
      <4>1. Goto(w, "add_ref") /\ Begins(w, o, "add_ref")
        BY <3>1, <3>5 DEF Begins, Goto
      <4>2. Ahead(A)' = Ahead(A)
        <5>1. "add_ref" \in A /\ pc[w] \notin A
          BY <3>2
        <5> HIDE DEF A
        <5> QED
          BY <2>0, <4>1, <5>1, AheadBegins
      <4>3. \A k : Counted(k)' = Counted(k)
        BY <3>3, <4>2 DEF Counted
      <4>4. ASSUME NEW k PROVE Owing(k)' = Owing(k)
        BY <3>2, <4>1, AtRowStep DEF Owing
      <4> QED
        BY <2>k, <3>2, <3>5, <4>3, <4>4
    <3>6. CASE phase = "exec"
      <4>1. PICK l : /\ Goto(w, l) /\ Begins(w, o, l) /\ l \in {"wait_stable", "write_lock"}
                     /\ l \in L \/ o \in Updates(txs)
        BY <3>1, <3>6 DEF Begins, Goto
      <4>2. \A u \in Reads(txs) : u \in Ahead(L)' <=> u \in Ahead(L)
        <5>1. pc[w] \notin L
          BY <3>2
        <5> HIDE DEF L
        <5>2. /\ l \in L => Ahead(L)' = Ahead(L)
              /\ l \notin L => Ahead(L)' = Ahead(L) \ {o}
          BY <2>0, <4>1, <5>1, AheadBegins
        <5>3. o \notin Reads(txs) \/ o \notin Updates(txs)
          BY <3>1, OperationsOfBatch DEF Control, ControlTypeOK
        <5> QED
          BY <4>1, <5>2, <5>3
      <4>3. \A k : Holding(k)' = Holding(k)
        BY <3>3, <4>2 DEF Holding, ReadsOf
      <4>4. ASSUME NEW k PROVE Freeing(k)' = Freeing(k)
        BY <3>2, <4>1, AtRowStep DEF Freeing
      <4> QED
        BY <2>k, <3>2, <3>6, <4>3, <4>4
    <3> QED
      BY <3>1, <3>4, <3>5, <3>6
  <2>4. CASE finalize_try_lock(w)
    <3>1. phase = "write" /\ UNCHANGED <<phase, txs, ref_cnt_>>
      BY <2>4 DEF finalize_try_lock, batchVars, Control, ControlTypeOK, PhaseLabels, Referencing,
         Reading, Writing
    <3> QED
      BY <2>k, <3>1
  <2>5. CASE \/ EndLoop(w) \/ unlock(w) \/ update_bitmap(w) \/ finalize_unlock(w)
             \/ finalize_end(w) \/ read_master(w) \/ identify(w) \/ placeholder_lock(w)
             \/ placeholder(w) \/ wait_stable_and_execute_read(w) \/ gc_lock(w) \/ write_lock(w)
             \/ final_writer(w) \/ other_writer(w) \/ write_unlock(w) \/ write_rec(w)
             \/ write_status(w)
    <3> USE DEF EndLoop, unlock, update_bitmap, finalize_unlock, finalize_end, read_master,
                identify, placeholder_lock, placeholder, wait_stable_and_execute_read, gc_lock,
                write_lock, final_writer, other_writer, write_unlock, write_rec, write_status,
                Lock, SetStatus
    <3>1. PICK l : /\ Goto(w, l)
                   /\ l \in A <=> pc[w] \in A
                   /\ l \in F <=> pc[w] \in F
                   /\ l \in L <=> pc[w] \in L
                   /\ l \in G <=> pc[w] \in G
      BY <2>5
    <3>2. UNCHANGED <<phase, txs, ref_cnt_, todo, op, row>>
      BY <2>5 DEF batchVars, opVars
    <3> HIDE DEF EndLoop, unlock, update_bitmap, finalize_unlock, finalize_end, read_master,
                identify, placeholder_lock, placeholder, wait_stable_and_execute_read, gc_lock,
                write_lock, final_writer, other_writer, write_unlock, write_rec, write_status,
                Lock, SetStatus
    <3>3. Ahead(A)' = Ahead(A) /\ Ahead(L)' = Ahead(L)
      <4> HIDE DEF A, L
      <4> QED
        BY <3>1, <3>2, AheadStays
    <3>4. \A k : Counted(k)' = Counted(k) /\ Holding(k)' = Holding(k)
      BY <3>2, <3>3 DEF Counted, Holding, ReadsOf, RowOf
    <3>5. ASSUME NEW k PROVE Owing(k)' = Owing(k) /\ Freeing(k)' = Freeing(k)
      <4>1. /\ Owing(k) = AtRow(k, F) /\ Freeing(k) = AtRow(k, G)
            /\ Owing(k)' = AtRow(k, F)' /\ Freeing(k)' = AtRow(k, G)'
        BY DEF Owing, Freeing
      <4> HIDE DEF F, G
      <4>2. AtRow(k, F)' = AtRow(k, F) /\ AtRow(k, G)' = AtRow(k, G)
        BY <3>1, <3>2, AtRowStep
      <4> QED
        BY <4>1, <4>2
    <3> QED
      BY <2>k, <3>2, <3>4, <3>5
  <2> QED
    BY <1>3, <2>1, <2>2, <2>3, <2>4, <2>5 DEF Step
<1> QED
  BY <1>1, <1>2, <1>3 DEF Next

\* ref_cnt_ is the number of readers that have not read, and one more until the
\* final reader has collected, in whichever order the first reader's two
\* increments, the others' and all the decrements come.
THEOREM ReferencesCounted == Spec => []RefCntCountsReaders
<1>1. Control /\ References => RefCntCountsReaders
  <2> SUFFICES ASSUME Control, References, phase = "exec", NEW k \in Keys
               PROVE  ref_cnt_[k] = Cardinality(Referring(k)) +
                                    (IF Referring(k) # {} \/ Collecting(k) THEN 1 ELSE 0)
    BY DEF RefCntCountsReaders
  <2>1. Referring(k) = Holding(k)
    BY DEF Referring, Holding, ReadsOf, RowOf, Ahead
  <2>2. Collecting(k) <=> Freeing(k) # {}
    BY DEF Collecting, Freeing, AtRow
  <2> QED
    BY <2>1, <2>2 DEF References, RefsOfRow
<1> QED
  BY <1>1, InitControl, ControlNext, InitReferences, ReferencesNext, PTL DEF Spec
-------------------------------------------------------------------------------
(***************************************************************************)
(* The fourth invariant: which versions a row has                          *)
(***************************************************************************)

\* What a read depends on
Depends(o) == SerialRead(txs, epoch, db, o[1], RowOf(o))

\* The reads that have been given their version in the read phase
Placed(k) ==
    {o \in ReadsOf(k) : phase = "exec" \/ (phase = "read" /\ o \notin Ahead(Referencing))}

\* The versions of this epoch that some read has asked for
Wanted(k) == {v \in {Depends(o) : o \in Placed(k)} : v[1] = epoch}

\* The final writer has been in identify_write_version.
NewMaster(k) == phase = "exec" /\ Writers(txs, k) # {} /\ core_bitmap_[k] = {}

\* The final reader has collected, or there is no reader.
Collected(k) == phase = "exec" /\ ref_cnt_[k] = 0

ObjectsTypeOK ==
    /\ db \in [Keys -> Versions]
    /\ \A k \in Keys : db[k][1] < epoch
    /\ pending_ \in [Serials -> [Keys -> Versions \cup {NoVersion}]]
    /\ visible_id \in [Workers -> Nat]
    /\ placeholders_ \in [Keys -> SUBSET Versions]
    /\ master_ \in [Keys -> Versions]
    /\ previous_master_ \in [Keys -> Versions \cup {NoVersion}]

\* The master is the state of the earlier epochs until the final writer comes;
\* that state stays as previous master as long as there are readers.
RowObjects(k) ==
    /\ master_[k] = IF NewMaster(k) THEN <<epoch, Max(Writers(txs, k))>> ELSE db[k]
    /\ previous_master_[k] = IF NewMaster(k) /\ ~Collected(k) THEN db[k] ELSE NoVersion
    /\ placeholders_[k] = IF Collected(k) THEN {} ELSE Wanted(k) \ {master_[k]}

\* A read has been given the version it depends on.
GivenVersions(k) == \A o \in Placed(k) : pending_[o[1]][k] = Depends(o)

FoundWriter(w) ==
    pc[w] \in {"placeholder_lock", "placeholder"} =>
        /\ visible_id[w] \in Writers(txs, row[w])
        /\ Depends(op[w]) = <<epoch, visible_id[w]>>

Objects ==
    /\ ObjectsTypeOK
    /\ \A k \in Keys : RowObjects(k)
    /\ \A k \in Keys : GivenVersions(k)
    /\ \A w \in Workers : FoundWriter(w)

\* Versions of the epoch and of earlier ones.
LEMMA VersionNames ==
    ASSUME Control, ObjectsTypeOK
    PROVE  /\ NoVersion \notin Versions
           /\ phase # "end" => \A s \in Serials : <<epoch, s>> \in Versions
           /\ epoch \in Nat
           /\ \A k \in Keys : db[k] \in Versions /\ db[k][1] # epoch
           /\ \A k \in Keys : Writers(txs, k) \subseteq Serials
<1>1. epoch \in Nat /\ (phase # "end" => epoch \in 0 .. NumEpochs)
  BY EpochsAssumption DEF Control, ControlTypeOK
<1>2. NoVersion \notin Versions
  BY SerialsAreNatural DEF NoVersion, Versions
<1>3. \A k \in Keys : db[k] \in Versions /\ db[k][1] # epoch
  <2>1. ASSUME NEW k \in Keys PROVE db[k] \in Versions /\ db[k][1] # epoch
    <3>1. db[k] \in Versions /\ db[k][1] < epoch
      BY DEF ObjectsTypeOK
    <3>2. db[k][1] \in Nat
      BY <3>1, EpochsAssumption DEF Versions
    <3> QED
      BY <1>1, <3>1, <3>2
  <2> QED
    BY <2>1
<1>4. \A k \in Keys : Writers(txs, k) \subseteq Serials
  BY WritersAreUpdates DEF Control, ControlTypeOK
<1> QED
  BY <1>1, <1>2, <1>3, <1>4 DEF Versions

\* A read depends on the state of the earlier epochs or on a writer.
LEMMA Dependence ==
    ASSUME Control, ObjectsTypeOK, NEW k \in Keys, NEW o \in ReadsOf(k)
    PROVE  LET before == {u \in Writers(txs, k) : u < o[1]}
           IN  /\ o \in Ops(txs) /\ o[1] \in Serials /\ RowOf(o) = k
               /\ before = {} => Depends(o) = db[k] /\ Depends(o)[1] # epoch
               /\ before # {} => /\ Depends(o) = <<epoch, Max(before)>>
                                 /\ Max(before) \in Writers(txs, k)
<1> DEFINE before == {u \in Writers(txs, k) : u < o[1]}
<1>1. o \in Ops(txs) /\ RowOf(o) = k /\ txs \in Workloads
  BY DEF ReadsOf, Reads, Control, ControlTypeOK
<1>2. o[1] \in Serials
  BY <1>1, OperationsOfBatch
<1>3. Depends(o) = IF before = {} THEN db[k] ELSE <<epoch, Max(before)>>
  BY <1>1 DEF Depends, SerialRead
<1>4. before \subseteq Serials /\ db[k][1] # epoch
  BY VersionNames
<1>5. before # {} => Max(before) \in before
  BY <1>4, MaxIsLast
<1> QED
  BY <1>1, <1>2, <1>3, <1>4, <1>5

\* The versions that are wanted are versions of writers.
LEMMA WantedWriters ==
    ASSUME Control, ObjectsTypeOK, NEW k \in Keys, NEW v \in Wanted(k)
    PROVE  /\ v[1] = epoch /\ v[2] \in Writers(txs, k) /\ v = <<epoch, v[2]>>
           /\ v \in Versions
           /\ \E o \in Placed(k) : Depends(o) = v
<1>1. PICK o \in Placed(k) : v = Depends(o) /\ v[1] = epoch
  BY DEF Wanted
<1>2. o \in ReadsOf(k) /\ phase # "end"
  BY DEF Placed
<1>3. PICK s \in Writers(txs, k) : v = <<epoch, s>>
  <2> DEFINE before == {u \in Writers(txs, k) : u < o[1]}
  <2>1. /\ before = {} => Depends(o)[1] # epoch
        /\ before # {} => Depends(o) = <<epoch, Max(before)>> /\ Max(before) \in Writers(txs, k)
    BY <1>2, Dependence
  <2> QED
    BY <1>1, <2>1
<1>4. s \in Serials /\ <<epoch, s>> \in Versions
  BY <1>2, VersionNames
<1>5. v[2] = s /\ v[1] = epoch
  BY <1>3
<1> QED
  BY <1>1, <1>3, <1>4, <1>5

\* What is wanted changes only with the batch and with the reads that are placed.
LEMMA SameWanted ==
    ASSUME UNCHANGED <<epoch, txs, db, phase>>,
           phase = "read" => Ahead(Referencing)' = Ahead(Referencing)
    PROVE  /\ \A k : Placed(k)' = Placed(k) /\ Wanted(k)' = Wanted(k)
           /\ \A o : Depends(o)' = Depends(o)
<1>1. \A k : ReadsOf(k)' = ReadsOf(k)
  BY DEF ReadsOf, RowOf
<1>2. \A o : Depends(o)' = Depends(o)
  BY DEF Depends, RowOf
<1>3. \A k : Placed(k)' = Placed(k)
  BY <1>1 DEF Placed
<1> QED
  BY <1>2, <1>3 DEF Wanted

\* A row that nobody touches keeps its versions.
LEMMA RowObjectsKept ==
    ASSUME NEW k \in Keys, RowObjects(k), UNCHANGED <<epoch, phase, txs>>, db'[k] = db[k],
           master_'[k] = master_[k], previous_master_'[k] = previous_master_[k],
           placeholders_'[k] = placeholders_[k], Wanted(k)' = Wanted(k),
           phase = "exec" => /\ core_bitmap_'[k] = core_bitmap_[k]
                             /\ ref_cnt_'[k] = 0 <=> ref_cnt_[k] = 0
    PROVE  RowObjects(k)'
<1>1. (NewMaster(k)' <=> NewMaster(k)) /\ (Collected(k)' <=> Collected(k))
  BY DEF NewMaster, Collected
<1> QED
  BY <1>1 DEF RowObjects

\* What a worker has found stays while others work.
LEMMA FoundWriterKept ==
    ASSUME NEW v \in Workers, FoundWriter(v), UNCHANGED <<epoch, txs, db>>,
           pc'[v] = pc[v], op'[v] = op[v], row'[v] = row[v], visible_id'[v] = visible_id[v]
    PROVE  FoundWriter(v)'
  BY DEF FoundWriter, Depends, RowOf

\* A step of w that touches no version and places no read.
LEMMA ObjectsKept ==
    ASSUME Control, Objects, NEW w \in Workers, NEW l, Goto(w, l),
           UNCHANGED <<epoch, phase, txs, db, pending_, placeholders_, master_,
                       previous_master_>>,
           visible_id' \in [Workers -> Nat],
           \A v \in Workers : v # w => /\ op'[v] = op[v] /\ row'[v] = row[v]
                                        /\ visible_id'[v] = visible_id[v],
           phase = "read" => Ahead(Referencing)' = Ahead(Referencing),
           phase = "exec" => UNCHANGED core_bitmap_,
           phase = "exec" => \A k \in Keys : ref_cnt_'[k] = 0 <=> ref_cnt_[k] = 0,
           FoundWriter(w)'
    PROVE  Objects'
<1>1. /\ \A k : Placed(k)' = Placed(k) /\ Wanted(k)' = Wanted(k)
      /\ \A o : Depends(o)' = Depends(o)
  BY SameWanted
<1>2. ObjectsTypeOK'
  BY DEF Objects, ObjectsTypeOK
<1>3. ASSUME NEW k \in Keys PROVE RowObjects(k)'
  <2>1. RowObjects(k)
    BY DEF Objects
  <2>2. /\ UNCHANGED <<epoch, phase, txs>> /\ db'[k] = db[k] /\ master_'[k] = master_[k]
        /\ previous_master_'[k] = previous_master_[k] /\ placeholders_'[k] = placeholders_[k]
        /\ phase = "exec" => /\ core_bitmap_'[k] = core_bitmap_[k]
                             /\ ref_cnt_'[k] = 0 <=> ref_cnt_[k] = 0
    OBVIOUS
  <2> QED
    BY <1>1, <2>1, <2>2, RowObjectsKept
<1>4. ASSUME NEW k \in Keys PROVE GivenVersions(k)'
  BY <1>1 DEF Objects, GivenVersions
<1>5. ASSUME NEW v \in Workers PROVE FoundWriter(v)'
  <2>1. CASE v # w
    <3>1. pc'[v] = pc[v] /\ op'[v] = op[v] /\ row'[v] = row[v] /\ visible_id'[v] = visible_id[v]
      BY <2>1 DEF Goto, Control, ControlTypeOK
    <3>2. FoundWriter(v)
      BY DEF Objects
    <3> QED
      BY <3>1, <3>2, FoundWriterKept
  <2> QED
    BY <2>1
<1> QED
  BY <1>2, <1>3, <1>4, <1>5 DEF Objects

\* The fourth invariant holds initially, ...
LEMMA InitObjects == Init => Objects
<1> SUFFICES ASSUME Init PROVE Objects
  OBVIOUS
<1> USE DEF Init
<1>1. Loaded \in Versions /\ Loaded[1] = 0
  BY SerialsAreNatural, EpochsAssumption DEF Loaded, Versions
<1>2. ObjectsTypeOK
  BY <1>1 DEF ObjectsTypeOK, NoPending, NoIds
<1>3. \A k : Wanted(k) = {} /\ Placed(k) = {}
  BY DEF Wanted, Placed
<1> QED
  BY <1>2, <1>3 DEF Objects, RowObjects, GivenVersions, FoundWriter, NewMaster, Collected

\* ... at the barriers, ...
LEMMA ObjectsBarrier ==
    ASSUME Control, Bitmaps, References, Objects, StartReadPhase \/ StartExecution \/ NewEpoch
    PROVE  /\ Objects'
           /\ NewEpoch => \A k \in Keys :
                 /\ ref_cnt_[k] = 0 /\ previous_master_[k] = NoVersion
                 /\ placeholders_[k] = {} /\ master_[k] = db'[k]
<1>1. /\ AtBarrier /\ pc' = [w \in Workers |-> "begin"] /\ visible_id' = NoIds
      /\ UNCHANGED <<placeholders_, master_, previous_master_, ref_cnt_, core_bitmap_>>
  BY DEF StartReadPhase, StartExecution, NewEpoch, LocalsReset, objectVars, bitmapVars
<1>2. Referencing \subseteq InHand /\ BeforeWrite \subseteq InHand
  BY DEF InHand, BeforeWrite, Writing
<1>3. \A w \in Workers : FoundWriter(w)'
  BY <1>1 DEF FoundWriter
<1>v. visible_id' \in [Workers -> Nat]
  BY <1>1 DEF NoIds
<1>4. CASE StartReadPhase \/ StartExecution
  <2>1. UNCHANGED <<epoch, txs, db, pending_>>
    BY <1>4 DEF StartReadPhase, StartExecution
  <2>2. \/ phase = "write" /\ phase' = "read" /\ StartReadPhase
        \/ phase = "read" /\ phase' = "exec" /\ StartExecution
    BY <1>4 DEF StartReadPhase, StartExecution
  <2>3. \A k : Placed(k)' = Placed(k)
    <3>1. \A k : ReadsOf(k)' = ReadsOf(k) /\ ReadsOf(k) \subseteq Reads(txs)
      BY <2>1 DEF ReadsOf, RowOf
    <3>2. CASE StartReadPhase
      <4>1. Ahead(Referencing)' = Reads(txs)
        BY <1>2, <3>2, AheadAtStart
      <4> QED
        BY <2>2, <3>1, <3>2, <4>1 DEF Placed, StartReadPhase
    <3>3. CASE StartExecution
      <4>1. Ahead(Referencing) = {}
        BY <1>1, <1>2, AheadAtBarrier
      <4> QED
        BY <2>2, <3>1, <3>3, <4>1 DEF Placed, StartExecution
    <3> QED
      BY <1>4, <3>2, <3>3
  <2>4. \A o : Depends(o)' = Depends(o)
    BY <2>1 DEF Depends, RowOf
  <2>5. \A k : Wanted(k)' = Wanted(k)
    BY <2>1, <2>3, <2>4 DEF Wanted
  <2>6. ASSUME NEW k \in Keys PROVE RowObjects(k)'
    <3>1. RowObjects(k)
      BY DEF Objects
    <3>2. ~NewMaster(k) /\ ~Collected(k)
      BY <2>2 DEF NewMaster, Collected
    <3>3. ~NewMaster(k)'
      <4> SUFFICES ASSUME phase = "read", Writers(txs, k) # {} PROVE core_bitmap_[k] # {}
        BY <1>1, <2>1, <2>2 DEF NewMaster
      <4>1. core_bitmap_[k] = Cores(k)
        BY DEF Bitmaps, KeptBitmaps
      <4> QED
        BY <4>1 DEF Cores
    <3>4. Collected(k)' => Wanted(k) = {}
      <4> SUFFICES ASSUME phase' = "exec", ref_cnt_'[k] = 0 PROVE Wanted(k) = {}
        BY DEF Collected
      <4>1. Placed(k) = {}
        <5>1. Holding(k)' = ReadsOf(k)
          <6>1. {"wait_stable", "decrement"} \subseteq InHand
            BY DEF InHand, Reading
          <6>2. Ahead({"wait_stable", "decrement"})' = Ops(txs)
            BY <2>2, <6>1, AheadAtStart
          <6> QED
            BY <2>1, <6>2 DEF Holding, ReadsOf, RowOf, Reads
        <5>2. Holding(k)' = {}
          <6>1. Control' /\ References'
            BY ControlBarrier, ReferencesBarrier
          <6>2. RefsOfRow(k)'
            BY <6>1 DEF References
          <6>3. Cardinality(Holding(k)') \in Nat /\ (Holding(k)' = {} <=> Cardinality(Holding(k)') = 0)
            <7>1. IsFiniteSet(ReadsOf(k))
              BY ReadsAreFinite
            <7> QED
              BY <5>1, <7>1, FS_EmptySet, FS_CardinalityType
          <6> QED
            BY <6>2, <6>3 DEF RefsOfRow
        <5> QED
          BY <5>1, <5>2 DEF Placed
      <4> QED
        BY <4>1 DEF Wanted
    <3> QED
      BY <1>1, <2>1, <2>5, <3>1, <3>2, <3>3, <3>4 DEF RowObjects
  <2>7. ASSUME NEW k \in Keys PROVE GivenVersions(k)'
    BY <2>1, <2>3, <2>4 DEF Objects, GivenVersions
  <2>8. ObjectsTypeOK'
    BY <1>1, <1>v, <2>1 DEF Objects, ObjectsTypeOK
  <2> QED
    BY <1>3, <2>2, <2>6, <2>7, <2>8 DEF Objects, NewEpoch
<1>5. CASE NewEpoch
  <2>1. /\ phase = "exec" /\ phase' \in {"write", "end"} /\ epoch' = epoch + 1
        /\ db' = SerialResult(txs, epoch, db) /\ pending_' = NoPending
    BY <1>5 DEF NewEpoch
  <2>2. ASSUME NEW k \in Keys
        PROVE  /\ ref_cnt_[k] = 0 /\ previous_master_[k] = NoVersion
               /\ placeholders_[k] = {} /\ master_[k] = db'[k]
    <3>1. ref_cnt_[k] = 0
      <4>1. References'
        BY ReferencesBarrier
      <4> QED
        BY <1>1, <2>1, <4>1 DEF References, RefsOfRow
    <3>2. core_bitmap_[k] = {}
      <4>1. Ahead(BeforeWrite) = {}
        BY <1>1, <1>2, AheadAtBarrier
      <4> QED
        BY <2>1, <4>1 DEF Bitmaps, KeptBitmaps, FinalPending
    <3>3. RowObjects(k)
      BY DEF Objects
    <3> QED
      BY <2>1, <3>1, <3>2, <3>3 DEF RowObjects, NewMaster, Collected, SerialResult
  <2>3. /\ db' \in [Keys -> Versions] /\ \A k \in Keys : db'[k][1] < epoch'
    <3>1. epoch \in 0 .. NumEpochs /\ epoch \in Nat
      BY <2>1, EpochsAssumption DEF Control, ControlTypeOK
    <3>2. db \in [Keys -> Versions] /\ \A k \in Keys : db[k][1] < epoch
      BY DEF Objects, ObjectsTypeOK
    <3>3. db' \in [Keys -> Versions]
      BY <2>1, <3>1, <3>2, SerialResultTyped DEF Control, ControlTypeOK
    <3>4. ASSUME NEW k \in Keys PROVE db'[k][1] < epoch'
      <4>1. db[k][1] \in Nat /\ db[k][1] < epoch
        BY <3>2, EpochsAssumption DEF Versions
      <4>2. db'[k] = db[k] \/ db'[k] = <<epoch, Max(Writers(txs, k))>>
        BY <2>1 DEF SerialResult
      <4>3. db'[k][1] = db[k][1] \/ db'[k][1] = epoch
        BY <4>2
      <4> QED
        BY <2>1, <3>1, <4>1, <4>3
    <3> QED
      BY <3>3, <3>4
  <2>4. ObjectsTypeOK'
    BY <1>1, <1>v, <2>1, <2>3 DEF Objects, ObjectsTypeOK, NoPending
  <2>5. \A k : Placed(k)' = {} /\ Wanted(k)' = {}
    BY <2>1 DEF Placed, Wanted
  <2>6. ASSUME NEW k \in Keys PROVE RowObjects(k)' /\ GivenVersions(k)'
    BY <1>1, <2>1, <2>2, <2>5 DEF RowObjects, GivenVersions, NewMaster, Collected
  <2> QED
    BY <1>3, <2>2, <2>4, <2>6 DEF Objects
<1> QED
  BY <1>4, <1>5

\* ... when a read finds the writer it depends on, ...
LEMMA ObjectsIdentify ==
    ASSUME Control, Bitmaps, Objects, NEW w \in Workers, identify(w)
    PROVE  Objects'
<1>0. PICK k : k = row[w]
  OBVIOUS
<1>1. /\ k \in Keys /\ phase = "read" /\ txs \in Workloads /\ pc[w] = "identify"
      /\ op[w] \in ReadsOf(k) /\ RowOf(op[w]) = k
      /\ UNCHANGED <<epoch, phase, txs, db, todo, op, row, pending_, placeholders_, master_,
                     previous_master_, core_bitmap_>>
      /\ Goto(w, "placeholder_lock") /\ pc'[w] = "placeholder_lock"
  BY <1>0 DEF identify, Goto, batchVars, opVars, bitmapVars, objectVars, Control, ControlTypeOK,
     PhaseLabels, OwnOperations, Filing, Referencing, Reading, Writing, RowOf, ReadsOf
<1>2. PICK s \in identify_visible_version(k, Serial(w)) :
         visible_id' = [visible_id EXCEPT ![w] = s]
  BY <1>0 DEF identify
<1> DEFINE before == {u \in Writers(txs, k) : u < op[w][1]}
<1>t. ObjectsTypeOK
  BY DEF Objects
<1>3. /\ op[w][1] \in Serials
      /\ before # {} => Depends(op[w]) = <<epoch, Max(before)>> /\ Max(before) \in Writers(txs, k)
  BY <1>1, <1>t, Dependence
<1>4. identify_visible_version(k, Serial(w)) = IF before = {} THEN {} ELSE {Max(before)}
  <2>1. core_bitmap_[k] = Cores(k)
    BY <1>1 DEF Bitmaps, KeptBitmaps
  <2> QED
    BY <1>1, <1>3, <2>1, VisibleIsSerial DEF Serial
<1>5. before # {} /\ s = Max(before)
  BY <1>2, <1>4
<1> HIDE DEF before
<1>6. s \in Writers(txs, k) /\ Depends(op[w]) = <<epoch, s>> /\ s \in Nat
  <2>1. s \in Writers(txs, k) /\ Depends(op[w]) = <<epoch, s>>
    BY <1>3, <1>5
  <2> QED
    BY <1>1, <1>t, <2>1, VersionNames, SerialsAreNatural
<1>7. visible_id \in [Workers -> Nat]
  BY <1>t DEF ObjectsTypeOK
<1>8. /\ visible_id' \in [Workers -> Nat] /\ visible_id'[w] = s
      /\ \A v \in Workers : v # w => visible_id'[v] = visible_id[v]
  BY <1>2, <1>6, <1>7
<1>9. FoundWriter(w)'
  <2>1. Depends(op[w])' = Depends(op[w])
    BY <1>1 DEF Depends, RowOf
  <2> QED
    BY <1>0, <1>1, <1>6, <1>8, <2>1 DEF FoundWriter
<1>10. Ahead(Referencing)' = Ahead(Referencing)
  <2>1. "placeholder_lock" \in Referencing /\ pc[w] \in Referencing /\ UNCHANGED <<todo, op>>
    BY <1>1 DEF Referencing
  <2> QED
    BY <1>1, <2>1, AheadStays
<1>11. /\ UNCHANGED <<epoch, phase, txs, db, pending_, placeholders_, master_, previous_master_>>
       /\ phase # "exec"
       /\ \A v \in Workers : v # w => /\ op'[v] = op[v] /\ row'[v] = row[v]
                                      /\ visible_id'[v] = visible_id[v]
  BY <1>1, <1>8
<1> QED
  BY <1>1, <1>8, <1>9, <1>10, <1>11, ObjectsKept

\* ... when it is given its version, ...
LEMMA ObjectsPlaced ==
    ASSUME Control, Bitmaps, Objects, NEW w \in Workers, read_master(w) \/ placeholder(w)
    PROVE  /\ Objects'
           /\ phase = "read"
           /\ placeholder(w) =>
                 /\ visible_id[w] \in Writers(txs, row[w])
                 /\ Filed(row[w], visible_id[w]) =
                       {<<epoch, visible_id[w]>>} \cap placeholders_[row[w]]
                 /\ placeholders_'[row[w]] =
                       placeholders_[row[w]] \cup {<<epoch, visible_id[w]>>}
<1>0. PICK k : k = row[w]
  OBVIOUS
<1>1. /\ k \in Keys /\ phase = "read" /\ txs \in Workloads
      /\ pc[w] \in {"identify", "placeholder"}
      /\ op[w] \in ReadsOf(k) /\ RowOf(op[w]) = k /\ op[w] \in Ops(txs)
      /\ UNCHANGED <<epoch, phase, txs, db, todo, op, row, visible_id, master_,
                     previous_master_, core_bitmap_>>
  BY <1>0 DEF read_master, placeholder, batchVars, opVars, bitmapVars, objectVars, Control,
     ControlTypeOK, PhaseLabels, OwnOperations, Filing, Referencing, Reading, Writing, RowOf,
     ReadsOf, Reads
<1>2. PICK l \in {"begin", "unlock"} : Goto(w, l)
  BY DEF read_master, placeholder
<1>t. ObjectsTypeOK /\ RowObjects(k) /\ FoundWriter(w)
  BY <1>1 DEF Objects
<1>3. op[w] \in Ahead(Referencing) /\ Ahead(Referencing)' = Ahead(Referencing) \ {op[w]}
  <2>1. /\ Referencing \subseteq InHand /\ pc[w] \in Referencing /\ l \notin Referencing
        /\ UNCHANGED <<todo, op>>
    BY <1>1 DEF Referencing, InHand
  <2> QED
    BY <1>2, <2>1, AheadLeaves
<1>4. \A j : ReadsOf(j)' = ReadsOf(j)
  BY <1>1 DEF ReadsOf, RowOf
<1>5. /\ Placed(k)' = Placed(k) \cup {op[w]}
      /\ \A j \in Keys : j # k => Placed(j)' = Placed(j)
      /\ \A j : op[w] \notin Placed(j)
  <2>1. ASSUME NEW j \in Keys, j # k PROVE op[w] \notin ReadsOf(j)
    BY <1>1, <2>1 DEF ReadsOf
  <2>2. \A j : Placed(j) = ReadsOf(j) \ Ahead(Referencing)
               /\ Placed(j)' = ReadsOf(j) \ (Ahead(Referencing) \ {op[w]})
    BY <1>1, <1>3, <1>4 DEF Placed
  <2> QED
    BY <1>1, <1>3, <2>1, <2>2
<1>6. \A o : Depends(o)' = Depends(o)
  BY <1>1 DEF Depends, RowOf
<1>7. /\ master_[k] = db[k] /\ previous_master_[k] = NoVersion
      /\ placeholders_[k] = Wanted(k) \ {db[k]}
  BY <1>1, <1>t DEF RowObjects, NewMaster, Collected
<1>8. /\ db[k][1] # epoch /\ \A v \in Wanted(k) : v[1] = epoch /\ v = <<epoch, v[2]>>
  BY <1>1, <1>t, VersionNames, WantedWriters
<1>9. placeholders_[k] = Wanted(k)
  BY <1>7, <1>8
<1>10. Wanted(k)' = Wanted(k) \cup {v \in {Depends(op[w])} : v[1] = epoch}
  BY <1>1, <1>5, <1>6 DEF Wanted
<1>11. \A j \in Keys : j # k => Wanted(j)' = Wanted(j)
  BY <1>1, <1>5, <1>6 DEF Wanted
<1>12. /\ pending_' = [pending_ EXCEPT ![Serial(w)][k] = Depends(op[w])]
       /\ placeholders_' = [placeholders_ EXCEPT ![k] = Wanted(k)']
       /\ Depends(op[w]) \in Versions
       /\ placeholder(w) =>
             /\ visible_id[w] \in Writers(txs, k)
             /\ Filed(k, visible_id[w]) = {<<epoch, visible_id[w]>>} \cap placeholders_[k]
             /\ Wanted(k)' = Wanted(k) \cup {<<epoch, visible_id[w]>>}
  <2>1. CASE read_master(w)
    <3> DEFINE before == {u \in Writers(txs, k) : u < op[w][1]}
    <3>1. /\ op[w][1] \in Serials
          /\ before = {} => Depends(op[w]) = db[k] /\ Depends(op[w])[1] # epoch
      BY <1>1, <1>t, Dependence
    <3>2. core_bitmap_[k] = Cores(k)
      BY <1>1 DEF Bitmaps, KeptBitmaps
    <3>3. identify_visible_version(k, Serial(w)) = IF before = {} THEN {} ELSE {Max(before)}
      BY <1>1, <3>1, <3>2, VisibleIsSerial DEF Serial
    <3>4. before = {}
      BY <1>0, <2>1, <3>3 DEF read_master
    <3>5. Wanted(k)' = Wanted(k)
      BY <1>10, <3>1, <3>4
    <3>6. UNCHANGED placeholders_ /\ placeholders_ \in [Keys -> SUBSET Versions]
      BY <1>t, <2>1 DEF read_master, objectVars, ObjectsTypeOK
    <3>7. pending_' = [pending_ EXCEPT ![Serial(w)][k] = master_[k]]
      BY <1>0, <2>1 DEF read_master
    <3>8. ~placeholder(w)
      BY <2>1 DEF read_master, placeholder
    <3>9. placeholders_' = [placeholders_ EXCEPT ![k] = Wanted(k)']
      BY <1>9, <3>5, <3>6
    <3> QED
      BY <1>1, <1>7, <1>t, <3>1, <3>4, <3>7, <3>8, <3>9, VersionNames
  <2>2. CASE placeholder(w)
    <3>1. PICK s : s = visible_id[w]
      OBVIOUS
    <3>2. s \in Writers(txs, k) /\ Depends(op[w]) = <<epoch, s>>
      BY <1>0, <1>t, <2>2, <3>1 DEF placeholder, FoundWriter
    <3>3. <<epoch, s>> \in Versions
      BY <1>1, <1>t, <3>2, VersionNames
    <3>4. Filed(k, s) = {<<epoch, s>>} \cap placeholders_[k]
      BY <1>8, <1>9 DEF Filed
    <3>5. Wanted(k)' = Wanted(k) \cup {<<epoch, s>>}
      BY <1>10, <3>2
    <3>6. placeholders_ \in [Keys -> SUBSET Versions]
      BY <1>t DEF ObjectsTypeOK
    <3>7. \/ /\ Filed(k, s) = {}
             /\ placeholders_' = [placeholders_ EXCEPT ![k] = @ \cup {<<epoch, s>>}]
             /\ pending_' = [pending_ EXCEPT ![Serial(w)][k] = <<epoch, s>>]
          \/ /\ \E u \in Filed(k, s) : pending_' = [pending_ EXCEPT ![Serial(w)][k] = u]
             /\ UNCHANGED placeholders_
      BY <1>0, <2>2, <3>1 DEF placeholder
    <3>8. /\ placeholders_' = [placeholders_ EXCEPT ![k] = Wanted(k)']
          /\ pending_' = [pending_ EXCEPT ![Serial(w)][k] = <<epoch, s>>]
      <4>1. CASE Filed(k, s) = {}
        BY <1>9, <3>5, <3>7, <4>1
      <4>2. CASE Filed(k, s) # {}
        <5>1. Filed(k, s) = {<<epoch, s>>} /\ <<epoch, s>> \in placeholders_[k]
          BY <3>4, <4>2
        <5>2. UNCHANGED placeholders_
              /\ pending_' = [pending_ EXCEPT ![Serial(w)][k] = <<epoch, s>>]
          BY <3>7, <5>1
        <5> QED
          BY <1>9, <3>5, <3>6, <5>1, <5>2
      <4> QED
        BY <4>1, <4>2
    <3> QED
      BY <3>1, <3>2, <3>3, <3>4, <3>5, <3>8
  <2> QED
    BY <2>1, <2>2
<1>13. /\ placeholders_'[k] = Wanted(k)'
       /\ \A j \in Keys : j # k => placeholders_'[j] = placeholders_[j]
  BY <1>1, <1>12, <1>t DEF ObjectsTypeOK
<1>14. op[w][1] \in Serials /\ Serial(w) = op[w][1]
  BY <1>1, OperationsOfBatch DEF Serial
<1>15. ObjectsTypeOK'
  <2>1. Wanted(k)' \in SUBSET Versions
    <3>1. Wanted(k) \in SUBSET Versions
      BY <1>1, <1>t, WantedWriters
    <3> QED
      BY <1>10, <1>12, <3>1
  <2>2. placeholders_' \in [Keys -> SUBSET Versions]
    BY <1>12, <1>t, <2>1 DEF ObjectsTypeOK
  <2>3. pending_' \in [Serials -> [Keys -> Versions \cup {NoVersion}]]
    BY <1>12, <1>t DEF ObjectsTypeOK
  <2> QED
    BY <1>1, <1>t, <2>2, <2>3 DEF ObjectsTypeOK
<1>16. ASSUME NEW j \in Keys PROVE RowObjects(j)'
  <2>1. CASE j = k
    <3>1. \A v \in Wanted(k)' : v[1] = epoch
      BY <1>8, <1>10
    <3>2. db[k] \notin Wanted(k)'
      BY <1>8, <3>1
    <3> QED
      BY <1>1, <1>7, <1>13, <2>1, <3>2 DEF RowObjects, NewMaster, Collected
  <2>2. CASE j # k
    <3>1. RowObjects(j)
      BY DEF Objects
    <3>2. /\ UNCHANGED <<epoch, phase, txs>> /\ db'[j] = db[j] /\ master_'[j] = master_[j]
          /\ previous_master_'[j] = previous_master_[j] /\ placeholders_'[j] = placeholders_[j]
          /\ Wanted(j)' = Wanted(j) /\ phase # "exec"
      BY <1>1, <1>11, <1>13, <2>2
    <3> QED
      BY <3>1, <3>2, RowObjectsKept
  <2> QED
    BY <2>1, <2>2
<1>17. ASSUME NEW j \in Keys PROVE GivenVersions(j)'
  <2> SUFFICES ASSUME NEW o \in Placed(j)' PROVE pending_'[o[1]][j] = Depends(o)
    BY <1>6 DEF GivenVersions
  <2>1. CASE o = op[w]
    <3>1. j = k
      BY <1>5, <2>1
    <3> QED
      BY <1>1, <1>12, <1>14, <1>t, <2>1, <3>1 DEF ObjectsTypeOK
  <2>2. CASE o # op[w]
    <3>1. o \in Placed(j) /\ o \in Ops(txs) /\ RowOf(o) = j
      BY <1>5, <2>2 DEF Placed, ReadsOf, Reads
    <3>2. pending_[o[1]][j] = Depends(o) /\ o[1] \in Serials
      BY <1>1, <3>1, OperationsOfBatch DEF Objects, GivenVersions
    <3>3. ~(o[1] = op[w][1] /\ j = k)
      BY <1>1, <2>2, <3>1, OneOperationPerRow DEF RowOf
    <3>4. pending_'[o[1]][j] = pending_[o[1]][j]
      BY <1>1, <1>12, <1>14, <1>t, <3>2, <3>3 DEF ObjectsTypeOK
    <3> QED
      BY <3>2, <3>4
  <2> QED
    BY <2>1, <2>2
<1>18. ASSUME NEW v \in Workers PROVE FoundWriter(v)'
  <2>1. pc'[w] = l /\ (v # w => pc'[v] = pc[v])
    BY <1>2 DEF Goto, Control, ControlTypeOK
  <2>2. CASE v = w
    BY <2>1, <2>2 DEF FoundWriter
  <2>3. CASE v # w
    <3>1. FoundWriter(v)
      BY DEF Objects
    <3>2. /\ pc'[v] = pc[v] /\ op'[v] = op[v] /\ row'[v] = row[v]
          /\ visible_id'[v] = visible_id[v] /\ UNCHANGED <<epoch, txs, db>>
      BY <1>1, <2>1, <2>3
    <3> QED
      BY <3>1, <3>2, FoundWriterKept
  <2> QED
    BY <2>2, <2>3
<1>19. Objects'
  BY <1>15, <1>16, <1>17, <1>18 DEF Objects
<1> QED
  BY <1>0, <1>1, <1>9, <1>12, <1>13, <1>19

\* The versions a writer looks for are those of this epoch.
LEMMA FiledVersions ==
    ASSUME Control, Objects, NEW k \in Keys, NEW s
    PROVE  Filed(k, s) = {<<epoch, s>>} \cap placeholders_[k]
<1>1. \A v \in placeholders_[k] : v \in Wanted(k)
  BY DEF Objects, RowObjects
<1>2. \A v \in placeholders_[k] : v = <<epoch, v[2]>>
  BY <1>1, WantedWriters DEF Objects
<1> QED
  BY <1>2 DEF Filed

\* ... when the final writer replaces the master, ...
LEMMA ObjectsFinalWriter ==
    ASSUME Control, Bitmaps, Objects, NEW w \in Workers, final_writer(w)
    PROVE  /\ Objects'
           /\ phase = "exec" /\ row[w] \in Keys
           /\ Serial(w) = Max(Writers(txs, row[w])) /\ Serial(w) \in Writers(txs, row[w])
           /\ master_[row[w]] = db[row[w]] /\ previous_master_[row[w]] = NoVersion
           /\ master_' = [master_ EXCEPT ![row[w]] = <<epoch, Serial(w)>>]
           /\ version' = [version EXCEPT ![w] = <<epoch, Serial(w)>>]
           /\ placeholders_' =
                 [placeholders_ EXCEPT ![row[w]] = @ \ {<<epoch, Serial(w)>>}]
<1>0. PICK k : k = row[w]
  OBVIOUS
<1>s. PICK s : s = Serial(w)
  OBVIOUS
<1>1. /\ k \in Keys /\ phase = "exec" /\ txs \in Workloads /\ pc[w] = "identify_write"
      /\ UNCHANGED <<epoch, phase, txs, db, todo, op, row, pending_, visible_id, ref_cnt_>>
      /\ Goto(w, "write_unlock")
  BY <1>0 DEF final_writer, batchVars, opVars, Control, ControlTypeOK, PhaseLabels, OwnOperations,
     Filing, Referencing, Reading, Writing
<1>2. s = Max(Writers(txs, k)) /\ s \in Writers(txs, k) /\ FinalPending(k)
  BY <1>0, <1>s, BitmapsCleared
<1>3. core_bitmap_[k] # {} /\ core_bitmap_ \in [Keys -> SUBSET Workers]
  <2>1. core_bitmap_[k] = Cores(k)
    BY <1>1, <1>2 DEF Bitmaps, KeptBitmaps
  <2> QED
    BY <1>2, <2>1 DEF Cores, Bitmaps, BitmapsTypeOK
<1>t. ObjectsTypeOK /\ RowObjects(k)
  BY <1>1 DEF Objects
<1>4. /\ master_[k] = db[k] /\ previous_master_[k] = NoVersion
      /\ placeholders_[k] = IF Collected(k) THEN {} ELSE Wanted(k) \ {db[k]}
  BY <1>3, <1>t DEF RowObjects, NewMaster
<1>5. PICK new : new = <<epoch, s>>
  OBVIOUS
<1>6. new \in Versions /\ db[k][1] # epoch /\ new[1] = epoch
  BY <1>1, <1>2, <1>5, <1>t, VersionNames
<1>7. Filed(k, s) = {new} \cap placeholders_[k]
  BY <1>1, <1>5, FiledVersions
<1>8. (IF Filed(k, s) = {} THEN <<epoch, s>> ELSE CHOOSE v \in Filed(k, s) : TRUE) = new
  BY <1>5, <1>7
<1>9. /\ master_' = [master_ EXCEPT ![k] = new]
      /\ version' = [version EXCEPT ![w] = new]
      /\ placeholders_' = [placeholders_ EXCEPT ![k] = @ \ Filed(k, s)]
      /\ previous_master_' = [previous_master_ EXCEPT ![k] = IF ref_cnt_[k] = 0 THEN @ ELSE master_[k]]
      /\ core_bitmap_' = [core_bitmap_ EXCEPT ![k] = {}]
  BY <1>0, <1>s, <1>8 DEF final_writer, Unfile, MasterUnused
<1>10. placeholders_' = [placeholders_ EXCEPT ![k] = @ \ {new}]
  <2>1. placeholders_[k] \ Filed(k, s) = placeholders_[k] \ {new}
    BY <1>7
  <2> QED
    BY <1>9, <2>1
<1>11. /\ master_'[k] = new /\ placeholders_'[k] = placeholders_[k] \ {new}
       /\ previous_master_'[k] = IF ref_cnt_[k] = 0 THEN NoVersion ELSE db[k]
       /\ core_bitmap_'[k] = {}
       /\ \A j \in Keys : j # k => /\ master_'[j] = master_[j]
                                   /\ placeholders_'[j] = placeholders_[j]
                                   /\ previous_master_'[j] = previous_master_[j]
                                   /\ core_bitmap_'[j] = core_bitmap_[j]
  BY <1>1, <1>3, <1>4, <1>9, <1>10, <1>t DEF ObjectsTypeOK
<1>12. /\ \A j : Placed(j)' = Placed(j) /\ Wanted(j)' = Wanted(j)
       /\ \A o : Depends(o)' = Depends(o)
  BY <1>1, SameWanted
<1>13. ObjectsTypeOK'
  <2>1. master_' \in [Keys -> Versions] /\ previous_master_' \in [Keys -> Versions \cup {NoVersion}]
    BY <1>6, <1>9, <1>t DEF ObjectsTypeOK
  <2>2. placeholders_' \in [Keys -> SUBSET Versions]
    BY <1>10, <1>t DEF ObjectsTypeOK
  <2> QED
    BY <1>1, <1>t, <2>1, <2>2 DEF ObjectsTypeOK
<1>14. ASSUME NEW j \in Keys PROVE RowObjects(j)'
  <2>1. CASE j = k
    <3>1. NewMaster(k)' /\ (Collected(k)' <=> ref_cnt_[k] = 0) /\ (Collected(k) <=> ref_cnt_[k] = 0)
      BY <1>1, <1>2, <1>11 DEF NewMaster, Collected
    <3>2. \A v \in Wanted(k) : v # db[k]
      BY <1>1, <1>6, <1>t, WantedWriters
    <3>3. placeholders_'[k] = IF ref_cnt_[k] = 0 THEN {} ELSE Wanted(k) \ {new}
      BY <1>4, <1>11, <3>1, <3>2
    <3>4. new = <<epoch, Max(Writers(txs, k))>>
      BY <1>2, <1>5
    <3> QED
      BY <1>1, <1>11, <1>12, <2>1, <3>1, <3>3, <3>4 DEF RowObjects
  <2>2. CASE j # k
    <3>1. RowObjects(j)
      BY DEF Objects
    <3>2. /\ UNCHANGED <<epoch, phase, txs>> /\ db'[j] = db[j] /\ master_'[j] = master_[j]
          /\ previous_master_'[j] = previous_master_[j] /\ placeholders_'[j] = placeholders_[j]
          /\ Wanted(j)' = Wanted(j) /\ core_bitmap_'[j] = core_bitmap_[j]
          /\ ref_cnt_'[j] = 0 <=> ref_cnt_[j] = 0
      BY <1>1, <1>11, <1>12, <2>2
    <3> QED
      BY <3>1, <3>2, RowObjectsKept
  <2> QED
    BY <2>1, <2>2
<1>15. \A j \in Keys : GivenVersions(j)'
  BY <1>1, <1>12 DEF Objects, GivenVersions
<1>16. \A v \in Workers : FoundWriter(v)'
  <2>1. \A v \in Workers : pc'[v] \notin {"placeholder_lock", "placeholder"}
    <3>1. \A v \in Workers : pc[v] \notin {"placeholder_lock", "placeholder"}
      BY <1>1 DEF Control, PhaseLabels, Reading, Writing
    <3> QED
      BY <1>1, <3>1 DEF Goto, Control, ControlTypeOK
  <2> QED
    BY <2>1 DEF FoundWriter
<1>17. Objects'
  BY <1>13, <1>14, <1>15, <1>16 DEF Objects
<1> QED
  BY <1>0, <1>s, <1>1, <1>2, <1>4, <1>5, <1>9, <1>10, <1>17

\* ... when the final reader collects, ...
LEMMA ObjectsFinalReader ==
    ASSUME Control, References, Objects, NEW w \in Workers, final_reader(w)
    PROVE  /\ Objects'
           /\ phase = "exec" /\ row[w] \in Keys
           /\ ~Collected(row[w]) /\ Holding(row[w]) = {}
           /\ placeholders_' = [placeholders_ EXCEPT ![row[w]] = {}]
           /\ previous_master_' = [previous_master_ EXCEPT ![row[w]] = NoVersion]
           /\ UNCHANGED master_
<1>0. PICK k : k = row[w]
  OBVIOUS
<1>1. /\ k \in Keys /\ phase = "exec"
      /\ UNCHANGED <<epoch, phase, txs, db, todo, op, row, pending_, visible_id, master_,
                     core_bitmap_>>
      /\ Goto(w, "unlock")
      /\ placeholders_' = [placeholders_ EXCEPT ![k] = {}]
      /\ previous_master_' = [previous_master_ EXCEPT ![k] = NoVersion]
      /\ ref_cnt_' = [ref_cnt_ EXCEPT ![k] = @ - 1]
  BY <1>0, ReferencesRelease DEF final_reader, batchVars, opVars, localVars, bitmapVars,
     LastReference
<1>2. ref_cnt_[k] = 1 /\ ref_cnt_'[k] = 0 /\ Holding(k) = {}
  BY <1>0, ReferencesRelease
<1>t. ObjectsTypeOK /\ ref_cnt_ \in [Keys -> Nat]
  BY DEF Objects, References
<1>3. /\ placeholders_'[k] = {} /\ previous_master_'[k] = NoVersion
      /\ \A j \in Keys : j # k => /\ placeholders_'[j] = placeholders_[j]
                                  /\ previous_master_'[j] = previous_master_[j]
                                  /\ ref_cnt_'[j] = ref_cnt_[j]
  BY <1>1, <1>t DEF ObjectsTypeOK
<1>4. /\ \A j : Placed(j)' = Placed(j) /\ Wanted(j)' = Wanted(j)
      /\ \A o : Depends(o)' = Depends(o)
  BY <1>1, SameWanted
<1>5. ObjectsTypeOK'
  BY <1>1, <1>t DEF ObjectsTypeOK
<1>6. ASSUME NEW j \in Keys PROVE RowObjects(j)'
  <2>1. RowObjects(j)
    BY DEF Objects
  <2>2. CASE j = k
    <3>1. Collected(k)' /\ ~Collected(k) /\ (NewMaster(k)' <=> NewMaster(k))
      BY <1>1, <1>2 DEF Collected, NewMaster
    <3> QED
      BY <1>1, <1>3, <2>1, <2>2, <3>1 DEF RowObjects
  <2>3. CASE j # k
    <3>2. /\ UNCHANGED <<epoch, phase, txs>> /\ db'[j] = db[j] /\ master_'[j] = master_[j]
          /\ previous_master_'[j] = previous_master_[j] /\ placeholders_'[j] = placeholders_[j]
          /\ Wanted(j)' = Wanted(j) /\ core_bitmap_'[j] = core_bitmap_[j]
          /\ ref_cnt_'[j] = 0 <=> ref_cnt_[j] = 0
      BY <1>1, <1>3, <1>4, <2>3
    <3> QED
      BY <2>1, <3>2, RowObjectsKept
  <2> QED
    BY <2>2, <2>3
<1>7. \A j \in Keys : GivenVersions(j)'
  BY <1>1, <1>4 DEF Objects, GivenVersions
<1>8. \A v \in Workers : FoundWriter(v)'
  <2>1. \A v \in Workers : pc'[v] \notin {"placeholder_lock", "placeholder"}
    <3>1. \A v \in Workers : pc[v] \notin {"placeholder_lock", "placeholder"}
      BY <1>1 DEF Control, PhaseLabels, Reading, Writing
    <3> QED
      BY <1>1, <3>1 DEF Goto, Control, ControlTypeOK
  <2> QED
    BY <2>1 DEF FoundWriter
<1>9. Objects'
  BY <1>5, <1>6, <1>7, <1>8 DEF Objects
<1>10. ~Collected(k)
  BY <1>2 DEF Collected
<1> QED
  BY <1>0, <1>1, <1>2, <1>9, <1>10

\* ... and with every other step, so that
LEMMA ObjectsNext ==
    Control /\ Bitmaps /\ References /\ Objects /\ [Next]_vars => Objects'
<1> SUFFICES ASSUME Control, Bitmaps, References, Objects, [Next]_vars PROVE Objects'
  OBVIOUS
<1>1. CASE UNCHANGED vars
  <2>1. /\ UNCHANGED <<epoch, phase, txs, db, todo, op, row, pc, pending_, visible_id,
                       placeholders_, master_, previous_master_, core_bitmap_, ref_cnt_>>
    BY <1>1 DEF vars, batchVars, opVars, localVars, bitmapVars, objectVars
  <2>2. Ahead(Referencing)' = Ahead(Referencing)
    BY <2>1 DEF Ahead
  <2>3. 0 \in Workers
    BY NAssumption DEF Workers
  <2>4. PICK w \in Workers : w = 0
    BY <2>3
  <2>5. Goto(w, pc[w])
    BY <2>1 DEF Goto, Control, ControlTypeOK
  <2>6. FoundWriter(w)' /\ visible_id' \in [Workers -> Nat]
    BY <2>1, FoundWriterKept DEF Objects, ObjectsTypeOK
  <2> QED
    BY <2>1, <2>2, <2>5, <2>6, ObjectsKept
<1>2. CASE StartReadPhase \/ StartExecution \/ NewEpoch
  BY <1>2, ObjectsBarrier
<1>3. ASSUME NEW w \in Workers, Step(w) PROVE Objects'
  <2>t. /\ visible_id \in [Workers -> Nat] /\ Referencing \subseteq InHand
        /\ row \in [Workers -> Keys] /\ op \in [Workers -> Serials \X Nat]
        /\ pc \in [Workers -> Labels]
    BY DEF Objects, ObjectsTypeOK, InHand, Control, ControlTypeOK
  <2>f. ASSUME NEW l, Goto(w, l), l \notin {"placeholder_lock", "placeholder"}
        PROVE  FoundWriter(w)'
    <3>1. pc'[w] = l
      BY <2>f, <2>t DEF Goto
    <3> QED
      BY <2>f, <3>1 DEF FoundWriter
  <2>1. CASE identify(w)
    BY <2>1, ObjectsIdentify
  <2>2. CASE read_master(w) \/ placeholder(w)
    BY <2>2, ObjectsPlaced
  <2>3. CASE final_writer(w)
    BY <2>3, ObjectsFinalWriter
  <2>4. CASE final_reader(w)
    BY <2>4, ObjectsFinalReader
  <2>5. CASE Begin(w)
    <3>1. PICK o \in todo[w] :
             /\ op' = [op EXCEPT ![w] = o] /\ todo' = [todo EXCEPT ![w] = @ \ {o}]
             /\ row' = [row EXCEPT ![w] = txs[o[1]][o[2]].index]
             /\ \/ phase = "write" /\ UNCHANGED pc
                \/ phase = "read" /\ Goto(w, "add_ref")
                \/ phase = "exec" /\ o \in Reads(txs) /\ Goto(w, "wait_stable")
                \/ phase = "exec" /\ o \in Updates(txs) /\ Goto(w, "write_lock")
      BY <2>5, BeginTakes
    <3>2. /\ pc[w] = "begin"
          /\ UNCHANGED <<epoch, phase, txs, db, pending_, visible_id, placeholders_, master_,
                         previous_master_, core_bitmap_, ref_cnt_>>
      BY <2>5 DEF Begin, batchVars, bitmapVars, objectVars
    <3>3. PICK l \in {"begin", "add_ref", "wait_stable", "write_lock"} :
             Goto(w, l) /\ (phase = "read" => l = "add_ref")
      BY <2>t, <3>1, <3>2 DEF Goto
    <3>4. Begins(w, o, l)
      BY <3>1, <3>3 DEF Begins, Goto
    <3>5. pc[w] \notin Referencing /\ "add_ref" \in Referencing
      BY <3>2 DEF Referencing
    <3>6. phase = "read" => Ahead(Referencing)' = Ahead(Referencing)
      BY <2>t, <3>3, <3>4, <3>5, AheadBegins
    <3>7. FoundWriter(w)'
      BY <2>f, <3>3
    <3>8. /\ visible_id' \in [Workers -> Nat]
          /\ \A v \in Workers : v # w => /\ op'[v] = op[v] /\ row'[v] = row[v]
                                         /\ visible_id'[v] = visible_id[v]
      BY <2>t, <3>1, <3>2
    <3> QED
      BY <3>2, <3>3, <3>6, <3>7, <3>8, ObjectsKept
  <2>6. CASE finalize_try_lock(w) \/ update_bitmap(w)
    <3>1. /\ phase = "write"
          /\ UNCHANGED <<epoch, phase, txs, db, op, pending_, visible_id, placeholders_, master_,
                         previous_master_>>
          /\ \A v \in Workers : v # w => row'[v] = row[v]
      BY <2>6, <2>t DEF finalize_try_lock, update_bitmap, batchVars, opVars, localVars, objectVars,
         Control, PhaseLabels, ControlTypeOK, Referencing, Reading, Writing
    <3>2. PICK l \in Filing : Goto(w, l)
      BY <2>6 DEF finalize_try_lock, update_bitmap, Filing
    <3>3. FoundWriter(w)'
      BY <2>f, <3>2 DEF Filing
    <3>4. /\ visible_id' \in [Workers -> Nat]
          /\ \A v \in Workers : v # w => /\ op'[v] = op[v] /\ row'[v] = row[v]
                                         /\ visible_id'[v] = visible_id[v]
      BY <2>t, <3>1
    <3> QED
      BY <3>1, <3>2, <3>3, <3>4, ObjectsKept
  <2>7. CASE \/ EndLoop(w) \/ unlock(w) \/ finalize_unlock(w) \/ finalize_end(w) \/ add_ref(w)
             \/ add_first_ref(w) \/ placeholder_lock(w) \/ wait_stable_and_execute_read(w)
             \/ decrement_ref_cnt(w) \/ gc_lock(w) \/ write_lock(w) \/ other_writer(w)
             \/ write_unlock(w) \/ write_rec(w) \/ write_status(w)
    <3> USE DEF EndLoop, unlock, finalize_unlock, finalize_end, add_ref, add_first_ref,
                placeholder_lock, wait_stable_and_execute_read, decrement_ref_cnt, gc_lock,
                write_lock, other_writer, write_unlock, write_rec, write_status, Lock, SetStatus
    <3>1. PICK l : /\ Goto(w, l) /\ (l \in Referencing <=> pc[w] \in Referencing)
                   /\ \/ l \notin {"placeholder_lock", "placeholder"}
                      \/ pc[w] = "placeholder_lock"
      BY <2>7 DEF Referencing
    <3>2. UNCHANGED <<epoch, phase, txs, db, todo, op, row, pending_, visible_id, placeholders_,
                      master_, previous_master_, core_bitmap_>>
      BY <2>7 DEF batchVars, opVars, localVars, bitmapVars, objectVars
    <3>3. decrement_ref_cnt(w) \/ add_ref(w) \/ add_first_ref(w) \/ UNCHANGED ref_cnt_
      BY <2>7
    <3>4. ~decrement_ref_cnt(w) => UNCHANGED ref_cnt_ \/ phase # "exec"
      BY <3>3 DEF Control, ControlTypeOK, PhaseLabels, Reading, Writing
    <3>5. decrement_ref_cnt(w) => ref_cnt_' = [ref_cnt_ EXCEPT ![row[w]] = @ - 1]
      OBVIOUS
    <3> HIDE DEF EndLoop, unlock, finalize_unlock, finalize_end, add_ref, add_first_ref,
                placeholder_lock, wait_stable_and_execute_read, decrement_ref_cnt, gc_lock,
                write_lock, other_writer, write_unlock, write_rec, write_status, Lock, SetStatus
    <3>6. Ahead(Referencing)' = Ahead(Referencing)
      BY <3>1, <3>2, AheadStays
    <3>7. phase = "exec" => \A k \in Keys : ref_cnt_'[k] = 0 <=> ref_cnt_[k] = 0
      <4>1. CASE decrement_ref_cnt(w)
        <5>1. ref_cnt_[row[w]] # 0 /\ ref_cnt_'[row[w]] # 0
          BY <4>1, ReferencesRelease
        <5>2. \A k \in Keys : k # row[w] => ref_cnt_'[k] = ref_cnt_[k]
          BY <3>5, <4>1 DEF References
        <5> QED
          BY <5>1, <5>2
      <4>2. CASE ~decrement_ref_cnt(w)
        BY <3>4, <4>2
      <4> QED
        BY <4>1, <4>2
    <3>8. FoundWriter(w)'
      <4>1. CASE pc[w] = "placeholder_lock"
        <5>1. FoundWriter(w)
          BY DEF Objects
        <5>2. Depends(op[w])' = Depends(op[w])
          BY <3>2 DEF Depends, RowOf
        <5> QED
          BY <3>2, <4>1, <5>1, <5>2 DEF FoundWriter
      <4> QED
        BY <2>f, <3>1, <4>1
    <3>9. visible_id' \in [Workers -> Nat]
      BY <2>t, <3>2
    <3> QED
      BY <3>1, <3>2, <3>6, <3>7, <3>8, <3>9, ObjectsKept
  <2> QED
    BY <1>3, <2>1, <2>2, <2>3, <2>4, <2>5, <2>6, <2>7 DEF Step
<1> QED
  BY <1>1, <1>2, <1>3 DEF Next
-------------------------------------------------------------------------------
(***************************************************************************)
(* The fifth invariant: the status of every version                        *)
(***************************************************************************)

\* Where an operation has not taken effect, as in Executed
Executing == {"wait_stable", "write_lock", "identify_write", "write_unlock", "write_rec",
              "write_status"}

Owned(k) == (placeholders_[k] \cup {master_[k], previous_master_[k]}) \ {NoVersion}

\* v is the version of a writer of k that has still to store it.
Unexecuted(k, v) ==
    \E u \in Updates(txs) : RowOf(u) = k /\ v = <<epoch, u[1]>> /\ u \notin Executed

\* A writer has stored the record of v and not yet its status.
Written(k, v) ==
    \E w \in Workers : pc[w] = "write_status" /\ row[w] = k /\ v = <<epoch, op[w][1]>>

StatusOf(k, v) ==
    IF v \notin Owned(k) THEN "none"
    ELSE IF ~Unexecuted(k, v) THEN "stable"
    ELSE IF Written(k, v) THEN "written" ELSE "pending"

StatusTypeOK ==
    /\ status \in [Keys -> [Versions -> {"none", "pending", "written", "stable"}]]
    /\ version \in [Workers -> Versions \cup {NoVersion}]

StatusRight == \A k \in Keys : \A v \in Versions : status[k][v] = StatusOf(k, v)

Storing == {"write_unlock", "write_rec", "write_status"}

\* A writer has the version of its name if the row has it.
VersionRight(w) ==
    pc[w] \in Storing =>
        /\ version[w] = IF <<epoch, op[w][1]>> \in Owned(row[w])
                        THEN <<epoch, op[w][1]>> ELSE NoVersion
        /\ pc[w] # "write_unlock" => version[w] # NoVersion

\* A read was not executed before the write it depends on.
ReadsProduced ==
    \A k \in Keys : \A o \in ReadsOf(k) : o \in Executed => ~Unexecuted(k, Depends(o))

Statuses ==
    /\ StatusTypeOK
    /\ StatusRight
    /\ \A w \in Workers : VersionRight(w)
    /\ ReadsProduced

\* Executed is what is no longer ahead.
LEMMA ExecutedIs ==
    /\ Executing \subseteq InHand
    /\ Executed = IF phase = "exec" THEN Ops(txs) \ Ahead(Executing) ELSE {}
    /\ Executed' = IF phase' = "exec" THEN Ops(txs') \ Ahead(Executing)' ELSE {}
  BY DEF Executed, Ahead, Executing, InHand, Reading, Writing

\* A step of a worker on its operation executes at most that operation, and so
\* changes what is to be stored at most for the version of its name.
LEMMA ExecutedStep ==
    ASSUME Control, phase = "exec", NEW w \in Workers, NEW l, Goto(w, l), pc[w] \in InHand,
           l \in Executing => pc[w] \in Executing,
           UNCHANGED <<epoch, phase, txs, todo, op, row>>
    PROVE  /\ op[w] \in Ops(txs) /\ RowOf(op[w]) = row[w]
           /\ Executed' = Executed \cup
                 IF pc[w] \in Executing /\ l \notin Executing THEN {op[w]} ELSE {}
           /\ pc[w] \in Executing => op[w] \notin Executed
           /\ \A k, v : k # row[w] \/ v # <<epoch, op[w][1]>> =>
                 (Unexecuted(k, v)' <=> Unexecuted(k, v)) /\ (Written(k, v)' <=> Written(k, v))
           /\ op[w] \in Reads(txs) \/ l \in Executing \/ pc[w] \notin Executing =>
                 \A k, v : Unexecuted(k, v)' <=> Unexecuted(k, v)
<1>1. op[w] \in Ops(txs) /\ RowOf(op[w]) = row[w]
  BY DEF Control, OwnOperations, InHand, Share, RoundRobin, RowOf
<1>2. pc'[w] = l /\ \A v \in Workers : v # w => pc'[v] = pc[v]
  BY DEF Control, ControlTypeOK, Goto
<1>3. /\ Executed' = Executed \cup
            IF pc[w] \in Executing /\ l \notin Executing THEN {op[w]} ELSE {}
      /\ pc[w] \in Executing => op[w] \notin Executed
  <2>1. CASE pc[w] \in Executing /\ l \notin Executing
    <3>1. op[w] \in Ahead(Executing) /\ Ahead(Executing)' = Ahead(Executing) \ {op[w]}
      BY <2>1, ExecutedIs, AheadLeaves
    <3> QED
      BY <1>1, <2>1, <3>1, ExecutedIs
  <2>2. CASE pc[w] \in Executing <=> l \in Executing
    <3>1. Ahead(Executing)' = Ahead(Executing)
      BY <2>2, AheadStays
    <3>2. pc[w] \in Executing => op[w] \in Ahead(Executing)
      BY AheadMembers
    <3> QED
      BY <2>2, <3>1, <3>2, ExecutedIs
  <2> QED
    BY <2>1, <2>2
<1>4. ASSUME NEW k, NEW v, k # row[w] \/ v # <<epoch, op[w][1]>>
      PROVE  (Unexecuted(k, v)' <=> Unexecuted(k, v)) /\ (Written(k, v)' <=> Written(k, v))
  <2>1. Unexecuted(k, v)' <=> Unexecuted(k, v)
    <3>1. ASSUME NEW u, RowOf(u) = k, v = <<epoch, u[1]>> PROVE u \in Executed' <=> u \in Executed
      BY <1>1, <1>3, <1>4, <3>1
    <3> QED
      BY <3>1 DEF Unexecuted, RowOf
  <2>2. Written(k, v)' <=> Written(k, v)
    BY <1>2, <1>4 DEF Written
  <2> QED
    BY <2>1, <2>2
<1>5. ASSUME op[w] \in Reads(txs) \/ l \in Executing \/ pc[w] \notin Executing, NEW k, NEW v
      PROVE  Unexecuted(k, v)' <=> Unexecuted(k, v)
  <2>1. \A u \in Updates(txs) : u \in Executed' <=> u \in Executed
    BY <1>3, <1>5 DEF Reads, Updates
  <2> QED
    BY <2>1 DEF Unexecuted, RowOf
<1> QED
  BY <1>1, <1>3, <1>4, <1>5

\* An operation that has not been executed is to be stored; nobody else stores it.
LEMMA OwnVersion ==
    ASSUME Control, NEW w \in Workers, pc[w] \in Writing
    PROVE  /\ phase = "exec" /\ op[w] \in Updates(txs) /\ RowOf(op[w]) = row[w]
           /\ row[w] \in Keys /\ op[w][1] \in Serials
           /\ op[w] \notin Executed /\ Unexecuted(row[w], <<epoch, op[w][1]>>)
           /\ Written(row[w], <<epoch, op[w][1]>>) <=> pc[w] = "write_status"
           /\ \A x \in Workers : x # w /\ pc[x] \in Writing /\ row[x] = row[w] =>
                 op[x][1] # op[w][1]
           /\ \A u \in Ops(txs) : RowOf(u) = row[w] /\ u[1] = op[w][1] => u = op[w]
<1>1. /\ phase = "exec" /\ op[w] \in Updates(txs) /\ RowOf(op[w]) = row[w]
      /\ row[w] \in Keys /\ op[w] \in Ops(txs) /\ txs \in Workloads /\ pc[w] \in InHand
  BY DEF Control, ControlTypeOK, PhaseLabels, OwnOperations, Writing, Filing, Referencing, RowOf,
     Updates, InHand
<1>2. op[w][1] \in Serials
  BY <1>1, OperationsOfBatch
<1>3. op[w] \notin Executed
  <2>1. op[w] \in Ahead(Executing)
    BY AheadMembers DEF Executing, Writing
  <2> QED
    BY <1>1, <2>1, ExecutedIs
<1>4. ASSUME NEW u \in Ops(txs), RowOf(u) = row[w], u[1] = op[w][1] PROVE u = op[w]
  BY <1>1, <1>4, OneOperationPerRow DEF RowOf
<1>5. ASSUME NEW x \in Workers, x # w, pc[x] \in Writing, row[x] = row[w] PROVE op[x][1] # op[w][1]
  <2>1. op[x] \in Ops(txs) /\ RowOf(op[x]) = row[x] /\ pc[x] \in InHand
    BY <1>5 DEF Control, OwnOperations, Writing, RowOf, Updates, InHand
  <2>2. op[x] # op[w]
    BY <1>1, <1>5, <2>1, OneWorkerPerOperation
  <2> QED
    BY <1>4, <1>5, <2>1, <2>2
<1>6. Written(row[w], <<epoch, op[w][1]>>) <=> pc[w] = "write_status"
  BY <1>5 DEF Written, Writing
<1>7. Unexecuted(row[w], <<epoch, op[w][1]>>)
  BY <1>1, <1>3 DEF Unexecuted
<1> QED
  BY <1>1, <1>2, <1>3, <1>4, <1>5, <1>6, <1>7

\* A step that leaves the versions and their writers alone.
LEMMA StatusQuiet ==
    ASSUME Statuses, UNCHANGED <<epoch, status, placeholders_, master_, previous_master_>>,
           \A k, v : Unexecuted(k, v)' <=> Unexecuted(k, v),
           version' \in [Workers -> Versions \cup {NoVersion}],
           \A x \in Workers : pc[x] \in Storing \/ pc'[x] \in Storing =>
               pc'[x] = pc[x] /\ op'[x] = op[x] /\ row'[x] = row[x] /\ version'[x] = version[x]
    PROVE  StatusTypeOK' /\ StatusRight' /\ \A x \in Workers : VersionRight(x)'
<1>1. \A k : Owned(k)' = Owned(k)
  BY DEF Owned
<1>2. \A k, v : Written(k, v)' <=> Written(k, v)
  BY DEF Written, Storing
<1>3. \A k, v : StatusOf(k, v)' = StatusOf(k, v)
  BY <1>1, <1>2 DEF StatusOf
<1>4. StatusTypeOK'
  BY DEF Statuses, StatusTypeOK
<1>5. StatusRight'
  BY <1>3 DEF Statuses, StatusRight
<1>6. ASSUME NEW x \in Workers, pc'[x] \in Storing PROVE VersionRight(x)'
  <2>1. VersionRight(x) /\ pc'[x] = pc[x] /\ op'[x] = op[x] /\ row'[x] = row[x]
        /\ version'[x] = version[x]
    BY <1>6 DEF Statuses
  <2> QED
    BY <1>1, <1>6, <2>1 DEF VersionRight
<1>7. ASSUME NEW x \in Workers, pc'[x] \notin Storing PROVE VersionRight(x)'
  BY <1>7 DEF VersionRight
<1> QED
  BY <1>4, <1>5, <1>6, <1>7

\* Within an epoch more and more is executed; a new read must find its write done.
LEMMA ReadsProducedKept ==
    ASSUME ReadsProduced, UNCHANGED <<epoch, txs, db>>,
           \A k, v : Unexecuted(k, v)' => Unexecuted(k, v),
           \A k \in Keys : \A o \in ReadsOf(k) :
               o \in Executed' => o \in Executed \/ ~Unexecuted(k, Depends(o))
    PROVE  ReadsProduced'
<1>1. \A k : ReadsOf(k)' = ReadsOf(k)
  BY DEF ReadsOf, RowOf
<1>2. \A o : Depends(o)' = Depends(o)
  BY DEF Depends, RowOf
<1> QED
  BY <1>1, <1>2 DEF ReadsProduced

\* A step of worker w that changes the versions of its row k: it may delete some,
\* and it sets the status of the version m of its name.
LEMMA StatusStep ==
    ASSUME Control, Statuses, phase = "exec", NEW w \in Workers, NEW l, Goto(w, l),
           pc[w] \in InHand, l \in Executing => pc[w] \in Executing,
           UNCHANGED <<epoch, phase, txs, todo, op, row>>,
           NEW k, k = row[w], NEW m, m = <<epoch, op[w][1]>>,
           \A j \in Keys : j # k => status'[j] = status[j] /\ Owned(j)' = Owned(j),
           \A v \in Versions : v # m =>
               /\ status'[k][v] = IF v \in Owned(k)' THEN status[k][v] ELSE "none"
               /\ v \in Owned(k)' => v \in Owned(k),
           m \in Versions => status'[k][m] = StatusOf(k, m)'
    PROVE  StatusRight'
<1>1. \A j, v : j # k \/ v # m =>
         (Unexecuted(j, v)' <=> Unexecuted(j, v)) /\ (Written(j, v)' <=> Written(j, v))
  BY ExecutedStep
<1>2. ASSUME NEW j \in Keys, NEW v \in Versions PROVE status'[j][v] = StatusOf(j, v)'
  <2>0. status[j][v] = StatusOf(j, v)
    BY DEF Statuses, StatusRight
  <2>1. CASE j # k
    <3>1. status'[j] = status[j] /\ Owned(j)' = Owned(j)
      BY <2>1
    <3> QED
      BY <1>1, <2>0, <2>1, <3>1 DEF StatusOf
  <2>2. CASE j = k /\ v # m
    <3>1. /\ status'[k][v] = IF v \in Owned(k)' THEN status[k][v] ELSE "none"
          /\ v \in Owned(k)' => v \in Owned(k)
      BY <2>2
    <3>2. (Unexecuted(k, v)' <=> Unexecuted(k, v)) /\ (Written(k, v)' <=> Written(k, v))
      BY <1>1, <2>2
    <3>3. StatusOf(k, v)' = IF v \in Owned(k)' THEN StatusOf(k, v) ELSE "none"
      BY <3>1, <3>2 DEF StatusOf
    <3> QED
      BY <2>0, <2>2, <3>1, <3>3
  <2>3. CASE j = k /\ v = m
    BY <2>3
  <2> QED
    BY <2>1, <2>2, <2>3
<1> QED
  BY <1>2 DEF StatusRight

\* The writers' versions stay theirs.
LEMMA VersionRightKept ==
    ASSUME NEW x \in Workers, VersionRight(x), epoch' = epoch, pc'[x] = pc[x], op'[x] = op[x],
           row'[x] = row[x], version'[x] = version[x],
           pc[x] \in Storing =>
               (<<epoch, op[x][1]>> \in Owned(row[x])' <=> <<epoch, op[x][1]>> \in Owned(row[x]))
    PROVE  VersionRight(x)'
<1>1. CASE pc[x] \in Storing
  <2>1. PICK k : k = row[x]
    OBVIOUS
  <2>2. PICK m : m = <<epoch, op[x][1]>>
    OBVIOUS
  <2>3. m \in Owned(k)' <=> m \in Owned(k)
    BY <1>1, <2>1, <2>2
  <2>4. VersionRight(x)' <=> /\ version'[x] = IF m \in Owned(k)' THEN m ELSE NoVersion
                             /\ pc'[x] # "write_unlock" => version'[x] # NoVersion
    BY <1>1, <2>1, <2>2 DEF VersionRight
  <2> QED
    BY <1>1, <2>1, <2>2, <2>3, <2>4 DEF VersionRight
<1>2. CASE pc[x] \notin Storing
  BY <1>2 DEF VersionRight
<1> QED
  BY <1>1, <1>2

\* The fifth invariant holds initially, ...
LEMMA InitStatuses == Init => Statuses
<1> SUFFICES ASSUME Init PROVE Statuses
  OBVIOUS
<1>1. Loaded \in Versions /\ NoVersion \notin Versions /\ Loaded[1] = 0 /\ Loaded # NoVersion
  BY SerialsAreNatural, EpochsAssumption DEF Loaded, Versions, NoVersion
<1>2. StatusTypeOK
  BY <1>1 DEF Init, StatusTypeOK, NoVersions
<1>3. Executed = {}
  BY DEF Init, Executed
<1>4. \A k \in Keys : Owned(k) = {Loaded}
  BY <1>1 DEF Init, Owned
<1>5. \A k : ~Unexecuted(k, Loaded)
  BY <1>1 DEF Init, Unexecuted
<1>6. StatusRight
  BY <1>4, <1>5 DEF Init, StatusRight, StatusOf
<1>7. ReadsProduced
  BY <1>3 DEF ReadsProduced
<1>8. \A w \in Workers : VersionRight(w)
  BY DEF Init, VersionRight, Storing
<1> QED
  BY <1>2, <1>6, <1>7, <1>8 DEF Statuses

\* ... at the barriers, ...
LEMMA StatusesBarrier ==
    ASSUME Control, Bitmaps, References, Objects, Statuses,
           StartReadPhase \/ StartExecution \/ NewEpoch
    PROVE  Statuses'
<1>1. /\ AtBarrier /\ pc' = [w \in Workers |-> "begin"] /\ version' = NoVersions
      /\ UNCHANGED <<placeholders_, master_, previous_master_, status>>
  BY DEF StartReadPhase, StartExecution, NewEpoch, LocalsReset, objectVars
<1>2. version' \in [Workers -> Versions \cup {NoVersion}]
  BY <1>1 DEF NoVersions
<1>3. \A x \in Workers : pc[x] \notin Storing /\ pc'[x] \notin Storing
  BY <1>1 DEF AtBarrier, Storing
<1>4. Executed' = {}
  <2>1. CASE StartExecution
    <3>1. Ahead(Executing)' = Ops(txs) /\ txs' = txs
      BY <2>1, ExecutedIs, AheadAtStart DEF StartExecution
    <3> QED
      BY <3>1, ExecutedIs
  <2>2. CASE StartReadPhase \/ NewEpoch
    BY <2>2, ExecutedIs DEF StartReadPhase, NewEpoch
  <2> QED
    BY <2>1, <2>2
<1>5. ReadsProduced'
  BY <1>4 DEF ReadsProduced
<1>6. CASE StartReadPhase \/ StartExecution
  <2>1. UNCHANGED <<epoch, txs>> /\ phase # "exec"
    BY <1>6 DEF StartReadPhase, StartExecution
  <2>2. Executed = {}
    BY <2>1, ExecutedIs
  <2>3. \A k, v : Unexecuted(k, v)' <=> Unexecuted(k, v)
    BY <1>4, <2>1, <2>2 DEF Unexecuted, RowOf
  <2> QED
    BY <1>1, <1>2, <1>3, <1>5, <2>1, <2>3, StatusQuiet DEF Statuses
<1>7. CASE NewEpoch
  <2>1. Executed = Ops(txs)
    <3>1. phase = "exec"
      BY <1>7 DEF NewEpoch
    <3> QED
      BY <1>1, <3>1, ExecutedIs, AheadAtBarrier
  <2>2. \A k, v : ~Unexecuted(k, v)
    BY <2>1 DEF Unexecuted, Updates
  <2>3. /\ \A k \in Keys : previous_master_[k] = NoVersion /\ placeholders_[k] = {}
                           /\ master_[k] = db'[k]
        /\ ObjectsTypeOK'
    BY <1>7, ObjectsBarrier DEF Objects
  <2>4. \A k \in Keys : Owned(k)' = Owned(k) /\ Owned(k) \subseteq {db'[k]}
    BY <1>1, <2>3 DEF Owned
  <2>5. \A k \in Keys : db'[k][1] # epoch'
    <3>1. ASSUME NEW k \in Keys PROVE db'[k][1] # epoch'
      <4>1. db'[k] \in Versions /\ db'[k][1] < epoch'
        BY <2>3 DEF ObjectsTypeOK
      <4>2. db'[k][1] \in Nat
        BY <4>1, EpochsAssumption DEF Versions
      <4> QED
        BY <4>1, <4>2
    <3> QED
      BY <3>1
  <2>6. \A k \in Keys : ~Unexecuted(k, db[k])'
    BY <2>5 DEF Unexecuted
  <2>7. ASSUME NEW k \in Keys, NEW v \in Versions PROVE status'[k][v] = StatusOf(k, v)'
    <3>1. status[k][v] = IF v \in Owned(k) THEN "stable" ELSE "none"
      BY <2>2 DEF Statuses, StatusRight, StatusOf
    <3>2. StatusOf(k, v)' = IF v \in Owned(k) THEN "stable" ELSE "none"
      BY <2>4, <2>6 DEF StatusOf
    <3> QED
      BY <1>1, <3>1, <3>2
  <2>8. StatusRight'
    BY <2>7 DEF StatusRight
  <2>9. StatusTypeOK'
    BY <1>1, <1>2 DEF Statuses, StatusTypeOK
  <2>10. \A x \in Workers : VersionRight(x)'
    BY <1>3 DEF VersionRight
  <2> QED
    BY <1>5, <2>8, <2>9, <2>10 DEF Statuses
<1> QED
  BY <1>6, <1>7

\* ... when a placeholder is created, ...
LEMMA StatusesPlaceholder ==
    ASSUME Control, Bitmaps, Objects, Statuses, NEW w \in Workers, placeholder(w)
    PROVE  Statuses' /\ Executed' = Executed
<1>0. PICK k : k = row[w]
  OBVIOUS
<1>m. PICK m : m = <<epoch, visible_id[w]>>
  OBVIOUS
<1>1. /\ k \in Keys /\ phase = "read" /\ Goto(w, "unlock")
      /\ UNCHANGED <<epoch, phase, txs, db, version, master_, previous_master_>>
      /\ \A x \in Workers : pc[x] \notin Storing /\ pc'[x] \notin Storing
  <2>1. k \in Keys /\ phase = "read" /\ Goto(w, "unlock")
        /\ UNCHANGED <<epoch, phase, txs, db, version, master_, previous_master_>>
    BY <1>0, ObjectsPlaced DEF placeholder, batchVars, Control, ControlTypeOK
  <2>2. \A x \in Workers : pc[x] \notin Storing
    BY <2>1 DEF Control, PhaseLabels, Referencing, Storing
  <2> QED
    BY <2>1, <2>2 DEF Goto, Control, ControlTypeOK, Storing
<1>2. /\ visible_id[w] \in Writers(txs, k)
      /\ Filed(k, visible_id[w]) = {m} \cap placeholders_[k]
      /\ placeholders_'[k] = placeholders_[k] \cup {m}
  BY <1>0, <1>m, ObjectsPlaced
<1>3. m \in Versions /\ m # NoVersion /\ ObjectsTypeOK
  BY <1>1, <1>2, <1>m, VersionNames DEF Objects
<1>4. Executed = {} /\ Executed' = {}
  BY <1>1, ExecutedIs
<1>5. /\ \A j, v : Unexecuted(j, v)' <=> Unexecuted(j, v)
      /\ Unexecuted(k, m)
  <2>1. PICK u \in Updates(txs) : u[1] = visible_id[w] /\ RowOf(u) = k
    BY <1>2 DEF Writers, RowOf
  <2> QED
    BY <1>1, <1>4, <1>m, <2>1 DEF Unexecuted, RowOf
<1>6. \A j, v : ~Written(j, v) /\ ~Written(j, v)'
  BY <1>1 DEF Written, Storing
<1>7. /\ \A j \in Keys : j # k => placeholders_'[j] = placeholders_[j]
      /\ status' = IF m \in placeholders_[k] THEN status ELSE [status EXCEPT ![k][m] = "pending"]
  <2>1. CASE Filed(k, visible_id[w]) = {}
    <3>1. /\ placeholders_' = [placeholders_ EXCEPT ![k] = @ \cup {m}]
          /\ status' = [status EXCEPT ![k][m] = "pending"]
      BY <1>0, <1>m, <2>1 DEF placeholder
    <3> QED
      BY <1>2, <1>3, <2>1, <3>1 DEF ObjectsTypeOK
  <2>2. CASE Filed(k, visible_id[w]) # {}
    <3>1. UNCHANGED <<placeholders_, status>>
      BY <1>0, <1>m, <2>2 DEF placeholder
    <3> QED
      BY <1>2, <2>2, <3>1
  <2> QED
    BY <2>1, <2>2
<1>8. /\ Owned(k)' = Owned(k) \cup {m}
      /\ \A j \in Keys : j # k => Owned(j)' = Owned(j)
  BY <1>1, <1>2, <1>3, <1>7 DEF Owned
<1>t. status \in [Keys -> [Versions -> {"none", "pending", "written", "stable"}]]
  BY DEF Statuses, StatusTypeOK
<1>9. StatusTypeOK'
  BY <1>1, <1>3, <1>7, <1>t DEF Statuses, StatusTypeOK
<1>10. ASSUME NEW j \in Keys, NEW v \in Versions PROVE status'[j][v] = StatusOf(j, v)'
  <2>0. status[j][v] = StatusOf(j, v)
    BY DEF Statuses, StatusRight
  <2>1. CASE j # k \/ v # m
    <3>1. v \in Owned(j)' <=> v \in Owned(j)
      BY <1>8, <2>1
    <3>2. status'[j][v] = status[j][v]
      BY <1>1, <1>3, <1>7, <1>t, <2>1
    <3> QED
      BY <1>5, <1>6, <2>0, <3>1, <3>2 DEF StatusOf
  <2>2. CASE j = k /\ v = m
    <3>1. StatusOf(k, m)' = "pending"
      BY <1>5, <1>6, <1>8 DEF StatusOf
    <3>2. status'[k][m] = "pending"
      <4>1. CASE m \in placeholders_[k]
        <5>1. m \in Owned(k)
          BY <1>3, <4>1 DEF Owned
        <5> QED
          BY <1>5, <1>6, <1>7, <2>0, <2>2, <4>1, <5>1 DEF StatusOf
      <4>2. CASE m \notin placeholders_[k]
        BY <1>1, <1>3, <1>7, <1>t, <4>2
      <4> QED
        BY <4>1, <4>2
    <3> QED
      BY <2>2, <3>1, <3>2
  <2> QED
    BY <2>1, <2>2
<1>11. StatusRight'
  BY <1>10 DEF StatusRight
<1>12. \A x \in Workers : VersionRight(x)'
  BY <1>1 DEF VersionRight
<1>13. ReadsProduced'
  BY <1>4 DEF ReadsProduced
<1> QED
  BY <1>4, <1>9, <1>11, <1>12, <1>13 DEF Statuses

\* As long as a read has not given back its reference, its version is there.
LEMMA ReferredVersion ==
    ASSUME Control, References, Objects, phase = "exec", NEW k \in Keys, NEW o \in Holding(k)
    PROVE  /\ pending_[o[1]][k] = Depends(o)
           /\ Depends(o) \in Owned(k) /\ Depends(o) \in Versions
<1>1. o \in ReadsOf(k) /\ o \in Placed(k) /\ ObjectsTypeOK /\ RowObjects(k)
  BY DEF Holding, Placed, Objects
<1>2. pending_[o[1]][k] = Depends(o)
  BY <1>1 DEF Objects, GivenVersions
<1>3. ~Collected(k)
  <2>1. Holding(k) # {} /\ IsFiniteSet(Holding(k))
    BY ReadsAreFinite DEF Holding
  <2>2. Cardinality(Holding(k)) \in Nat
    BY <2>1, FS_CardinalityType
  <2>3. ref_cnt_[k] # 0
    BY <2>1, <2>2 DEF References, RefsOfRow
  <2> QED
    BY <2>3 DEF Collected
<1>4. NoVersion \notin Versions /\ db[k] \in Versions /\ db[k][1] # epoch
  BY <1>1, VersionNames
<1>5. CASE Depends(o)[1] = epoch
  <2>1. Depends(o) \in Wanted(k)
    BY <1>1, <1>5 DEF Wanted
  <2>2. Depends(o) \in Versions
    BY <1>1, <2>1, WantedWriters
  <2> QED
    BY <1>1, <1>2, <1>3, <1>4, <2>1, <2>2 DEF RowObjects, Owned
<1>6. CASE Depends(o)[1] # epoch
  <2>1. Depends(o) = db[k]
    <3> DEFINE before == {u \in Writers(txs, k) : u < o[1]}
    <3>1. /\ before = {} => Depends(o) = db[k]
          /\ before # {} => Depends(o) = <<epoch, Max(before)>>
      BY <1>1, Dependence
    <3> QED
      BY <1>6, <3>1
  <2> QED
    BY <1>1, <1>2, <1>3, <1>4, <2>1 DEF RowObjects, Owned
<1> QED
  BY <1>5, <1>6

\* A read that holds no reference any more has been executed.
LEMMA ReadsExecuted ==
    ASSUME Control, phase = "exec", NEW k, NEW o \in ReadsOf(k), o \notin Holding(k)
    PROVE  o \in Executed
<1>1. o \in Ops(txs) /\ o \in Reads(txs) /\ txs \in Workloads
  BY DEF ReadsOf, Reads, Control, ControlTypeOK
<1>2. o \notin Updates(txs)
  BY <1>1, OperationsOfBatch
<1>3. ASSUME NEW x \in Workers, o \in todo[x] \/ (pc[x] \in Executing /\ o = op[x]) PROVE FALSE
  <2>1. o \in todo[x] \/ (pc[x] \in {"wait_stable", "decrement"} /\ o = op[x])
    BY <1>2, <1>3 DEF Control, OwnOperations, Executing, Writing
  <2>2. o \in Ahead({"wait_stable", "decrement"})
    BY <2>1, AheadMembers
  <2> QED
    BY <2>2 DEF Holding
<1>4. o \notin Ahead(Executing)
  BY <1>3, AheadMembers
<1> QED
  BY <1>1, <1>4, ExecutedIs

\* ... when a read is answered, ...
LEMMA StatusesRead ==
    ASSUME Control, References, Objects, Statuses, NEW w \in Workers,
           wait_stable_and_execute_read(w)
    PROVE  /\ Statuses'
           /\ phase = "exec" /\ op[w] \in Reads(txs) /\ RowOf(op[w]) = row[w]
           /\ op[w] \notin Executed /\ Executed' = Executed \cup {op[w]}
           /\ Source(w) = Depends(op[w]) /\ ~Unexecuted(row[w], Depends(op[w]))
<1>0. PICK k : k = row[w]
  OBVIOUS
<1>1. /\ k \in Keys /\ phase = "exec" /\ pc[w] = "wait_stable" /\ Goto(w, "decrement")
      /\ op[w] \in Reads(txs) /\ op[w] \in ReadsOf(k) /\ RowOf(op[w]) = k
      /\ UNCHANGED <<epoch, phase, txs, db, todo, op, row, version, status, placeholders_,
                     master_, previous_master_>>
  BY <1>0 DEF wait_stable_and_execute_read, batchVars, opVars, localVars, objectVars, Control,
     ControlTypeOK, PhaseLabels, OwnOperations, Filing, Referencing, Reading, Writing, RowOf,
     ReadsOf
<1>2. op[w] \in Holding(k)
  <2>1. op[w] \in Ahead({"wait_stable", "decrement"})
    BY <1>1, AheadMembers
  <2> QED
    BY <1>1, <2>1 DEF Holding
<1>3. /\ pending_[op[w][1]][k] = Depends(op[w])
      /\ Depends(op[w]) \in Owned(k) /\ Depends(op[w]) \in Versions
  BY <1>1, <1>2, ReferredVersion
<1>4. Source(w) = Depends(op[w])
  BY <1>0, <1>3 DEF Source, Serial
<1>5. ~Unexecuted(k, Depends(op[w]))
  <2>1. status[k][Depends(op[w])] \notin {"pending", "written"}
    BY <1>0, <1>4 DEF wait_stable_and_execute_read, NotPending
  <2>2. status[k][Depends(op[w])] = StatusOf(k, Depends(op[w]))
    BY <1>1, <1>3 DEF Statuses, StatusRight
  <2> QED
    BY <1>3, <2>1, <2>2 DEF StatusOf
<1>6. /\ Executed' = Executed \cup {op[w]} /\ op[w] \notin Executed
      /\ \A j, v : Unexecuted(j, v)' <=> Unexecuted(j, v)
  <2>1. pc[w] \in InHand /\ pc[w] \in Executing /\ "decrement" \notin Executing
    BY <1>1 DEF InHand, Reading, Executing
  <2> QED
    BY <1>1, <2>1, ExecutedStep
<1>7. StatusTypeOK' /\ StatusRight' /\ \A x \in Workers : VersionRight(x)'
  <2>1. version' \in [Workers -> Versions \cup {NoVersion}]
    BY <1>1 DEF Statuses, StatusTypeOK
  <2>2. \A x \in Workers : pc[x] \in Storing \/ pc'[x] \in Storing =>
           pc'[x] = pc[x] /\ op'[x] = op[x] /\ row'[x] = row[x] /\ version'[x] = version[x]
    BY <1>1 DEF Goto, Control, ControlTypeOK, Storing
  <2> QED
    BY <1>1, <1>6, <2>1, <2>2, StatusQuiet
<1>8. ReadsProduced'
  <2>1. ASSUME NEW j \in Keys, NEW o \in ReadsOf(j), o \in Executed'
        PROVE  o \in Executed \/ ~Unexecuted(j, Depends(o))
    <3>1. CASE o = op[w]
      BY <1>1, <1>5, <2>1, <3>1 DEF ReadsOf
    <3> QED
      BY <1>6, <2>1, <3>1
  <2>2. ReadsProduced
    BY DEF Statuses
  <2> QED
    BY <1>1, <1>6, <2>1, <2>2, ReadsProducedKept
<1>9. Statuses'
  BY <1>7, <1>8 DEF Statuses
<1> QED
  BY <1>0, <1>1, <1>4, <1>5, <1>6, <1>9

\* ... when the final reader collects, which deletes no version that is still to
\* be stored, ...
LEMMA StatusesFinalReader ==
    ASSUME Control, References, Objects, Statuses, NEW w \in Workers, final_reader(w)
    PROVE  Statuses' /\ Executed' = Executed
<1>0. PICK k : k = row[w]
  OBVIOUS
<1>m. PICK m : m = <<epoch, op[w][1]>>
  OBVIOUS
<1>1. /\ k \in Keys /\ phase = "exec" /\ ~Collected(k) /\ Holding(k) = {}
      /\ placeholders_' = [placeholders_ EXCEPT ![k] = {}]
      /\ previous_master_' = [previous_master_ EXCEPT ![k] = NoVersion]
      /\ UNCHANGED master_
  BY <1>0, ObjectsFinalReader
<1>2. /\ pc[w] = "final_reader" /\ Goto(w, "unlock")
      /\ UNCHANGED <<epoch, phase, txs, db, todo, op, row, version>>
      /\ Delete(k, ReaderFrees(k))
  BY <1>0 DEF final_reader, batchVars, opVars, localVars
<1>t. /\ status \in [Keys -> [Versions -> {"none", "pending", "written", "stable"}]]
      /\ ObjectsTypeOK /\ RowObjects(k)
  BY <1>1 DEF Statuses, StatusTypeOK, Objects
<1>3. /\ \A v \in Versions : status'[k][v] =
            IF v \in placeholders_[k] \/ v = previous_master_[k] THEN "none" ELSE status[k][v]
      /\ \A j \in Keys : j # k => status'[j] = status[j]
  BY <1>1, <1>2, <1>t DEF Delete, ReaderFrees
<1>4. StatusTypeOK'
  <2>1. status' \in [Keys -> [Versions -> {"none", "pending", "written", "stable"}]]
    BY <1>2, <1>t DEF Delete
  <2> QED
    BY <1>2, <2>1 DEF Statuses, StatusTypeOK
<1>5. /\ Owned(k)' = {master_[k]} /\ master_[k] \in Owned(k)
      /\ master_[k] \notin placeholders_[k] /\ master_[k] # previous_master_[k]
      /\ \A j \in Keys : j # k => Owned(j)' = Owned(j)
  <2>1. /\ master_[k] \in Versions /\ NoVersion \notin Versions
        /\ db[k][1] # epoch
    BY <1>1, <1>t, VersionNames DEF ObjectsTypeOK
  <2>2. master_[k] \notin placeholders_[k] /\ master_[k] # previous_master_[k]
    BY <1>1, <1>t, <2>1 DEF RowObjects
  <2> QED
    BY <1>1, <1>t, <2>1, <2>2 DEF Owned, ObjectsTypeOK
<1>6. \A v \in Versions : /\ status'[k][v] = IF v \in Owned(k)' THEN status[k][v] ELSE "none"
                          /\ v \in Owned(k)' => v \in Owned(k)
  <2>1. \A v \in Versions : v \notin Owned(k) => status[k][v] = "none"
    BY <1>1 DEF Statuses, StatusRight, StatusOf
  <2>2. \A v \in Owned(k) : v \in placeholders_[k] \/ v = previous_master_[k] \/ v = master_[k]
    BY DEF Owned
  <2> QED
    BY <1>3, <1>5, <2>1, <2>2
<1>7. /\ pc[w] \in InHand /\ "unlock" \notin Executing /\ pc[w] \notin Executing
  BY <1>2 DEF InHand, Reading, Executing
<1>8. /\ Executed' = Executed
      /\ \A j, v : Unexecuted(j, v)' <=> Unexecuted(j, v)
  BY <1>1, <1>2, <1>7, ExecutedStep
<1>9. \A j, v : Written(j, v)' <=> Written(j, v)
  BY <1>2 DEF Written, Goto, Control, ControlTypeOK
<1>10. m \in Versions => status'[k][m] = StatusOf(k, m)'
  <2> SUFFICES ASSUME m \in Versions PROVE status'[k][m] = StatusOf(k, m)'
    OBVIOUS
  <2>1. status[k][m] = StatusOf(k, m)
    BY <1>1 DEF Statuses, StatusRight
  <2>2. StatusOf(k, m)' = IF m \in Owned(k)' THEN StatusOf(k, m) ELSE "none"
    BY <1>6, <1>8, <1>9 DEF StatusOf
  <2> QED
    BY <1>6, <2>1, <2>2
<1>11. StatusRight'
  BY <1>0, <1>m, <1>1, <1>2, <1>3, <1>5, <1>6, <1>7, <1>10, StatusStep
<1>12. ASSUME NEW v \in placeholders_[k] PROVE ~Unexecuted(k, v)
  <2>1. v \in Wanted(k)
    BY <1>t, <1>12 DEF RowObjects
  <2>2. PICK o \in Placed(k) : Depends(o) = v
    BY <1>1, <1>t, <2>1, WantedWriters
  <2>3. o \in ReadsOf(k)
    BY DEF Placed
  <2>4. o \in Executed
    BY <1>1, <2>3, ReadsExecuted
  <2> QED
    BY <1>1, <2>2, <2>3, <2>4 DEF Statuses, ReadsProduced
<1>13. ASSUME NEW x \in Workers PROVE VersionRight(x)'
  <2>1. CASE x = w
    BY <1>2, <2>1 DEF VersionRight, Storing, Goto, Control, ControlTypeOK
  <2>2. CASE x # w
    <3>1. pc'[x] = pc[x] /\ op'[x] = op[x] /\ row'[x] = row[x] /\ version'[x] = version[x]
      BY <1>2, <2>2 DEF Goto, Control, ControlTypeOK
    <3>2. ASSUME pc[x] \in Storing
          PROVE  <<epoch, op[x][1]>> \in Owned(row[x])' <=> <<epoch, op[x][1]>> \in Owned(row[x])
      <4>1. PICK j : j = row[x]
        OBVIOUS
      <4>2. PICK n : n = <<epoch, op[x][1]>>
        OBVIOUS
      <4>3. Unexecuted(j, n) /\ j \in Keys
        BY <3>2, <4>1, <4>2, OwnVersion DEF Storing, Writing
      <4>4. CASE j # k
        BY <1>2, <1>5, <4>1, <4>2, <4>3, <4>4
      <4>5. CASE j = k
        <5>1. n \notin placeholders_[k]
          BY <1>12, <4>3, <4>5
        <5>2. n # previous_master_[k] \/ n = NoVersion
          <6>1. n[1] = epoch /\ db[k][1] # epoch
            BY <1>1, <1>t, <4>2, VersionNames
          <6> QED
            BY <1>t, <6>1 DEF RowObjects
        <5>3. n \in Owned(k) => n = master_[k]
          BY <5>1, <5>2 DEF Owned
        <5>4. n \in Owned(k)' <=> n \in Owned(k)
          BY <1>5, <5>3
        <5> QED
          BY <1>2, <4>1, <4>2, <4>5, <5>4
      <4> QED
        BY <4>4, <4>5
    <3>3. VersionRight(x)
      BY DEF Statuses
    <3> QED
      BY <1>2, <3>1, <3>2, <3>3, VersionRightKept
  <2> QED
    BY <2>1, <2>2
<1>14. ReadsProduced'
  <2>1. ReadsProduced
    BY DEF Statuses
  <2> QED
    BY <1>2, <1>8, <2>1, ReadsProducedKept
<1> QED
  BY <1>4, <1>8, <1>11, <1>13, <1>14 DEF Statuses

\* ... when the final writer takes its version, ...
LEMMA StatusesFinalWriter ==
    ASSUME Control, Bitmaps, References, Objects, Statuses, NEW w \in Workers, final_writer(w)
    PROVE  Statuses' /\ Executed' = Executed
<1>0. PICK k : k = row[w]
  OBVIOUS
<1>m. PICK m : m = <<epoch, op[w][1]>>
  OBVIOUS
<1>1. /\ k \in Keys /\ phase = "exec" /\ op[w][1] \in Writers(txs, k)
      /\ master_[k] = db[k] /\ previous_master_[k] = NoVersion
      /\ master_' = [master_ EXCEPT ![k] = m]
      /\ version' = [version EXCEPT ![w] = m]
      /\ placeholders_' = [placeholders_ EXCEPT ![k] = @ \ {m}]
  BY <1>0, <1>m, ObjectsFinalWriter DEF Serial
<1>2. /\ pc[w] = "identify_write" /\ Goto(w, "write_unlock")
      /\ UNCHANGED <<epoch, phase, txs, db, todo, op, row, ref_cnt_>>
      /\ previous_master_' = [previous_master_ EXCEPT ![k] = IF ref_cnt_[k] = 0 THEN @ ELSE master_[k]]
  BY <1>0 DEF final_writer, batchVars, opVars, MasterUnused
<1>t. /\ status \in [Keys -> [Versions -> {"none", "pending", "written", "stable"}]]
      /\ version \in [Workers -> Versions \cup {NoVersion}]
      /\ ObjectsTypeOK /\ RowObjects(k)
  BY <1>1 DEF Statuses, StatusTypeOK, Objects
<1>3. m \in Versions /\ m # NoVersion /\ m # db[k] /\ db[k] \in Versions /\ db[k] # NoVersion
  BY <1>1, <1>m, <1>t, VersionNames
<1>4. Filed(k, op[w][1]) = {m} \cap placeholders_[k]
  BY <1>1, <1>m, FiledVersions
<1>5. status' = [status EXCEPT ![k] =
                    [v \in Versions |-> IF v \in (IF ref_cnt_[k] = 0 THEN {db[k]} ELSE {}) THEN "none"
                                        ELSE IF v = m /\ m \notin placeholders_[k] THEN "pending"
                                        ELSE @[v]]]
  <2>1. (IF Filed(k, op[w][1]) = {} THEN <<epoch, op[w][1]>> ELSE CHOOSE v \in Filed(k, op[w][1]) : TRUE) = m
    BY <1>m, <1>4
  <2>2. Filed(k, op[w][1]) = {} <=> m \notin placeholders_[k]
    BY <1>4
  <2> QED
    BY <1>0, <1>1, <2>1, <2>2 DEF final_writer, MasterUnused, Serial
<1>6. /\ \A v \in Versions : status'[k][v] =
            IF v = db[k] /\ ref_cnt_[k] = 0 THEN "none"
            ELSE IF v = m /\ m \notin placeholders_[k] THEN "pending" ELSE status[k][v]
      /\ \A j \in Keys : j # k => status'[j] = status[j]
  BY <1>1, <1>5, <1>t
<1>7. StatusTypeOK'
  <2>1. status' \in [Keys -> [Versions -> {"none", "pending", "written", "stable"}]]
    BY <1>5, <1>t
  <2> QED
    BY <1>1, <1>3, <1>t, <2>1 DEF StatusTypeOK
<1>8. ref_cnt_[k] = 0 => placeholders_[k] = {}
  BY <1>1, <1>t DEF RowObjects, Collected
<1>9. /\ Owned(k) = placeholders_[k] \cup {db[k]}
      /\ Owned(k)' = (IF ref_cnt_[k] = 0 THEN {} ELSE Owned(k)) \cup {m}
      /\ \A j \in Keys : j # k => Owned(j)' = Owned(j)
  <2>1. NoVersion \notin placeholders_[k]
    BY <1>1, <1>t, VersionNames DEF ObjectsTypeOK
  <2>2. Owned(k) = placeholders_[k] \cup {db[k]}
    BY <1>1, <1>3, <2>1 DEF Owned
  <2>3. /\ master_'[k] = m /\ placeholders_'[k] = placeholders_[k] \ {m}
        /\ previous_master_'[k] = IF ref_cnt_[k] = 0 THEN NoVersion ELSE db[k]
        /\ \A j \in Keys : j # k => /\ master_'[j] = master_[j]
                                    /\ placeholders_'[j] = placeholders_[j]
                                    /\ previous_master_'[j] = previous_master_[j]
    BY <1>1, <1>2, <1>t DEF ObjectsTypeOK
  <2>4. Owned(k)' = (IF ref_cnt_[k] = 0 THEN {} ELSE Owned(k)) \cup {m}
    <3>1. Owned(k)' = (placeholders_'[k] \cup {master_'[k], previous_master_'[k]}) \ {NoVersion}
      BY DEF Owned
    <3> QED
      BY <1>3, <1>8, <2>1, <2>2, <2>3, <3>1
  <2>5. \A j \in Keys : j # k => Owned(j)' = Owned(j)
    BY <2>3 DEF Owned
  <2> QED
    BY <2>2, <2>4, <2>5
<1>10. \A v \in Versions : v # m =>
          /\ status'[k][v] = IF v \in Owned(k)' THEN status[k][v] ELSE "none"
          /\ v \in Owned(k)' => v \in Owned(k)
  <2>1. \A v \in Versions : v \notin Owned(k) => status[k][v] = "none"
    BY <1>1 DEF Statuses, StatusRight, StatusOf
  <2> QED
    BY <1>6, <1>8, <1>9, <2>1
<1>11. /\ pc[w] \in InHand /\ "write_unlock" \in Executing /\ pc[w] \in Executing
  BY <1>2 DEF InHand, Writing, Executing
<1>12. Executed' = Executed /\ \A j, v : Unexecuted(j, v)' <=> Unexecuted(j, v)
  BY <1>1, <1>2, <1>11, ExecutedStep
<1>13. \A j, v : Written(j, v)' <=> Written(j, v)
  BY <1>2 DEF Written, Goto, Control, ControlTypeOK
<1>14. /\ Unexecuted(k, m) /\ ~Written(k, m)
       /\ \A x \in Workers : x # w /\ pc[x] \in Writing /\ row[x] = k => op[x][1] # op[w][1]
  BY <1>0, <1>m, <1>2, OwnVersion DEF Writing
<1>15. status'[k][m] = StatusOf(k, m)'
  <2>1. StatusOf(k, m)' = "pending"
    BY <1>9, <1>12, <1>13, <1>14 DEF StatusOf
  <2>2. m \in placeholders_[k] => status[k][m] = "pending"
    <3>1. status[k][m] = StatusOf(k, m)
      BY <1>1, <1>3 DEF Statuses, StatusRight
    <3> QED
      BY <1>9, <1>14, <3>1 DEF StatusOf
  <2> QED
    BY <1>3, <1>6, <2>1, <2>2
<1>16. StatusRight'
  BY <1>0, <1>m, <1>1, <1>2, <1>6, <1>9, <1>10, <1>11, <1>15, StatusStep
<1>17. ASSUME NEW x \in Workers PROVE VersionRight(x)'
  <2>1. CASE x = w
    <3>1. pc'[w] = "write_unlock" /\ version'[w] = m
      BY <1>1, <1>2, <1>t DEF Goto, Control, ControlTypeOK
    <3>2. VersionRight(w)' <=> /\ version'[w] = IF m \in Owned(k)' THEN m ELSE NoVersion
                               /\ pc'[w] # "write_unlock" => version'[w] # NoVersion
      BY <1>0, <1>m, <1>2, <3>1 DEF VersionRight, Storing
    <3> QED
      BY <1>9, <2>1, <3>1, <3>2
  <2>2. CASE x # w
    <3>1. pc'[x] = pc[x] /\ op'[x] = op[x] /\ row'[x] = row[x] /\ version'[x] = version[x]
      BY <1>1, <1>2, <1>t, <2>2 DEF Goto, Control, ControlTypeOK
    <3>2. ASSUME pc[x] \in Storing
          PROVE  <<epoch, op[x][1]>> \in Owned(row[x])' <=> <<epoch, op[x][1]>> \in Owned(row[x])
      <4>1. PICK j : j = row[x]
        OBVIOUS
      <4>2. PICK n : n = <<epoch, op[x][1]>>
        OBVIOUS
      <4>3. j \in Keys /\ (j = k => n # m)
        BY <1>m, <1>14, <2>2, <3>2, <4>1, <4>2, OwnVersion DEF Storing, Writing
      <4>4. CASE j # k
        BY <1>2, <1>9, <4>1, <4>2, <4>3, <4>4
      <4>5. CASE j = k
        <5>1. n # db[k]
          BY <1>1, <1>t, <4>2, VersionNames
        <5>2. n \in Owned(k)' <=> n \in Owned(k)
          BY <1>8, <1>9, <4>3, <4>5, <5>1
        <5> QED
          BY <1>2, <4>1, <4>2, <4>5, <5>2
      <4> QED
        BY <4>4, <4>5
    <3>3. VersionRight(x)
      BY DEF Statuses
    <3> QED
      BY <1>2, <3>1, <3>2, <3>3, VersionRightKept
  <2> QED
    BY <2>1, <2>2
<1>18. ReadsProduced'
  <2>1. ReadsProduced
    BY DEF Statuses
  <2> QED
    BY <1>2, <1>12, <2>1, ReadsProducedKept
<1> QED
  BY <1>7, <1>12, <1>16, <1>17, <1>18 DEF Statuses

\* ... when another writer looks for its version, ...
LEMMA StatusesOtherWriter ==
    ASSUME Control, Bitmaps, Objects, Statuses, NEW w \in Workers, other_writer(w)
    PROVE  Statuses' /\ Executed' = Executed
<1>0. PICK k : k = row[w]
  OBVIOUS
<1>m. PICK m : m = <<epoch, op[w][1]>>
  OBVIOUS
<1>1. /\ pc[w] = "identify_write" /\ Goto(w, "write_unlock")
      /\ UNCHANGED <<epoch, phase, txs, db, todo, op, row, status, placeholders_, master_,
                     previous_master_>>
  BY DEF other_writer, batchVars, opVars, objectVars
<1>2. phase = "exec" /\ k \in Keys /\ op[w] \in Updates(txs) /\ RowOf(op[w]) = k
      /\ op[w][1] \in Serials
  BY <1>0, <1>1, OwnVersion DEF Writing
<1>t. /\ version \in [Workers -> Versions \cup {NoVersion}]
      /\ ObjectsTypeOK /\ RowObjects(k)
  BY <1>2 DEF Statuses, StatusTypeOK, Objects
<1>3. m \in Versions /\ m # NoVersion /\ m # db[k]
  BY <1>2, <1>m, <1>t, VersionNames
<1>4. m # master_[k]
  <2>1. SUFFICES ASSUME m = master_[k] PROVE FALSE
    OBVIOUS
  <2>2. NewMaster(k) /\ m = <<epoch, Max(Writers(txs, k))>>
    BY <1>3, <1>t, <2>1 DEF RowObjects
  <2>3. op[w] \in Ahead(BeforeWrite)
    BY <1>1, AheadMembers DEF BeforeWrite
  <2>4. FinalPending(k)
    BY <1>2, <1>m, <2>2, <2>3 DEF FinalPending
  <2>5. core_bitmap_[k] = Cores(k) /\ op[w][1] \in Writers(txs, k)
    BY <1>2, <2>4 DEF Bitmaps, KeptBitmaps, Writers, RowOf
  <2> QED
    BY <2>2, <2>5 DEF NewMaster, Cores
<1>5. m \in Owned(k) <=> m \in placeholders_[k]
  BY <1>3, <1>4, <1>t DEF Owned, RowObjects
<1>6. version' = [version EXCEPT ![w] = IF m \in Owned(k) THEN m ELSE NoVersion]
  <2>1. Filed(k, op[w][1]) = {m} \cap placeholders_[k]
    BY <1>2, <1>m, FiledVersions
  <2>2. (IF Filed(k, op[w][1]) = {} THEN NoVersion ELSE CHOOSE v \in Filed(k, op[w][1]) : TRUE)
        = IF m \in Owned(k) THEN m ELSE NoVersion
    BY <1>5, <2>1
  <2>3. version' = [version EXCEPT ![w] =
           IF Filed(k, op[w][1]) = {} THEN NoVersion ELSE CHOOSE v \in Filed(k, op[w][1]) : TRUE]
    BY <1>0 DEF other_writer, Serial
  <2> QED
    BY <2>2, <2>3
<1>7. Executed' = Executed /\ \A j, v : Unexecuted(j, v)' <=> Unexecuted(j, v)
  <2>1. pc[w] \in InHand /\ pc[w] \in Executing /\ "write_unlock" \in Executing
    BY <1>1 DEF InHand, Writing, Executing
  <2> QED
    BY <1>1, <1>2, <2>1, ExecutedStep
<1>8. \A j, v : Written(j, v)' <=> Written(j, v)
  BY <1>1 DEF Written, Goto, Control, ControlTypeOK
<1>9. \A j : Owned(j)' = Owned(j)
  BY <1>1 DEF Owned
<1>10. StatusRight'
  <2>1. \A j, v : StatusOf(j, v)' = StatusOf(j, v)
    BY <1>7, <1>8, <1>9 DEF StatusOf
  <2> QED
    BY <1>1, <2>1 DEF Statuses, StatusRight
<1>11. StatusTypeOK'
  BY <1>1, <1>3, <1>6, <1>t DEF Statuses, StatusTypeOK
<1>12. ASSUME NEW x \in Workers PROVE VersionRight(x)'
  <2>1. CASE x = w
    <3>1. pc'[w] = "write_unlock" /\ version'[w] = IF m \in Owned(k) THEN m ELSE NoVersion
      BY <1>1, <1>6, <1>t DEF Goto, Control, ControlTypeOK
    <3>2. VersionRight(w)' <=> /\ version'[w] = IF m \in Owned(k)' THEN m ELSE NoVersion
                               /\ pc'[w] # "write_unlock" => version'[w] # NoVersion
      BY <1>0, <1>m, <1>1, <3>1 DEF VersionRight, Storing
    <3> QED
      BY <1>9, <2>1, <3>1, <3>2
  <2>2. CASE x # w
    <3>1. pc'[x] = pc[x] /\ op'[x] = op[x] /\ row'[x] = row[x] /\ version'[x] = version[x]
      BY <1>1, <1>6, <1>t, <2>2 DEF Goto, Control, ControlTypeOK
    <3>2. VersionRight(x) /\ Owned(row[x])' = Owned(row[x])
      BY <1>1, <1>9 DEF Statuses
    <3> QED
      BY <1>1, <3>1, <3>2, VersionRightKept
  <2> QED
    BY <2>1, <2>2
<1>13. ReadsProduced'
  <2>1. ReadsProduced
    BY DEF Statuses
  <2> QED
    BY <1>1, <1>7, <2>1, ReadsProducedKept
<1> QED
  BY <1>7, <1>10, <1>11, <1>12, <1>13 DEF Statuses

\* ... when it goes on with or without one, and when it stores.
LEMMA StatusesStore ==
    ASSUME Control, Bitmaps, Objects, Statuses, NEW w \in Workers,
           write_unlock(w) \/ write_rec(w) \/ write_status(w)
    PROVE  /\ Statuses'
           /\ phase = "exec" /\ op[w] \in Updates(txs) /\ op[w] \notin Executed
           /\ Executed' = Executed \/ Executed' = Executed \cup {op[w]}
<1>0. PICK k : k = row[w]
  OBVIOUS
<1>m. PICK m : m = <<epoch, op[w][1]>>
  OBVIOUS
<1>1. /\ pc[w] \in Storing /\ pc[w] \in Writing
      /\ UNCHANGED <<epoch, phase, txs, db, todo, op, row, version, placeholders_, master_,
                     previous_master_>>
  BY DEF write_unlock, write_rec, write_status, SetStatus, batchVars, opVars, localVars,
     objectVars, Storing, Writing
<1>2. /\ phase = "exec" /\ k \in Keys /\ op[w] \in Updates(txs) /\ op[w][1] \in Serials
      /\ op[w] \notin Executed /\ RowOf(op[w]) = k
      /\ Unexecuted(k, m) /\ (Written(k, m) <=> pc[w] = "write_status")
      /\ \A x \in Workers : x # w /\ pc[x] \in Writing /\ row[x] = k => op[x][1] # op[w][1]
      /\ \A u \in Ops(txs) : RowOf(u) = k /\ u[1] = op[w][1] => u = op[w]
  BY <1>0, <1>m, <1>1, OwnVersion
<1>3. PICK l : /\ Goto(w, l)
               /\ l = IF pc[w] = "write_unlock" /\ version[w] # NoVersion THEN "write_rec"
                      ELSE IF pc[w] = "write_rec" THEN "write_status" ELSE "begin"
  BY DEF write_unlock, write_rec, write_status, SetStatus
<1>t. /\ status \in [Keys -> [Versions -> {"none", "pending", "written", "stable"}]]
      /\ version \in [Workers -> Versions \cup {NoVersion}] /\ ObjectsTypeOK
  BY DEF Statuses, StatusTypeOK, Objects
<1>4. m \in Versions /\ m # NoVersion
  BY <1>2, <1>m, <1>t, VersionNames
<1>5. /\ version[w] = IF m \in Owned(k) THEN m ELSE NoVersion
      /\ pc[w] # "write_unlock" => version[w] # NoVersion
  BY <1>0, <1>m, <1>1 DEF Statuses, VersionRight
<1>6. status' = IF pc[w] = "write_unlock" THEN status
                ELSE [status EXCEPT ![k][m] = IF pc[w] = "write_rec" THEN "written" ELSE "stable"]
  BY <1>0, <1>5 DEF write_unlock, write_rec, write_status, SetStatus, objectVars
<1>7. \A j : Owned(j)' = Owned(j)
  BY <1>1 DEF Owned
<1>8. pc'[w] = l /\ \A x \in Workers : x # w => pc'[x] = pc[x]
  BY <1>3 DEF Goto, Control, ControlTypeOK
<1>9. /\ pc[w] \in InHand /\ pc[w] \in Executing
      /\ l \in Executing <=> l # "begin"
  BY <1>1, <1>3 DEF InHand, Writing, Executing, Storing
<1>10. /\ Executed' = Executed \cup IF l = "begin" THEN {op[w]} ELSE {}
       /\ l # "begin" => \A j, v : Unexecuted(j, v)' <=> Unexecuted(j, v)
  BY <1>1, <1>2, <1>3, <1>9, ExecutedStep
<1>11. Unexecuted(k, m)' <=> l # "begin"
  <2>1. l = "begin" => ~Unexecuted(k, m)'
    <3>1. ASSUME l = "begin", NEW u \in Updates(txs), RowOf(u) = k, m = <<epoch, u[1]>>
          PROVE  u \in Executed'
      <4>1. u \in Ops(txs) /\ u[1] = op[w][1]
        BY <1>m, <3>1 DEF Updates
      <4> QED
        BY <1>2, <1>10, <3>1, <4>1
    <3> QED
      BY <1>1, <3>1 DEF Unexecuted, RowOf
  <2> QED
    BY <1>2, <1>10, <2>1
<1>12. Written(k, m)' <=> l = "write_status"
  <2>1. l = "write_status" => Written(k, m)'
    BY <1>0, <1>m, <1>1, <1>8 DEF Written
  <2>2. l # "write_status" => ~Written(k, m)'
    BY <1>0, <1>m, <1>1, <1>2, <1>8 DEF Written, Writing
  <2> QED
    BY <2>1, <2>2
<1>13. \A j \in Keys, v \in Versions : j # k \/ v # m => status'[j][v] = status[j][v]
  BY <1>2, <1>4, <1>6, <1>t
<1>14. status'[k][m] = StatusOf(k, m)'
  <2>1. status[k][m] = StatusOf(k, m)
    BY <1>2, <1>4 DEF Statuses, StatusRight
  <2>2. StatusOf(k, m)' = IF m \notin Owned(k) THEN "none"
                          ELSE IF l = "begin" THEN "stable"
                          ELSE IF l = "write_status" THEN "written" ELSE "pending"
    BY <1>7, <1>11, <1>12 DEF StatusOf
  <2>3. CASE pc[w] = "write_unlock"
    <3>1. status[k][m] = IF m \notin Owned(k) THEN "none" ELSE "pending"
      BY <1>2, <2>1, <2>3 DEF StatusOf
    <3> QED
      BY <1>3, <1>4, <1>5, <1>6, <2>2, <2>3, <3>1
  <2>4. CASE pc[w] # "write_unlock"
    <3>1. m \in Owned(k) /\ pc[w] \in {"write_rec", "write_status"}
      BY <1>1, <1>5, <2>4 DEF Storing
    <3> QED
      BY <1>2, <1>3, <1>4, <1>6, <1>t, <2>2, <2>4, <3>1
  <2> QED
    BY <2>3, <2>4
<1>15. StatusRight'
  <2>1. \A j \in Keys : j # k => status'[j] = status[j]
    BY <1>2, <1>6, <1>t
  <2>2. \A v \in Versions : v # m =>
           /\ status'[k][v] = IF v \in Owned(k)' THEN status[k][v] ELSE "none"
           /\ v \in Owned(k)' => v \in Owned(k)
    <3>1. \A v \in Versions : v \notin Owned(k) => status[k][v] = "none"
      BY <1>2 DEF Statuses, StatusRight, StatusOf
    <3> QED
      BY <1>2, <1>7, <1>13, <3>1
  <2>3. l \in Executing => pc[w] \in Executing
    BY <1>9
  <2> QED
    BY <1>0, <1>m, <1>1, <1>2, <1>3, <1>7, <1>9, <1>14, <2>1, <2>2, <2>3, StatusStep
<1>16. StatusTypeOK'
  BY <1>1, <1>2, <1>4, <1>6, <1>t DEF StatusTypeOK
<1>17. ASSUME NEW x \in Workers PROVE VersionRight(x)'
  <2>1. CASE x = w
    <3>1. CASE l = "begin"
      BY <1>8, <2>1, <3>1 DEF VersionRight, Storing
    <3>2. CASE l # "begin"
      <4>1. version[w] # NoVersion
        BY <1>3, <1>5, <3>2
      <4>2. l \in Storing
        BY <1>3, <3>2 DEF Storing
      <4>3. VersionRight(w)' <=> /\ version'[w] = IF m \in Owned(k)' THEN m ELSE NoVersion
                                 /\ pc'[w] # "write_unlock" => version'[w] # NoVersion
        BY <1>0, <1>m, <1>1, <1>8, <4>2 DEF VersionRight
      <4> QED
        BY <1>1, <1>5, <1>7, <2>1, <4>1, <4>3
    <3> QED
      BY <3>1, <3>2
  <2>2. CASE x # w
    <3>1. VersionRight(x) /\ Owned(row[x])' = Owned(row[x]) /\ pc'[x] = pc[x]
      BY <1>1, <1>7, <1>8, <2>2 DEF Statuses
    <3> QED
      BY <1>1, <3>1, VersionRightKept
  <2> QED
    BY <2>1, <2>2
<1>18. ReadsProduced'
  <2>1. \A j, v : Unexecuted(j, v)' => Unexecuted(j, v)
    BY <1>1, <1>10 DEF Unexecuted, RowOf
  <2>2. ASSUME NEW j \in Keys, NEW o \in ReadsOf(j), o \in Executed' PROVE o \in Executed
    <3>1. op[w] \notin Reads(txs)
      BY <1>2, OperationsOfBatch DEF Control, ControlTypeOK, Reads, Updates
    <3> QED
      BY <1>10, <2>2, <3>1 DEF ReadsOf
  <2>3. ReadsProduced
    BY DEF Statuses
  <2> QED
    BY <1>1, <2>1, <2>2, <2>3, ReadsProducedKept
<1>19. Statuses'
  BY <1>15, <1>16, <1>17, <1>18 DEF Statuses
<1> QED
  BY <1>2, <1>10, <1>19

\* A worker begins an operation, ...
LEMMA StatusesBegin ==
    ASSUME Control, NEW w \in Workers, Begin(w)
    PROVE  /\ UNCHANGED <<epoch, phase, txs, db, reads, version, status, placeholders_, master_,
                         previous_master_>>
           /\ Executed' = Executed
           /\ pc[w] \notin Storing /\ pc'[w] \notin Storing
           /\ \A x \in Workers : x # w => pc'[x] = pc[x] /\ op'[x] = op[x] /\ row'[x] = row[x]
<1>t. /\ pc \in [Workers -> Labels] /\ op \in [Workers -> Serials \X Nat]
      /\ row \in [Workers -> Keys]
  BY DEF Control, ControlTypeOK
<1>1. PICK o \in todo[w] :
         /\ op' = [op EXCEPT ![w] = o] /\ todo' = [todo EXCEPT ![w] = @ \ {o}]
         /\ row' = [row EXCEPT ![w] = txs[o[1]][o[2]].index]
         /\ \/ phase = "write" /\ UNCHANGED pc
            \/ phase = "read" /\ Goto(w, "add_ref")
            \/ phase = "exec" /\ o \in Reads(txs) /\ Goto(w, "wait_stable")
            \/ phase = "exec" /\ o \in Updates(txs) /\ Goto(w, "write_lock")
  BY BeginTakes
<1>2. /\ pc[w] = "begin"
      /\ UNCHANGED <<epoch, phase, txs, db, reads, version, status, placeholders_, master_,
                     previous_master_>>
  BY Zenon DEF Begin, batchVars, bitmapVars, objectVars
<1>3. PICK l \in {"begin", "add_ref", "wait_stable", "write_lock"} :
         Goto(w, l) /\ (phase = "exec" => l \in {"wait_stable", "write_lock"})
  BY <1>t, <1>1, <1>2 DEF Goto
<1>4. Executed' = Executed
  <2>1. CASE phase = "exec"
    <3>1. Begins(w, o, l)
      BY <1>1, <1>3 DEF Begins, Goto
    <3>2. pc[w] \notin Executing /\ l \in Executing
      BY <1>2, <1>3, <2>1 DEF Executing
    <3>3. Ahead(Executing)' = Ahead(Executing)
      BY <3>1, <3>2, AheadBegins, ExecutedIs
    <3> QED
      BY <1>2, <3>3, ExecutedIs
  <2>2. CASE phase # "exec"
    BY <1>2, <2>2, ExecutedIs
  <2> QED
    BY <2>1, <2>2
<1> QED
  BY <1>t, <1>1, <1>2, <1>3, <1>4 DEF Goto, Storing

\* ... or goes on without touching a version and without executing anything.
LEMMA StatusesMove ==
    ASSUME Control, NEW w \in Workers,
           \/ EndLoop(w) \/ unlock(w) \/ finalize_try_lock(w) \/ update_bitmap(w)
           \/ finalize_unlock(w) \/ finalize_end(w) \/ add_ref(w) \/ add_first_ref(w)
           \/ read_master(w) \/ identify(w) \/ placeholder_lock(w) \/ decrement_ref_cnt(w)
           \/ gc_lock(w) \/ write_lock(w)
    PROVE  /\ UNCHANGED <<epoch, phase, txs, db, reads, version, status, placeholders_, master_,
                         previous_master_>>
           /\ Executed' = Executed
           /\ pc[w] \notin Storing /\ pc'[w] \notin Storing
           /\ \A x \in Workers : x # w => pc'[x] = pc[x] /\ op'[x] = op[x] /\ row'[x] = row[x]
<1>t. pc \in [Workers -> Labels] /\ row \in [Workers -> Keys]
  BY DEF Control, ControlTypeOK
<1>1. /\ UNCHANGED <<epoch, phase, txs, db, reads, version, status, placeholders_, master_,
                     previous_master_, todo, op>>
      /\ \A x \in Workers : x # w => row'[x] = row[x]
  BY <1>t DEF EndLoop, unlock, finalize_try_lock, update_bitmap, finalize_unlock, finalize_end,
     add_ref, add_first_ref, read_master, identify, placeholder_lock, decrement_ref_cnt, gc_lock,
     write_lock, Lock, batchVars, opVars, localVars, objectVars
<1>2. PICK l : /\ Goto(w, l) /\ (l \in Executing <=> pc[w] \in Executing)
               /\ pc[w] \notin Storing /\ l \notin Storing
  BY DEF EndLoop, unlock, finalize_try_lock, update_bitmap, finalize_unlock, finalize_end,
     add_ref, add_first_ref, read_master, identify, placeholder_lock, decrement_ref_cnt, gc_lock,
     write_lock, Lock, Executing, Storing
<1>3. Ahead(Executing)' = Ahead(Executing)
  BY <1>1, <1>2, AheadStays
<1>4. Executed' = Executed
  BY <1>1, <1>3, ExecutedIs
<1> QED
  BY <1>t, <1>1, <1>2, <1>4 DEF Goto

\* These steps preserve the fifth invariant.
LEMMA StatusesOther ==
    ASSUME Control, Statuses, NEW w \in Workers,
           UNCHANGED <<epoch, phase, txs, db, reads, version, status, placeholders_, master_,
                       previous_master_>>,
           Executed' = Executed, pc[w] \notin Storing, pc'[w] \notin Storing,
           \A x \in Workers : x # w => pc'[x] = pc[x] /\ op'[x] = op[x] /\ row'[x] = row[x]
    PROVE  Statuses'
<1>1. \A k, v : Unexecuted(k, v)' <=> Unexecuted(k, v)
  BY DEF Unexecuted, RowOf
<1>2. version' \in [Workers -> Versions \cup {NoVersion}] /\ ReadsProduced
  BY DEF Statuses, StatusTypeOK
<1>3. StatusTypeOK' /\ StatusRight' /\ \A x \in Workers : VersionRight(x)'
  BY <1>1, <1>2, StatusQuiet
<1>4. ReadsProduced'
  BY <1>1, <1>2, ReadsProducedKept
<1> QED
  BY <1>3, <1>4 DEF Statuses

\* So the fifth invariant is preserved.
LEMMA StatusesNext ==
    Control /\ Bitmaps /\ References /\ Objects /\ Statuses /\ [Next]_vars => Statuses'
<1> SUFFICES ASSUME Control, Bitmaps, References, Objects, Statuses, [Next]_vars PROVE Statuses'
  OBVIOUS
<1>1. CASE UNCHANGED vars
  <2>1. UNCHANGED <<epoch, phase, txs, db, todo, op, row, pc, version, status, placeholders_,
                    master_, previous_master_>>
    BY <1>1 DEF vars, batchVars, opVars, localVars, objectVars
  <2>2. Executed' = Executed
    BY <2>1 DEF Executed
  <2>3. \A k, v : Unexecuted(k, v)' <=> Unexecuted(k, v)
    BY <2>1, <2>2 DEF Unexecuted, RowOf
  <2>4. version' \in [Workers -> Versions \cup {NoVersion}] /\ ReadsProduced
    BY <2>1 DEF Statuses, StatusTypeOK
  <2>5. StatusTypeOK' /\ StatusRight' /\ \A x \in Workers : VersionRight(x)'
    BY <2>1, <2>3, <2>4, StatusQuiet
  <2>6. ReadsProduced'
    BY <2>1, <2>2, <2>3, <2>4, ReadsProducedKept
  <2> QED
    BY <2>5, <2>6 DEF Statuses
<1>2. CASE StartReadPhase \/ StartExecution \/ NewEpoch
  BY <1>2, StatusesBarrier
<1>3. ASSUME NEW w \in Workers, Step(w) PROVE Statuses'
  <2>1. CASE placeholder(w) \/ final_writer(w)
    BY <2>1, StatusesPlaceholder, StatusesFinalWriter
  <2>2. CASE wait_stable_and_execute_read(w) \/ final_reader(w)
    BY <2>2, StatusesRead, StatusesFinalReader
  <2>3. CASE other_writer(w) \/ write_unlock(w) \/ write_rec(w) \/ write_status(w)
    BY <2>3, StatusesOtherWriter, StatusesStore
  <2>4. CASE Begin(w)
    BY <2>4, StatusesBegin, StatusesOther
  <2>5. CASE \/ EndLoop(w) \/ unlock(w) \/ finalize_try_lock(w) \/ update_bitmap(w)
             \/ finalize_unlock(w) \/ finalize_end(w) \/ add_ref(w) \/ add_first_ref(w)
             \/ read_master(w) \/ identify(w) \/ placeholder_lock(w) \/ decrement_ref_cnt(w)
             \/ gc_lock(w) \/ write_lock(w)
    BY <2>5, StatusesMove, StatusesOther
  <2> QED
    BY <1>3, <2>1, <2>2, <2>3, <2>4, <2>5 DEF Step
<1> QED
  BY <1>1, <1>2, <1>3 DEF Next
-------------------------------------------------------------------------------
(***************************************************************************)
(* The properties                                                          *)
(***************************************************************************)

\* All five invariants together.
Inv == Control /\ Bitmaps /\ References /\ Objects /\ Statuses

\* The invariants are invariants.
THEOREM Invariance == Spec => []Inv
<1>1. Init => Inv
  BY InitControl, InitBitmaps, InitReferences, InitObjects, InitStatuses DEF Inv
<1>2. Inv /\ [Next]_vars => Inv'
  BY ControlNext, BitmapsNext, ReferencesNext, ObjectsNext, StatusesNext DEF Inv
<1> QED
  BY <1>1, <1>2, PTL DEF Spec

\* The versions that exist are those that a row owns.
LEMMA LiveIsOwned ==
    ASSUME Inv, NEW k \in Keys
    PROVE  Live(k) = Owned(k)
<1>1. Owned(k) \subseteq Versions
  BY DEF Inv, Objects, ObjectsTypeOK, Owned
<1>2. \A v \in Versions : status[k][v] # "none" <=> v \in Owned(k)
  BY DEF Inv, Statuses, StatusRight, StatusOf
<1> QED
  BY <1>1, <1>2 DEF Live

\* No version is leaked, and none is freed while it is a placeholder, the master or
\* the previous master: append_pending_version, identify_write_version and
\* decrement_ref_cnt between them keep account of every one.
THEOREM NothingLeaked == Spec => []LiveVersionsOwned
<1>1. Inv => LiveVersionsOwned
  BY LiveIsOwned DEF LiveVersionsOwned, Owned
<1> QED
  BY <1>1, Invariance, PTL

\* The version that append_pending_version gave to a reader exists until the reader
\* has read it, whatever the final writer and the other readers do.
THEOREM ReadersSafe == Spec => []ReadersVersionsLive
<1>1. ASSUME Inv PROVE ReadersVersionsLive
  <2>1. SUFFICES ASSUME phase = "exec", NEW k \in Keys, NEW o \in Referring(k)
                 PROVE  status[k][pending_[o[1]][k]] # "none"
    BY DEF ReadersVersionsLive
  <2>2. o \in Holding(k)
    <3>1. o \in ReadsOf(k)
      BY DEF Referring, ReadsOf, RowOf
    <3>2. o \in Ahead({"wait_stable", "decrement"})
      BY AheadMembers DEF Referring
    <3> QED
      BY <3>1, <3>2 DEF Holding
  <2>3. pending_[o[1]][k] = Depends(o) /\ Depends(o) \in Owned(k)
    BY <1>1, <2>1, <2>2, ReferredVersion DEF Inv
  <2> QED
    BY <1>1, <2>3, LiveIsOwned DEF Live
<1> QED
  BY <1>1, Invariance, PTL

\* A writer never stores into a version that the final reader has freed: the last
\* reader of a version comes only after its writer.
THEOREM WritersSafe == Spec => []WritersVersionsLive
<1>1. ASSUME Inv PROVE WritersVersionsLive
  <2>1. SUFFICES ASSUME NEW w \in Workers, pc[w] \in Storing, version[w] # NoVersion
                 PROVE  status[row[w]][version[w]] =
                            IF pc[w] = "write_status" THEN "written" ELSE "pending"
    <3>1. \A w \in Workers : pc[w] \in {"write_rec", "write_status"} => version[w] # NoVersion
      BY <1>1 DEF Inv, Statuses, VersionRight, Storing
    <3> QED
      BY <2>1, <3>1 DEF WritersVersionsLive, Storing
  <2>2. /\ version[w] = <<epoch, op[w][1]>> /\ version[w] \in Owned(row[w])
        /\ version[w] \in Versions
    BY <1>1, <2>1 DEF Inv, Statuses, StatusTypeOK, VersionRight
  <2>3. /\ row[w] \in Keys /\ Unexecuted(row[w], version[w])
        /\ Written(row[w], version[w]) <=> pc[w] = "write_status"
    BY <1>1, <2>1, <2>2, OwnVersion DEF Inv, Storing, Writing
  <2> QED
    BY <1>1, <2>2, <2>3 DEF Inv, Statuses, StatusRight, StatusOf
<1> QED
  BY <1>1, Invariance, PTL

\* Whichever of the final reader and the final writer comes last leaves the row
\* clean for the next epoch, with the result of serial execution as its only version.
THEOREM RowsCollected == Spec => []RowsCleanBetweenEpochs
<1>1. ASSUME Inv PROVE RowsCleanBetweenEpochs
  <2>1. SUFFICES ASSUME phase \in {"write", "end"}, NEW k \in Keys
                 PROVE  /\ ref_cnt_[k] = 0 /\ placeholders_[k] = {}
                        /\ previous_master_[k] = NoVersion /\ master_[k] = db[k]
                        /\ Live(k) = {db[k]} /\ core_bitmap_[k] \subseteq Cores(k)
    BY DEF RowsCleanBetweenEpochs, Cores
  <2>2. ref_cnt_[k] = 0 /\ core_bitmap_[k] \subseteq Cores(k)
    BY <1>1, <2>1 DEF Inv, References, RefsOfRow, Bitmaps, FiledBitmaps, FiledBitmap
  <2>3. Wanted(k) = {}
    BY <2>1 DEF Wanted, Placed
  <2>4. placeholders_[k] = {} /\ previous_master_[k] = NoVersion /\ master_[k] = db[k]
    BY <1>1, <2>1, <2>3 DEF Inv, Objects, RowObjects, NewMaster, Collected
  <2>5. db[k] # NoVersion
    BY <1>1, VersionNames DEF Inv, Objects
  <2>6. Live(k) = {db[k]}
    BY <1>1, <2>4, <2>5, LiveIsOwned DEF Owned
  <2> QED
    BY <2>2, <2>4, <2>6
<1> QED
  BY <1>1, Invariance, PTL
-------------------------------------------------------------------------------
(***************************************************************************)
(* Cheetah implements DeterministicDB                                      *)
(***************************************************************************)

\* The instance of Transactions in DeterministicDB is this one.
LEMMA SameOperators ==
    /\ DDB!Serials = Serials /\ DDB!Loaded = Loaded
    /\ \A b : DDB!Ops(b) = Ops(b) /\ DDB!Reads(b) = Reads(b) /\ DDB!Updates(b) = Updates(b)
    /\ \A b, k : DDB!Writers(b, k) = Writers(b, k)
    /\ \A S : DDB!Max(S) = Max(S)
<1>1. DDB!Serials = Serials /\ DDB!Loaded = Loaded
  BY DEF DDB!Serials, Serials, DDB!Loaded, Loaded
<1>2. \A b : DDB!Ops(b) = Ops(b)
  BY <1>1 DEF DDB!Ops, Ops
<1>3. \A b : DDB!Reads(b) = Reads(b) /\ DDB!Updates(b) = Updates(b)
  BY <1>2 DEF DDB!Reads, Reads, DDB!Updates, Updates
<1>4. \A b, k : DDB!Writers(b, k) = Writers(b, k)
  BY <1>3 DEF DDB!Writers, Writers
<1>5. \A S : DDB!Max(S) = Max(S)
  BY DEF DDB!Max, Max
<1> QED
  BY <1>1, <1>2, <1>3, <1>4, <1>5

\* So is what serial execution reads and leaves.
LEMMA SameSerialExecution ==
    ASSUME NEW b, NEW e, NEW d
    PROVE  /\ DDB!SerialResult(b, e, d) = SerialResult(b, e, d)
           /\ \A s, k : DDB!SerialRead(b, e, d, s, k) = SerialRead(b, e, d, s, k)
<1>1. DDB!SerialResult(b, e, d) = SerialResult(b, e, d)
  BY SameOperators DEF DDB!SerialResult, SerialResult
<1>2. ASSUME NEW s, NEW k PROVE DDB!SerialRead(b, e, d, s, k) = SerialRead(b, e, d, s, k)
  BY SameOperators DEF DDB!SerialRead, SerialRead
<1> QED
  BY <1>1, <1>2

\* The read of a version that is not pending is the read of DeterministicDB.
LEMMA RefinesRead ==
    ASSUME Inv, NEW w \in Workers, wait_stable_and_execute_read(w)
    PROVE  DDB!Read(op[w]) /\ op[w] \in Ops(txs)
<1>0. PICK o, k, v : o = op[w] /\ k = row[w] /\ v = Depends(o)
  OBVIOUS
<1>1. /\ phase = "exec" /\ o \in Reads(txs) /\ RowOf(o) = k
      /\ o \notin Executed /\ Executed' = Executed \cup {o}
      /\ Source(w) = v /\ ~Unexecuted(k, v)
  BY <1>0, StatusesRead DEF Inv
<1>2. /\ reads' = reads \cup {[serial |-> o[1], index |-> k, version |-> v]}
      /\ UNCHANGED <<epoch, txs, db>>
  BY <1>0, <1>1 DEF wait_stable_and_execute_read, Serial, batchVars
<1>3. o \in Ops(txs) /\ txs \in Workloads /\ epoch <= NumEpochs /\ k \in Keys
  BY <1>0, <1>1 DEF Inv, Control, ControlTypeOK, Reads
<1>4. v = SerialRead(txs, epoch, db, o[1], k)
  BY <1>0, <1>1 DEF Depends
<1>5. DDB!Produced(v, k)
  <2> SUFFICES ASSUME v[1] = epoch
               PROVE  \E p \in Executed :
                         p[1] = v[2] /\ txs[p[1]][p[2]] = [ope |-> "Update", index |-> k]
    BY DEF DDB!Produced
  <2> DEFINE before == {u \in Writers(txs, k) : u < o[1]}
  <2>1. /\ before = {} => v[1] # epoch
        /\ before # {} => v = <<epoch, Max(before)>> /\ Max(before) \in Writers(txs, k)
    BY <1>0, <1>1, <1>3, Dependence DEF Inv, Objects, ReadsOf
  <2>2. PICK s \in Writers(txs, k) : v = <<epoch, s>>
    BY <2>1
  <2>3. PICK p \in Updates(txs) : p[1] = s /\ RowOf(p) = k
    BY <1>3, <2>2, WritersAreUpdates DEF RowOf
  <2>4. p \in Executed
    BY <1>1, <2>2, <2>3 DEF Unexecuted
  <2>5. p \in Ops(txs) /\ txs[p[1]][p[2]].ope = "Update" /\ txs[p[1]][p[2]].index = k
    BY <2>3 DEF Updates, RowOf
  <2>6. txs[p[1]][p[2]] = [ope |-> "Update", index |-> k]
    BY <1>3, <2>5, OperationsOfBatch
  <2> QED
    BY <2>2, <2>3, <2>4, <2>6
<1>6. txs[o[1]][o[2]].index = k
  BY <1>1 DEF RowOf
<1>7. DDB!Read(o)
  BY <1>1, <1>2, <1>3, <1>4, <1>5, <1>6, SameOperators, SameSerialExecution DEF DDB!Read
<1> QED
  BY <1>0, <1>3, <1>7

\* A write is done when its version is stable, or at once if nobody needs it.
LEMMA RefinesWrite ==
    ASSUME Inv, NEW w \in Workers, write_unlock(w) \/ write_rec(w) \/ write_status(w)
    PROVE  (DDB!Write(op[w]) /\ op[w] \in Ops(txs)) \/ UNCHANGED <<epoch, txs, db, Executed, reads>>
<1>1. /\ phase = "exec" /\ op[w] \in Updates(txs) /\ op[w] \notin Executed
      /\ Executed' = Executed \/ Executed' = Executed \cup {op[w]}
  BY StatusesStore DEF Inv
<1>2. UNCHANGED <<epoch, txs, db, reads>>
  BY DEF write_unlock, write_rec, write_status, SetStatus, batchVars
<1>3. epoch <= NumEpochs /\ op[w] \in Ops(txs)
  BY <1>1 DEF Inv, Control, ControlTypeOK, Updates
<1>4. CASE Executed' = Executed
  BY <1>2, <1>4
<1>5. CASE Executed' = Executed \cup {op[w]}
  BY <1>1, <1>2, <1>3, <1>5, SameOperators DEF DDB!Write
<1> QED
  BY <1>1, <1>4, <1>5

\* The barriers: the first two stutter, the third begins a new epoch when every
\* operation has been executed.
LEMMA RefinesBarrier ==
    ASSUME Inv
    PROVE  /\ StartReadPhase \/ StartExecution => UNCHANGED <<epoch, txs, db, Executed, reads>>
           /\ NewEpoch => DDB!NewEpoch
<1>1. ASSUME StartReadPhase \/ StartExecution PROVE UNCHANGED <<epoch, txs, db, Executed, reads>>
  <2>1. phase # "exec" /\ UNCHANGED <<epoch, txs, db, reads>>
    BY <1>1 DEF StartReadPhase, StartExecution
  <2>2. Executed = {}
    BY <2>1, ExecutedIs
  <2>3. Executed' = {}
    <3>1. CASE StartExecution
      <4>1. Ahead(Executing)' = Ops(txs)
        BY <3>1, ExecutedIs, AheadAtStart DEF Inv
      <4> QED
        BY <2>1, <4>1, ExecutedIs
    <3>2. CASE StartReadPhase
      BY <3>2, ExecutedIs DEF StartReadPhase
    <3> QED
      BY <1>1, <3>1, <3>2
  <2> QED
    BY <2>1, <2>2, <2>3
<1>2. ASSUME NewEpoch PROVE DDB!NewEpoch
  <2>1. epoch \in Nat /\ NumEpochs \in Nat
    BY EpochsAssumption DEF Inv, Control, ControlTypeOK
  <2>2. /\ phase = "exec" /\ AtBarrier /\ phase' # "exec" /\ epoch' = epoch + 1
        /\ db' = SerialResult(txs, epoch, db) /\ reads' = {}
        /\ IF epoch < NumEpochs THEN txs' \in Workloads ELSE UNCHANGED txs
    BY <1>2, <2>1 DEF NewEpoch
  <2>3. epoch <= NumEpochs
    BY <2>2 DEF Inv, Control, ControlTypeOK
  <2>4. Executed = Ops(txs) /\ Executed' = {}
    <3>1. Ahead(Executing) = {}
      BY <2>2, ExecutedIs, AheadAtBarrier DEF Inv
    <3> QED
      BY <2>2, <3>1, ExecutedIs
  <2> QED
    BY <2>2, <2>3, <2>4, SameOperators, SameSerialExecution DEF DDB!NewEpoch
<1> QED
  BY <1>1, <1>2

\* Cheetah implements DeterministicDB, for any number of cores, rows and epochs and
\* for any batches: although most versions are never created, every read is answered
\* by the version that the serial order gives it, not before the write it depends on,
\* every operation is executed once, and an epoch leaves the state of serial execution.
THEOREM CheetahRefines == Spec => ImplementsDeterministicDB
<1>1. Init => DDB!Init
  <2> SUFFICES ASSUME Init PROVE DDB!Init
    OBVIOUS
  <2>1. Executed = {}
    BY DEF Init, Executed
  <2> QED
    BY <2>1, SameOperators DEF Init, DDB!Init
<1>2. Inv /\ [Next]_vars => [DDB!Next]_(DDB!vars)
  <2> SUFFICES ASSUME Inv, [Next]_vars
               PROVE  DDB!Next \/ UNCHANGED <<epoch, txs, db, Executed, reads>>
    BY DEF DDB!vars
  <2>1. CASE UNCHANGED vars
    BY <2>1 DEF vars, batchVars, opVars, Executed
  <2>2. CASE StartReadPhase \/ StartExecution \/ NewEpoch
    BY <2>2, RefinesBarrier DEF DDB!Next
  <2>3. ASSUME NEW w \in Workers, Step(w)
        PROVE  DDB!Next \/ UNCHANGED <<epoch, txs, db, Executed, reads>>
    <3>1. CASE wait_stable_and_execute_read(w)
      BY <3>1, RefinesRead, SameOperators DEF DDB!Next
    <3>2. CASE write_unlock(w) \/ write_rec(w) \/ write_status(w)
      BY <3>2, RefinesWrite, SameOperators DEF DDB!Next
    <3>3. CASE placeholder(w) \/ final_reader(w) \/ final_writer(w) \/ other_writer(w)
      <4>1. UNCHANGED <<epoch, txs, db, reads>>
        BY <3>3 DEF placeholder, final_reader, final_writer, other_writer, batchVars
      <4>2. Executed' = Executed
        BY <3>3, StatusesPlaceholder, StatusesFinalReader, StatusesFinalWriter,
           StatusesOtherWriter DEF Inv
      <4> QED
        BY <4>1, <4>2
    <3>4. CASE Begin(w)
      BY <3>4, StatusesBegin DEF Inv
    <3>5. CASE \/ EndLoop(w) \/ unlock(w) \/ finalize_try_lock(w) \/ update_bitmap(w)
               \/ finalize_unlock(w) \/ finalize_end(w) \/ add_ref(w) \/ add_first_ref(w)
               \/ read_master(w) \/ identify(w) \/ placeholder_lock(w) \/ decrement_ref_cnt(w)
               \/ gc_lock(w) \/ write_lock(w)
      BY <3>5, StatusesMove DEF Inv
    <3> QED
      BY <2>3, <3>1, <3>2, <3>3, <3>4, <3>5 DEF Step
  <2> QED
    BY <2>1, <2>2, <2>3 DEF Next
<1> QED
  BY <1>1, <1>2, Invariance, PTL DEF Spec, ImplementsDeterministicDB, DDB!Spec
===============================================================================
