----------------------------- MODULE CaracalProofs -----------------------------
(***************************************************************************)
(* Proofs about the locks and the row buffers of Caracal, for every number *)
(* of workers, transactions, rows, epochs and buffers, every size of the   *)
(* buffers and every set of batches.                                       *)
(***************************************************************************)
EXTENDS Caracal, TransactionProofs, FiniteSetTheorems

-------------------------------------------------------------------------------
(***************************************************************************)
(* The first invariant: types, the place of a worker in its loop, locks    *)
(***************************************************************************)

\* The worker is in an operation whose version does not exist yet.
Preparing == {"load_buffer", "try_lock", "append_global", "get_buffer", "install",
              "load_other", "append"}

\* The version exists, and the operation is not over.
Appended == {"unlock", "lock", "batch_append"}

Finalizing == {"finalize", "final_append", "final_unlock"}
Reading    == {"read", "wait_stable"}
Writing    == {"write_rec", "write_status"}
Labels     == {"begin", "done"} \cup Preparing \cup Appended \cup Finalizing
                  \cup Reading \cup Writing

Locked == {"append_global", "unlock", "batch_append", "final_append", "final_unlock"}

ControlTypeOK ==
    /\ epoch \in 1 .. NumEpochs + 1
    /\ phase \in {"init", "exec", "end", "aborted"}
    /\ phase # "end" => epoch <= NumEpochs
    /\ txs \in Workloads
    /\ todo \in [Workers -> SUBSET Ops(txs)]
    /\ op \in [Workers -> Serials \X Nat]
    /\ row \in [Workers -> Keys]
    /\ pc \in [Workers -> Labels]
    /\ buffer \in [Workers -> Buffers \cup {NoBuffer}]
    /\ spare_buffer_ \in [Workers -> Buffers \cup {NoBuffer}]
    /\ appended_core_buffers_ \in
           [Workers -> SUBSET (Keys \X (Buffers \cup {NoBuffer}))]
    /\ lock \in [Keys -> Workers \cup {Free}]
    /\ row_buffer_ \in [Keys -> Buffers \cup {NoBuffer}]
    /\ used_ \in 0 .. NumRegions

\* The lock of a row is held by the one worker that is where the code holds it.
LockOwner ==
    \A k \in Keys, w \in Workers : lock[k] = w <=> pc[w] \in Locked /\ row[w] = k

\* The labels of a phase
PhaseLabels ==
    \A w \in Workers :
        IF phase \in {"init", "aborted"} THEN pc[w] \notin Reading \cup Writing
        ELSE pc[w] \in {"begin", "done"} \cup Reading \cup Writing

\* The worker's operations are its own, the one it is in has left its list, and
\* row is the row of that operation.
OwnOperations ==
    \A w \in Workers :
        /\ todo[w] \subseteq Mine(w, Ops(txs))
        /\ phase \in {"init", "aborted"} => todo[w] \subseteq Updates(txs)
        /\ pc[w] \in Finalizing \cup {"done"} => todo[w] = {}
        /\ pc[w] \in Preparing \cup Appended \cup Reading \cup Writing =>
              /\ op[w] \in Mine(w, Ops(txs)) /\ op[w] \notin todo[w]
              /\ row[w] = txs[op[w][1]][op[w][2]].index
        /\ pc[w] \in Preparing \cup Appended \cup Writing => op[w] \in Updates(txs)
        /\ pc[w] \in Reading => op[w] \in Reads(txs)

Control == ControlTypeOK /\ LockOwner /\ PhaseLabels /\ OwnOperations

\* The default row is a row, and no worker is the value of a free lock.
LEMMA Defaults ==
    /\ NoRows \in [Workers -> Keys]
    /\ NoOps \in [Workers -> Serials \X Nat]
    /\ Free \notin Workers
<1>1. (CHOOSE k \in Keys : TRUE) \in Keys
  BY KeysAssumption
<1>2. Free \notin Workers
  BY NAssumption DEF Free, Workers
<1> QED
  BY <1>1, <1>2, SerialsAreNatural DEF NoRows, NoOps

\* The first invariant holds initially ...
LEMMA InitControl == Init => Control
<1> SUFFICES ASSUME Init PROVE Control
  OBVIOUS
<1> USE DEF Init
<1>1. ControlTypeOK
  BY Defaults, EpochsAssumption, BufferAssumption
     DEF ControlTypeOK, Labels, NoBuffers, Mine, Updates
<1>2. LockOwner
  BY Defaults DEF LockOwner, Locked
<1>3. PhaseLabels
  BY DEF PhaseLabels, Reading, Writing
<1>4. OwnOperations
  BY DEF OwnOperations, Mine, Updates, Finalizing, Preparing, Appended, Reading, Writing
<1> QED
  BY <1>1, <1>2, <1>3, <1>4 DEF Control

\* What a step of w does to the lock of its row, when it goes from one label to
\* another: nothing, take it or give it back.
LockFollows(w, from, l) ==
    \/ UNCHANGED lock /\ (l \in Locked <=> from \in Locked)
    \/ Acquire(w) /\ l \in Locked /\ from \notin Locked
    \/ Release(w) /\ l \notin Locked /\ from \in Locked

\* A step of w within its operation or to the end of it.
LEMMA ControlStays ==
    ASSUME Control, phase \in {"init", "exec"},
           NEW w \in Workers, NEW l \in Labels,
           Goto(w, l),
           LockFollows(w, pc[w], l),
           UNCHANGED <<epoch, phase, txs, todo, op, row>>,
           buffer' \in [Workers -> Buffers \cup {NoBuffer}],
           spare_buffer_' \in [Workers -> Buffers \cup {NoBuffer}],
           appended_core_buffers_' \in
               [Workers -> SUBSET (Keys \X (Buffers \cup {NoBuffer}))],
           row_buffer_' \in [Keys -> Buffers \cup {NoBuffer}],
           used_' \in 0 .. NumRegions,
           l \in Reading => pc[w] \in Reading,
           l \in Writing => pc[w] \in Writing,
           l \in Preparing \cup Appended => pc[w] \in Preparing \cup Appended,
           l \in Finalizing \cup {"done"} => todo[w] = {},
           l \in Finalizing => phase = "init"
    PROVE  Control'
<1>1. /\ pc' = [pc EXCEPT ![w] = l] /\ pc \in [Workers -> Labels]
      /\ row \in [Workers -> Keys] /\ lock \in [Keys -> Workers \cup {Free}]
  BY DEF Goto, Control, ControlTypeOK
<1>2. LockOwner' /\ lock' \in [Keys -> Workers \cup {Free}]
  <2>1. CASE UNCHANGED lock /\ (l \in Locked <=> pc[w] \in Locked)
    BY <1>1, <2>1 DEF Control, LockOwner
  <2>2. CASE Acquire(w) /\ l \in Locked /\ pc[w] \notin Locked
    BY <1>1, <2>2, Defaults DEF Control, LockOwner, Acquire
  <2>3. CASE Release(w) /\ l \notin Locked /\ pc[w] \in Locked
    BY <1>1, <2>3, Defaults DEF Control, LockOwner, Release
  <2> QED
    BY <2>1, <2>2, <2>3 DEF LockFollows
<1>3. PhaseLabels'
  BY <1>1 DEF Control, PhaseLabels, Labels, Reading, Writing, Preparing, Appended, Finalizing
<1>4. OwnOperations'
  BY <1>1 DEF Control, OwnOperations, Labels, Reading, Writing, Preparing, Appended, Finalizing
<1>5. ControlTypeOK'
  BY <1>1, <1>2 DEF Control, ControlTypeOK
<1> QED
  BY <1>2, <1>3, <1>4, <1>5 DEF Control

\* The loop gives a worker its next operation.
LEMMA ControlBegin ==
    ASSUME Control, NEW w \in Workers, Begin(w)
    PROVE  Control'
<1> DEFINE o == First(todo[w])
<1>1. /\ phase \in {"init", "exec"} /\ pc[w] = "begin"
      /\ txs \in Workloads
      /\ todo \in [Workers -> SUBSET Ops(txs)] /\ op \in [Workers -> Serials \X Nat]
      /\ row \in [Workers -> Keys] /\ pc \in [Workers -> Labels]
  BY DEF Begin, Control, ControlTypeOK
<1>2. o \in todo[w] /\ o \in Ops(txs)
  <2>1. todo[w] # {} /\ todo[w] \subseteq Ops(txs)
    BY <1>1 DEF Begin
  <2>2. todo[w] \subseteq Serials \X Nat
    BY <1>1, <2>1, OperationsOfBatch
  <2> QED
    BY <2>1, <2>2, FirstIsMember
<1> DEFINE l == IF phase = "init" THEN "load_buffer"
                ELSE IF o \in Reads(txs) THEN "read" ELSE "write_rec"
<1>3. /\ op' = [op EXCEPT ![w] = o]
      /\ row' = [row EXCEPT ![w] = txs[o[1]][o[2]].index]
      /\ todo' = [todo EXCEPT ![w] = @ \ {o}]
      /\ pc' = [pc EXCEPT ![w] = l]
      /\ buffer' = [buffer EXCEPT ![w] = NoBuffer]
      /\ UNCHANGED <<epoch, phase, txs, appended_core_buffers_, lock, row_buffer_,
                     used_, spare_buffer_>>
  BY DEF Begin, Goto, batchVars, bufferVars
<1>4. /\ o \in Serials \X Nat /\ txs[o[1]][o[2]].index \in Keys
      /\ o \in Mine(w, Ops(txs))
      /\ phase = "init" => o \in Updates(txs)
      /\ o \notin Reads(txs) => o \in Updates(txs)
  BY <1>1, <1>2, OperationsOfBatch DEF Control, OwnOperations
<1> HIDE DEF o
<1>5. ControlTypeOK'
  BY <1>1, <1>3, <1>4 DEF Control, ControlTypeOK, Labels, Preparing, Reading, Writing
<1>6. LockOwner'
  BY <1>1, <1>3 DEF Control, LockOwner, Locked
<1>7. PhaseLabels'
  BY <1>1, <1>3 DEF Control, PhaseLabels, Preparing, Reading, Writing
<1>8. OwnOperations'
  BY <1>1, <1>3, <1>4 DEF Control, OwnOperations, Preparing, Appended, Finalizing,
     Reading, Writing
<1> QED
  BY <1>5, <1>6, <1>7, <1>8 DEF Control

\* The last batch appends choose a row whose lock is free.
LEMMA ControlFinalize ==
    ASSUME Control, phase \in {"init", "exec"}, NEW w \in Workers, finalize_try_lock(w)
    PROVE  Control'
<1>1. /\ pc[w] = "finalize" /\ pc' = [pc EXCEPT ![w] = "final_append"]
      /\ UNCHANGED <<epoch, phase, txs, todo, op, appended_core_buffers_, row_buffer_,
                     used_, spare_buffer_>>
  BY DEF finalize_try_lock, Goto, batchVars, bufferVars
<1>2. PICK p \in appended_core_buffers_[w] :
          /\ lock[p[1]] = Free
          /\ lock' = [lock EXCEPT ![p[1]] = w]
          /\ row' = [row EXCEPT ![w] = p[1]]
          /\ buffer' = [buffer EXCEPT ![w] = p[2]]
  BY DEF finalize_try_lock
<1>3. /\ p[1] \in Keys /\ p[2] \in Buffers \cup {NoBuffer}
      /\ row \in [Workers -> Keys] /\ pc \in [Workers -> Labels]
      /\ lock \in [Keys -> Workers \cup {Free}]
  <2>1. appended_core_buffers_[w] \subseteq Keys \X (Buffers \cup {NoBuffer})
    BY DEF Control, ControlTypeOK
  <2> QED
    BY <2>1 DEF Control, ControlTypeOK
<1>4. ControlTypeOK'
  BY <1>1, <1>2, <1>3 DEF Control, ControlTypeOK, Labels, Finalizing
<1>5. LockOwner'
  BY <1>1, <1>2, <1>3, Defaults DEF Control, LockOwner, Locked
<1>6. PhaseLabels'
  BY <1>1, <1>3 DEF Control, PhaseLabels, Finalizing, Reading, Writing
<1>7. OwnOperations'
  BY <1>1, <1>2, <1>3 DEF Control, OwnOperations, Preparing, Appended, Finalizing,
     Reading, Writing
<1> QED
  BY <1>4, <1>5, <1>6, <1>7 DEF Control

\* The barriers between the phases: nobody holds a lock.
LEMMA ControlBarrier ==
    ASSUME Control, StartExecution \/ NewEpoch
    PROVE  Control'
<1>1. /\ \A w \in Workers : pc[w] = "done"
      /\ op' = NoOps /\ row' = NoRows /\ buffer' = NoBuffers
      /\ pc' = [w \in Workers |-> "begin"]
      /\ UNCHANGED <<appended_core_buffers_, lock, row_buffer_, used_, spare_buffer_>>
      /\ phase \in {"init", "exec"}
  BY DEF StartExecution, NewEpoch, AtBarrier, LocalsReset, bufferVars
<1>2. /\ phase' \in {"init", "exec", "end"} /\ epoch' \in 1 .. NumEpochs + 1
      /\ phase' # "end" => epoch' <= NumEpochs
      /\ txs' \in Workloads
  BY <1>1, EpochsAssumption DEF StartExecution, NewEpoch, Control, ControlTypeOK
<1>3. ASSUME NEW w \in Workers
      PROVE  /\ todo'[w] \subseteq Mine(w, Ops(txs'))
             /\ phase' = "init" => todo'[w] \subseteq Updates(txs')
  <2>1. todo[w] = {}
    BY <1>1 DEF Control, OwnOperations
  <2> QED
    BY <2>1 DEF StartExecution, NewEpoch, Mine, Updates
<1>4. todo' \in [Workers -> SUBSET Ops(txs')]
  <2>1. todo' = [w \in Workers |-> todo'[w]]
    BY DEF StartExecution, NewEpoch, Control, ControlTypeOK
  <2>2. \A w \in Workers : todo'[w] \in SUBSET Ops(txs')
    BY <1>3 DEF Mine
  <2> QED
    BY <2>1, <2>2
<1>5. ControlTypeOK'
  BY <1>1, <1>2, <1>4, Defaults DEF Control, ControlTypeOK, Labels, NoBuffers
<1>6. LockOwner'
  BY <1>1 DEF Control, LockOwner, Locked
<1>7. PhaseLabels'
  BY <1>1, <1>2 DEF PhaseLabels, Reading, Writing
<1>8. OwnOperations'
  BY <1>1, <1>2, <1>3 DEF OwnOperations, Preparing, Appended, Finalizing, Reading, Writing
<1> QED
  BY <1>5, <1>6, <1>7, <1>8 DEF Control

\* ... and every step keeps it.
LEMMA ControlNext == Control /\ [Next]_vars => Control'
<1> SUFFICES ASSUME Control, [Next]_vars PROVE Control'
  OBVIOUS
<1>t. /\ buffer \in [Workers -> Buffers \cup {NoBuffer}]
      /\ spare_buffer_ \in [Workers -> Buffers \cup {NoBuffer}]
      /\ appended_core_buffers_ \in
             [Workers -> SUBSET (Keys \X (Buffers \cup {NoBuffer}))]
      /\ row_buffer_ \in [Keys -> Buffers \cup {NoBuffer}]
      /\ used_ \in 0 .. NumRegions
      /\ row \in [Workers -> Keys]
  BY DEF Control, ControlTypeOK
<1>1. CASE UNCHANGED vars
  BY <1>1 DEF vars, batchVars, opVars, bufferVars, Control, ControlTypeOK, LockOwner,
     PhaseLabels, OwnOperations
<1>2. CASE StartExecution \/ NewEpoch
  BY <1>2, ControlBarrier
<1>3. ASSUME NEW w \in Workers, Step(w) PROVE Control'
  <2> USE <1>t DEF batchVars, opVars, bufferVars
  <2>p. phase \in {"init", "exec"}
    BY <1>3 DEF Step
  <2>l. \A l : l \in Labels <=> l \in {"begin", "done"} \cup Preparing \cup Appended
            \cup Finalizing \cup Reading \cup Writing
    BY DEF Labels
  <2>1. CASE Begin(w)
    BY <2>1, ControlBegin
  <2>2. CASE EndLoop(w)
    <3> DEFINE l == IF phase = "init" THEN "finalize" ELSE "done"
    <3>1. l \in Labels /\ Goto(w, l) /\ LockFollows(w, pc[w], l)
      BY <2>2, <2>l DEF EndLoop, LockFollows, Locked, Finalizing
    <3> QED
      BY <2>2, <2>p, <3>1, ControlStays
         DEF EndLoop, Reading, Writing, Preparing, Appended, Finalizing
  <2>3. CASE may_be_contented(w)
    <3> DEFINE l == IF row_buffer_[row[w]] # NoBuffer THEN "append" ELSE "try_lock"
    <3>1. l \in Labels /\ Goto(w, l) /\ LockFollows(w, pc[w], l)
      BY <2>3, <2>l DEF may_be_contented, LockFollows, Locked, Preparing
    <3> QED
      BY <2>3, <2>p, <3>1, ControlStays
         DEF may_be_contented, Reading, Writing, Preparing, Appended, Finalizing
  <2>4. CASE try_lock(w)
    <3>1. PICK l \in {"append_global", "get_buffer"} :
              l \in Labels /\ Goto(w, l) /\ LockFollows(w, pc[w], l)
      BY <2>4, <2>l DEF try_lock, LockFollows, Locked, Preparing
    <3> QED
      BY <2>4, <2>p, <3>1, ControlStays
         DEF try_lock, Reading, Writing, Preparing, Appended, Finalizing
  <2>5. CASE append_to_uncontended_row(w)
    <3>1. "unlock" \in Labels /\ LockFollows(w, pc[w], "unlock")
      BY <2>5, <2>l DEF append_to_uncontended_row, LockFollows, Locked, Appended
    <3> QED
      BY <2>5, <2>p, <3>1, ControlStays
         DEF append_to_uncontended_row, Reading, Writing, Preparing, Appended, Finalizing
  <2>6. CASE unlock(w)
    <3>1. "begin" \in Labels /\ LockFollows(w, pc[w], "begin")
      BY <2>6, <2>l DEF unlock, LockFollows, Locked
    <3> QED
      BY <2>6, <2>p, <3>1, ControlStays
         DEF unlock, arrayVars, Reading, Writing, Preparing, Appended, Finalizing
  <2>7. CASE use_spare_buffer(w)
    <3>1. "install" \in Labels /\ LockFollows(w, pc[w], "install")
      BY <2>7, <2>l DEF use_spare_buffer, LockFollows, Locked, Preparing
    <3> QED
      BY <2>7, <2>p, <3>1, ControlStays
         DEF use_spare_buffer, Reading, Writing, Preparing, Appended, Finalizing
  <2>8. CASE fetch_new_buffer(w)
    <3>1. CASE UNCHANGED phase
      <4>1. "install" \in Labels /\ LockFollows(w, pc[w], "install")
        BY <2>8, <2>l DEF fetch_new_buffer, LockFollows, Locked, Preparing
      <4>2. Exhausted \/ (used_ + 1 \in Buffers /\ used_ + 1 \in 0 .. NumRegions)
        BY BufferAssumption DEF Exhausted, Buffers
      <4> QED
        BY <2>8, <2>p, <3>1, <4>1, <4>2, ControlStays
           DEF fetch_new_buffer, Reading, Writing, Preparing, Appended, Finalizing
    <3>2. CASE phase' = "aborted"
      BY <2>8, <2>p, <3>2 DEF fetch_new_buffer, Control, ControlTypeOK, LockOwner,
         PhaseLabels, OwnOperations
    <3> QED
      BY <2>8, <3>1, <3>2 DEF fetch_new_buffer
  <2>9. CASE try_install_new_buffer(w)
    <3>1. PICK l \in {"append", "load_other"} :
              l \in Labels /\ Goto(w, l) /\ LockFollows(w, pc[w], l)
      BY <2>9, <2>l DEF try_install_new_buffer, LockFollows, Locked, Preparing
    <3> QED
      BY <2>9, <2>p, <3>1, ControlStays
         DEF try_install_new_buffer, Reading, Writing, Preparing, Appended, Finalizing
  <2>10. CASE load_other_buffer(w)
    <3>1. "append" \in Labels /\ LockFollows(w, pc[w], "append")
      BY <2>10, <2>l DEF load_other_buffer, LockFollows, Locked, Preparing
    <3> QED
      BY <2>10, <2>p, <3>1, ControlStays
         DEF load_other_buffer, Reading, Writing, Preparing, Appended, Finalizing
  <2>11. CASE append_to_contented_row(w)
    <3>1. PICK l \in {"begin", "lock"} :
              l \in Labels /\ Goto(w, l) /\ LockFollows(w, pc[w], l)
      BY <2>11, <2>l DEF append_to_contented_row, LockFollows, Locked, Appended
    <3>2. appended_core_buffers_' \in
              [Workers -> SUBSET (Keys \X (Buffers \cup {NoBuffer}))]
      BY <2>11 DEF append_to_contented_row, Remember
    <3> QED
      BY <2>11, <2>p, <3>1, <3>2, ControlStays
         DEF append_to_contented_row, Reading, Writing, Preparing, Appended, Finalizing
  <2>12. CASE lock_full(w)
    <3>1. "batch_append" \in Labels /\ LockFollows(w, pc[w], "batch_append")
      BY <2>12, <2>l DEF lock_full, LockFollows, Locked, Appended
    <3> QED
      BY <2>12, <2>p, <3>1, ControlStays
         DEF lock_full, Reading, Writing, Preparing, Appended, Finalizing
  <2>13. CASE batch_append(w)
    <3>1. PICK l \in {"unlock", "final_unlock"} :
              /\ l \in Labels /\ Goto(w, l) /\ LockFollows(w, pc[w], l)
              /\ l = "unlock" <=> pc[w] = "batch_append"
      BY <2>13, <2>l DEF batch_append, LockFollows, Locked, Appended, Finalizing
    <3>2. l = "final_unlock" => pc[w] = "final_append"
      BY <2>13, <3>1 DEF batch_append
    <3>3. l = "final_unlock" => phase = "init" /\ todo[w] = {}
      BY <2>p, <3>2 DEF Control, PhaseLabels, OwnOperations, Finalizing, Reading, Writing
    <3> QED
      BY <2>13, <2>p, <3>1, <3>3, ControlStays
         DEF batch_append, Reading, Writing, Preparing, Appended, Finalizing
  <2>14. CASE finalize_try_lock(w)
    BY <2>14, <2>p, ControlFinalize
  <2>15. CASE finalize_unlock(w)
    <3>1. "finalize" \in Labels /\ LockFollows(w, pc[w], "finalize")
      BY <2>15, <2>l DEF finalize_unlock, LockFollows, Locked, Finalizing
    <3>2. phase = "init" /\ todo[w] = {}
      BY <2>15, <2>p DEF finalize_unlock, Control, PhaseLabels, OwnOperations, Finalizing,
         Reading, Writing
    <3> QED
      BY <2>15, <2>p, <3>1, <3>2, ControlStays
         DEF finalize_unlock, Reading, Writing, Preparing, Appended, Finalizing
  <2>16. CASE finalize_end(w)
    <3>1. "done" \in Labels /\ LockFollows(w, pc[w], "done")
      BY <2>16, <2>l DEF finalize_end, LockFollows, Locked
    <3>2. todo[w] = {}
      BY <2>16 DEF finalize_end, Control, OwnOperations, Finalizing
    <3> QED
      BY <2>16, <2>p, <3>1, <3>2, ControlStays
         DEF finalize_end, Reading, Writing, Preparing, Appended, Finalizing
  <2>17. CASE read(w)
    <3>1. "wait_stable" \in Labels /\ LockFollows(w, pc[w], "wait_stable")
      BY <2>17, <2>l DEF read, LockFollows, Locked, Reading
    <3> QED
      BY <2>17, <2>p, <3>1, ControlStays
         DEF read, Reading, Writing, Preparing, Appended, Finalizing
  <2>18. CASE wait_stable_and_execute_read(w)
    <3>1. "begin" \in Labels /\ LockFollows(w, pc[w], "begin")
      BY <2>18, <2>l DEF wait_stable_and_execute_read, LockFollows, Locked
    <3> QED
      BY <2>18, <2>p, <3>1, ControlStays
         DEF wait_stable_and_execute_read, Reading, Writing, Preparing, Appended, Finalizing
  <2>19. CASE write_rec(w)
    <3>1. "write_status" \in Labels /\ LockFollows(w, pc[w], "write_status")
      BY <2>19, <2>l DEF write_rec, SetStatus, LockFollows, Locked, Writing
    <3> QED
      BY <2>19, <2>p, <3>1, ControlStays
         DEF write_rec, SetStatus, Reading, Writing, Preparing, Appended, Finalizing
  <2>20. CASE write_status(w)
    <3>1. "begin" \in Labels /\ LockFollows(w, pc[w], "begin")
      BY <2>20, <2>l DEF write_status, SetStatus, LockFollows, Locked
    <3> QED
      BY <2>20, <2>p, <3>1, ControlStays
         DEF write_status, SetStatus, Reading, Writing, Preparing, Appended, Finalizing
  <2> QED
    BY <1>3, <2>1, <2>2, <2>3, <2>4, <2>5, <2>6, <2>7, <2>8, <2>9, <2>10, <2>11, <2>12,
       <2>13, <2>14, <2>15, <2>16, <2>17, <2>18, <2>19, <2>20 DEF Step
<1> QED
  BY <1>1, <1>2, <1>3 DEF Next

\* The lock of a row has exactly the owner the code thinks it has, whatever the
\* interleaving of try_lock, the spinning lock and the last batch appends: two
\* workers never change a row's global array at the same time.
THEOREM LocksHaveOwners == Spec => [](ControlTypeOK /\ LockOwner)
<1>1. Control => ControlTypeOK /\ LockOwner
  BY DEF Control
<1> QED
  BY <1>1, InitControl, ControlNext, PTL DEF Spec
-------------------------------------------------------------------------------
(***************************************************************************)
(* The second invariant: who has which buffer                              *)
(***************************************************************************)
HoldingLabels == {"install", "load_other"}
UsingLabels   == {"append", "lock", "batch_append", "final_append", "final_unlock"}

BuffersFetched ==
    /\ \A k \in Keys : row_buffer_[k] <= used_
    /\ \A w \in Workers : spare_buffer_[w] <= used_ /\ buffer[w] <= used_

\* A buffer is installed in one row, the spare of one worker or in the hands of
\* one.
BuffersNotShared ==
    /\ \A j, k \in Keys :
          row_buffer_[j] # NoBuffer /\ row_buffer_[j] = row_buffer_[k] => j = k
    /\ \A w \in Workers : spare_buffer_[w] # NoBuffer =>
          /\ \A k \in Keys : row_buffer_[k] # spare_buffer_[w]
          /\ \A v \in Workers : spare_buffer_[v] = spare_buffer_[w] => v = w
    /\ \A w \in Workers : pc[w] \in HoldingLabels =>
          /\ buffer[w] # NoBuffer /\ spare_buffer_[w] = NoBuffer
          /\ \A k \in Keys : row_buffer_[k] # buffer[w]
          /\ \A v \in Workers : spare_buffer_[v] # buffer[w]
          /\ \A v \in Workers :
                pc[v] \in HoldingLabels /\ buffer[v] = buffer[w] => v = w

\* A worker appends to, and remembers, the buffer that the row has, although
\* the row got it while others were at work on the row.
AppendersUseRowBuffer ==
    \A w \in Workers :
        /\ pc[w] \in UsingLabels =>
              buffer[w] = row_buffer_[row[w]] /\ buffer[w] # NoBuffer
        /\ pc[w] = "load_other" => row_buffer_[row[w]] # NoBuffer
        /\ \A p \in appended_core_buffers_[w] :
              p[2] = row_buffer_[p[1]] /\ p[2] # NoBuffer

Ownership ==
    BuffersFetched /\ BuffersNotShared /\ AppendersUseRowBuffer /\ BuffersAccounted

\* The sets that BuffersAccounted counts are finite.
LEMMA CountedSetsFinite ==
    /\ IsFiniteSet(Workers) /\ IsFiniteSet(Contended)
    /\ IsFiniteSet(Spares) /\ IsFiniteSet(Holding)
    /\ Cardinality(Contended) \in Nat /\ Cardinality(Spares) \in Nat
    /\ Cardinality(Holding) \in Nat
<1>1. IsFiniteSet(Workers)
  BY NAssumption, FS_Interval DEF Workers
<1>2. /\ Contended \in SUBSET Keys /\ Spares \in SUBSET Workers
      /\ Holding \in SUBSET Workers
  BY DEF Contended, Spares, Holding
<1>3. IsFiniteSet(Contended) /\ IsFiniteSet(Spares) /\ IsFiniteSet(Holding)
  BY <1>1, <1>2, KeysAssumption, FS_Subset
<1> QED
  BY <1>1, <1>3, FS_CardinalityType

\* The second invariant holds initially ...
LEMMA InitOwnership == Init => Ownership
<1> SUFFICES ASSUME Init PROVE Ownership
  OBVIOUS
<1>1. BuffersFetched
  BY DEF Init, BuffersFetched, NoBuffers, NoBuffer
<1>2. BuffersNotShared /\ AppendersUseRowBuffer
  BY DEF Init, BuffersNotShared, AppendersUseRowBuffer, HoldingLabels, UsingLabels
<1>3. Contended = {} /\ Spares = {} /\ Holding = {}
  BY DEF Init, Contended, Spares, Holding
<1>4. BuffersAccounted
  BY <1>3, FS_EmptySet DEF Init, BuffersAccounted
<1> QED
  BY <1>1, <1>2, <1>4 DEF Ownership

\* A step of w that changes no buffer: it only moves w, by its label alone or
\* with a reset of its pointer.
LEMMA OwnershipLocal ==
    ASSUME Control, Ownership,
           NEW w \in Workers, NEW l \in Labels,
           Goto(w, l), l \notin HoldingLabels, pc[w] \notin HoldingLabels,
           UNCHANGED <<spare_buffer_, appended_core_buffers_, row_buffer_, used_>>,
           \/ UNCHANGED <<row, buffer>> /\ (l \in UsingLabels => pc[w] \in UsingLabels)
           \/ /\ \E k \in Keys : row' = [row EXCEPT ![w] = k]
              /\ buffer' = [buffer EXCEPT ![w] = NoBuffer] /\ l \notin UsingLabels
           \/ /\ UNCHANGED row
              /\ buffer' = [buffer EXCEPT ![w] = row_buffer_[row[w]]]
              /\ l \in UsingLabels => row_buffer_[row[w]] # NoBuffer
           \/ \E p \in appended_core_buffers_[w] :
              /\ row' = [row EXCEPT ![w] = p[1]]
              /\ buffer' = [buffer EXCEPT ![w] = p[2]]
    PROVE  Ownership'
<1>1. /\ pc' = [pc EXCEPT ![w] = l] /\ pc \in [Workers -> Labels]
      /\ row \in [Workers -> Keys]
      /\ buffer \in [Workers -> Buffers \cup {NoBuffer}]
      /\ appended_core_buffers_[w] \subseteq Keys \X (Buffers \cup {NoBuffer})
      /\ used_ \in 0 .. NumRegions
      /\ row_buffer_ \in [Keys -> Buffers \cup {NoBuffer}]
  BY DEF Goto, Control, ControlTypeOK
<1>2. \A v \in Workers : v # w => row'[v] = row[v] /\ buffer'[v] = buffer[v]
  BY <1>1
<1>3. buffer'[w] \in {buffer[w], NoBuffer} \cup {row_buffer_[k] : k \in Keys}
  BY <1>1 DEF Ownership, AppendersUseRowBuffer
<1>4. BuffersFetched'
  BY <1>1, <1>2, <1>3 DEF Ownership, BuffersFetched, NoBuffer
<1>5. BuffersNotShared'
  BY <1>1, <1>2 DEF Ownership, BuffersNotShared
<1>6. AppendersUseRowBuffer'
  <2>1. l \in UsingLabels => buffer'[w] = row_buffer_[row'[w]] /\ buffer'[w] # NoBuffer
    BY <1>1 DEF Ownership, AppendersUseRowBuffer
  <2>2. l # "load_other"
    BY DEF HoldingLabels
  <2> QED
    BY <1>1, <1>2, <2>1, <2>2 DEF Ownership, AppendersUseRowBuffer
<1>7. Contended' = Contended /\ Spares' = Spares /\ Holding' = Holding
  BY <1>1 DEF Contended, Spares, Holding, HoldingLabels
<1>8. BuffersAccounted'
  BY <1>7 DEF Ownership, BuffersAccounted
<1> QED
  BY <1>4, <1>5, <1>6, <1>8 DEF Ownership

\* The types that the steps below need.
LEMMA ControlTypes ==
    ASSUME Control
    PROVE  /\ pc \in [Workers -> Labels] /\ row \in [Workers -> Keys]
           /\ buffer \in [Workers -> Buffers \cup {NoBuffer}]
           /\ spare_buffer_ \in [Workers -> Buffers \cup {NoBuffer}]
           /\ row_buffer_ \in [Keys -> Buffers \cup {NoBuffer}]
           /\ used_ \in Nat /\ used_ <= NumRegions
           /\ NoBuffer \notin Buffers /\ Buffers \subseteq Nat /\ NoBuffer \in Nat
           /\ NumRegions \in Nat
  BY BufferAssumption DEF Control, ControlTypeOK, Buffers, NoBuffer

\* A worker takes its spare buffer in hand.
LEMMA OwnershipUseSpare ==
    ASSUME Control, Ownership, NEW w \in Workers, use_spare_buffer(w)
    PROVE  Ownership'
<1>1. /\ pc[w] = "get_buffer" /\ spare_buffer_[w] # NoBuffer
      /\ pc' = [pc EXCEPT ![w] = "install"]
      /\ buffer' = [buffer EXCEPT ![w] = spare_buffer_[w]]
      /\ spare_buffer_' = [spare_buffer_ EXCEPT ![w] = NoBuffer]
      /\ UNCHANGED <<row, appended_core_buffers_, row_buffer_, used_>>
  BY DEF use_spare_buffer, Goto, opVars
<1>2. BuffersFetched'
  BY <1>1, ControlTypes DEF Ownership, BuffersFetched, NoBuffer
<1>3. BuffersNotShared'
  BY <1>1, ControlTypes DEF Ownership, BuffersNotShared, HoldingLabels
<1>4. AppendersUseRowBuffer'
  BY <1>1, ControlTypes DEF Ownership, AppendersUseRowBuffer, UsingLabels
<1>5. BuffersAccounted'
  <2>1. /\ w \in Spares /\ Spares' = Spares \ {w}
        /\ w \notin Holding /\ Holding' = Holding \cup {w}
        /\ Contended' = Contended
    BY <1>1, ControlTypes DEF Spares, Holding, Contended
  <2>2. /\ Cardinality(Spares') = Cardinality(Spares) - 1
        /\ Cardinality(Holding') = Cardinality(Holding) + 1
    BY <2>1, CountedSetsFinite, FS_AddElement, FS_RemoveElement
  <2> QED
    BY <1>1, <2>1, <2>2, CountedSetsFinite DEF Ownership, BuffersAccounted
<1> QED
  BY <1>2, <1>3, <1>4, <1>5 DEF Ownership

\* A worker fetches a buffer that nobody has had.
LEMMA OwnershipFetch ==
    ASSUME Control, Ownership, NEW w \in Workers, fetch_new_buffer(w)
    PROVE  Ownership'
<1>1. CASE Exhausted
  <2>1. UNCHANGED <<pc, row, buffer, used_, appended_core_buffers_, row_buffer_,
                    spare_buffer_>>
    BY <1>1 DEF fetch_new_buffer, opVars
  <2>2. Contended' = Contended /\ Spares' = Spares /\ Holding' = Holding
    BY <2>1 DEF Contended, Spares, Holding
  <2> QED
    BY <2>1, <2>2 DEF Ownership, BuffersFetched, BuffersNotShared,
       AppendersUseRowBuffer, BuffersAccounted
<1>2. CASE ~Exhausted
  <2>1. /\ pc[w] = "get_buffer" /\ spare_buffer_[w] = NoBuffer
        /\ pc' = [pc EXCEPT ![w] = "install"]
        /\ buffer' = [buffer EXCEPT ![w] = used_ + 1]
        /\ used_' = used_ + 1
        /\ UNCHANGED <<row, appended_core_buffers_, row_buffer_, spare_buffer_>>
    BY <1>2 DEF fetch_new_buffer, Goto, opVars
  <2>2. BuffersFetched'
    BY <2>1, ControlTypes DEF Ownership, BuffersFetched
  <2>3. BuffersNotShared'
    <3>1. /\ \A k \in Keys : row_buffer_[k] # used_ + 1
          /\ \A v \in Workers : spare_buffer_[v] # used_ + 1 /\ buffer[v] # used_ + 1
          /\ used_ + 1 # NoBuffer
      BY ControlTypes DEF Ownership, BuffersFetched, NoBuffer
    <3> QED
      BY <2>1, <3>1, ControlTypes DEF Ownership, BuffersNotShared, HoldingLabels
  <2>4. AppendersUseRowBuffer'
    BY <2>1, ControlTypes DEF Ownership, AppendersUseRowBuffer, UsingLabels
  <2>5. BuffersAccounted'
    <3>1. /\ w \notin Holding /\ Holding' = Holding \cup {w}
          /\ Contended' = Contended /\ Spares' = Spares
      BY <2>1, ControlTypes DEF Spares, Holding, Contended
    <3>2. Cardinality(Holding') = Cardinality(Holding) + 1
      BY <3>1, CountedSetsFinite, FS_AddElement
    <3> QED
      BY <2>1, <3>1, <3>2, CountedSetsFinite DEF Ownership, BuffersAccounted
  <2> QED
    BY <2>2, <2>3, <2>4, <2>5 DEF Ownership
<1> QED
  BY <1>1, <1>2

\* The exchange installs the buffer in a row that has none, or fails.
LEMMA OwnershipInstall ==
    ASSUME Control, Ownership, NEW w \in Workers, try_install_new_buffer(w)
    PROVE  Ownership'
<1>1. /\ pc[w] = "install"
      /\ UNCHANGED <<row, buffer, appended_core_buffers_, used_, spare_buffer_>>
      /\ row[w] \in Keys
  BY ControlTypes DEF try_install_new_buffer, opVars
<1>2. CASE Exchangeable(row[w])
  <2>1. /\ pc' = [pc EXCEPT ![w] = "append"]
        /\ row_buffer_[row[w]] = NoBuffer
        /\ row_buffer_' = [row_buffer_ EXCEPT ![row[w]] = buffer[w]]
    BY <1>2 DEF try_install_new_buffer, Goto, Exchangeable
  <2>2. BuffersFetched'
    BY <1>1, <2>1, ControlTypes DEF Ownership, BuffersFetched
  <2>3. BuffersNotShared'
    BY <1>1, <2>1, ControlTypes DEF Ownership, BuffersNotShared, HoldingLabels
  <2>4. AppendersUseRowBuffer'
    <3>1. buffer[w] # NoBuffer
      BY <1>1 DEF Ownership, BuffersNotShared, HoldingLabels
    <3>2. \A v \in Workers : pc[v] \in UsingLabels => row[v] # row[w]
      BY <2>1 DEF Ownership, AppendersUseRowBuffer
    <3>3. \A v \in Workers : \A p \in appended_core_buffers_[v] : p[1] # row[w]
      BY <2>1 DEF Ownership, AppendersUseRowBuffer
    <3>4. \A v \in Workers : \A p \in appended_core_buffers_[v] : p[1] \in Keys
      <4> SUFFICES ASSUME NEW v \in Workers PROVE
                     \A p \in appended_core_buffers_[v] : p[1] \in Keys
        OBVIOUS
      <4>1. appended_core_buffers_[v] \subseteq Keys \X (Buffers \cup {NoBuffer})
        BY DEF Control, ControlTypeOK
      <4> QED
        BY <4>1
    <3> QED
      BY <1>1, <2>1, <3>1, <3>2, <3>3, <3>4, ControlTypes
         DEF Ownership, AppendersUseRowBuffer, UsingLabels
  <2>5. BuffersAccounted'
    <3>1. buffer[w] # NoBuffer
      BY <1>1 DEF Ownership, BuffersNotShared, HoldingLabels
    <3>2. /\ w \in Holding /\ Holding' = Holding \ {w}
          /\ row[w] \notin Contended /\ Contended' = Contended \cup {row[w]}
          /\ Spares' = Spares
      BY <1>1, <2>1, <3>1, ControlTypes DEF Spares, Holding, Contended
    <3>3. /\ Cardinality(Holding') = Cardinality(Holding) - 1
          /\ Cardinality(Contended') = Cardinality(Contended) + 1
      BY <3>2, CountedSetsFinite, FS_AddElement, FS_RemoveElement
    <3> QED
      BY <1>1, <3>2, <3>3, CountedSetsFinite DEF Ownership, BuffersAccounted
  <2> QED
    BY <2>2, <2>3, <2>4, <2>5 DEF Ownership
<1>3. CASE ~Exchangeable(row[w])
  <2>1. /\ pc' = [pc EXCEPT ![w] = "load_other"] /\ UNCHANGED row_buffer_
        /\ row_buffer_[row[w]] # NoBuffer
    BY <1>3 DEF try_install_new_buffer, Goto, Exchangeable
  <2>2. BuffersFetched'
    BY <1>1, <2>1 DEF Ownership, BuffersFetched
  <2>3. BuffersNotShared'
    BY <1>1, <2>1, ControlTypes DEF Ownership, BuffersNotShared, HoldingLabels
  <2>4. AppendersUseRowBuffer'
    BY <1>1, <2>1, ControlTypes DEF Ownership, AppendersUseRowBuffer, UsingLabels
  <2>5. Contended' = Contended /\ Spares' = Spares /\ Holding' = Holding
    BY <1>1, <2>1, ControlTypes DEF Contended, Spares, Holding
  <2>6. BuffersAccounted'
    BY <1>1, <2>5 DEF Ownership, BuffersAccounted
  <2> QED
    BY <2>2, <2>3, <2>4, <2>6 DEF Ownership
<1> QED
  BY <1>2, <1>3

\* A worker that lost the exchange keeps its buffer for the next time.
LEMMA OwnershipLoadOther ==
    ASSUME Control, Ownership, NEW w \in Workers, load_other_buffer(w)
    PROVE  Ownership'
<1>1. /\ pc[w] = "load_other" /\ pc' = [pc EXCEPT ![w] = "append"]
      /\ buffer' = [buffer EXCEPT ![w] = row_buffer_[row[w]]]
      /\ spare_buffer_' = [spare_buffer_ EXCEPT ![w] = buffer[w]]
      /\ UNCHANGED <<row, appended_core_buffers_, row_buffer_, used_>>
      /\ row[w] \in Keys
  BY ControlTypes DEF load_other_buffer, Goto, opVars
<1>2. BuffersFetched'
  BY <1>1, ControlTypes DEF Ownership, BuffersFetched
<1>3. BuffersNotShared'
  BY <1>1, ControlTypes DEF Ownership, BuffersNotShared, HoldingLabels
<1>4. AppendersUseRowBuffer'
  BY <1>1, ControlTypes DEF Ownership, AppendersUseRowBuffer, UsingLabels
<1>5. BuffersAccounted'
  <2>1. buffer[w] # NoBuffer /\ spare_buffer_[w] = NoBuffer
    BY <1>1 DEF Ownership, BuffersNotShared, HoldingLabels
  <2>2. /\ w \notin Spares /\ Spares' = Spares \cup {w}
        /\ w \in Holding /\ Holding' = Holding \ {w}
        /\ Contended' = Contended
    BY <1>1, <2>1, ControlTypes DEF Spares, Holding, Contended
  <2>3. /\ Cardinality(Spares') = Cardinality(Spares) + 1
        /\ Cardinality(Holding') = Cardinality(Holding) - 1
    BY <2>2, CountedSetsFinite, FS_AddElement, FS_RemoveElement
  <2> QED
    BY <1>1, <2>2, <2>3, CountedSetsFinite DEF Ownership, BuffersAccounted
<1> QED
  BY <1>2, <1>3, <1>4, <1>5 DEF Ownership

\* A worker remembers or forgets a row.
LEMMA OwnershipRemember ==
    ASSUME Control, Ownership, NEW w \in Workers, NEW l \in Labels,
           pc[w] \in UsingLabels, Goto(w, l), l \notin HoldingLabels,
           l \in UsingLabels => pc[w] \in UsingLabels,
           UNCHANGED <<row, buffer, spare_buffer_, row_buffer_, used_>>,
           \A v \in Workers : \A p \in appended_core_buffers_'[v] :
               p \in appended_core_buffers_[v] \/ (p = <<row[v], buffer[v]>> /\ v = w)
    PROVE  Ownership'
<1>1. pc' = [pc EXCEPT ![w] = l] /\ pc[w] \notin HoldingLabels
  BY DEF Goto, UsingLabels, HoldingLabels
<1>2. BuffersFetched'
  BY DEF Ownership, BuffersFetched
<1>3. BuffersNotShared'
  BY <1>1, ControlTypes DEF Ownership, BuffersNotShared
<1>4. AppendersUseRowBuffer'
  BY <1>1, ControlTypes DEF Ownership, AppendersUseRowBuffer, HoldingLabels
<1>5. Contended' = Contended /\ Spares' = Spares /\ Holding' = Holding
  BY <1>1, ControlTypes DEF Contended, Spares, Holding, HoldingLabels
<1>6. BuffersAccounted'
  BY <1>5 DEF Ownership, BuffersAccounted
<1> QED
  BY <1>2, <1>3, <1>4, <1>6 DEF Ownership

\* The barriers: nobody has a buffer in hand.
LEMMA OwnershipBarrier ==
    ASSUME Control, Ownership, StartExecution \/ NewEpoch
    PROVE  Ownership'
<1>1. /\ \A w \in Workers : pc[w] = "done"
      /\ row' = NoRows /\ buffer' = NoBuffers
      /\ pc' = [w \in Workers |-> "begin"]
      /\ UNCHANGED <<appended_core_buffers_, row_buffer_, used_, spare_buffer_>>
  BY DEF StartExecution, NewEpoch, AtBarrier, LocalsReset, bufferVars
<1>2. BuffersFetched'
  BY <1>1, ControlTypes DEF Ownership, BuffersFetched, NoBuffers, NoBuffer
<1>3. BuffersNotShared'
  BY <1>1 DEF Ownership, BuffersNotShared, HoldingLabels
<1>4. AppendersUseRowBuffer'
  BY <1>1 DEF Ownership, AppendersUseRowBuffer, UsingLabels
<1>5. Contended' = Contended /\ Spares' = Spares /\ Holding' = Holding
  BY <1>1 DEF Contended, Spares, Holding
<1>6. BuffersAccounted'
  BY <1>1, <1>5 DEF Ownership, BuffersAccounted
<1> QED
  BY <1>2, <1>3, <1>4, <1>6 DEF Ownership

\* ... and every step keeps it.
LEMMA OwnershipNext == Control /\ Ownership /\ [Next]_vars => Ownership'
<1> SUFFICES ASSUME Control, Ownership, [Next]_vars PROVE Ownership'
  OBVIOUS
<1>1. CASE UNCHANGED vars
  <2>1. UNCHANGED <<pc, row, buffer, used_, appended_core_buffers_, row_buffer_,
                    spare_buffer_>>
    BY <1>1 DEF vars, opVars, bufferVars
  <2>2. Contended' = Contended /\ Spares' = Spares /\ Holding' = Holding
    BY <2>1 DEF Contended, Spares, Holding
  <2> QED
    BY <2>1, <2>2 DEF Ownership, BuffersFetched, BuffersNotShared,
       AppendersUseRowBuffer, BuffersAccounted
<1>2. CASE StartExecution \/ NewEpoch
  BY <1>2, OwnershipBarrier
<1>3. ASSUME NEW w \in Workers, Step(w) PROVE Ownership'
  <2> USE DEF opVars, bufferVars
  <2>t. row_buffer_[row[w]] \in Buffers \cup {NoBuffer}
    BY ControlTypes
  <2>l. Labels \ HoldingLabels =
            {"begin", "done", "load_buffer", "try_lock", "append_global", "get_buffer",
             "append"} \cup Appended \cup Finalizing \cup Reading \cup Writing
    BY DEF Labels, Preparing, HoldingLabels, Appended, Finalizing, Reading, Writing
  <2>u. UsingLabels \subseteq {"append"} \cup Appended \cup Finalizing
    BY DEF UsingLabels, Appended, Finalizing
  <2>1. CASE Begin(w)
    <3>1. PICK l \in Labels \ (HoldingLabels \cup UsingLabels) : Goto(w, l)
      BY <2>1 DEF Begin, Labels, Preparing, Reading, Writing, HoldingLabels, UsingLabels
    <3>2. \E k \in Keys : row' = [row EXCEPT ![w] = k]
      <4>0. Control'
        BY <2>1, ControlBegin
      <4>1. row' = [row EXCEPT ![w] = row'[w]] /\ row'[w] \in Keys
        BY <2>1, <4>0, ControlTypes DEF Begin, Control, ControlTypeOK
      <4> QED
        BY <4>1
    <3> QED
      BY <2>1, <3>1, <3>2, OwnershipLocal DEF Begin, HoldingLabels
  <2>2. CASE EndLoop(w)
    <3>1. PICK l \in {"finalize", "done"} : Goto(w, l)
      BY <2>2 DEF EndLoop
    <3> QED
      BY <2>2, <2>l, <3>1, OwnershipLocal DEF EndLoop, HoldingLabels, UsingLabels, Finalizing
  <2>3. CASE may_be_contented(w)
    <3>1. PICK l \in {"append", "try_lock"} :
              Goto(w, l) /\ (l = "append" => row_buffer_[row[w]] # NoBuffer)
      BY <2>3 DEF may_be_contented
    <3> QED
      BY <2>3, <2>l, <3>1, OwnershipLocal DEF may_be_contented, HoldingLabels, UsingLabels
  <2>4. CASE try_lock(w)
    <3>1. PICK l \in {"append_global", "get_buffer"} : Goto(w, l)
      BY <2>4 DEF try_lock
    <3> QED
      BY <2>4, <2>l, <3>1, OwnershipLocal DEF try_lock, HoldingLabels, UsingLabels
  <2>5. CASE append_to_uncontended_row(w) \/ unlock(w) \/ lock_full(w)
    <3>1. PICK l \in {"unlock", "begin", "batch_append"} :
              Goto(w, l) /\ (l = "batch_append" => pc[w] = "lock")
      BY <2>5 DEF append_to_uncontended_row, unlock, lock_full
    <3> QED
      BY <2>5, <2>l, <3>1, OwnershipLocal
         DEF append_to_uncontended_row, unlock, lock_full, HoldingLabels, UsingLabels, Appended
  <2>6. CASE use_spare_buffer(w)
    BY <2>6, OwnershipUseSpare
  <2>7. CASE fetch_new_buffer(w)
    BY <2>7, OwnershipFetch
  <2>8. CASE try_install_new_buffer(w)
    BY <2>8, OwnershipInstall
  <2>9. CASE load_other_buffer(w)
    BY <2>9, OwnershipLoadOther
  <2>10. CASE append_to_contented_row(w)
    <3>1. PICK l \in {"begin", "lock"} : Goto(w, l)
      BY <2>10 DEF append_to_contented_row
    <3>2. \A v \in Workers : \A p \in appended_core_buffers_'[v] :
              p \in appended_core_buffers_[v] \/ (p = <<row[v], buffer[v]>> /\ v = w)
      BY <2>10 DEF append_to_contented_row, Remember, Control, ControlTypeOK
    <3>3. pc[w] \in UsingLabels /\ l \in Labels /\ l \notin HoldingLabels
      BY <2>10, <2>l, <3>1
         DEF append_to_contented_row, UsingLabels, Appended, HoldingLabels
    <3>4. UNCHANGED <<row, buffer, spare_buffer_, row_buffer_, used_>>
      BY <2>10 DEF append_to_contented_row
    <3> QED
      BY <3>1, <3>2, <3>3, <3>4, OwnershipRemember
  <2>11. CASE batch_append(w)
    <3>1. PICK l \in {"unlock", "final_unlock"} : Goto(w, l)
      BY <2>11 DEF batch_append
    <3> QED
      BY <2>11, <2>l, <3>1, OwnershipLocal
         DEF batch_append, HoldingLabels, UsingLabels, Appended, Finalizing
  <2>12. CASE finalize_try_lock(w)
    BY <2>12, <2>l, OwnershipLocal DEF finalize_try_lock, HoldingLabels, Finalizing
  <2>13. CASE finalize_unlock(w)
    <3>1. \A v \in Workers : \A p \in appended_core_buffers_'[v] :
              p \in appended_core_buffers_[v] \/ (p = <<row[v], buffer[v]>> /\ v = w)
      BY <2>13 DEF finalize_unlock, Control, ControlTypeOK
    <3>2. pc[w] \in UsingLabels /\ "finalize" \in Labels /\ "finalize" \notin HoldingLabels
      BY <2>13, <2>l DEF finalize_unlock, UsingLabels, Finalizing, HoldingLabels
    <3>3. /\ Goto(w, "finalize")
          /\ UNCHANGED <<row, buffer, spare_buffer_, row_buffer_, used_>>
      BY <2>13 DEF finalize_unlock
    <3> QED
      BY <3>1, <3>2, <3>3, OwnershipRemember
  <2>14. CASE finalize_end(w)
    BY <2>14, <2>l, OwnershipLocal DEF finalize_end, HoldingLabels, UsingLabels
  <2>15. CASE read(w) \/ wait_stable_and_execute_read(w)
    <3>1. PICK l \in {"wait_stable", "begin"} : Goto(w, l)
      BY <2>15 DEF read, wait_stable_and_execute_read
    <3> QED
      BY <2>15, <2>l, <3>1, OwnershipLocal
         DEF read, wait_stable_and_execute_read, HoldingLabels, UsingLabels, Reading
  <2>16. CASE write_rec(w) \/ write_status(w)
    <3>1. PICK l \in {"write_status", "begin"} : Goto(w, l)
      BY <2>16 DEF write_rec, write_status, SetStatus
    <3> QED
      BY <2>16, <2>l, <3>1, OwnershipLocal
         DEF write_rec, write_status, SetStatus, HoldingLabels, UsingLabels, Writing
  <2> QED
    BY <1>3, <2>1, <2>2, <2>3, <2>4, <2>5, <2>6, <2>7, <2>8, <2>9, <2>10, <2>11, <2>12,
       <2>13, <2>14, <2>15, <2>16 DEF Step
<1> QED
  BY <1>1, <1>2, <1>3 DEF Next

\* No row buffer is lost, shared or installed twice, however the races to
\* install one end: the buffers handed out are those of the contended rows, the
\* spares and the ones in hand, and a worker appends to its row's own buffer.
THEOREM BuffersHaveOwners ==
    Spec => [](BuffersAccounted /\ BuffersNotShared /\ AppendersUseRowBuffer)
<1>1. Init => Control /\ Ownership
  BY InitControl, InitOwnership
<1>2. Control /\ Ownership /\ [Next]_vars => (Control /\ Ownership)'
  BY ControlNext, OwnershipNext
<1>3. Control /\ Ownership =>
         BuffersAccounted /\ BuffersNotShared /\ AppendersUseRowBuffer
  BY DEF Ownership
<1> QED
  BY <1>1, <1>2, <1>3, PTL DEF Spec
-------------------------------------------------------------------------------
(***************************************************************************)
(* The third invariant: the parts of the buffers                           *)
(***************************************************************************)
FullLabels == {"lock", "batch_append"}

SlotsTyped == core_slots \in [Buffers -> [Workers -> SUBSET Versions]]

\* What a part holds will be moved to the global array: the buffer is that of a
\* row which the worker remembers for the last batch appends, or at which it is
\* about to make a batch append.
SlotsRemembered ==
    \A b \in Buffers, w \in Workers : core_slots[b][w] # {} =>
        \E k \in Keys :
            /\ row_buffer_[k] = b
            /\ <<k, b>> \in appended_core_buffers_[w]
               \/ (row[w] = k /\ pc[w] \in FullLabels)

\* Only the part of a worker on its way to the batch append can be full.
SlotsHaveRoom ==
    \A b \in Buffers, w \in Workers :
        \/ Cardinality(core_slots[b][w]) < MaxSlots
        \/ pc[w] \in FullLabels /\ buffer[w] = b

\* A row is forgotten when its part is empty, and all are in the end.
SlotsFinalized ==
    \A w \in Workers :
        /\ pc[w] = "final_unlock" => core_slots[buffer[w]][w] = {}
        /\ pc[w] = "done" \/ phase \in {"exec", "end"} => appended_core_buffers_[w] = {}

Slots == SlotsTyped /\ SlotsRemembered /\ SlotsHaveRoom /\ SlotsFinalized

\* A set of versions is finite.
LEMMA VersionsFinite ==
    ASSUME NEW S, S \subseteq Versions
    PROVE  IsFiniteSet(S) /\ Cardinality(S) \in Nat
<1>1. IsFiniteSet(0 .. NumEpochs) /\ IsFiniteSet(Serials)
  BY EpochsAssumption, SerialsAreNatural, FS_Interval DEF Serials
<1>2. IsFiniteSet(Versions)
  BY <1>1, FS_Product DEF Versions
<1>3. IsFiniteSet(S)
  BY <1>2, FS_Subset
<1> QED
  BY <1>3, FS_CardinalityType

\* An operation's version is a version, while epochs last.
LEMMA PendingIsVersion ==
    ASSUME Control, phase # "end", NEW w \in Workers
    PROVE  Pending(w) \in Versions
<1>1. epoch \in 0 .. NumEpochs /\ op[w] \in Serials \X Nat
  BY EpochsAssumption DEF Control, ControlTypeOK
<1> QED
  BY <1>1 DEF Pending, Versions

\* The third invariant holds initially ...
LEMMA InitSlots == Init => Slots
<1> SUFFICES ASSUME Init PROVE Slots
  OBVIOUS
<1>1. Cardinality({}) < MaxSlots
  BY FS_EmptySet, BufferAssumption
<1> QED
  BY <1>1 DEF Init, Slots, SlotsTyped, SlotsRemembered, SlotsHaveRoom, SlotsFinalized

\* A step of w that leaves the parts and the remembered rows alone.
LEMMA SlotsLocal ==
    ASSUME Control, Slots,
           NEW w \in Workers, NEW l \in Labels,
           Goto(w, l), l # "final_unlock",
           UNCHANGED <<phase, core_slots, appended_core_buffers_>>,
           l = "done" => appended_core_buffers_[w] = {},
           \/ UNCHANGED <<row, buffer>> /\ (pc[w] \in FullLabels => l \in FullLabels)
           \/ /\ \A v \in Workers : v # w => row'[v] = row[v] /\ buffer'[v] = buffer[v]
              /\ l \notin FullLabels /\ pc[w] \notin FullLabels,
           \A k \in Keys : row_buffer_[k] # NoBuffer => row_buffer_'[k] = row_buffer_[k]
    PROVE  Slots'
<1>1. pc' = [pc EXCEPT ![w] = l] /\ pc \in [Workers -> Labels]
  BY DEF Goto, Control, ControlTypeOK
<1>2. SlotsRemembered'
  <2> SUFFICES ASSUME NEW b \in Buffers, NEW v \in Workers, core_slots[b][v] # {}
               PROVE  \E k \in Keys :
                         /\ row_buffer_'[k] = b
                         /\ <<k, b>> \in appended_core_buffers_[v]
                            \/ (row'[v] = k /\ pc'[v] \in FullLabels)
    BY DEF SlotsRemembered
  <2>1. PICK k \in Keys :
            /\ row_buffer_[k] = b
            /\ <<k, b>> \in appended_core_buffers_[v]
               \/ (row[v] = k /\ pc[v] \in FullLabels)
    BY DEF Slots, SlotsRemembered
  <2>2. row_buffer_'[k] = b
    BY <2>1, ControlTypes
  <2>3. pc[v] \in FullLabels => pc'[v] \in FullLabels /\ row'[v] = row[v]
    BY <1>1
  <2> QED
    BY <2>1, <2>2, <2>3
<1>3. SlotsHaveRoom'
  BY <1>1 DEF Slots, SlotsHaveRoom
<1>4. SlotsFinalized'
  BY <1>1 DEF Slots, SlotsFinalized
<1> QED
  BY <1>2, <1>3, <1>4 DEF Slots, SlotsTyped

\* append_to_contented_row: the part had room, and is remembered if it still has.
LEMMA SlotsAppend ==
    ASSUME Control, Ownership, Slots, phase \in {"init", "exec"},
           NEW w \in Workers, append_to_contented_row(w)
    PROVE  Slots'
<1> DEFINE b == buffer[w]
           S == core_slots[b][w] \cup {Pending(w)}
<1>1. /\ pc[w] = "append" /\ phase = "init"
      /\ b \in Buffers /\ b = row_buffer_[row[w]] /\ row[w] \in Keys
      /\ b # NoBuffer
  BY ControlTypes DEF append_to_contented_row, Ownership, AppendersUseRowBuffer,
     UsingLabels, Control, PhaseLabels, Reading, Writing
<1>2. /\ core_slots' = [core_slots EXCEPT ![b][w] = S]
      /\ core_slots'[b][w] = S
      /\ UNCHANGED <<phase, row, buffer, row_buffer_>>
  BY <1>1 DEF append_to_contented_row, batchVars, opVars, bufferVars, Slots, SlotsTyped
<1>3. S \subseteq Versions
  BY <1>1, PendingIsVersion DEF Slots, SlotsTyped
<1>4. SlotsTyped'
  BY <1>1, <1>2, <1>3 DEF Slots, SlotsTyped
<1>5. \A c \in Buffers, v \in Workers :
         core_slots'[c][v] = IF c = b /\ v = w THEN S ELSE core_slots[c][v]
  BY <1>1, <1>2 DEF Slots, SlotsTyped
<1>f. \A v \in Workers : pc[v] = "final_unlock" => buffer[v] \in Buffers
  BY ControlTypes DEF Ownership, AppendersUseRowBuffer, UsingLabels
<1>6. CASE HasRoom(S)
  <2>1. Remember(w) /\ pc' = [pc EXCEPT ![w] = "begin"]
    BY <1>2, <1>6 DEF append_to_contented_row, Goto
  <2>2. \A v \in Workers : appended_core_buffers_[v] \subseteq appended_core_buffers_'[v]
    BY <2>1 DEF Remember, Control, ControlTypeOK
  <2>3. \A v \in Workers : v # w => appended_core_buffers_'[v] = appended_core_buffers_[v]
    BY <2>1 DEF Remember, Control, ControlTypeOK
  <2>4. <<row[w], b>> \in appended_core_buffers_'[w]
    <3>1. CASE \E p \in appended_core_buffers_[w] : p[1] = row[w]
      <4>1. PICK p \in appended_core_buffers_[w] : p[1] = row[w]
        BY <3>1
      <4>2. p[2] = b
        BY <1>1, <4>1 DEF Ownership, AppendersUseRowBuffer
      <4>3. p \in Keys \X (Buffers \cup {NoBuffer})
        BY <4>1 DEF Control, ControlTypeOK
      <4>4. p = <<row[w], b>>
        BY <4>1, <4>2, <4>3
      <4> QED
        BY <2>2, <4>4
    <3>2. CASE ~ \E p \in appended_core_buffers_[w] : p[1] = row[w]
      BY <2>1, <3>2 DEF Remember, Control, ControlTypeOK
    <3> QED
      BY <3>1, <3>2
  <2>5. SlotsRemembered'
    <3> SUFFICES ASSUME NEW c \in Buffers, NEW v \in Workers, core_slots'[c][v] # {}
                 PROVE  \E k \in Keys :
                           /\ row_buffer_[k] = c
                           /\ <<k, c>> \in appended_core_buffers_'[v]
                              \/ (row[v] = k /\ pc'[v] \in FullLabels)
      BY <1>2 DEF SlotsRemembered
    <3>1. CASE c = b /\ v = w
      BY <1>1, <2>4, <3>1
    <3>2. CASE ~(c = b /\ v = w)
      <4>1. PICK k \in Keys :
                /\ row_buffer_[k] = c
                /\ <<k, c>> \in appended_core_buffers_[v]
                   \/ (row[v] = k /\ pc[v] \in FullLabels)
        BY <1>5, <3>2 DEF Slots, SlotsRemembered
      <4>2. pc[v] \in FullLabels => pc'[v] \in FullLabels
        BY <1>1, <2>1, ControlTypes DEF FullLabels
      <4> QED
        BY <2>2, <4>1, <4>2
    <3> QED
      BY <3>1, <3>2
  <2>6. SlotsHaveRoom'
    BY <1>1, <1>2, <1>5, <1>6, <2>1, ControlTypes
       DEF Slots, SlotsHaveRoom, FullLabels, HasRoom
  <2>7. SlotsFinalized'
    BY <1>1, <1>2, <1>5, <1>f, <2>1, <2>3, ControlTypes DEF Slots, SlotsFinalized
  <2> QED
    BY <1>4, <2>5, <2>6, <2>7 DEF Slots
<1>7. CASE ~HasRoom(S)
  <2>1. UNCHANGED appended_core_buffers_ /\ pc' = [pc EXCEPT ![w] = "lock"]
    BY <1>2, <1>7 DEF append_to_contented_row, Goto
  <2>2. SlotsRemembered'
    <3> SUFFICES ASSUME NEW c \in Buffers, NEW v \in Workers, core_slots'[c][v] # {}
                 PROVE  \E k \in Keys :
                           /\ row_buffer_'[k] = c
                           /\ <<k, c>> \in appended_core_buffers_'[v]
                              \/ (row'[v] = k /\ pc'[v] \in FullLabels)
      BY DEF SlotsRemembered
    <3>1. CASE c = b /\ v = w
      BY <1>1, <1>2, <2>1, <3>1, ControlTypes DEF FullLabels
    <3>2. CASE ~(c = b /\ v = w)
      <4>1. pc[v] \in FullLabels => pc'[v] \in FullLabels
        BY <2>1, ControlTypes DEF FullLabels
      <4> QED
        BY <1>2, <1>5, <2>1, <3>2, <4>1 DEF Slots, SlotsRemembered
    <3> QED
      BY <3>1, <3>2
  <2>3. SlotsHaveRoom'
    BY <1>1, <1>2, <1>5, <2>1, ControlTypes DEF Slots, SlotsHaveRoom, FullLabels
  <2>4. SlotsFinalized'
    BY <1>1, <1>2, <1>5, <1>f, <2>1, ControlTypes DEF Slots, SlotsFinalized
  <2> QED
    BY <1>4, <2>2, <2>3, <2>4 DEF Slots
<1> QED
  BY <1>6, <1>7

\* A batch append empties the part, which is not full any more.
LEMMA SlotsBatchAppend ==
    ASSUME Control, Ownership, Slots, NEW w \in Workers, batch_append(w)
    PROVE  Slots'
<1> DEFINE b == buffer[w]
           l == IF pc[w] = "batch_append" THEN "unlock" ELSE "final_unlock"
<1>1. /\ pc[w] \in {"batch_append", "final_append"}
      /\ pc' = [pc EXCEPT ![w] = l]
      /\ core_slots' = [core_slots EXCEPT ![b][w] = {}]
      /\ UNCHANGED <<phase, row, buffer, row_buffer_, appended_core_buffers_>>
  BY DEF batch_append, Goto, batchVars, opVars, bufferVars
<1>2. \A v \in Workers : pc[v] \in UsingLabels =>
         buffer[v] \in Buffers /\ buffer[v] = row_buffer_[row[v]]
  BY ControlTypes DEF Ownership, AppendersUseRowBuffer
<1>3. b \in Buffers /\ b = row_buffer_[row[w]] /\ row[w] \in Keys
  BY <1>1, <1>2, ControlTypes DEF UsingLabels
<1>4. \A c \in Buffers, v \in Workers :
         core_slots'[c][v] = IF c = b /\ v = w THEN {} ELSE core_slots[c][v]
  BY <1>1, <1>3 DEF Slots, SlotsTyped
<1>5. SlotsTyped'
  BY <1>1, <1>3 DEF Slots, SlotsTyped
<1>6. SlotsRemembered'
  <2> SUFFICES ASSUME NEW c \in Buffers, NEW v \in Workers, core_slots'[c][v] # {}
               PROVE  \E k \in Keys :
                         /\ row_buffer_'[k] = c
                         /\ <<k, c>> \in appended_core_buffers_'[v]
                            \/ (row'[v] = k /\ pc'[v] \in FullLabels)
    BY DEF SlotsRemembered
  <2>1. ~(c = b /\ v = w) /\ core_slots[c][v] # {}
    BY <1>4
  <2>2. PICK k \in Keys :
            /\ row_buffer_[k] = c
            /\ <<k, c>> \in appended_core_buffers_[v]
               \/ (row[v] = k /\ pc[v] \in FullLabels)
    BY <2>1 DEF Slots, SlotsRemembered
  <2>3. v = w => row[v] # k
    BY <1>3, <2>1, <2>2
  <2>4. v # w => pc'[v] = pc[v]
    BY <1>1, ControlTypes
  <2> QED
    BY <1>1, <2>2, <2>3, <2>4
<1>7. SlotsHaveRoom'
  <2>1. Cardinality({}) < MaxSlots
    BY FS_EmptySet, BufferAssumption
  <2> QED
    BY <1>1, <1>4, <2>1, ControlTypes DEF Slots, SlotsHaveRoom
<1>8. SlotsFinalized'
  <2> SUFFICES ASSUME NEW v \in Workers
               PROVE  /\ pc'[v] = "final_unlock" => core_slots'[buffer[v]][v] = {}
                      /\ pc'[v] = "done" \/ phase \in {"exec", "end"} =>
                             appended_core_buffers_[v] = {}
    BY <1>1 DEF SlotsFinalized
  <2>1. CASE v = w
    BY <1>1, <1>3, <1>4, <2>1, ControlTypes DEF Slots, SlotsFinalized
  <2>2. CASE v # w
    BY <1>1, <1>2, <1>4, <2>2, ControlTypes DEF Slots, SlotsFinalized, UsingLabels
  <2> QED
    BY <2>1, <2>2
<1> QED
  BY <1>5, <1>6, <1>7, <1>8 DEF Slots

\* A worker forgets a row whose part is empty.
LEMMA SlotsForget ==
    ASSUME Control, Ownership, Slots, NEW w \in Workers, finalize_unlock(w)
    PROVE  Slots'
<1>1. /\ pc[w] = "final_unlock" /\ pc' = [pc EXCEPT ![w] = "finalize"]
      /\ appended_core_buffers_' =
             [appended_core_buffers_ EXCEPT ![w] = @ \ {<<row[w], buffer[w]>>}]
      /\ UNCHANGED <<phase, row, buffer, row_buffer_, core_slots>>
  BY DEF finalize_unlock, Goto, batchVars, opVars, bufferVars, arrayVars
<1>2. /\ core_slots[buffer[w]][w] = {}
      /\ \A v \in Workers : v # w =>
            /\ appended_core_buffers_'[v] = appended_core_buffers_[v]
            /\ pc'[v] = pc[v]
      /\ \A v \in Workers : appended_core_buffers_[v] = {} => appended_core_buffers_'[v] = {}
      /\ \A p \in appended_core_buffers_[w] :
            p # <<row[w], buffer[w]>> => p \in appended_core_buffers_'[w]
  BY <1>1, ControlTypes DEF Slots, SlotsFinalized, Control, ControlTypeOK
<1>3. SlotsRemembered'
  <2> SUFFICES ASSUME NEW b \in Buffers, NEW v \in Workers, core_slots[b][v] # {}
               PROVE  \E k \in Keys :
                         /\ row_buffer_[k] = b
                         /\ <<k, b>> \in appended_core_buffers_'[v]
                            \/ (row[v] = k /\ pc'[v] \in FullLabels)
    BY <1>1 DEF SlotsRemembered
  <2>1. PICK k \in Keys :
            /\ row_buffer_[k] = b
            /\ <<k, b>> \in appended_core_buffers_[v]
               \/ (row[v] = k /\ pc[v] \in FullLabels)
    BY DEF Slots, SlotsRemembered
  <2>2. CASE v # w
    BY <1>2, <2>1, <2>2
  <2>3. CASE v = w
    <3>1. <<k, b>> \in appended_core_buffers_[w]
      BY <1>1, <2>1, <2>3 DEF FullLabels
    <3>2. <<k, b>> # <<row[w], buffer[w]>>
      BY <1>2, <2>3
    <3> QED
      BY <1>2, <2>1, <2>3, <3>1, <3>2
  <2> QED
    BY <2>2, <2>3
<1>4. SlotsHaveRoom'
  BY <1>1, <1>2 DEF Slots, SlotsHaveRoom, FullLabels
<1>5. SlotsFinalized'
  BY <1>1, <1>2, ControlTypes DEF Slots, SlotsFinalized
<1> QED
  BY <1>1, <1>3, <1>4, <1>5 DEF Slots, SlotsTyped

\* At the barriers every part of every buffer is empty.
LEMMA BarrierFindsNoSlots ==
    ASSUME Slots, AtBarrier
    PROVE  \A b \in Buffers, w \in Workers : core_slots[b][w] = {}
  BY DEF AtBarrier, Slots, SlotsRemembered, SlotsFinalized, FullLabels

\* The barriers change no part of a buffer.
LEMMA SlotsBarrier ==
    ASSUME Slots, StartExecution \/ NewEpoch
    PROVE  Slots'
<1>1. /\ AtBarrier /\ pc' = [w \in Workers |-> "begin"]
      /\ UNCHANGED <<appended_core_buffers_, row_buffer_, core_slots>>
  BY DEF StartExecution, NewEpoch, LocalsReset, bufferVars, arrayVars
<1>2. \A b \in Buffers, w \in Workers : core_slots[b][w] = {}
  BY <1>1, BarrierFindsNoSlots
<1>3. SlotsRemembered'
  BY <1>1, <1>2 DEF SlotsRemembered
<1>4. SlotsHaveRoom'
  <2>1. Cardinality({}) < MaxSlots
    BY FS_EmptySet, BufferAssumption
  <2> QED
    BY <1>1, <1>2, <2>1 DEF SlotsHaveRoom
<1>5. SlotsFinalized'
  BY <1>1 DEF AtBarrier, Slots, SlotsFinalized
<1> QED
  BY <1>1, <1>3, <1>4, <1>5 DEF Slots, SlotsTyped

\* Neither does a step that moves nobody.
LEMMA SlotsUnchanged ==
    ASSUME Slots,
           UNCHANGED <<pc, row, buffer, row_buffer_, appended_core_buffers_, core_slots>>,
           phase' \in {"exec", "end"} => phase \in {"exec", "end"}
    PROVE  Slots'
<1>0. SlotsTyped'
  BY DEF Slots, SlotsTyped
<1>1. SlotsRemembered'
  <2> SUFFICES ASSUME NEW b \in Buffers, NEW v \in Workers, core_slots'[b][v] # {}
               PROVE  \E k \in Keys :
                         /\ row_buffer_'[k] = b
                         /\ <<k, b>> \in appended_core_buffers_'[v]
                            \/ (row'[v] = k /\ pc'[v] \in FullLabels)
    BY DEF SlotsRemembered
  <2> QED
    BY DEF Slots, SlotsRemembered
<1>2. SlotsHaveRoom'
  BY DEF Slots, SlotsHaveRoom
<1>3. SlotsFinalized'
  BY DEF Slots, SlotsFinalized
<1> QED
  BY <1>0, <1>1, <1>2, <1>3 DEF Slots

\* ... and every step keeps it.
LEMMA SlotsNext == Control /\ Ownership /\ Slots /\ [Next]_vars => Slots'
<1> SUFFICES ASSUME Control, Ownership, Slots, [Next]_vars PROVE Slots'
  OBVIOUS
<1>1. CASE UNCHANGED vars
  BY <1>1, SlotsUnchanged DEF vars, batchVars, opVars, bufferVars, arrayVars
<1>2. CASE StartExecution \/ NewEpoch
  BY <1>2, SlotsBarrier
<1>3. ASSUME NEW w \in Workers, Step(w) PROVE Slots'
  <2> USE DEF batchVars, opVars, bufferVars, arrayVars
  <2>p. phase \in {"init", "exec"}
    BY <1>3 DEF Step
  <2>l. /\ {"begin", "done"} \cup Preparing \cup Appended \cup Finalizing
              \cup Reading \cup Writing = Labels
        /\ \A l : l \in Preparing \cup Reading \cup Writing \cup
                     {"begin", "finalize", "final_append"} =>
              l \notin FullLabels /\ l # "final_unlock" /\ l # "done"
        /\ "unlock" \notin FullLabels
    BY DEF Labels, FullLabels, Preparing, Reading, Writing
  <2>1. CASE Begin(w)
    <3>1. PICK l \in Preparing \cup Reading \cup Writing : Goto(w, l)
      BY <2>1 DEF Begin, Preparing, Reading, Writing
    <3> QED
      BY <2>1, <2>l, <3>1, ControlTypes, SlotsLocal DEF Begin, FullLabels
  <2>2. CASE EndLoop(w)
    <3>1. PICK l \in {"finalize", "done"} :
              Goto(w, l) /\ (l = "done" => phase = "exec")
      BY <2>2 DEF EndLoop
    <3>2. l = "done" => appended_core_buffers_[w] = {}
      BY <3>1 DEF Slots, SlotsFinalized
    <3> QED
      BY <2>2, <2>l, <3>1, <3>2, SlotsLocal DEF EndLoop, FullLabels, Finalizing
  <2>3. CASE may_be_contented(w)
    <3>1. PICK l \in Preparing : Goto(w, l)
      BY <2>3 DEF may_be_contented, Preparing
    <3> QED
      BY <2>3, <2>l, <3>1, ControlTypes, SlotsLocal DEF may_be_contented, FullLabels
  <2>4. CASE try_lock(w)
    <3>1. PICK l \in Preparing : Goto(w, l)
      BY <2>4 DEF try_lock, Preparing
    <3> QED
      BY <2>4, <2>l, <3>1, SlotsLocal DEF try_lock, FullLabels
  <2>5. CASE append_to_uncontended_row(w)
    BY <2>5, <2>l, SlotsLocal DEF append_to_uncontended_row, FullLabels, Appended
  <2>6. CASE unlock(w)
    BY <2>6, <2>l, SlotsLocal DEF unlock, FullLabels
  <2>7. CASE use_spare_buffer(w)
    <3>1. "install" \in Preparing
      BY DEF Preparing
    <3> QED
      BY <2>7, <2>l, <3>1, ControlTypes, SlotsLocal DEF use_spare_buffer, FullLabels
  <2>8. CASE fetch_new_buffer(w)
    <3>1. CASE Exhausted
      BY <2>8, <3>1, SlotsUnchanged DEF fetch_new_buffer
    <3>2. CASE ~Exhausted
      <4>1. "install" \in Preparing
        BY DEF Preparing
      <4> QED
        BY <2>8, <2>l, <3>2, <4>1, ControlTypes, SlotsLocal DEF fetch_new_buffer, FullLabels
    <3> QED
      BY <3>1, <3>2
  <2>9. CASE try_install_new_buffer(w)
    <3>1. PICK l \in Preparing : Goto(w, l)
      BY <2>9 DEF try_install_new_buffer, Preparing
    <3>2. \A k \in Keys : row_buffer_[k] # NoBuffer => row_buffer_'[k] = row_buffer_[k]
      BY <2>9, ControlTypes DEF try_install_new_buffer, Exchangeable
    <3> QED
      BY <2>9, <2>l, <3>1, <3>2, SlotsLocal DEF try_install_new_buffer, FullLabels
  <2>10. CASE load_other_buffer(w)
    <3>1. "append" \in Preparing
      BY DEF Preparing
    <3> QED
      BY <2>10, <2>l, <3>1, ControlTypes, SlotsLocal DEF load_other_buffer, FullLabels
  <2>11. CASE append_to_contented_row(w)
    BY <2>11, <2>p, SlotsAppend
  <2>12. CASE lock_full(w)
    BY <2>12, <2>l, SlotsLocal DEF lock_full, FullLabels, Appended
  <2>13. CASE batch_append(w)
    BY <2>13, SlotsBatchAppend
  <2>14. CASE finalize_try_lock(w)
    BY <2>14, <2>l, ControlTypes, SlotsLocal DEF finalize_try_lock, FullLabels, Finalizing
  <2>15. CASE finalize_unlock(w)
    BY <2>15, SlotsForget
  <2>16. CASE finalize_end(w)
    BY <2>16, <2>l, SlotsLocal DEF finalize_end, FullLabels
  <2>17. CASE read(w) \/ wait_stable_and_execute_read(w)
    <3>1. PICK l \in {"wait_stable", "begin"} : Goto(w, l)
      BY <2>17 DEF read, wait_stable_and_execute_read
    <3> QED
      BY <2>17, <2>l, <3>1, SlotsLocal
         DEF read, wait_stable_and_execute_read, FullLabels, Reading
  <2>18. CASE write_rec(w) \/ write_status(w)
    <3>1. PICK l \in {"write_status", "begin"} : Goto(w, l)
      BY <2>18 DEF write_rec, write_status, SetStatus
    <3> QED
      BY <2>18, <2>l, <3>1, SlotsLocal DEF write_rec, write_status, SetStatus, FullLabels,
         Writing
  <2> QED
    BY <1>3, <2>1, <2>2, <2>3, <2>4, <2>5, <2>6, <2>7, <2>8, <2>9, <2>10, <2>11, <2>12,
       <2>13, <2>14, <2>15, <2>16, <2>17, <2>18 DEF Step
<1> QED
  BY <1>1, <1>2, <1>3 DEF Next

\* The assertion of appendable never fails: a worker that is about to append to
\* its part of a buffer has room for one more version.
THEOREM AppendHasRoom == Spec => []BufferHasRoom
<1>1. Init => Control /\ Ownership /\ Slots
  BY InitControl, InitOwnership, InitSlots
<1>2. Control /\ Ownership /\ Slots /\ [Next]_vars => (Control /\ Ownership /\ Slots)'
  BY ControlNext, OwnershipNext, SlotsNext
<1>3. Control /\ Ownership /\ Slots => BufferHasRoom
  <2> SUFFICES ASSUME Control, Ownership, Slots, NEW w \in Workers, pc[w] = "append"
               PROVE  Cardinality(core_slots[buffer[w]][w]) < MaxSlots
    BY DEF BufferHasRoom
  <2>1. buffer[w] \in Buffers
    BY ControlTypes DEF Ownership, AppendersUseRowBuffer, UsingLabels
  <2> QED
    BY <2>1 DEF Slots, SlotsHaveRoom, FullLabels
<1> QED
  BY <1>1, <1>2, <1>3, PTL DEF Spec
===============================================================================
