----------------------- MODULE RendezvousBarrierProofs -----------------------
(***************************************************************************)
(* For any number of children and any schedule in which neighbouring       *)
(* barriers have different types: phases never overlap, and the two-word   *)
(* barrier implements the abstract one.                                    *)
(***************************************************************************)
EXTENDS RendezvousBarrier, FiniteSetTheorems, TLAPS

\* The counter of missing children is a natural number, and it reads zero
\* exactly when every child is inside the barrier.
LEMMA ReadyZero ==
    /\ num_children_ \in Nat
    /\ Cardinality(ReadyChildren) \in 0 .. num_children_
    /\ Cardinality(ReadyChildren) = num_children_ => ReadyChildren = Children
<1>1. IsFiniteSet(Children)
  BY ChildrenAssumption
<1>2. ReadyChildren \subseteq Children
  BY DEF ReadyChildren
<1>3. /\ num_children_ \in Nat
      /\ Cardinality(ReadyChildren) \in Nat
      /\ Cardinality(ReadyChildren) <= num_children_
      /\ Cardinality(ReadyChildren) = num_children_ => ReadyChildren = Children
  BY <1>1, <1>2, FS_CardinalityType, FS_Subset DEF num_children_
<1> QED
  BY <1>3

\* A child that has just decremented ready_ is one more ready child.
LEMMA OneMoreReady ==
    ASSUME NEW S, IsFiniteSet(S), NEW c, c \notin S
    PROVE  /\ Cardinality(S \cup {c}) = Cardinality(S) + 1
           /\ Cardinality(S) \in Nat
BY FS_AddElement, FS_CardinalityType

\* The barrier that run_tx initializes satisfies the invariant.
LEMMA InitIInv == Init => IInv
<1> SUFFICES ASSUME Init PROVE IInv
  OBVIOUS
<1>1. ReadyChildren = {}
  BY ChildrenAssumption DEF Init, ReadyChildren, Workers
<1>2. Cardinality(ReadyChildren) = 0
  BY <1>1, FS_EmptySet
<1>3. num_children_ \in Nat
  BY ReadyZero
<1> QED
  BY <1>1, <1>2, <1>3, CrossingsAssumption, ChildrenAssumption
     DEF Init, IInv, TypeOK, ChildrenInRound, AllReady, StartIsLastOpened,
         InsideBarrier, ReadyCountsMissing, Workers, BarrierType

\* Every access of a child or of the parent to the two words keeps it.
LEMMA NextIInv == IInv /\ [Next]_vars => IInv'
<1> SUFFICES ASSUME IInv, [Next]_vars PROVE IInv'
  OBVIOUS
<1> USE ChildrenAssumption, CrossingsAssumption, ScheduleAssumption
        DEF IInv, TypeOK, ChildrenInRound, AllReady, StartIsLastOpened,
            InsideBarrier, Workers
<1>0. ReadyChildren \subseteq Children /\ IsFiniteSet(ReadyChildren)
  BY FS_Subset DEF ReadyChildren
<1>n. num_children_ \in Nat /\ Cardinality(ReadyChildren) \in 0 .. num_children_
  BY ReadyZero
<1>1. CASE \E c \in Children : send_ready_to_parent(c)
  <2>1. PICK c \in Children : send_ready_to_parent(c)
    BY <1>1
  <2>2. ReadyChildren' = ReadyChildren \cup {c} /\ c \notin ReadyChildren
    BY <2>1 DEF send_ready_to_parent, ReadyChildren
  <2>3. Cardinality(ReadyChildren') = Cardinality(ReadyChildren) + 1
    BY <2>2, <1>0, OneMoreReady
  <2>4. Cardinality(ReadyChildren') <= num_children_
    BY <2>2, <1>0, FS_Subset, FS_CardinalityType DEF num_children_
  <2>5. pc[Parent] \in {"work", "wait_ready"}
    BY <2>1, <2>2 DEF send_ready_to_parent
  <2>6. TypeOK' /\ ReadyCountsMissing'
    BY <2>1, <2>3, <2>4, <2>5, <1>n DEF send_ready_to_parent, ReadyCountsMissing
  <2>7. ChildrenInRound' /\ AllReady' /\ StartIsLastOpened' /\ InsideBarrier'
    BY <2>1, <2>5 DEF send_ready_to_parent
  <2> QED
    BY <2>6, <2>7
<1>2. CASE \E c \in Children : wait_start(c)
  <2>1. PICK c \in Children : wait_start(c)
    BY <1>2
  <2>2. crossed[c] = crossed[Parent] - 1
    <3> SUFFICES ASSUME crossed[c] = crossed[Parent] PROVE FALSE
      BY <2>1
    <3>1. start_ = Schedule[crossed[Parent]] /\ crossed[Parent] < NumCrossings
      BY <2>1 DEF wait_start
    <3>2. CASE crossed[Parent] = 0
      BY <3>1, <3>2
    <3>3. CASE crossed[Parent] # 0
      <4>1. crossed[Parent] - 1 \in 0 .. NumCrossings - 2
        BY <3>1, <3>3
      <4>2. Schedule[crossed[Parent] - 1] # Schedule[(crossed[Parent] - 1) + 1]
        BY <4>1
      <4> QED
        BY <3>1, <3>3, <4>2
    <3> QED
      BY <3>2, <3>3
  <2>3. ReadyChildren' = ReadyChildren
    BY <2>1, <2>2 DEF wait_start, ReadyChildren
  <2>4. TypeOK' /\ ReadyCountsMissing'
    BY <2>1, <2>2, <2>3 DEF wait_start, ReadyCountsMissing, num_children_
  <2>5. pc[Parent] \notin {"initialize", "send_start"}
    BY <2>1, <2>2 DEF wait_start, ReadyChildren
  <2>6. ChildrenInRound' /\ AllReady' /\ StartIsLastOpened' /\ InsideBarrier'
    BY <2>1, <2>2, <2>5 DEF wait_start
  <2> QED
    BY <2>4, <2>6
<1>3. CASE parent_arrives
  <2>1. ReadyChildren' = ReadyChildren
    BY <1>3 DEF parent_arrives, ReadyChildren
  <2> QED
    BY <1>3, <2>1 DEF parent_arrives, ReadyCountsMissing, num_children_
<1>4. CASE wait_all_children_ready
  <2>1. ReadyChildren' = ReadyChildren
    BY <1>4 DEF wait_all_children_ready, ReadyChildren
  <2>2. ReadyChildren = Children
    BY <1>4, <1>n, ReadyZero DEF wait_all_children_ready, ReadyCountsMissing
  <2> QED
    BY <1>4, <2>1, <2>2 DEF wait_all_children_ready, ReadyCountsMissing, num_children_
<1>5. CASE initialize
  <2>1. ReadyChildren' = ReadyChildren
    BY <1>5 DEF initialize, ReadyChildren
  <2> QED
    BY <1>5, <2>1, <1>n DEF initialize, ReadyCountsMissing, num_children_
<1>6. CASE send_start_to_all_children
  <2>1. \A c \in Children : crossed[c] = crossed[Parent] /\ pc[c] = "wait_start"
    BY <1>6 DEF send_start_to_all_children, ReadyChildren
  <2>2. ReadyChildren' = {}
    BY <1>6, <2>1 DEF send_start_to_all_children, ReadyChildren
  <2>3. Cardinality(ReadyChildren') = 0
    BY <2>2, FS_EmptySet
  <2>4. TypeOK' /\ ReadyCountsMissing'
    BY <1>6, <2>3, <1>n DEF send_start_to_all_children, ReadyCountsMissing, num_children_
  <2>5. StartIsLastOpened'
    BY <1>6 DEF send_start_to_all_children
  <2>6. ChildrenInRound' /\ AllReady' /\ InsideBarrier'
    BY <1>6, <2>1 DEF send_start_to_all_children
  <2> QED
    BY <2>4, <2>5, <2>6
<1>7. CASE UNCHANGED vars
  <2>1. ReadyChildren' = ReadyChildren
    BY <1>7 DEF vars, ReadyChildren
  <2> QED
    BY <1>7, <2>1 DEF vars, ReadyCountsMissing, num_children_
<1> QED
  BY <1>1, <1>2, <1>3, <1>4, <1>5, <1>6, <1>7 DEF Next, ChildStep, ParentStep

\* IInv holds in every reachable state.
LEMMA InductiveInvariant == Spec => []IInv
BY InitIInv, NextIInv, PTL DEF Spec

\* The two shared words keep their types: ready_ never leaves 0 .. num_children_
\* although children and parent update it without a lock.
THEOREM TypeCorrect == Spec => []TypeOK
<1>1. IInv => TypeOK
  BY DEF IInv
<1> QED
  BY <1>1, InductiveInvariant, PTL

\* No worker is in a later phase than a worker that is still working, for any
\* number of children and of epochs.
THEOREM PhasesNeverOverlap == Spec => []PhasesDoNotOverlap
<1>1. IInv => PhasesDoNotOverlap
  <2> SUFFICES ASSUME IInv, NEW v \in Workers, NEW w \in Workers, pc[v] = "work"
               PROVE  crossed[w] <= crossed[v]
    BY DEF PhasesDoNotOverlap
  <2>1. crossed[v] = crossed[Parent]
    BY DEF IInv, ChildrenInRound, Workers
  <2>2. crossed[w] <= crossed[Parent]
    BY ChildrenAssumption, CrossingsAssumption
       DEF IInv, TypeOK, ChildrenInRound, Workers
  <2> QED
    BY <2>1, <2>2
<1> QED
  BY <1>1, InductiveInvariant, PTL

\* While the parent works or waits, ready_ is the number of children missing:
\* no arrival is lost and none is counted twice.
THEOREM ReadyIsExact == Spec => []ReadyCountsMissing
<1>1. IInv => ReadyCountsMissing
  BY DEF IInv
<1> QED
  BY <1>1, InductiveInvariant, PTL

\* The rendezvous barrier implements the abstract barrier the protocol modules
\* are written against.
THEOREM BarrierRefinement == Spec => ImplementsBarrier
<1> DEFINE arr == ReadyChildren \cup (IF pc[Parent] = "work" THEN {} ELSE {Parent})
<1>1. Init => ABarrier!Init
  BY ChildrenAssumption DEF Init, ABarrier!Init, ReadyChildren, Workers
<1>2. IInv /\ [Next]_vars => [ABarrier!Next]_(ABarrier!vars)
  <2> SUFFICES ASSUME IInv, [Next]_vars
               PROVE  ABarrier!Next \/ UNCHANGED ABarrier!vars
    OBVIOUS
  <2> USE ChildrenAssumption, CrossingsAssumption
          DEF IInv, TypeOK, ChildrenInRound, AllReady, InsideBarrier, Workers
  <2>1. ASSUME NEW c \in Children, send_ready_to_parent(c)
        PROVE  ABarrier!Arrive(c)
    <3>1. ReadyChildren' = ReadyChildren \cup {c} /\ c \notin ReadyChildren
      BY <2>1 DEF send_ready_to_parent, ReadyChildren
    <3>2. pc'[Parent] = pc[Parent] /\ crossed' = crossed /\ c # Parent
      BY <2>1 DEF send_ready_to_parent
    <3>3. arr' = arr \cup {c} /\ c \notin arr
      BY <3>1, <3>2
    <3>4. crossed[Parent] < NumCrossings
      BY <2>1, <3>2 DEF send_ready_to_parent
    <3> QED
      BY <3>2, <3>3, <3>4 DEF ABarrier!Arrive
  <2>2. ASSUME NEW c \in Children, wait_start(c), IInv'
        PROVE  UNCHANGED ABarrier!vars
    <3>1. crossed'[Parent] = crossed[Parent] /\ pc'[Parent] = pc[Parent]
      BY <2>2 DEF wait_start
    <3>2. crossed[c] # crossed[Parent]
      BY <2>2, <3>1 DEF wait_start
    <3>3. ReadyChildren' = ReadyChildren
      BY <2>2, <3>1, <3>2 DEF wait_start, ReadyChildren
    <3> QED
      BY <3>1, <3>3 DEF ABarrier!vars
  <2>3. ASSUME parent_arrives PROVE ABarrier!Arrive(Parent)
    <3>1. ReadyChildren' = ReadyChildren /\ Parent \notin ReadyChildren
      BY <2>3 DEF parent_arrives, ReadyChildren
    <3> QED
      BY <2>3, <3>1 DEF parent_arrives, ABarrier!Arrive
  <2>4. ASSUME wait_all_children_ready \/ initialize
        PROVE  UNCHANGED ABarrier!vars
    <3>1. ReadyChildren' = ReadyChildren
      BY <2>4 DEF wait_all_children_ready, initialize, ReadyChildren
    <3> QED
      BY <2>4, <3>1 DEF wait_all_children_ready, initialize, ABarrier!vars
  <2>5. ASSUME send_start_to_all_children PROVE ABarrier!Release
    <3>1. ReadyChildren = Children
      BY <2>5 DEF send_start_to_all_children
    <3>2. ReadyChildren' = {}
      BY <2>5, <3>1 DEF send_start_to_all_children, ReadyChildren
    <3> QED
      BY <2>5, <3>1, <3>2 DEF send_start_to_all_children, ABarrier!Release
  <2>6. ASSUME UNCHANGED vars PROVE UNCHANGED ABarrier!vars
    BY <2>6 DEF vars, ABarrier!vars, ReadyChildren
  <2>7. IInv'
    BY NextIInv
  <2> QED
    BY <2>1, <2>2, <2>3, <2>4, <2>5, <2>6, <2>7
       DEF Next, ChildStep, ParentStep, ABarrier!Next
<1> QED
  BY <1>1, <1>2, InductiveInvariant, PTL DEF Spec, ImplementsBarrier, ABarrier!Spec

==============================================================================
