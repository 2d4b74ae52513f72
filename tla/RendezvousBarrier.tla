-------------------------- MODULE RendezvousBarrier --------------------------
(***************************************************************************)
(* protocols/ycsb_common/rendezvous_barrier.hpp, driven the way run_tx in  *)
(* the three executables drives it: every worker crosses the same          *)
(* sequence of barriers, one of them (worker 63) as the parent, the others *)
(* as children.  The barrier is two shared words:                          *)
(*                                                                         *)
(*   ready_   children to parent: how many children have yet to arrive     *)
(*   start_   parent to children: the type of the barrier last opened      *)
(*                                                                         *)
(* and nothing else: it has no round number.  Its safety rests on the      *)
(* types of two consecutive barriers being different, so that a child that *)
(* looks at start_ cannot take the previous opening for its own.           *)
(***************************************************************************)
EXTENDS Integers, FiniteSets

CONSTANTS Children,       \* the workers that call send_ready_and_wait_start
          Parent,         \* the worker that calls wait_all_children_and_send_start
          NumCrossings,   \* calls of rendezvous_barrier_to_start by each worker
          Schedule        \* Schedule[k] is the BarrierType of the k-th call

BarrierType == {"BeforeExp", "Exp", "InitPhase", "ExecPhase", "NewEpoc"}

Workers == Children \cup {Parent}

ASSUME ChildrenAssumption == IsFiniteSet(Children) /\ Parent \notin Children

ASSUME CrossingsAssumption == NumCrossings \in Nat

\* run_tx calls Exp, then ExecPhase and NewEpoc (Cheetah: InitPhase, ExecPhase
\* and NewEpoc) in each epoch: no barrier has the type of the one before it.
ASSUME ScheduleAssumption ==
    /\ Schedule \in [0 .. NumCrossings - 1 -> BarrierType \ {"BeforeExp"}]
    /\ \A k \in 0 .. NumCrossings - 2 : Schedule[k] # Schedule[k + 1]

VARIABLES ready_,         \* RendezvousBarrierVariable::ready_
          start_,         \* RendezvousBarrierVariable::start_
          crossed,        \* crossed[w]: barriers worker w has come out of
          pc              \* pc[w]: "work", or where w is in its barrier call

vars == <<ready_, start_, crossed, pc>>

num_children_ == Cardinality(Children)

Init ==
    /\ ready_ = num_children_
    /\ start_ = "BeforeExp"
    /\ crossed = [w \in Workers |-> 0]
    /\ pc = [w \in Workers |-> "work"]

(***************************************************************************)
(* Mutations: plausible slips in the code below, used to show that the     *)
(* properties can tell the difference.                                     *)
(***************************************************************************)

\* The parent leaves its loop one child too early ...
MutWaitReadyOneEarly ==
    /\ pc[Parent] = "wait_ready"
    /\ ready_ <= 1
    /\ pc' = [pc EXCEPT ![Parent] = "initialize"]
    /\ UNCHANGED <<ready_, start_, crossed>>

\* ... or waits for one child more than there are ...
MutWaitReadyOneLate ==
    /\ pc[Parent] = "wait_ready"
    /\ ready_ < 0
    /\ pc' = [pc EXCEPT ![Parent] = "initialize"]
    /\ UNCHANGED <<ready_, start_, crossed>>

\* ... or forgets to re-arm ready_ ...
MutWaitReadyNoRearm ==
    /\ pc[Parent] = "wait_ready"
    /\ ready_ <= 0
    /\ pc' = [pc EXCEPT ![Parent] = "send_start"]
    /\ UNCHANGED <<ready_, start_, crossed>>

(***************************************************************************)
(* Children: send_ready_and_wait_start(type)                               *)
(***************************************************************************)
send_ready_to_parent(c) ==
    /\ pc[c] = "work"
    /\ crossed[c] < NumCrossings
    /\ ready_' = ready_ - 1
    /\ pc' = [pc EXCEPT ![c] = "wait_start"]
    /\ UNCHANGED <<start_, crossed>>

wait_start(c) ==
    /\ pc[c] = "wait_start"
    /\ start_ = Schedule[crossed[c]]
    /\ crossed' = [crossed EXCEPT ![c] = @ + 1]
    /\ pc' = [pc EXCEPT ![c] = "work"]
    /\ UNCHANGED <<ready_, start_>>

(***************************************************************************)
(* Parent: wait_all_children_and_send_start(type)                          *)
(***************************************************************************)
parent_arrives ==
    /\ pc[Parent] = "work"
    /\ crossed[Parent] < NumCrossings
    /\ pc' = [pc EXCEPT ![Parent] = "wait_ready"]
    /\ UNCHANGED <<ready_, start_, crossed>>

wait_all_children_ready ==
    /\ pc[Parent] = "wait_ready"
    /\ ready_ <= 0
    /\ pc' = [pc EXCEPT ![Parent] = "initialize"]
    /\ UNCHANGED <<ready_, start_, crossed>>

initialize ==
    /\ pc[Parent] = "initialize"
    /\ ready_' = num_children_
    /\ pc' = [pc EXCEPT ![Parent] = "send_start"]
    /\ UNCHANGED <<start_, crossed>>

send_start_to_all_children ==
    /\ pc[Parent] = "send_start"
    /\ start_' = Schedule[crossed[Parent]]
    /\ crossed' = [crossed EXCEPT ![Parent] = @ + 1]
    /\ pc' = [pc EXCEPT ![Parent] = "work"]
    /\ UNCHANGED ready_

ChildStep(c) == send_ready_to_parent(c) \/ wait_start(c)

ParentStep == \/ parent_arrives
              \/ wait_all_children_ready
              \/ initialize
              \/ send_start_to_all_children

Next == ParentStep \/ \E c \in Children : ChildStep(c)

\* Every thread is pinned to a core of its own, so each keeps running.
Fairness == WF_vars(ParentStep) /\ \A c \in Children : WF_vars(ChildStep(c))

Spec == Init /\ [][Next]_vars

FairSpec == Spec /\ Fairness
------------------------------------------------------------------------------
(***************************************************************************)
(* Properties                                                              *)
(***************************************************************************)

\* Type correctness of the two shared words and of the workers' positions.
TypeOK ==
    /\ ready_ \in 0 .. num_children_
    /\ start_ \in BarrierType
    /\ crossed \in [Workers -> 0 .. NumCrossings]
    /\ pc \in [Workers -> {"work", "wait_start", "wait_ready", "initialize",
                           "send_start"}]
    /\ pc[Parent] # "wait_start"
    /\ \A c \in Children : pc[c] \in {"work", "wait_start"}

\* No worker has started the phase behind a barrier while another one is still
\* working in the phase before it: the guarantee that lets the execution phase
\* read rows without latches.
PhasesDoNotOverlap ==
    \A v, w \in Workers : pc[v] = "work" => crossed[w] <= crossed[v]

\* Children of this round that have decremented ready_.
ReadyChildren ==
    {c \in Children : crossed[c] = crossed[Parent] /\ pc[c] = "wait_start"}

\* The parent re-arms ready_ before it opens the barrier, so an arrival for the
\* next barrier is never wiped out: ready_ always counts the missing children.
ReadyCountsMissing ==
    pc[Parent] \in {"work", "wait_ready"} =>
        ready_ = num_children_ - Cardinality(ReadyChildren)

\* A child is in the parent's round, or still has to notice that the previous
\* barrier has been opened.
ChildrenInRound ==
    \A c \in Children :
        \/ crossed[c] = crossed[Parent]
        \/ crossed[c] = crossed[Parent] - 1 /\ pc[c] = "wait_start"

\* Once the parent has left its waiting loop every child is inside the barrier.
AllReady == pc[Parent] \in {"initialize", "send_start"} => ReadyChildren = Children

\* start_ is the type of the barrier the parent opened last.
StartIsLastOpened ==
    start_ = IF crossed[Parent] = 0 THEN "BeforeExp"
                                    ELSE Schedule[crossed[Parent] - 1]

\* Nobody is inside a barrier behind the last one; ready_ is re-armed before
\* start_ is stored.
InsideBarrier ==
    /\ \A w \in Workers : pc[w] # "work" => crossed[w] < NumCrossings
    /\ pc[Parent] = "send_start" => ready_ = num_children_

\* The inductive invariant behind PhasesDoNotOverlap and the refinement.
IInv == /\ TypeOK
        /\ ChildrenInRound
        /\ AllReady
        /\ StartIsLastOpened
        /\ InsideBarrier
        /\ ReadyCountsMissing

\* The rendezvous barrier implements the abstract one.  A child that has been
\* released but has not looked at start_ yet counts as released.
ABarrier == INSTANCE Barrier WITH
    round   <- crossed[Parent],
    arrived <- ReadyChildren \cup (IF pc[Parent] = "work" THEN {} ELSE {Parent})

ImplementsBarrier == ABarrier!Spec

\* Every worker comes out of its last barrier.
AllCross == <>(\A w \in Workers : crossed[w] = NumCrossings)

==============================================================================
