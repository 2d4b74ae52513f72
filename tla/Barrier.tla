------------------------------- MODULE Barrier -------------------------------
(***************************************************************************)
(* What the protocols expect of a phase barrier: workers reach the end of  *)
(* a phase one by one, and they all leave it together once the last one    *)
(* has come.  RendezvousBarrier implements this specification; the         *)
(* protocol modules (Serval) use it as their phase change.                 *)
(***************************************************************************)
EXTENDS Naturals

CONSTANTS Workers,        \* the worker threads
          NumCrossings    \* how many barriers run_tx crosses

VARIABLES round,          \* number of barriers crossed by everybody so far
          arrived         \* workers waiting for the barrier of this round

vars == <<round, arrived>>

Init == round = 0 /\ arrived = {}

Arrive(w) ==
    /\ round < NumCrossings
    /\ w \notin arrived
    /\ arrived' = arrived \cup {w}
    /\ UNCHANGED round

Release ==
    /\ round < NumCrossings
    /\ arrived = Workers
    /\ round' = round + 1
    /\ arrived' = {}

Next == Release \/ \E w \in Workers : Arrive(w)

Spec == Init /\ [][Next]_vars

==============================================================================
