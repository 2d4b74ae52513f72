------------------------- MODULE MCRendezvousBarrier -------------------------
(***************************************************************************)
(* RendezvousBarrier with the calls run_tx of Cheetah makes in NumEpochs   *)
(* epochs.  Serval and Caracal leave out InitPhase.                        *)
(***************************************************************************)
EXTENDS RendezvousBarrier

CONSTANT NumEpochs      \* NUM_EPOCH, bounded

PhaseTypes == <<"NewEpoc", "InitPhase", "ExecPhase">>

MCNumCrossings == 1 + 3 * NumEpochs

MCSchedule == [k \in 0 .. MCNumCrossings - 1 |->
                  IF k = 0 THEN "Exp" ELSE PhaseTypes[(k % 3) + 1]]

==============================================================================
