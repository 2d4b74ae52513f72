\* Cheetah: InitPhase, ExecPhase and NewEpoc in every epoch.
CONSTANTS
    Children = {c1, c2, c3}
    Parent = p
    NumEpochs = 2
    NumCrossings <- MCNumCrossings
    Schedule <- MCSchedule
SPECIFICATION FairSpec
INVARIANTS ReadyCountsMissing
PROPERTIES ImplementsBarrier AllCross
\* The threads return from run_tx behind the last barrier.
CHECK_DEADLOCK FALSE
