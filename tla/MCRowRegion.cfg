\* Words of three bits: three cores with three transactions each, three epochs.
SPECIFICATION Spec
CONSTANTS
    W = 3
    NumEpochs = 3
INVARIANTS
    BitmapsActAsSets
    VisibleIsPredecessor
PROPERTIES
    FinalStateIsLast
\* Every array may be full, and there are NumEpochs epochs.
CHECK_DEADLOCK FALSE
