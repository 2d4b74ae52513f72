\* One row, two workers with three transactions each, three epochs, 16 of the 64 batches.
SPECIFICATION Spec
CONSTANTS
    N = 2
    T = 3
    NumEpochs = 3
    NumRegions = 2
    MaxSlots = 2
    k1 = k1
    k2 = k2
    Keys <- OneKey
    Workloads <- OneRowBatches
INVARIANTS
    ExecutionFindsAllVersions
    LiveVersionsReachable
    BufferHasRoom
    OldVersionsCollected
PROPERTIES
    OnlyStableVersionsFreed
    ImplementsDeterministicDB
\* The program ends after NumEpochs epochs.
CHECK_DEADLOCK FALSE
