\* One row, two workers, every batch, three epochs.
SPECIFICATION Spec
CONSTANTS
    N = 2
    T = 2
    NumEpochs = 3
    k1 = k1
    k2 = k2
    Keys <- OneKey
    Workloads <- AllBatches
INVARIANTS
    LiveVersionsOwned
    RefCntCountsReaders
    ReadersVersionsLive
    RowsCleanBetweenEpochs
PROPERTIES
    ImplementsDeterministicDB
\* The program ends after NumEpochs epochs.
CHECK_DEADLOCK FALSE
