\* Every batch over one row, in three consecutive epochs.
SPECIFICATION Spec
CONSTANTS
    N = 2
    NumEpochs = 3
    NumRegions = 1
    k1 = k1
    k2 = k2
    k3 = k3
    Keys <- OneKey
    Workloads <- AllBatches
INVARIANTS
    ExecutionFindsAllVersions
    ReadsSeeSerialOrder
    ReadsReturnStableRecords
    FinalStateKept
    EachVersionOwnedOnce
    BitmapsMatchSlots
\* The program ends after NumEpochs epochs.
CHECK_DEADLOCK FALSE
