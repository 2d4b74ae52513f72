\* All transactions of a core write a contended row.
SPECIFICATION Spec
CONSTANTS
    N = 2
    NumEpochs = 2
    NumRegions = 1
    k1 = k1
    k2 = k2
    k3 = k3
    Keys <- OneKey
    Workloads <- AllBatches
INVARIANTS
    ArrayNeverFull
CHECK_DEADLOCK FALSE
