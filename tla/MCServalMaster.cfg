\* A row written in epoch 1 and only read in epoch 2.
SPECIFICATION Spec
CONSTANTS
    N = 2
    NumEpochs = 2
    NumRegions = 1
    k1 = k1
    k2 = k2
    k3 = k3
    Keys <- OneKey
    Workloads <- AllBatches
INVARIANTS
    ReadsSeeFinalState
CHECK_DEADLOCK FALSE
