\* Three workers that meet on two rows: races to install a buffer, spare
\* buffers and, with three buffers, exhaustion.
SPECIFICATION FairSpec
CONSTANTS
    N = 3
    T = 2
    NumEpochs = 1
    NumRegions = 3
    MaxSlots = 2
    k1 = k1
    k2 = k2
    Keys <- TwoKeys
    Workloads <- TwoRowBatches
INVARIANTS
    BuffersAccounted
PROPERTIES
    AllEpochsFinish
\* The program ends after NumEpochs epochs, or when it runs out of buffers.
CHECK_DEADLOCK FALSE
