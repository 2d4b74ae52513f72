\* Three workers that meet on two rows, two epochs.
SPECIFICATION FairSpec
CONSTANTS
    N = 3
    T = 3
    NumEpochs = 2
    k1 = k1
    k2 = k2
    Keys <- TwoKeys
    Workloads <- ThreeCoreBatches
INVARIANTS
    WritersVersionsLive
    BitmapsDescribeWriters
PROPERTIES
    AllEpochsFinish
\* The program ends after NumEpochs epochs.
CHECK_DEADLOCK FALSE
