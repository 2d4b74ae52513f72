\* Three workers, three rows, two regions: the third row to become contended
\* aborts.
SPECIFICATION FairSpec
CONSTANTS
    N = 3
    NumEpochs = 2
    NumRegions = 2
    k1 = k1
    k2 = k2
    k3 = k3
    Keys <- ThreeKeys
    Workloads <- ThreeCoreBatches
INVARIANTS
    UnpublishedRegionIsPrivate
    AppendersUseInstalledRegion
    RegionsAccounted
PROPERTIES
    RegionInstalledOnce
    AllEpochsFinish
\* The program ends after NumEpochs epochs, or with an exception.
CHECK_DEADLOCK FALSE
