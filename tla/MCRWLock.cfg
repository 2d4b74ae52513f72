\* All operations of the lock, mixed freely.
CONSTANTS
    Threads = {t1, t2, t3}
    Calls = {"lock", "try_lock", "lock_shared", "try_lock_shared",
             "lock_upgrade", "try_lock_upgrade"}
SPECIFICATION FairSpec
INVARIANTS MutualExclusion CntMatchesHolders
PROPERTIES TryLockFailsOnlyWhenHeld LockProgress
\* Two threads that upgrade at the same time spin for ever: the load that
\* finds cnt = 2 changes nothing.
CHECK_DEADLOCK FALSE
