----------------------------- MODULE RWLockProofs -----------------------------
(***************************************************************************)
(* Proofs about RWLock for every finite set of threads and every choice of *)
(* operations: the word always says who holds the lock, so an exclusive    *)
(* holder is alone.                                                        *)
(***************************************************************************)
EXTENDS RWLock, FiniteSetTheorems, TLAPS

\* A set of threads is finite and has at most as many members as Threads.
LEMMA HoldersBounded ==
    ASSUME NEW S \in SUBSET Threads
    PROVE  /\ IsFiniteSet(S)
           /\ Cardinality(S) \in Nat
           /\ Cardinality(Threads) \in Nat
           /\ Cardinality(S) <= Cardinality(Threads)
           /\ (Cardinality(S) = 0) <=> (S = {})
BY ThreadsAssumption, FS_Subset, FS_CardinalityType, FS_EmptySet

\* One more shared holder counts one more.
LEMMA OneMoreHolder ==
    ASSUME NEW S \in SUBSET Threads, NEW t \in Threads, t \notin S
    PROVE  Cardinality(S \cup {t}) = Cardinality(S) + 1
BY HoldersBounded, FS_AddElement

\* A shared holder that leaves counts one less.
LEMMA OneHolderLess ==
    ASSUME NEW S \in SUBSET Threads, NEW t \in S
    PROVE  Cardinality(S \ {t}) = Cardinality(S) - 1
BY HoldersBounded, FS_RemoveElement

\* When the count of shared holders is one, the holder one knows is the only
\* one: what an upgrade relies on.
LEMMA OnlyHolder ==
    ASSUME NEW S \in SUBSET Threads, NEW t \in S, Cardinality(S) = 1
    PROVE  S = {t}
<1>1. Cardinality(S \ {t}) = 0
  BY OneHolderLess
<1>2. S \ {t} = {}
  BY <1>1, HoldersBounded
<1> QED
  BY <1>2

\* The lock starts free, in a state of the inductive invariant.
LEMMA InitIInv == Init => IInv
<1> SUFFICES ASSUME Init PROVE IInv
  OBVIOUS
<1>1. SharedHolders = {} /\ ExclusiveHolders = {}
  BY DEF Init, SharedHolders, ExclusiveHolders
<1>2. CntMatchesHolders
  BY <1>1, FS_EmptySet DEF Init, CntMatchesHolders
<1>3. TypeOK
  BY HoldersBounded DEF Init, TypeOK, AllCalls
<1> QED
  BY <1>2, <1>3 DEF Init, IInv, MutualExclusion, UpgradersHoldShared,
     CallersConsistent, Upgrade, Exclusive, Shared

\* Every step of every thread keeps the inductive invariant.
LEMMA NextIInv == IInv /\ [Next]_vars => IInv'
<1> SUFFICES ASSUME IInv, [Next]_vars PROVE IInv'
  OBVIOUS
<1> USE DEF IInv
<1> DEFINE K == Cardinality(Threads)
<1>k. K \in Nat
  BY HoldersBounded
<1>h. SharedHolders \in SUBSET Threads /\ ExclusiveHolders \in SUBSET Threads
  BY DEF SharedHolders, ExclusiveHolders
<1>c. /\ Cardinality(SharedHolders) \in Nat
      /\ Cardinality(SharedHolders) <= K
      /\ Cardinality(SharedHolders) = 0 <=> SharedHolders = {}
  BY <1>h, HoldersBounded
<1>1. ASSUME NEW t \in Threads, NEW c \in Calls, CallStart(t, c)
      PROVE  IInv'
  <2>1. c \in AllCalls
    BY CallsAssumption
  <2>2. TypeOK'
    BY <1>1, <1>k, <2>1 DEF TypeOK, CallStart, AllCalls
  <2>3. MutualExclusion' /\ CntMatchesHolders'
    BY <1>1 DEF CallStart, MutualExclusion, CntMatchesHolders,
       SharedHolders, ExclusiveHolders
  <2>4. UpgradersHoldShared'
    BY <1>1 DEF CallStart, UpgradersHoldShared, TypeOK, Upgrade
  <2>5. CallersConsistent'
    BY <1>1 DEF CallStart, CallersConsistent, TypeOK, Exclusive, Shared,
       Upgrade
  <2> QED
    BY <2>2, <2>3, <2>4, <2>5
<1>2. ASSUME NEW t \in Threads, Load(t)
      PROVE  IInv'
  <2>1. TypeOK'
    BY <1>2, <1>k DEF TypeOK, Load, Return, AllCalls
  <2>2. MutualExclusion' /\ CntMatchesHolders'
    BY <1>2 DEF Load, MutualExclusion, CntMatchesHolders, SharedHolders,
       ExclusiveHolders
  <2>3. UpgradersHoldShared'
    BY <1>2 DEF Load, Return, UpgradersHoldShared, TypeOK, Upgrade
  <2>4. CallersConsistent'
    BY <1>2 DEF Load, Return, CallersConsistent, TypeOK, Exclusive, Shared,
       Upgrade, Acceptable
  <2> QED
    BY <2>1, <2>2, <2>3, <2>4
<1>3. ASSUME NEW t \in Threads, CasSucceeds(t)
      PROVE  IInv'
  <2>t. call[t] \in AllCalls
    BY <1>3 DEF CasSucceeds, TypeOK
  <2>a. Acceptable(call[t], cnt)
    BY <1>3 DEF CasSucceeds, CallersConsistent, Acceptable
  <2>1. CASE Exclusive(call[t])
    \* The word was 0: nobody held the lock.
    <3>1. cnt = 0 /\ cnt' = -1 /\ held' = [held EXCEPT ![t] = "exclusive"]
      BY <1>3, <2>1, <2>a DEF CasSucceeds, Exclusive, Shared, Upgrade,
         Acceptable
    <3>2. ExclusiveHolders = {} /\ SharedHolders = {}
      BY <3>1, <1>c DEF CntMatchesHolders
    <3>3. \A s \in Threads : held[s] = "none"
      BY <3>2 DEF ExclusiveHolders, SharedHolders, TypeOK
    <3>4. MutualExclusion'
      BY <3>1, <3>3 DEF MutualExclusion, TypeOK
    <3>5. t \in ExclusiveHolders'
      BY <3>1 DEF ExclusiveHolders, TypeOK
    <3>6. CntMatchesHolders'
      BY <3>1, <3>5 DEF CntMatchesHolders
    <3>7. TypeOK'
      BY <1>3, <3>1, <1>k DEF TypeOK, CasSucceeds, Return
    <3>8. UpgradersHoldShared'
      BY <1>3, <3>1 DEF UpgradersHoldShared, CasSucceeds, Return, TypeOK,
         Upgrade
    <3>9. CallersConsistent'
      BY <1>3, <3>1 DEF CallersConsistent, CasSucceeds, Return, TypeOK,
         Exclusive, Shared
    <3> QED
      BY <3>4, <3>6, <3>7, <3>8, <3>9
  <2>2. CASE Shared(call[t])
    \* The word was not negative: nobody held the lock exclusively.
    <3>1. cnt >= 0 /\ cnt' = cnt + 1 /\ held' = [held EXCEPT ![t] = "shared"]
      BY <1>3, <2>2, <2>a DEF CasSucceeds, Exclusive, Shared, Upgrade,
         Acceptable
    <3>2. ExclusiveHolders = {} /\ cnt = Cardinality(SharedHolders)
      BY <3>1, <1>c DEF CntMatchesHolders
    <3>3. held[t] = "none"
      BY <2>2 DEF CallersConsistent
    <3>4. ExclusiveHolders' = {} /\ SharedHolders' = SharedHolders \cup {t}
      BY <3>1, <3>2 DEF ExclusiveHolders, SharedHolders, TypeOK
    <3>5. t \notin SharedHolders
      BY <3>3 DEF SharedHolders
    <3>6. Cardinality(SharedHolders') = Cardinality(SharedHolders) + 1
      BY <3>4, <3>5, <1>h, OneMoreHolder
    <3>7. CntMatchesHolders'
      BY <3>1, <3>2, <3>4, <3>6 DEF CntMatchesHolders
    <3>8. MutualExclusion'
      BY <3>4 DEF MutualExclusion, ExclusiveHolders
    <3>9. SharedHolders' \in SUBSET Threads
      BY <3>4, <1>h
    <3>10. cnt' <= K
      BY <3>1, <3>2, <3>6, <3>9, HoldersBounded
    <3>11. TypeOK'
      BY <1>3, <3>1, <3>10, <1>k DEF TypeOK, CasSucceeds, Return
    <3>12. UpgradersHoldShared'
      BY <1>3, <3>1 DEF UpgradersHoldShared, CasSucceeds, Return, TypeOK,
         Upgrade
    <3>13. CallersConsistent'
      BY <1>3, <3>1 DEF CallersConsistent, CasSucceeds, Return, TypeOK,
         Exclusive, Shared
    <3> QED
      BY <3>7, <3>8, <3>11, <3>12, <3>13
  <2>3. CASE Upgrade(call[t])
    \* The word was 1: the upgrading thread was the only holder.
    <3>1. cnt = 1 /\ cnt' = -1 /\ held' = [held EXCEPT ![t] = "exclusive"]
      BY <1>3, <2>3, <2>a DEF CasSucceeds, Exclusive, Shared, Upgrade,
         Acceptable
    <3>2. ExclusiveHolders = {} /\ Cardinality(SharedHolders) = 1
      BY <3>1, <1>c DEF CntMatchesHolders
    <3>3. t \in SharedHolders
      BY <2>3 DEF UpgradersHoldShared, SharedHolders
    <3>4. SharedHolders = {t}
      BY <3>2, <3>3, <1>h, OnlyHolder
    <3>5. \A s \in Threads : s # t => held[s] = "none"
      BY <3>2, <3>4 DEF ExclusiveHolders, SharedHolders, TypeOK
    <3>6. MutualExclusion'
      BY <3>1, <3>5 DEF MutualExclusion, TypeOK
    <3>7. t \in ExclusiveHolders'
      BY <3>1 DEF ExclusiveHolders, TypeOK
    <3>8. CntMatchesHolders'
      BY <3>1, <3>7 DEF CntMatchesHolders
    <3>9. TypeOK'
      BY <1>3, <3>1, <1>k DEF TypeOK, CasSucceeds, Return
    <3>10. UpgradersHoldShared'
      BY <1>3, <3>1 DEF UpgradersHoldShared, CasSucceeds, Return, TypeOK,
         Upgrade
    <3>11. CallersConsistent'
      BY <1>3, <3>1 DEF CallersConsistent, CasSucceeds, Return, TypeOK,
         Exclusive, Shared
    <3> QED
      BY <3>6, <3>8, <3>9, <3>10, <3>11
  <2> QED
    BY <2>t, <2>1, <2>2, <2>3 DEF AllCalls, Exclusive, Shared, Upgrade
<1>4. ASSUME NEW t \in Threads, CasFails(t)
      PROVE  IInv'
  <2>1. TypeOK'
    BY <1>4, <1>k DEF TypeOK, CasFails, Return, AllCalls
  <2>2. MutualExclusion' /\ CntMatchesHolders'
    BY <1>4 DEF CasFails, MutualExclusion, CntMatchesHolders, SharedHolders,
       ExclusiveHolders
  <2>3. UpgradersHoldShared'
    BY <1>4 DEF CasFails, Return, UpgradersHoldShared, TypeOK, Upgrade
  <2>4. CallersConsistent'
    BY <1>4 DEF CasFails, Return, CallersConsistent, TypeOK, Exclusive,
       Shared, Upgrade, Acceptable, Spins
  <2> QED
    BY <2>1, <2>2, <2>3, <2>4
<1>5. ASSUME NEW t \in Threads, unlock(t)
      PROVE  IInv'
  <2>1. held[t] = "exclusive" /\ t \in ExclusiveHolders
    BY <1>5 DEF unlock, ExclusiveHolders
  <2>2. cnt = -1
    BY <2>1 DEF CntMatchesHolders
  <2>3. \A s \in Threads : held'[s] = "none"
    BY <1>5, <2>1 DEF unlock, MutualExclusion, TypeOK
  <2>4. ExclusiveHolders' = {} /\ SharedHolders' = {}
    BY <2>3 DEF ExclusiveHolders, SharedHolders
  <2>5. CntMatchesHolders'
    BY <1>5, <2>2, <2>4, FS_EmptySet DEF unlock, CntMatchesHolders
  <2>6. TypeOK' /\ MutualExclusion'
    BY <1>5, <2>2, <2>3, <1>k DEF unlock, TypeOK, MutualExclusion
  <2>7. UpgradersHoldShared' /\ CallersConsistent'
    BY <1>5 DEF unlock, UpgradersHoldShared, CallersConsistent, TypeOK,
       Upgrade, Exclusive, Shared
  <2> QED
    BY <2>5, <2>6, <2>7
<1>6. ASSUME NEW t \in Threads, unlock_shared(t)
      PROVE  IInv'
  <2>1. held[t] = "shared" /\ t \in SharedHolders
    BY <1>6 DEF unlock_shared, SharedHolders
  <2>2. ExclusiveHolders = {}
    BY <2>1 DEF ExclusiveHolders, MutualExclusion
  <2>3. ExclusiveHolders' = {} /\ SharedHolders' = SharedHolders \ {t}
    BY <1>6, <2>2 DEF unlock_shared, ExclusiveHolders, SharedHolders, TypeOK
  <2>4. Cardinality(SharedHolders') = Cardinality(SharedHolders) - 1
    BY <2>1, <2>3, <1>h, OneHolderLess
  <2>5. cnt = Cardinality(SharedHolders) /\ cnt' = cnt - 1
    BY <1>6, <2>2 DEF unlock_shared, CntMatchesHolders
  <2>6. CntMatchesHolders'
    BY <2>3, <2>4, <2>5 DEF CntMatchesHolders
  <2>7. cnt # 0
    BY <2>1, <2>5, <1>c
  <2>8. TypeOK'
    BY <1>6, <2>5, <2>7, <1>k, <1>c DEF unlock_shared, TypeOK
  <2>9. MutualExclusion'
    BY <2>3 DEF MutualExclusion, ExclusiveHolders
  <2>10. UpgradersHoldShared' /\ CallersConsistent'
    BY <1>6 DEF unlock_shared, UpgradersHoldShared, CallersConsistent, TypeOK,
       Upgrade, Exclusive, Shared
  <2> QED
    BY <2>6, <2>8, <2>9, <2>10
<1>7. CASE UNCHANGED vars
  BY <1>7 DEF vars, TypeOK, MutualExclusion, CntMatchesHolders,
     UpgradersHoldShared, CallersConsistent, SharedHolders, ExclusiveHolders
<1> QED
  BY <1>1, <1>2, <1>3, <1>4, <1>5, <1>6, <1>7 DEF Next, Acquire, Release

\* The inductive invariant holds in every reachable state.
LEMMA InductiveInvariant == Spec => []IInv
BY InitIInv, NextIInv, PTL DEF Spec

\* The word stays between -1 and the number of threads, and every thread in a
\* state its code knows.
THEOREM TypeCorrect == Spec => []TypeOK
BY InductiveInvariant, PTL DEF IInv

\* An exclusive holder is alone, whatever happens between the load and the
\* exchange of lock, try_lock, lock_shared and the upgrades.
THEOREM ExclusiveHolderIsAlone == Spec => []MutualExclusion
BY InductiveInvariant, PTL DEF IInv

\* cnt is -1 exactly while there is an exclusive holder and the number of
\* shared holders otherwise.
THEOREM WordCountsHolders == Spec => []CntMatchesHolders
BY InductiveInvariant, PTL DEF IInv

\* A step in which try_lock gives up starts in a state where another thread
\* holds the lock.
THEOREM TryLockNeverFailsSpuriously == Spec => TryLockFailsOnlyWhenHeld
<1>1. IInv /\ [Next]_vars =>
        [\A t \in Threads :
            call[t] = "try_lock" /\ call'[t] = "none" /\ held'[t] = "none" =>
                \E s \in Threads \ {t} : held[s] # "none"]_vars
  <2> SUFFICES ASSUME IInv, Next, NEW t \in Threads,
                      call[t] = "try_lock", call'[t] = "none",
                      held'[t] = "none"
               PROVE  \E s \in Threads \ {t} : held[s] # "none"
    OBVIOUS
  <2>1. held[t] = "none"
    BY DEF IInv, CallersConsistent, Exclusive
  <2>2. cnt # 0
    BY DEF IInv, CallersConsistent, TypeOK, Next, Acquire, Release, CallStart,
       Load, CasSucceeds, CasFails, unlock, unlock_shared, Return, Acceptable,
       Exclusive, Shared, Upgrade, Spins
  <2>3. ExclusiveHolders # {} \/ SharedHolders # {}
    BY <2>2, FS_EmptySet DEF IInv, CntMatchesHolders
  <2> QED
    BY <2>1, <2>3 DEF ExclusiveHolders, SharedHolders
<1> QED
  BY <1>1, InductiveInvariant, PTL DEF Spec, TryLockFailsOnlyWhenHeld
===============================================================================
