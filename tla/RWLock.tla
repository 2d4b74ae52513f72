-------------------------------- MODULE RWLock --------------------------------
(***************************************************************************)
(* protocols/common/readwritelock.hpp: a reader-writer spin lock in one    *)
(* word.  cnt is -1 while a thread holds the lock exclusively and the      *)
(* number of shared holders otherwise.  Every acquisition is a load        *)
(* followed by a compare-and-exchange, and other threads may run between   *)
(* the two.                                                                *)
(***************************************************************************)
EXTENDS Integers, FiniteSets

CONSTANTS Threads,
          Calls          \* the acquisition operations the callers use

AllCalls == {"lock", "try_lock", "lock_shared", "try_lock_shared",
             "lock_upgrade", "try_lock_upgrade"}

ASSUME ThreadsAssumption == IsFiniteSet(Threads)

ASSUME CallsAssumption == Calls \subseteq AllCalls

VARIABLES cnt,           \* RWLock::cnt
          call,          \* call[t]: the operation t is in, or "none"
          expected,      \* expected[t]: the value t has loaded and will exchange
          at,            \* at[t]: "load" or "cas", its next access to cnt
          held           \* held[t]: how t holds the lock between its calls

vars == <<cnt, call, expected, at, held>>

Init ==
    /\ cnt = 0
    /\ call = [t \in Threads |-> "none"]
    /\ expected = [t \in Threads |-> 0]
    /\ at = [t \in Threads |-> "load"]
    /\ held = [t \in Threads |-> "none"]

Exclusive(c) == c \in {"lock", "try_lock"}
Shared(c)    == c \in {"lock_shared", "try_lock_shared"}
Upgrade(c)   == c \in {"lock_upgrade", "try_lock_upgrade"}
Spins(c)     == c \in {"lock", "lock_shared", "lock_upgrade"}

\* The test an operation makes on the value it has loaded.
Acceptable(c, e) == \/ Exclusive(c) /\ e = 0
                    \/ Shared(c)    /\ e >= 0
                    \/ Upgrade(c)   /\ e = 1

\* Upgrades assume that the caller holds the shared lock.
CallStart(t, c) ==
    /\ call[t] = "none"
    /\ held[t] = IF Upgrade(c) THEN "shared" ELSE "none"
    /\ call' = [call EXCEPT ![t] = c]
    /\ at' = [at EXCEPT ![t] = "load"]
    /\ UNCHANGED <<cnt, expected, held>>

Return(t) == call' = [call EXCEPT ![t] = "none"]

\* expected = load_acquire(cnt) and the test on it.  A spinning operation that
\* does not like the value loads again: no change of state.
Load(t) ==
    /\ call[t] # "none" /\ at[t] = "load"
    /\ \/ /\ Acceptable(call[t], cnt)
          /\ expected' = [expected EXCEPT ![t] = cnt]
          /\ at' = [at EXCEPT ![t] = "cas"]
          /\ UNCHANGED call
       \/ /\ ~Acceptable(call[t], cnt) /\ ~Spins(call[t])
          /\ Return(t)
          /\ UNCHANGED <<expected, at>>
    /\ UNCHANGED <<cnt, held>>

(***************************************************************************)
(* Mutations of compare_exchange and of the release operations.            *)
(***************************************************************************)

\* The word is overwritten whatever it holds: a store instead of an exchange.
MutCasSucceedsBlind(t) ==
    /\ call[t] # "none" /\ at[t] = "cas"
    /\ cnt' = IF Shared(call[t]) THEN expected[t] + 1 ELSE -1
    /\ held' = [held EXCEPT ![t] = IF Shared(call[t]) THEN "shared" ELSE "exclusive"]
    /\ Return(t)
    /\ UNCHANGED <<expected, at>>

\* An upgrade adds a holder instead of turning its own shared hold into -1.
MutCasSucceedsUpgrade(t) ==
    /\ call[t] # "none" /\ at[t] = "cas"
    /\ cnt = expected[t]
    /\ cnt' = IF Exclusive(call[t]) THEN -1 ELSE expected[t] + 1
    /\ held' = [held EXCEPT ![t] = IF Shared(call[t]) THEN "shared" ELSE "exclusive"]
    /\ Return(t)
    /\ UNCHANGED <<expected, at>>

\* A weak exchange, which may fail although the word is the expected one.
MutCasFailsSpuriously(t) ==
    /\ call[t] # "none" /\ at[t] = "cas"
    /\ IF Spins(call[t])
       THEN at' = [at EXCEPT ![t] = "load"] /\ UNCHANGED call
       ELSE Return(t) /\ UNCHANGED at
    /\ UNCHANGED <<cnt, expected, held>>

\* A weak exchange in the loops only, where it is tried again.
MutCasFailsWeakly(t) ==
    /\ call[t] # "none" /\ at[t] = "cas"
    /\ Spins(call[t]) \/ cnt # expected[t]
    /\ IF Spins(call[t])
       THEN at' = [at EXCEPT ![t] = "load"] /\ UNCHANGED call
       ELSE Return(t) /\ UNCHANGED at
    /\ UNCHANGED <<cnt, expected, held>>

(***************************************************************************)
(* compare_exchange(cnt, expected, ...)                                    *)
(***************************************************************************)
CasSucceeds(t) ==
    /\ call[t] # "none" /\ at[t] = "cas"
    /\ cnt = expected[t]
    /\ cnt' = IF Shared(call[t]) THEN expected[t] + 1 ELSE -1
    /\ held' = [held EXCEPT ![t] = IF Shared(call[t]) THEN "shared" ELSE "exclusive"]
    /\ Return(t)
    /\ UNCHANGED <<expected, at>>

\* A failed exchange: the lock operations load again, try_lock and
\* try_lock_upgrade give up, and try_lock_shared goes on with the value the
\* exchange has written back to expected as long as that is not negative.
CasFails(t) ==
    /\ call[t] # "none" /\ at[t] = "cas"
    /\ cnt # expected[t]
    /\ CASE Spins(call[t]) ->
              at' = [at EXCEPT ![t] = "load"] /\ UNCHANGED <<call, expected>>
         [] call[t] = "try_lock_shared" /\ cnt >= 0 ->
              expected' = [expected EXCEPT ![t] = cnt] /\ UNCHANGED <<call, at>>
         [] OTHER ->
              Return(t) /\ UNCHANGED <<expected, at>>
    /\ UNCHANGED <<cnt, held>>

unlock(t) ==
    /\ call[t] = "none" /\ held[t] = "exclusive"
    /\ cnt' = cnt + 1
    /\ held' = [held EXCEPT ![t] = "none"]
    /\ UNCHANGED <<call, expected, at>>

unlock_shared(t) ==
    /\ call[t] = "none" /\ held[t] = "shared"
    /\ cnt' = cnt - 1
    /\ held' = [held EXCEPT ![t] = "none"]
    /\ UNCHANGED <<call, expected, at>>

Acquire(t) == Load(t) \/ CasSucceeds(t) \/ CasFails(t)

Release(t) == unlock(t) \/ unlock_shared(t)

Next == \E t \in Threads : \/ \E c \in Calls : CallStart(t, c)
                           \/ Acquire(t)
                           \/ Release(t)

\* A thread finishes the operation it is in and does not keep the lock for
\* ever; nothing obliges it to call again.
Fairness == \A t \in Threads : WF_vars(Acquire(t)) /\ WF_vars(Release(t))

Spec == Init /\ [][Next]_vars

FairSpec == Spec /\ Fairness
-------------------------------------------------------------------------------
(***************************************************************************)
(* Properties                                                              *)
(***************************************************************************)

\* Type correctness; the word stays between -1 and the number of threads.
TypeOK ==
    /\ cnt \in -1 .. Cardinality(Threads)
    /\ call \in [Threads -> AllCalls \cup {"none"}]
    /\ expected \in [Threads -> -1 .. Cardinality(Threads)]
    /\ at \in [Threads -> {"load", "cas"}]
    /\ held \in [Threads -> {"none", "shared", "exclusive"}]

SharedHolders    == {t \in Threads : held[t] = "shared"}
ExclusiveHolders == {t \in Threads : held[t] = "exclusive"}

\* While a thread holds the lock exclusively nobody else holds it in any way,
\* whatever happens between a load and its exchange.
MutualExclusion ==
    \A s, t \in Threads : held[s] = "exclusive" /\ s # t => held[t] = "none"

\* The word says exactly who holds the lock.
CntMatchesHolders ==
    cnt = IF ExclusiveHolders # {} THEN -1 ELSE Cardinality(SharedHolders)

\* An upgrading thread keeps its shared hold until the exchange.
UpgradersHoldShared ==
    \A t \in Threads : Upgrade(call[t]) => held[t] = "shared"

\* Any other acquisition is made by a thread that holds nothing, and an
\* exchange is only tried with a value that passed the test.
CallersConsistent ==
    \A t \in Threads :
        /\ Exclusive(call[t]) \/ Shared(call[t]) => held[t] = "none"
        /\ call[t] # "none" /\ at[t] = "cas" => Acceptable(call[t], expected[t])

\* The inductive invariant.
IInv == /\ TypeOK
        /\ MutualExclusion
        /\ CntMatchesHolders
        /\ UpgradersHoldShared
        /\ CallersConsistent

\* try_lock returns false only at a moment when some other thread holds the
\* lock: it never fails spuriously.  The protocols read a failed try_lock as
\* "this row is contended", and the protocol modules model it as one step.
TryLockFailsOnlyWhenHeld ==
    [][\A t \in Threads :
          call[t] = "try_lock" /\ call'[t] = "none" /\ held'[t] = "none" =>
              \E s \in Threads \ {t} : held[s] # "none"]_vars

\* Only lock and try_lock are in use, as in the protocols.
ExclusiveUse ==
    \A t \in Threads : call[t] \in {"none", "lock", "try_lock"} /\ held[t] # "shared"

\* If from some moment on only lock and try_lock are used, a thread in lock()
\* implies that some thread gets the lock: failed exchanges of competing threads
\* cannot go on for ever without a winner.  (Shared holders that come and go can
\* keep lock() waiting, and two upgraders wait for each other.)
LockProgress ==
    <>[]ExclusiveUse =>
        ((\E t \in Threads : call[t] = "lock") ~> (\E t \in Threads : held[t] = "exclusive"))

===============================================================================
