--------------------------- MODULE TransactionProofs ---------------------------
(***************************************************************************)
(* Lemmas about the batches and the serial order of Transactions, which    *)
(* the proofs about the protocols cite.                                    *)
(***************************************************************************)
EXTENDS Transactions, WellFoundedInduction, TLAPS

\* A nonempty set of natural numbers has a smallest element.
LEMMA NatMinimum ==
    ASSUME NEW S \in SUBSET Nat, S # {}
    PROVE  \E n \in S : \A m \in S : n <= m
<1>1. PICK n \in S : \A m \in S : ~(<<m, n>> \in OpToRel(<, Nat))
  BY NatLessThanWellFounded, WFMin
<1>2. \A m \in S : ~(m < n)
  BY <1>1 DEF OpToRel
<1> QED
  BY <1>2

\* The number of the first and of the last serial number.
LEMMA SerialsAreNatural ==
    N * T \in Nat \ {0} /\ Serials \subseteq Nat /\ 0 \in Serials
<1>1. N * T \in Nat \ {0}
  BY NAssumption, SMT
<1> QED
  BY <1>1 DEF Serials

\* The loop over a nonempty set of operations takes one of them.
LEMMA FirstIsMember ==
    ASSUME NEW S, S \subseteq Serials \X Nat, S # {}
    PROVE  First(S) \in S
<1> DEFINE Ss == {o[1] : o \in S}
<1>1. Ss \in SUBSET Nat /\ Ss # {}
  BY SerialsAreNatural
<1>2. PICK s \in Ss : \A t \in Ss : s <= t
  BY <1>1, NatMinimum
<1> DEFINE Js == {o[2] : o \in {p \in S : p[1] = s}}
<1>3. Js \in SUBSET Nat /\ Js # {}
  BY <1>2
<1> HIDE DEF Js
<1>4. PICK j \in Js : \A i \in Js : j <= i
  BY <1>3, NatMinimum
<1>5. PICK o \in S : o[1] = s /\ o[2] = j
  BY <1>4 DEF Js
<1>6. ASSUME NEW p \in S PROVE Before(o, p)
  <2>1. s \in Nat /\ p[1] \in Nat /\ s <= p[1]
    BY <1>1, <1>2
  <2>2. p[1] = s => j <= p[2]
    BY <1>4 DEF Js
  <2> QED
    BY <1>5, <2>1, <2>2 DEF Before
<1> QED
  BY <1>6 DEF First

\* A nonempty set of serial numbers has a last one.
LEMMA MaxIsLast ==
    ASSUME NEW S, S \subseteq Serials, S # {}
    PROVE  Max(S) \in S /\ \A x \in S : x <= Max(S)
<1> DEFINE M == N * T
           D == {M - x : x \in S}
<1>1. M \in Nat /\ \A x \in S : x \in Nat /\ x < M
  BY SerialsAreNatural DEF Serials
<1>2. D \in SUBSET Nat /\ D # {}
  BY <1>1
<1>3. PICK d \in D : \A e \in D : d <= e
  BY <1>2, NatMinimum
<1>4. PICK x \in S : d = M - x
  BY <1>3
<1>5. \A y \in S : x >= y
  BY <1>1, <1>3, <1>4
<1> HIDE DEF M, D
<1>6. Max(S) \in S /\ \A y \in S : Max(S) >= y
  BY <1>5 DEF Max
<1> QED
  BY <1>1, <1>6

\* What an operation of a batch is.
LEMMA OperationsOfBatch ==
    ASSUME NEW batch \in Workloads, NEW o \in Ops(batch)
    PROVE  /\ o \in Serials \X Nat
           /\ o[1] \in Serials /\ o[1] \in Nat /\ o[2] \in Nat
           /\ batch[o[1]][o[2]].index \in Keys
           /\ batch[o[1]][o[2]] =
                 [ope |-> batch[o[1]][o[2]].ope, index |-> batch[o[1]][o[2]].index]
           /\ o \in Reads(batch) \/ o \in Updates(batch)
           /\ ~(o \in Reads(batch) /\ o \in Updates(batch))
<1>1. PICK s \in Serials : \E j \in DOMAIN batch[s] : o = <<s, j>>
  BY DEF Ops
<1>2. PICK j \in DOMAIN batch[s] : o = <<s, j>>
  BY <1>1
<1>3. batch[s] \in Seq(Operations)
  BY WorkloadsAssumption
<1>4. j \in Nat /\ batch[s][j] \in Operations
  BY <1>3
<1>5. /\ batch[s][j].index \in Keys
      /\ batch[s][j].ope \in {"Read", "Update"}
      /\ batch[s][j] = [ope |-> batch[s][j].ope, index |-> batch[s][j].index]
  BY <1>4 DEF Operations
<1> QED
  BY <1>2, <1>4, <1>5, SerialsAreNatural DEF Reads, Updates

\* A transaction has one operation on a row.
LEMMA OneOperationPerRow ==
    ASSUME NEW batch \in Workloads, NEW o \in Ops(batch), NEW p \in Ops(batch),
           o[1] = p[1], batch[o[1]][o[2]].index = batch[p[1]][p[2]].index
    PROVE  o = p
<1>1. PICK s \in Serials : \E j \in DOMAIN batch[s] : o = <<s, j>>
  BY DEF Ops
<1>2. PICK j \in DOMAIN batch[s] : o = <<s, j>>
  BY <1>1
<1>3. PICK t \in Serials : \E i \in DOMAIN batch[t] : p = <<t, i>>
  BY DEF Ops
<1>4. PICK i \in DOMAIN batch[t] : p = <<t, i>>
  BY <1>3
<1>5. no_dupulicate_key(batch[s])
  BY WorkloadsAssumption DEF OperationSet
<1>6. s = t /\ i = j
  BY <1>2, <1>4, <1>5 DEF no_dupulicate_key
<1> QED
  BY <1>2, <1>4, <1>6

\* The writers of a row are serial numbers, each with an update of the row.
LEMMA WritersAreUpdates ==
    ASSUME NEW batch \in Workloads, NEW k
    PROVE  /\ Writers(batch, k) \subseteq Serials
           /\ \A s : s \in Writers(batch, k) <=>
                 \E o \in Updates(batch) : o[1] = s /\ batch[o[1]][o[2]].index = k
<1>1. \A s : s \in Writers(batch, k) <=>
         \E o \in Updates(batch) : o[1] = s /\ batch[o[1]][o[2]].index = k
  BY DEF Writers
<1>2. \A o \in Updates(batch) : o \in Ops(batch)
  BY DEF Updates
<1> QED
  BY <1>1, <1>2, OperationsOfBatch

\* Serial execution reads and leaves versions, if it starts from versions.
LEMMA SerialResultTyped ==
    ASSUME NEW batch \in Workloads, NEW e \in 0 .. NumEpochs,
           NEW d \in [Keys -> Versions]
    PROVE  SerialResult(batch, e, d) \in [Keys -> Versions]
<1>1. ASSUME NEW k \in Keys, Writers(batch, k) # {}
      PROVE  <<e, Max(Writers(batch, k))>> \in Versions
  BY <1>1, WritersAreUpdates, MaxIsLast DEF Versions
<1> QED
  BY <1>1 DEF SerialResult
===============================================================================
