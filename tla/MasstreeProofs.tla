---------------------------- MODULE MasstreeProofs ----------------------------
(***************************************************************************)
(* Proofs about MasstreeIndex, for every set of clients and keys, every    *)
(* leaf width and every set of range queries: NodeMaps are exact, range    *)
(* queries are consistent, and a transaction that validates saw no         *)
(* phantoms.                                                               *)
(***************************************************************************)
EXTENDS MasstreeIndex, FiniteSetTheorems, WellFoundedInduction, TLAPS

-------------------------------------------------------------------------------
(***************************************************************************)
(* The invariant: the tree                                                 *)
(***************************************************************************)
Leaf == [low : Key, keys : SUBSET Key, version : Nat]

\* l is the leaf that is responsible for k.
Responsible(t, l, k) ==
    /\ l \in DOMAIN t
    /\ t[l].low <= k
    /\ \A m \in DOMAIN t : t[m].low <= k => t[m].low <= t[l].low

\* The leaves are numbered in the order of their creation, the first begins at
\* 0, no two begin at the same key, and a key is in the leaf responsible for it.
TreeOK(t) ==
    /\ \E n \in Nat \ {0} : t \in [0 .. n - 1 -> Leaf]
    /\ t[0].low = 0
    /\ \A l, m \in DOMAIN t : t[l].low = t[m].low => l = m
    /\ \A l \in DOMAIN t : \A k \in t[l].keys : Responsible(t, l, k)
-------------------------------------------------------------------------------
(***************************************************************************)
(* The invariant: NodeMaps                                                 *)
(***************************************************************************)
Results == {"OK", "NOT_FOUND", "NOT_INSERTED", "NOT_DELETED"} \cup Bad

ScanRecord ==
    [done : BOOLEAN, call : Scans, at : Key, kv_map : SUBSET Key,
     exception_caught : BOOLEAN, stayed : SUBSET Key, ever : SUBSET Key]

TypeOK ==
    /\ TreeOK(tree)
    /\ \A c \in Clients : nm[c] \in [DOMAIN nm[c] -> Nat] /\ DOMAIN nm[c] \subseteq DOMAIN tree
    /\ nm = [c \in Clients |-> nm[c]]
    /\ res \in [Clients -> Results]
    /\ scan \in [Clients -> ScanRecord \cup {NoScan}]
    /\ ops = [c \in Clients |-> ops[c]]
    /\ seen = [c \in Clients |-> seen[c]]
    /\ disturbed = [c \in Clients |-> disturbed[c]]

\* The version of a leaf only grows, so a noted version is behind the leaf's for
\* good once the leaf was disturbed.
MapExact(c) ==
    /\ disturbed[c] \subseteq DOMAIN nm[c]
    /\ \A l \in DOMAIN nm[c] :
          /\ l \in disturbed[c] => nm[c][l] < tree[l].version
          /\ l \notin disturbed[c] => nm[c][l] = tree[l].version
    /\ ~Alive(c) => disturbed[c] # {}
    /\ scan[c] # NoScan /\ scan[c].exception_caught => disturbed[c] # {}
-------------------------------------------------------------------------------
(***************************************************************************)
(* The invariant: scans                                                    *)
(***************************************************************************)

\* In the direction of q: k is at or after at; j is before k.
AtOrAfter(q, at, k) == IF Backward(q) THEN k <= at ELSE k >= at
Precedes(q, j, k)   == IF Backward(q) THEN j > k ELSE j < k

\* The limit is reached with keys before k.
Full(q, kv, k) == Cardinality(kv) = Limit(q) /\ \A j \in kv : Precedes(q, j, k)

\* What a scan has delivered, and that it has not left out a key of S.
Delivers(q, kv, S) ==
    /\ kv \subseteq RangeOf(q)
    /\ Cardinality(kv) <= Limit(q)
    /\ \A k \in S \cap RangeOf(q) : k \in kv \/ Full(q, kv, k)

\* The keys the scan s has passed
Passed(s) == {k \in Key : ~AtOrAfter(s.call, s.at, k)}

\* The keys of S the scan s has dealt with
Reached(S, s) == IF s.done THEN S ELSE S \cap Passed(s)

Underway(s, t) ==
    /\ AtOrAfter(s.call, StartKey(s.call), s.at)
    /\ s.kv_map \subseteq Passed(s)
    /\ s.stayed \subseteq Present(t) /\ Present(t) \subseteq s.ever

ScanOK(s, t) ==
    /\ s.kv_map \subseteq s.ever
    /\ s.kv_map \subseteq RangeOf(s.call)
    /\ Cardinality(s.kv_map) <= Limit(s.call)
    /\ ~s.done => Underway(s, t)
    /\ ~s.exception_caught => Delivers(s.call, s.kv_map, Reached(s.stayed, s))

ScansOK ==
    \A c \in Clients : scan[c] # NoScan =>
        /\ ScanOK(scan[c], tree)
        /\ scan[c].done /\ scan[c].exception_caught => ~Alive(c)
-------------------------------------------------------------------------------
(***************************************************************************)
(* The invariant: what a transaction has seen                              *)
(***************************************************************************)
FindCall(k) == [api |-> "find", lkey |-> k, rkey |-> k, count |-> -1, nm |-> TRUE]

Queries == Scans \cup {FindCall(k) : k \in Key}

SeenRecord == [call : Queries, keys : SUBSET Key, later : SUBSET Key]

\* The answer kv to q is the answer on the keys S, and depends on leaves of
\* NodeMap m only, for the keys in P.
Covered(q, kv, S, P, m, t) ==
    /\ kv \subseteq S
    /\ Delivers(q, kv, S \cap P)
    /\ \A k \in RangeOf(q) \cap P : LeafOf(t, k) \in DOMAIN m \/ Full(q, kv, k)

SeenOK(c) ==
    /\ seen[c] \subseteq SeenRecord
    /\ disturbed[c] = {} =>
         /\ \A s \in seen[c] : Covered(s.call, s.keys, Present(tree) \ s.later, Key, nm[c], tree)
         /\ ~scan[c].done /\ scan[c].call.nm =>
              Covered(scan[c].call, scan[c].kv_map, Present(tree), Passed(scan[c]), nm[c], tree)
-------------------------------------------------------------------------------
\* The invariant.  Scans build on the NodeMaps and what was seen on both.
Inv ==
    /\ TypeOK
    /\ \A c \in Clients : MapExact(c)
    /\ ScansOK
    /\ \A c \in Clients : SeenOK(c)
-------------------------------------------------------------------------------
(***************************************************************************)
(* Lemmas about the tree                                                   *)
(***************************************************************************)

\* A nonempty set of keys has a smallest and a largest one.
LEMMA KeyBounds ==
    ASSUME NEW S, S \subseteq Key, S # {}
    PROVE  /\ \E n \in S : \A m \in S : n <= m
           /\ \E n \in S : \A m \in S : m <= n
<1>1. ASSUME NEW R \in SUBSET Nat, R # {}
      PROVE  \E n \in R : \A m \in R : n <= m
  <2>1. PICK n \in R : \A m \in R : ~(<<m, n>> \in OpToRel(<, Nat))
    BY <1>1, NatLessThanWellFounded, WFMin
  <2>2. \A m \in R : ~(m < n)
    BY <2>1 DEF OpToRel
  <2> QED
    BY <2>2
<1> DEFINE D == {MaxKey - k : k \in S}
<1>2. S \in SUBSET Nat /\ D \in SUBSET Nat /\ D # {}
  <2>1. MaxKey \in Nat /\ \A k \in S : k \in Nat /\ k <= MaxKey
    BY IndexAssumption DEF Key
  <2> QED
    BY <2>1
<1>3. PICK d \in D : \A e \in D : d <= e
  BY <1>1, <1>2
<1>4. PICK n \in S : d = MaxKey - n
  BY <1>3
<1>5. ASSUME NEW m \in S PROVE m <= n
  <2>1. PICK e \in D : e = MaxKey - m
    OBVIOUS
  <2>2. d <= e
    BY <1>3
  <2>3. m \in Nat /\ n \in Nat /\ MaxKey \in Nat
    BY <1>2, IndexAssumption
  <2> QED
    BY <1>4, <2>1, <2>2, <2>3
<1> QED
  BY <1>1, <1>2, <1>5

\* Each key has one leaf that is responsible for it.
LEMMA LeafOfIs ==
    ASSUME NEW t, TreeOK(t), NEW k \in Key
    PROVE  /\ Responsible(t, LeafOf(t, k), k)
           /\ \A l : Responsible(t, l, k) => l = LeafOf(t, k)
<1> DEFINE L == {m \in DOMAIN t : t[m].low <= k}
           S == {t[m].low : m \in L}
<1>1. \A m \in DOMAIN t : t[m].low \in Key
  BY DEF TreeOK, Leaf
<1>2. 0 \in L
  BY IndexAssumption DEF TreeOK, Key
<1>3. S \subseteq Key /\ S # {}
  BY <1>1, <1>2
<1>4. PICK n \in S : \A m \in S : m <= n
  BY <1>3, KeyBounds
<1>5. PICK l \in L : n = t[l].low
  BY <1>4
<1>6. Responsible(t, l, k)
  BY <1>4, <1>5 DEF Responsible
<1>7. Responsible(t, LeafOf(t, k), k)
  BY <1>6 DEF Responsible, LeafOf
<1>8. ASSUME NEW m, Responsible(t, m, k) PROVE m = LeafOf(t, k)
  <2>1. PICK x : x = LeafOf(t, k)
    OBVIOUS
  <2>2. t[m].low = t[x].low /\ m \in DOMAIN t /\ x \in DOMAIN t
    BY <1>1, <1>7, <1>8, <2>1 DEF Responsible, Key
  <2> QED
    BY <2>1, <2>2 DEF TreeOK
<1> QED
  BY <1>7, <1>8

\* A key is in the tree if it is in its leaf.
LEMMA PresentIs ==
    ASSUME NEW t, TreeOK(t)
    PROVE  /\ Present(t) \subseteq Key
           /\ \A k \in Key : k \in Present(t) <=> k \in t[LeafOf(t, k)].keys
<1>1. Present(t) \subseteq Key
  BY DEF TreeOK, Leaf, Present
<1>2. ASSUME NEW k \in Key PROVE k \in Present(t) <=> k \in t[LeafOf(t, k)].keys
  <2>1. LeafOf(t, k) \in DOMAIN t
    BY LeafOfIs DEF Responsible
  <2>2. ASSUME NEW l \in DOMAIN t, k \in t[l].keys PROVE l = LeafOf(t, k)
    BY <2>2, LeafOfIs DEF TreeOK
  <2> QED
    BY <2>1, <2>2 DEF Present
<1> QED
  BY <1>1, <1>2

\* What a change of the tree may do: leaves stay, a changed leaf has a greater
\* version, and a leaf that did not change stays responsible for its keys.
Grown(t, u) ==
    /\ DOMAIN t \subseteq DOMAIN u
    /\ \A l \in DOMAIN t : u[l] = t[l] \/ u[l].version > t[l].version
    /\ \A k \in Key : u[LeafOf(t, k)] = t[LeafOf(t, k)] => LeafOf(u, k) = LeafOf(t, k)

LEMMA GrownTransitive ==
    ASSUME NEW t, NEW u, NEW v, TreeOK(t), TreeOK(u), TreeOK(v), Grown(t, u), Grown(u, v)
    PROVE  Grown(t, v)
<1>1. /\ \A l \in DOMAIN t : t[l].version \in Nat
      /\ \A l \in DOMAIN u : u[l].version \in Nat
      /\ \A l \in DOMAIN v : v[l].version \in Nat
  BY DEF TreeOK, Leaf
<1>2. DOMAIN t \subseteq DOMAIN u /\ DOMAIN u \subseteq DOMAIN v
  BY DEF Grown
<1>3. ASSUME NEW l \in DOMAIN t
      PROVE  /\ v[l] = t[l] \/ v[l].version > t[l].version
             /\ v[l] = t[l] => u[l] = t[l]
  BY <1>1, <1>2 DEF Grown
<1>4. ASSUME NEW k \in Key, v[LeafOf(t, k)] = t[LeafOf(t, k)]
      PROVE  LeafOf(v, k) = LeafOf(t, k)
  <2>1. PICK l : l = LeafOf(t, k)
    OBVIOUS
  <2>2. l \in DOMAIN t
    BY <2>1, LeafOfIs DEF Responsible
  <2>3. u[l] = t[l] /\ v[l] = u[l]
    BY <1>3, <1>4, <2>1, <2>2
  <2>4. LeafOf(u, k) = l
    BY <2>1, <2>3 DEF Grown
  <2> QED
    BY <2>1, <2>3, <2>4 DEF Grown
<1> QED
  BY <1>2, <1>3, <1>4 DEF Grown


\* finish: the leaf of k gets other keys and a new version.
LEMMA LeafChanged ==
    ASSUME NEW t, TreeOK(t), NEW k \in Key, NEW u, NEW K \in SUBSET Key,
           NEW l, l = LeafOf(t, k),
           DOMAIN u = DOMAIN t, u = [m \in DOMAIN u |-> u[m]],
           \A m \in DOMAIN t : m # l => u[m] = t[m],
           u[l] = [low |-> t[l].low, keys |-> K, version |-> t[l].version + 1],
           \A j \in K : j = k \/ j \in t[l].keys
    PROVE  /\ TreeOK(u) /\ Grown(t, u)
           /\ \A j \in Key : LeafOf(u, j) = LeafOf(t, j)
<1>1. Responsible(t, l, k) /\ l \in DOMAIN t
  BY LeafOfIs DEF Responsible
<1>2. PICK n \in Nat \ {0} : t \in [0 .. n - 1 -> Leaf]
  BY DEF TreeOK
<1>3. t[l].low \in Key /\ t[l].version \in Nat
  BY <1>1, <1>2 DEF Leaf
<1>4. /\ u \in [0 .. n - 1 -> Leaf]
      /\ \A m \in DOMAIN t : u[m].low = t[m].low
  <2>1. u[l] \in Leaf /\ u[l].low = t[l].low
    BY <1>3 DEF Leaf
  <2>2. \A m \in DOMAIN t : u[m] \in Leaf
    BY <1>2, <2>1
  <2> QED
    BY <1>2, <2>1, <2>2
<1>5. u[l].keys = K /\ u[l].version = t[l].version + 1
  OBVIOUS
<1>6. \A m, j : Responsible(u, m, j) <=> Responsible(t, m, j)
  BY <1>4 DEF Responsible
<1>7. TreeOK(u)
  <2>1. u[0].low = 0 /\ 0 \in DOMAIN t
    BY <1>2, <1>4 DEF TreeOK
  <2>2. \A m, p \in DOMAIN u : u[m].low = u[p].low => m = p
    BY <1>4 DEF TreeOK
  <2>3. ASSUME NEW m \in DOMAIN u, NEW j \in u[m].keys PROVE Responsible(u, m, j)
    <3>1. CASE m # l
      BY <3>1, <1>6 DEF TreeOK
    <3>2. CASE m = l
      BY <3>2, <1>1, <1>5, <1>6 DEF TreeOK
    <3> QED
      BY <3>1, <3>2
  <2> QED
    BY <1>4, <2>1, <2>2, <2>3 DEF TreeOK
<1>8. ASSUME NEW j \in Key PROVE LeafOf(u, j) = LeafOf(t, j)
  BY <1>6, <1>7, LeafOfIs
<1>9. Grown(t, u)
  BY <1>3, <1>5, <1>8 DEF Grown
<1> QED
  BY <1>7, <1>8, <1>9

LEMMA PutKeyOK ==
    ASSUME NEW t, TreeOK(t), NEW k \in Key, NEW u, u = PutKey(t, k), NEW l, l = LeafOf(t, k)
    PROVE  /\ TreeOK(u) /\ Grown(t, u) /\ DOMAIN u = DOMAIN t /\ l \in DOMAIN t
           /\ \A j \in Key : LeafOf(u, j) = LeafOf(t, j)
           /\ \A m \in DOMAIN t : m # l => u[m] = t[m]
           /\ u[l].version = t[l].version + 1
           /\ Present(u) = Present(t) \cup {k}
<1>1. l \in DOMAIN t
  BY LeafOfIs DEF Responsible
<1>2. PICK n \in Nat \ {0} : t \in [0 .. n - 1 -> Leaf]
  BY DEF TreeOK
<1>3. PICK r : r = t[l]
  OBVIOUS
<1>4. r \in Leaf
  BY <1>1, <1>2, <1>3
<1>5. u = [t EXCEPT ![l].keys = @ \cup {k}, ![l].version = @ + 1]
  BY DEF PutKey
<1>6. DOMAIN u = DOMAIN t /\ u = [m \in DOMAIN u |-> u[m]]
      /\ \A m \in DOMAIN t : m # l => u[m] = t[m]
  BY <1>5, <1>1, Zenon
<1>7. u[l] = [r EXCEPT !.keys = @ \cup {k}, !.version = @ + 1]
  BY <1>5, <1>1, <1>3, Zenon
<1>8. u[l] = [low |-> r.low, keys |-> r.keys \cup {k}, version |-> r.version + 1]
  BY <1>4, <1>7 DEF Leaf
<1> DEFINE K == r.keys \cup {k}
<1>9. /\ K \in SUBSET Key
      /\ u[l] = [low |-> t[l].low, keys |-> K, version |-> t[l].version + 1]
      /\ \A j \in K : j = k \/ j \in t[l].keys
  BY <1>3, <1>4, <1>8 DEF Leaf
<1> HIDE DEF K
<1>10. TreeOK(u) /\ Grown(t, u) /\ \A j \in Key : LeafOf(u, j) = LeafOf(t, j)
  BY <1>6, <1>9, LeafChanged
<1>11. u[l].keys = t[l].keys \cup {k} /\ u[l].version = t[l].version + 1
  BY <1>3, <1>8
<1>12. Present(u) = Present(t) \cup {k}
  BY <1>1, <1>6, <1>11 DEF Present
<1> QED
  BY <1>1, <1>6, <1>10, <1>11, <1>12

LEMMA DropKeyOK ==
    ASSUME NEW t, TreeOK(t), NEW k \in Key, NEW u, u = DropKey(t, k), NEW l, l = LeafOf(t, k)
    PROVE  TreeOK(u) /\ Grown(t, u)
<1>1. l \in DOMAIN t
  BY LeafOfIs DEF Responsible
<1>2. PICK n \in Nat \ {0} : t \in [0 .. n - 1 -> Leaf]
  BY DEF TreeOK
<1>3. PICK r : r = t[l]
  OBVIOUS
<1>4. r \in Leaf
  BY <1>1, <1>2, <1>3
<1>5. u = [t EXCEPT ![l].keys = @ \ {k}, ![l].version = @ + 1]
  BY DEF DropKey
<1>6. DOMAIN u = DOMAIN t /\ u = [m \in DOMAIN u |-> u[m]]
      /\ \A m \in DOMAIN t : m # l => u[m] = t[m]
  BY <1>5, <1>1, Zenon
<1>7. u[l] = [r EXCEPT !.keys = @ \ {k}, !.version = @ + 1]
  BY <1>5, <1>1, <1>3, Zenon
<1>8. u[l] = [low |-> r.low, keys |-> r.keys \ {k}, version |-> r.version + 1]
  BY <1>4, <1>7 DEF Leaf
<1> DEFINE K == r.keys \ {k}
<1>9. /\ K \in SUBSET Key
      /\ u[l] = [low |-> t[l].low, keys |-> K, version |-> t[l].version + 1]
      /\ \A j \in K : j = k \/ j \in t[l].keys
  BY <1>3, <1>4, <1>8 DEF Leaf
<1> HIDE DEF K
<1> QED
  BY <1>6, <1>9, LeafChanged

\* A split leaves the keys where they are found: those from b on in the new
\* leaf.
LEMMA SplitOK ==
    ASSUME NEW t, TreeOK(t), NEW l \in DOMAIN t, NEW b \in t[l].keys \ {Min(t[l].keys)},
           NEW u, u = Split(t, l, b)
    PROVE  TreeOK(u) /\ Grown(t, u) /\ Present(u) = Present(t)
<1>1. PICK n \in Nat \ {0} : t \in [0 .. n - 1 -> Leaf]
  BY DEF TreeOK
<1>2. Cardinality(DOMAIN t) = n
  BY <1>1, FS_Interval
<1>3. n \notin DOMAIN t /\ DOMAIN t \cup {n} = 0 .. n /\ 0 \in DOMAIN t
  BY <1>1
<1>4. /\ DOMAIN u = DOMAIN t \cup {n} /\ u = [m \in DOMAIN u |-> u[m]]
      /\ u[l] = [low |-> t[l].low, keys |-> {k \in t[l].keys : k < b},
                 version |-> t[l].version + 1]
      /\ u[n] = [low |-> b, keys |-> {k \in t[l].keys : k >= b}, version |-> 0]
      /\ \A m \in DOMAIN t : m # l => u[m] = t[m]
  BY <1>2, <1>3 DEF Split
<1>5. /\ \A m \in DOMAIN t : t[m] \in Leaf
      /\ \A m \in DOMAIN t : t[m].low \in Key /\ t[m].keys \subseteq Key /\ t[m].version \in Nat
  BY <1>1 DEF Leaf
<1>6. b \in Key /\ t[l].low < b
  <2>1. t[l].keys \subseteq Key /\ t[l].keys # {}
    BY <1>5
  <2>2. PICK x : x = Min(t[l].keys)
    OBVIOUS
  <2>3. x \in t[l].keys /\ \A y \in t[l].keys : x <= y
    BY <2>1, <2>2, KeyBounds DEF Min
  <2>4. t[l].low <= x
    BY <2>3 DEF TreeOK, Responsible
  <2> QED
    BY <1>5, <2>2, <2>3, <2>4 DEF Key
<1>7. /\ u[l].low = t[l].low /\ u[n].low = b
      /\ \A m \in DOMAIN t : u[m].low = t[m].low
      /\ u[l].keys = {k \in t[l].keys : k < b} /\ u[n].keys = {k \in t[l].keys : k >= b}
      /\ u[l].version = t[l].version + 1
  BY <1>4
<1>8. Responsible(t, l, b)
  BY DEF TreeOK
<1>9. \A m \in DOMAIN t : t[m].low # b /\ (t[m].low <= b => t[m].low <= t[l].low)
  BY <1>5, <1>6, <1>8 DEF Responsible, Key
<1>10. ASSUME NEW j \in Key, NEW m \in DOMAIN t, Responsible(t, m, j)
       PROVE  Responsible(u, IF m = l /\ j >= b THEN n ELSE m, j)
  <2>1. \A p \in DOMAIN t : t[p].low <= j => t[p].low <= t[m].low
    BY <1>10 DEF Responsible
  <2>2. CASE m # l
    <3>1. t[m].low # t[l].low
      BY <2>2 DEF TreeOK
    <3>2. b <= j => b <= t[m].low
      BY <1>5, <1>6, <1>9, <2>1, <3>1 DEF Key
    <3> QED
      BY <2>2, <2>1, <3>2, <1>3, <1>4, <1>7, <1>10 DEF Responsible
  <2>3. CASE m = l /\ j >= b
    <3>1. \A p \in DOMAIN t : t[p].low <= j => t[p].low <= b
      BY <1>5, <1>6, <2>1, <2>3 DEF Key
    <3> QED
      BY <2>3, <3>1, <1>3, <1>4, <1>6, <1>7 DEF Responsible, Key
  <2>4. CASE m = l /\ ~(j >= b)
    BY <2>4, <2>1, <1>3, <1>4, <1>6, <1>7, <1>10 DEF Responsible, Key
  <2> QED
    BY <2>2, <2>3, <2>4
<1>11. TreeOK(u)
  <2>1. u[l] \in Leaf /\ u[n] \in Leaf
    BY <1>4, <1>5, <1>6 DEF Leaf
  <2>2. u \in [0 .. (n + 1) - 1 -> Leaf] /\ n + 1 \in Nat \ {0}
    <3>1. \A m \in DOMAIN u : u[m] \in Leaf
      BY <1>4, <1>5, <2>1
    <3> QED
      BY <1>3, <1>4, <3>1
  <2>3. u[0].low = 0
    BY <1>3, <1>7 DEF TreeOK
  <2>4. \A m, p \in DOMAIN u : u[m].low = u[p].low => m = p
    BY <1>4, <1>7, <1>9 DEF TreeOK
  <2>5. ASSUME NEW m \in DOMAIN u, NEW j \in u[m].keys PROVE Responsible(u, m, j)
    <3>1. CASE m # n /\ m # l
      BY <3>1, <1>4, <1>5, <1>10 DEF TreeOK
    <3>2. CASE m = l
      <4>1. j \in t[l].keys /\ j < b /\ j \in Key
        BY <3>2, <1>5, <1>7
      <4>2. ~(j >= b)
        BY <4>1, <1>6 DEF Key
      <4> QED
        BY <3>2, <4>1, <4>2, <1>10 DEF TreeOK
    <3>3. CASE m = n
      <4>1. j \in t[l].keys /\ j >= b /\ j \in Key
        BY <3>3, <1>5, <1>7
      <4> QED
        BY <3>3, <4>1, <1>10 DEF TreeOK
    <3> QED
      BY <3>1, <3>2, <3>3
  <2> QED
    BY <2>2, <2>3, <2>4, <2>5 DEF TreeOK
<1>12. Grown(t, u)
  <2>1. \A m \in DOMAIN t : u[m] = t[m] \/ u[m].version > t[m].version
    BY <1>4, <1>5, <1>7
  <2>2. ASSUME NEW k \in Key, u[LeafOf(t, k)] = t[LeafOf(t, k)]
        PROVE  LeafOf(u, k) = LeafOf(t, k)
    <3>1. PICK m : m = LeafOf(t, k)
      OBVIOUS
    <3>2. Responsible(t, m, k) /\ m \in DOMAIN t
      BY <3>1, LeafOfIs DEF Responsible
    <3>3. m # l
      BY <2>2, <3>1, <3>2, <1>5, <1>7
    <3>4. Responsible(u, m, k)
      BY <3>2, <3>3, <1>10
    <3> QED
      BY <3>1, <3>4, <1>11, LeafOfIs
  <2> QED
    BY <1>4, <2>1, <2>2 DEF Grown
<1>13. Present(u) = Present(t)
  <2>1. u[l].keys \cup u[n].keys = t[l].keys
    <3>1. \A k \in t[l].keys : k < b \/ k >= b
      BY <1>5, <1>6 DEF Key
    <3> QED
      BY <3>1, <1>7
  <2>2. \A k : k \in Present(u) <=> \E m \in DOMAIN u : k \in u[m].keys
    BY DEF Present
  <2>3. \A k : k \in Present(t) <=> \E m \in DOMAIN t : k \in t[m].keys
    BY DEF Present
  <2>4. ASSUME NEW k \in Present(u) PROVE k \in Present(t)
    <3>1. PICK m \in DOMAIN u : k \in u[m].keys
      BY <2>2, <2>4
    <3>2. CASE m = l \/ m = n
      BY <3>1, <3>2, <2>1, <2>3
    <3>3. CASE m # l /\ m # n
      BY <3>1, <3>3, <1>4, <2>3
    <3> QED
      BY <3>2, <3>3
  <2>5. ASSUME NEW k \in Present(t) PROVE k \in Present(u)
    <3>1. PICK m \in DOMAIN t : k \in t[m].keys
      BY <2>3, <2>5
    <3>2. CASE m = l
      BY <3>1, <3>2, <1>4, <2>1, <2>2
    <3>3. CASE m # l
      BY <3>1, <3>3, <1>4, <2>2
    <3> QED
      BY <3>2, <3>3
  <2> QED
    BY <2>4, <2>5
<1> QED
  BY <1>11, <1>12, <1>13

LEMMA WithRoomOK ==
    ASSUME NEW t, TreeOK(t), NEW k \in Key, NEW u \in WithRoom(t, k)
    PROVE  TreeOK(u) /\ Grown(t, u) /\ Present(u) = Present(t)
<1>1. PICK l : l = LeafOf(t, k)
  OBVIOUS
<1>2. l \in DOMAIN t
  BY <1>1, LeafOfIs DEF Responsible
<1>3. \/ u = t
      \/ \E b \in t[l].keys \ {Min(t[l].keys)} : u = Split(t, l, b)
  BY <1>1 DEF WithRoom
<1>4. Grown(t, t)
  BY DEF Grown
<1> QED
  BY <1>2, <1>3, <1>4, SplitOK

\* What an insert or a remove does to the tree
LEMMA InsertOK ==
    ASSUME NEW t, TreeOK(t), NEW k \in Key, NEW u \in WithRoom(t, k), NEW v, v = PutKey(u, k)
    PROVE  TreeOK(v) /\ Grown(t, v) /\ Present(v) = Present(t) \cup {k}
<1>1. TreeOK(u) /\ Grown(t, u) /\ Present(u) = Present(t)
  BY WithRoomOK
<1>2. TreeOK(v) /\ Grown(u, v) /\ Present(v) = Present(u) \cup {k}
  BY <1>1, PutKeyOK
<1> QED
  BY <1>1, <1>2, GrownTransitive
-------------------------------------------------------------------------------
(***************************************************************************)
(* NodeMaps are exact                                                      *)
(***************************************************************************)
MapInv == TypeOK /\ \A c \in Clients : MapExact(c)

\* A scan that is not done is described by a full record.
LEMMA ScanTyped ==
    ASSUME TypeOK, NEW c \in Clients
    PROVE  /\ scan[c] \in ScanRecord \/ scan[c] = NoScan
           /\ scan[c].done \in BOOLEAN
           /\ scan[c] = NoScan => scan[c].done
           /\ ~scan[c].done => scan[c] \in ScanRecord
           /\ scan[c] # NoScan => scan[c] \in ScanRecord
<1>1. scan[c] \in ScanRecord \/ scan[c] = NoScan
  BY DEF TypeOK
<1>2. NoScan.done = TRUE
  BY DEF NoScan
<1>3. scan[c] \in ScanRecord => scan[c].done \in BOOLEAN
  BY DEF ScanRecord
<1> QED
  BY <1>1, <1>2, <1>3

\* The effect of a change of the tree on the scans of the other clients
LEMMA ObserveScans ==
    ASSUME TypeOK, NEW c \in Clients, NEW t, TreeOK(t), NEW mine, Observe(c, t, mine)
    PROVE  /\ scan' \in [Clients -> ScanRecord \cup {NoScan}]
           /\ scan'[c] = NoScan
           /\ \A d \in Clients : d # c /\ scan[d].done => scan'[d] = scan[d]
           /\ \A d \in Clients : d # c /\ ~scan[d].done =>
                /\ scan[d] \in ScanRecord /\ scan'[d] \in ScanRecord
                /\ ~scan'[d].done
                /\ scan'[d].call = scan[d].call /\ scan'[d].at = scan[d].at
                /\ scan'[d].kv_map = scan[d].kv_map
                /\ scan'[d].exception_caught = scan[d].exception_caught
                /\ scan'[d].stayed = scan[d].stayed \cap Present(t)
                /\ scan'[d].ever = scan[d].ever \cup Present(t)
<1>1. scan' = [d \in Clients |-> scan'[d]] /\ scan'[c] = NoScan
  BY DEF Observe
<1>2. ASSUME NEW d \in Clients, d # c, scan[d].done PROVE scan'[d] = scan[d]
  BY <1>2 DEF Observe
<1>3. ASSUME NEW d \in Clients, d # c, ~scan[d].done
      PROVE  /\ scan[d] \in ScanRecord /\ scan'[d] \in ScanRecord
             /\ ~scan'[d].done
             /\ scan'[d].call = scan[d].call /\ scan'[d].at = scan[d].at
             /\ scan'[d].kv_map = scan[d].kv_map
             /\ scan'[d].exception_caught = scan[d].exception_caught
             /\ scan'[d].stayed = scan[d].stayed \cap Present(t)
             /\ scan'[d].ever = scan[d].ever \cup Present(t)
  <2>1. PICK s : s = scan[d]
    OBVIOUS
  <2>2. s \in ScanRecord /\ ~s.done
    BY <1>3, <2>1, ScanTyped
  <2>3. scan'[d] = [s EXCEPT !.stayed = @ \cap Present(t), !.ever = @ \cup Present(t)]
    BY <1>3, <2>1, Zenon DEF Observe
  <2>4. scan'[d] = [done |-> s.done, call |-> s.call, at |-> s.at, kv_map |-> s.kv_map,
                    exception_caught |-> s.exception_caught,
                    stayed |-> s.stayed \cap Present(t), ever |-> s.ever \cup Present(t)]
    BY <2>2, <2>3 DEF ScanRecord
  <2>5. Present(t) \subseteq Key
    BY PresentIs
  <2> QED
    BY <2>1, <2>2, <2>4, <2>5 DEF ScanRecord
<1>4. ASSUME NEW d \in Clients PROVE scan'[d] \in ScanRecord \cup {NoScan}
  BY <1>1, <1>2, <1>3, ScanTyped
<1> QED
  BY <1>1, <1>2, <1>3, <1>4

\* The NodeMap of a client that does not take part in the step
LEMMA MapExactKept ==
    ASSUME TypeOK, TypeOK', Grown(tree, tree'), NEW d \in Clients, MapExact(d),
           nm'[d] = nm[d],
           disturbed'[d] = disturbed[d] \cup {l \in DOMAIN nm[d] : tree'[l] # tree[l]},
           Alive(d)' \/ Alive(d)' = Alive(d) \/ disturbed'[d] # {},
           \/ scan'[d] = NoScan
           \/ scan'[d].done /\ scan'[d] = scan[d]
           \/ /\ scan[d] # NoScan
              /\ scan'[d].exception_caught = scan[d].exception_caught
    PROVE  MapExact(d)'
<1>1. disturbed[d] \subseteq disturbed'[d] /\ disturbed'[d] \subseteq DOMAIN nm'[d]
  BY DEF MapExact
<1>2. ASSUME NEW l \in DOMAIN nm'[d]
      PROVE  /\ l \in disturbed'[d] => nm'[d][l] < tree'[l].version
             /\ l \notin disturbed'[d] => nm'[d][l] = tree'[l].version
  <2>1. l \in DOMAIN tree /\ l \in DOMAIN tree' /\ nm[d][l] \in Nat
    BY DEF TypeOK, Grown
  <2>2. tree[l].version \in Nat /\ tree'[l].version \in Nat
    BY <2>1 DEF TypeOK, TreeOK, Leaf
  <2>3. tree'[l] = tree[l] \/ tree'[l].version > tree[l].version
    BY <2>1 DEF Grown
  <2>4. nm[d][l] <= tree[l].version
    BY <2>1, <2>2 DEF MapExact
  <2>5. CASE tree'[l] = tree[l]
    BY <2>5 DEF MapExact
  <2>6. CASE tree'[l] # tree[l]
    BY <2>1, <2>2, <2>3, <2>4, <2>6
  <2> QED
    BY <2>5, <2>6
<1>3. ~Alive(d)' => disturbed'[d] # {}
  BY <1>1 DEF MapExact
<1>4. scan'[d] # NoScan /\ scan'[d].exception_caught => disturbed'[d] # {}
  BY <1>1 DEF MapExact
<1> QED
  BY <1>1, <1>2, <1>3, <1>4 DEF MapExact

LEMMA ReturnTyped ==
    ASSUME TypeOK, NEW c \in Clients, NEW r \in Results, Return(c, r)
    PROVE  /\ res' \in [Clients -> Results] /\ ops' = [d \in Clients |-> ops'[d]]
           /\ res'[c] = r /\ \A d \in Clients : d # c => res'[d] = res[d]
<1>1. res \in [Clients -> Results] /\ ops = [d \in Clients |-> ops[d]]
  BY DEF TypeOK
<1>2. res' = [res EXCEPT ![c] = r] /\ ops' = [ops EXCEPT ![c] = @ + 1]
  BY DEF Return
<1>3. res' \in [Clients -> Results] /\ res'[c] = r /\ \A d \in Clients : d # c => res'[d] = res[d]
  BY <1>1, <1>2
<1>4. ops' = [d \in Clients |-> ops'[d]]
  BY <1>1, <1>2, Zenon
<1> QED
  BY <1>3, <1>4

\* m is a NodeMap on which the leaves in F are out of date and no others.
IsExact(m, F) ==
    /\ DOMAIN m \subseteq DOMAIN tree /\ m \in [DOMAIN m -> Nat]
    /\ \A x \in DOMAIN m :
          /\ x \in F => m[x] < tree[x].version
          /\ x \notin F => m[x] = tree[x].version

\* Recording a leaf with its present version keeps a NodeMap exact.
LEMMA EmplaceExact ==
    ASSUME MapInv, NEW c \in Clients, NEW l \in DOMAIN tree, NEW m,
           m = Emplace(nm[c], l, tree[l].version)
    PROVE  DOMAIN m = DOMAIN nm[c] \cup {l} /\ IsExact(m, disturbed[c])
<1>1. /\ nm[c] \in [DOMAIN nm[c] -> Nat] /\ DOMAIN nm[c] \subseteq DOMAIN tree
      /\ tree[l].version \in Nat
  BY DEF MapInv, TypeOK, TreeOK, Leaf
<1>2. /\ DOMAIN m = DOMAIN nm[c] \cup {l}
      /\ m = [x \in DOMAIN m |-> m[x]]
      /\ \A x \in DOMAIN m : m[x] = IF x \in DOMAIN nm[c] THEN nm[c][x] ELSE tree[l].version
  BY DEF Emplace
<1>3. \A x \in DOMAIN m : m[x] \in Nat
  BY <1>1, <1>2
<1>4. MapExact(c)
  BY DEF MapInv
<1>5. ASSUME NEW x \in DOMAIN m
      PROVE  /\ x \in disturbed[c] => m[x] < tree[x].version
             /\ x \notin disturbed[c] => m[x] = tree[x].version
  <2>1. CASE x \in DOMAIN nm[c]
    BY <2>1, <1>2, <1>4 DEF MapExact
  <2>2. CASE x \notin DOMAIN nm[c]
    BY <2>2, <1>2, <1>4 DEF MapExact
  <2> QED
    BY <2>1, <2>2
<1>6. m \in [DOMAIN m -> Nat] /\ DOMAIN m \subseteq DOMAIN tree
  BY <1>1, <1>2, <1>3
<1> QED
  BY <1>2, <1>5, <1>6 DEF IsExact

\* A call that leaves the tree alone, with or without a leaf recorded
LEMMA CallMapInv ==
    ASSUME MapInv, NEW c \in Clients, NEW r \in Results \ Bad, Return(c, r),
           UNCHANGED <<tree, disturbed>>,
           NEW s, scan' = [scan EXCEPT ![c] = s],
           s = NoScan \/ (s \in ScanRecord /\ ~s.exception_caught),
           \/ UNCHANGED nm
           \/ \E k \in Key : NoteNode(c, get_value_and_get_nodeinfo_on_failure(k)),
           seen' = [d \in Clients |-> seen'[d]]
    PROVE  MapInv'
<1>1. TypeOK /\ \A d \in Clients : MapExact(d)
  BY DEF MapInv
<1>2. /\ res' \in [Clients -> Results] /\ ops' = [d \in Clients |-> ops'[d]]
      /\ res'[c] = r /\ \A d \in Clients : d # c => res'[d] = res[d]
  BY <1>1, ReturnTyped
<1>3. /\ scan' \in [Clients -> ScanRecord \cup {NoScan}]
      /\ scan'[c] = s /\ \A d \in Clients : d # c => scan'[d] = scan[d]
  BY <1>1 DEF TypeOK
<1>4. /\ nm' = [d \in Clients |-> nm'[d]]
      /\ \A d \in Clients : d # c => nm'[d] = nm[d]
      /\ IsExact(nm'[c], disturbed[c]) /\ DOMAIN nm[c] \subseteq DOMAIN nm'[c]
  <2>0. nm = [d \in Clients |-> nm[d]]
    BY <1>1 DEF TypeOK
  <2>1. CASE UNCHANGED nm
    BY <2>1, <1>1 DEF TypeOK, MapExact, IsExact
  <2>2. CASE \E k \in Key : NoteNode(c, get_value_and_get_nodeinfo_on_failure(k))
    <3>0. PICK k \in Key : NoteNode(c, get_value_and_get_nodeinfo_on_failure(k))
      BY <2>2
    <3>1. PICK l : l = LeafOf(tree, k)
      OBVIOUS
    <3>2. l \in DOMAIN tree
      BY <3>1, <1>1, LeafOfIs DEF Responsible, TypeOK
    <3>3. PICK m : m = Emplace(nm[c], l, tree[l].version)
      OBVIOUS
    <3>4. nm' = [nm EXCEPT ![c] = m]
      BY <3>0, <3>1, <3>3 DEF NoteNode, get_value_and_get_nodeinfo_on_failure
    <3>5. nm' = [d \in Clients |-> nm'[d]] /\ nm'[c] = m
          /\ \A d \in Clients : d # c => nm'[d] = nm[d]
      BY <2>0, <3>4, Zenon
    <3>6. DOMAIN m = DOMAIN nm[c] \cup {l} /\ IsExact(m, disturbed[c])
      BY <3>2, <3>3, EmplaceExact
    <3> QED
      BY <3>5, <3>6
  <2> QED
    BY <2>1, <2>2
<1>5. TypeOK'
  <2>1. ASSUME NEW d \in Clients
        PROVE  nm'[d] \in [DOMAIN nm'[d] -> Nat] /\ DOMAIN nm'[d] \subseteq DOMAIN tree'
    BY <1>1, <1>4 DEF TypeOK, IsExact
  <2> QED
    BY <1>1, <1>2, <1>3, <1>4, <2>1 DEF TypeOK
<1>6. ASSUME NEW d \in Clients, d # c PROVE MapExact(d)'
  BY <1>1, <1>2, <1>3, <1>4, <1>6 DEF MapExact, Alive
<1>7. MapExact(c)'
  <2>1. s = NoScan \/ ~s.exception_caught
    OBVIOUS
  <2>2. Alive(c)'
    BY <1>2 DEF Alive
  <2>3. disturbed'[c] \subseteq DOMAIN nm'[c]
    BY <1>1, <1>4 DEF MapExact
  <2> QED
    BY <1>3, <1>4, <2>1, <2>2, <2>3 DEF MapExact, IsExact
<1> QED
  BY <1>5, <1>6, <1>7 DEF MapInv

\* An insert without NodeMap, or a remove, that changes the tree
LEMMA ChangeMapInv ==
    ASSUME MapInv, NEW c \in Clients, NEW t, TreeOK(t), Grown(tree, t), tree' = t,
           Observe(c, t, {}), Return(c, "OK"), UNCHANGED <<nm, seen>>
    PROVE  MapInv'
<1>1. TypeOK /\ \A d \in Clients : MapExact(d)
  BY DEF MapInv
<1>2. /\ res' \in [Clients -> Results] /\ ops' = [d \in Clients |-> ops'[d]]
      /\ res'[c] = "OK" /\ \A d \in Clients : d # c => res'[d] = res[d]
  <2>1. "OK" \in Results
    BY DEF Results
  <2> QED
    BY <1>1, <2>1, ReturnTyped
<1>3. /\ disturbed' = [d \in Clients |-> disturbed'[d]]
      /\ \A d \in Clients :
           disturbed'[d] = disturbed[d] \cup {l \in DOMAIN nm[d] : tree'[l] # tree[l]}
  BY DEF Observe
<1>4. scan' \in [Clients -> ScanRecord \cup {NoScan}]
  BY <1>1, ObserveScans
<1>5. TypeOK'
  <2>1. ASSUME NEW d \in Clients
        PROVE  nm'[d] \in [DOMAIN nm'[d] -> Nat] /\ DOMAIN nm'[d] \subseteq DOMAIN tree'
    BY <1>1 DEF TypeOK, Grown
  <2> QED
    BY <1>1, <1>2, <1>3, <1>4, <2>1 DEF TypeOK
<1>6. ASSUME NEW d \in Clients PROVE MapExact(d)'
  <2>1. Alive(d)' \/ Alive(d)' = Alive(d)
    BY <1>2 DEF Alive, Bad
  <2>2. \/ scan'[d] = NoScan
        \/ scan'[d].done /\ scan'[d] = scan[d]
        \/ /\ scan[d] # NoScan
           /\ scan'[d].exception_caught = scan[d].exception_caught
    BY <1>1, ObserveScans, ScanTyped
  <2> QED
    BY <1>1, <1>3, <1>5, <2>1, <2>2, MapExactKept
<1> QED
  BY <1>5, <1>6 DEF MapInv

\* The leaf an insert put its key into, if it was not split for that
Whole(u, l) == {x \in {l} : l \in DOMAIN tree /\ u[l] = tree[l]}

\* The three ways an insert with a NodeMap ends: the leaf is not in the NodeMap,
\* it is there with another version, it is there with its version.
Inserted(c, k, u, v, l) ==
    /\ v = PutKey(u, k) /\ l = LeafOf(u, k) /\ tree' = v
    /\ Observe(c, v, Whole(u, l))
    /\ \/ /\ l \notin DOMAIN nm[c] /\ nm' = nm
          /\ Return(c, "OK")
       \/ /\ l \in DOMAIN nm[c] /\ nm[c][l] # u[l].version /\ nm' = nm
          /\ Return(c, "BAD_INSERT")
       \/ /\ l \in DOMAIN nm[c] /\ nm[c][l] = u[l].version
          /\ nm' = [nm EXCEPT ![c] = [nm[c] EXCEPT ![l] = v[l].version]]
          /\ Return(c, "OK")

LEMMA InsertCases ==
    ASSUME TypeOK, NEW c \in Clients, NEW k \in Key, insert_nm(c, k)
    PROVE  \/ k \in Present(tree) /\ NothingToDo(c, "NOT_INSERTED")
           \/ /\ k \notin Present(tree)
              /\ \E u \in WithRoom(tree, k) : \E v, l : Inserted(c, k, u, v, l)
              /\ seen' = [seen EXCEPT ![c] =
                            {[s EXCEPT !.later = @ \cup {k}] : s \in seen[c]}]
<1>1. CASE k \in Present(tree) /\ NothingToDo(c, "NOT_INSERTED")
  BY <1>1
<1>2. ASSUME k \notin Present(tree),
             NEW info \in insert_value_and_get_nodeinfo_on_success(k),
             NEW after, after = NodeMapAfterInsert(nm[c], info),
             tree' = info.tree, nm' = [nm EXCEPT ![c] = after.nm],
             Return(c, after.result),
             Observe(c, info.tree, IF info.split THEN {} ELSE {info.node})
      PROVE  \E u \in WithRoom(tree, k) : \E v, l : Inserted(c, k, u, v, l)
  <2>1. PICK u \in WithRoom(tree, k) :
           info = [tree |-> PutKey(u, k), node |-> LeafOf(u, k),
                   old_version |-> u[LeafOf(u, k)].version,
                   new_version |-> PutKey(u, k)[LeafOf(u, k)].version,
                   split |-> \/ LeafOf(u, k) \notin DOMAIN tree
                             \/ u[LeafOf(u, k)] # tree[LeafOf(u, k)]]
    BY DEF insert_value_and_get_nodeinfo_on_success
  <2>2. PICK v : v = PutKey(u, k)
    OBVIOUS
  <2>3. PICK l : l = LeafOf(u, k)
    OBVIOUS
  <2>4. /\ info.tree = v /\ info.node = l /\ info.old_version = u[l].version
        /\ info.new_version = v[l].version
        /\ info.split = (l \notin DOMAIN tree \/ u[l] # tree[l])
    BY <2>1, <2>2, <2>3
  <2>o. Observe(c, v, Whole(u, l))
    <3>1. (IF info.split THEN {} ELSE {info.node}) = Whole(u, l)
      BY <2>4 DEF Whole
    <3> QED
      BY <1>2, <2>4, <3>1
  <2>5. [nm EXCEPT ![c] = nm[c]] = nm
    BY DEF TypeOK
  <2>6. CASE l \notin DOMAIN nm[c]
    <3>1. after = [result |-> "OK", nm |-> nm[c]]
      BY <1>2, <2>4, <2>6 DEF NodeMapAfterInsert
    <3>2. after.result = "OK" /\ after.nm = nm[c]
      BY <3>1
    <3> QED
      BY <1>2, <2>2, <2>3, <2>4, <2>o, <2>5, <2>6, <3>2 DEF Inserted
  <2>7. CASE l \in DOMAIN nm[c] /\ nm[c][l] # u[l].version
    <3>1. after = [result |-> "BAD_INSERT", nm |-> nm[c]]
      BY <1>2, <2>4, <2>7 DEF NodeMapAfterInsert
    <3>2. after.result = "BAD_INSERT" /\ after.nm = nm[c] /\ after.result # "OK"
      BY <3>1
    <3> QED
      BY <1>2, <2>2, <2>3, <2>4, <2>o, <2>5, <2>7, <3>2 DEF Inserted
  <2>8. CASE l \in DOMAIN nm[c] /\ nm[c][l] = u[l].version
    <3>1. after = [result |-> "OK", nm |-> [nm[c] EXCEPT ![l] = v[l].version]]
      BY <1>2, <2>4, <2>8 DEF NodeMapAfterInsert
    <3>2. after.result = "OK" /\ after.nm = [nm[c] EXCEPT ![l] = v[l].version]
      BY <3>1
    <3>3. /\ nm' = [nm EXCEPT ![c] = [nm[c] EXCEPT ![l] = v[l].version]]
          /\ Return(c, "OK")
      <4>1. nm' = [nm EXCEPT ![c] = after.nm] /\ Return(c, after.result)
        BY <1>2
      <4> QED
        BY <4>1, <3>2, Zenon
    <3>4. v = PutKey(u, k) /\ l = LeafOf(u, k) /\ tree' = v
      BY <1>2, <2>2, <2>3, <2>4
    <3>5. Inserted(c, k, u, v, l)
      BY <2>8, <2>o, <3>3, <3>4, Zenon DEF Inserted
    <3> QED
      BY <3>5
  <2> QED
    BY <2>6, <2>7, <2>8
<1> QED
  BY <1>1, <1>2, Zenon DEF insert_nm

LEMMA InsertedMapInv ==
    ASSUME MapInv, NEW c \in Clients, NEW k \in Key, NEW u \in WithRoom(tree, k),
           NEW v, NEW l, Inserted(c, k, u, v, l), seen' = [d \in Clients |-> seen'[d]]
    PROVE  MapInv'
<1>1. TypeOK /\ \A d \in Clients : MapExact(d)
  BY DEF MapInv
<1>2. v = PutKey(u, k) /\ l = LeafOf(u, k) /\ tree' = v
  BY DEF Inserted
<1>3. TreeOK(tree) /\ TreeOK(u) /\ Grown(tree, u)
  BY <1>1, WithRoomOK DEF TypeOK
<1>4. TreeOK(v) /\ Grown(tree, v)
  BY <1>2, <1>3, InsertOK
<1>5. DOMAIN v = DOMAIN u /\ l \in DOMAIN u /\ v[l].version = u[l].version + 1
  BY <1>2, <1>3, PutKeyOK
<1>6. /\ \A x \in DOMAIN tree : tree[x].version \in Nat
      /\ \A x \in DOMAIN u : u[x].version \in Nat
      /\ DOMAIN tree \subseteq DOMAIN u
      /\ \A x \in DOMAIN tree : u[x].version >= tree[x].version
  BY <1>3 DEF TreeOK, Leaf, Grown
<1>7. l \in DOMAIN nm[c] => l \in DOMAIN tree /\ v[l] # tree[l] /\ nm[c][l] \in Nat
  BY <1>1, <1>5, <1>6 DEF TypeOK
<1>8. PICK r \in {"OK", "BAD_INSERT"} : Return(c, r)
  BY DEF Inserted
<1>9. /\ res' \in [Clients -> Results] /\ ops' = [d \in Clients |-> ops'[d]]
      /\ res'[c] = r /\ \A d \in Clients : d # c => res'[d] = res[d]
  <2>1. r \in Results
    BY DEF Results, Bad
  <2> QED
    BY <1>1, <1>8, <2>1, ReturnTyped
<1>10. PICK mine : Observe(c, v, mine) /\ mine = Whole(u, l)
  BY DEF Inserted
<1>11. /\ disturbed' = [d \in Clients |-> disturbed'[d]]
       /\ \A d \in Clients : d # c =>
            disturbed'[d] = disturbed[d] \cup {x \in DOMAIN nm[d] : tree'[x] # tree[x]}
       /\ disturbed'[c] = disturbed[c] \cup {x \in DOMAIN nm[c] \ mine : tree'[x] # tree[x]}
  BY <1>2, <1>10 DEF Observe
<1>12. /\ scan' \in [Clients -> ScanRecord \cup {NoScan}]
       /\ scan'[c] = NoScan
  BY <1>1, <1>4, <1>10, ObserveScans
<1>13. /\ nm = [d \in Clients |-> nm[d]] /\ nm[c] \in [DOMAIN nm[c] -> Nat]
       /\ DOMAIN nm[c] \subseteq DOMAIN tree
  BY <1>1 DEF TypeOK
<1>14. /\ nm' = [d \in Clients |-> nm'[d]]
       /\ \A d \in Clients : d # c => nm'[d] = nm[d]
       /\ DOMAIN nm'[c] = DOMAIN nm[c] /\ nm'[c] \in [DOMAIN nm'[c] -> Nat]
  <2>1. CASE nm' = nm
    BY <2>1, <1>13
  <2>2. CASE l \in DOMAIN nm[c] /\ nm' = [nm EXCEPT ![c] = [nm[c] EXCEPT ![l] = v[l].version]]
    <3>1. PICK m : m = [nm[c] EXCEPT ![l] = v[l].version]
      OBVIOUS
    <3>2. v[l].version \in Nat
      BY <1>5, <1>6
    <3>3. DOMAIN m = DOMAIN nm[c] /\ m \in [DOMAIN m -> Nat]
      BY <2>2, <3>1, <3>2, <1>13
    <3>4. nm' = [nm EXCEPT ![c] = m]
      BY <2>2, <3>1
    <3>5. nm' = [d \in Clients |-> nm'[d]] /\ nm'[c] = m
          /\ \A d \in Clients : d # c => nm'[d] = nm[d]
      BY <1>13, <3>4, Zenon
    <3> QED
      BY <3>3, <3>5
  <2> QED
    BY <2>1, <2>2 DEF Inserted
<1>15. TypeOK'
  <2>1. ASSUME NEW d \in Clients
        PROVE  nm'[d] \in [DOMAIN nm'[d] -> Nat] /\ DOMAIN nm'[d] \subseteq DOMAIN tree'
    <3>1. CASE d = c
      BY <3>1, <1>2, <1>4, <1>13, <1>14 DEF Grown
    <3>2. CASE d # c
      BY <3>2, <1>1, <1>2, <1>4, <1>14 DEF TypeOK, Grown
    <3> QED
      BY <3>1, <3>2
  <2> QED
    BY <1>2, <1>4, <1>9, <1>11, <1>12, <1>14, <2>1 DEF TypeOK
<1>16. ASSUME NEW d \in Clients, d # c PROVE MapExact(d)'
  <2>1. Alive(d)' = Alive(d)
    BY <1>9, <1>16 DEF Alive
  <2>2. \/ scan'[d] = NoScan
        \/ scan'[d].done /\ scan'[d] = scan[d]
        \/ /\ scan[d] # NoScan
           /\ scan'[d].exception_caught = scan[d].exception_caught
    BY <1>1, <1>4, <1>10, ObserveScans, ScanTyped
  <2>3. Grown(tree, tree')
    BY <1>2, <1>4
  <2> QED
    BY <1>1, <1>11, <1>14, <1>15, <1>16, <2>1, <2>2, <2>3, MapExactKept
<1>17. MapExact(c)'
  <2>1. CASE /\ l \in DOMAIN nm[c] /\ nm[c][l] = u[l].version
             /\ nm' = [nm EXCEPT ![c] = [nm[c] EXCEPT ![l] = v[l].version]]
             /\ Return(c, "OK")
    <3>1. Alive(c)'
      <4>1. res'[c] = "OK"
        BY <2>1, <1>1 DEF Return, TypeOK
      <4> QED
        BY <4>1 DEF Alive, Bad
    <3>m. mine = {l}
      <4>1. MapExact(c) /\ l \in DOMAIN tree /\ nm[c][l] \in Nat
        BY <2>1, <1>1, <1>7
      <4>2. /\ tree[l].version \in Nat /\ u[l].version \in Nat /\ nm[c][l] <= tree[l].version
            /\ u[l] = tree[l] \/ u[l].version > tree[l].version
        BY <2>1, <4>1, <1>3, <1>5, <1>6 DEF MapExact, Grown
      <4>3. u[l] = tree[l]
        BY <2>1, <4>1, <4>2
      <4> QED
        BY <1>10, <4>1, <4>3 DEF Whole
    <3>2. disturbed'[c] = disturbed[c] \cup {x \in DOMAIN nm[c] \ {l} : tree'[x] # tree[x]}
      BY <3>m, <1>11
    <3>3. nm'[c][l] = v[l].version /\ \A x \in DOMAIN nm[c] : x # l => nm'[c][x] = nm[c][x]
      <4>1. nm'[c] = [nm[c] EXCEPT ![l] = v[l].version]
        BY <2>1, <1>13, Zenon
      <4> QED
        BY <4>1, <2>1, <1>13
    <3>4. MapExact(c)
      BY <1>1
    <3>5. l \notin disturbed[c]
      BY <2>1, <3>4, <1>6, <1>7 DEF MapExact
    <3>6. ASSUME NEW x \in DOMAIN nm'[c]
          PROVE  /\ x \in disturbed'[c] => nm'[c][x] < tree'[x].version
                 /\ x \notin disturbed'[c] => nm'[c][x] = tree'[x].version
      <4>1. CASE x = l
        BY <4>1, <3>2, <3>3, <3>5, <1>2
      <4>2. CASE x # l
        <5>1. x \in DOMAIN tree /\ nm[c][x] \in Nat /\ nm'[c][x] = nm[c][x]
          BY <4>2, <3>3, <1>13, <1>14
        <5>2. tree[x].version \in Nat /\ tree'[x].version \in Nat
              /\ (tree'[x] = tree[x] \/ tree'[x].version > tree[x].version)
          BY <5>1, <1>2, <1>4, <1>6 DEF TreeOK, Leaf, Grown
        <5>3. /\ x \in disturbed[c] => nm[c][x] < tree[x].version
              /\ x \notin disturbed[c] => nm[c][x] = tree[x].version
          BY <3>4, <1>14 DEF MapExact
        <5>4. x \in disturbed'[c] <=> x \in disturbed[c] \/ tree'[x] # tree[x]
          BY <3>2, <4>2, <1>14
        <5> QED
          BY <5>1, <5>2, <5>3, <5>4
      <4> QED
        BY <4>1, <4>2
    <3>7. disturbed'[c] \subseteq DOMAIN nm'[c]
      BY <3>2, <3>4, <1>14 DEF MapExact
    <3> QED
      BY <3>1, <3>6, <3>7, <1>12 DEF MapExact
  <2>2. CASE /\ nm' = nm
             /\ \/ l \notin DOMAIN nm[c] /\ Return(c, "OK")
                \/ l \in DOMAIN nm[c] /\ nm[c][l] # u[l].version
    <3>0. l \in DOMAIN nm[c] => l \in disturbed'[c]
      <4> SUFFICES ASSUME l \in DOMAIN nm[c] PROVE l \in disturbed'[c]
        OBVIOUS
      <4>1. CASE u[l] = tree[l]
        <5>1. nm[c][l] # tree[l].version
          BY <2>2, <4>1
        <5>2. l \in disturbed[c]
          BY <1>1, <5>1 DEF MapExact
        <5> QED
          BY <5>2, <1>11
      <4>2. CASE u[l] # tree[l]
        <5>1. mine = {}
          BY <4>2, <1>10 DEF Whole
        <5> QED
          BY <5>1, <1>2, <1>7, <1>11
      <4> QED
        BY <4>1, <4>2
    <3>1. disturbed'[c] = disturbed[c] \cup {x \in DOMAIN nm[c] : tree'[x] # tree[x]}
      <4>1. mine \subseteq {l}
        BY <1>10 DEF Whole
      <4>2. l \in DOMAIN nm[c] => tree'[l] # tree[l]
        BY <1>2, <1>7
      <4> QED
        BY <1>11, <3>0, <4>1, <4>2
    <3>2. Alive(c)' \/ disturbed'[c] # {}
      <4>1. CASE l \notin DOMAIN nm[c] /\ Return(c, "OK")
        <5>1. res'[c] = "OK"
          BY <4>1, <1>1 DEF Return, TypeOK
        <5> QED
          BY <5>1 DEF Alive, Bad
      <4>2. CASE l \in DOMAIN nm[c]
        BY <4>2, <3>0
      <4> QED
        BY <2>2, <4>1, <4>2
    <3>3. Grown(tree, tree') /\ nm'[c] = nm[c]
      BY <2>2, <1>2, <1>4
    <3> QED
      BY <1>1, <1>12, <1>15, <3>1, <3>2, <3>3, MapExactKept
  <2> QED
    BY <2>1, <2>2 DEF Inserted
<1> QED
  BY <1>15, <1>16, <1>17 DEF MapInv
-------------------------------------------------------------------------------
(***************************************************************************)
(* One leaf of a scan                                                      *)
(***************************************************************************)

\* Where a scan goes on after leaf l
LEMMA OnwardIs ==
    ASSUME NEW t, TreeOK(t), NEW l \in DOMAIN t, NEW q
    PROVE  /\ Onward(q, t, l) = {} =>
                 IF Backward(q) THEN t[l].low = 0
                 ELSE \A m \in DOMAIN t : t[m].low <= t[l].low
           /\ Onward(q, t, l) # {} => \E x \in Key :
                 /\ Onward(q, t, l) = {x}
                 /\ IF Backward(q) THEN x = t[l].low - 1
                    ELSE /\ x > t[l].low /\ \E m \in DOMAIN t : t[m].low = x
                         /\ \A m \in DOMAIN t : t[m].low > t[l].low => x <= t[m].low
<1> DEFINE higher == {t[m].low : m \in DOMAIN t} \cap (t[l].low + 1 .. MaxKey)
<1>1. \A m \in DOMAIN t : t[m].low \in Key
  BY DEF TreeOK, Leaf
<1>2. CASE Backward(q)
  <2>1. Onward(q, t, l) = IF t[l].low = 0 THEN {} ELSE {t[l].low - 1}
    BY <1>2 DEF Onward
  <2>2. t[l].low # 0 => t[l].low - 1 \in Key
    BY <1>1, IndexAssumption DEF Key
  <2> QED
    BY <1>2, <2>1, <2>2
<1>3. CASE ~Backward(q)
  <2>1. Onward(q, t, l) = IF higher = {} THEN {} ELSE {Min(higher)}
    BY <1>3 DEF Onward
  <2>2. \A m \in DOMAIN t : t[m].low > t[l].low => t[m].low \in higher
    BY <1>1, IndexAssumption DEF Key
  <2>3. /\ higher \subseteq Key
        /\ \A x \in higher : x > t[l].low /\ \E m \in DOMAIN t : t[m].low = x
    BY <1>1, IndexAssumption DEF Key
  <2> HIDE DEF higher
  <2>4. CASE higher = {}
    <3>1. ASSUME NEW m \in DOMAIN t PROVE t[m].low <= t[l].low
      BY <2>2, <2>4, <1>1 DEF Key
    <3> QED
      BY <1>3, <2>1, <2>4, <3>1
  <2>5. CASE higher # {}
    <3>1. PICK x : x = Min(higher)
      OBVIOUS
    <3>2. x \in higher /\ \A y \in higher : x <= y
      BY <3>1, <2>3, <2>5, KeyBounds DEF Min
    <3>3. Onward(q, t, l) = {x}
      BY <2>1, <2>5, <3>1
    <3> QED
      BY <1>3, <2>2, <2>3, <3>2, <3>3
  <2> QED
    BY <2>4, <2>5
<1> QED
  BY <1>2, <1>3

\* The keys of leaf l from at on end where the next leaf begins.
LEMMA NextLeaf ==
    ASSUME NEW t, TreeOK(t), NEW q, NEW at \in Key, NEW l, l = LeafOf(t, at)
    PROVE  /\ Onward(q, t, l) = {} =>
                 \A k \in Key : AtOrAfter(q, at, k) => LeafOf(t, k) = l
           /\ Onward(q, t, l) # {} => \E x \in Key :
                 /\ Onward(q, t, l) = {x}
                 /\ AtOrAfter(q, at, x) /\ ~AtOrAfter(q, x, at)
                 /\ \A k \in Key : AtOrAfter(q, at, k) =>
                       (LeafOf(t, k) = l <=> ~AtOrAfter(q, x, k))
<1>1. Responsible(t, l, at) /\ l \in DOMAIN t
  BY LeafOfIs DEF Responsible
<1>2. \A m \in DOMAIN t : t[m].low \in Key
  BY DEF TreeOK, Leaf
<1>3. ASSUME NEW k \in Key
      PROVE  LeafOf(t, k) = l <=> Responsible(t, l, k)
  BY LeafOfIs
<1>4. ASSUME Onward(q, t, l) = {}, NEW k \in Key, AtOrAfter(q, at, k)
      PROVE  LeafOf(t, k) = l
  <2>1. IF Backward(q) THEN t[l].low = 0 ELSE \A m \in DOMAIN t : t[m].low <= t[l].low
    BY <1>1, <1>4, OnwardIs
  <2>2. Responsible(t, l, k)
    BY <1>1, <1>2, <1>4, <2>1 DEF Responsible, AtOrAfter, Key
  <2> QED
    BY <1>3, <2>2
<1>5. ASSUME Onward(q, t, l) # {}
      PROVE  \E x \in Key :
                /\ Onward(q, t, l) = {x}
                /\ AtOrAfter(q, at, x) /\ ~AtOrAfter(q, x, at)
                /\ \A k \in Key : AtOrAfter(q, at, k) =>
                      (LeafOf(t, k) = l <=> ~AtOrAfter(q, x, k))
  <2>1. PICK x \in Key :
           /\ Onward(q, t, l) = {x}
           /\ IF Backward(q) THEN x = t[l].low - 1
              ELSE /\ x > t[l].low /\ \E m \in DOMAIN t : t[m].low = x
                   /\ \A m \in DOMAIN t : t[m].low > t[l].low => x <= t[m].low
    BY <1>1, <1>5, OnwardIs
  <2>2. CASE Backward(q)
    <3>1. AtOrAfter(q, at, x) /\ ~AtOrAfter(q, x, at)
      BY <2>1, <2>2, <1>1, <1>2 DEF AtOrAfter, Responsible, Key
    <3>2. ASSUME NEW k \in Key, AtOrAfter(q, at, k)
          PROVE  Responsible(t, l, k) <=> ~AtOrAfter(q, x, k)
      BY <2>1, <2>2, <3>2, <1>1, <1>2 DEF AtOrAfter, Responsible, Key
    <3> QED
      BY <2>1, <3>1, <3>2, <1>3
  <2>3. CASE ~Backward(q)
    <3>1. AtOrAfter(q, at, x) /\ ~AtOrAfter(q, x, at)
      BY <2>1, <2>3, <1>1, <1>2 DEF AtOrAfter, Responsible, Key
    <3>2. ASSUME NEW k \in Key, AtOrAfter(q, at, k)
          PROVE  Responsible(t, l, k) <=> ~AtOrAfter(q, x, k)
      BY <2>1, <2>3, <3>2, <1>1, <1>2 DEF AtOrAfter, Responsible, Key
    <3> QED
      BY <2>1, <3>1, <3>2, <1>3
  <2> QED
    BY <2>2, <2>3
<1> QED
  BY <1>4, <1>5

\* The step of a scan on leaf l, with the names visit_leaf gives to its parts
Visited(c, s, q, l, caught, ahead, taken, onward, done) ==
    /\ s = scan[c] /\ q = s.call /\ l = LeafOf(tree, s.at)
    /\ caught = (s.exception_caught \/ (q.nm /\ Changed(nm[c], l, tree[l].version)))
    /\ ahead = Ahead(q, s.at, tree[l].keys)
    /\ taken = IF caught THEN {}
               ELSE FirstOf(q, Limit(q) - Cardinality(s.kv_map),
                            {k \in ahead : WithinEnd(q, k)})
    /\ onward = Onward(q, tree, l)
    /\ done = (ahead # taken \/ onward = {})
    /\ scan' = [scan EXCEPT ![c].kv_map = @ \cup taken,
                            ![c].exception_caught = caught,
                            ![c].done = done,
                            ![c].at = IF done THEN @ ELSE CHOOSE k \in onward : TRUE]
    /\ nm' = [nm EXCEPT ![c] = IF q.nm THEN Emplace(@, l, tree[l].version) ELSE @]
    /\ res' = [res EXCEPT ![c] = IF done /\ caught THEN "BAD_SCAN" ELSE @]
    /\ seen' = [seen EXCEPT ![c] =
                  IF done /\ q.nm /\ ~caught
                  THEN @ \cup {[call |-> q, keys |-> s.kv_map \cup taken, later |-> {}]}
                  ELSE @]
    /\ UNCHANGED <<tree, ops, disturbed>>

LEMMA VisitIs ==
    ASSUME NEW c, continue_scan(c)
    PROVE  /\ ~scan[c].done
           /\ \E s, q, l, caught, ahead, taken, onward, done :
                 Visited(c, s, q, l, caught, ahead, taken, onward, done)
<1> DEFINE s == scan[c]
           q == s.call
           l == LeafOf(tree, s.at)
           caught == s.exception_caught \/ (q.nm /\ Changed(nm[c], l, tree[l].version))
           ahead == Ahead(q, s.at, tree[l].keys)
           taken == IF caught THEN {}
                    ELSE FirstOf(q, Limit(q) - Cardinality(s.kv_map),
                                 {k \in ahead : WithinEnd(q, k)})
           onward == Onward(q, tree, l)
           done == ahead # taken \/ onward = {}
<1>1. Visited(c, s, q, l, caught, ahead, taken, onward, done)
  BY Zenon DEF continue_scan, visit_leaf, Visited
<1> HIDE DEF s, q, l, caught, ahead, taken, onward, done
<1>2. \E S, Q, L, Ca, Ah, Ta, On, Do : Visited(c, S, Q, L, Ca, Ah, Ta, On, Do)
  BY <1>1, Zenon
<1> QED
  BY <1>2, Zenon DEF continue_scan

\* What the step leaves: the scan record, the result and the NodeMap
LEMMA VisitedState ==
    ASSUME TypeOK, NEW c \in Clients, ~scan[c].done,
           NEW s, NEW q, NEW l, NEW caught, NEW ahead, NEW taken, NEW onward, NEW done,
           Visited(c, s, q, l, caught, ahead, taken, onward, done)
    PROVE  /\ s \in ScanRecord /\ q \in Scans /\ q \in ScanCalls /\ l \in DOMAIN tree
           /\ caught \in BOOLEAN /\ done \in BOOLEAN
           /\ taken \subseteq ahead /\ ahead \subseteq tree[l].keys /\ tree[l].keys \subseteq Key
           /\ \E x \in Key :
                 /\ ~done => onward = {x}
                 /\ scan'[c] = [done |-> done, call |-> q, at |-> IF done THEN s.at ELSE x,
                                kv_map |-> s.kv_map \cup taken, exception_caught |-> caught,
                                stayed |-> s.stayed, ever |-> s.ever]
           /\ scan'[c] \in ScanRecord
           /\ scan' \in [Clients -> ScanRecord \cup {NoScan}]
           /\ \A d \in Clients : d # c => scan'[d] = scan[d]
           /\ res' \in [Clients -> Results] /\ \A d \in Clients : d # c => res'[d] = res[d]
           /\ res'[c] = IF done /\ caught THEN "BAD_SCAN" ELSE res[c]
           /\ seen' = [d \in Clients |-> seen'[d]]
           /\ nm' = [d \in Clients |-> nm'[d]] /\ \A d \in Clients : d # c => nm'[d] = nm[d]
           /\ nm'[c] = IF q.nm THEN Emplace(nm[c], l, tree[l].version) ELSE nm[c]
<1>1. s = scan[c] /\ q = s.call /\ s \in ScanRecord
  BY ScanTyped DEF Visited
<1>2. q \in Scans /\ q \in ScanCalls /\ s.at \in Key /\ s.kv_map \subseteq Key
      /\ s.done \in BOOLEAN /\ s.exception_caught \in BOOLEAN
  BY <1>1, IndexAssumption DEF ScanRecord
<1>3. l \in DOMAIN tree /\ l = LeafOf(tree, s.at)
  BY <1>2, LeafOfIs DEF Visited, TypeOK, Responsible
<1>4. tree[l].keys \subseteq Key
  BY <1>3 DEF TypeOK, TreeOK, Leaf
<1>5. caught \in BOOLEAN /\ done \in BOOLEAN
  <2>1. \A a, b : (a /\ b) \in BOOLEAN
    OBVIOUS
  <2> QED
    BY <2>1, <1>2 DEF Visited, Changed
<1>6. taken \subseteq ahead /\ ahead \subseteq tree[l].keys
  BY DEF Visited, Ahead, FirstOf
<1>7. PICK x \in Key : ~done => onward = {x}
  <2>1. done => \E x \in Key : TRUE
    BY <1>2
  <2>2. ~done => onward # {} /\ onward = Onward(q, tree, l)
    BY DEF Visited
  <2>3. TreeOK(tree)
    BY DEF TypeOK
  <2> QED
    BY <1>3, <2>1, <2>2, <2>3, OnwardIs
<1> DEFINE at == IF done THEN s.at ELSE x
           r == [done |-> done, call |-> q, at |-> at, kv_map |-> s.kv_map \cup taken,
                 exception_caught |-> caught, stayed |-> s.stayed, ever |-> s.ever]
<1>8. at \in Key
  BY <1>2
<1>9. (IF done THEN s.at ELSE CHOOSE k \in onward : TRUE) = at
  BY <1>5, <1>7
<1>10. scan'[c] = r
  <2>1. c \in DOMAIN scan
    BY DEF TypeOK
  <2>2. scan'[c] = [s EXCEPT !.kv_map = @ \cup taken, !.exception_caught = caught,
                             !.done = done,
                             !.at = IF done THEN @ ELSE CHOOSE k \in onward : TRUE]
    BY <1>1, <2>1, Zenon DEF Visited
  <2>3. scan'[c] = [s EXCEPT !.kv_map = s.kv_map \cup taken, !.exception_caught = caught,
                             !.done = done, !.at = at]
    BY <2>2, <1>9
  <2> HIDE DEF at
  <2>4. s \in [done : BOOLEAN, call : Scans, at : Key, kv_map : SUBSET Key,
               exception_caught : BOOLEAN, stayed : SUBSET Key, ever : SUBSET Key]
    BY <1>1 DEF ScanRecord
  <2> QED
    BY <2>3, <2>4, <1>1
<1>11. r \in ScanRecord
  <2>1. s.stayed \in SUBSET Key /\ s.ever \in SUBSET Key /\ s.kv_map \cup taken \in SUBSET Key
    BY <1>1, <1>2, <1>4, <1>6 DEF ScanRecord
  <2> HIDE DEF at
  <2> QED
    BY <1>2, <1>5, <1>8, <2>1 DEF ScanRecord
<1>12. \A d \in Clients : d # c => scan'[d] = scan[d]
  <2>1. DOMAIN scan = Clients
    BY DEF TypeOK
  <2> QED
    BY <2>1, Zenon DEF Visited
<1>13. scan' = [d \in Clients |-> scan'[d]]
  <2>1. scan = [d \in Clients |-> scan[d]]
    BY DEF TypeOK
  <2> QED
    BY <2>1, Zenon DEF Visited
<1>14. scan' \in [Clients -> ScanRecord \cup {NoScan}]
  <2>1. \A d \in Clients : scan'[d] \in ScanRecord \cup {NoScan}
    BY <1>10, <1>11, <1>12 DEF TypeOK
  <2> HIDE DEF at, r
  <2> QED
    BY <2>1, <1>13, Zenon
<1>15. /\ res' \in [Clients -> Results] /\ \A d \in Clients : d # c => res'[d] = res[d]
       /\ res'[c] = IF done /\ caught THEN "BAD_SCAN" ELSE res[c]
  BY DEF Visited, TypeOK, Results, Bad
<1>16. seen' = [d \in Clients |-> seen'[d]]
  BY Zenon DEF Visited, TypeOK
<1>17. /\ nm' = [d \in Clients |-> nm'[d]] /\ \A d \in Clients : d # c => nm'[d] = nm[d]
       /\ nm'[c] = IF q.nm THEN Emplace(nm[c], l, tree[l].version) ELSE nm[c]
  BY Zenon DEF Visited, TypeOK
<1> QED
  BY <1>1, <1>2, <1>3, <1>4, <1>5, <1>6, <1>7, <1>10, <1>11, <1>12, <1>14, <1>15, <1>16, <1>17

LEMMA VisitedMapInv ==
    ASSUME MapInv, NEW c \in Clients, ~scan[c].done,
           NEW s, NEW q, NEW l, NEW caught, NEW ahead, NEW taken, NEW onward, NEW done,
           Visited(c, s, q, l, caught, ahead, taken, onward, done)
    PROVE  MapInv' /\ (caught => disturbed[c] # {})
<1>1. TypeOK /\ \A d \in Clients : MapExact(d)
  BY DEF MapInv
<1>2. /\ s \in ScanRecord /\ l \in DOMAIN tree /\ s = scan[c]
      /\ scan'[c].exception_caught = caught
      /\ scan' \in [Clients -> ScanRecord \cup {NoScan}]
      /\ \A d \in Clients : d # c => scan'[d] = scan[d]
      /\ res' \in [Clients -> Results] /\ \A d \in Clients : d # c => res'[d] = res[d]
      /\ res'[c] = IF done /\ caught THEN "BAD_SCAN" ELSE res[c]
      /\ seen' = [d \in Clients |-> seen'[d]]
      /\ nm' = [d \in Clients |-> nm'[d]] /\ \A d \in Clients : d # c => nm'[d] = nm[d]
      /\ nm'[c] = IF q.nm THEN Emplace(nm[c], l, tree[l].version) ELSE nm[c]
  <2>1. PICK x \in Key :
           scan'[c] = [done |-> done, call |-> q, at |-> IF done THEN s.at ELSE x,
                       kv_map |-> s.kv_map \cup taken, exception_caught |-> caught,
                       stayed |-> s.stayed, ever |-> s.ever]
    BY <1>1, VisitedState
  <2>2. scan'[c].exception_caught = caught
    BY <2>1
  <2>3. s = scan[c]
    BY DEF Visited
  <2> QED
    BY <1>1, <2>2, <2>3, VisitedState
<1>3. UNCHANGED <<tree, ops, disturbed>>
  BY DEF Visited
<1>4. IsExact(nm'[c], disturbed[c]) /\ DOMAIN nm[c] \subseteq DOMAIN nm'[c]
  <2>1. PICK m : m = Emplace(nm[c], l, tree[l].version)
    OBVIOUS
  <2>2. DOMAIN m = DOMAIN nm[c] \cup {l} /\ IsExact(m, disturbed[c])
    BY <1>2, <2>1, EmplaceExact
  <2>3. IsExact(nm[c], disturbed[c])
    BY <1>1 DEF TypeOK, MapExact, IsExact
  <2> QED
    BY <1>2, <2>1, <2>2, <2>3
<1>5. caught => disturbed[c] # {}
  <2>1. CASE s.exception_caught
    <3>1. scan[c] # NoScan
      BY <1>1, ScanTyped
    <3> QED
      BY <2>1, <3>1, <1>1, <1>2 DEF MapExact
  <2>2. CASE Changed(nm[c], l, tree[l].version)
    BY <2>2, <1>1 DEF MapExact, Changed
  <2> QED
    BY <2>1, <2>2 DEF Visited
<1>6. TypeOK'
  <2>1. ASSUME NEW d \in Clients
        PROVE  nm'[d] \in [DOMAIN nm'[d] -> Nat] /\ DOMAIN nm'[d] \subseteq DOMAIN tree'
    <3>1. CASE d = c
      BY <3>1, <1>3, <1>4 DEF IsExact
    <3>2. CASE d # c
      BY <3>2, <1>1, <1>2, <1>3 DEF TypeOK
    <3> QED
      BY <3>1, <3>2
  <2> QED
    BY <1>1, <1>2, <1>3, <2>1 DEF TypeOK
<1>7. ASSUME NEW d \in Clients, d # c PROVE MapExact(d)'
  BY <1>1, <1>2, <1>3, <1>7 DEF MapExact, Alive
<1>8. MapExact(c)'
  <2>1. disturbed'[c] \subseteq DOMAIN nm'[c]
    BY <1>1, <1>3, <1>4 DEF MapExact
  <2>2. ~Alive(c)' => disturbed'[c] # {}
    BY <1>1, <1>2, <1>3, <1>5 DEF MapExact, Alive
  <2>3. scan'[c].exception_caught => disturbed'[c] # {}
    BY <1>2, <1>3, <1>5
  <2> QED
    BY <1>3, <1>4, <2>1, <2>2, <2>3 DEF MapExact, IsExact
<1> QED
  BY <1>5, <1>6, <1>7, <1>8 DEF MapInv

\* A change of the tree by a call without NodeMap
LEMMA ChangedTree ==
    ASSUME TypeOK, NEW c \in Clients, NEW k \in Key,
           \/ insert(c, k) /\ k \notin Present(tree)
           \/ remove(c, k) /\ k \in Present(tree)
    PROVE  /\ TreeOK(tree') /\ Grown(tree, tree')
           /\ Observe(c, tree', {}) /\ Return(c, "OK") /\ UNCHANGED <<nm, seen>>
<1>1. TreeOK(tree)
  BY DEF TypeOK
<1>2. CASE insert(c, k) /\ k \notin Present(tree)
  <2>1. PICK t \in insert_value(k) : tree' = t /\ Observe(c, t, {})
    BY <1>2 DEF insert
  <2>2. PICK u \in WithRoom(tree, k) : t = PutKey(u, k)
    BY DEF insert_value
  <2>3. TreeOK(t) /\ Grown(tree, t)
    BY <1>1, <2>2, InsertOK
  <2>4. Return(c, "OK") /\ UNCHANGED <<nm, seen>>
    BY <1>2 DEF insert
  <2> QED
    BY <2>1, <2>3, <2>4
<1>3. CASE remove(c, k) /\ k \in Present(tree)
  <2>1. PICK t : t = DropKey(tree, k)
    OBVIOUS
  <2>2. tree' = t /\ Observe(c, t, {}) /\ Return(c, "OK") /\ UNCHANGED <<nm, seen>>
    BY <1>3, <2>1 DEF remove
  <2>3. TreeOK(t) /\ Grown(tree, t)
    BY <1>1, <2>1, DropKeyOK
  <2> QED
    BY <2>2, <2>3
<1> QED
  BY <1>2, <1>3

\* A call that leaves the tree alone
QuietCall(c, k) ==
    \/ find(c, k)
    \/ insert(c, k) /\ k \in Present(tree)
    \/ remove(c, k) /\ k \notin Present(tree)
    \/ insert_nm(c, k) /\ k \in Present(tree)
    \/ find_nm(c, k) /\ k \in Present(tree)

LEMMA QuietIs ==
    ASSUME NEW c, NEW k, QuietCall(c, k)
    PROVE  /\ UNCHANGED <<tree, nm, seen, disturbed>>
           /\ scan' = [scan EXCEPT ![c] = NoScan]
           /\ \E r \in Results \ Bad : Return(c, r)
<1>1. {"OK", "NOT_FOUND", "NOT_INSERTED", "NOT_DELETED"} \subseteq Results \ Bad
  BY DEF Results, Bad
<1>2. CASE find(c, k)
  BY <1>1, <1>2 DEF find
<1>3. CASE insert(c, k) /\ k \in Present(tree)
  BY <1>1, <1>3 DEF insert, NothingToDo
<1>4. CASE remove(c, k) /\ k \notin Present(tree)
  BY <1>1, <1>4 DEF remove, NothingToDo
<1>5. CASE insert_nm(c, k) /\ k \in Present(tree)
  <2>1. NothingToDo(c, "NOT_INSERTED")
    BY <1>5, Zenon DEF insert_nm
  <2> QED
    BY <1>1, <2>1 DEF NothingToDo
<1>6. CASE find_nm(c, k) /\ k \in Present(tree)
  BY <1>1, <1>6 DEF find_nm
<1> QED
  BY <1>2, <1>3, <1>4, <1>5, <1>6 DEF QuietCall

\* The steps there are
LEMMA NextCases ==
    ASSUME Next
    PROVE  \E c \in Clients :
              \/ \E k \in Key : QuietCall(c, k)
              \/ \E k \in Key : \/ insert(c, k) /\ k \notin Present(tree)
                                \/ remove(c, k) /\ k \in Present(tree)
              \/ \E k \in Key : find_nm(c, k) /\ k \notin Present(tree)
              \/ \E k \in Key : insert_nm(c, k) /\ k \notin Present(tree)
              \/ \E q \in Scans : start_scan(c, q)
              \/ continue_scan(c)
<1>1. PICK c \in Clients :
        \/ \E k \in Key : find(c, k) \/ insert(c, k) \/ remove(c, k)
        \/ \E k \in Key : find_nm(c, k) \/ insert_nm(c, k)
        \/ \E q \in Scans : start_scan(c, q)
        \/ continue_scan(c)
  BY DEF Next
<1>2. CASE \E k \in Key : find(c, k) \/ insert(c, k) \/ remove(c, k)
  BY <1>2 DEF QuietCall
<1>3. CASE \E k \in Key : find_nm(c, k) \/ insert_nm(c, k)
  BY <1>3 DEF QuietCall
<1> QED
  BY <1>1, <1>2, <1>3

\* A failed find with a NodeMap
LEMMA MissIs ==
    ASSUME NEW c, NEW k, find_nm(c, k), k \notin Present(tree)
    PROVE  /\ Ready(c) /\ Return(c, "NOT_FOUND")
           /\ scan' = [scan EXCEPT ![c] = NoScan]
           /\ NoteNode(c, get_value_and_get_nodeinfo_on_failure(k))
           /\ seen' = [seen EXCEPT ![c] = @ \cup {Missed(k)}]
           /\ UNCHANGED <<tree, disturbed>>
BY Zenon DEF find_nm

\* The record of a scan that begins
FirstScan(q) ==
    [done |-> FALSE, call |-> q, at |-> StartKey(q), kv_map |-> {}, exception_caught |-> FALSE,
     stayed |-> Present(tree), ever |-> Present(tree)]

LEMMA StartIs ==
    ASSUME TypeOK, NEW c, NEW q \in Scans, start_scan(c, q)
    PROVE  /\ scan' = [scan EXCEPT ![c] = FirstScan(q)]
           /\ FirstScan(q) \in ScanRecord
           /\ Return(c, "OK") /\ UNCHANGED <<tree, nm, seen, disturbed>>
<1>1. scan' = [scan EXCEPT ![c] = FirstScan(q)] /\ Return(c, "OK")
      /\ UNCHANGED <<tree, nm, seen, disturbed>>
  BY Zenon DEF start_scan, FirstScan
<1>2. Present(tree) \subseteq Key
  BY PresentIs DEF TypeOK
<1>3. StartKey(q) \in Key
  BY IndexAssumption DEF ScanCalls, StartKey
<1> QED
  BY <1>1, <1>2, <1>3 DEF FirstScan, ScanRecord

LEMMA MapInvInit == Init => MapInv
<1> SUFFICES ASSUME Init PROVE MapInv
  OBVIOUS
<1>1. PICK S \in InitialKeys :
        tree = [l \in {0} |-> [low |-> 0, keys |-> S, version |-> 0]]
  BY DEF Init
<1>2. S \subseteq Key /\ 0 \in Key
  BY IndexAssumption DEF Key
<1>3. TreeOK(tree)
  <2>1. DOMAIN tree = {0} /\ tree[0] = [low |-> 0, keys |-> S, version |-> 0]
    BY <1>1
  <2>2. tree \in [0 .. 1 - 1 -> Leaf] /\ 1 \in Nat \ {0}
    BY <1>1, <1>2 DEF Leaf
  <2>3. tree[0].low = 0 /\ tree[0].keys = S
    BY <2>1
  <2>4. \A k \in S : Responsible(tree, 0, k)
    BY <1>2, <2>1, <2>3 DEF Responsible, Key
  <2> QED
    BY <2>1, <2>2, <2>3, <2>4 DEF TreeOK
<1>4. nm = [c \in Clients |-> [l \in {} |-> 0]] /\ disturbed = [c \in Clients |-> {}]
      /\ res = [c \in Clients |-> "OK"] /\ scan = [c \in Clients |-> NoScan]
      /\ ops = [c \in Clients |-> 0] /\ seen = [c \in Clients |-> {}]
  BY DEF Init
<1>5. ASSUME NEW c \in Clients
      PROVE  nm[c] \in [DOMAIN nm[c] -> Nat] /\ DOMAIN nm[c] = {}
  BY <1>4
<1>6. TypeOK
  BY <1>3, <1>4, <1>5 DEF TypeOK, Results
<1>7. ASSUME NEW c \in Clients PROVE MapExact(c)
  BY <1>4, <1>5 DEF MapExact, Alive, Bad
<1> QED
  BY <1>6, <1>7 DEF MapInv

LEMMA MapInvStep == MapInv /\ [Next]_vars => MapInv'
<1> SUFFICES ASSUME MapInv, [Next]_vars PROVE MapInv'
  OBVIOUS
<1>0. TypeOK
  BY DEF MapInv
<1>1. CASE UNCHANGED vars
  BY <1>1 DEF vars, MapInv, TypeOK, MapExact, Alive
<1>2. CASE Next
  <2>1. PICK c \in Clients :
              \/ \E k \in Key : QuietCall(c, k)
              \/ \E k \in Key : \/ insert(c, k) /\ k \notin Present(tree)
                                \/ remove(c, k) /\ k \in Present(tree)
              \/ \E k \in Key : find_nm(c, k) /\ k \notin Present(tree)
              \/ \E k \in Key : insert_nm(c, k) /\ k \notin Present(tree)
              \/ \E q \in Scans : start_scan(c, q)
              \/ continue_scan(c)
    BY <1>2, NextCases
  <2>s. seen = [d \in Clients |-> seen[d]]
    BY <1>0 DEF TypeOK
  <2>2. ASSUME NEW k \in Key, QuietCall(c, k) PROVE MapInv'
    <3>1. PICK r \in Results \ Bad : Return(c, r)
      BY <2>2, QuietIs
    <3>2. UNCHANGED <<tree, nm, seen, disturbed>> /\ scan' = [scan EXCEPT ![c] = NoScan]
      BY <2>2, QuietIs
    <3> QED
      BY <2>s, <3>1, <3>2, CallMapInv
  <2>3. ASSUME NEW k \in Key, \/ insert(c, k) /\ k \notin Present(tree)
                              \/ remove(c, k) /\ k \in Present(tree)
        PROVE  MapInv'
    <3>1. /\ TreeOK(tree') /\ Grown(tree, tree')
          /\ Observe(c, tree', {}) /\ Return(c, "OK") /\ UNCHANGED <<nm, seen>>
      BY <2>3, <1>0, ChangedTree
    <3> QED
      BY <3>1, ChangeMapInv
  <2>4. ASSUME NEW k \in Key, find_nm(c, k), k \notin Present(tree) PROVE MapInv'
    <3>1. "NOT_FOUND" \in Results \ Bad
      BY DEF Results, Bad
    <3>2. seen' = [d \in Clients |-> seen'[d]]
      BY <2>4, <2>s, MissIs, Zenon
    <3> QED
      BY <2>4, <3>1, <3>2, MissIs, CallMapInv
  <2>5. ASSUME NEW k \in Key, insert_nm(c, k), k \notin Present(tree) PROVE MapInv'
    <3>1. PICK u, v, l : u \in WithRoom(tree, k) /\ Inserted(c, k, u, v, l)
      BY <2>5, <1>0, InsertCases
    <3>2. seen' = [seen EXCEPT ![c] = {[s EXCEPT !.later = @ \cup {k}] : s \in seen[c]}]
      BY <2>5, Zenon DEF insert_nm
    <3>3. seen' = [d \in Clients |-> seen'[d]]
      BY <2>s, <3>2, Zenon
    <3> QED
      BY <3>1, <3>3, InsertedMapInv
  <2>6. ASSUME NEW q \in Scans, start_scan(c, q) PROVE MapInv'
    <3>1. "OK" \in Results \ Bad
      BY DEF Results, Bad
    <3>2. ~FirstScan(q).exception_caught
      BY DEF FirstScan
    <3>3. /\ scan' = [scan EXCEPT ![c] = FirstScan(q)] /\ FirstScan(q) \in ScanRecord
          /\ Return(c, "OK") /\ UNCHANGED <<tree, nm, seen, disturbed>>
      BY <1>0, <2>6, StartIs
    <3> QED
      BY <2>s, <3>1, <3>2, <3>3, CallMapInv
  <2>7. ASSUME continue_scan(c) PROVE MapInv'
    <3>1. ~scan[c].done
      BY <2>7, VisitIs
    <3>2. PICK s, q, l, caught, ahead, taken, onward, done :
             Visited(c, s, q, l, caught, ahead, taken, onward, done)
      BY <2>7, VisitIs
    <3> QED
      BY <3>1, <3>2, VisitedMapInv
  <2> QED
    BY <2>1, <2>2, <2>3, <2>4, <2>5, <2>6, <2>7
<1> QED
  BY <1>1, <1>2

\* The tree stays a partition of the keys into leaves with growing versions, and
\* the NodeMaps are exact: the part of the invariant that needs no scan.
THEOREM MapInvariance == Spec => []MapInv
BY MapInvInit, MapInvStep, PTL DEF Spec

\* No missed changes and no needless aborts, of insert and the range queries of
\* masstree.hpp: in a NodeMap a leaf has its noted version exactly when since then
\* nothing but inserts with that NodeMap that did not split it changed it, and a
\* client gets BAD_INSERT or BAD_SCAN only after another change of a noted leaf.
THEOREM MapsExact == Spec => []NodeMapExact
<1>1. MapInv => NodeMapExact
  <2> SUFFICES ASSUME MapInv, NEW c \in Clients
               PROVE  /\ \A l \in DOMAIN nm[c] :
                            nm[c][l] = tree[l].version <=> l \notin disturbed[c]
                      /\ ~Alive(c) => disturbed[c] # {}
    BY DEF NodeMapExact
  <2>1. MapExact(c)
    BY DEF MapInv
  <2>2. ASSUME NEW l \in DOMAIN nm[c]
        PROVE  nm[c][l] = tree[l].version <=> l \notin disturbed[c]
    <3>1. nm[c][l] \in Nat /\ tree[l].version \in Nat
      BY DEF MapInv, TypeOK, TreeOK, Leaf
    <3> QED
      BY <2>1, <3>1 DEF MapExact
  <2> QED
    BY <2>1, <2>2 DEF MapExact
<1> QED
  BY <1>1, MapInvariance, PTL
-------------------------------------------------------------------------------
(***************************************************************************)
(* The first keys of a set, and the range of a query                       *)
(***************************************************************************)
LEMMA KeysFinite ==
    ASSUME NEW S, S \subseteq Key
    PROVE  IsFiniteSet(S) /\ Cardinality(S) \in Nat
<1>1. IsFiniteSet(Key)
  BY IndexAssumption, FS_Interval DEF Key
<1>2. IsFiniteSet(S)
  BY <1>1, FS_Subset
<1> QED
  BY <1>2, FS_CardinalityType

LEMMA CardinalityOfSubset ==
    ASSUME NEW S, S \subseteq Key, NEW R, R \subseteq S
    PROVE  /\ Cardinality(R) \in Nat /\ Cardinality(S) \in Nat
           /\ Cardinality(R) <= Cardinality(S)
           /\ Cardinality(R) = Cardinality(S) => R = S
<1>1. IsFiniteSet(S) /\ Cardinality(S) \in Nat /\ Cardinality(R) \in Nat
  BY KeysFinite
<1> QED
  BY <1>1, FS_Subset

\* In the direction of a query a nonempty set has a first and a last key.
LEMMA EndsOfSet ==
    ASSUME NEW q, NEW S, S \subseteq Key, S # {}
    PROVE  /\ \E x \in S : \A y \in S : y = x \/ Precedes(q, x, y)
           /\ \E x \in S : \A y \in S : y = x \/ Precedes(q, y, x)
<1>1. PICK a \in S : \A y \in S : a <= y
  BY KeyBounds
<1>2. PICK b \in S : \A y \in S : y <= b
  BY KeyBounds
<1>3. \A y \in S : y \in Int
  BY IndexAssumption DEF Key
<1>4. \A y \in S : (y = a \/ a < y) /\ (y = b \/ y < b)
  BY <1>1, <1>2, <1>3
<1>5. CASE Backward(q)
  BY <1>4, <1>5, <1>3 DEF Precedes
<1>6. CASE ~Backward(q)
  BY <1>4, <1>6, <1>3 DEF Precedes
<1> QED
  BY <1>5, <1>6

LEMMA PrecedesIsOrder ==
    ASSUME NEW q, NEW j \in Key, NEW k \in Key
    PROVE  /\ j = k \/ Precedes(q, j, k) \/ Precedes(q, k, j)
           /\ ~(Precedes(q, j, k) /\ Precedes(q, k, j)) /\ ~Precedes(q, j, j)
           /\ \A i \in Key : Precedes(q, i, j) /\ Precedes(q, j, k) => Precedes(q, i, k)
           /\ \A at \in Key : ~AtOrAfter(q, at, j) /\ AtOrAfter(q, at, k) => Precedes(q, j, k)
           /\ AtOrAfter(q, j, k) <=> j = k \/ Precedes(q, j, k)
<1>1. j \in Int /\ k \in Int /\ Key \subseteq Int
  BY IndexAssumption DEF Key
<1>2. CASE Backward(q)
  BY <1>1, <1>2 DEF Precedes, AtOrAfter
<1>3. CASE ~Backward(q)
  BY <1>1, <1>3 DEF Precedes, AtOrAfter
<1> QED
  BY <1>2, <1>3

\* F is the beginning of S: as much of it as n allows.
IsBeginning(q, n, S, F) ==
    /\ F \subseteq S
    /\ Cardinality(F) <= n
    /\ \A j \in S, k \in F : Precedes(q, j, k) => j \in F
    /\ F = S \/ Cardinality(F) = n

LEMMA FirstOfIs ==
    ASSUME NEW q, NEW n \in Nat, NEW S, S \subseteq Key
    PROVE  IsBeginning(q, n, S, FirstOf(q, n, S))
<1> DEFINE F == FirstOf(q, n, S)
           Upto(k) == {j \in S : IF Backward(q) THEN j >= k ELSE j <= k}
<1>0. S \subseteq Int
  BY IndexAssumption DEF Key
<1>1. F = {k \in S : Cardinality(Upto(k)) <= n}
  BY DEF FirstOf
<1>2. F \subseteq S /\ \A k \in S : k \in F <=> Cardinality(Upto(k)) <= n
  BY <1>1
<1>3. \A k \in S : Upto(k) = {j \in S : j = k \/ Precedes(q, j, k)}
  <2>1. ASSUME NEW k \in S, NEW j \in S
        PROVE  (IF Backward(q) THEN j >= k ELSE j <= k) <=> (j = k \/ Precedes(q, j, k))
    BY <1>0 DEF Precedes
  <2> QED
    BY <2>1
<1> HIDE DEF F, Upto
<1>4. ASSUME NEW j \in S, NEW k \in F, Precedes(q, j, k) PROVE j \in F
  <2>1. k \in S /\ Cardinality(Upto(k)) <= n
    BY <1>2
  <2>2. Upto(j) \subseteq Upto(k)
    <3>1. j \in Key /\ k \in Key
      BY <2>1
    <3>2. ASSUME NEW i \in S, i = j \/ Precedes(q, i, j) PROVE Precedes(q, i, k)
      <4>1. i \in Key
        OBVIOUS
      <4> QED
        BY <1>4, <3>1, <3>2, <4>1, PrecedesIsOrder
    <3> QED
      BY <1>3, <2>1, <3>2
  <2>3. Upto(k) \subseteq Key
    BY <1>3, <2>1
  <2>4. Cardinality(Upto(j)) <= Cardinality(Upto(k)) /\ Cardinality(Upto(j)) \in Nat
        /\ Cardinality(Upto(k)) \in Nat
    BY <2>2, <2>3, CardinalityOfSubset
  <2> QED
    BY <1>2, <2>1, <2>4
<1>5. Cardinality(F) <= n
  <2>1. CASE F = {}
    BY <2>1, FS_EmptySet
  <2>2. CASE F # {}
    <3>1. PICK y \in F : \A x \in F : x = y \/ Precedes(q, x, y)
      BY <2>2, <1>2, EndsOfSet
    <3>2. y \in S /\ Cardinality(Upto(y)) <= n
      BY <1>2
    <3>3. F \subseteq Upto(y) /\ Upto(y) \subseteq Key
      BY <1>2, <1>3, <3>1, <3>2
    <3>4. Cardinality(F) <= Cardinality(Upto(y)) /\ Cardinality(F) \in Nat
          /\ Cardinality(Upto(y)) \in Nat
      BY <3>3, CardinalityOfSubset
    <3> QED
      BY <3>2, <3>4
  <2> QED
    BY <2>1, <2>2
<1>6. ASSUME F # S PROVE Cardinality(F) = n
  <2>1. S \ F # {} /\ S \ F \subseteq Key
    BY <1>2, <1>6
  <2>2. PICK x \in S \ F : \A y \in S \ F : y = x \/ Precedes(q, x, y)
    BY <2>1, EndsOfSet
  <2>3. Upto(x) \ {x} \subseteq F
    <3>1. ASSUME NEW j \in S, Precedes(q, j, x), j \notin F PROVE FALSE
      <4>1. j = x \/ Precedes(q, x, j)
        BY <2>2, <3>1
      <4>2. j \in Key /\ x \in Key
        OBVIOUS
      <4> QED
        BY <3>1, <4>1, <4>2, PrecedesIsOrder
    <3> QED
      BY <1>3, <3>1
  <2>4. x \in Upto(x) /\ Upto(x) \subseteq Key
    BY <1>3
  <2>5. IsFiniteSet(Upto(x)) /\ Cardinality(Upto(x)) \in Nat
    BY <2>4, KeysFinite
  <2>6. Cardinality(Upto(x) \ {x}) = Cardinality(Upto(x)) - 1
    BY <2>4, <2>5, FS_RemoveElement
  <2>7. Cardinality(Upto(x) \ {x}) <= Cardinality(F) /\ Cardinality(F) \in Nat
    BY <2>3, <1>2, CardinalityOfSubset
  <2>8. ~(Cardinality(Upto(x)) <= n)
    BY <1>2
  <2> QED
    BY <1>5, <2>5, <2>6, <2>7, <2>8
<1>7. F \subseteq S /\ Cardinality(F) <= n
      /\ (\A j \in S, k \in F : Precedes(q, j, k) => j \in F)
      /\ (F = S \/ Cardinality(F) = n)
  BY <1>2, <1>4, <1>5, <1>6
<1> QED
  BY <1>7 DEF IsBeginning, F

LEMMA BeginningUnique ==
    ASSUME NEW q, NEW n \in Nat, NEW S, S \subseteq Key, NEW F, NEW G,
           IsBeginning(q, n, S, F), IsBeginning(q, n, S, G)
    PROVE  F = G
<1>1. ASSUME NEW A, NEW B, IsBeginning(q, n, S, A), IsBeginning(q, n, S, B), A \subseteq B
      PROVE  A = B
  <2>1. B \subseteq Key /\ (A = S \/ Cardinality(A) = n) /\ Cardinality(B) <= n /\ B \subseteq S
    BY <1>1 DEF IsBeginning
  <2>2. /\ Cardinality(A) \in Nat /\ Cardinality(B) \in Nat
        /\ Cardinality(A) <= Cardinality(B)
        /\ Cardinality(A) = Cardinality(B) => A = B
    BY <1>1, <2>1, CardinalityOfSubset
  <2>3. CASE A = S
    BY <1>1, <2>1, <2>3
  <2>4. CASE Cardinality(A) = n
    <3>1. Cardinality(A) = Cardinality(B)
      BY <2>1, <2>2, <2>4
    <3> QED
      BY <2>2, <3>1
  <2> QED
    BY <2>1, <2>3, <2>4
<1>2. F \subseteq G \/ G \subseteq F
  <2> SUFFICES ASSUME NEW x \in F, x \notin G, NEW y \in G, y \notin F PROVE FALSE
    OBVIOUS
  <2>1. x \in S /\ y \in S /\ x \in Key /\ y \in Key
    BY DEF IsBeginning
  <2>2. Precedes(q, x, y) \/ Precedes(q, y, x)
    BY <2>1, PrecedesIsOrder
  <2> QED
    BY <2>1, <2>2 DEF IsBeginning
<1> QED
  BY <1>1, <1>2

LEMMA LimitIs ==
    ASSUME NEW q, q \in ScanCalls \/ \E k \in Key : q = FindCall(k)
    PROVE  Limit(q) \in Nat \ {0}
<1>1. MaxKey + 1 \in Nat \ {0}
  BY IndexAssumption
<1>2. CASE q \in ScanCalls
  <2>1. q.count \in Int
    BY <1>2 DEF ScanCalls
  <2>2. PICK a : a = q.count
    OBVIOUS
  <2>3. \E x \in {a, 1} : \A y \in {a, 1} : x >= y
    BY <2>1, <2>2
  <2>4. PICK m : m = Max({a, 1})
    OBVIOUS
  <2>5. m \in {a, 1} /\ m >= 1
    BY <2>3, <2>4 DEF Max
  <2>6. m \in Nat \ {0}
    BY <2>1, <2>2, <2>5
  <2> QED
    BY <1>1, <2>2, <2>4, <2>6 DEF Limit
<1>3. CASE \E k \in Key : q = FindCall(k)
  <2>1. q.api = "find" /\ q.count = -1
    BY <1>3 DEF FindCall
  <2> QED
    BY <1>1, <2>1 DEF Limit
<1> QED
  BY <1>2, <1>3

\* The range of a query and the comparisons the scan makes
LEMMA RangeIs ==
    ASSUME NEW q \in ScanCalls, NEW at \in Key, AtOrAfter(q, StartKey(q), at)
    PROVE  /\ RangeOf(q) \subseteq Key
           /\ \A k \in RangeOf(q) : AtOrAfter(q, StartKey(q), k)
           /\ \A K : K \subseteq Key =>
                {k \in Ahead(q, at, K) : WithinEnd(q, k)}
                   = {k \in K : AtOrAfter(q, at, k) /\ k \in RangeOf(q)}
           /\ \A j \in RangeOf(q), k \in Key : ~WithinEnd(q, k) /\ AtOrAfter(q, at, k)
                  => Precedes(q, j, k)
<1>1. q.lkey \in Key /\ q.rkey \in Key /\ q.api \in {"next", "range", "rev"}
  BY DEF ScanCalls
<1>2. MaxKey \in Nat /\ Key = 0 .. MaxKey
  BY IndexAssumption DEF Key
<1>3. CASE q.api = "next"
  <2>1. RangeOf(q) = q.lkey + 1 .. MaxKey /\ ~Backward(q)
    BY <1>3 DEF RangeOf, Backward
  <2>2. \A k : WithinEnd(q, k) <=> (k < MaxKey \/ k = MaxKey)
    BY <1>3, <2>1 DEF WithinEnd, BeforeRightEnd, RightEnd, rexclusive
  <2>3. \A K : Ahead(q, at, K) = {k \in K : k >= at /\ ~(k = q.lkey)}
    BY <1>3, <2>1 DEF Ahead, lexclusive
  <2>4. at >= q.lkey
    BY <2>1 DEF AtOrAfter, StartKey
  <2>5. \A k : AtOrAfter(q, at, k) <=> k >= at
    BY <2>1 DEF AtOrAfter
  <2>6. ASSUME NEW K, K \subseteq Key
        PROVE  {k \in Ahead(q, at, K) : WithinEnd(q, k)}
                   = {k \in K : AtOrAfter(q, at, k) /\ k \in RangeOf(q)}
    <3>1. ASSUME NEW k \in K
          PROVE  k >= at /\ ~(k = q.lkey) /\ (k < MaxKey \/ k = MaxKey)
                   <=> k >= at /\ k \in q.lkey + 1 .. MaxKey
      <4>1. k \in Int /\ k <= MaxKey
        BY <2>6, <1>2
      <4> QED
        BY <4>1, <1>1, <1>2, <2>4
    <3> QED
      BY <2>1, <2>2, <2>3, <2>5, <3>1
  <2> QED
    BY <1>1, <1>2, <2>1, <2>2, <2>4, <2>6 DEF AtOrAfter, StartKey, Precedes
<1>4. CASE q.api = "range"
  <2>1. RangeOf(q) = q.lkey .. q.rkey - 1 /\ ~Backward(q)
    BY <1>4 DEF RangeOf, Backward
  <2>2. \A k : WithinEnd(q, k) <=> k < q.rkey
    BY <1>4, <2>1 DEF WithinEnd, BeforeRightEnd, RightEnd, rexclusive
  <2>3. \A K : Ahead(q, at, K) = {k \in K : k >= at}
    BY <1>4, <2>1 DEF Ahead, lexclusive
  <2>4. at >= q.lkey
    BY <2>1 DEF AtOrAfter, StartKey
  <2>5. \A k : AtOrAfter(q, at, k) <=> k >= at
    BY <2>1 DEF AtOrAfter
  <2>6. ASSUME NEW K, K \subseteq Key
        PROVE  {k \in Ahead(q, at, K) : WithinEnd(q, k)}
                   = {k \in K : AtOrAfter(q, at, k) /\ k \in RangeOf(q)}
    <3>1. ASSUME NEW k \in K
          PROVE  k >= at /\ k < q.rkey <=> k >= at /\ k \in q.lkey .. q.rkey - 1
      <4>1. k \in Int /\ k <= MaxKey
        BY <2>6, <1>2
      <4> QED
        BY <4>1, <1>1, <1>2, <2>4
    <3> QED
      BY <2>1, <2>2, <2>3, <2>5, <3>1
  <2> QED
    BY <1>1, <1>2, <2>1, <2>2, <2>4, <2>6 DEF AtOrAfter, StartKey, Precedes
<1>5. CASE q.api = "rev"
  <2>1. RangeOf(q) = q.lkey + 1 .. q.rkey /\ Backward(q)
    BY <1>5 DEF RangeOf, Backward
  <2>2. \A k : WithinEnd(q, k) <=> k > q.lkey
    BY <1>5, <2>1 DEF WithinEnd, AfterLeftEnd, lexclusive
  <2>3. \A K : Ahead(q, at, K) = {k \in K : k <= at}
    BY <1>5, <2>1 DEF Ahead, rexclusive
  <2>4. at <= q.rkey
    BY <2>1 DEF AtOrAfter, StartKey
  <2>5. \A k : AtOrAfter(q, at, k) <=> k <= at
    BY <2>1 DEF AtOrAfter
  <2>6. ASSUME NEW K, K \subseteq Key
        PROVE  {k \in Ahead(q, at, K) : WithinEnd(q, k)}
                   = {k \in K : AtOrAfter(q, at, k) /\ k \in RangeOf(q)}
    <3>1. ASSUME NEW k \in K
          PROVE  k <= at /\ k > q.lkey <=> k <= at /\ k \in q.lkey + 1 .. q.rkey
      <4>1. k \in Int /\ k <= MaxKey
        BY <2>6, <1>2
      <4> QED
        BY <4>1, <1>1, <1>2, <2>4
    <3> QED
      BY <2>1, <2>2, <2>3, <2>5, <3>1
  <2> QED
    BY <1>1, <1>2, <2>1, <2>2, <2>4, <2>6 DEF AtOrAfter, StartKey, Precedes
<1> QED
  BY <1>1, <1>3, <1>4, <1>5

\* What the visit of one leaf adds to the keys delivered so far: no key of the
\* leaf and of the range is left out, unless the limit is reached before it, and
\* a scan that refuses a key has nothing more to deliver after this leaf.
VisitResult(t, q, at, kv, l, ahead, taken, all) ==
    /\ taken \subseteq t[l].keys \cap RangeOf(q) /\ all \subseteq RangeOf(q)
    /\ \A k \in taken : AtOrAfter(q, at, k)
    /\ Cardinality(all) <= Limit(q)
    /\ \A k \in t[l].keys \cap RangeOf(q) :
          AtOrAfter(q, at, k) => k \in all \/ Full(q, all, k)
    /\ \A k : Full(q, kv, k) => Full(q, all, k)
    /\ ahead # taken =>
          \A k \in RangeOf(q) :
             AtOrAfter(q, at, k) /\ LeafOf(t, k) # l => Full(q, all, k)

LEMMA VisitKeys ==
    ASSUME NEW t, TreeOK(t), NEW q \in ScanCalls, NEW at \in Key,
           AtOrAfter(q, StartKey(q), at),
           NEW kv, kv \subseteq RangeOf(q), Cardinality(kv) <= Limit(q),
           \A j \in kv : ~AtOrAfter(q, at, j),
           NEW l, l = LeafOf(t, at), NEW ahead, ahead = Ahead(q, at, t[l].keys),
           NEW taken, taken = FirstOf(q, Limit(q) - Cardinality(kv),
                                      {k \in ahead : WithinEnd(q, k)}),
           NEW all, all = kv \cup taken
    PROVE  VisitResult(t, q, at, kv, l, ahead, taken, all)
<1> DEFINE W == {k \in ahead : WithinEnd(q, k)}
           n == Limit(q) - Cardinality(kv)
<1>1. RangeOf(q) \subseteq Key
  BY RangeIs
<1>2. l \in DOMAIN t
  BY LeafOfIs DEF Responsible
<1>3. t[l].keys \subseteq Key
  BY <1>2 DEF TreeOK, Leaf
<1>4. W = {k \in t[l].keys : AtOrAfter(q, at, k) /\ k \in RangeOf(q)}
  BY <1>3, RangeIs
<1>5. kv \subseteq Key /\ IsFiniteSet(kv) /\ Cardinality(kv) \in Nat
  BY <1>1, KeysFinite
<1>6. Limit(q) \in Nat /\ n \in Nat
  BY <1>5, LimitIs
<1>7. W \subseteq Key
  BY <1>3, <1>4
<1>8. IsBeginning(q, n, W, taken)
  BY <1>6, <1>7, FirstOfIs
<1>9. /\ taken \subseteq W /\ Cardinality(taken) <= n
      /\ \A j \in W, k \in taken : Precedes(q, j, k) => j \in taken
      /\ taken = W \/ Cardinality(taken) = n
  BY <1>8 DEF IsBeginning
<1>10. /\ \A k \in W : k \in t[l].keys /\ AtOrAfter(q, at, k) /\ k \in RangeOf(q)
       /\ \A k \in t[l].keys \cap RangeOf(q) : AtOrAfter(q, at, k) => k \in W
       /\ W \subseteq ahead /\ \A k \in ahead : k \notin W => ~WithinEnd(q, k)
  BY <1>4
<1>11. ahead \subseteq t[l].keys /\ \A k \in ahead : AtOrAfter(q, at, k)
  BY DEF Ahead, AtOrAfter
<1> HIDE DEF W
<1>12. kv \cap taken = {}
  BY <1>9, <1>10
<1>13. taken \subseteq Key /\ IsFiniteSet(taken) /\ Cardinality(taken) \in Nat
  BY <1>7, <1>9, KeysFinite
<1>14. Cardinality(all) = Cardinality(kv) + Cardinality(taken)
  <2>1. Cardinality(kv \cup taken)
          = Cardinality(kv) + Cardinality(taken) - Cardinality(kv \cap taken)
    BY <1>5, <1>13, FS_Union
  <2>2. Cardinality(kv \cap taken) = 0
    BY <1>12, FS_EmptySet
  <2> QED
    BY <2>1, <2>2, <1>5, <1>13
<1>15. Cardinality(all) <= Limit(q) /\ (Cardinality(taken) = n => Cardinality(all) = Limit(q))
  BY <1>5, <1>6, <1>9, <1>13, <1>14
<1> HIDE DEF n
<1>16. \A j \in kv, k \in Key : AtOrAfter(q, at, k) => Precedes(q, j, k)
  <2>1. ASSUME NEW j \in kv, NEW k \in Key, AtOrAfter(q, at, k) PROVE Precedes(q, j, k)
    <3>1. j \in Key /\ ~AtOrAfter(q, at, j)
      BY <1>5
    <3> QED
      BY <2>1, <3>1, PrecedesIsOrder
  <2> QED
    BY <2>1
<1>17. ASSUME NEW k \in t[l].keys \cap RangeOf(q), AtOrAfter(q, at, k), k \notin all
       PROVE  Full(q, all, k)
  <2>1. k \in W /\ k \notin taken /\ k \in Key
    BY <1>1, <1>10, <1>17
  <2>2. Cardinality(all) = Limit(q)
    BY <2>1, <1>9, <1>15
  <2>3. ASSUME NEW j \in taken PROVE Precedes(q, j, k)
    <3>1. j \in Key /\ j # k /\ ~Precedes(q, k, j)
      BY <1>9, <1>13, <2>1
    <3> QED
      BY <2>1, <3>1, PrecedesIsOrder
  <2> QED
    BY <1>16, <1>17, <2>1, <2>2, <2>3 DEF Full
<1>18. ASSUME NEW k, Full(q, kv, k) PROVE Full(q, all, k)
  <2>1. Cardinality(taken) = 0
    BY <1>18, <1>6, <1>9, <1>13 DEF Full, n
  <2>2. taken = {}
    BY <1>13, <2>1, FS_EmptySet
  <2>3. all = kv
    BY <2>2
  <2> QED
    BY <1>18, <2>3
<1>19. ASSUME ahead # taken, NEW k \in RangeOf(q), AtOrAfter(q, at, k), LeafOf(t, k) # l
       PROVE  Full(q, all, k)
  <2>1. k \in Key
    BY <1>1
  <2>2. PICK x \in ahead : x \notin taken
    BY <1>9, <1>10, <1>19
  <2>3. Onward(q, t, l) # {}
    BY <1>19, <2>1, NextLeaf
  <2>4. PICK o \in Key : \A j \in Key : AtOrAfter(q, at, j) =>
                            (LeafOf(t, j) = l <=> ~AtOrAfter(q, o, j))
    BY <2>3, NextLeaf
  <2>5. ASSUME NEW y \in ahead PROVE Precedes(q, y, k)
    <3>1. y \in t[l].keys /\ AtOrAfter(q, at, y) /\ y \in Key
      BY <1>3, <1>11
    <3>2. LeafOf(t, y) = l
      BY <1>2, <3>1, LeafOfIs DEF TreeOK
    <3>3. ~AtOrAfter(q, o, y) /\ AtOrAfter(q, o, k)
      BY <1>19, <2>1, <2>4, <3>1, <3>2
    <3> QED
      BY <2>1, <3>1, <3>3, PrecedesIsOrder
  <2>6. x \in W
    <3> SUFFICES ASSUME x \notin W PROVE FALSE
      OBVIOUS
    <3>1. ~WithinEnd(q, x) /\ AtOrAfter(q, at, x) /\ x \in Key
      BY <1>3, <1>10, <1>11
    <3>2. Precedes(q, k, x)
      BY <3>1, RangeIs
    <3>3. Precedes(q, x, k)
      BY <2>5
    <3> QED
      BY <2>1, <3>1, <3>2, <3>3, PrecedesIsOrder
  <2>7. Cardinality(all) = Limit(q)
    BY <2>2, <2>6, <1>9, <1>15
  <2>8. \A j \in taken : Precedes(q, j, k)
    BY <2>5, <1>9, <1>10
  <2> QED
    BY <1>16, <1>19, <2>1, <2>7, <2>8 DEF Full
<1>20. taken \subseteq t[l].keys \cap RangeOf(q) /\ all \subseteq RangeOf(q)
       /\ \A k \in taken : AtOrAfter(q, at, k)
  BY <1>9, <1>10
<1> QED
  BY <1>15, <1>17, <1>18, <1>19, <1>20 DEF VisitResult
-------------------------------------------------------------------------------
(***************************************************************************)
(* Range queries are consistent                                            *)
(***************************************************************************)
LEMMA FirstScanOK ==
    ASSUME TypeOK, NEW q \in Scans
    PROVE  /\ ScanOK(FirstScan(q), tree)
           /\ Passed(FirstScan(q)) \cap RangeOf(q) = {}
<1>1. q \in ScanCalls
  BY IndexAssumption
<1>2. StartKey(q) \in Key
  BY <1>1 DEF ScanCalls, StartKey
<1>3. AtOrAfter(q, StartKey(q), StartKey(q))
  BY <1>2, PrecedesIsOrder
<1>4. \A k \in RangeOf(q) : AtOrAfter(q, StartKey(q), k)
  BY <1>1, <1>2, <1>3, RangeIs
<1>5. Limit(q) \in Nat /\ Cardinality({}) = 0
  BY <1>1, LimitIs, FS_EmptySet
<1> DEFINE s == FirstScan(q)
<1>6. /\ s.call = q /\ s.at = StartKey(q) /\ s.kv_map = {} /\ ~s.done
      /\ s.stayed = Present(tree) /\ s.ever = Present(tree)
  BY DEF FirstScan
<1> HIDE DEF s
<1>7. Passed(s) \cap RangeOf(q) = {}
  BY <1>4, <1>6 DEF Passed
<1>8. Underway(s, tree)
  BY <1>3, <1>6 DEF Underway
<1>9. Delivers(q, {}, s.stayed \cap Passed(s)) /\ Cardinality({}) <= Limit(q)
  BY <1>5, <1>7 DEF Delivers
<1>10. ScanOK(s, tree)
  BY <1>6, <1>8, <1>9 DEF ScanOK, Reached
<1> QED
  BY <1>7, <1>10 DEF s

\* A scan of another client while the tree changes
LEMMA ScanOKKept ==
    ASSUME TypeOK, NEW c \in Clients, NEW t, TreeOK(t), NEW mine, Observe(c, t, mine),
           ScansOK, NEW d \in Clients, scan'[d] # NoScan
    PROVE  /\ ScanOK(scan'[d], t) /\ d # c
           /\ scan'[d].done /\ scan'[d].exception_caught => ~Alive(d)
<1>1. d # c
  BY ObserveScans
<1>2. CASE scan[d].done
  <2>1. scan'[d] = scan[d] /\ ScanOK(scan[d], tree)
    BY <1>1, <1>2, ObserveScans DEF ScansOK
  <2> QED
    BY <1>1, <1>2, <2>1 DEF ScanOK, ScansOK, Reached
<1>3. CASE ~scan[d].done
  <2>1. PICK s : s = scan[d]
    OBVIOUS
  <2>2. PICK r : r = scan'[d]
    OBVIOUS
  <2>3. /\ ~s.done /\ ~r.done
        /\ r.call = s.call /\ r.at = s.at /\ r.kv_map = s.kv_map
        /\ r.exception_caught = s.exception_caught
        /\ r.stayed = s.stayed \cap Present(t)
        /\ r.ever = s.ever \cup Present(t)
    BY <1>1, <1>3, <2>1, <2>2, ObserveScans
  <2>4. ScanOK(s, tree)
    BY <1>3, <2>1, ScanTyped DEF ScansOK
  <2>5. Passed(r) = Passed(s)
    BY <2>3 DEF Passed
  <2>6. Underway(r, t)
    BY <2>3, <2>4, <2>5 DEF ScanOK, Underway
  <2>7. ~r.exception_caught => Delivers(r.call, r.kv_map, r.stayed \cap Passed(r))
    BY <2>3, <2>4, <2>5 DEF ScanOK, Delivers, Reached
  <2> QED
    BY <1>1, <2>2, <2>3, <2>4, <2>6, <2>7 DEF ScanOK, Reached
<1> QED
  BY <1>2, <1>3

\* A scan that goes on is past the keys of the leaf.
LEMMA VisitUnderway ==
    ASSUME TypeOK, NEW c \in Clients, ~scan[c].done, ScanOK(scan[c], tree),
           NEW s, NEW q, NEW l, NEW caught, NEW ahead, NEW taken, NEW onward, NEW done,
           Visited(c, s, q, l, caught, ahead, taken, onward, done), ~done
    PROVE  Underway(scan'[c], tree)
<1>1. /\ s \in ScanRecord /\ q \in ScanCalls /\ l \in DOMAIN tree
      /\ taken \subseteq ahead /\ ahead \subseteq tree[l].keys /\ tree[l].keys \subseteq Key
  BY VisitedState
<1>2. /\ s = scan[c] /\ q = s.call
      /\ l = LeafOf(tree, s.at) /\ ahead = Ahead(q, s.at, tree[l].keys)
      /\ onward = Onward(q, tree, l)
  BY DEF Visited
<1>3. PICK kv : kv = s.kv_map
  OBVIOUS
<1>4. PICK at : at = s.at
  OBVIOUS
<1>5. TreeOK(tree) /\ at \in Key /\ kv \subseteq Key
  BY <1>1, <1>3, <1>4 DEF TypeOK, ScanRecord
<1>6. /\ AtOrAfter(q, StartKey(q), at) /\ \A j \in kv : ~AtOrAfter(q, at, j)
      /\ s.stayed \subseteq Present(tree) /\ Present(tree) \subseteq s.ever
  BY <1>2, <1>3, <1>4 DEF ScanOK, Underway, Passed
<1>7. \A k \in taken : AtOrAfter(q, at, k)
  BY <1>1, <1>2, <1>4 DEF Ahead, AtOrAfter
<1>8. PICK r : r = scan'[c]
  OBVIOUS
<1>9. PICK x \in Key :
         /\ onward = {x} /\ r.at = x /\ r.call = q /\ r.kv_map = kv \cup taken
         /\ r.stayed = s.stayed /\ r.ever = s.ever
  <2>1. PICK x \in Key :
          /\ ~done => onward = {x}
          /\ scan'[c] = [done |-> done, call |-> q, at |-> IF done THEN s.at ELSE x,
                         kv_map |-> s.kv_map \cup taken, exception_caught |-> caught,
                         stayed |-> s.stayed, ever |-> s.ever]
    BY VisitedState
  <2> QED
    BY <1>3, <1>8, <2>1
<1>10. l = LeafOf(tree, at) /\ Onward(q, tree, l) # {}
  BY <1>2, <1>4, <1>9
<1>11. /\ AtOrAfter(q, at, x) /\ ~AtOrAfter(q, x, at)
       /\ \A j \in Key : AtOrAfter(q, at, j) => (LeafOf(tree, j) = l <=> ~AtOrAfter(q, x, j))
  <2>1. PICK y \in Key :
           /\ Onward(q, tree, l) = {y}
           /\ AtOrAfter(q, at, y) /\ ~AtOrAfter(q, y, at)
           /\ \A j \in Key : AtOrAfter(q, at, j) =>
                 (LeafOf(tree, j) = l <=> ~AtOrAfter(q, y, j))
    BY <1>5, <1>10, NextLeaf
  <2>2. y = x
    BY <1>2, <1>9, <2>1
  <2> QED
    BY <2>1, <2>2
<1>12. AtOrAfter(q, StartKey(q), x)
  <2>1. StartKey(q) \in Key
    BY <1>1 DEF ScanCalls, StartKey
  <2> QED
    BY <1>5, <1>6, <1>11, <2>1, PrecedesIsOrder
<1>13. ASSUME NEW j \in kv \cup taken PROVE j \in Key /\ ~AtOrAfter(q, x, j)
  <2>1. j \in Key
    BY <1>1, <1>5
  <2>2. CASE j \in kv
    <3>1. Precedes(q, j, at) /\ Precedes(q, at, x)
      BY <1>5, <1>6, <1>11, <2>1, <2>2, PrecedesIsOrder
    <3>2. Precedes(q, j, x)
      BY <1>5, <2>1, <3>1, PrecedesIsOrder
    <3>3. ~(Precedes(q, j, x) /\ Precedes(q, x, j)) /\ ~Precedes(q, j, j)
      BY <2>1, PrecedesIsOrder
    <3>4. AtOrAfter(q, x, j) <=> x = j \/ Precedes(q, x, j)
      BY <2>1, PrecedesIsOrder
    <3> QED
      BY <2>1, <3>2, <3>3, <3>4
  <2>3. CASE j \in taken
    <3>1. j \in tree[l].keys /\ AtOrAfter(q, at, j)
      BY <1>1, <1>7, <2>3
    <3>2. LeafOf(tree, j) = l
      BY <1>1, <1>5, <2>1, <3>1, LeafOfIs DEF TreeOK
    <3> QED
      BY <1>11, <2>1, <3>1, <3>2
  <2> QED
    BY <2>2, <2>3
<1> QED
  BY <1>6, <1>8, <1>9, <1>12, <1>13 DEF Underway, Passed

\* The answer so far, with the keys taken from leaf l, for a set of keys that are
\* found in their leaves
VisitAdds(c, s, q, l, taken, done, S) ==
    /\ Delivers(q, s.kv_map \cup taken, Reached(S, scan'[c]))
    /\ taken \subseteq Present(tree)
    /\ \A k : Full(q, s.kv_map, k) => Full(q, s.kv_map \cup taken, k)
    /\ \A k \in RangeOf(q) : AtOrAfter(q, s.at, k) /\ LeafOf(tree, k) # l =>
          IF done THEN Full(q, s.kv_map \cup taken, k) ELSE k \notin Passed(scan'[c])

LEMMA VisitDelivers ==
    ASSUME TypeOK, NEW c \in Clients, ~scan[c].done, ScanOK(scan[c], tree),
           NEW s, NEW q, NEW l, NEW caught, NEW ahead, NEW taken, NEW onward, NEW done,
           Visited(c, s, q, l, caught, ahead, taken, onward, done), caught = FALSE,
           NEW S, S \subseteq Present(tree), Delivers(q, s.kv_map, S \cap Passed(s))
    PROVE  VisitAdds(c, s, q, l, taken, done, S)
<1>1. /\ s \in ScanRecord /\ q \in ScanCalls /\ l \in DOMAIN tree /\ s = scan[c] /\ q = s.call
      /\ l = LeafOf(tree, s.at) /\ ahead = Ahead(q, s.at, tree[l].keys)
      /\ taken = FirstOf(q, Limit(q) - Cardinality(s.kv_map),
                         {k \in ahead : WithinEnd(q, k)})
      /\ onward = Onward(q, tree, l) /\ done = (ahead # taken \/ onward = {})
  <2>1. s \in ScanRecord /\ q \in ScanCalls /\ l \in DOMAIN tree
    BY VisitedState
  <2>2. /\ s = scan[c] /\ q = s.call
        /\ l = LeafOf(tree, s.at) /\ ahead = Ahead(q, s.at, tree[l].keys)
        /\ taken = FirstOf(q, Limit(q) - Cardinality(s.kv_map),
                           {k \in ahead : WithinEnd(q, k)})
        /\ onward = Onward(q, tree, l) /\ done = (ahead # taken \/ onward = {})
    BY DEF Visited
  <2> QED
    BY <2>1, <2>2
<1>2. PICK kv : kv = s.kv_map
  OBVIOUS
<1>3. PICK at : at = s.at
  OBVIOUS
<1>4. PICK all : all = kv \cup taken
  OBVIOUS
<1>5. TreeOK(tree) /\ at \in Key
  BY <1>1, <1>3 DEF TypeOK, ScanRecord
<1>6. /\ AtOrAfter(q, StartKey(q), at) /\ kv \subseteq RangeOf(q)
      /\ Cardinality(kv) <= Limit(q) /\ \A j \in kv : ~AtOrAfter(q, at, j)
      /\ s.stayed \subseteq Present(tree) /\ Present(tree) \subseteq s.ever
  BY <1>1, <1>2, <1>3 DEF ScanOK, Underway, Passed
<1>7. /\ taken \subseteq tree[l].keys \cap RangeOf(q) /\ all \subseteq RangeOf(q)
      /\ \A k \in taken : AtOrAfter(q, at, k)
      /\ Cardinality(all) <= Limit(q)
      /\ \A k \in tree[l].keys \cap RangeOf(q) :
            AtOrAfter(q, at, k) => k \in all \/ Full(q, all, k)
      /\ \A k : Full(q, kv, k) => Full(q, all, k)
      /\ ahead # taken =>
            \A k \in RangeOf(q) :
               AtOrAfter(q, at, k) /\ LeafOf(tree, k) # l => Full(q, all, k)
  <2>1. l = LeafOf(tree, at) /\ ahead = Ahead(q, at, tree[l].keys)
        /\ taken = FirstOf(q, Limit(q) - Cardinality(kv), {k \in ahead : WithinEnd(q, k)})
    BY <1>1, <1>2, <1>3
  <2>2. q \in ScanCalls
    BY <1>1
  <2>3. VisitResult(tree, q, at, kv, l, ahead, taken, all)
    BY <1>4, <1>5, <1>6, <2>1, <2>2, VisitKeys
  <2> QED
    BY <2>3 DEF VisitResult
<1>8. /\ RangeOf(q) \subseteq Key /\ Present(tree) \subseteq Key
      /\ \A k \in Key : k \in Present(tree) <=> k \in tree[LeafOf(tree, k)].keys
  BY <1>1, <1>5, <1>6, RangeIs, PresentIs
<1>9. taken \subseteq Present(tree)
  BY <1>1, <1>7 DEF Present
<1>10. PICK r : r = scan'[c]
  OBVIOUS
<1>11. /\ r.done = done /\ r.call = q /\ r.kv_map = all
       /\ r.stayed = s.stayed /\ r.ever = s.ever
       /\ done => r.at = at
       /\ ~done => \E x \in Key : onward = {x} /\ r.at = x
  <2>1. PICK x \in Key :
          /\ ~done => onward = {x}
          /\ scan'[c] = [done |-> done, call |-> q, at |-> IF done THEN s.at ELSE x,
                         kv_map |-> s.kv_map \cup taken, exception_caught |-> caught,
                         stayed |-> s.stayed, ever |-> s.ever]
    BY VisitedState
  <2> QED
    BY <1>2, <1>3, <1>4, <1>10, <2>1
<1>12. ASSUME NEW k \in RangeOf(q), AtOrAfter(q, at, k), LeafOf(tree, k) # l
       PROVE  IF done THEN Full(q, all, k) ELSE k \notin Passed(r)
  <2>1. k \in Key
    BY <1>8
  <2>2. CASE done
    <3>1. onward # {}
      BY <1>1, <1>3, <1>5, <1>12, <2>1, NextLeaf
    <3> QED
      BY <1>1, <1>7, <1>12, <2>2, <3>1
  <2>3. CASE ~done
    <3>1. PICK x \in Key : onward = {x} /\ r.at = x
      BY <1>11, <2>3
    <3>0. l = LeafOf(tree, at) /\ Onward(q, tree, l) # {}
      BY <1>1, <1>3, <3>1
    <3>2. PICK y \in Key :
             /\ Onward(q, tree, l) = {y}
             /\ AtOrAfter(q, at, y) /\ ~AtOrAfter(q, y, at)
             /\ \A j \in Key : AtOrAfter(q, at, j) =>
                   (LeafOf(tree, j) = l <=> ~AtOrAfter(q, y, j))
      BY <1>5, <3>0, NextLeaf
    <3>3. y = x
      BY <1>1, <3>1, <3>2
    <3> QED
      BY <1>11, <1>12, <2>1, <2>3, <3>1, <3>2, <3>3 DEF Passed
  <2> QED
    BY <2>2, <2>3
<1>13. ASSUME NEW k \in S \cap RangeOf(q), done \/ k \in Passed(r)
       PROVE  k \in all \/ Full(q, all, k)
  <2>1. k \in Key /\ k \in Present(tree)
    BY <1>8
  <2>2. CASE ~AtOrAfter(q, at, k)
    <3>1. k \in S \cap Passed(s)
      BY <1>1, <1>3, <2>1, <2>2 DEF Passed
    <3>2. k \in kv \/ Full(q, kv, k)
      BY <1>2, <3>1 DEF Delivers
    <3> QED
      BY <1>4, <1>7, <3>2
  <2>3. CASE AtOrAfter(q, at, k) /\ LeafOf(tree, k) = l
    BY <1>7, <1>8, <2>1, <2>3
  <2>4. CASE AtOrAfter(q, at, k) /\ LeafOf(tree, k) # l
    BY <1>12, <1>13, <2>4
  <2> QED
    BY <2>2, <2>3, <2>4
<1>14. Delivers(q, all, Reached(S, r))
  <2>1. \A k \in Reached(S, r) : k \in S /\ (done \/ k \in Passed(r))
    BY <1>11 DEF Reached
  <2> QED
    BY <1>7, <1>13, <2>1 DEF Delivers
<1> QED
  BY <1>2, <1>3, <1>4, <1>7, <1>9, <1>10, <1>12, <1>14 DEF VisitAdds

LEMMA VisitedScanOK ==
    ASSUME TypeOK, NEW c \in Clients, ~scan[c].done, ScanOK(scan[c], tree),
           NEW s, NEW q, NEW l, NEW caught, NEW ahead, NEW taken, NEW onward, NEW done,
           Visited(c, s, q, l, caught, ahead, taken, onward, done)
    PROVE  ScanOK(scan'[c], tree)
<1>1. s \in ScanRecord /\ q \in ScanCalls /\ caught \in BOOLEAN /\ done \in BOOLEAN
  BY VisitedState
<1>2. /\ s = scan[c] /\ q = s.call /\ (s.exception_caught => caught)
      /\ caught => taken = {}
  BY DEF Visited
<1>3. PICK r : r = scan'[c]
  OBVIOUS
<1>4. /\ r.done = done /\ r.call = q /\ r.kv_map = s.kv_map \cup taken
      /\ r.exception_caught = caught /\ r.stayed = s.stayed /\ r.ever = s.ever
  <2>1. PICK x \in Key :
          scan'[c] = [done |-> done, call |-> q, at |-> IF done THEN s.at ELSE x,
                      kv_map |-> s.kv_map \cup taken, exception_caught |-> caught,
                      stayed |-> s.stayed, ever |-> s.ever]
    BY VisitedState
  <2> QED
    BY <1>3, <2>1
<1>5. ~done => Underway(r, tree)
  BY <1>3, VisitUnderway
<1>6. s.kv_map \subseteq s.ever /\ s.kv_map \subseteq RangeOf(q)
      /\ Cardinality(s.kv_map) <= Limit(q)
      /\ s.stayed \subseteq Present(tree) /\ Present(tree) \subseteq s.ever
  BY <1>2 DEF ScanOK, Underway
<1>7. CASE caught
  BY <1>2, <1>3, <1>4, <1>5, <1>6, <1>7 DEF ScanOK
<1>8. CASE caught = FALSE
  <2>1. Delivers(q, s.kv_map, s.stayed \cap Passed(s))
    BY <1>2, <1>8 DEF ScanOK, Reached
  <2>0. PICK S : S = s.stayed
    OBVIOUS
  <2>4. S \subseteq Present(tree) /\ Delivers(q, s.kv_map, S \cap Passed(s))
    BY <1>6, <2>0, <2>1
  <2>5. /\ Delivers(q, s.kv_map \cup taken, Reached(S, scan'[c]))
        /\ taken \subseteq Present(tree)
    <3>1. VisitAdds(c, s, q, l, taken, done, S)
      BY <1>8, <2>4, VisitDelivers
    <3> QED
      BY <3>1 DEF VisitAdds
  <2>2. /\ Delivers(q, s.kv_map \cup taken, Reached(s.stayed, scan'[c]))
        /\ taken \subseteq Present(tree)
    BY <2>0, <2>5
  <2>3. /\ s.kv_map \cup taken \subseteq RangeOf(q)
        /\ Cardinality(s.kv_map \cup taken) <= Limit(q)
    BY <2>2 DEF Delivers
  <2> QED
    BY <1>3, <1>4, <1>5, <1>6, <2>2, <2>3 DEF ScanOK
<1> QED
  BY <1>1, <1>7, <1>8

LEMMA ScansStep == MapInv /\ ScansOK /\ [Next]_vars => ScansOK'
<1> SUFFICES ASSUME MapInv, ScansOK, [Next]_vars PROVE ScansOK'
  OBVIOUS
<1>0. TypeOK
  BY DEF MapInv
<1>1. CASE UNCHANGED vars
  BY <1>1 DEF vars, ScansOK, Alive
<1>2. CASE Next
  <2>1. PICK c \in Clients :
              \/ \E k \in Key : QuietCall(c, k)
              \/ \E k \in Key : \/ insert(c, k) /\ k \notin Present(tree)
                                \/ remove(c, k) /\ k \in Present(tree)
              \/ \E k \in Key : find_nm(c, k) /\ k \notin Present(tree)
              \/ \E k \in Key : insert_nm(c, k) /\ k \notin Present(tree)
              \/ \E q \in Scans : start_scan(c, q)
              \/ continue_scan(c)
    BY <1>2, NextCases
  <2>r. ASSUME NEW r, Return(c, r) PROVE \A d \in Clients : d # c => Alive(d)' = Alive(d)
    BY <1>0, <2>r DEF Return, TypeOK, Alive
  <2>2. ASSUME NEW r, Return(c, r), scan' = [scan EXCEPT ![c] = NoScan], UNCHANGED tree
        PROVE  ScansOK'
    <3>1. scan'[c] = NoScan /\ \A d \in Clients : d # c => scan'[d] = scan[d]
      BY <1>0, <2>2 DEF TypeOK
    <3> QED
      BY <2>2, <2>r, <3>1 DEF ScansOK
  <2>3. ASSUME NEW t, TreeOK(t), tree' = t, NEW mine, Observe(c, t, mine),
               NEW r, Return(c, r)
        PROVE  ScansOK'
    BY <1>0, <2>3, <2>r, ScanOKKept DEF ScansOK
  <2>4. ASSUME NEW k \in Key, QuietCall(c, k) PROVE ScansOK'
    BY <2>2, <2>4, QuietIs
  <2>5. ASSUME NEW k \in Key, \/ insert(c, k) /\ k \notin Present(tree)
                              \/ remove(c, k) /\ k \in Present(tree)
        PROVE  ScansOK'
    BY <1>0, <2>3, <2>5, ChangedTree
  <2>6. ASSUME NEW k \in Key, find_nm(c, k), k \notin Present(tree) PROVE ScansOK'
    BY <2>2, <2>6, MissIs
  <2>7. ASSUME NEW k \in Key, insert_nm(c, k), k \notin Present(tree) PROVE ScansOK'
    <3>1. PICK u, v, l : u \in WithRoom(tree, k) /\ Inserted(c, k, u, v, l)
      BY <1>0, <2>7, InsertCases
    <3>2. TreeOK(v)
      BY <1>0, <3>1, InsertOK DEF Inserted, TypeOK
    <3>3. tree' = v /\ (\E mine : Observe(c, v, mine)) /\ \E r : Return(c, r)
      BY <3>1 DEF Inserted
    <3> QED
      BY <2>3, <3>2, <3>3
  <2>8. ASSUME NEW q \in Scans, start_scan(c, q) PROVE ScansOK'
    <3>1. scan' = [scan EXCEPT ![c] = FirstScan(q)] /\ UNCHANGED tree /\ Return(c, "OK")
      BY <1>0, <2>8, StartIs
    <3>2. ScanOK(FirstScan(q), tree) /\ ~FirstScan(q).done
      <4>1. ~FirstScan(q).done
        BY DEF FirstScan
      <4> QED
        BY <1>0, <4>1, FirstScanOK
    <3>3. scan'[c] = FirstScan(q) /\ \A d \in Clients : d # c => scan'[d] = scan[d]
      BY <1>0, <3>1 DEF TypeOK
    <3> QED
      BY <2>r, <3>1, <3>2, <3>3 DEF ScansOK
  <2>9. ASSUME continue_scan(c) PROVE ScansOK'
    <3>1. ~scan[c].done
      BY <2>9, VisitIs
    <3>2. PICK s, q, l, caught, ahead, taken, onward, done :
             Visited(c, s, q, l, caught, ahead, taken, onward, done)
      BY <2>9, VisitIs
    <3>3. ScanOK(scan[c], tree)
      BY <1>0, <3>1, ScanTyped DEF ScansOK
    <3>4. ScanOK(scan'[c], tree)
      BY <1>0, <3>1, <3>2, <3>3, VisitedScanOK
    <3>5. tree' = tree
      BY <3>2 DEF Visited
    <3>6. \A d \in Clients : d # c => scan'[d] = scan[d] /\ Alive(d)' = Alive(d)
      BY <1>0, <3>1, <3>2, VisitedState DEF Alive
    <3>7. scan'[c].done /\ scan'[c].exception_caught => ~Alive(c)'
      <4>1. PICK x \in Key :
              scan'[c] = [done |-> done, call |-> q, at |-> IF done THEN s.at ELSE x,
                          kv_map |-> s.kv_map \cup taken, exception_caught |-> caught,
                          stayed |-> s.stayed, ever |-> s.ever]
        BY <1>0, <3>1, <3>2, VisitedState
      <4>2. scan'[c].done = done /\ scan'[c].exception_caught = caught
        BY <4>1
      <4>3. res'[c] = IF done /\ caught THEN "BAD_SCAN" ELSE res[c]
        BY <1>0, <3>1, <3>2, VisitedState
      <4> QED
        BY <4>2, <4>3 DEF Alive, Bad
    <3> QED
      BY <3>4, <3>5, <3>6, <3>7 DEF ScansOK
  <2> QED
    BY <2>1, <2>4, <2>5, <2>6, <2>7, <2>8, <2>9
<1> QED
  BY <1>1, <1>2

\* Among concurrent inserts, removes and splits a finished range query has
\* delivered only keys of its range that were there at some time during the
\* scan, and, up to its limit and in its direction, all that were there all the
\* time (scan and rscan of masstree_wrapper.hpp).
THEOREM RangeQueriesConsistent == Spec => []ScansConsistent
<1>1. Init => ScansOK
  BY DEF Init, ScansOK
<1>2. MapInv /\ ScansOK /\ [Next]_vars => ScansOK'
  BY ScansStep
<1>3. MapInv /\ ScansOK => ScansConsistent
  <2> SUFFICES ASSUME MapInv, ScansOK, NEW c \in Clients, Alive(c), scan[c].done,
                      scan[c] # NoScan
               PROVE  LET s == scan[c]
                          q == s.call
                      IN  /\ s.kv_map \subseteq s.ever \cap RangeOf(q)
                          /\ Cardinality(s.kv_map) <= Limit(q)
                          /\ \A k \in s.stayed \cap RangeOf(q) :
                               \/ k \in s.kv_map
                               \/ /\ Cardinality(s.kv_map) = Limit(q)
                                  /\ \A j \in s.kv_map : IF Backward(q) THEN j > k ELSE j < k
    BY DEF ScansConsistent
  <2>1. PICK s : s = scan[c]
    OBVIOUS
  <2>2. ScanOK(s, tree) /\ s.done /\ ~s.exception_caught
    BY <2>1 DEF ScansOK
  <2> QED
    BY <2>1, <2>2 DEF ScanOK, Reached, Delivers, Full, Precedes
<1> QED
  BY <1>1, <1>2, <1>3, MapInvariance, PTL DEF Spec
-------------------------------------------------------------------------------
(***************************************************************************)
(* No phantoms                                                             *)
(***************************************************************************)
LEMMA QueryIs ==
    ASSUME NEW q \in Queries
    PROVE  RangeOf(q) \subseteq Key /\ Limit(q) \in Nat \ {0}
<1>1. CASE q \in Scans
  <2>1. q \in ScanCalls
    BY <1>1, IndexAssumption
  <2>2. StartKey(q) \in Key
    BY <2>1 DEF ScanCalls, StartKey
  <2>3. AtOrAfter(q, StartKey(q), StartKey(q))
    BY <2>2, PrecedesIsOrder
  <2> QED
    BY <2>1, <2>2, <2>3, RangeIs, LimitIs
<1>2. CASE \E k \in Key : q = FindCall(k)
  <2>1. PICK k \in Key : q = FindCall(k)
    BY <1>2
  <2>2. q.api = "find" /\ q.lkey = k
    BY <2>1 DEF FindCall
  <2>3. RangeOf(q) = {k}
    BY <2>2 DEF RangeOf
  <2> QED
    BY <1>2, <2>3, LimitIs
<1> QED
  BY <1>1, <1>2 DEF Queries

\* An answer that is covered is the answer on the keys there are.
LEMMA CoveredAnswer ==
    ASSUME NEW q \in Queries, NEW kv, NEW S, S \subseteq Key, NEW m, NEW t,
           Covered(q, kv, S, Key, m, t)
    PROVE  Answer(q, S) = kv
<1> DEFINE R == S \cap RangeOf(q)
<1>1. R \subseteq Key /\ Limit(q) \in Nat
  BY QueryIs
<1>2. /\ kv \subseteq R /\ Cardinality(kv) <= Limit(q)
      /\ \A k \in R : k \in kv \/ Full(q, kv, k)
  BY DEF Covered, Delivers
<1>3. Answer(q, S) = FirstOf(q, Limit(q), R)
  BY DEF Answer
<1> HIDE DEF R
<1>4. \A j \in R, k \in kv : Precedes(q, j, k) => j \in kv
  <2> SUFFICES ASSUME NEW j \in R, NEW k \in kv, Precedes(q, j, k), j \notin kv PROVE FALSE
    OBVIOUS
  <2>1. Precedes(q, k, j)
    BY <1>2 DEF Full
  <2>2. j \in Key /\ k \in Key
    BY <1>1, <1>2
  <2> QED
    BY <2>1, <2>2, PrecedesIsOrder
<1>5. kv = R \/ Cardinality(kv) = Limit(q)
  BY <1>2 DEF Full
<1>6. IsBeginning(q, Limit(q), R, kv)
  BY <1>2, <1>4, <1>5 DEF IsBeginning
<1>7. IsBeginning(q, Limit(q), R, FirstOf(q, Limit(q), R))
  BY <1>1, FirstOfIs
<1> QED
  BY <1>1, <1>3, <1>6, <1>7, BeginningUnique

\* An answer stays covered while the leaves it rests on keep their keys.
LEMMA CoveredKept ==
    ASSUME NEW q \in Queries, NEW kv, NEW S, NEW P, P \subseteq Key, kv \subseteq P,
           NEW m, NEW t, Covered(q, kv, S, P, m, t),
           NEW S2, NEW m2, NEW t2, DOMAIN m \subseteq DOMAIN m2,
           \A k \in Key : LeafOf(t, k) \in DOMAIN m =>
               LeafOf(t2, k) = LeafOf(t, k) /\ (k \in S2 <=> k \in S)
    PROVE  Covered(q, kv, S2, P, m2, t2)
<1>1. /\ kv \subseteq S /\ kv \subseteq RangeOf(q) /\ Cardinality(kv) <= Limit(q)
      /\ \A k \in (S \cap P) \cap RangeOf(q) : k \in kv \/ Full(q, kv, k)
      /\ \A k \in RangeOf(q) \cap P : LeafOf(t, k) \in DOMAIN m \/ Full(q, kv, k)
  BY DEF Covered, Delivers
<1>2. kv \subseteq S2
  <2> SUFFICES ASSUME NEW k \in kv PROVE k \in S2
    OBVIOUS
  <2>1. k \in Key /\ k \in P /\ k \in S /\ k \in RangeOf(q)
    BY <1>1
  <2>2. ~Full(q, kv, k)
    BY <2>1, PrecedesIsOrder DEF Full
  <2> QED
    BY <1>1, <2>1, <2>2
<1>3. ASSUME NEW k \in (S2 \cap P) \cap RangeOf(q) PROVE k \in kv \/ Full(q, kv, k)
  <2>1. k \in Key /\ k \in P /\ k \in RangeOf(q) /\ k \in S2
    OBVIOUS
  <2>2. CASE LeafOf(t, k) \in DOMAIN m
    BY <1>1, <2>1, <2>2
  <2>3. CASE LeafOf(t, k) \notin DOMAIN m
    BY <1>1, <2>1, <2>3
  <2> QED
    BY <2>2, <2>3
<1>4. ASSUME NEW k \in RangeOf(q) \cap P PROVE LeafOf(t2, k) \in DOMAIN m2 \/ Full(q, kv, k)
  <2>1. k \in Key
    OBVIOUS
  <2> QED
    BY <1>1, <1>4, <2>1
<1> QED
  BY <1>1, <1>2, <1>3, <1>4 DEF Covered, Delivers

\* The leaves of a NodeMap that is not out of date keep their keys.
LEMMA CleanLeaves ==
    ASSUME NEW t, NEW u, TreeOK(t), TreeOK(u), Grown(t, u), NEW M,
           \A x \in M : u[x] = t[x], NEW k \in Key, LeafOf(t, k) \in M
    PROVE  LeafOf(u, k) = LeafOf(t, k) /\ (k \in Present(u) <=> k \in Present(t))
<1>1. PICK l : l = LeafOf(t, k)
  OBVIOUS
<1>2. u[l] = t[l]
  BY <1>1
<1>3. LeafOf(u, k) = l
  BY <1>1, <1>2 DEF Grown
<1>4. /\ k \in Present(u) <=> k \in u[l].keys
      /\ k \in Present(t) <=> k \in t[l].keys
  BY <1>1, <1>3, PresentIs
<1> QED
  BY <1>1, <1>2, <1>3, <1>4

\* What a client has seen stays covered while its leaves stay as they are.
LEMMA SeenKept ==
    ASSUME MapInv, ScansOK, NEW d \in Clients, SeenOK(d), disturbed[d] = {},
           TreeOK(tree'), Grown(tree, tree'), NEW m, DOMAIN nm[d] \subseteq DOMAIN m,
           \A x \in DOMAIN nm[d] : tree'[x] = tree[x]
    PROVE  /\ \A s \in seen[d] :
                 Covered(s.call, s.keys, Present(tree') \ s.later, Key, m, tree')
           /\ ~scan[d].done /\ scan[d].call.nm =>
                 Covered(scan[d].call, scan[d].kv_map, Present(tree'), Passed(scan[d]), m, tree')
<1>1. TypeOK /\ TreeOK(tree)
  BY DEF MapInv, TypeOK
<1>2. ASSUME NEW k \in Key, LeafOf(tree, k) \in DOMAIN nm[d]
      PROVE  LeafOf(tree', k) = LeafOf(tree, k) /\ (k \in Present(tree') <=> k \in Present(tree))
  BY <1>1, <1>2, CleanLeaves
<1>3. ASSUME NEW s \in seen[d]
      PROVE  Covered(s.call, s.keys, Present(tree') \ s.later, Key, m, tree')
  <2>1. s.call \in Queries /\ s.keys \subseteq Key
    BY DEF SeenOK, SeenRecord
  <2>2. Covered(s.call, s.keys, Present(tree) \ s.later, Key, nm[d], tree)
    BY DEF SeenOK
  <2>3. \A k \in Key : LeafOf(tree, k) \in DOMAIN nm[d] =>
           /\ LeafOf(tree', k) = LeafOf(tree, k)
           /\ k \in Present(tree') \ s.later <=> k \in Present(tree) \ s.later
    BY <1>2
  <2> QED
    BY <2>1, <2>2, <2>3, CoveredKept
<1>4. ASSUME ~scan[d].done, scan[d].call.nm
      PROVE  Covered(scan[d].call, scan[d].kv_map, Present(tree'), Passed(scan[d]), m, tree')
  <2>1. scan[d] # NoScan /\ scan[d] \in ScanRecord
    BY <1>1, <1>4, ScanTyped
  <2>2. scan[d].call \in Queries
    BY <2>1 DEF ScanRecord, Queries
  <2>3. scan[d].kv_map \subseteq Passed(scan[d]) /\ Passed(scan[d]) \subseteq Key
    BY <1>4, <2>1 DEF ScansOK, ScanOK, Underway, Passed
  <2>4. Covered(scan[d].call, scan[d].kv_map, Present(tree), Passed(scan[d]), nm[d], tree)
    BY <1>4 DEF SeenOK
  <2> QED
    BY <1>2, <2>2, <2>3, <2>4, CoveredKept
<1> QED
  BY <1>3, <1>4

\* A client that makes no call on its NodeMap
LEMMA SeenOKKept ==
    ASSUME MapInv, ScansOK, NEW d \in Clients, SeenOK(d),
           TreeOK(tree'), Grown(tree, tree'), nm'[d] = nm[d], seen'[d] = seen[d],
           disturbed'[d] = disturbed[d] \cup {x \in DOMAIN nm[d] : tree'[x] # tree[x]},
           \/ scan'[d].done
           \/ /\ ~scan[d].done
              /\ scan'[d].call = scan[d].call /\ scan'[d].at = scan[d].at
              /\ scan'[d].kv_map = scan[d].kv_map
    PROVE  SeenOK(d)'
<1>1. seen'[d] \subseteq SeenRecord
  BY DEF SeenOK
<1>2. ASSUME disturbed'[d] = {}
      PROVE  /\ \A s \in seen'[d] :
                   Covered(s.call, s.keys, Present(tree') \ s.later, Key, nm'[d], tree')
             /\ ~scan'[d].done /\ scan'[d].call.nm =>
                   Covered(scan'[d].call, scan'[d].kv_map, Present(tree'), Passed(scan'[d]),
                           nm'[d], tree')
  <2>1. disturbed[d] = {} /\ \A x \in DOMAIN nm[d] : tree'[x] = tree[x]
    BY <1>2
  <2>2. PICK m : m = nm'[d]
    OBVIOUS
  <2>3. DOMAIN nm[d] \subseteq DOMAIN m
    BY <2>2
  <2>4. /\ \A s \in seen[d] :
                 Covered(s.call, s.keys, Present(tree') \ s.later, Key, m, tree')
        /\ ~scan[d].done /\ scan[d].call.nm =>
                 Covered(scan[d].call, scan[d].kv_map, Present(tree'), Passed(scan[d]), m, tree')
    BY <2>1, <2>3, SeenKept
  <2>5. ASSUME ~scan'[d].done
        PROVE  Passed(scan'[d]) = Passed(scan[d]) /\ ~scan[d].done
               /\ scan'[d].call = scan[d].call /\ scan'[d].kv_map = scan[d].kv_map
    BY <2>5 DEF Passed
  <2> QED
    BY <2>2, <2>4, <2>5
<1> QED
  BY <1>1, <1>2 DEF SeenOK

\* A failed find with a NodeMap is covered by the leaf it records.
LEMMA MissSeenOK ==
    ASSUME MapInv, ScansOK, NEW c \in Clients, SeenOK(c), NEW k \in Key,
           find_nm(c, k), k \notin Present(tree)
    PROVE  SeenOK(c)'
<1>1. TypeOK /\ TreeOK(tree)
  BY DEF MapInv, TypeOK
<1>2. /\ scan' = [scan EXCEPT ![c] = NoScan]
      /\ NoteNode(c, get_value_and_get_nodeinfo_on_failure(k))
      /\ seen' = [seen EXCEPT ![c] = @ \cup {Missed(k)}]
      /\ tree' = tree /\ disturbed' = disturbed
  BY MissIs
<1>3. scan'[c] = NoScan /\ seen'[c] = seen[c] \cup {Missed(k)}
  BY <1>1, <1>2 DEF TypeOK
<1>4. scan'[c].done
  BY <1>3 DEF NoScan
<1>5. PICK l : l = LeafOf(tree, k)
  OBVIOUS
<1>6. PICK m : m = Emplace(nm[c], l, tree[l].version)
  OBVIOUS
<1>7. nm'[c] = m
  BY <1>1, <1>2, <1>5, <1>6 DEF NoteNode, get_value_and_get_nodeinfo_on_failure, TypeOK
<1>8. DOMAIN m = DOMAIN nm[c] \cup {l}
  BY <1>6 DEF Emplace
<1>9. /\ Missed(k).call = FindCall(k) /\ Missed(k).keys = {} /\ Missed(k).later = {}
      /\ Missed(k) \in SeenRecord
  BY DEF Missed, FindCall, SeenRecord, Queries
<1>10. ASSUME disturbed[c] = {}, NEW s \in seen'[c]
       PROVE  Covered(s.call, s.keys, Present(tree) \ s.later, Key, m, tree)
  <2>1. CASE s \in seen[c]
    <3>1. Grown(tree, tree') /\ TreeOK(tree')
      BY <1>1, <1>2 DEF Grown
    <3>2. \A x \in DOMAIN nm[c] : tree'[x] = tree[x]
      BY <1>2
    <3>3. Covered(s.call, s.keys, Present(tree') \ s.later, Key, m, tree')
      BY <1>8, <1>10, <2>1, <3>1, <3>2, SeenKept
    <3> QED
      BY <1>2, <3>3
  <2>2. CASE s = Missed(k)
    <3>1. PICK q : q = FindCall(k)
      OBVIOUS
    <3>2. q.api = "find" /\ q.lkey = k
      BY <3>1 DEF FindCall
    <3>3. RangeOf(q) = {k}
      BY <3>2 DEF RangeOf
    <3>4. Limit(q) \in Nat /\ Cardinality({}) = 0
      BY <3>1, LimitIs, FS_EmptySet
    <3>5. Covered(q, {}, Present(tree) \ {}, Key, m, tree)
      BY <1>5, <1>8, <3>3, <3>4 DEF Covered, Delivers
    <3> QED
      BY <1>9, <2>2, <3>1, <3>5
  <2> QED
    BY <1>3, <2>1, <2>2
<1>11. seen'[c] \subseteq SeenRecord
  BY <1>3, <1>9 DEF SeenOK
<1> QED
  BY <1>2, <1>4, <1>7, <1>10, <1>11 DEF SeenOK

\* A client's own insert with its NodeMap changes what it has seen by that key
\* only.
LEMMA InsertedSeenOK ==
    ASSUME MapInv, ScansOK, NEW c \in Clients, SeenOK(c), NEW k \in Key,
           k \notin Present(tree), NEW u \in WithRoom(tree, k), NEW v, NEW l,
           Inserted(c, k, u, v, l),
           seen' = [seen EXCEPT ![c] = {[s EXCEPT !.later = @ \cup {k}] : s \in seen[c]}]
    PROVE  SeenOK(c)'
<1>1. TypeOK /\ TreeOK(tree) /\ MapExact(c)
  BY DEF MapInv, TypeOK
<1>2. v = PutKey(u, k) /\ l = LeafOf(u, k) /\ tree' = v
  BY DEF Inserted
<1>3. TreeOK(u) /\ Grown(tree, u)
  BY <1>1, WithRoomOK
<1>4. TreeOK(v) /\ Grown(tree, v) /\ Present(v) = Present(tree) \cup {k}
  BY <1>1, <1>2, InsertOK
<1>5. /\ l \in DOMAIN u /\ v[l].version = u[l].version + 1
      /\ \A j \in Key : LeafOf(v, j) = LeafOf(u, j)
  BY <1>2, <1>3, PutKeyOK
<1>6. /\ \A x \in DOMAIN tree : tree[x].version \in Nat
      /\ \A x \in DOMAIN u : u[x].version \in Nat
      /\ DOMAIN tree \subseteq DOMAIN u
      /\ \A x \in DOMAIN tree : u[x] = tree[x] \/ u[x].version > tree[x].version
  BY <1>1, <1>3 DEF TreeOK, Leaf, Grown
<1>7. DOMAIN nm[c] \subseteq DOMAIN tree /\ \A x \in DOMAIN nm[c] : nm[c][x] \in Nat
  BY <1>1 DEF TypeOK
<1>8. ASSUME NEW s \in seen[c], NEW r, r = [s EXCEPT !.later = @ \cup {k}]
      PROVE  /\ r.call = s.call /\ r.keys = s.keys /\ r.later = s.later \cup {k}
             /\ r \in SeenRecord
  <2>1. s \in SeenRecord
    BY DEF SeenOK
  <2>2. r = [call |-> s.call, keys |-> s.keys, later |-> s.later \cup {k}]
    BY <1>8, <2>1 DEF SeenRecord
  <2> QED
    BY <2>1, <2>2 DEF SeenRecord
<1>9. seen'[c] = {[s EXCEPT !.later = @ \cup {k}] : s \in seen[c]}
  <2>1. DOMAIN seen = Clients
    BY <1>1 DEF TypeOK
  <2> QED
    BY <2>1, Zenon
<1>10. ASSUME NEW r \in seen'[c]
       PROVE  \E s \in seen[c] : r = [s EXCEPT !.later = @ \cup {k}]
  BY <1>9, Zenon
<1>11. seen'[c] \subseteq SeenRecord
  BY <1>8, <1>10
<1>12. scan'[c].done
  <2>1. scan'[c] = NoScan
    BY DEF Inserted, Observe
  <2> QED
    BY <2>1 DEF NoScan
<1>13. ASSUME disturbed'[c] = {}, NEW r \in seen'[c]
       PROVE  Covered(r.call, r.keys, Present(v) \ r.later, Key, nm'[c], v)
  <2>1. PICK s \in seen[c] : r = [s EXCEPT !.later = @ \cup {k}]
    BY <1>10
  <2>2. r.call = s.call /\ r.keys = s.keys /\ r.later = s.later \cup {k}
    BY <1>8, <2>1
  <2>3. PICK mine : Observe(c, v, mine) /\ mine = Whole(u, l) /\ mine \subseteq {l}
    BY DEF Inserted, Whole
  <2>4. disturbed'[c] = disturbed[c] \cup {x \in DOMAIN nm[c] \ mine : v[x] # tree[x]}
    BY <2>3 DEF Observe
  <2>5. disturbed[c] = {} /\ \A x \in DOMAIN nm[c] : x # l => v[x] = tree[x]
    BY <1>13, <2>3, <2>4
  <2>6. l \in DOMAIN nm[c] => nm[c][l] = u[l].version
    <3> SUFFICES ASSUME l \in DOMAIN nm[c], nm[c][l] # u[l].version PROVE FALSE
      OBVIOUS
    <3>1. l \in DOMAIN tree /\ nm[c][l] = tree[l].version
      BY <1>1, <1>7, <2>5 DEF MapExact
    <3>2. u[l] # tree[l]
      BY <3>1
    <3>3. mine = {}
      BY <2>3, <3>2 DEF Whole
    <3>4. v[l] = tree[l]
      BY <1>13, <2>4, <3>3
    <3>5. v[l].version = tree[l].version
      BY <3>4
    <3> QED
      BY <1>5, <1>6, <3>1, <3>5
  <2>7. l \in DOMAIN nm[c] => u[l] = tree[l]
    <3> SUFFICES ASSUME l \in DOMAIN nm[c] PROVE u[l] = tree[l]
      OBVIOUS
    <3>1. nm[c][l] = tree[l].version
      BY <1>1, <2>5 DEF MapExact
    <3>2. l \in DOMAIN tree /\ tree[l].version = u[l].version
      BY <1>7, <2>6, <3>1
    <3> QED
      BY <1>6, <3>2
  <2>8. ASSUME NEW j \in Key, LeafOf(tree, j) \in DOMAIN nm[c]
        PROVE  LeafOf(v, j) = LeafOf(tree, j)
    <3>1. PICK x : x = LeafOf(tree, j)
      OBVIOUS
    <3>2. CASE x # l
      BY <1>4, <2>5, <2>8, <3>1, <3>2 DEF Grown
    <3>3. CASE x = l
      <4>1. LeafOf(u, j) = x
        BY <1>3, <2>7, <2>8, <3>1, <3>3 DEF Grown
      <4> QED
        BY <1>5, <3>1, <4>1
    <3> QED
      BY <3>2, <3>3
  <2>9. Present(v) \ r.later = Present(tree) \ s.later
    BY <1>4, <2>2
  <2>10. DOMAIN nm[c] \subseteq DOMAIN nm'[c]
    <3>1. CASE nm' = nm
      BY <3>1
    <3>2. CASE nm' = [nm EXCEPT ![c] = [nm[c] EXCEPT ![l] = v[l].version]]
      <4>1. DOMAIN nm = Clients
        BY <1>1 DEF TypeOK
      <4>2. nm'[c] = [nm[c] EXCEPT ![l] = v[l].version]
        BY <3>2, <4>1, Zenon
      <4> QED
        BY <4>2, Zenon
    <3> QED
      BY <3>1, <3>2 DEF Inserted
  <2>11. PICK m : m = nm'[c]
    OBVIOUS
  <2>12. PICK S : S = Present(tree) \ s.later
    OBVIOUS
  <2>13. s.call \in Queries /\ s.keys \subseteq Key
    BY DEF SeenOK, SeenRecord
  <2>14. Covered(s.call, s.keys, S, Key, nm[c], tree)
    BY <2>5, <2>12 DEF SeenOK
  <2>15. DOMAIN nm[c] \subseteq DOMAIN m
    BY <2>10, <2>11
  <2>16. \A j \in Key : LeafOf(tree, j) \in DOMAIN nm[c] =>
            LeafOf(v, j) = LeafOf(tree, j) /\ (j \in S <=> j \in S)
    BY <2>8
  <2>17. Covered(s.call, s.keys, S, Key, m, v)
    BY <2>13, <2>14, <2>15, <2>16, CoveredKept
  <2> QED
    BY <2>2, <2>9, <2>11, <2>12, <2>17
<1> QED
  BY <1>2, <1>11, <1>12, <1>13 DEF SeenOK

\* The visit of a leaf adds the leaf to the NodeMap and its keys to the answer.
LEMMA VisitedSeenOK ==
    ASSUME MapInv, ScansOK, NEW c \in Clients, SeenOK(c), ~scan[c].done,
           NEW s, NEW q, NEW l, NEW caught, NEW ahead, NEW taken, NEW onward, NEW done,
           Visited(c, s, q, l, caught, ahead, taken, onward, done)
    PROVE  SeenOK(c)'
<1>1. TypeOK /\ TreeOK(tree)
  BY DEF MapInv, TypeOK
<1>2. /\ s \in ScanRecord /\ q \in Scans /\ q \in ScanCalls /\ l \in DOMAIN tree
      /\ caught \in BOOLEAN /\ done \in BOOLEAN
      /\ taken \subseteq ahead /\ ahead \subseteq tree[l].keys /\ tree[l].keys \subseteq Key
      /\ nm'[c] = IF q.nm THEN Emplace(nm[c], l, tree[l].version) ELSE nm[c]
  BY <1>1, VisitedState
<1>3. /\ s = scan[c] /\ q = s.call /\ tree' = tree /\ disturbed' = disturbed
      /\ seen' = [seen EXCEPT ![c] =
                    IF done /\ q.nm /\ ~caught
                    THEN @ \cup {[call |-> q, keys |-> s.kv_map \cup taken, later |-> {}]}
                    ELSE @]
  BY DEF Visited
<1>4. PICK new : new = [call |-> q, keys |-> s.kv_map \cup taken, later |-> {}]
  OBVIOUS
<1>5. seen'[c] = IF done /\ q.nm /\ ~caught THEN seen[c] \cup {new} ELSE seen[c]
  <2>1. DOMAIN seen = Clients
    BY <1>1 DEF TypeOK
  <2> QED
    BY <1>3, <1>4, <2>1
<1>6. new \in SeenRecord /\ new.call = q /\ new.keys = s.kv_map \cup taken /\ new.later = {}
  <2>1. s.kv_map \cup taken \in SUBSET Key /\ q \in Queries
    BY <1>2 DEF ScanRecord, Queries
  <2> QED
    BY <1>4, <2>1 DEF SeenRecord
<1>7. DOMAIN nm[c] \subseteq DOMAIN nm'[c] /\ (q.nm => l \in DOMAIN nm'[c])
  <2>1. q.nm \in BOOLEAN
    BY <1>2 DEF ScanCalls
  <2>2. DOMAIN Emplace(nm[c], l, tree[l].version) = DOMAIN nm[c] \cup {l}
    BY DEF Emplace
  <2> QED
    BY <1>2, <2>1, <2>2
<1>8. PICK r : r = scan'[c]
  OBVIOUS
<1>9. r.done = done /\ r.call = q /\ r.kv_map = s.kv_map \cup taken
  <2>1. PICK x \in Key :
          scan'[c] = [done |-> done, call |-> q, at |-> IF done THEN s.at ELSE x,
                      kv_map |-> s.kv_map \cup taken, exception_caught |-> caught,
                      stayed |-> s.stayed, ever |-> s.ever]
    BY <1>1, VisitedState
  <2> QED
    BY <1>8, <2>1
<1>10. PICK m : m = nm'[c]
  OBVIOUS
<1>11. ASSUME disturbed[c] = {}, NEW o \in seen[c]
       PROVE  Covered(o.call, o.keys, Present(tree) \ o.later, Key, m, tree)
  <2>1. Grown(tree, tree') /\ TreeOK(tree') /\ \A x \in DOMAIN nm[c] : tree'[x] = tree[x]
    BY <1>1, <1>3 DEF Grown
  <2>2. DOMAIN nm[c] \subseteq DOMAIN m
    BY <1>7, <1>10
  <2>3. Covered(o.call, o.keys, Present(tree') \ o.later, Key, m, tree')
    BY <1>11, <2>1, <2>2, SeenKept
  <2> QED
    BY <1>3, <2>3
<1>12. ASSUME disturbed[c] = {}, q.nm
       PROVE  Covered(q, s.kv_map \cup taken, Present(tree),
                      IF done THEN Key ELSE Passed(r), m, tree)
  <2>1. caught = FALSE
    BY <1>2, <1>12, VisitedMapInv
  <2>2. Covered(q, s.kv_map, Present(tree), Passed(s), nm[c], tree)
    BY <1>3, <1>12 DEF SeenOK
  <2>3. ScanOK(scan[c], tree)
    BY <1>1, ScanTyped DEF ScansOK
  <2>4. PICK S : S = Present(tree)
    OBVIOUS
  <2>5. S \subseteq Present(tree) /\ Delivers(q, s.kv_map, S \cap Passed(s))
    BY <2>2, <2>4 DEF Covered
  <2>6. VisitAdds(c, s, q, l, taken, done, S)
    BY <1>1, <2>1, <2>3, <2>5, VisitDelivers
  <2>7. PICK all : all = s.kv_map \cup taken
    OBVIOUS
  <2>8. /\ Delivers(q, all, Reached(S, r))
        /\ taken \subseteq Present(tree)
        /\ \A k : Full(q, s.kv_map, k) => Full(q, all, k)
        /\ \A k \in RangeOf(q) : AtOrAfter(q, s.at, k) /\ LeafOf(tree, k) # l =>
              IF done THEN Full(q, all, k) ELSE k \notin Passed(r)
    BY <1>8, <2>6, <2>7 DEF VisitAdds
  <2> DEFINE P == IF done THEN Key ELSE Passed(r)
  <2>9. Present(tree) \subseteq Key /\ RangeOf(q) \subseteq Key
    <3>1. q \in Queries
      BY <1>2 DEF Queries
    <3> QED
      BY <1>1, <3>1, PresentIs, QueryIs
  <2>10. S \cap P = Reached(S, r)
    BY <1>9, <2>4, <2>9 DEF Reached
  <2>11. all \subseteq S
    BY <2>2, <2>4, <2>7, <2>8 DEF Covered
  <2>12. ASSUME NEW k \in RangeOf(q) \cap P PROVE LeafOf(tree, k) \in DOMAIN m \/ Full(q, all, k)
    <3>1. k \in Key /\ (~done => k \in Passed(r))
      BY <2>9
    <3>2. CASE k \in Passed(s)
      <4>1. LeafOf(tree, k) \in DOMAIN nm[c] \/ Full(q, s.kv_map, k)
        BY <2>2, <3>2 DEF Covered
      <4> QED
        BY <1>7, <1>10, <2>8, <4>1
    <3>3. CASE k \notin Passed(s)
      <4>1. AtOrAfter(q, s.at, k)
        BY <1>3, <3>1, <3>3 DEF Passed
      <4>2. CASE LeafOf(tree, k) = l
        BY <1>7, <1>10, <1>12, <4>2
      <4>3. CASE LeafOf(tree, k) # l
        BY <2>8, <3>1, <4>1, <4>3
      <4> QED
        BY <4>2, <4>3
    <3> QED
      BY <3>2, <3>3
  <2> HIDE DEF P
  <2>13. Covered(q, all, S, P, m, tree)
    BY <2>8, <2>10, <2>11, <2>12 DEF Covered
  <2> QED
    BY <2>4, <2>7, <2>13 DEF P
<1>13. seen'[c] \subseteq SeenRecord
  BY <1>5, <1>6 DEF SeenOK
<1>14. ASSUME disturbed[c] = {}, NEW o \in seen'[c]
       PROVE  Covered(o.call, o.keys, Present(tree) \ o.later, Key, m, tree)
  <2>1. CASE o \in seen[c]
    BY <1>11, <1>14, <2>1
  <2>2. CASE o = new /\ done /\ q.nm
    <3>1. Covered(q, s.kv_map \cup taken, Present(tree), Key, m, tree)
      BY <1>12, <1>14, <2>2
    <3>2. Present(tree) \ {} = Present(tree)
      OBVIOUS
    <3> QED
      BY <1>6, <2>2, <3>1, <3>2
  <2> QED
    BY <1>5, <2>1, <2>2
<1>15. ASSUME disturbed[c] = {}, ~r.done, r.call.nm
       PROVE  Covered(r.call, r.kv_map, Present(tree), Passed(r), m, tree)
  BY <1>9, <1>12, <1>15
<1> QED
  BY <1>3, <1>8, <1>10, <1>13, <1>14, <1>15 DEF SeenOK

LEMMA SeenStep ==
    ASSUME MapInv, ScansOK, \A d \in Clients : SeenOK(d), [Next]_vars
    PROVE  \A d \in Clients : SeenOK(d)'
<1>0. TypeOK /\ TreeOK(tree) /\ Grown(tree, tree)
  BY DEF MapInv, TypeOK, Grown
\* The clients whose NodeMap and answers the step leaves alone
<1>k. ASSUME NEW d \in Clients, TreeOK(tree'), Grown(tree, tree'),
             nm'[d] = nm[d], seen'[d] = seen[d],
             disturbed'[d] = disturbed[d] \cup {x \in DOMAIN nm[d] : tree'[x] # tree[x]},
             \/ scan'[d].done
             \/ /\ ~scan[d].done
                /\ scan'[d].call = scan[d].call /\ scan'[d].at = scan[d].at
                /\ scan'[d].kv_map = scan[d].kv_map
      PROVE  SeenOK(d)'
  BY <1>k, SeenOKKept
<1>u. ASSUME NEW d \in Clients, tree' = tree, disturbed' = disturbed,
             nm'[d] = nm[d], seen'[d] = seen[d], scan'[d].done \/ scan'[d] = scan[d]
      PROVE  SeenOK(d)'
  <2>1. disturbed'[d] = disturbed[d] \cup {x \in DOMAIN nm[d] : tree'[x] # tree[x]}
    BY <1>u
  <2>2. TreeOK(tree') /\ Grown(tree, tree')
    BY <1>0, <1>u
  <2>3. \/ scan'[d].done
        \/ /\ ~scan[d].done
           /\ scan'[d].call = scan[d].call /\ scan'[d].at = scan[d].at
           /\ scan'[d].kv_map = scan[d].kv_map
    BY <1>u
  <2> QED
    BY <1>k, <1>u, <2>1, <2>2, <2>3
<1>n. NoScan.done
  BY DEF NoScan
<1>1. CASE UNCHANGED vars
  BY <1>1, <1>u DEF vars
<1>2. CASE Next
  <2>1. PICK c \in Clients :
              \/ \E k \in Key : QuietCall(c, k)
              \/ \E k \in Key : \/ insert(c, k) /\ k \notin Present(tree)
                                \/ remove(c, k) /\ k \in Present(tree)
              \/ \E k \in Key : find_nm(c, k) /\ k \notin Present(tree)
              \/ \E k \in Key : insert_nm(c, k) /\ k \notin Present(tree)
              \/ \E q \in Scans : start_scan(c, q)
              \/ continue_scan(c)
    BY <1>2, NextCases
  \* A change of the tree, seen by the others and, if mine is empty, by c itself
  <2>o. ASSUME NEW t, TreeOK(t), Grown(tree, t), tree' = t, NEW mine, Observe(c, t, mine),
               NEW d \in Clients, d # c \/ mine = {}, nm'[d] = nm[d], seen'[d] = seen[d]
        PROVE  SeenOK(d)'
    <3>1. disturbed'[d] = disturbed[d] \cup {x \in DOMAIN nm[d] : tree'[x] # tree[x]}
      BY <2>o DEF Observe
    <3>2. \/ scan'[d].done
          \/ /\ ~scan[d].done
             /\ scan'[d].call = scan[d].call /\ scan'[d].at = scan[d].at
             /\ scan'[d].kv_map = scan[d].kv_map
      BY <1>0, <1>n, <2>o, ObserveScans
    <3> QED
      BY <1>k, <2>o, <3>1, <3>2
  <2>2. ASSUME NEW k \in Key, QuietCall(c, k) PROVE \A d \in Clients : SeenOK(d)'
    <3>1. /\ UNCHANGED <<tree, nm, seen, disturbed>> /\ scan' = [scan EXCEPT ![c] = NoScan]
      BY <2>2, QuietIs
    <3>2. \A d \in Clients : scan'[d] = NoScan \/ scan'[d] = scan[d]
      BY <1>0, <3>1 DEF TypeOK
    <3> QED
      BY <1>n, <1>u, <3>1, <3>2
  <2>3. ASSUME NEW k \in Key, \/ insert(c, k) /\ k \notin Present(tree)
                              \/ remove(c, k) /\ k \in Present(tree)
        PROVE  \A d \in Clients : SeenOK(d)'
    <3>1. /\ TreeOK(tree') /\ Grown(tree, tree') /\ Observe(c, tree', {})
          /\ UNCHANGED <<nm, seen>>
      BY <1>0, <2>3, ChangedTree
    <3> QED
      BY <2>o, <3>1
  <2>4. ASSUME NEW k \in Key, find_nm(c, k), k \notin Present(tree)
        PROVE  \A d \in Clients : SeenOK(d)'
    <3>1. SeenOK(c)'
      BY <2>4, MissSeenOK
    <3>2. ASSUME NEW d \in Clients, d # c PROVE SeenOK(d)'
      <4>1. /\ scan' = [scan EXCEPT ![c] = NoScan]
            /\ NoteNode(c, get_value_and_get_nodeinfo_on_failure(k))
            /\ seen' = [seen EXCEPT ![c] = @ \cup {Missed(k)}]
            /\ tree' = tree /\ disturbed' = disturbed
        BY <2>4, MissIs
      <4>2. scan'[d] = scan[d] /\ seen'[d] = seen[d]
        BY <1>0, <3>2, <4>1 DEF TypeOK
      <4>3. nm'[d] = nm[d]
        BY <1>0, <3>2, <4>1 DEF NoteNode, TypeOK
      <4> QED
        BY <1>u, <4>1, <4>2, <4>3
    <3> QED
      BY <3>1, <3>2
  <2>5. ASSUME NEW k \in Key, insert_nm(c, k), k \notin Present(tree)
        PROVE  \A d \in Clients : SeenOK(d)'
    <3>1. PICK u, v, l : u \in WithRoom(tree, k) /\ Inserted(c, k, u, v, l)
      BY <1>0, <2>5, InsertCases
    <3>2. seen' = [seen EXCEPT ![c] = {[s EXCEPT !.later = @ \cup {k}] : s \in seen[c]}]
      BY <2>5, Zenon DEF insert_nm
    <3>3. SeenOK(c)'
      BY <2>5, <3>1, <3>2, InsertedSeenOK
    <3>4. TreeOK(v) /\ Grown(tree, v) /\ tree' = v
      BY <1>0, <3>1, InsertOK DEF Inserted
    <3>5. PICK mine : Observe(c, v, mine)
      BY <3>1 DEF Inserted
    <3>6. ASSUME NEW d \in Clients, d # c PROVE nm'[d] = nm[d] /\ seen'[d] = seen[d]
      <4>1. DOMAIN nm = Clients /\ DOMAIN seen = Clients
        BY <1>0 DEF TypeOK
      <4>2. nm'[d] = nm[d]
        BY <3>1, <3>6, <4>1 DEF Inserted
      <4>3. seen'[d] = seen[d]
        BY <3>2, <3>6, <4>1, Zenon
      <4> QED
        BY <4>2, <4>3
    <3>7. ASSUME NEW d \in Clients, d # c PROVE SeenOK(d)'
      BY <2>o, <3>4, <3>5, <3>6, <3>7
    <3> QED
      BY <3>3, <3>7
  <2>6. ASSUME NEW q \in Scans, start_scan(c, q) PROVE \A d \in Clients : SeenOK(d)'
    <3>1. /\ scan' = [scan EXCEPT ![c] = FirstScan(q)]
          /\ tree' = tree /\ nm' = nm /\ seen' = seen /\ disturbed' = disturbed
      BY <1>0, <2>6, StartIs
    <3>2. scan'[c] = FirstScan(q) /\ \A d \in Clients : d # c => scan'[d] = scan[d]
      BY <1>0, <3>1 DEF TypeOK
    <3>3. SeenOK(c)'
      <4>1. PICK s : s = FirstScan(q)
        OBVIOUS
      <4>2. s.call = q /\ s.kv_map = {} /\ Passed(s) \cap RangeOf(q) = {}
        <5>1. FirstScan(q).call = q /\ FirstScan(q).kv_map = {}
          BY DEF FirstScan
        <5> QED
          BY <1>0, <4>1, <5>1, FirstScanOK
      <4>3. Limit(q) \in Nat /\ Cardinality({}) = 0
        BY QueryIs, FS_EmptySet DEF Queries
      <4>4. \A m, t : Covered(q, {}, Present(tree), Passed(s), m, t)
        BY <4>2, <4>3 DEF Covered, Delivers
      <4>5. SeenOK(c)
        OBVIOUS
      <4>6. seen'[c] = seen[c] /\ nm'[c] = nm[c] /\ disturbed'[c] = disturbed[c]
        BY <3>1
      <4>7. seen[c]' \subseteq SeenRecord'
        BY <4>5, <4>6 DEF SeenOK, SeenRecord
      <4>8. ASSUME disturbed[c]' = {}
            PROVE  \A r \in seen[c]' :
                     Covered(r.call, r.keys, Present(tree') \ r.later, Key, nm[c]', tree')
        BY <3>1, <4>5, <4>6, <4>8 DEF SeenOK
      <4>9. Covered(scan'[c].call, scan'[c].kv_map, Present(tree'), Passed(scan'[c]), nm'[c], tree')
        BY <3>1, <3>2, <4>1, <4>2, <4>4
      <4> QED
        BY <4>7, <4>8, <4>9 DEF SeenOK
    <3> QED
      BY <1>u, <3>1, <3>2, <3>3
  <2>7. ASSUME continue_scan(c) PROVE \A d \in Clients : SeenOK(d)'
    <3>1. ~scan[c].done
      BY <2>7, VisitIs
    <3>2. PICK s, q, l, caught, ahead, taken, onward, done :
             Visited(c, s, q, l, caught, ahead, taken, onward, done)
      BY <2>7, VisitIs
    <3>3. SeenOK(c)'
      BY <3>1, <3>2, VisitedSeenOK
    <3>4. tree' = tree /\ disturbed' = disturbed
      BY <3>2 DEF Visited
    <3>5. ASSUME NEW d \in Clients, d # c
          PROVE  nm'[d] = nm[d] /\ scan'[d] = scan[d] /\ seen'[d] = seen[d]
      <4>1. nm'[d] = nm[d] /\ scan'[d] = scan[d]
        BY <1>0, <3>1, <3>2, <3>5, VisitedState
      <4>2. seen'[d] = seen[d]
        BY <1>0, <3>2, <3>5 DEF Visited, TypeOK
      <4> QED
        BY <4>1, <4>2
    <3> QED
      BY <1>u, <3>3, <3>4, <3>5
  <2> QED
    BY <2>1, <2>2, <2>3, <2>4, <2>5, <2>6, <2>7
<1> QED
  BY <1>1, <1>2

\* The whole inductive invariant: tree, NodeMaps, scans under way and what each
\* transaction has seen with its NodeMap.
THEOREM Invariance == Spec => []Inv
<1>1. Init => Inv
  <2> SUFFICES ASSUME Init PROVE Inv
    OBVIOUS
  <2>1. MapInv
    BY MapInvInit
  <2>2. scan = [c \in Clients |-> NoScan] /\ seen = [c \in Clients |-> {}] /\ NoScan.done
    BY DEF Init, NoScan
  <2>3. \A c \in Clients : SeenOK(c)
    BY <2>2 DEF SeenOK
  <2>4. ScansOK
    BY <2>2 DEF ScansOK
  <2> QED
    BY <2>1, <2>3, <2>4 DEF Inv, MapInv
<1>2. Inv /\ [Next]_vars => Inv'
  <2> SUFFICES ASSUME Inv, [Next]_vars PROVE Inv'
    OBVIOUS
  <2>1. MapInv /\ ScansOK /\ \A c \in Clients : SeenOK(c)
    BY DEF Inv, MapInv
  <2>2. MapInv'
    BY <2>1, MapInvStep
  <2>3. ScansOK'
    BY <2>1, ScansStep
  <2>4. \A c \in Clients : SeenOK(c)'
    BY <2>1, SeenStep
  <2> QED
    BY <2>2, <2>3, <2>4 DEF Inv, MapInv
<1> QED
  BY <1>1, <1>2, PTL DEF Spec

\* No phantoms: as long as every leaf in the NodeMap of a transaction has the
\* version noted there, each failed find and each range query with that NodeMap
\* would give the same answer again, but for the transaction's own inserts,
\* whatever the other clients do, between two leaves of a scan too.
THEOREM PhantomsDetected == Spec => []NoPhantoms
<1>1. Inv => NoPhantoms
  <2> SUFFICES ASSUME Inv, NEW c \in Clients, Alive(c), Validates(c), NEW s \in seen[c]
               PROVE  Answer(s.call, Present(tree) \ s.later) = s.keys
    BY DEF NoPhantoms
  <2>1. TypeOK /\ TreeOK(tree) /\ MapExact(c) /\ SeenOK(c)
    BY DEF Inv, TypeOK
  <2>2. disturbed[c] = {}
    <3> SUFFICES ASSUME NEW x \in disturbed[c] PROVE FALSE
      OBVIOUS
    <3>1. x \in DOMAIN nm[c] /\ nm[c][x] < tree[x].version
      BY <2>1 DEF MapExact
    <3>2. nm[c][x] = tree[x].version /\ tree[x].version \in Nat
      BY <2>1, <3>1 DEF Validates, TypeOK
    <3> QED
      BY <3>1, <3>2
  <2>3. PICK S : S = Present(tree) \ s.later
    OBVIOUS
  <2>4. Covered(s.call, s.keys, S, Key, nm[c], tree) /\ s.call \in Queries
    BY <2>1, <2>2, <2>3 DEF SeenOK, SeenRecord
  <2>5. S \subseteq Key
    BY <2>1, <2>3, PresentIs
  <2>6. Answer(s.call, S) = s.keys
    BY <2>4, <2>5, CoveredAnswer
  <2> QED
    BY <2>3, <2>6
<1> QED
  BY <1>1, Invariance, PTL
===============================================================================
