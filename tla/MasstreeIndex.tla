---------------------------- MODULE MasstreeIndex ----------------------------
(***************************************************************************)
(* indexes/masstree.hpp and masstree_wrapper.hpp: the ordered index and    *)
(* its node maps, with which an optimistic transaction detects phantoms.   *)
(*                                                                         *)
(* Masstree itself is external.  Here it is a set of leaves, each with the *)
(* lowest key it is responsible for, its keys and a version that every     *)
(* insert, remove and split of the leaf changes.  An insert or a remove is *)
(* one step (the cursor holds the lock of the leaf), and a scan reads leaf *)
(* by leaf, each as one snapshot with its version; between two leaves the  *)
(* other clients go on.  Values are left out: a key is there or not.       *)
(* byte_swap makes the byte order of the tree the order of the numbers.    *)
(***************************************************************************)
EXTENDS Integers, FiniteSets, FiniteSetsExt

CONSTANTS Clients,     \* the threads that use the index
          Optimistic,  \* those of them whose transactions keep a NodeMap
          MaxKey,      \* UINT64_MAX
          Width,       \* the 15 of nodeparams<15, 15>: the keys a leaf can hold
          InitialKeys, \* the loaded tables
          Scans,       \* the range queries that are tried
          MaxOps       \* bound: the calls each client makes

Key == 0 .. MaxKey

\* api: get_next_kv, get_kv_in_range or get_kv_in_rev_range; nm: with a NodeMap
ScanCalls == [api : {"next", "range", "rev"}, lkey : Key, rkey : Key,
              count : Int, nm : BOOLEAN]

ASSUME IndexAssumption ==
    /\ MaxKey \in Nat /\ Width \in Nat /\ Width >= 2
    /\ Optimistic \subseteq Clients /\ MaxOps \in [Clients -> Nat]
    /\ \A S \in InitialKeys : S \subseteq Key /\ Cardinality(S) <= Width
    /\ Scans \subseteq ScanCalls

(***************************************************************************)
(* tree   the leaves: [low, keys, version] for each leaf there is          *)
(* nm     for each client its NodeMap: leaf -> version                     *)
(* res    the Result of its last call                                      *)
(* scan   the range query it is in, or its last call if that was one       *)
(* ops    how many calls it has made                                       *)
(*                                                                         *)
(* History variables, for the properties:                                  *)
(* seen    what a client learned through its NodeMap: a query, its answer, *)
(*         and the keys the client itself inserted since                   *)
(* disturbed  the leaves of its NodeMap to which since then something else *)
(*         happened than that the client put a key in with that NodeMap:   *)
(*         a change by another client or by a call without the NodeMap, or *)
(*         a split, of the client's own insert too.  What the calls return *)
(*         plays no part in it.                                            *)
(***************************************************************************)
VARIABLES tree, nm, res, scan, ops, seen, disturbed

vars == <<tree, nm, res, scan, ops, seen, disturbed>>

NoScan == [done |-> TRUE]
Bad    == {"BAD_INSERT", "BAD_SCAN"}

Present(t) == UNION {t[l].keys : l \in DOMAIN t}

\* A transaction that got BAD_INSERT or BAD_SCAN aborts.
Alive(c) == res[c] \notin Bad
Ready(c) == Alive(c) /\ scan[c].done /\ ops[c] < MaxOps[c]
-------------------------------------------------------------------------------
(***************************************************************************)
(* The tree (external)                                                     *)
(***************************************************************************)

\* The leaf that holds k or would hold it.
LeafOf(t, k) ==
    CHOOSE l \in DOMAIN t :
        /\ t[l].low <= k
        /\ \A m \in DOMAIN t : t[m].low <= k => t[m].low <= t[l].low

\* The keys from b on move to a new leaf.
Split(t, l, b) ==
    LET new == Cardinality(DOMAIN t)
    IN  [m \in DOMAIN t \cup {new} |->
           IF m = l THEN [low |-> t[l].low, keys |-> {k \in t[l].keys : k < b},
                          version |-> t[l].version + 1]
           ELSE IF m = new THEN [low |-> b, keys |-> {k \in t[l].keys : k >= b},
                                 version |-> 0]
           ELSE t[m]]

\* find_insert: the trees in which the leaf of k has room for it.
WithRoom(t, k) ==
    LET l == LeafOf(t, k)
    IN  IF Cardinality(t[l].keys) < Width THEN {t}
        ELSE {Split(t, l, b) : b \in t[l].keys \ {Min(t[l].keys)}}

\* finish(1) and finish(-1)
PutKey(t, k) == [t EXCEPT ![LeafOf(t, k)].keys = @ \cup {k},
                          ![LeafOf(t, k)].version = @ + 1]
DropKey(t, k) == [t EXCEPT ![LeafOf(t, k)].keys = @ \ {k},
                           ![LeafOf(t, k)].version = @ + 1]
-------------------------------------------------------------------------------
(***************************************************************************)
(* Calls on single keys                                                    *)
(***************************************************************************)
Return(c, r) ==
    /\ res' = [res EXCEPT ![c] = r]
    /\ ops' = [ops EXCEPT ![c] = @ + 1]

\* History: what the change of the tree to t does to the other scans and to the
\* NodeMaps.  mine: the leaf into which the caller c put a key with its NodeMap,
\* unless it was split for that.
Observe(c, t, mine) ==
    /\ scan' = [d \in Clients |->
                  IF d = c THEN NoScan
                  ELSE IF scan[d].done THEN scan[d]
                  ELSE [scan[d] EXCEPT !.stayed = @ \cap Present(t),
                                       !.ever = @ \cup Present(t)]]
    /\ disturbed' = [d \in Clients |->
                       disturbed[d] \cup {l \in DOMAIN nm[d] \ (IF d = c THEN mine ELSE {}) :
                                            t[l] # tree[l]}]

\* std::unordered_map::emplace: a leaf that is there keeps its version.
Emplace(m, l, v) ==
    [x \in DOMAIN m \cup {l} |-> IF x \in DOMAIN m THEN m[x] ELSE v]

\* What a failed find has shown
Missed(k) == [call |-> [api |-> "find", lkey |-> k, rkey |-> k, count |-> -1, nm |-> TRUE],
              keys |-> {}, later |-> {}]

\* The node that would contain the missing key
get_value_and_get_nodeinfo_on_failure(k) ==
    [node |-> LeafOf(tree, k), new_version |-> tree[LeafOf(tree, k)].version]

NoteNode(c, ni) == nm' = [nm EXCEPT ![c] = Emplace(@, ni.node, ni.new_version)]

\* Without a NodeMap
find(c, k) ==
    /\ Ready(c)
    /\ Return(c, IF k \in Present(tree) THEN "OK" ELSE "NOT_FOUND")
    /\ scan' = [scan EXCEPT ![c] = NoScan]
    /\ UNCHANGED <<tree, nm, seen, disturbed>>

\* Mutation: the node is recorded when the key is found instead.
MutFindRecordsHit(c, k) ==
    /\ Ready(c)
    /\ scan' = [scan EXCEPT ![c] = NoScan]
    /\ \/ /\ k \in Present(tree)
          /\ Return(c, "OK")
          /\ NoteNode(c, get_value_and_get_nodeinfo_on_failure(k))
          /\ UNCHANGED seen
       \/ /\ k \notin Present(tree)
          /\ Return(c, "NOT_FOUND")
          /\ seen' = [seen EXCEPT ![c] = @ \cup {Missed(k)}]
          /\ UNCHANGED nm
    /\ UNCHANGED <<tree, disturbed>>

\* With a NodeMap: the node that would contain the missing key is recorded.
find_nm(c, k) ==
    /\ Ready(c)
    /\ scan' = [scan EXCEPT ![c] = NoScan]
    /\ \/ /\ k \in Present(tree)
          /\ Return(c, "OK")
          /\ UNCHANGED <<nm, seen>>
       \/ /\ k \notin Present(tree)
          /\ Return(c, "NOT_FOUND")
          /\ NoteNode(c, get_value_and_get_nodeinfo_on_failure(k))
          /\ seen' = [seen EXCEPT ![c] = @ \cup {Missed(k)}]
    /\ UNCHANGED <<tree, disturbed>>

\* insert and remove leave the tree alone when the key is there, respectively
\* not there.
NothingToDo(c, r) ==
    /\ Return(c, r)
    /\ scan' = [scan EXCEPT ![c] = NoScan]
    /\ UNCHANGED <<tree, nm, seen, disturbed>>

\* The trees with k inserted, under the lock of the leaf
insert_value(k) == {PutKey(t, k) : t \in WithRoom(tree, k)}

insert(c, k) ==
    /\ Ready(c)
    /\ \/ k \in Present(tree) /\ NothingToDo(c, "NOT_INSERTED")
       \/ /\ k \notin Present(tree)
          /\ \E t \in insert_value(k) : tree' = t /\ Observe(c, t, {})
          /\ Return(c, "OK")
          /\ UNCHANGED <<nm, seen>>

\* Mutation: the noted version is compared with the one after the insert, so
\* that every insert into a noted leaf is bad.
MutNodeMapComparesNew(m, info) ==
    IF info.node \notin DOMAIN m THEN [result |-> "OK", nm |-> m]
    ELSE IF m[info.node] # info.new_version THEN [result |-> "BAD_INSERT", nm |-> m]
    ELSE [result |-> "OK", nm |-> m]

\* What insert does to a NodeMap
NodeMapAfterInsert(m, info) ==
    IF info.node \notin DOMAIN m THEN [result |-> "OK", nm |-> m]
    ELSE IF m[info.node] # info.old_version THEN [result |-> "BAD_INSERT", nm |-> m]
    ELSE [result |-> "OK", nm |-> [m EXCEPT ![info.node] = info.new_version]]

\* The versions of the leaf before and after the insert; a split is before it.
\* History: was the leaf split, or made by a split?
insert_value_and_get_nodeinfo_on_success(k) ==
    {LET node == LeafOf(t, k)
     IN  [tree |-> PutKey(t, k), node |-> node, old_version |-> t[node].version,
          new_version |-> PutKey(t, k)[node].version,
          split |-> node \notin DOMAIN tree \/ t[node] # tree[node]] : t \in WithRoom(tree, k)}

insert_nm(c, k) ==
    /\ Ready(c)
    /\ \/ k \in Present(tree) /\ NothingToDo(c, "NOT_INSERTED")
       \/ /\ k \notin Present(tree)
          /\ \E info \in insert_value_and_get_nodeinfo_on_success(k) :
                LET after == NodeMapAfterInsert(nm[c], info)
                IN  /\ tree' = info.tree
                    /\ nm' = [nm EXCEPT ![c] = after.nm]
                    /\ Return(c, after.result)
                    /\ Observe(c, info.tree, IF info.split THEN {} ELSE {info.node})
          /\ seen' = [seen EXCEPT ![c] =
                        {[s EXCEPT !.later = @ \cup {k}] : s \in seen[c]}]

remove(c, k) ==
    /\ Ready(c)
    /\ \/ k \notin Present(tree) /\ NothingToDo(c, "NOT_DELETED")
       \/ /\ k \in Present(tree)
          /\ tree' = DropKey(tree, k)
          /\ Observe(c, DropKey(tree, k), {})
          /\ Return(c, "OK")
          /\ UNCHANGED <<nm, seen>>
-------------------------------------------------------------------------------
(***************************************************************************)
(* Range queries                                                           *)
(***************************************************************************)
Backward(q) == q.api = "rev"

\* The flags the three calls hand to scan and rscan
lexclusive(q) == q.api \in {"next", "rev"}

\* Mutation: the right end belongs to the range of get_kv_in_range.
MutRexclusive(q) == FALSE

rexclusive(q) == q.api = "range"

RightEnd(q) == IF q.api = "next" THEN MaxKey ELSE q.rkey

\* How many keys a scan delivers at most: max_scan_num, respectively count,
\* which is tested after a key has been delivered, so that 0 acts as 1.
Limit(q) == IF q.api = "next" THEN 1
            ELSE IF q.count = -1 THEN MaxKey + 1
            ELSE Max({q.count, 1})

\* visit_value: the comparison with the end of the range
BeforeRightEnd(q, k) == k < RightEnd(q) \/ (k = RightEnd(q) /\ ~rexclusive(q))
AfterLeftEnd(q, k)   == k > q.lkey \/ (k = q.lkey /\ ~lexclusive(q))

WithinEnd(q, k) == IF Backward(q) THEN AfterLeftEnd(q, k) ELSE BeforeRightEnd(q, k)

StartKey(q) == IF Backward(q) THEN q.rkey ELSE q.lkey

\* The keys of a leaf from at on, in the direction of the scan.  Where the scan
\* begins is the tree's business.
Ahead(q, at, keys) ==
    IF Backward(q) THEN {k \in keys : k <= at /\ ~(rexclusive(q) /\ k = q.rkey)}
    ELSE {k \in keys : k >= at /\ ~(lexclusive(q) /\ k = q.lkey)}

\* Where the next leaf begins, in the direction of the scan; {} at the end.
Onward(q, t, l) ==
    LET higher == {t[m].low : m \in DOMAIN t} \cap (t[l].low + 1 .. MaxKey)
    IN  IF Backward(q) THEN IF t[l].low = 0 THEN {} ELSE {t[l].low - 1}
        ELSE IF higher = {} THEN {} ELSE {Min(higher)}

\* The first n elements of S in the direction of the scan
FirstOf(q, n, S) ==
    {k \in S : Cardinality({j \in S : IF Backward(q) THEN j >= k ELSE j <= k}) <= n}

start_scan(c, q) ==
    /\ Ready(c)
    /\ scan' = [scan EXCEPT ![c] =
                  [done |-> FALSE, call |-> q, at |-> StartKey(q), kv_map |-> {},
                   exception_caught |-> FALSE,
                   stayed |-> Present(tree), ever |-> Present(tree)]]
    /\ Return(c, "OK")
    /\ UNCHANGED <<tree, nm, seen, disturbed>>

\* per_node_func: is the leaf known with another version?
Changed(m, l, v) == l \in DOMAIN m /\ m[l] # v

\* visit_leaf, and visit_value for each key of the leaf.  The scan ends when
\* visit_value refuses a key: after BAD_SCAN or enough keys the flag is down,
\* but leaves without a key are still visited.
visit_leaf(c) ==
    LET s == scan[c]
        q == s.call
        l == LeafOf(tree, s.at)
        v == tree[l].version
        caught == s.exception_caught \/ (q.nm /\ Changed(nm[c], l, v))
        ahead == Ahead(q, s.at, tree[l].keys)
        taken == IF caught THEN {}
                 ELSE FirstOf(q, Limit(q) - Cardinality(s.kv_map),
                              {k \in ahead : WithinEnd(q, k)})
        onward == Onward(q, tree, l)
        done == ahead # taken \/ onward = {}
    IN  /\ scan' = [scan EXCEPT
                      ![c].kv_map = @ \cup taken,
                      ![c].exception_caught = caught,
                      ![c].done = done,
                      ![c].at = IF done THEN @ ELSE CHOOSE k \in onward : TRUE]
        /\ nm' = [nm EXCEPT ![c] = IF q.nm THEN Emplace(@, l, v) ELSE @]
        /\ res' = [res EXCEPT ![c] = IF done /\ caught THEN "BAD_SCAN" ELSE @]
        /\ seen' = [seen EXCEPT ![c] =
                      IF done /\ q.nm /\ ~caught
                      THEN @ \cup {[call |-> q, keys |-> s.kv_map \cup taken, later |-> {}]}
                      ELSE @]
        /\ UNCHANGED <<tree, ops, disturbed>>

continue_scan(c) == ~scan[c].done /\ visit_leaf(c)
-------------------------------------------------------------------------------
Init ==
    /\ \E S \in InitialKeys :
          tree = [l \in {0} |-> [low |-> 0, keys |-> S, version |-> 0]]
    /\ nm = [c \in Clients |-> [l \in {} |-> 0]]
    /\ res = [c \in Clients |-> "OK"]
    /\ scan = [c \in Clients |-> NoScan]
    /\ ops = [c \in Clients |-> 0]
    /\ seen = [c \in Clients |-> {}]
    /\ disturbed = [c \in Clients |-> {}]

Next ==
    \E c \in Clients :
        \/ \E k \in Key : find(c, k) \/ insert(c, k) \/ remove(c, k)
        \/ /\ c \in Optimistic
           /\ \/ \E k \in Key : find_nm(c, k) \/ insert_nm(c, k)
              \/ \E q \in Scans : start_scan(c, q)
        \/ continue_scan(c)

Spec == Init /\ [][Next]_vars
-------------------------------------------------------------------------------
(***************************************************************************)
(* Properties                                                              *)
(***************************************************************************)

\* The ranges as the comments of the calls give them: [lkey, rkey), (lkey, rkey]
RangeOf(q) == CASE q.api = "find"  -> {q.lkey}
                [] q.api = "next"  -> q.lkey + 1 .. MaxKey
                [] q.api = "range" -> q.lkey .. q.rkey - 1
                [] q.api = "rev"   -> q.lkey + 1 .. q.rkey

Answer(q, S) == FirstOf(q, Limit(q), S \cap RangeOf(q))

\* What a transaction checks at its end, by get_version_value
Validates(c) == \A l \in DOMAIN nm[c] : nm[c][l] = tree[l].version

\* No phantoms: as long as every leaf in the NodeMap of a transaction still has
\* the version noted there, each failed find and each range query with that
\* NodeMap would give the same answer again, but for the transaction's own
\* inserts, whatever other clients inserted or removed meanwhile, between two
\* leaves of a scan too.
NoPhantoms ==
    \A c \in Clients :
        Alive(c) /\ Validates(c) =>
            \A s \in seen[c] : Answer(s.call, Present(tree) \ s.later) = s.keys

\* No missed changes and no needless aborts: a leaf in the NodeMap has its noted
\* version exactly when since then nothing but inserts with this NodeMap that
\* did not split it changed it, whatever those inserts returned; and a client
\* gets BAD_INSERT or BAD_SCAN only after another change of such a leaf.  A split
\* counts as a change even when it is the transaction's own: the code cannot
\* tell, so a transaction that splits a leaf it has noted aborts although it is
\* alone, and one that is alone and splits none always validates.
NodeMapExact ==
    \A c \in Clients :
        /\ \A l \in DOMAIN nm[c] : nm[c][l] = tree[l].version <=> l \notin disturbed[c]
        /\ ~Alive(c) => disturbed[c] # {}

\* A finished range query, with or without NodeMap, among concurrent inserts,
\* removes and splits: it delivers only keys of the range that were there at
\* some time during the scan, and, up to its limit and in its direction, all
\* that were there all the time.
ScansConsistent ==
    \A c \in Clients : Alive(c) /\ scan[c].done /\ scan[c] # NoScan =>
        LET s == scan[c]
            q == s.call
        IN  /\ s.kv_map \subseteq s.ever \cap RangeOf(q)
            /\ Cardinality(s.kv_map) <= Limit(q)
            /\ \A k \in s.stayed \cap RangeOf(q) :
                 \/ k \in s.kv_map
                 \/ /\ Cardinality(s.kv_map) = Limit(q)
                    /\ \A j \in s.kv_map : IF Backward(q) THEN j > k ELSE j < k
===============================================================================
