--------------------------- MODULE MCMasstreeIndex ---------------------------
(***************************************************************************)
(* Two clients on an index of five keys with leaves of two.                *)
(***************************************************************************)
EXTENDS MasstreeIndex, TLC

CONSTANTS c1, c2

\* The NodeMap of a client matters to nobody else, so one client with a NodeMap
\* meets in the other all that a second one could do.
Calls == c1 :> 3 @@ c2 :> 2

\* Loaded tables: one key in the middle, or a full leaf
Loaded == {{2}, {1, 3}}

\* The whole range both ways, parts of it, with and without a limit, count 0
\* among them, and an empty range, whose one leaf is noted all the same.
Ranges ==
    {[api |-> "next",  lkey |-> 1, rkey |-> 0, count |-> -1, nm |-> FALSE],
     [api |-> "range", lkey |-> 0, rkey |-> 4, count |-> -1, nm |-> TRUE],
     [api |-> "range", lkey |-> 1, rkey |-> 3, count |-> 1,  nm |-> TRUE],
     [api |-> "range", lkey |-> 1, rkey |-> 4, count |-> 2,  nm |-> FALSE],
     [api |-> "range", lkey |-> 2, rkey |-> 2, count |-> -1, nm |-> TRUE],
     [api |-> "rev",   lkey |-> 0, rkey |-> 3, count |-> -1, nm |-> TRUE],
     [api |-> "rev",   lkey |-> 0, rkey |-> 4, count |-> 0,  nm |-> FALSE]}
===============================================================================
