\* A client with a NodeMap and one without.
SPECIFICATION Spec
CONSTANTS
    c1 = c1
    c2 = c2
    Clients = {c1, c2}
    Optimistic = {c1}
    MaxKey = 4
    Width = 2
    MaxOps <- Calls
    InitialKeys <- Loaded
    Scans <- Ranges
INVARIANTS
    ScansConsistent
    NoPhantoms
    NodeMapExact
\* The clients stop when they have made their calls.
CHECK_DEADLOCK FALSE
