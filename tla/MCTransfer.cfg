\* One process, three releases of which one is longer, three interruptions;
\* two keys and two key requests; a tree that two accounts share.
SPECIFICATION MCSpec
CONSTANTS
    Procs = {p1}
    Versions = {v1, v2, v3}
    Longer = {v3}
    Length = 2
    NoVersion = NoVersion
    Unopened = FALSE
    MaxFaults = 3
    KeyIds = {"aac", "atmos"}
    MaxRequests = 2
    Grace = 1
    Accounts = {x, y}
    Retries = 1
INVARIANTS PublishedIsWhole
PROPERTIES TransferCompletes FinishedEnds 
CHECK_DEADLOCK FALSE
