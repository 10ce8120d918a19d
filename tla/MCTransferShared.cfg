SPECIFICATION Spec
CONSTANTS
    Procs = {p1, p2}
    Versions = {v1}
    Longer = {}
    Length = 3
    NoVersion = NoVersion
    Unopened = FALSE
    MaxFaults = 0
INVARIANTS PublishedIsWhole
CHECK_DEADLOCK FALSE
