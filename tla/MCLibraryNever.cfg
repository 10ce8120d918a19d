\* Reads after a first sync that failed.
SPECIFICATION MCSpec
CONSTANTS
    Asins = {a1, a2}
    Procs = {p1}
    Untitled = {a2}
    NoProc = NoProc
    MaxClock = 3
    Markets = {de, us}
    Never = Never
    MaxAge = 1
    MaxNow = 3
    Books = {b1}
    Show = s1
    Episodes = {e1}
    MaxChanges = 2
    Docs <- MCDocs
    MaxMoves = 4
INVARIANTS NeverSyncedIsNotServed
CHECK_DEADLOCK FALSE
