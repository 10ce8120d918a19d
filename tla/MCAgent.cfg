\* Three process ids and two commands; two accounts and two requests at once;
\* two editors of the token file, each write at a time of its own.
SPECIFICATION MCSpec
CONSTANTS
    Pids = {d1, d2, d3}
    Cmds = {c1, c2}
    None = None
    Nothing = Nothing
    MaxTrouble = 3
    a = a
    b = b
    Accounts = {a, b}
    Slots = {q1, q2}
    Requests <- MCRequests
    TcpExternal = FALSE
    Timeout = 2
    MaxEdits = 1
    Labels = {t1}
    Editors = {e1, e2}
    Lookups = {k1, k2}
    Coarse = FALSE
    MaxWrites = 4
INVARIANTS ServingIsReachable UnlockSticks
PROPERTIES AgentComesUp LockHolds LookupSeesLastWrite
CHECK_DEADLOCK FALSE
