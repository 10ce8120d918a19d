\* Two competing runs over two items, one update or revocation more than one
\* run can see; two shows that may share an episode, and a listing capped at
\* one episode.
SPECIFICATION MCSpec
CONSTANTS
    Asins = {a1, a2}
    Procs = {p1, p2}
    Untitled = {}
    NoProc = NoProc
    MaxClock = 3
    Nameless = {}
    Parents = {s1, s2}
    Episodes = {e1, e2}
    Cap = 1
    MaxChanges = 4
SYMMETRY Symmetry
CHECK_DEADLOCK FALSE
INVARIANTS TypeOK TokenCovers 
PROPERTIES TokenNeverRegresses UndisturbedResolutionKeepsFeed
