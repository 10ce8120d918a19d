\* Four versions of a database and two mishaps; three runs for one title and
\* its cover; a FairPlay title in two formats; one plugin command; three
\* releases in pages of two.
SPECIFICATION MCSpec
CONSTANTS
    None = None
    MaxVersion = 4
    MaxTrouble = 2
    Qualities = {"high"}
    Others = {"cover"}
    MaxEncodes = 1
    MaxRuns = 3
    Titles = {t1}
    Procs = {p1}
    MaxPackageRuns = 3
    Formats = {"aac", "xhe"}
    PageSize = 2
    MaxCommits = 3
    MaxReleases = 3
    Intervals = {0, 2, 5}
    Lifetime = 12
    RetryAfters = {1, 4}
    RequestTimeout = 2
    MinInterval = 1
    MaxBackoff = 4
    MaxBackoffDoublings = 2
    Attempts = 3
    MaxSteps = 3
    ApprovalPolls = 2
    PluginContents <- MCContents
    PythonVaries = FALSE
INVARIANTS DownloadedOnce  ConsentBeforeCode  UpToDateIsNewest PollsAreSpaced
 
CHECK_DEADLOCK FALSE
