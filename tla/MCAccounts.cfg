\* Two accounts, two passphrases, four commands; one editor of config.toml;
\* two requests of one client; two tabs; queries of up to two pairs;
\* two titles, two changes of what the account has of them.
SPECIFICATION MCSpec
CONSTANTS
    Names = {a, b}
    Passphrases = {p, q}
    MaxReg = 2
    MaxCommands = 4
    Nothing = Nothing
    Plain = Plain
    Users = {u1}
    Markets = {us, uk}
    Bundles = {s1}
    Hosts = {h1}
    TableNames = {n1, n2}
    MaxWrites = 4
    Tasks = {t1, t2}
    Ttl = 2
    Margin = 1
    MaxRetries = 1
    MaxClock = 2
    QueryKeys = {k1}
    Values = {v1}
    BodyPaths = {"absolute"}
    MaxPairs = 2
    Tabs = {tab1, tab2}
    MaxSessions = 3
    Asins = {a1, a2}
    Plus = {a1}
    Rounds = 2
    MaxChanges = 2
    MaxElsewhere = 1
    Titles = {i1, i2}
    Marked = {i1}
    Stems = {f1, f2}
    Lost = Lost
    NoRow = NoRow
    NoPath = NoPath
    MaxVersion = 2
    MaxTrouble = 1
INVARIANTS NothingIsStuck ReflectedStays SuccessIsSaved   CodeHasSession
PROPERTIES MergeKeepsEdits LogoutDeletesSpent OneExchangePerLapse
SYMMETRY Symm
CHECK_DEADLOCK FALSE
