\* Two tabs and three sign-ins.
SPECIFICATION LSpec
CONSTANTS
    Tabs = {t1, t2}
    MaxSessions = 3
PROPERTIES OnlyRestartReplaces
CHECK_DEADLOCK FALSE
