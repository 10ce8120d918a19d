\* One show whose feed grows between its page and its resolution.
SPECIFICATION ESpec
CONSTANTS
    Parents = {s1}
    Episodes = {e1, e2}
    Nameless = {}
    Cap = 1
    MaxChanges = 4
PROPERTIES OnlyVanishedEpisodesDeleted
CHECK_DEADLOCK FALSE
