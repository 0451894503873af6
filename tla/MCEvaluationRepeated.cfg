SPECIFICATION Spec
CONSTANTS
    t1 = t1
    t2 = t2
    h1 = h1
    h2 = h2
    NoHash = NoHash
    TaskIds = {t1, t2}
    MaxTasks = 2
    MaxRuns = 1
    MaxRunners = 1
    Hashes = {h1, h2}
    Configs <- Repeated
INVARIANTS
    OneEpisodePerDatabase
CHECK_DEADLOCK FALSE
