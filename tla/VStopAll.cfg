\* StopAll against a worker between its test of `shutdown` and its wait.
SPECIFICATION FairSpec
CONSTANTS
    Workers = {w1, w2}
    Tasks = {t1}
    LongTasks = {}
    Adders = {a1}
    Stops = TRUE
    NULL = NULL
PROPERTIES
    StopAllReturns
CHECK_DEADLOCK FALSE
