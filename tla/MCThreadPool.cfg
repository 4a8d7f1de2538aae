\* Two long tasks, as the service adds, leave one of three workers for the
\* others; StopAll at any moment, or never.
SPECIFICATION FairSpec
CONSTANTS
    Workers = {w1, w2, w3}
    Tasks = {t1, l1, l2}
    LongTasks = {l1, l2}
    Adders = {a1, a2}
    Stops = TRUE
    NULL = NULL
INVARIANTS
    TypeOK
    HeadExists
    NoLostWakeup
    ListedOnce
    AtMostOneMissed
PROPERTIES
    ImplementsTaskQueue
    EventuallyStarted
CHECK_DEADLOCK FALSE
