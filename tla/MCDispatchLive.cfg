\* Existing event types under fairness: every event is served, and served as the mailbox says.
SPECIFICATION FairSpec
CONSTANTS
    Callers = {c1, c2}
    Dispatcher = Dispatcher
    NULL = NULL
    EVENT_COUNT = 1
    EVENT_MAX = 3
    Infos <- LiveSet
    EvType <- LiveType
    SendArgs = {"a1", "a2", "z1", "z2"}
    EnableArgs = {"t1"}
    DisableArgs = {2}
INVARIANTS
    Conservation
    BoundedOvertaking
PROPERTIES
    EventuallyServed
    ImplementsMailbox
CHECK_DEADLOCK FALSE
