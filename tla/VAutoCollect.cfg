\* Two listeners of one process, each registered once.
SPECIFICATION Spec
CONSTANTS
    NULL = NULL
    EVENT_MAX = 2
    Processes = {"p1"}
    Listeners <- LiveListeners
    ProcessOf <- OneProcessOf
    NameOf <- LiveNameOf
    Calls = {"r1", "r2"}
    CallOf <- MCCallOf
    MAX_CALLS = 2
    Posts = {}
    PostOf <- MCPostOf
    Senders = {}
INVARIANTS
    DeadListenersCollected
CHECK_DEADLOCK FALSE
