\* Calls in and out of range, an info, deaths and collections; l1's OnEvent sends.
SPECIFICATION Spec
CONSTANTS
    NULL = NULL
    EVENT_MAX = 2
    Processes <- MCProcesses
    Listeners <- MCListeners
    ProcessOf <- MCProcessOf
    NameOf <- MCNameOf
    Calls = {"r1", "r2", "r3", "r4", "u1", "o1", "o2"}
    CallOf <- MCCallOf
    MAX_CALLS = 4
    Posts = {"b", "x"}
    PostOf <- MCPostOf
    Senders = {"l1"}
INVARIANTS
    TypeOK
    FanOutSnapshot
    LinkPerEntry
    AutoCollect
    NoOtherDeadlock
PROPERTIES
    EmbraceUntilDeath
    ImplementsBroadcast
CHECK_DEADLOCK FALSE
