\* Two managers in one process, a destructor, and a service that lives three times.
SPECIFICATION ConnectionSpec
CONSTANTS
    Clients = {c1, c2}
    NULL = NULL
    MAX_SERVICE = 3
    MAX_DESTROYED = 1
INVARIANTS
    DeathNoticed
PROPERTIES
    ConnectionKept
    ConstructorReturns
CHECK_DEADLOCK FALSE
