\* Three Java listeners, two of one name, two event types, a service that dies.
SPECIFICATION Spec
CONSTANTS
    Clients = {jni}
    Jni = jni
    NULL = NULL
    MAX_SERVICE = 2
    MAX_DESTROYED = 0
    Listeners <- MCListeners
    NameOf <- MCNameOf
    Events = {1, 2}
    MAX_OBJECTS = 3
INVARIANTS
    TypeOK
    Agreement
CHECK_DEADLOCK FALSE
