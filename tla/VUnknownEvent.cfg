\* An event of an unknown type is sent.
SPECIFICATION Spec
CONSTANTS
    Callers = {c1, c2}
    Dispatcher = Dispatcher
    NULL = NULL
    EVENT_COUNT = 1
    EVENT_MAX = 3
    Infos <- CallsSet
    EvType <- CallsType
    SendArgs = {"a1", "u1"}
    EnableArgs = {}
    DisableArgs = {}
INVARIANTS
    UnknownEventDropped
CHECK_DEADLOCK FALSE
