\* EnableSystemTimeEvent of a type that is no timer.
SPECIFICATION Spec
CONSTANTS
    Callers = {c1, c2}
    Dispatcher = Dispatcher
    NULL = NULL
    EVENT_COUNT = 1
    EVENT_MAX = 3
    Infos <- CallsSet
    EvType <- CallsType
    SendArgs = {"a1"}
    EnableArgs = {"u1"}
    DisableArgs = {}
INVARIANTS
    UnknownTimerRefused
CHECK_DEADLOCK FALSE
