\* Every call with every kind of type: existing, timer, EVENT_MAX, unknown.
SPECIFICATION Spec
CONSTANTS
    Callers = {c1, c2}
    Dispatcher = Dispatcher
    NULL = NULL
    EVENT_COUNT = 1
    EVENT_MAX = 3
    Infos <- CallsSet
    EvType <- CallsType
    SendArgs = {"a1", "t3", "m1", "u1"}
    EnableArgs = {"a1", "t1", "t2", "m1"}
    DisableArgs = {2, 3}
SYMMETRY CallerSymmetry
INVARIANTS
    TypeOK
    SomeoneGoesOn
    SlotInv
    TimerInv
    FaultsExplained
PROPERTIES
    OrphanedByReset
    WedgedForever
CHECK_DEADLOCK FALSE
