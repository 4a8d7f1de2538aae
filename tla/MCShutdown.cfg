\* Dispatcher, looper, deliveries and collections on three threads; two events,
\* so that one may be freed while the other is served.
SPECIFICATION FairSpec
CONSTANTS
    Jobs = {Dispatcher, Looper, Collection, p1}
    PoolSize = 3
    Dispatcher = Dispatcher
    Looper = Looper
    Collection = Collection
    SlotCount = 2
    NULL = NULL
INVARIANTS
    TypeOK
    LooperSafe
    SomeoneGoesOn
PROPERTIES
    LooperLeaves
    ShutdownEnds
CHECK_DEADLOCK FALSE
