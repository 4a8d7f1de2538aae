------------------------ MODULE EventShutdown_proofs ------------------------
(***************************************************************************)
(* Proofs about EventShutdown for any number of events and pool threads.   *)
(* The looper is safe because of where ~Event is (Order) and because an    *)
(* event that is freed is neither active nor running (NotFreed): event_del *)
(* has removed it and has waited, and only a late activation brings it     *)
(* back. When the last event is freed, no callback can run, so that        *)
(* nothing ~Event destroys after that is in use.                           *)
(* Then: where ~Event can come to a standstill, from what each of its      *)
(* waits is for (StandInv); and that the dispatcher never goes to sleep    *)
(* after the signal.                                                       *)
(***************************************************************************)
EXTENDS EventShutdown, SequenceLemmas

\* The tasks that run and the threads that are left fit in the pool.
Capacity == IsFiniteSet(running) /\ Cardinality(running) + left <= PoolSize

CallbackRuns == current # NULL <=> looper \in {"callback", "reset"}

Order ==
    /\ owner \in {"new", "start_looper", "service", "signal"} => i = 0
    /\ owner \in {"del", "del_again", "free"} => i < SlotCount
    /\ owner \in {"break", "destroy", "destroy_cb", "stop", "join"} => i = SlotCount
    /\ destroyed # {} => owner \in {"destroy_cb", "stop", "join"}
    /\ stop # "no" => owner = "join"

NotFreed ==
    ~late => /\ active \cap Freed = {}
             /\ current # NULL => current \notin Freed
             /\ owner = "free" => i \notin active /\ current # i

ShutdownInv == TypeOK /\ Capacity /\ CallbackRuns /\ Order /\ NotFreed

LEMMA ServiceFacts ==
    /\ Dispatcher \in Jobs /\ Looper \in Jobs /\ Collection \in Jobs
    /\ NULL \notin Jobs /\ NULL \notin Slots
    /\ PoolSize \in Nat /\ SlotCount \in Nat /\ SlotCount > 0
    /\ PostEvents \subseteq Jobs
  BY ServiceAssumption DEF Slots, PostEvents

-----------------------------------------------------------------------------
(* The pool's part.                                                        *)

PoolType ==
    /\ queue \in Seq(Jobs) /\ running \subseteq Jobs
    /\ left \in 0..PoolSize /\ stop \in {"no", "flag", "asked"} /\ missed \in BOOLEAN

\* A thread is idle, runs one task, or is left.
LEMMA PoolStepFits ==
    ASSUME PoolType, Capacity, PoolSize \in Nat,
           \/ Start \/ Leave \/ AskToLeave \/ Rouse \/ RaiseStop
           \/ \E j \in Jobs : Add(j) \/ Finish(j) \/ Quit(j)
    PROVE  PoolType' /\ Capacity'
  <1>1. CASE Start
    <2> DEFINE h == Head(queue)
    <2>1. h \in Jobs /\ Tail(queue) \in Seq(Jobs)
      BY <1>1 DEF Start, PoolType
    <2>2. IsFiniteSet(running)
      BY DEF Capacity
    <2>3. /\ Cardinality(running) \in Nat /\ Cardinality(running \cup {h}) \in Nat
          /\ IsFiniteSet(running \cup {h})
          /\ Cardinality(running \cup {h})
               = IF h \in running THEN Cardinality(running) ELSE Cardinality(running) + 1
      BY ONLY <2>2, FS_AddElement, FS_CardinalityType, Zenon
    <2>4. Capacity'
      BY <1>1, <2>2, <2>3 DEF Start, Capacity, Idle, PoolType
    <2> QED
      BY <1>1, <2>1, <2>4 DEF Start, PoolType
  <1>2. CASE Leave
    <2>1. Cardinality(running) \in Nat
      BY FS_CardinalityType DEF Capacity
    <2>2. Idle > 0
      BY <1>2, <2>1 DEF Leave, Idle, PoolType
    <2> QED
      BY <1>2, <2>1, <2>2 DEF Leave, Idle, PoolType, Capacity
  <1>3. CASE AskToLeave \/ Rouse \/ RaiseStop
    BY <1>3 DEF AskToLeave, Rouse, RaiseStop, PoolType, Capacity
  <1>4. ASSUME NEW j \in Jobs, Add(j) PROVE PoolType' /\ Capacity'
    BY <1>4 DEF Add, PoolType, Capacity
  <1>5. ASSUME NEW j \in Jobs, Finish(j) \/ Quit(j) PROVE PoolType' /\ Capacity'
    <2>1. IsFiniteSet(running) /\ j \in running
      BY <1>5 DEF Capacity, Finish, Quit
    <2>2. /\ IsFiniteSet(running \ {j})
          /\ Cardinality(running \ {j})
               = IF j \in running THEN Cardinality(running) - 1 ELSE Cardinality(running)
      BY ONLY <2>1, FS_RemoveElement, Zenon
    <2>3. /\ Cardinality(running) \in Nat /\ Cardinality(running \ {j}) \in Nat
          /\ Cardinality(running \ {j}) = Cardinality(running) - 1
      BY ONLY <2>1, <2>2, FS_CardinalityType
    <2>4. running' = running \ {j} /\ left' \in {left, left + 1} /\ left \in Nat
      BY <1>5 DEF Finish, Quit, PoolType
    <2>5. IsFiniteSet(running') /\ Cardinality(running') = Cardinality(running) - 1
      BY ONLY <2>3, <2>4, <2>2, Zenon
    <2>6. Capacity' /\ left' \in 0..PoolSize
      BY <2>3, <2>4, <2>5 DEF Capacity
    <2> QED
      BY <1>5, <2>6 DEF PoolType, Finish, Quit
  <1> QED
    BY <1>1, <1>2, <1>3, <1>4, <1>5

-----------------------------------------------------------------------------
(* The inductive invariant.                                                *)

FlagType ==
    /\ m_bEnableEventInfoQueen \in BOOLEAN
    /\ notified \in BOOLEAN /\ event_break \in BOOLEAN /\ late \in BOOLEAN

ServiceType ==
    /\ m_vEventInfo \subseteq Slots /\ todo \subseteq Slots
    /\ m_pEventMutex \in {NULL, Dispatcher, Collection}
    /\ dispatcher \in {"lock", "test", "wait", "waiting", "scan", "exit", "gone"}
    /\ active \subseteq Slots /\ ev_arg \subseteq Slots
    /\ current \in Slots \cup {NULL}
    /\ looper \in {"start", "loop", "poll", "callback", "reset", "done", "gone"}
    /\ collection \in {"lock", "sweep", "done"}
    /\ owner \in {"new", "start_looper", "service", "signal", "del", "del_again",
                  "free", "break", "destroy", "destroy_cb", "stop", "join"}
    /\ i \in 0..SlotCount
    /\ destroyed \subseteq {"event", "cb"}
    /\ fault \in {NULL, "dispatcher", "looper", "collection", "binder", "owner"}

LEMMA TypeParts == TypeOK <=> PoolType /\ FlagType /\ ServiceType
  BY Zenon DEF TypeOK, PoolType, FlagType, ServiceType
LEMMA TypePartsNext == PoolType' /\ FlagType' /\ ServiceType' => TypeOK'
  BY Zenon DEF TypeOK, PoolType, FlagType, ServiceType

LEMMA ShutdownInit == Init => ShutdownInv
  <1> SUFFICES ASSUME Init PROVE ShutdownInv
    OBVIOUS
  <1>1. PoolType
    <2>1. missed \in BOOLEAN
      BY Zenon DEF Init, QueueInit
    <2> QED
      BY <2>1, ServiceFacts DEF Init, QueueInit, PoolType
  <1>2. ServiceType
    BY ServiceFacts DEF Init, ServiceType
  <1>3. Capacity
    <2>1. running = {} /\ left = 0
      BY DEF Init, QueueInit
    <2>2. IsFiniteSet(running) /\ Cardinality(running) = 0
      BY <2>1, FS_EmptySet, Zenon
    <2> QED
      BY <2>1, <2>2, ServiceFacts DEF Capacity
  <1>4. CallbackRuns /\ Order /\ NotFreed
    BY ServiceFacts DEF Init, QueueInit, CallbackRuns, Order, NotFreed, Freed
  <1>5. FlagType
    BY Zenon DEF Init, FlagType
  <1> QED
    BY <1>1, <1>2, <1>3, <1>4, <1>5, TypeParts DEF ShutdownInv

\* The steps that leave the pool alone.
LEMMA PoolUntouched ==
    ASSUME PoolType, Capacity, UNCHANGED poolVars
    PROVE  PoolType' /\ Capacity'
  BY DEF PoolType, Capacity, poolVars

\* The steps that neither free an event nor touch one.
eventsAndOwner == <<active, current, late, looper, ownerVars, stop>>

LEMMA EventsUntouched ==
    ASSUME CallbackRuns, Order, NotFreed, UNCHANGED eventsAndOwner
    PROVE  CallbackRuns' /\ Order' /\ NotFreed'
  BY Zenon DEF eventsAndOwner, CallbackRuns, Order, NotFreed, Freed, ownerVars

-----------------------------------------------------------------------------
(* Types: one step per action.                                             *)

LEMMA DispatcherTypes ==
    ASSUME ServiceType, Order, DispatcherStep \/ DispatcherLocks \/ DispatcherWakesSpuriously
    PROVE  ServiceType'
  <1> USE ServiceFacts DEF ServiceType, infoVars, eventVars, ownerVars, taskVars
  <1>1. DispatcherLocks => ServiceType'
    BY DEF DispatcherLocks
  <1>2. DispatcherTests => ServiceType'
    BY DEF DispatcherTests
  <1>3. DispatcherWaits => ServiceType'
    BY DEF DispatcherWaits
  <1>4. DispatcherWakesSpuriously => ServiceType'
    BY DEF DispatcherWakesSpuriously
  <1>5. EndScan => ServiceType'
    BY DEF EndScan
  <1>6. DispatcherExits => ServiceType'
    BY DEF DispatcherExits
  <1>7. DispatcherFaults => ServiceType'
    BY DEF DispatcherFaults, Fail
  <1>8. ASSUME NEW e \in Slots, SkipBusy(e) PROVE ServiceType'
    BY <1>8 DEF SkipBusy
  <1>9. ASSUME NEW e \in Slots, Dispatch(e) PROVE ServiceType'
    BY <1>9 DEF Dispatch
  <1> HIDE DEF ServiceType
  <1> QED
    BY <1>1, <1>2, <1>3, <1>4, <1>5, <1>6, <1>7, <1>8, <1>9 DEF DispatcherStep

LEMMA LooperTypes ==
    ASSUME ServiceType, Order, LooperStep \/ ResetSlot
    PROVE  ServiceType'
  <1> USE ServiceFacts DEF ServiceType, infoVars, eventVars, ownerVars, taskVars
  <1>1. StartLoop => ServiceType'
    BY DEF StartLoop
  <1>2. EndLoop => ServiceType'
    BY DEF EndLoop
  <1>3. Poll => ServiceType'
    BY DEF Poll
  <1>4. PollReturns => ServiceType'
    BY DEF PollReturns
  <1>5. FanOut => ServiceType'
    BY DEF FanOut
  <1>6. ResetSlot => ServiceType'
    BY DEF ResetSlot
  <1>7. LoopReturns => ServiceType'
    BY DEF LoopReturns
  <1>8. LooperFaults => ServiceType'
    BY DEF LooperFaults, Fail
  <1>9. ASSUME NEW e \in Slots, RunCallback(e) PROVE ServiceType'
    BY <1>9 DEF RunCallback
  <1> HIDE DEF ServiceType
  <1> QED
    BY <1>1, <1>2, <1>3, <1>4, <1>5, <1>6, <1>7, <1>8, <1>9 DEF LooperStep

LEMMA TaskTypes ==
    ASSUME ServiceType, Order, TaskStep \/ StartCollection \/ binderDied \/ BinderFaults
    PROVE  ServiceType'
  <1> USE ServiceFacts DEF ServiceType, infoVars, eventVars, ownerVars, taskVars
  <1>1. StartCollection => ServiceType'
    BY DEF StartCollection
  <1>2. Sweep => ServiceType'
    BY DEF Sweep
  <1>3. EndCollection => ServiceType'
    BY DEF EndCollection
  <1>4. CollectionFaults => ServiceType'
    BY DEF CollectionFaults, Fail
  <1>5. BinderFaults => ServiceType'
    BY DEF BinderFaults, Fail
  <1>6. binderDied => ServiceType'
    BY DEF binderDied, serviceVars
  <1>7. ASSUME NEW t \in PostEvents, EndDelivery(t) PROVE ServiceType'
    BY <1>7 DEF EndDelivery, serviceVars
  <1> HIDE DEF ServiceType
  <1> QED
    BY <1>1, <1>2, <1>3, <1>4, <1>5, <1>6, <1>7 DEF TaskStep

LEMMA OwnerTypes ==
    ASSUME ServiceType, Order, OwnerStep \/ BeginShutdown \/ (\E e \in Slots : SendEvent(e))
    PROVE  ServiceType'
  <1> USE ServiceFacts DEF ServiceType, infoVars, eventVars, ownerVars, taskVars
  <1>1. StartDispatcher => ServiceType'
    BY DEF StartDispatcher
  <1>2. StartLooper => ServiceType'
    BY DEF StartLooper
  <1>3. BeginShutdown => ServiceType'
    BY DEF BeginShutdown
  <1>4. SignalShutdown => ServiceType'
    BY DEF SignalShutdown, WakeDispatcher, Then
  <1>5. DelEvent => ServiceType'
    BY DEF DelEvent
  <1>6. FreeEvent => ServiceType'
    BY DEF FreeEvent, MoreEvents, Then, Order
  <1>7. StopLoop => ServiceType'
    BY DEF StopLoop, Then
  <1>8. DestroyEventMutex => ServiceType'
    BY DEF DestroyEventMutex
  <1>9. DestroyListenerMutexes => ServiceType'
    BY DEF DestroyListenerMutexes
  <1>10. StopPool => ServiceType'
    BY DEF StopPool
  <1>11. DeleteAgain => ServiceType'
    BY DEF DeleteAgain, Fail
  <1>12. ASSUME NEW e \in Slots, SendEvent(e) PROVE ServiceType'
    BY <1>12 DEF SendEvent, WakeDispatcher
  <1> HIDE DEF ServiceType
  <1> QED
    BY <1>1, <1>2, <1>3, <1>4, <1>5, <1>6, <1>7, <1>8, <1>9, <1>10, <1>11, <1>12 DEF OwnerStep

LEMMA FlagTypes == ASSUME FlagType, Next PROVE FlagType'
  <1> USE DEF FlagType, infoVars, eventVars, serviceVars, Fail
  <1>1. DispatcherStep \/ DispatcherLocks \/ DispatcherWakesSpuriously => FlagType'
    BY Zenon DEF DispatcherStep, DispatcherLocks, DispatcherWakesSpuriously, DispatcherTests,
                 DispatcherWaits, EndScan, DispatcherExits, DispatcherFaults, SkipBusy,
                 Dispatch, Notify
  <1>2. LooperStep \/ ResetSlot => FlagType'
    BY Zenon DEF LooperStep, ResetSlot, StartLoop, EndLoop, Poll, PollReturns, FanOut,
                 LoopReturns, LooperFaults, RunCallback
  <1>3. TaskStep \/ StartCollection \/ binderDied \/ BinderFaults => FlagType'
    BY Zenon DEF TaskStep, StartCollection, binderDied, BinderFaults, EndDelivery, Sweep,
                 EndCollection, CollectionFaults
  <1>4. OwnerStep \/ BeginShutdown \/ (\E e \in Slots : SendEvent(e)) => FlagType'
    BY Zenon DEF OwnerStep, BeginShutdown, SendEvent, StartDispatcher, StartLooper,
                 SignalShutdown, DelEvent, FreeEvent, StopLoop, Notify, DestroyEventMutex,
                 DestroyListenerMutexes, StopPool, DeleteAgain
  <1>5. PoolStep \/ (Rouse /\ UNCHANGED serviceVars) => FlagType'
    BY Zenon DEF PoolStep
  <1> HIDE DEF FlagType
  <1> QED
    BY <1>1, <1>2, <1>3, <1>4, <1>5 DEF Next

\* What a step of the service does to its pool.
PoolActs ==
    \/ Start \/ Leave \/ AskToLeave \/ Rouse \/ RaiseStop
    \/ \E j \in Jobs : Add(j) \/ Finish(j) \/ Quit(j)

LEMMA PoolUse == ASSUME Next PROVE PoolActs \/ UNCHANGED poolVars
  <1> USE ServiceFacts DEF PoolActs
  <1>1. DispatcherExits \/ LoopReturns \/ EndCollection \/ binderDied => PoolActs
    BY Zenon DEF DispatcherExits, LoopReturns, EndCollection, binderDied
  <1>2. ASSUME NEW t \in PostEvents, EndDelivery(t) PROVE PoolActs
    BY <1>2, Zenon DEF EndDelivery
  <1>3. FanOut => PoolActs \/ UNCHANGED poolVars
    BY Zenon DEF FanOut
  <1>4. StartDispatcher \/ StartLooper \/ StopPool => PoolActs
    BY Zenon DEF StartDispatcher, StartLooper, StopPool
  <1>5. PoolStep \/ (Rouse /\ UNCHANGED serviceVars) => PoolActs
    BY Zenon DEF PoolStep
  <1>6. DispatcherStep \/ DispatcherLocks \/ DispatcherWakesSpuriously
          => DispatcherExits \/ UNCHANGED poolVars
    BY Zenon DEF DispatcherStep, DispatcherLocks, DispatcherWakesSpuriously, DispatcherTests,
                 DispatcherWaits, EndScan, DispatcherFaults, Fail, SkipBusy, Dispatch
  <1>7. LooperStep \/ ResetSlot => FanOut \/ LoopReturns \/ UNCHANGED poolVars
    BY Zenon DEF LooperStep, ResetSlot, StartLoop, EndLoop, Poll, PollReturns,
                 LooperFaults, RunCallback, Fail
  <1>8. TaskStep \/ StartCollection \/ BinderFaults
          => \/ \E t \in PostEvents : EndDelivery(t)
             \/ EndCollection \/ UNCHANGED poolVars
    BY Zenon DEF TaskStep, StartCollection, BinderFaults, Sweep, CollectionFaults, Fail
  <1>9. OwnerStep \/ BeginShutdown \/ (\E e \in Slots : SendEvent(e))
          => StartDispatcher \/ StartLooper \/ StopPool \/ UNCHANGED poolVars
    BY Zenon DEF OwnerStep, BeginShutdown, SendEvent, SignalShutdown, DelEvent, FreeEvent,
                 StopLoop, DestroyEventMutex, DestroyListenerMutexes, DeleteAgain, Fail
  <1> QED
    BY <1>1, <1>2, <1>3, <1>4, <1>5, <1>6, <1>7, <1>8, <1>9 DEF Next

LEMMA TypeStep ==
    ASSUME PoolType, FlagType, ServiceType, Capacity, Order, Next
    PROVE  PoolType' /\ FlagType' /\ ServiceType' /\ Capacity'
  <1>1. PoolType' /\ Capacity'
    BY PoolUse, PoolStepFits, PoolUntouched, ServiceFacts DEF PoolActs
  <1>2. PoolStep \/ (Rouse /\ UNCHANGED serviceVars) => ServiceType'
    BY DEF PoolStep, serviceVars, infoVars, eventVars, ownerVars, taskVars, ServiceType
  <1>3. ServiceType'
    BY <1>2, DispatcherTypes, LooperTypes, TaskTypes, OwnerTypes DEF Next
  <1> QED
    BY <1>1, <1>3, FlagTypes

-----------------------------------------------------------------------------
(* What the looper relies on: one step per action that concerns it.        *)

LEMMA QuietSteps ==
    ASSUME \/ (DispatcherStep /\ ~(\E e \in Slots : Dispatch(e)))
           \/ DispatcherLocks \/ DispatcherWakesSpuriously
           \/ TaskStep \/ StartCollection \/ binderDied \/ BinderFaults
           \/ LooperFaults \/ DeleteAgain \/ (\E e \in Slots : SendEvent(e))
           \/ (Start /\ UNCHANGED serviceVars) \/ (Leave /\ UNCHANGED serviceVars)
           \/ (Rouse /\ UNCHANGED serviceVars)
    PROVE  UNCHANGED eventsAndOwner
  <1> USE DEF eventsAndOwner, eventVars, taskVars, serviceVars, poolVars, Fail
  <1>1. (DispatcherStep /\ ~(\E e \in Slots : Dispatch(e))) \/ DispatcherLocks
          \/ DispatcherWakesSpuriously => UNCHANGED eventsAndOwner
    BY Zenon DEF DispatcherStep, DispatcherLocks, DispatcherWakesSpuriously, DispatcherTests,
                 DispatcherWaits, EndScan, DispatcherFaults, DispatcherExits, Quit, SkipBusy
  <1>2. TaskStep \/ StartCollection \/ binderDied \/ BinderFaults => UNCHANGED eventsAndOwner
    BY Zenon DEF TaskStep, StartCollection, binderDied, BinderFaults, EndDelivery, Sweep,
                 EndCollection, CollectionFaults, Add, Finish
  <1>3. LooperFaults \/ DeleteAgain \/ (\E e \in Slots : SendEvent(e))
          => UNCHANGED eventsAndOwner
    BY Zenon DEF LooperFaults, DeleteAgain, SendEvent
  <1>4. (Start \/ Leave \/ Rouse) /\ UNCHANGED serviceVars => UNCHANGED eventsAndOwner
    BY Zenon DEF Start, Leave, Rouse
  <1> HIDE DEF eventsAndOwner, eventVars, taskVars, serviceVars, poolVars, Fail
  <1> QED
    BY <1>1, <1>2, <1>3, <1>4, Zenon

\* An activation: late if its event is the one that is being freed.
LEMMA DispatchSafe ==
    ASSUME CallbackRuns, Order, NotFreed, NEW e \in Slots, Dispatch(e)
    PROVE  CallbackRuns' /\ Order' /\ NotFreed'
  <1>1. CallbackRuns' /\ Order'
    BY DEF Dispatch, CallbackRuns, Order, ownerVars, poolVars
  <1>2. SUFFICES ASSUME ~late'
                 PROVE  /\ active' \cap Freed' = {}
                        /\ current' # NULL => current' \notin Freed'
                        /\ owner' = "free" => i' \notin active' /\ current' # i'
    BY <1>1 DEF NotFreed
  <1>3. ~late /\ ~(e = i /\ owner = "free")
    BY <1>2, Zenon DEF Dispatch
  <1>4. UNCHANGED <<current, i, owner>> /\ active' = active \cup {e} /\ e \notin Freed
    BY DEF Dispatch, ownerVars
  <1>5. Freed' = Freed
    BY <1>4 DEF Freed
  <1>6. /\ active \cap Freed = {}
        /\ current # NULL => current \notin Freed
        /\ owner = "free" => i \notin active /\ current # i
    BY <1>3 DEF NotFreed
  <1> QED
    BY <1>3, <1>4, <1>5, <1>6

LEMMA LooperSteps ==
    ASSUME CallbackRuns, Order, NotFreed, ServiceType, LooperStep \/ ResetSlot
    PROVE  CallbackRuns' /\ Order' /\ NotFreed'
  <1> USE ServiceFacts
  <1>1. UNCHANGED <<ownerVars, stop, late>>
    BY Zenon DEF LooperStep, ResetSlot, StartLoop, EndLoop, Poll, PollReturns, FanOut, Add,
                 LoopReturns, Finish, LooperFaults, RunCallback, Fail, eventVars, poolVars
  <1>2. Order' /\ Freed' = Freed
    BY <1>1, Zenon DEF Order, Freed, ownerVars
  <1>3. CASE LooperFaults
    BY <1>3, QuietSteps, EventsUntouched
  <1>4. ASSUME StartLoop \/ EndLoop \/ Poll \/ PollReturns \/ FanOut \/ LoopReturns
        PROVE  CallbackRuns' /\ UNCHANGED <<active, current>>
    <2>1. UNCHANGED <<active, current>>
      BY <1>4, Zenon DEF StartLoop, EndLoop, Poll, PollReturns, FanOut, LoopReturns, eventVars
    <2>2. looper \in {"callback", "reset"} <=> looper' \in {"callback", "reset"}
      BY <1>4 DEF StartLoop, EndLoop, Poll, PollReturns, FanOut, LoopReturns
    <2> QED
      BY <2>1, <2>2 DEF CallbackRuns
  <1>5. ASSUME NEW e \in Slots, RunCallback(e)
        PROVE  /\ CallbackRuns' /\ active' \subseteq active
               /\ current' \in active \ Freed
    BY <1>5 DEF RunCallback, CallbackRuns
  <1>6. ASSUME ResetSlot
        PROVE  CallbackRuns' /\ active' = active /\ current' = NULL
    BY <1>6 DEF ResetSlot, CallbackRuns
  <1>7. \/ LooperFaults
        \/ /\ CallbackRuns' /\ active' \subseteq active
           /\ current' = current \/ current' = NULL \/ current' \in active \ Freed
    BY <1>4, <1>5, <1>6 DEF LooperStep
  <1>8. i \in Nat
    BY DEF ServiceType
  <1>9. ASSUME ~LooperFaults PROVE NotFreed'
    <2>1. SUFFICES ASSUME ~late
                   PROVE  /\ active' \cap Freed' = {}
                          /\ current' # NULL => current' \notin Freed'
                          /\ owner' = "free" => i' \notin active' /\ current' # i'
      BY <1>1, Zenon DEF NotFreed
    <2>2. /\ active \cap Freed = {}
          /\ current # NULL => current \notin Freed
          /\ owner = "free" => i \notin active /\ current # i
      BY <2>1 DEF NotFreed
    <2>3. i' = i /\ owner' = owner /\ NULL # i
      BY <1>1, <1>8, ServiceAssumption DEF ownerVars
    <2> QED
      BY <1>2, <1>7, <1>9, <2>2, <2>3
  <1> QED
    BY <1>2, <1>3, <1>7, <1>9

\* The steps of ~Event that free nothing keep events and callbacks as they are.
LEMMA OwnerMoves ==
    ASSUME CallbackRuns, Order, NotFreed, FlagType, ServiceType,
           UNCHANGED <<active, current, late, looper, i>>,
           owner' # "free",
           Order'
    PROVE  CallbackRuns' /\ Order' /\ NotFreed'
  <1>1. CallbackRuns'
    BY Zenon DEF CallbackRuns
  <1>2. NotFreed'
    BY Zenon DEF NotFreed, Freed
  <1> QED
    BY <1>1, <1>2

LEMMA OwnerSteps ==
    ASSUME CallbackRuns, Order, NotFreed, FlagType, ServiceType,
           OwnerStep \/ BeginShutdown
    PROVE  CallbackRuns' /\ Order' /\ NotFreed'
  <1> USE ServiceFacts
  <1>1. ASSUME StartDispatcher \/ StartLooper \/ BeginShutdown \/ SignalShutdown
        PROVE  CallbackRuns' /\ Order' /\ NotFreed'
    <2>1. UNCHANGED <<active, current, late, looper, i>>
      BY <1>1, Zenon DEF StartDispatcher, StartLooper, BeginShutdown, SignalShutdown,
                         eventVars, taskVars
    <2>2. owner' # "free" /\ Order'
      BY <1>1 DEF StartDispatcher, StartLooper, BeginShutdown, SignalShutdown, Then, Add,
                  poolVars, Order
    <2> QED
      BY <2>1, <2>2, OwnerMoves
  <1>2. ASSUME StopLoop \/ DestroyEventMutex \/ DestroyListenerMutexes \/ StopPool
        PROVE  CallbackRuns' /\ Order' /\ NotFreed'
    <2>1. UNCHANGED <<active, current, late, looper, i>>
      BY <1>2, Zenon DEF StopLoop, DestroyEventMutex, DestroyListenerMutexes, StopPool,
                         eventVars, taskVars
    <2>2. owner' # "free" /\ Order'
      BY <1>2 DEF StopLoop, DestroyEventMutex, DestroyListenerMutexes, StopPool, Then,
                  RaiseStop, poolVars, Order
    <2> QED
      BY <2>1, <2>2, OwnerMoves
  <1>3. ASSUME DelEvent PROVE CallbackRuns' /\ Order' /\ NotFreed'
    <2>1. CallbackRuns' /\ Order'
      BY <1>3 DEF DelEvent, CallbackRuns, Order, taskVars, poolVars
    <2>2. /\ active' = active \ {i} /\ current # i
          /\ UNCHANGED <<current, i>> /\ (late' <=> late)
      BY <1>3, Zenon DEF DelEvent, CallbackOver
    <2>3. Freed' = Freed
      BY <2>2 DEF Freed
    <2> QED
      BY <2>1, <2>2, <2>3 DEF NotFreed
  <1>4. ASSUME FreeEvent PROVE CallbackRuns' /\ Order' /\ NotFreed'
    <2>1. owner = "free" /\ i < SlotCount /\ i \in Nat
      BY <1>4 DEF FreeEvent, Order, ServiceType
    <2>2. CallbackRuns' /\ Order' /\ owner' # "free"
      BY <1>4, <2>1 DEF FreeEvent, CallbackRuns, Order, eventVars, taskVars, poolVars,
                        MoreEvents, Then
    <2>3. UNCHANGED <<active, current>> /\ (late' <=> late) /\ i' = i + 1
      BY <1>4, Zenon DEF FreeEvent, eventVars
    <2>4. \A e \in Freed' : e \in Freed \/ e = i
      BY <2>1, <2>3 DEF Freed
    <2> QED
      BY <2>1, <2>2, <2>3, <2>4 DEF NotFreed
  <1>5. CASE DeleteAgain
    BY <1>5, QuietSteps, EventsUntouched
  <1> QED
    BY <1>1, <1>2, <1>3, <1>4, <1>5 DEF OwnerStep

LEMMA AskSteps ==
    ASSUME CallbackRuns, Order, NotFreed, AskToLeave, UNCHANGED serviceVars
    PROVE  CallbackRuns' /\ Order' /\ NotFreed'
  <1>1. Order'
    BY DEF AskToLeave, Order, serviceVars, ownerVars
  <1>2. CallbackRuns' /\ NotFreed'
    BY Zenon DEF CallbackRuns, NotFreed, Freed, serviceVars, eventVars, ownerVars, taskVars
  <1> QED
    BY <1>1, <1>2

LEMMA ShutdownStep == ShutdownInv /\ [Next]_vars => ShutdownInv'
  <1> SUFFICES ASSUME ShutdownInv, [Next]_vars PROVE ShutdownInv'
    OBVIOUS
  <1>1. PoolType /\ FlagType /\ ServiceType /\ Capacity /\ CallbackRuns /\ Order /\ NotFreed
    BY TypeParts DEF ShutdownInv
  <1>2. CASE Next
    <2>1. PoolType' /\ FlagType' /\ ServiceType' /\ Capacity'
      BY <1>1, <1>2, TypeStep
    <2>2. CallbackRuns' /\ Order' /\ NotFreed'
      BY <1>1, <1>2, QuietSteps, EventsUntouched, DispatchSafe, LooperSteps, OwnerSteps,
         AskSteps DEF Next, PoolStep
    <2> QED
      BY <2>1, <2>2, TypePartsNext DEF ShutdownInv
  <1>3. CASE UNCHANGED vars
    <2>1. UNCHANGED eventsAndOwner /\ UNCHANGED poolVars
      BY <1>3, Zenon DEF vars, serviceVars, eventVars, taskVars, poolVars, eventsAndOwner
    <2>2. FlagType'
      BY <1>1, <1>3, Zenon DEF vars, serviceVars, infoVars, eventVars, FlagType
    <2>3. ServiceType'
      BY <1>1, <1>3 DEF vars, serviceVars, infoVars, eventVars, ownerVars, taskVars, ServiceType
    <2> QED
      BY <1>1, <2>1, <2>2, <2>3, EventsUntouched, PoolUntouched, TypePartsNext DEF ShutdownInv
  <1> QED
    BY <1>2, <1>3

LEMMA ShutdownInvariant == Spec => []ShutdownInv
  BY ShutdownInit, ShutdownStep, PTL DEF Spec

\* Every variable of the service keeps its type; no more of the pool's threads
\* are counted as left than it has.
THEOREM ShutdownTypeCorrect == Spec => []TypeOK
  <1>1. ShutdownInv => TypeOK
    BY DEF ShutdownInv
  <1> QED
    BY <1>1, ShutdownInvariant, PTL

\* However many events there are and whenever ~Event begins, the looper meets
\* no freed event, no destroyed mutex and no stopped pool, if no event was
\* activated inside its event_free.
THEOREM LooperOutlivesEvents == Spec => []LooperSafe
  <1>1. ShutdownInv => LooperSafe
    <2> SUFFICES ASSUME ShutdownInv, ~late
                 PROVE  /\ active \cap Freed = {}
                        /\ current # NULL => /\ current \notin Freed
                                             /\ destroyed = {} /\ stop = "no"
      BY DEF LooperSafe
    <2>1. active \cap Freed = {} /\ (current # NULL => current \notin Freed)
      BY DEF ShutdownInv, NotFreed
    <2>2. i = SlotCount => Slots \subseteq Freed
      BY DEF Slots, Freed
    <2>3. i = SlotCount => current = NULL
      BY <2>1, <2>2, TypeParts DEF ShutdownInv, ServiceType
    <2>4. current # NULL => destroyed = {} /\ stop = "no"
      BY <2>3 DEF ShutdownInv, Order
    <2> QED
      BY <2>1, <2>4
  <1> QED
    BY <1>1, ShutdownInvariant, PTL

-----------------------------------------------------------------------------
(* Where ~Event may come to a standstill.                                  *)

\* The mutex is held by who is between its lock and its unlock.
HolderInv ==
    /\ m_pEventMutex = Dispatcher <=> dispatcher \in {"test", "wait", "scan"}
    /\ m_pEventMutex = Collection <=> collection = "sweep"

\* A job is in the pool once, and the service's own tasks are in it from where
\* they are added to where they end.
Has(j) == j \in running \/ Contains(queue, j)
OnceInv == IsInjective(queue) /\ \A j \in running : ~Contains(queue, j)
ThreadInv ==
    /\ owner = "new" => ~Has(Dispatcher) /\ dispatcher = "lock"
    /\ owner \in {"new", "start_looper"} => ~Has(Looper) /\ looper = "start"
    /\ dispatcher = "gone" => ~Has(Dispatcher)
    /\ looper = "gone" => ~Has(Looper)
    /\ dispatcher \notin {"lock", "gone"} => Dispatcher \in running
    /\ looper \notin {"start", "gone"} => Looper \in running
    /\ collection # "lock" => Collection \in running
    /\ owner = "join" => stop # "no"

\* After the break a loop that polls has been woken, and none begins to poll.
PollInv ==
    owner \in {"destroy", "destroy_cb", "stop", "join"} /\ looper = "poll" => notified

LEMMA AddOnce ==
    ASSUME PoolType, OnceInv, NEW j \in Jobs, ~Has(j), Add(j)
    PROVE  OnceInv' /\ \A x : Has(x)' <=> Has(x) \/ x = j
  <1>1. queue \in Seq(Jobs) /\ queue' = Append(queue, j) /\ running' = running
    BY DEF PoolType, Add
  <1>2. /\ \A x : Contains(queue', x) <=> Contains(queue, x) \/ x = j
        /\ IsInjective(queue')
    BY <1>1, AppendDistinct DEF OnceInv, Has
  <1> QED
    BY <1>1, <1>2 DEF OnceInv, Has

LEMMA StartOnce ==
    ASSUME PoolType, OnceInv, Start
    PROVE  OnceInv' /\ running \subseteq running' /\ \A x : Has(x)' <=> Has(x)
  <1>1. /\ queue \in Seq(Jobs) /\ queue # <<>> /\ IsInjective(queue)
        /\ queue' = Tail(queue) /\ running' = running \cup {Head(queue)}
    BY DEF PoolType, Start, OnceInv
  <1>2. /\ \A x : Contains(queue', x) <=> Contains(queue, x) /\ x # Head(queue)
        /\ IsInjective(queue')
    BY <1>1, TailDistinct
  <1>3. Contains(queue, Head(queue))
    BY <1>1 DEF Contains
  <1> QED
    BY <1>1, <1>2, <1>3 DEF OnceInv, Has

LEMMA EndOnce ==
    ASSUME OnceInv, NEW j, Finish(j) \/ Quit(j)
    PROVE  /\ OnceInv' /\ running' = running \ {j} /\ j \in running
           /\ \A x : Has(x)' <=> Has(x) /\ x # j
  BY DEF OnceInv, Has, Finish, Quit

LEMMA SamePool ==
    ASSUME OnceInv, UNCHANGED <<queue, running>>
    PROVE  OnceInv' /\ \A x : Has(x)' <=> Has(x)
  BY DEF OnceInv, Has

LEMMA HolderStep ==
    ASSUME ServiceType, HolderInv, Next
    PROVE  HolderInv'
  <1> USE ServiceFacts, ServiceAssumption DEF HolderInv, Fail
  <1> DEFINE same == UNCHANGED <<m_pEventMutex, dispatcher, collection>>
  <1>1. CASE DispatcherLocks
    BY <1>1 DEF DispatcherLocks, EventMutexFree
  <1>2. CASE DispatcherTests
    BY <1>2 DEF DispatcherTests
  <1>3. CASE DispatcherWaits \/ DispatcherWakesSpuriously \/ EndScan \/ DispatcherExits
    BY <1>3 DEF DispatcherWaits, DispatcherWakesSpuriously, EndScan, DispatcherExits, infoVars
  <1>4. CASE StartCollection \/ Sweep \/ EndCollection
    BY <1>4 DEF StartCollection, Sweep, EndCollection, EventMutexFree, infoVars
  <1>5. CASE SignalShutdown \/ \E e \in Slots : SendEvent(e)
    BY <1>5 DEF SignalShutdown, SendEvent, WakeDispatcher, infoVars
  <1>6. ASSUME same PROVE HolderInv'
    BY <1>6
  <1>7. \A e \in Slots : SkipBusy(e) \/ Dispatch(e) => same
    BY Zenon DEF SkipBusy, Dispatch, infoVars
  <1>8. DispatcherFaults \/ LooperFaults \/ CollectionFaults \/ BinderFaults \/ DeleteAgain
          => same
    BY Zenon DEF DispatcherFaults, LooperFaults, CollectionFaults, BinderFaults, DeleteAgain,
                 infoVars, taskVars
  <1>9. StartLoop \/ EndLoop \/ Poll \/ PollReturns \/ FanOut \/ LoopReturns \/ ResetSlot
          \/ (\E e \in Slots : RunCallback(e)) => same
    BY Zenon DEF StartLoop, EndLoop, Poll, PollReturns, FanOut, LoopReturns, ResetSlot,
                 RunCallback, infoVars
  <1>10. binderDied \/ (\E t \in PostEvents : EndDelivery(t)) \/ PoolStep
           \/ (Rouse /\ UNCHANGED serviceVars) => same
    BY Zenon DEF binderDied, EndDelivery, PoolStep, serviceVars, infoVars, taskVars
  <1>11. StartDispatcher \/ StartLooper \/ BeginShutdown \/ DelEvent \/ FreeEvent \/ StopLoop
           \/ DestroyEventMutex \/ DestroyListenerMutexes \/ StopPool => same
    BY Zenon DEF StartDispatcher, StartLooper, BeginShutdown, DelEvent, FreeEvent, StopLoop,
                 DestroyEventMutex, DestroyListenerMutexes, StopPool, infoVars, taskVars
  <1> HIDE DEF HolderInv, same
  <1> QED
    BY <1>1, <1>2, <1>3, <1>4, <1>5, <1>6, <1>7, <1>8, <1>9, <1>10, <1>11
       DEF Next, DispatcherStep, LooperStep, TaskStep, OwnerStep

\* What of the service ThreadInv speaks of.
threads == <<owner, dispatcher, looper, collection, stop>>

LEMMA ThreadsMove ==
    ASSUME OnceInv, ThreadInv, UNCHANGED <<queue, running, stop>>,
           dispatcher' = dispatcher \/ dispatcher' = "lock" \/ Dispatcher \in running,
           looper' = looper \/ Looper \in running,
           collection' = collection \/ Collection \in running,
           dispatcher' = "gone" => dispatcher = "gone",
           looper' = "gone" => looper = "gone",
           owner' = owner \/ owner' \notin {"new", "start_looper", "join"}
    PROVE  OnceInv' /\ ThreadInv'
  BY SamePool DEF ThreadInv, Has

LEMMA ThreadStep ==
    ASSUME PoolType, OnceInv, ThreadInv, Next
    PROVE  OnceInv' /\ ThreadInv'
  <1> USE ServiceFacts DEF Fail
  <1>1. ASSUME NEW e \in Slots,
               DispatcherLocks \/ DispatcherTests \/ DispatcherWaits
                 \/ DispatcherWakesSpuriously \/ SkipBusy(e) \/ Dispatch(e) \/ EndScan
                 \/ DispatcherFaults
        PROVE  OnceInv' /\ ThreadInv'
    <2>1. UNCHANGED <<queue, running, stop, owner, looper, collection>>
      BY <1>1, Zenon DEF DispatcherLocks, DispatcherTests, DispatcherWaits,
         DispatcherWakesSpuriously, SkipBusy, Dispatch, EndScan, DispatcherFaults, poolVars,
         ownerVars, taskVars
    <2>2. (dispatcher' = dispatcher \/ Dispatcher \in running)
          /\ (dispatcher' = "gone" => dispatcher = "gone")
      BY <1>1 DEF DispatcherLocks, DispatcherTests, DispatcherWaits,
         DispatcherWakesSpuriously, SkipBusy, Dispatch, EndScan, DispatcherFaults, ThreadInv,
         taskVars
    <2> QED
      BY <2>1, <2>2, ThreadsMove
  <1>2. ASSUME NEW e \in Slots,
               StartLoop \/ EndLoop \/ Poll \/ PollReturns \/ RunCallback(e) \/ ResetSlot
                 \/ LooperFaults \/ (FanOut /\ UNCHANGED poolVars)
        PROVE  OnceInv' /\ ThreadInv'
    <2>1. UNCHANGED <<queue, running, stop, owner, dispatcher, collection>>
      BY <1>2, Zenon DEF StartLoop, EndLoop, Poll, PollReturns, RunCallback, ResetSlot,
         LooperFaults, FanOut, poolVars, ownerVars, taskVars
    <2>2. (looper' = looper \/ Looper \in running) /\ (looper' = "gone" => looper = "gone")
      BY <1>2 DEF StartLoop, EndLoop, Poll, PollReturns, RunCallback, ResetSlot,
         LooperFaults, FanOut, ThreadInv, taskVars
    <2> QED
      BY <2>1, <2>2, ThreadsMove
  <1>3. ASSUME BinderFaults \/ StartCollection \/ Sweep \/ CollectionFaults
        PROVE  OnceInv' /\ ThreadInv'
    <2>1. UNCHANGED <<queue, running, stop, owner, dispatcher, looper>>
      BY <1>3, Zenon DEF BinderFaults, StartCollection, Sweep, CollectionFaults, poolVars,
         ownerVars, taskVars
    <2>2. collection' = collection \/ Collection \in running
      BY <1>3 DEF BinderFaults, StartCollection, Sweep, CollectionFaults, ThreadInv, taskVars
    <2> QED
      BY <2>1, <2>2, ThreadsMove
  <1>4. ASSUME NEW e \in Slots,
               SendEvent(e) \/ BeginShutdown \/ SignalShutdown \/ DelEvent \/ FreeEvent
                 \/ StopLoop \/ DestroyEventMutex \/ DestroyListenerMutexes \/ DeleteAgain
        PROVE  OnceInv' /\ ThreadInv'
    <2>1. UNCHANGED <<queue, running, stop, looper, collection>>
      BY <1>4, Zenon DEF SendEvent, BeginShutdown, SignalShutdown, DelEvent, FreeEvent,
         StopLoop, DestroyEventMutex, DestroyListenerMutexes, DeleteAgain, poolVars, taskVars
    <2>2. dispatcher' = dispatcher \/ dispatcher' = "lock"
      BY <1>4 DEF SendEvent, BeginShutdown, SignalShutdown, DelEvent, FreeEvent,
         StopLoop, DestroyEventMutex, DestroyListenerMutexes, DeleteAgain, WakeDispatcher,
         taskVars
    <2>3. owner' = owner \/ owner' \notin {"new", "start_looper", "join"}
      BY <1>4 DEF SendEvent, BeginShutdown, SignalShutdown, DelEvent, FreeEvent, Then,
         StopLoop, DestroyEventMutex, DestroyListenerMutexes, DeleteAgain, ownerVars
    <2> QED
      BY <2>1, <2>2, <2>3, ThreadsMove
  <1>5. ASSUME StopPool PROVE OnceInv' /\ ThreadInv'
    <2>1. UNCHANGED <<queue, running, dispatcher, looper, collection>>
          /\ stop' = "flag" /\ owner' = "join"
      BY <1>5, Zenon DEF StopPool, RaiseStop, taskVars
    <2> QED
      BY <2>1, SamePool DEF ThreadInv
  <1>6. ASSUME NEW j \in Jobs, Add(j),
               \/ StartDispatcher /\ j = Dispatcher
               \/ StartLooper /\ j = Looper
               \/ binderDied /\ j = Collection
               \/ FanOut /\ j \in PostEvents /\ OnlyLongTasks
        PROVE  OnceInv' /\ ThreadInv'
    <2>1. OnlyLongTasks /\ j \notin {Dispatcher, Looper} => ~Has(j)
      BY DEF OnlyLongTasks, Has, Contains
    <2>2. ~Has(j)
      BY <1>6, <2>1, ServiceAssumption DEF StartDispatcher, StartLooper, binderDied, ThreadInv,
         PostEvents
    <2>3. OnceInv' /\ (\A x : Has(x)' <=> Has(x) \/ x = j) /\ UNCHANGED <<running, stop>>
      BY <1>6, <2>2, AddOnce DEF Add
    <2>4. CASE (StartDispatcher /\ j = Dispatcher) \/ (StartLooper /\ j = Looper)
      <3>1. UNCHANGED <<dispatcher, looper, collection>>
        BY <2>4, Zenon DEF StartDispatcher, StartLooper, taskVars
      <3>2. \/ owner = "new" /\ owner' = "start_looper" /\ j = Dispatcher
            \/ owner = "start_looper" /\ owner' = "service" /\ j = Looper
        BY <2>4 DEF StartDispatcher, StartLooper
      <3> QED
        BY <2>3, <3>1, <3>2, ServiceAssumption DEF ThreadInv
    <2>5. CASE binderDied /\ j = Collection
      <3>1. UNCHANGED <<dispatcher, looper, collection, owner>>
        BY <2>5, Zenon DEF binderDied, serviceVars, ownerVars, taskVars
      <3> QED
        BY <2>3, <2>5, <3>1, ServiceAssumption DEF ThreadInv
    <2>6. CASE FanOut /\ j \in PostEvents
      <3>1. UNCHANGED <<dispatcher, collection, owner>> /\ looper = "callback"
            /\ looper' = "reset"
        BY <2>6, Zenon DEF FanOut, ownerVars
      <3> QED
        BY <2>3, <2>6, <3>1, ServiceAssumption DEF ThreadInv, PostEvents
    <2> QED
      BY <1>6, <2>4, <2>5, <2>6
  <1>7. ASSUME DispatcherExits PROVE OnceInv' /\ ThreadInv'
    <2>1. OnceInv' /\ running' = running \ {Dispatcher} /\ Has(Dispatcher)
          /\ \A x : Has(x)' <=> Has(x) /\ x # Dispatcher
      BY <1>7, EndOnce DEF DispatcherExits, Has
    <2>2. UNCHANGED <<owner, looper, collection, stop>> /\ dispatcher' = "gone"
      BY <1>7, Zenon DEF DispatcherExits, Quit, ownerVars
    <2> QED
      BY <2>1, <2>2, ServiceAssumption DEF ThreadInv
  <1>8. ASSUME LoopReturns PROVE OnceInv' /\ ThreadInv'
    <2>1. OnceInv' /\ running' = running \ {Looper} /\ Has(Looper)
          /\ \A x : Has(x)' <=> Has(x) /\ x # Looper
      BY <1>8, EndOnce DEF LoopReturns, Has
    <2>2. UNCHANGED <<owner, dispatcher, collection, stop>> /\ looper' = "gone"
      BY <1>8, Zenon DEF LoopReturns, Finish, ownerVars
    <2> QED
      BY <2>1, <2>2, ServiceAssumption DEF ThreadInv
  <1>9. ASSUME NEW t \in PostEvents \cup {Collection}, EndDelivery(t) \/ EndCollection,
               EndDelivery(t) => t \in PostEvents, EndCollection => t = Collection
        PROVE  OnceInv' /\ ThreadInv'
    <2>1. Finish(t)
      BY <1>9 DEF EndDelivery, EndCollection
    <2>2. OnceInv' /\ running' = running \ {t} /\ \A x : Has(x)' <=> Has(x) /\ x # t
      BY <2>1, EndOnce
    <2>3. /\ UNCHANGED <<owner, dispatcher, looper, stop>>
          /\ collection' = "lock" \/ (collection' = collection /\ t # Collection)
      BY <1>9, <2>1 DEF EndDelivery, EndCollection, Finish, serviceVars, ownerVars, taskVars,
         PostEvents
    <2> QED
      BY <2>2, <2>3, ServiceAssumption DEF ThreadInv, PostEvents
  <1>10. ASSUME PoolStep \/ (Rouse /\ UNCHANGED serviceVars) PROVE OnceInv' /\ ThreadInv'
    <2>1. UNCHANGED <<owner, dispatcher, looper, collection>> /\ (stop # "no" => stop' # "no")
      BY <1>10 DEF PoolStep, serviceVars, ownerVars, taskVars, Start, Leave, AskToLeave, Rouse
    <2>2. Start \/ UNCHANGED <<queue, running>>
      BY <1>10 DEF PoolStep, Leave, AskToLeave, Rouse
    <2>3. OnceInv' /\ running \subseteq running' /\ \A x : Has(x)' <=> Has(x)
      BY <2>2, StartOnce, SamePool
    <2> QED
      BY <2>1, <2>3 DEF ThreadInv
  <1> QED
    <2>1. 0 \in Slots
      BY DEF Slots
    <2>2. FanOut => \/ UNCHANGED poolVars
                    \/ \E t \in PostEvents : OnlyLongTasks /\ Add(t)
      BY DEF FanOut
    <2>3. /\ StartDispatcher => Add(Dispatcher)
          /\ StartLooper => Add(Looper)
          /\ binderDied => Add(Collection)
      BY DEF StartDispatcher, StartLooper, binderDied
    <2>4. FanOut => OnceInv' /\ ThreadInv'
      BY <1>2, <1>6, <2>1, <2>2
    <2>5. StartDispatcher \/ StartLooper \/ binderDied => OnceInv' /\ ThreadInv'
      BY <1>6, <2>3
    <2>6. DispatcherStep \/ DispatcherLocks \/ DispatcherWakesSpuriously
            => OnceInv' /\ ThreadInv'
      BY <1>1, <1>7, <2>1 DEF DispatcherStep
    <2>7. LooperStep \/ ResetSlot => OnceInv' /\ ThreadInv'
      BY <1>2, <1>8, <2>1, <2>4 DEF LooperStep
    <2>8. TaskStep \/ StartCollection \/ BinderFaults => OnceInv' /\ ThreadInv'
      BY <1>3, <1>9, ServiceAssumption DEF TaskStep, PostEvents, EndDelivery, EndCollection,
         serviceVars, taskVars
    <2>9. OwnerStep \/ BeginShutdown \/ (\E e \in Slots : SendEvent(e)) => OnceInv' /\ ThreadInv'
      BY <1>4, <1>5, <2>1, <2>5 DEF OwnerStep
    <2> QED
      BY <1>10, <2>5, <2>6, <2>7, <2>8, <2>9 DEF Next

\* A step that neither breaks the loop nor polls keeps the loop awake.
LEMMA PollStep ==
    ASSUME Order, PollInv, Next
    PROVE  PollInv'
  <1> USE DEF PollInv, Fail
  <1> DEFINE same == UNCHANGED <<owner, looper, notified>>
             broken(o) == o \in {"destroy", "destroy_cb", "stop", "join"}
  <1>1. CASE Poll
    <2>1. broken(owner) => LoopOver
      BY <1>1 DEF Order, LoopOver, AllDeleted, Poll
    <2> QED
      BY <1>1, <2>1 DEF Poll, ownerVars
  <1>2. CASE StartLoop \/ EndLoop \/ PollReturns \/ FanOut \/ LoopReturns \/ ResetSlot
               \/ \E e \in Slots : RunCallback(e)
    BY <1>2 DEF StartLoop, EndLoop, PollReturns, FanOut, LoopReturns, ResetSlot, RunCallback
  <1>3. ASSUME NEW e \in Slots, Dispatch(e) PROVE PollInv'
    BY <1>3 DEF Dispatch, Notify, ownerVars
  <1>4. CASE StopLoop
    BY <1>4 DEF StopLoop, Notify, taskVars
  <1>5. CASE StartDispatcher \/ StartLooper \/ BeginShutdown \/ SignalShutdown \/ DelEvent
               \/ FreeEvent \/ DestroyEventMutex \/ DestroyListenerMutexes \/ StopPool
    <2>1. UNCHANGED notified
      BY <1>5, Zenon DEF StartDispatcher, StartLooper, BeginShutdown, SignalShutdown, DelEvent,
         FreeEvent, DestroyEventMutex, DestroyListenerMutexes, StopPool, eventVars
    <2>2. UNCHANGED looper /\ (broken(owner') => broken(owner))
      BY <1>5 DEF StartDispatcher, StartLooper, BeginShutdown, SignalShutdown, DelEvent,
         FreeEvent, DestroyEventMutex, DestroyListenerMutexes, StopPool, Then, taskVars
    <2> QED
      BY <2>1, <2>2
  <1>6. ASSUME same PROVE PollInv'
    BY <1>6
  <1>7. DispatcherLocks \/ DispatcherTests \/ DispatcherWaits \/ DispatcherWakesSpuriously
          \/ (\E e \in Slots : SkipBusy(e)) \/ EndScan \/ DispatcherExits => same
    BY Zenon DEF DispatcherLocks, DispatcherTests, DispatcherWaits, DispatcherWakesSpuriously,
                 SkipBusy, EndScan, DispatcherExits, eventVars, ownerVars
  <1>8. DispatcherFaults \/ LooperFaults \/ CollectionFaults \/ BinderFaults \/ DeleteAgain
          => same
    BY Zenon DEF DispatcherFaults, LooperFaults, CollectionFaults, BinderFaults, DeleteAgain,
                 eventVars, ownerVars, taskVars
  <1>9. StartCollection \/ Sweep \/ EndCollection \/ (\E e \in Slots : SendEvent(e)) => same
    BY Zenon DEF StartCollection, Sweep, EndCollection, SendEvent, eventVars, ownerVars
  <1>10. binderDied \/ (\E t \in PostEvents : EndDelivery(t)) \/ PoolStep
           \/ (Rouse /\ UNCHANGED serviceVars) => same
    BY Zenon DEF binderDied, EndDelivery, PoolStep, serviceVars, eventVars, ownerVars, taskVars
  <1> HIDE DEF PollInv, same
  <1> QED
    BY <1>1, <1>2, <1>3, <1>4, <1>5, <1>6, <1>7, <1>8, <1>9, <1>10
       DEF Next, DispatcherStep, LooperStep, TaskStep, OwnerStep

StandInv == HolderInv /\ OnceInv /\ ThreadInv /\ PollInv

LEMMA StandInit == Init => StandInv
  <1> SUFFICES ASSUME Init PROVE StandInv
    OBVIOUS
  <1>1. ~\E j : Has(j)
    BY DEF Init, QueueInit, Has, Contains
  <1>2. HolderInv /\ ThreadInv /\ PollInv
    BY <1>1, ServiceFacts DEF Init, QueueInit, HolderInv, ThreadInv, PollInv
  <1>3. OnceInv
    BY DEF Init, QueueInit, OnceInv, IsInjective
  <1> QED
    BY <1>2, <1>3 DEF StandInv

LEMMA StandStep == ShutdownInv /\ StandInv /\ [Next]_vars => StandInv'
  <1> SUFFICES ASSUME ShutdownInv, StandInv, [Next]_vars PROVE StandInv'
    OBVIOUS
  <1>1. PoolType /\ ServiceType /\ Order
    BY TypeParts DEF ShutdownInv
  <1>2. CASE Next
    BY <1>1, <1>2, HolderStep, ThreadStep, PollStep DEF StandInv
  <1>3. CASE UNCHANGED vars
    <2>1. UNCHANGED <<owner, dispatcher, looper, collection, stop, m_pEventMutex, notified,
                      queue, running>>
      BY <1>3, Zenon DEF vars, serviceVars, infoVars, eventVars, ownerVars, taskVars, poolVars
    <2>2. (HolderInv /\ PollInv)'
      BY <2>1, Zenon DEF StandInv, HolderInv, PollInv
    <2>3. (OnceInv /\ ThreadInv)'
      BY <2>1, ThreadsMove DEF StandInv
    <2> QED
      BY <2>2, <2>3 DEF StandInv
  <1> QED
    BY <1>2, <1>3

\* Whoever has the mutex goes on, and the tasks that run do, but for a
\* dispatcher that sleeps and a loop that polls.
LEMMA HolderGoesOn ==
    ASSUME ServiceType, HolderInv, ~DispatcherGoesOn, ~TaskGoesOn
    PROVE  EventMutexFree
  BY DEF ServiceType, HolderInv, DispatcherGoesOn, TaskGoesOn, EventMutexFree

LEMMA TasksGoOn ==
    ASSUME ServiceType, HolderInv, ThreadInv, NEW j \in running, j \in Jobs,
           ~DispatcherGoesOn, ~LooperGoesOn, ~TaskGoesOn
    PROVE  \/ j = Dispatcher /\ dispatcher = "waiting"
           \/ j = Looper /\ looper = "poll" /\ ~notified
  <1>1. EventMutexToHave
    BY HolderGoesOn DEF EventMutexToHave
  <1>2. CASE j = Dispatcher
    BY <1>1, <1>2 DEF DispatcherGoesOn, ServiceType, ThreadInv, Has
  <1>3. CASE j = Looper
    BY <1>1, <1>3 DEF LooperGoesOn, ServiceType, ThreadInv, Has
  <1>4. CASE j = Collection
    BY <1>1, <1>4 DEF TaskGoesOn, ServiceType
  <1>5. CASE j \in PostEvents
    BY <1>5 DEF TaskGoesOn
  <1> QED
    BY <1>2, <1>3, <1>4, <1>5 DEF PostEvents

\* However many events and threads there are: ~Event comes to a standstill only
\* in its join, and only for a thread that StopAll has missed or for the
\* dispatcher that sleeps.  The looper always leaves its loop.
THEOREM ShutdownGoesOn == Spec => []SomeoneGoesOn
  <1>1. ASSUME ShutdownInv, StandInv PROVE SomeoneGoesOn
    <2> SUFFICES ASSUME owner # "service", ~DispatcherGoesOn, ~LooperGoesOn, ~TaskGoesOn,
                        ~PoolGoesOn, ~OwnerGoesOn
                 PROVE  owner = "join" /\ (missed \/ dispatcher = "waiting")
      BY DEF SomeoneGoesOn, ThreadGoesOn
    <2>1. /\ PoolType /\ ServiceType /\ Capacity /\ CallbackRuns /\ Order
          /\ HolderInv /\ ThreadInv /\ PollInv
      BY <1>1, TypeParts DEF ShutdownInv, StandInv
    <2>2. EventMutexFree
      BY <2>1, HolderGoesOn
    <2>3. owner \notin {"del", "del_again"}
      <3> SUFFICES ASSUME owner \in {"del", "del_again"} PROVE FALSE
        OBVIOUS
      <3>1. current = i /\ current # NULL
        BY <2>1, ServiceAssumption DEF OwnerGoesOn, CallbackOver, ServiceType
      <3> QED
        BY <2>1, <2>2, <3>1 DEF CallbackRuns, LooperGoesOn, EventMutexToHave
    <2>4. owner = "join"
      BY <2>1, <2>3 DEF OwnerGoesOn, ServiceType
    <2>5. SUFFICES ASSUME ~missed PROVE dispatcher = "waiting"
      BY <2>4
    <2>6. stop = "asked" /\ ~(Idle > 0)
      BY <2>1, <2>4, <2>5 DEF ThreadInv, PoolType, PoolGoesOn
    <2>7. running # {}
      <3> SUFFICES ASSUME running = {} PROVE FALSE
        OBVIOUS
      <3>1. Cardinality(running) = 0
        BY FS_EmptySet, Zenon
      <3>2. left = PoolSize
        BY <2>1, <2>6, <3>1, ServiceFacts DEF Idle, PoolType
      <3> QED
        BY <2>4, <2>6, <3>2 DEF OwnerGoesOn, AllLeft
    <2>8. PICK j \in running : j \in Jobs
      BY <2>1, <2>7 DEF PoolType
    <2>9. ~(looper = "poll" /\ ~notified)
      BY <2>1, <2>4, Zenon DEF PollInv
    <2> QED
      BY <2>1, <2>8, <2>9, TasksGoOn
  <1> QED
    BY <1>1, ShutdownInvariant, StandInit, StandStep, PTL DEF Spec

-----------------------------------------------------------------------------
(* The dispatcher's last sleep.                                            *)

\* The dispatcher sleeps through ~Event only if it was about to wait when the
\* flag was cleared: once ~Event has signalled it never goes to sleep any more.
Signalled == owner \notin {"new", "start_looper", "service", "signal"}
Asleep == dispatcher \in {"wait", "waiting"}
StaysAwake == [][Signalled /\ ~Asleep => ~Asleep']_vars

\* The flag stays cleared.
FlagInv == Signalled \/ owner = "signal" => ~m_bEnableEventInfoQueen

LEMMA FlagStep == FlagInv /\ [Next]_vars => FlagInv'
  <1> SUFFICES ASSUME FlagInv, [Next]_vars PROVE FlagInv'
    OBVIOUS
  <1> USE DEF FlagInv, Signalled
  <1> DEFINE same == UNCHANGED <<owner, m_bEnableEventInfoQueen>>
  <1>1. CASE BeginShutdown
    BY <1>1 DEF BeginShutdown
  <1>2. CASE OwnerStep
    <2>1. UNCHANGED m_bEnableEventInfoQueen
      BY <1>2, Zenon DEF OwnerStep, StartDispatcher, StartLooper, SignalShutdown, DelEvent,
         FreeEvent, StopLoop, DestroyEventMutex, DestroyListenerMutexes, StopPool, DeleteAgain,
         Fail, infoVars
    <2>2. owner \in {"new", "start_looper", "service"} => owner' \in {"new", "start_looper", "service"}
      BY <1>2 DEF OwnerStep, StartDispatcher, StartLooper, SignalShutdown, DelEvent,
         FreeEvent, StopLoop, DestroyEventMutex, DestroyListenerMutexes, StopPool, DeleteAgain,
         Fail, ownerVars
    <2> QED
      BY <2>1, <2>2, Zenon
  <1>3. ASSUME same PROVE FlagInv'
    BY <1>3, Zenon
  <1>4. DispatcherStep \/ DispatcherLocks \/ DispatcherWakesSpuriously => same
    BY Zenon DEF DispatcherStep, DispatcherLocks, DispatcherTests, DispatcherWaits,
       DispatcherWakesSpuriously, SkipBusy, Dispatch, EndScan, DispatcherExits,
       DispatcherFaults, Fail, infoVars, ownerVars
  <1>5. LooperStep \/ ResetSlot => same
    BY Zenon DEF LooperStep, StartLoop, EndLoop, Poll, PollReturns, FanOut, LoopReturns,
       ResetSlot, RunCallback, LooperFaults, Fail, infoVars, ownerVars
  <1>6. TaskStep \/ StartCollection \/ binderDied \/ BinderFaults
          \/ (\E e \in Slots : SendEvent(e)) => same
    BY Zenon DEF TaskStep, StartCollection, Sweep, EndCollection, CollectionFaults, EndDelivery,
       binderDied, BinderFaults, SendEvent, Fail, serviceVars, infoVars, ownerVars
  <1>7. PoolStep \/ (Rouse /\ UNCHANGED serviceVars) \/ UNCHANGED vars => same
    BY Zenon DEF PoolStep, vars, serviceVars, infoVars, ownerVars
  <1> HIDE DEF FlagInv, same
  <1> QED
    BY <1>1, <1>2, <1>3, <1>4, <1>5, <1>6, <1>7 DEF Next

\* A dispatcher that was not about to wait when ~Event signalled never waits
\* again, wherever it was.
THEOREM DispatcherStaysAwake == Spec => StaysAwake
  <1>1. Init => FlagInv
    BY Zenon DEF Init, FlagInv, Signalled
  <1>2. ASSUME FlagInv, [Next]_vars, Signalled, ~Asleep PROVE ~Asleep'
    <2>1. ~m_bEnableEventInfoQueen
      BY <1>2 DEF FlagInv
    <2>2. CASE DispatcherTests
      BY <2>1, <2>2 DEF DispatcherTests, Sleeps, Asleep
    <2>3. CASE DispatcherLocks \/ DispatcherWaits \/ DispatcherWakesSpuriously \/ EndScan
                 \/ DispatcherExits \/ SignalShutdown \/ (\E e \in Slots : SendEvent(e))
      BY <1>2, <2>3 DEF DispatcherLocks, DispatcherWaits, DispatcherWakesSpuriously, EndScan,
         DispatcherExits, SignalShutdown, SendEvent, WakeDispatcher, Asleep
    <2>4. DispatcherFaults \/ LooperFaults \/ CollectionFaults \/ BinderFaults
            => UNCHANGED dispatcher
      BY Zenon DEF DispatcherFaults, LooperFaults, CollectionFaults, BinderFaults, Fail, taskVars
    <2>5. (\E e \in Slots : SkipBusy(e) \/ Dispatch(e) \/ RunCallback(e)) => UNCHANGED dispatcher
      BY Zenon DEF SkipBusy, Dispatch, RunCallback
    <2>6. StartLoop \/ EndLoop \/ Poll \/ PollReturns \/ FanOut \/ LoopReturns \/ ResetSlot
            => UNCHANGED dispatcher
      BY Zenon DEF StartLoop, EndLoop, Poll, PollReturns, FanOut, LoopReturns, ResetSlot
    <2>7. StartCollection \/ Sweep \/ EndCollection \/ binderDied
            \/ (\E t \in PostEvents : EndDelivery(t)) \/ PoolStep
            \/ (Rouse /\ UNCHANGED serviceVars) => UNCHANGED dispatcher
      BY Zenon DEF StartCollection, Sweep, EndCollection, binderDied, EndDelivery, PoolStep,
         serviceVars, taskVars
    <2>8. StartDispatcher \/ StartLooper \/ BeginShutdown \/ DelEvent \/ FreeEvent \/ StopLoop
            \/ DestroyEventMutex \/ DestroyListenerMutexes \/ StopPool \/ DeleteAgain
            => UNCHANGED dispatcher
      BY Zenon DEF StartDispatcher, StartLooper, BeginShutdown, DelEvent, FreeEvent, StopLoop,
         DestroyEventMutex, DestroyListenerMutexes, StopPool, DeleteAgain, Fail, taskVars
    <2>9. UNCHANGED vars => UNCHANGED dispatcher
      BY Zenon DEF vars, serviceVars, taskVars
    <2>10. UNCHANGED dispatcher => ~Asleep'
      BY <1>2 DEF Asleep
    <2> QED
      BY <1>2, <2>2, <2>3, <2>4, <2>5, <2>6, <2>7, <2>8, <2>9, <2>10
         DEF Next, DispatcherStep, LooperStep, TaskStep, OwnerStep
  <1>3. FlagInv /\ [Next]_vars => [Signalled /\ ~Asleep => ~Asleep']_vars
    BY <1>2, Zenon
  <1> QED
    BY <1>1, <1>3, FlagStep, PTL DEF Spec, StaysAwake
=============================================================================
