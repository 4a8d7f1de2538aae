---------------------------- MODULE EventShutdown ----------------------------
(***************************************************************************)
(* The life of the service's threads: Event::Event starts the dispatcher   *)
(* and the looper as two tasks of the pool, and ~Event (Event.cpp 127-167) *)
(* ends them.  It clears m_bEnableEventInfoQueen without the mutex,        *)
(* signals once, frees libevent's events one by one, breaks the loop,      *)
(* destroys the mutexes, and last stops the pool, which joins its threads. *)
(*                                                                         *)
(* The pool's steps are TaskQueue's actions.  (ThreadPool implements them  *)
(* for tasks that are added once; the collection here is added again and   *)
(* again.)  Nobody starts a timer here: timers are in EventDispatch.  Use  *)
(* of a freed event, of a destroyed mutex or of a stopped pool has no      *)
(* defined result; it sets `fault` and nothing after it is explored.       *)
(* Nobody sends during ~Event, because a binder call holds a reference to  *)
(* the service; a client may die at any time.                              *)
(***************************************************************************)
EXTENDS TaskQueue

CONSTANTS
    Dispatcher, Looper, Collection,   \* jobs; the other ones are PostEvents
    SlotCount,                        \* E_SYSTEM_EVENT_MAX
    NULL

ASSUME ServiceAssumption ==
    /\ {Dispatcher, Looper, Collection} \subseteq Jobs
    /\ Dispatcher # Looper /\ Dispatcher # Collection /\ Looper # Collection
    /\ PoolSize \in Nat
    /\ SlotCount \in Nat \ {0}
    /\ NULL \notin Nat /\ NULL \notin Jobs

Slots == 0..(SlotCount - 1)
PostEvents == Jobs \ {Dispatcher, Looper, Collection}

VARIABLES
    m_bEnableEventInfoQueen,
    m_vEventInfo,    \* the event types that have an info in the queue
    m_pEventMutex,   \* the task that holds it, or NULL
    dispatcher,      \* where EventDispatcher is
    todo,            \* what its scan has not visited
    active,          \* libevent's active queue
    ev_arg,          \* the events whose ev_arg is set
    current,         \* the event whose callback runs, or NULL
    notified,        \* the byte that wakes libevent's poll
    event_break,     \* what event_base_loopbreak sets
    looper,          \* where EventLooper is
    collection,      \* where GarbageCollection is
    owner,           \* where the thread is that makes and deletes the service
    i,               \* the loop variable of ~Event: the events below i are freed
    destroyed,       \* the mutexes that are destroyed
    late,            \* an event was activated between its last event_del and
                     \* its release (history)
    fault            \* who used what is gone, or NULL

infoVars == <<m_bEnableEventInfoQueen, m_vEventInfo, m_pEventMutex>>
eventVars == <<active, ev_arg, current, notified, event_break, late>>
ownerVars == <<owner, i, destroyed>>
taskVars == <<dispatcher, todo, looper, collection>>
serviceVars == <<infoVars, eventVars, ownerVars, taskVars, fault>>
vars == <<poolVars, serviceVars>>

Freed == 0..(i - 1)
EventMutexFree == m_pEventMutex = NULL
MutexGone == "event" \in destroyed

TypeOK ==
    /\ queue \in Seq(Jobs) /\ running \subseteq Jobs
    /\ left \in 0..PoolSize /\ stop \in {"no", "flag", "asked"} /\ missed \in BOOLEAN
    /\ m_bEnableEventInfoQueen \in BOOLEAN
    /\ m_vEventInfo \subseteq Slots /\ todo \subseteq Slots
    /\ m_pEventMutex \in {NULL, Dispatcher, Collection}
    /\ dispatcher \in {"lock", "test", "wait", "waiting", "scan", "exit", "gone"}
    /\ active \subseteq Slots /\ ev_arg \subseteq Slots
    /\ current \in Slots \cup {NULL}
    /\ notified \in BOOLEAN /\ event_break \in BOOLEAN
    /\ looper \in {"start", "loop", "poll", "callback", "reset", "done", "gone"}
    /\ collection \in {"lock", "sweep", "done"}
    /\ owner \in {"new", "start_looper", "service", "signal", "del", "del_again",
                  "free", "break", "destroy", "destroy_cb", "stop", "join"}
    /\ i \in 0..SlotCount
    /\ destroyed \subseteq {"event", "cb"}
    /\ late \in BOOLEAN
    /\ fault \in {NULL, "dispatcher", "looper", "collection", "binder", "owner"}

Init ==
    /\ QueueInit
    /\ m_bEnableEventInfoQueen = TRUE
    /\ m_vEventInfo = {} /\ todo = {}
    /\ m_pEventMutex = NULL
    /\ dispatcher = "lock" /\ looper = "start" /\ collection = "lock"
    /\ active = {} /\ ev_arg = {} /\ current = NULL
    /\ notified = FALSE /\ event_break = FALSE
    /\ owner = "new" /\ i = 0 /\ destroyed = {}
    /\ late = FALSE /\ fault = NULL

\* Bound: one PostEvent or collection at a time.
OnlyLongTasks ==
    /\ running \subseteq {Dispatcher, Looper}
    /\ \A k \in DOMAIN queue : queue[k] \in {Dispatcher, Looper}

Fail(who) ==
    /\ fault' = who
    /\ UNCHANGED <<poolVars, infoVars, eventVars, ownerVars, taskVars>>

-----------------------------------------------------------------------------
(* The dispatcher: a thread of the pool runs EventDispatcher.              *)

DispatcherLocks ==
    /\ Dispatcher \in running /\ dispatcher = "lock" /\ ~MutexGone /\ EventMutexFree
    /\ m_pEventMutex' = Dispatcher
    /\ dispatcher' = "test"
    /\ UNCHANGED <<poolVars, m_bEnableEventInfoQueen, m_vEventInfo, eventVars,
                   ownerVars, todo, looper, collection, fault>>

\* The while condition; the flag is tested once more behind it.
Sleeps_IgnoresFlag == m_vEventInfo = {}    \* mutant
Sleeps == m_vEventInfo = {} /\ m_bEnableEventInfoQueen

DispatcherTests ==
    /\ dispatcher = "test"
    /\ \/ /\ Sleeps
          /\ dispatcher' = "wait"
          /\ UNCHANGED <<m_pEventMutex, todo>>
       \/ /\ ~Sleeps /\ m_bEnableEventInfoQueen
          /\ dispatcher' = "scan" /\ todo' = m_vEventInfo
          /\ UNCHANGED m_pEventMutex
       \/ /\ ~Sleeps /\ ~m_bEnableEventInfoQueen
          /\ dispatcher' = "exit" /\ m_pEventMutex' = NULL
          /\ UNCHANGED todo
    /\ UNCHANGED <<poolVars, m_bEnableEventInfoQueen, m_vEventInfo, eventVars,
                   ownerVars, looper, collection, fault>>

\* (A condition variable that is destroyed leaves its waiter asleep.)
DispatcherWaits ==
    /\ dispatcher = "wait"
    /\ dispatcher' = "waiting" /\ m_pEventMutex' = NULL
    /\ UNCHANGED <<poolVars, m_bEnableEventInfoQueen, m_vEventInfo, eventVars,
                   ownerVars, todo, looper, collection, fault>>

DispatcherWakesSpuriously ==
    /\ dispatcher = "waiting"
    /\ dispatcher' = "lock"
    /\ UNCHANGED <<poolVars, infoVars, eventVars, ownerVars, todo, looper,
                   collection, fault>>

\* A busy event stays in the queue.
SkipBusy(e) ==
    /\ dispatcher = "scan" /\ e \in todo \ Freed
    /\ e \in active \cup ev_arg
    /\ todo' = todo \ {e}
    /\ UNCHANGED <<poolVars, infoVars, eventVars, ownerVars, dispatcher, looper,
                   collection, fault>>

\* What wakes the poll of a loop that has begun.
Notify == notified' = (notified \/ looper \notin {"start", "done", "gone"})

\* Another one is activated and erased, and it++ steps over the next one.
\* (The order of the queue is left open.)
Dispatch(e) ==
    /\ dispatcher = "scan" /\ e \in todo \ Freed
    /\ e \notin active \cup ev_arg
    /\ active' = active \cup {e} /\ ev_arg' = ev_arg \cup {e}
    /\ Notify
    /\ m_vEventInfo' = m_vEventInfo \ {e}
    /\ \/ todo = {e} /\ todo' = {}
       \/ \E f \in todo \ {e} : todo' = todo \ {e, f}
    /\ late' = (late \/ (e = i /\ owner = "free"))
    /\ UNCHANGED <<poolVars, m_bEnableEventInfoQueen, m_pEventMutex, current,
                   event_break, ownerVars, dispatcher, looper, collection, fault>>

EndScan ==
    /\ dispatcher = "scan" /\ todo = {}
    /\ dispatcher' = "lock" /\ m_pEventMutex' = NULL
    /\ UNCHANGED <<poolVars, m_bEnableEventInfoQueen, m_vEventInfo, eventVars,
                   ownerVars, todo, looper, collection, fault>>

\* pthread_exit ends the pool's thread.
DispatcherExits ==
    /\ dispatcher = "exit" /\ Quit(Dispatcher)
    /\ dispatcher' = "gone"
    /\ UNCHANGED <<infoVars, eventVars, ownerVars, todo, looper, collection, fault>>

\* It locks a mutex that is destroyed, or reads an event that is freed.
DispatcherFaults ==
    /\ \/ Dispatcher \in running /\ dispatcher = "lock" /\ MutexGone
       \/ dispatcher = "scan" /\ todo \cap Freed # {}
    /\ Fail("dispatcher")

-----------------------------------------------------------------------------
(* The looper: a thread of the pool runs event_base_dispatch.              *)

\* event_base_loop forgets a break that came before it.
StartLoop ==
    /\ Looper \in running /\ looper = "start"
    /\ looper' = "loop" /\ event_break' = FALSE
    /\ UNCHANGED <<poolVars, infoVars, active, ev_arg, current, notified, late,
                   ownerVars, dispatcher, todo, collection, fault>>

\* It returns on a break, or when no event is left, and else polls if no event
\* is active.  (A normal event is `added` until event_del.)
AllDeleted ==
    \/ i = SlotCount
    \/ i = SlotCount - 1 /\ owner \in {"del_again", "free"}
LoopOver == event_break \/ (AllDeleted /\ active = {})

EndLoop ==
    /\ looper = "loop" /\ LoopOver
    /\ looper' = "done"
    /\ UNCHANGED <<poolVars, infoVars, eventVars, ownerVars, dispatcher, todo,
                   collection, fault>>

Poll ==
    /\ looper = "loop" /\ ~LoopOver /\ active = {}
    /\ looper' = "poll"
    /\ UNCHANGED <<poolVars, infoVars, eventVars, ownerVars, dispatcher, todo,
                   collection, fault>>

PollReturns ==
    /\ looper = "poll" /\ notified
    /\ looper' = "loop" /\ notified' = FALSE
    /\ UNCHANGED <<poolVars, infoVars, active, ev_arg, current, event_break, late,
                   ownerVars, dispatcher, todo, collection, fault>>

RunCallback(e) ==
    /\ looper = "loop" /\ ~LoopOver /\ e \in active \ Freed
    /\ active' = active \ {e} /\ current' = e
    /\ looper' = "callback"
    /\ UNCHANGED <<poolVars, infoVars, ev_arg, notified, event_break, late, ownerVars,
                   dispatcher, todo, collection, fault>>

\* The fan-out, which holds m_pCbLinstenerMutex[current]: a PostEvent, or none.
FanOut ==
    /\ looper = "callback" /\ "cb" \notin destroyed /\ ~AllLeft
    /\ \/ UNCHANGED poolVars
       \/ OnlyLongTasks /\ \E t \in PostEvents : Add(t)
    /\ looper' = "reset"
    /\ UNCHANGED <<infoVars, eventVars, ownerVars, dispatcher, todo, collection, fault>>

ResetSlot ==
    /\ looper = "reset" /\ ~MutexGone /\ current \notin Freed /\ EventMutexFree
    /\ ev_arg' = ev_arg \ {current} /\ current' = NULL
    /\ looper' = "loop"
    /\ UNCHANGED <<poolVars, infoVars, active, notified, event_break, late, ownerVars,
                   dispatcher, todo, collection, fault>>

LoopReturns ==
    /\ looper = "done" /\ Finish(Looper)
    /\ looper' = "gone"
    /\ UNCHANGED <<infoVars, eventVars, ownerVars, dispatcher, todo, collection, fault>>

LooperFaults ==
    /\ \/ looper = "loop" /\ ~LoopOver /\ active \cap Freed # {}
       \/ looper = "callback" /\ ("cb" \in destroyed \/ AllLeft)
       \/ looper = "reset" /\ (MutexGone \/ current \in Freed)
    /\ Fail("looper")

-----------------------------------------------------------------------------
(* PostEvents, and the collection for a client that has died.  (Their      *)
(* order by m_pDeathMutex, which is never destroyed, is in                 *)
(* ListenerRegistry.)                                                      *)

EndDelivery(t) ==
    /\ Finish(t)
    /\ UNCHANGED serviceVars

binderDied ==
    /\ owner \notin {"new", "start_looper"} /\ ~AllLeft /\ OnlyLongTasks
    /\ Add(Collection)
    /\ UNCHANGED serviceVars

BinderFaults ==
    /\ AllLeft
    /\ Fail("binder")

StartCollection ==
    /\ Collection \in running /\ collection = "lock" /\ ~MutexGone /\ EventMutexFree
    /\ collection' = "sweep" /\ m_pEventMutex' = Collection
    /\ UNCHANGED <<poolVars, m_bEnableEventInfoQueen, m_vEventInfo, eventVars,
                   ownerVars, dispatcher, todo, looper, fault>>

Sweep ==
    /\ collection = "sweep" /\ "cb" \notin destroyed
    /\ collection' = "done" /\ m_pEventMutex' = NULL
    /\ UNCHANGED <<poolVars, m_bEnableEventInfoQueen, m_vEventInfo, eventVars,
                   ownerVars, dispatcher, todo, looper, fault>>

EndCollection ==
    /\ collection = "done" /\ Finish(Collection)
    /\ collection' = "lock"
    /\ UNCHANGED <<infoVars, eventVars, ownerVars, dispatcher, todo, looper, fault>>

CollectionFaults ==
    /\ \/ Collection \in running /\ collection = "lock" /\ MutexGone
       \/ collection = "sweep" /\ "cb" \in destroyed
    /\ Fail("collection")

-----------------------------------------------------------------------------
(* The owner: Event::Event, the service's time, and ~Event.                *)

StartDispatcher ==
    /\ owner = "new" /\ Add(Dispatcher)
    /\ owner' = "start_looper"
    /\ UNCHANGED <<infoVars, eventVars, i, destroyed, taskVars, fault>>

StartLooper ==
    /\ owner = "start_looper" /\ Add(Looper)
    /\ owner' = "service"
    /\ UNCHANGED <<infoVars, eventVars, i, destroyed, taskVars, fault>>

WakeDispatcher == dispatcher' = IF dispatcher = "waiting" THEN "lock" ELSE dispatcher

\* A binder thread queues an info and signals.  (The gap between the two is in
\* EventDispatch.)
SendEvent(e) ==
    /\ owner = "service" /\ EventMutexFree
    /\ e \notin m_vEventInfo
    /\ m_vEventInfo' = m_vEventInfo \cup {e}
    /\ WakeDispatcher
    /\ UNCHANGED <<poolVars, m_bEnableEventInfoQueen, m_pEventMutex, eventVars,
                   ownerVars, todo, looper, collection, fault>>

\* The last reference to the service goes.
BeginShutdown ==
    /\ owner = "service"
    /\ m_bEnableEventInfoQueen' = FALSE
    /\ owner' = "signal"
    /\ UNCHANGED <<poolVars, m_vEventInfo, m_pEventMutex, eventVars, i, destroyed,
                   taskVars, fault>>

\* The order of ~Event.
Then_BreakFirst(step) ==    \* mutant
    CASE step = "signal" -> "break" [] step = "break" -> "del" [] step = "free" -> "destroy"
Then(step) ==
    CASE step = "signal" -> "del" [] step = "free" -> "break" [] step = "break" -> "destroy"

SignalShutdown ==
    /\ owner = "signal"
    /\ WakeDispatcher
    /\ owner' = Then("signal")
    /\ UNCHANGED <<poolVars, infoVars, eventVars, i, destroyed, todo, looper,
                   collection, fault>>

\* event_del waits for a running callback of its event.
CallbackOver_Assumed == TRUE    \* mutant
CallbackOver == current # i

\* Once by ~Event, once more by event_free.
DelEvent ==
    /\ owner \in {"del", "del_again"} /\ CallbackOver
    /\ active' = active \ {i}
    /\ owner' = IF owner = "del" THEN "del_again" ELSE "free"
    /\ UNCHANGED <<poolVars, infoVars, ev_arg, current, notified, event_break, late,
                   i, destroyed, taskVars, fault>>

\* The condition of ~Event's loop.
MoreEvents_OneTooMany(n) == n <= SlotCount    \* mutant
MoreEvents(n) == n < SlotCount

FreeEvent ==
    /\ owner = "free"
    /\ i' = i + 1
    /\ owner' = IF MoreEvents(i') THEN "del" ELSE Then("free")
    /\ UNCHANGED <<poolVars, infoVars, eventVars, destroyed, taskVars, fault>>

\* EventLooper::Stop: event_base_loopbreak.
StopLoop ==
    /\ owner = "break"
    /\ event_break' = TRUE /\ Notify
    /\ owner' = Then("break")
    /\ UNCHANGED <<poolVars, infoVars, active, ev_arg, current, late, i, destroyed,
                   taskVars, fault>>

\* A mutex that is held is not destroyed: pthread_mutex_destroy answers EBUSY.
DestroyEventMutex ==
    /\ owner = "destroy"
    /\ destroyed' = IF EventMutexFree THEN {"event"} ELSE {}
    /\ owner' = "destroy_cb"
    /\ UNCHANGED <<poolVars, infoVars, eventVars, i, taskVars, fault>>

DestroyListenerMutexes ==
    /\ owner = "destroy_cb"
    /\ destroyed' = destroyed \cup {"cb"}
    /\ owner' = "stop"
    /\ UNCHANGED <<poolVars, infoVars, eventVars, i, taskVars, fault>>

StopPool ==
    /\ owner = "stop" /\ RaiseStop
    /\ owner' = "join"
    /\ UNCHANGED <<infoVars, eventVars, i, destroyed, taskVars, fault>>

\* StopAll has returned: `delete m_pThis` runs ~Event again, on freed events.
DeleteAgain ==
    /\ owner = "join" /\ AllLeft
    /\ Fail("owner")

-----------------------------------------------------------------------------
PoolStep == (Start \/ Leave \/ AskToLeave) /\ UNCHANGED serviceVars

DispatcherStep ==
    \/ DispatcherTests \/ DispatcherWaits \/ EndScan \/ DispatcherExits
    \/ DispatcherFaults
    \/ \E e \in Slots : SkipBusy(e) \/ Dispatch(e)

LooperStep ==
    \/ StartLoop \/ EndLoop \/ Poll \/ PollReturns \/ FanOut
    \/ LoopReturns \/ LooperFaults
    \/ \E e \in Slots : RunCallback(e)

TaskStep ==
    \/ \E t \in PostEvents : EndDelivery(t)
    \/ Sweep \/ EndCollection \/ CollectionFaults

OwnerStep ==
    \/ StartDispatcher \/ StartLooper
    \/ SignalShutdown \/ DelEvent \/ FreeEvent \/ StopLoop
    \/ DestroyEventMutex \/ DestroyListenerMutexes \/ StopPool \/ DeleteAgain

Next ==
    /\ fault = NULL
    /\ \/ PoolStep \/ (Rouse /\ UNCHANGED serviceVars)
       \/ DispatcherLocks \/ DispatcherStep \/ DispatcherWakesSpuriously
       \/ ResetSlot \/ LooperStep
       \/ StartCollection \/ TaskStep \/ binderDied \/ BinderFaults
       \/ OwnerStep \/ BeginShutdown \/ (\E e \in Slots : SendEvent(e))

Spec == Init /\ [][Next]_vars

\* Every thread keeps running, gets a mutex that is free again and again, and
\* OnEvent returns.  Nobody has to send, to die, or to delete the service.
Fairness ==
    /\ WF_vars(fault = NULL /\ PoolStep)
    /\ SF_vars(fault = NULL /\ DispatcherLocks) /\ WF_vars(fault = NULL /\ DispatcherStep)
    /\ SF_vars(fault = NULL /\ ResetSlot) /\ WF_vars(fault = NULL /\ LooperStep)
    /\ SF_vars(fault = NULL /\ StartCollection) /\ WF_vars(fault = NULL /\ TaskStep)
    /\ WF_vars(fault = NULL /\ OwnerStep)

FairSpec == Spec /\ Fairness

-----------------------------------------------------------------------------
(* Properties.                                                             *)

\* ~Event takes everything from under the looper while it runs; event_del,
\* which waits for the callback, is what protects it.  Neither a queued nor a
\* running callback meets a freed event, a destroyed mutex or a stopped pool,
\* unless the dispatcher activates an event in the one window that is left,
\* inside event_free.
LooperSafe ==
    ~late =>
        /\ active \cap Freed = {}
        /\ current # NULL => current \notin Freed /\ destroyed = {} /\ stop = "no"

\* Where a thread can take a step of its own, be it into a fault.
EventMutexToHave == MutexGone \/ EventMutexFree
DispatcherGoesOn ==
    \/ dispatcher \in {"test", "wait", "scan", "exit"}
    \/ Dispatcher \in running /\ dispatcher = "lock" /\ EventMutexToHave
LooperGoesOn ==
    \/ Looper \in running /\ looper = "start"
    \/ looper \in {"loop", "callback", "done"}
    \/ looper = "poll" /\ notified
    \/ looper = "reset" /\ (EventMutexToHave \/ current \in Freed)
TaskGoesOn ==
    \/ running \cap PostEvents # {} \/ collection \in {"sweep", "done"}
    \/ Collection \in running /\ collection = "lock" /\ EventMutexToHave
PoolGoesOn == stop = "flag" \/ (stop = "asked" /\ Idle > (IF missed THEN 1 ELSE 0))
OwnerGoesOn ==
    \/ owner \in {"new", "start_looper", "signal", "free", "break", "destroy",
                   "destroy_cb", "stop"}
    \/ owner \in {"del", "del_again"} /\ CallbackOver
    \/ owner = "join" /\ AllLeft
ThreadGoesOn ==
    DispatcherGoesOn \/ LooperGoesOn \/ TaskGoesOn \/ PoolGoesOn \/ OwnerGoesOn

\* ~Event, once begun, comes to a standstill only where StopAll joins, and only
\* for a thread that the pool has missed or for the dispatcher in its sleep: no
\* wait for a callback, no mutex and no poll of the loop ever holds it up.
SomeoneGoesOn ==
    fault = NULL /\ owner # "service" =>
        ThreadGoesOn \/ (owner = "join" /\ (missed \/ dispatcher = "waiting"))

\* The loop ends although the break may come before the loop has begun, which
\* forgets it: by then no event is left.
LooperLeaves ==
    owner = "destroy" /\ Looper \in running ~> Looper \notin running \/ fault # NULL

\* ~Event gets to its end, where it deletes itself again, if the dispatcher is
\* not between its test and its wait when the flag is cleared, unless StopAll
\* misses a thread of the pool.
ShutdownEnds ==
    owner = "signal" /\ dispatcher # "wait" ~> fault # NULL \/ missed
=============================================================================
