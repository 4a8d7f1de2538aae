# A TLA+ verification of the Oceanus event service

The repository is an event service for Android TV boxes: a native process
(`Event`, reached over binder) that queues events, runs them through libevent
and hands them to the listeners that clients have registered, a thread pool it
runs on, a native client library, and a JNI/Java layer on top of that. This
directory holds TLA+ models of it, TLC configurations that check them on small
instances, and TLAPS proofs of what should hold on every instance.

Paths below are relative to `src/`; `Event.cpp` is `EventService/src/Event.cpp`.

## 1. Inventory

| component | state | operations | interacts with | module |
|---|---|---|---|---|
| Event dispatch (`Event.cpp`) | `m_vEventInfo` (queue), one libevent event per type with its `ev_arg`, `m_pEventMutex`, `m_pEventSendCond` | `SendEvent`, `SendBroadcast`, `EnableSystemTimeEvent`, `DisableSystemTimeEvent` (binder threads); `EventDispatcher` (pool thread); `EventLooper::Loop` and `mainCallBackFunction` (pool thread) | queue and slots shared between all of them; libevent's own lock | `EventDispatch` |
| Listener registry and delivery (`Event.cpp`) | `m_pLinstenerList[event]`, `m_pCbLinstenerMutex[event]`, `m_pDeathMutex`, binder death links | `RegisterEventListener`, `UnregisterEventListener` (binder threads), the fan-out of `mainCallBackFunction` (looper), `PostEvent::Run`, `GarbageCollection::Run` (pool threads), `binderDied` | remote calls into client processes with locks held; tasks in the thread pool | `ListenerRegistry` |
| Thread pool (`ThreadPool/`) | `m_vecTaskList`, `shutdown`, mutex and condition | `ThreadFunc`, `AddTask`, `Create`, `StopAll` | runs every task of the service, two of them for good | `ThreadPool` |
| Service shutdown (`Event::~Event`) | `m_bEnableEventInfoQueen` and all of the above | the destructor | frees what the pool's threads still use | `EventShutdown` |
| Event client (`nativeClient/.../OClt_EventManager.cpp`) | static `m_pEventService`, `m_pDeathNotifier`, `m_FunctionLock` | constructor (waits for the service), the calls, `binderDied` | the service's life and death | `EventClient` |
| Event info (`EventInfo.cpp`, `IEventInfo.cpp`) | a record with a union, a name and a BOOL | setters, getters over binder, copy from a remote info | shared by the calls of a process; copied by `BnEvent::onTransact`; read by Java listeners | `InfoTransfer` |
| Binder stubs (`IEvent.cpp`, `IEventListener.cpp`) | none | `transact` / `onTransact` | client and service | calls in `ListenerRegistry`, copies in `InfoTransfer` |
| JNI client (`jni/`) | `m_mListenerMap`, the manager | Connect, Disconnect, Registe, Unregiste, Send, Enable, Disable, `OnEvent` | event client, Java | `JniClient`, `InfoTransfer` |
| Java API (`Java/`) | a singleton | forwards to JNI | JNI client | `JniClient`, `InfoTransfer` |

What is hard: four kinds of thread meet on one queue and one slot per event
type, under two locks (the service's and libevent's); a callback checks and
resets a slot in separate critical sections; listeners die, and are collected,
while lists are walked; remote calls are made with mutexes held; a pool is
stopped without its mutex, by a destructor that first frees what the pool's
threads use; an info is read from another process one getter at a time.
`PROJECT.json` lists these places as hazards, each with the properties aimed at
it.

What makes each component correct:

* dispatch: no accepted event is lost, served twice, or served with the
  argument of another; a slot has one user; no argument is served twice, or after it was freed;
  everything queued is served in the end;
* registry: a fan-out reaches the listeners of one moment; dead listeners are
  collected; lock orders do not block each other;
* pool: tasks start once, in order; no wakeup is lost; `StopAll` returns;
* shutdown: nothing is used after it is freed; the destructor comes to its end;
* info: what arrives is what was sent, or nothing, and it arrives where the call
  asked;
* client: a client is connected to the service that lives, and what JNI says is
  registered is what the service lists.

## 2. Modules

| module | what it is |
|---|---|
| `EventMailbox` | abstract: what the service promises for its normal events |
| `EventDispatch` | queue, dispatcher, slots, timers, callback; implements `EventMailbox` |
| `MCEventDispatch` | populations of infos for TLC |
| `EventDispatch_proofs` | all its safety properties, from types to crashes, overtaking and what may stop it; `EventDispatch` implements `EventMailbox` |
| `EventBroadcast` | abstract: what the listener side of the service promises |
| `ListenerRegistry` | lists, fan-out, deliveries, deaths, collections and their mutexes; implements `EventBroadcast` |
| `MCListenerRegistry` | listeners, calls and infos for TLC |
| `ListenerRegistry_proofs` | types, mutexes, the fan-out's snapshot, `ListenerRegistry` implements `EventBroadcast`, links and collections counted, what may stop it |
| `SkippingErase` | the erase loop of `UnregisterEventListener` as functions on positions |
| `TaskQueue` | abstract: what a pool promises |
| `ThreadPool` | workers, adders, `StopAll`; implements `TaskQueue` |
| `ThreadPool_proofs` | its invariants, and that it implements `TaskQueue` |
| `EventShutdown` | the service's threads on a `TaskQueue`, from `Event::Event` to the end of `~Event` |
| `EventShutdown_proofs` | types, what the looper is safe from, and where `~Event` may stand still |
| `InfoTransfer` | infos on their way from a call to a Java listener |
| `MCInfoTransfer` | infos and calls for TLC |
| `InfoTransfer_proofs` | all four invariants of `InfoTransfer` |
| `EventClient` | the connection of a client process, shared by its managers |
| `EventClient_proofs` | a death is noticed, a living connection is kept, what a lost one goes back to, constructors do not block each other |
| `JniClient` | `m_mListenerMap` and Java's registrations, on top of `EventClient` |
| `MCJniClient` | listeners and their names for TLC |
| `JniClient_proofs` | types, and that Java and the service agree |
| `SequenceLemmas` | lemmas on sequences: membership, `RemoveAt`, distinct elements, and the loop of `SkippingErase` |

`EventShutdown` composes: it extends the abstract `TaskQueue` with the service's
own threads, whose steps are conjoined with `TaskQueue`'s actions, so that they
use the pool as `TaskQueue` allows by construction. `ThreadPool` implements
`TaskQueue` for tasks that are added once each, while the collection of
`EventShutdown` is one job that is added again and again: the service on top of
`ThreadPool` itself is not shown. `JniClient` extends `EventClient` and adds
its own state to the steps of the connection; `ListenerRegistry` and `JniClient`
extend `SkippingErase`. Dispatch and registry are separate modules that stand in
for each other: the registry's fan-out is the dispatcher's `FanOut`, its tasks
are the pool's. On the abstract level they meet there too: what `EventMailbox`
hands over in one step, `EventBroadcast` sends in one step to the listeners of
that moment.

Each operator marked `\* mutant` is a plausible bug in the definition that
follows it; nothing uses it. Replacing the definition by it must break the
property `PROJECT.json` names, which shows that the property depends on the
code.

### EventDispatch

State: the queue `m_vEventInfo` is a sequence of infos; `ev_arg` maps each slot
(type) to the info of its `CALL_BACK_ARG`; `active`, `expired` and `armed` are
libevent's active queue, the `EV_TIMEOUT` results in it and its timeout heap;
`dispatcher`, `looper` and `caller` are program counters; `m_pEventMutex` is the
thread that holds it. `accepted`, `used`, `posted` and `freed` are histories.

| action | code |
|---|---|
| `SendEvent`, `SignalDispatcher` | the three senders (`Event.cpp` 449-494): push under the mutex, signal after the unlock |
| `EnableSystemTimeEvent`, `EnableReturns` | 359-389, one disjunct per path, the missing unlock and the missing slot included; the write of `ev_arg` (383) and `event_add` (384) are two steps |
| `DisableSystemTimeEvent`, `DisableReturns` | 390-398; `event_del` waits once for a running callback, with the mutex held |
| `DispatcherLocks`, `DropUnknown`, `IndexPastSlots`, `SkipBusy`, `FillSlot`, `Activate`, `EndScan` | `EventDispatcher` 169-218 turn by turn, with the iterator `it`; filling the slot (209) and `event_active` (210) are two steps |
| `SpuriousWakeup` | `pthread_cond_wait` may return at any time |
| `TimerExpires`, `TakeOff`, `RunCallback` | libevent's loop; a timer is deleted when it is taken off, its slot is read later |
| `AddEventCallback`, `FanOut`, `ResetSlot`, `FreeArg` | `mainCallBackFunction` 306-357 |

Abstractions. An info is an atom with a type: `BnEvent::onTransact` makes a
fresh copy for each call (`IEvent.cpp` 95-97, 107), so each info enters once. A
critical section of `m_pEventMutex` in which nothing blocks is one action only
where the looper cannot tell, because the looper takes events off and reads their
slots under libevent's lock, or none. The scan is therefore one action per turn,
and who fills a slot and then calls libevent (`FillSlot` and `Activate`,
`EnableSystemTimeEvent` and `EnableReturns`) does so in two: the looper may run the
callback of a timer with the new argument before `event_add` arms it. The looper
only ever takes timers out of the heap, so that a timer that is not pending (371)
stays so until the thread that holds the mutex adds it: the test and the write
need no step in between.
Undefined behaviour (an index or iterator past the end, a NULL or freed
argument) is recorded in `fault` and ends the process. Expiry times are not
modelled: an armed timer may expire whenever the looper is between callbacks.
libevent (2.0, `EV_PERSIST` for normal events, thread-safe by
`evthread_use_pthreads`) is modelled from how the code uses it.
`E_SYSTEM_EVENT_ADD_SOCKET_EVENT` and `E_SYSTEM_EVENT_REMOVE_EVENT` are not in
the enum of `OEvent.h`; only `ADD_EVENT` remains. `m_bEnableEventInfoQueen`
changes only in the destructor, which is in `EventShutdown`.

### ListenerRegistry

State: the lists as sequences of listeners (one listener may be in a list more
than once), the three kinds of mutex with their holders, the death links per
listener, program counters of the looper's fan-out, of the one delivery that
holds `m_pDeathMutex`, and of the one collection that holds `m_pEventMutex`.

`RegisterEventListener` and `UnregisterEventListener` are one action each: all
they do is under one list mutex, and the calls they make in it do not block on
another. `Unregister`'s loop, which steps over the element behind each one it
erases, is `ErasedAt` of `SkippingErase`. The fan-out, deliveries and collections are
split at every lock, remote call and turn of a loop. Threads of the pool are
abstracted: any task made may start at any time, in any order, which is what
seventeen workers that compete for `m_pDeathMutex` can do.

Binder is external: a process dies at any moment, an obituary for each linked
listener follows at any later moment, in any order, and calls one `binderDied`
per link; `unlinkToDeath` before that cancels it; `linkToDeath` after it does
nothing; a call to a dead process answers nothing, and `getListenerName` then
makes a `std::string` from NULL (`IEventListener.cpp` 28-34), the fault
`null_name`. `lost` counts collections that never come (see `AutoCollect`).

`EventBroadcast` sees of all this a list per event, the dead, the infos that have
been sent, the deliveries made of them (`letters`) and those begun. An info is
sent when the callback takes the list's mutex, or reads that the list is empty
(`ReadSize`); the tasks the callback has still to make (`StillToCome`) count as
made, and the loops that step over listeners are left open as far as a client
can tell: of the listeners of a name that leaves, one stays only if the one
right before it leaves.

Every call is made once, every info is fanned out once, every process dies once:
all behaviours are finite. So an invariant can say what a liveness property would:
`NoOtherDeadlock` says where they may end.

### ThreadPool

One program counter per worker: the test of the loop and `pthread_cond_wait` are
separate steps, because `StopAll` does not take the mutex. Tasks in `LongTasks`
need not return (the dispatcher and the looper) and may end their thread
(`pthread_exit` in `EventDispatcher`). A call of `AddTask` after `StopAll` has
destroyed the mutex is undefined and not modelled.

### EventShutdown

State: `owner` is where the thread is that makes and deletes the service, `i` is
the loop variable of `~Event`; `dispatcher`, `looper` and `collection` are the
tasks' program counters, and the pool's state comes from `TaskQueue`. libevent's
part is what the loop looks at: the active queue, the byte that wakes its poll
(`notified`) and the break flag.

| action | code |
|---|---|
| `StartDispatcher`, `StartLooper` | the end of `Event::Event`: two tasks |
| `BeginShutdown`, `SignalShutdown` | `Event.cpp` 129-130: the flag without the mutex, and one signal |
| `DelEvent`, `FreeEvent` | 131-142: per event `event_del`, then `event_free`, which deletes once more; `event_del` waits for the event's running callback |
| `StopLoop` | `EventLooper::Stop`: `event_base_loopbreak` |
| `DestroyEventMutex`, `DestroyListenerMutexes` | 144 onwards; destroying a mutex that is held answers EBUSY |
| `StopPool`, `DeleteAgain` | `StopAll`, and `delete m_pThis`, which enters `~Event` again |
| `Dispatcher...`, `SkipBusy`, `Dispatch`, `EndScan` | `EventDispatcher` again, coarser than in `EventDispatch`, with both tests of the flag |
| `StartLoop`, `Poll`, `RunCallback`, ... | `event_base_dispatch`, which clears a break that came before it and returns when no event is left |
| `StartCollection`, `Sweep`, `EndDelivery`, `binderDied` | the other tasks, as far as they touch what is destroyed |

A use of what is gone has no defined result: it sets `fault`, which names the
thread, and ends the behaviour. `~Event` cannot return: its last statement
deletes the same object again, so that reaching it is a `fault` too; what can be
asked is that it gets there (`ShutdownEnds`) and what is safe on the way.
`OnlyLongTasks` is a bound: one delivery or collection at a time. The order of
the queue is left open (the scan visits the infos in any order), which
`EventDispatch` has.

### InfoTransfer

State: what a call changes in the caller's info (`listener_name`,
`m_bIsPrivateMsg`), the service's copy per call with the getter it is at, and
the Java listener's getters. An info keeps whatever earlier calls left in it.
`writers` and `raced` are for the one data race, two threads in
`setListenerName` of one info: the result may be either name or `GARBAGE`.

| action | code |
|---|---|
| `SendEvent`, `setListenerName`, `SendBroadcast`, `EnableSystemTimeEvent` | `OClt_EventManager.cpp`: the address is written, then the binder call |
| `getInfoType` ... `getListenerName` | `BnEvent::onTransact` (`IEvent.cpp` 91-119) with the copy constructor (`EventInfo.cpp` 62-88): one action per binder call, in their order |
| `StartDelivery`, `AskInfoType` ... `AskEventType`, `EndDelivery` | `JNI_OceanusTv_EventListener::OnEvent` (`jni/...cpp` 206-276); two getters in one argument list come in either order |
| `SenderDies`, `ServiceDies` | a getter of a dead process answers 0, or makes a `std::string` of NULL |

The widths are what `Native` and the getters do to an info: `U8` for the event,
`U32` for the number, which Java sees as a `jlong` (`BYTE` and `WORD` stand for
2^8 and 2^32). Texts are atoms. `BelowBound` bounds calls and deliveries together.

### EventClient

All `OClt_EventManager` objects of a process share the static `m_pEventService`.
A client is a thread with a manager. The constructor's reads of the statics are
steps of their own, as are the test and the use of the connection in a call:
none of them takes `m_FunctionLock`, which only `getEventService` (while it
polls), `~DeathNotifier` and `binderDied` take. The service's incarnations are
numbered, and each may be linked to several times. External, as in Android 4.4
and 5: links are kept when the proxy is dropped; an obituary calls each
recipient once per link; a link after the obituary is refused; a link whose
notifier is gone is not called; the service manager drops a dead service some
time after its death. The reference that a call takes from a static another
thread clears is a data race; its outcomes are folded into the fault
`null_service`.

### JniClient

A Java process has one manager, connected once by the singleton
(`EventManager.java` 15-30), and one thread that calls it: `m_mListenerMap` has
no lock, and two threads in it would be undefined. State: per name the number of
its native listener, the Java object each of them was made for, the service's
lists as far as they hold listeners of this process, and the call under way.
Java registers a pair of listener and event once, and unregisters what it has
registered. `Agreement` is what this layer promises; `troubled` collects the
names it promises nothing for: registered twice at a time, or touched while the
connection was lost. The first is a defect: the map entry goes with the first of
several unregistrations, the next one logs "is not registed" (`jni/...cpp` 366),
and the service keeps the listener.

## 3. Runs

| run | properties | bounds and what they are enough for |
|---|---|---|
| `MCDispatchCalls` | `TypeOK`, `SlotInv`, `TimerInv`, `SomeoneGoesOn`, `FaultsExplained`, `OrphanedByReset`, `WedgedForever` | two binder threads and every call with a normal type, a timer (three infos: start, restart, send), `EVENT_MAX` and an unknown type; 1 million states |
| `MCDispatchLive` | `Conservation`, `BoundedOvertaking`, `EventuallyServed`, `ImplementsMailbox` | two binder threads, two events of one type (overtaking, a busy slot), two `ADD_EVENT`s, a timer started and stopped; no symmetry; 0.25 million states |
| `MCListeners` | `TypeOK`, `FanOutSnapshot`, `LinkPerEntry`, `AutoCollect`, `NoOtherDeadlock`, `EmbraceUntilDeath`, `ImplementsBroadcast` | three listeners of two processes, two with one name, one whose `OnEvent` sends; seven calls (one unregistration, two at the edge of the range and past it), a broadcast and an addressed info, four calls and infos together; 0.8 million states |
| `MCThreadPool` | `TypeOK`, `HeadExists`, `NoLostWakeup`, `ListedOnce`, `AtMostOneMissed`, `ImplementsTaskQueue`, `EventuallyStarted` | three workers, two of them taken by long tasks (dispatcher and looper), two adders, one more task, `StopAll` at any moment or never; 0.05 million states |
| `MCShutdown` | `TypeOK`, `LooperSafe`, `SomeoneGoesOn`, `LooperLeaves`, `ShutdownEnds` | two events (one is freed while the other runs or is queued), three threads (one for deliveries and collections); 0.2 million states |
| `MCInfo` | `TypeOK`, `NeverTorn`, `AsAsked`, `DeliveredIntact` | an info that is sent to two names and to the empty one, broadcast and used for a timer, by threads at once or one after another; an info of Java's whose event and number do not fit, one with a text; three calls and deliveries (two sends, in either order or at once, and then a timer); `BYTE` 4, `WORD` 8; 0.7 million states |
| `MCEventClient` | `DeathNoticed`, `ConnectionKept`, `ConstructorReturns` | two managers of one process, one destructor, a service with three lives: enough for two notifiers, two links, a late second report, a link that a destructor leaves behind, a connection that one of these ends and whose own link then ends the next, a refused link; 0.06 million states |
| `MCJni` | `TypeOK`, `Agreement` | three Java listeners, two with one name, two events, three native listeners made, a service that dies and comes back; 3 million states |

Runs that TLC must find violated, each against a sentence of the repository:

| run | what the code says | what it does |
|---|---|---|
| `VEnableUnknown` | "enable error the event might already start or not exsit!" (`Event.cpp` 373) | a type that is no timer returns with the mutex held, without the message |
| `VUnknownEvent` | "event [%d] not found!!" (191) | the erase and `it++` leave the queue; type `EVENT_MAX` indexes past the slots |
| `VStopAll` | "wake all waiting threads", "block until the threads exit" (`ThreadPool.cpp` 103, 107, in Chinese) | a worker between its test and its wait is missed and joined for ever |
| `VAutoCollect` | "system will auto collect them" (`Event.cpp` 516-517) | a dead listener behind another one is stepped over, and its report cancelled |

No run checks TLC's own deadlock: every system here may stop (the process
faults, a mutex leaks, a pool is stopped, or all the calls of the run have been
made). `SomeoneGoesOn`, `EventuallyServed`, `NoOtherDeadlock`, `EventuallyStarted`,
`ShutdownEnds` and `ConstructorReturns` say where it may, and nowhere else.

What the properties say beyond the obvious:

* `BoundedOvertaking`: the service does not keep the order of events of one
  type, but an event is overtaken at most as often as there were events before
  it when it was accepted.
* `Conservation` with `SlotInv`: from `SendEvent` to the fan-out an event is in
  exactly one place, in spite of the two separate tests of a slot.
* `TimerInv`: an argument that a callback has read, served or freed is in a timer's
  slot only while that callback runs. A timer may well be armed with it then
  (`Enable` writes 383, the looper serves, `event_add` 384 follows), but the reset
  takes it away before it can be served twice or touched when freed.
* `OrphanedByReset`: the price of that. The reset (346) looks at nothing, and may
  take the argument of a timer that is armed or active by now; it is the one way
  a timer that will fire loses its argument, and it takes a second info for that
  timer, by another `Enable` or by `SendEvent`.
* `FaultsExplained`: each kind of crash goes back to certain calls; a NULL
  argument takes a timer that `Enable` was called for and that a second info used
  as well, of which one has been served; with calls of existing types and one
  info per timer there is no crash, whatever the interleaving, and a freed
  argument is never touched by any.
* `WedgedForever`, `EventuallyServed`: the two ways the mutex is lost, for good,
  and that there is no third.
* `SomeoneGoesOn`: while the mutex is not lost and there is something to do, some
  thread of the service can take a step: no signal is missed for good, and
  `event_del`'s wait under the mutex closes no other circle than the one in
  `Wedged`, with a callback that wants the mutex.
* `AutoCollect`: although a collection skips, as many of them come as entries
  died, and they suffice unless one was cancelled; `VAutoCollect` shows the
  cancellation.
* `ImplementsBroadcast`: whoever registers, unregisters, dies or is collected
  meanwhile, an info goes once, at one moment, to exactly the listeners that are
  registered and addressed at that moment; workers begin each delivery once, in
  any order, also to listeners that have left since; and no living listener
  leaves a list but by its name. `FanOutSnapshot` is the part of it that can be
  seen while the callback walks the list.
* `EmbraceUntilDeath`, `NoOtherDeadlock`: the one deadlock between the locks, and
  that there is no other, wherever clients died on the way. `NoOtherDeadlock`
  has two halves: `SomeoneGoesOn`, which spells the guards out, and that
  whenever one of these holds a step is `ENABLED`.
* `NoLostWakeup`, `AtMostOneMissed`: signalling after the unlock is harmless,
  broadcasting without it is not, but costs one worker at most.
* `LooperSafe`: `event_del`'s wait is what keeps the looper from freed events,
  destroyed mutexes and a stopped pool, all the way to the end; the one hole is
  an event that the dispatcher activates between the last `event_del` and the
  release inside `event_free` (`late`). The dispatcher itself has no such
  protection: `DispatcherFaults` is reachable, and so are the binder threads'
  and the collections' faults.
* `LooperLeaves`: a break that comes before the loop has begun is forgotten, yet
  the loop ends, because the events were freed before; the order of `~Event`
  matters (the mutant swaps it).
* `SomeoneGoesOn` of `EventShutdown`: `~Event` waits for callbacks, for mutexes and
  for the threads of the pool; only the last wait can be for ever, for a thread that the pool missed or for a dispatcher that sleeps. The
  order of `~Event` matters here too: with the break first, the loop may poll for
  ever while the pool joins it.
* `ShutdownEnds`: the flag and the signal are given without the mutex, so that a
  dispatcher between its test and its wait sleeps through both and is joined for
  ever; that, and the pool's missed worker, are the only obstacles.
* `NeverTorn`: most getters of a dead sender answer 0 as if it were a value; since
  the last getter is one that a dead sender cannot answer without crashing the
  service, no such copy is ever used.
* `AsAsked`: whatever an info was used for before, a call that overlapped with no
  other one goes where it asked, but for what stays in the caller's info. A
  send has its own name, and is private unless the info has once been broadcast
  (`setMsgType(FALSE)` is never taken back). A timer has no name of its own: it
  goes to the name of the last send that ended before it (of sends that
  overlapped, one of the last; of two threads inside `setListenerName`, what they
  leave), and to all if there is none, if it is empty, or if the info has once been
  broadcast.
* `DeliveredIntact`: what Java gets, with the widths; a death of the service can
  zero a number or the event's type, never a text.
* `DeathNoticed`: a process that is connected to a dead service will be told,
  except when the constructor's link comes after the obituary.
* `ConnectionKept`: a connection is lost through the destructor of a manager, the
  report of its own service's death, or a report of another service's death.
  The last takes a link that was left behind: the process was connected to that
  service, and a destructor had ended the connection (nothing unlinks), or two
  managers had linked and this is not the first report, or a report of a third
  service had ended it. Each cause is of that very connection, so that no earlier
  and unrelated destructor excuses a loss.

## 4. Fairness

* every thread that can take a step on its own keeps taking steps (weak fairness);
* a thread that wants a mutex gets it if it is free again and again (strong
  fairness): pthread mutexes promise no more, and the scheduler of the target
  does not starve a thread for ever;
* an armed timer expires (strong: the looper must be between callbacks);
* at the client, the service is started again and binder reports its death
  (external); a constructor takes its steps, and gets `m_FunctionLock` if it is
  free again and again;
* in the pool, tasks outside `LongTasks` return; in `EventShutdown`, `OnEvent`
  returns;
* nothing obliges a client to call, to die, or the service to be deleted.

`ListenerRegistry` and `InfoTransfer` need none: their behaviours are finite and
their properties are invariants and action properties.

## 5. Proofs

The theorems below are proved with TLAPS for every value of the constants. They
assume only the named assumptions of the modules (`DispatchAssumption`,
`PoolAssumption`, `ServiceAssumption`, `TransferAssumption`,
`RegistryAssumption`, `ClientAssumption`, `JniAssumption`), which say that the populations are
finite or disjoint, that indexes are in range and that the bounds are numbers;
TLC evaluates each in a run.

`EventDispatch_proofs`. None of the dispatcher's invariants is inductive alone,
and they are proved in layers, each using the ones below it:

1. `TypeInv`: `TypeOK`, with `LooperInv` (what the looper's program counter says
   of the argument it carries), `MutexInv`, and `HeldInv` (what a thread has put into
   a slot is there until it lets the mutex go: between the fill and libevent's
   call only the looper moves, and it clears a slot only under the mutex);
2. `FreshInv`: an info that has not been sent is nowhere; needed to see that
   `SendEvent` does not duplicate;
3. `LiveInv` = `ServeInv`, `SlotInv`, `TimerInv`: which argument a slot, a timer
   and the running callback may have. They need one another: a slot is sound
   because the callback that serves it is, and a timer because both are;
4. `PlacedInv`: a normal event is in one place. Together: `TypeCorrect`,
   `MutualExclusion`, `SlotsCorrect`, `TimersCorrect`, `NoEventLost`;
5. `MailboxImplemented`: the mapping takes the queue and the slots to the
   mailbox's sets. The step proof rests on layers 1 to 3 (`CoreInv`): a callback
   that fanned out an info twice, or one that is not its slot's, would have no
   abstract step.

On top of these:

* `OrphansComeFromResets` and `FaultsHaveCauses`, from `EmptyInv` (a slot is not
  empty before the callback resets it, and a timer that is being started is not
  armed: neither `event_add` nor the dispatcher makes an orphan) and `RearmedInv`
  (a timer that is armed, filled or activated while its event is on the way or its
  callback runs has two infos: what the reset may orphan);
* `OvertakingIsBounded`. `OrderInv`: the queue is in the order of acceptance,
  whatever the scan erases from its middle. `OvertakeInv`: an event is
  overtaken only in a pass that stepped over it although its slot is free (no
  slot becomes free within a pass, which holds the mutex). The scan does that only
  when it has erased the one before it, and that one, being accepted earlier,
  pays for the overtaking. So the overtakers, and one more for a missed event
  (`Owed`), are at most the earlier events that are gone;
* `WedgedIsForEver`: the mutex that leaked, and the two threads that wait for each
  other, stay so;
* `ServiceGoesOn`. `WakeInv`: the dispatcher sleeps on a queued event only while
  a signal is under way, and `event_del` is only called for timers, so that it
  waits for a callback that runs: either the looper goes on with it, or it wants
  the mutex, which is `Wedged`.

`ThreadPool_proofs`:

* `PoolInv` (types, mutex, a head for every worker that takes one):
  `PoolTypeCorrect`, `PoolMutualExclusion`, `HeadAlwaysExists`;
* `StopInv` (`StopAll` goes on only with the flag set, and after the broadcast at
  most one worker is missed): `StopMissesAtMostOne`;
* `PlaceInv` (what is listed or run was added; nothing twice): `TaskInOnePlace`.
  The `added` in it is what makes it inductive;
* `WaitInv` (a worker that goes to wait saw an empty list, which the mutex keeps
  empty until it waits): `NoWakeupLost`;
* `TaskQueueImplemented`: every step is one of the abstract `TaskQueue` or
  leaves it alone; it needs `PlaceInv`, since taking the head must take the task
  out of the set.

`EventShutdown_proofs`: `ShutdownInv` = types, `Capacity` (the running tasks and
the threads left fit the pool), `CallbackRuns`, `Order` (what `~Event` has done
at each of its steps), `NotFreed` (unless an event was activated within its
`event_free`, what is active or running is not freed). Hence
`ShutdownTypeCorrect` and `LooperOutlivesEvents`. Then:

* `ShutdownGoesOn`. `StandInv` says of each thing that is waited for who is going
  to bring it: `HolderInv` (who holds `m_pEventMutex` is a thread that goes on),
  `OnceInv` (a task is in the pool once), `ThreadInv` (a task that has begun and
  not ended has a thread, and at the join the pool's flag is set), `PollInv`
  (after the break a loop that polls has been woken). At the join, a thread that is left runs a task, and all tasks but a
  sleeping dispatcher go on (`TasksGoOn`);
* `DispatcherStaysAwake`, from `FlagInv` (the flag stays cleared): the safety core
  of `ShutdownEnds`, and why only a dispatcher between its test and its wait is
  caught.

`InfoTransfer_proofs`:

* `TransferInv`: types, and `CopyInv` with its `Parts` - while the sender lives, the part of the
  copy that has been read is the info's: `TransferTypeCorrect`, `CopiesWhole`;
* `DeliveryInv`: the same on the way to Java: `ListenersReadWhatWasSent`;
* `UseInv` = `WriterInv` (who is between a setter and its call), `EarlierInv` (the
  calls before a call have ended), `LeftInv` (what the uses so far have left in an
  info: its name is one that a send wrote which ended before no other one began), `AloneInv` (a call that met no other
  one has the info to itself), `AskedInv`: `CallsGoWhereTheyAsked`.

`ListenerRegistry_proofs`:

* `RegistryTypeCorrect`, `RegistryMutualExclusion`, `EmbraceEndsWithDeath`. Types
  need that the erasing loop leaves a sequence of listeners again;
* `FanOutIsSnapshot`. It rests on the mutexes (a list does not change while the
  callback holds its mutex) and on `SnapshotInv` (the tasks of an info exist only
  if its fan-out has begun, and none does before the loop);
* `BroadcastImplemented`, from the same `SnapshotInv`. Each step has a lemma:
  `SendStep` where an info is sent, `FanOutBroadcasts` for the rest of the
  callback (a turn of the loop moves one delivery from `StillToCome` to `tasks`),
  `PromisesKept` (all other steps leave what is sent alone, since they cannot have
  the list's mutex), `UnregisterBroadcasts` (with `ErasedFacts`: who stays stands
  right behind one that leaves) and `CollectBroadcasts`;
* `LocksLetSomeoneGoOn`: `SomeoneGoesOn`, from the holders that the mutexes' types
  allow and the holders' program counters. This is `NoOtherDeadlock` without its
  `ENABLED` half;
* `OneLinkPerEntry` (`LinkInv`: a listener with a name of its own has as many
  death recipients as entries). Unregistration erases entries by name and unlinks
  one recipient for each; two listeners with one name are outside of it;
* `CollectionsSuffice`. A reported listener has no recipient left, and a collection
  has a position (`PositionInv`). `BalanceInv`: the entries of reported listeners
  and the recipients that living listeners' entries lack are together at most the
  reports that were cancelled (`lost`), the collections to come, and the one under
  way as long as it has such an entry before it. Each collection takes
  the first such entry that it meets, and each cancelled report is paid for by
  `lost`; `AutoCollect` is the state in which nothing is to come.

`EventClient_proofs`: `DeathIsNoticed`, `ConnectionIsKept`, `NullUseHasCause` and
`ConstructorsDoNotBlock`.

* `Watched` says of a connection to a living service already what `DeathNoticed`
  says of one to a dead service; only so is it inductive. `NotifierInv` (who is
  about to link has a notifier) gives the link its recipient;
* `PollInv` (one constructor polls at a time, and only without a connection),
  `ObituaryInv` (after the obituary no recipient is left, and the service is
  dead for good) and `EndedInv`: a service that has a recipient or a report here is
  the one connected to, or its connection was ended in one of the ways `ended`
  records; it has one recipient or report at most unless two managers linked, and
  none after its first report. So a report of any other service than the present
  one finds its cause among those `ConnectionKept` names;
* `TestedInv`: whoever has passed a test of the static and finds it NULL has been
  robbed, by a report or by the destructor of another manager. No code prevents
  the use of a NULL connection (the fault `null_service` is reachable); this says
  what it takes;
* `PublishedInv` (the service that runs is the one the service manager answers
  with) makes a poll end while a service runs, and the poll is all that
  `m_FunctionLock` is held over: `ConstructorsGoOn`, the safety core of
  `ConstructorReturns`.

`JniClient_proofs`, on top of the connection's type lemmas:

* `JniTypeCorrect`. `MapInv`: the map and the lists hold native listeners that were
  made, the map each under its own name, and a call carries the one in the map;
* `JavaAndServiceAgree`. `KnownInv` (no incarnation of the service is known before
  it is born) keeps a call to a dead one from reaching a new one. `NameInv` says of
  each name that is not troubled what `Agreement` says, and also while a call is
  under way: a call that the service has not served yet still makes the difference
  between Java's registrations and the list (`Pending`), unless it is `Doomed` to
  fail. Only so does a step of a call, which moves Java, the map and the list at
  different moments, preserve it. The names are independent of each other
  (`UntouchedStep`), except that the erasing loop goes by names: it takes the
  single entry of the name it is given, and no other (`ErasedSingle`,
  `ErasedWithin`).

`SequenceLemmas` holds what these cite on sequences. Its `ErasedFacts` is the one
fact about the erasing loop: a position is erased if and only if its element is
hit and the position before it is not erased. That the recursive function
`ErasedAt` exists and satisfies this for a list of every length is proved without
the induction theorems of the library, from the least length for which it would
fail.

Only model-checked:

* liveness (`EventuallyServed`, `EventuallyStarted`, `LooperLeaves`,
  `ShutdownEnds`, `ConstructorReturns`), which is about fairness;
* the half of `NoOtherDeadlock` that says `ENABLED`: that the guards spelled out
  in `SomeoneGoesOn` are those of the actions.

Every other property of a passing run is the statement of a theorem. `MutexInv`
(of the pool and of the registry), `StaysAwake`, `NullUseExplained` and
`ConstructorsGoOn` are theorems only; the runs check what follows from them.

## 6. Not modelled

* parcels, the text encoding and the interface check of the binder stubs: binder
  is external, and a transaction is its effect, its failure, or an answer of 0;
* `Disconnect` and the finalizer of the Java manager: it is a singleton that is
  never collected, so the destructor of its native manager does not run through
  it (`EventClient` has the destructor of native managers);
* in JNI, failures of the reflection calls and of allocations, and the
  conversion of strings (`InfoTransfer` has the widths of the numbers);
* logging, including the counts that `Event.cpp:131` and `154` print, and the
  build files;
* memory that is never given back: `~EventInfo` frees a `STRING` argument only.
  Nothing waits for it and no other property depends on it;
* the unit of a timer's time: a timer is armed, then expires or is reset. That
  `Event.cpp:378-379` divides by 1000 what is called microseconds changes when;
* `ThreadPool::getTaskSize`, which nobody calls, and `AddTask` after `StopAll`
  other than by the threads that `EventShutdown` has;
* bionic's `EBUSY` for the destruction of a list mutex that is held: in
  `EventShutdown` its destruction counts as one. (`m_pEventMutex` has the test:
  if it is held then, it is not destroyed);
* timers in `EventShutdown`: nobody calls `EnableSystemTimeEvent` there, and a timer
  that is armed when `~Event` begins is left out. Timers and all they interleave
  with are in `EventDispatch`;
* that libevent's `event_del` waits once. `EventDispatch` has it (`woken`); in
  `EventShutdown` the wait ends in a state in which no callback of the event runs.
  The difference would take a second activation during the wait, and a third in
  that of the `event_del` inside `event_free`; after the flag is cleared, the
  dispatcher ends at most the scan it is in, and a scan fills a slot once.

## 7. Plan

Done: dispatch, pool, registry, client, JNI; then the shutdown on the abstract
pool, the transfer of infos, the deadlocks; then the proofs of every safety
property above, of three refinements (mailbox, broadcast and task queue), and of
the standstills of the dispatch, the locks,
the shutdown and the constructors.

What is left, in order of use:

1. one module that composes `EventMailbox` and `EventBroadcast`, as an abstract
   service that dispatch and registry implement together;
2. the collections in `EventBroadcast`, as a promise that the dead leave, for
   listeners with names of their own (`AutoCollect` counts them now);
3. tasks in `ThreadPool` that are added again, and `EventShutdown` on the pool
   itself instead of on `TaskQueue`;
4. timers in `EventShutdown`, with libevent's single wait in `~Event`;
5. `Disconnect` and the finalizer of the Java manager in `JniClient`.
