--------------------------- MODULE EventDispatch ---------------------------
(***************************************************************************)
(* The event path of the service (EventService/src/Event.cpp): binder      *)
(* threads append event infos to m_vEventInfo and start or stop timers,    *)
(* the dispatcher thread moves infos into the ev_arg slot of a libevent    *)
(* event and activates it, and the looper thread runs the callback that    *)
(* hands the info to the listeners and frees the slot.  m_pEventMutex      *)
(* guards the queue and the slots; libevent guards its own lists.          *)
(*                                                                         *)
(* The looper takes events off and reads their slots under libevent's lock *)
(* or none.  A critical section of m_pEventMutex is therefore one action   *)
(* only up to the point where the looper could tell: a thread that fills a *)
(* slot and then calls libevent does that in two, and the looper takes an  *)
(* event off and reads its slot in two.  Memory faults (a NULL or freed    *)
(* argument, an index or iterator past the end) end the process: `fault`   *)
(* names the first one and nothing follows it.                             *)
(***************************************************************************)
EXTENDS Integers, FiniteSets, SequencesExt

CONSTANTS
    Infos,        \* event infos, each handed to the service at most once
    EvType,       \* getEventType() of each info, a U8
    Callers,      \* binder threads calling into the service
    SendArgs,     \* the infos SendEvent and SendBroadcast may be called with
    EnableArgs,   \* the infos EnableSystemTimeEvent may be called with
    DisableArgs,  \* the types DisableSystemTimeEvent may be called with
    EVENT_COUNT,  \* E_SYSTEM_EVENT_COUNT: types above it are timers
    EVENT_MAX,    \* E_SYSTEM_EVENT_MAX: number of slots, and m_uEventCount
    Dispatcher,   \* the dispatcher thread
    NULL

ADD_EVENT == 0    \* E_SYSTEM_EVENT_ADD_EVENT

ASSUME DispatchAssumption ==
    /\ IsFiniteSet(Infos)
    /\ EvType \in [Infos -> 0..255]
    /\ EVENT_COUNT \in Nat /\ EVENT_MAX \in Nat
    /\ EVENT_COUNT < EVENT_MAX /\ EVENT_MAX <= 255
    /\ DisableArgs \subseteq 0..255
    /\ SendArgs \subseteq Infos /\ EnableArgs \subseteq Infos
    /\ NULL \notin Infos /\ NULL \notin Callers /\ NULL \notin 0..255
    /\ Dispatcher \notin Callers /\ Dispatcher # NULL

VARIABLES
    m_vEventInfo,   \* the event queue
    m_pEventMutex,  \* the thread that holds the mutex, or NULL
    ev_arg,         \* per slot, the info of its CALL_BACK_ARG, or NULL
    active,         \* libevent's queue of active events
    expired,        \* active events whose ev_res has EV_TIMEOUT
    armed,          \* timers in libevent's timeout heap (EVLIST_TIMEOUT)
    dispatcher,     \* where the dispatcher thread is
    it,             \* its iterator over m_vEventInfo
    looper,         \* where the looper thread is
    current,        \* libevent's current_event, or NULL
    info_arg,       \* argument of the running callback, or NULL
    caller,         \* where each binder thread is
    timer,          \* the timer a thread starts or stops, or NULL
    accepted,       \* infos SendEvent has pushed, in order (history)
    used,           \* infos some caller has passed to the service (history)
    posted,         \* infos whose fan-out to the listeners has run
    freed,          \* infos whose CALL_BACK_ARG has been deleted
    fault           \* the memory fault that ended the process, or "none"

queueVars == <<m_vEventInfo, accepted>>
eventVars == <<ev_arg, active, expired, armed>>
dispatcherVars == <<dispatcher, it>>
looperVars == <<looper, current, info_arg, posted, freed>>
callerVars == <<caller, timer, used>>
vars == <<queueVars, m_pEventMutex, eventVars, dispatcherVars, looperVars,
          callerVars, fault>>

Slots == 0..(EVENT_MAX - 1)
IsTimer(t) == EVENT_COUNT < t /\ t <= EVENT_MAX    \* the test the code makes
Timers == {t \in Slots : IsTimer(t)}
Free == m_pEventMutex = NULL
Running == fault = "none"

TypeOK ==
    /\ m_vEventInfo \in Seq(Infos) /\ accepted \in Seq(Infos)
    /\ m_pEventMutex \in Callers \cup {Dispatcher, NULL}
    /\ ev_arg \in [Slots -> Infos \cup {NULL}]
    /\ active \in Seq(Slots)
    /\ armed \subseteq Timers /\ expired \subseteq Timers
    /\ dispatcher \in {"lock", "waiting", "scan", "activate"}
    /\ it \in Nat \ {0}
    /\ looper \in {"idle", "taken", "callback", "reset", "free"}
    /\ current \in Slots \cup {NULL}
    /\ info_arg \in Infos \cup {NULL}
    /\ caller \in [Callers -> {"idle", "signal", "event_add", "event_del", "woken"}]
    /\ timer \in [Callers -> Timers \cup {NULL}]
    /\ used \subseteq Infos /\ posted \subseteq Infos /\ freed \subseteq Infos
    /\ fault \in {"none", "oob", "past_end", "null_arg", "freed_arg"}

\* InitEvents: the system events are added, the timers are not.
Init ==
    /\ m_vEventInfo = <<>> /\ accepted = <<>>
    /\ m_pEventMutex = NULL
    /\ ev_arg = [t \in Slots |-> NULL]
    /\ active = <<>> /\ armed = {} /\ expired = {}
    /\ dispatcher = "lock" /\ it = 1
    /\ looper = "idle" /\ current = NULL /\ info_arg = NULL
    /\ caller = [c \in Callers |-> "idle"]
    /\ timer = [c \in Callers |-> NULL]
    /\ used = {} /\ posted = {} /\ freed = {}
    /\ fault = "none"

-----------------------------------------------------------------------------
(* libevent.  An event is in the active queue at most once; deleting it   *)
(* takes it out of the active queue and of the timeout heap.               *)

Deactivated(t) ==
    IF Contains(active, t)
    THEN RemoveAt(active, CHOOSE n \in DOMAIN active : active[n] = t)
    ELSE active

event_active(t) ==
    /\ active' = IF Contains(active, t) THEN active ELSE Append(active, t)
    /\ expired' = IF t \in armed THEN expired \cup {t} ELSE expired

event_del(t) ==
    /\ active' = Deactivated(t)
    /\ expired' = expired \ {t}
    /\ armed' = armed \ {t}

\* event_add of a timer: one that has expired but not run yet is put off.
event_add(t) ==
    /\ armed' = armed \cup {t}
    /\ active' = IF t \in expired THEN Deactivated(t) ELSE active
    /\ expired' = expired \ {t}

\* event_pending(ev, ev->ev_flags, NULL): only a timer still in the heap has
\* a flag in common with its own ev_flags.
event_pending(t) == t \in armed

FillTimer_Forgotten(t, i) == UNCHANGED ev_arg    \* mutant
FillTimer(t, i) == ev_arg' = [ev_arg EXCEPT ![t] = i]

-----------------------------------------------------------------------------
(* The binder threads: SendEvent, SendBroadcast, Enable- and               *)
(* DisableSystemTimeEvent.                                                 *)

push_front(i) == m_vEventInfo' = <<i>> \o m_vEventInfo    \* mutant
push_back(i) == m_vEventInfo' = Append(m_vEventInfo, i)

\* lock, push_back, unlock; the signal comes after the unlock.
SendEvent(c, i) ==
    /\ Running
    /\ caller[c] = "idle" /\ i \notin used
    /\ Free
    /\ push_back(i)
    /\ accepted' = Append(accepted, i)
    /\ used' = used \cup {i}
    /\ caller' = [caller EXCEPT ![c] = "signal"]
    /\ UNCHANGED <<m_pEventMutex, eventVars, dispatcherVars, looperVars,
                   timer, fault>>

Wake_Lost == UNCHANGED dispatcher    \* mutant
Wake == dispatcher' = IF dispatcher = "waiting" THEN "lock" ELSE dispatcher

SignalDispatcher(c) ==
    /\ Running
    /\ caller[c] = "signal"
    /\ Wake
    /\ caller' = [caller EXCEPT ![c] = "idle"]
    /\ UNCHANGED <<queueVars, m_pEventMutex, eventVars, it, looperVars,
                   timer, used, fault>>

Unlock_Forgotten == UNCHANGED m_pEventMutex    \* mutant
Unlock == m_pEventMutex' = NULL

\* The four ways through EnableSystemTimeEvent once it holds the mutex.  The
\* looper cannot make a timer pending that is not, so that the test and the
\* write of ev_arg are one step; event_add is another.
EnableSystemTimeEvent(c, i) ==
    LET t == EvType[i] IN
    /\ Running
    /\ caller[c] = "idle" /\ i \notin used
    /\ Free
    /\ used' = used \cup {i}
    /\ UNCHANGED <<queueVars, active, expired, armed, dispatcherVars, looperVars>>
    /\ \/ /\ ~IsTimer(t)                    \* no else branch, hence no unlock
          /\ m_pEventMutex' = c
          /\ UNCHANGED <<ev_arg, caller, timer, fault>>
       \/ /\ t = EVENT_MAX                  \* passes the test, has no slot
          /\ fault' = "oob"
          /\ UNCHANGED <<m_pEventMutex, ev_arg, caller, timer>>
       \/ /\ t \in Timers /\ event_pending(t)
          /\ UNCHANGED <<m_pEventMutex, ev_arg, caller, timer, fault>>
       \/ /\ t \in Timers /\ ~event_pending(t)
          /\ FillTimer(t, i)
          /\ m_pEventMutex' = c
          /\ caller' = [caller EXCEPT ![c] = "event_add"]
          /\ timer' = [timer EXCEPT ![c] = t]
          /\ UNCHANGED fault

EnableReturns(c) ==
    /\ Running
    /\ caller[c] = "event_add"
    /\ event_add(timer[c])
    /\ Unlock
    /\ caller' = [caller EXCEPT ![c] = "idle"]
    /\ timer' = [timer EXCEPT ![c] = NULL]
    /\ UNCHANGED <<queueVars, ev_arg, dispatcherVars, looperVars, used, fault>>

\* event_del waits, with the mutex held, for a running callback of its event.
DisableSystemTimeEvent(c, t) ==
    /\ Running
    /\ caller[c] = "idle" /\ IsTimer(t)
    /\ Free
    /\ UNCHANGED <<queueVars, ev_arg, dispatcherVars, looperVars, used>>
    /\ \/ /\ t = EVENT_MAX
          /\ fault' = "oob"
          /\ UNCHANGED <<m_pEventMutex, active, expired, armed, caller, timer>>
       \/ /\ t \in Timers /\ current # t
          /\ event_del(t)
          /\ UNCHANGED <<m_pEventMutex, caller, timer, fault>>
       \/ /\ t \in Timers /\ current = t
          /\ m_pEventMutex' = c
          /\ caller' = [caller EXCEPT ![c] = "event_del"]
          /\ timer' = [timer EXCEPT ![c] = t]
          /\ UNCHANGED <<active, expired, armed, fault>>

\* libevent waits once: the end of the callback wakes the thread, and another
\* callback of the event may have begun when it goes on.
WaitOver_Assumed(c) == caller[c] \in {"event_del", "woken"}    \* mutant
WaitOver(c) == caller[c] = "woken"

DisableReturns(c) ==
    /\ Running
    /\ WaitOver(c)
    /\ event_del(timer[c])
    /\ Unlock
    /\ caller' = [caller EXCEPT ![c] = "idle"]
    /\ timer' = [timer EXCEPT ![c] = NULL]
    /\ UNCHANGED <<queueVars, ev_arg, dispatcherVars, looperVars, used, fault>>

-----------------------------------------------------------------------------
(* The dispatcher thread (EventDispatcher).                                *)

Begin_OneEarly == it' = 0    \* mutant
Begin == it' = 1

\* Take the mutex; wait if the queue is empty, otherwise start a scan.
DispatcherLocks ==
    /\ Running
    /\ dispatcher = "lock"
    /\ Free
    /\ Begin
    /\ \/ /\ m_vEventInfo = <<>>
          /\ dispatcher' = "waiting"
          /\ UNCHANGED m_pEventMutex
       \/ /\ m_vEventInfo # <<>>
          /\ dispatcher' = "scan"
          /\ m_pEventMutex' = Dispatcher
    /\ UNCHANGED <<queueVars, eventVars, looperVars, callerVars, fault>>

\* pthread_cond_wait may return without a signal.
SpuriousWakeup ==
    /\ Running
    /\ dispatcher = "waiting"
    /\ dispatcher' = "lock"
    /\ UNCHANGED <<queueVars, m_pEventMutex, eventVars, it, looperVars,
                   callerVars, fault>>

Scanning == dispatcher = "scan" /\ it <= Len(m_vEventInfo)
Busy_IgnoresArg(t) == Contains(active, t)    \* mutant
Busy(t) == Contains(active, t) \/ ev_arg[t] # NULL

\* "event not found": erase returns the next element and `continue` steps
\* over it; after the last element the iterator leaves the vector.
DropUnknown ==
    /\ Running
    /\ Scanning
    /\ EvType[m_vEventInfo[it]] > EVENT_MAX
    /\ fault' = IF it = Len(m_vEventInfo) THEN "past_end" ELSE "none"
    /\ m_vEventInfo' = RemoveAt(m_vEventInfo, it)
    /\ it' = it + 1
    /\ UNCHANGED <<accepted, m_pEventMutex, eventVars, dispatcher, looperVars,
                   callerVars>>

\* m_uEventCount itself passes the check and indexes one past the slots.
IndexPastSlots ==
    /\ Running
    /\ Scanning
    /\ EvType[m_vEventInfo[it]] = EVENT_MAX
    /\ fault' = "oob"
    /\ UNCHANGED <<queueVars, m_pEventMutex, eventVars, dispatcherVars,
                   looperVars, callerVars>>

SkipBusy ==
    /\ Running
    /\ Scanning
    /\ EvType[m_vEventInfo[it]] \in Slots
    /\ Busy(EvType[m_vEventInfo[it]])
    /\ it' = it + 1
    /\ UNCHANGED <<queueVars, m_pEventMutex, eventVars, dispatcher,
                   looperVars, callerVars, fault>>

\* Fill the slot.  A timer in it may expire before it is activated.
FillSlot ==
    /\ Running
    /\ Scanning
    /\ LET i == m_vEventInfo[it]
           t == EvType[i]
       IN  /\ t \in Slots /\ ~Busy(t)
           /\ ev_arg' = [ev_arg EXCEPT ![t] = i]
    /\ dispatcher' = "activate"
    /\ UNCHANGED <<queueVars, m_pEventMutex, active, expired, armed, it,
                   looperVars, callerVars, fault>>

EraseDispatched_Forgotten == UNCHANGED m_vEventInfo    \* mutant
EraseDispatched == m_vEventInfo' = RemoveAt(m_vEventInfo, it)

\* Activate the event and erase the info; unless it was the last one, the
\* loop's it++ then steps over the info that follows it.
Activate ==
    /\ Running
    /\ dispatcher = "activate"
    /\ event_active(EvType[m_vEventInfo[it]])
    /\ EraseDispatched
    /\ it' = IF it = Len(m_vEventInfo) THEN it ELSE it + 1
    /\ dispatcher' = "scan"
    /\ UNCHANGED <<accepted, m_pEventMutex, ev_arg, armed, looperVars,
                   callerVars, fault>>

EndScan ==
    /\ Running
    /\ dispatcher = "scan" /\ it > Len(m_vEventInfo)
    /\ dispatcher' = "lock"
    /\ Unlock
    /\ UNCHANGED <<queueVars, eventVars, it, looperVars, callerVars, fault>>

-----------------------------------------------------------------------------
(* The looper thread: libevent's loop and mainCallBackFunction.            *)

LeaveHeap(t) == armed' = armed \ {t}

\* The loop looks at its timers between callbacks.
TimerExpires(t) ==
    /\ Running
    /\ looper = "idle" /\ t \in armed
    /\ active' = Append(Deactivated(t), t)
    /\ LeaveHeap(t)
    /\ expired' = expired \cup {t}
    /\ UNCHANGED <<queueVars, m_pEventMutex, ev_arg, dispatcherVars,
                   looperVars, callerVars, fault>>

\* Take the next event off; a non-persistent one (a timer) is deleted.
TakeOff ==
    LET t == Head(active) IN
    /\ Running
    /\ looper = "idle" /\ active # <<>>
    /\ looper' = "taken" /\ current' = t
    /\ active' = Tail(active)
    /\ LeaveHeap(t) /\ expired' = expired \ {t}
    /\ UNCHANGED <<queueVars, m_pEventMutex, ev_arg, dispatcherVars, info_arg,
                   posted, freed, callerVars, fault>>

\* Call it with what is in its slot by now; the callback's first statement
\* dereferences its argument.
RunCallback ==
    LET arg == ev_arg[current] IN
    /\ Running
    /\ looper = "taken"
    /\ looper' = "callback" /\ info_arg' = arg
    /\ fault' = IF arg = NULL THEN "null_arg"
                ELSE IF arg \in freed THEN "freed_arg" ELSE "none"
    /\ UNCHANGED <<queueVars, m_pEventMutex, eventVars, dispatcherVars, current,
                   posted, freed, callerVars>>

\* libevent wakes the thread that waits in event_del for the callback.
CallbackEnds ==
    /\ looper' = "idle" /\ current' = NULL /\ info_arg' = NULL
    /\ caller' = [c \in Callers |->
                    IF caller[c] = "event_del" THEN "woken" ELSE caller[c]]

\* The internal event: its argument is freed and its slot is left as it is.
AddEventCallback ==
    /\ Running
    /\ looper = "callback" /\ current = ADD_EVENT
    /\ freed' = freed \cup {info_arg}
    /\ CallbackEnds
    /\ UNCHANGED <<queueVars, m_pEventMutex, eventVars, dispatcherVars, posted,
                   timer, used, fault>>

\* One PostEvent task per addressed listener; ListenerRegistry has the loop.
FanOut ==
    /\ Running
    /\ looper = "callback" /\ current # ADD_EVENT
    /\ posted' = posted \cup {info_arg}
    /\ looper' = "reset"
    /\ UNCHANGED <<queueVars, m_pEventMutex, eventVars, dispatcherVars,
                   current, info_arg, freed, callerVars, fault>>

ClearSlot_UnlessPending(t) ==
    IF event_pending(t) THEN UNCHANGED ev_arg ELSE ev_arg' = [ev_arg EXCEPT ![t] = NULL]    \* mutant
ClearSlot(t) == ev_arg' = [ev_arg EXCEPT ![t] = NULL]

ResetSlot ==
    /\ Running
    /\ looper = "reset"
    /\ Free
    /\ ClearSlot(EvType[info_arg])
    /\ looper' = "free"
    /\ UNCHANGED <<queueVars, m_pEventMutex, active, expired, armed,
                   dispatcherVars, current, info_arg, posted, freed,
                   callerVars, fault>>

FreeArg ==
    /\ Running
    /\ looper = "free"
    /\ freed' = freed \cup {info_arg}
    /\ CallbackEnds
    /\ UNCHANGED <<queueVars, m_pEventMutex, eventVars, dispatcherVars, posted,
                   timer, used, fault>>

-----------------------------------------------------------------------------
CallerStep(c) ==
    \/ \E i \in SendArgs : SendEvent(c, i)
    \/ \E i \in EnableArgs : EnableSystemTimeEvent(c, i)
    \/ \E t \in DisableArgs : DisableSystemTimeEvent(c, t)
    \/ SignalDispatcher(c)
    \/ EnableReturns(c)
    \/ DisableReturns(c)

ScanStep ==
    \/ DropUnknown \/ IndexPastSlots \/ SkipBusy
    \/ FillSlot \/ Activate \/ EndScan
DispatcherStep == DispatcherLocks \/ ScanStep
CallbackStep == TakeOff \/ RunCallback \/ AddEventCallback \/ FanOut \/ FreeArg
LooperStep == (\E t \in Timers : TimerExpires(t)) \/ CallbackStep \/ ResetSlot

Next ==
    \/ \E c \in Callers : CallerStep(c)
    \/ DispatcherStep
    \/ SpuriousWakeup
    \/ LooperStep

Spec == Init /\ [][Next]_vars

\* Fairness: every thread keeps running, a thread that competes for the mutex
\* gets it if it is free again and again, and time passes for the timers.
\* Nobody has to call the service.
Fairness ==
    /\ \A c \in Callers :
          WF_vars(SignalDispatcher(c)) /\ WF_vars(EnableReturns(c)) /\ WF_vars(DisableReturns(c))
    /\ SF_vars(DispatcherLocks) /\ WF_vars(ScanStep)
    /\ \A t \in Timers : SF_vars(TimerExpires(t))
    /\ WF_vars(CallbackStep) /\ SF_vars(ResetSlot)

FairSpec == Spec /\ Fairness

-----------------------------------------------------------------------------
(* Properties.                                                             *)

\* Slots that only SendEvent fills: the ordinary ones, and timers nobody
\* starts or stops.
SendOnlySlots ==
    {t \in Slots : IsTimer(t) => t \notin DisableArgs
                                /\ \A i \in EnableArgs : EvType[i] # t}
Normal(i) == EvType[i] \in SendOnlySlots \ {ADD_EVENT}

\* An info waits in the queue until the dispatcher has put it into its slot.
Dispatching(i) == dispatcher = "activate" /\ m_vEventInfo[it] = i
Queued(i) == Contains(m_vEventInfo, i) /\ ~Dispatching(i)

\* The event of slot t: to be activated, on its way to its callback, running.
Activating(t) == dispatcher = "activate" /\ EvType[m_vEventInfo[it]] = t
Fired(t) == Contains(active, t) \/ (looper = "taken" /\ current = t)
CallbackRuns(t) == current = t /\ looper \in {"callback", "reset"}

\* Enable was called for a timer that another info uses as well.
SharedTimer(t) ==
    \E i \in used \cap EnableArgs, j \in used : i # j /\ EvType[i] = t /\ EvType[j] = t

\* The queue and the slots change only under m_pEventMutex: the dispatcher
\* holds it exactly while it scans, a thread in event_add or event_del holds
\* it, and so at most one thread is in either.
InLibevent(c) == caller[c] \in {"event_add", "event_del", "woken"}
MutexInv ==
    /\ m_pEventMutex = Dispatcher <=> dispatcher \in {"scan", "activate"}
    /\ \A c \in Callers : InLibevent(c) => m_pEventMutex = c

\* A slot that only SendEvent fills is in use by exactly one party: it is
\* empty, or the dispatcher is about to activate its event, or the event is on
\* its way to its callback once, in both cases with a live argument nobody has
\* served yet, or the running callback serves the slot's own argument.  The one
\* slot in use for any other reason is that of ADD_EVENT after its callback
\* freed the argument and left the pointer there (mainCallBackFunction, early
\* return).
SlotInv ==
    /\ IsInjective(active)
    /\ \A t \in SendOnlySlots :
        /\ Fired(t) \/ Activating(t) => ev_arg[t] \notin {NULL} \cup posted \cup freed
        /\ Activating(t) => ~Contains(active, t)
        /\ current = t /\ looper # "free" => ~Contains(active, t) /\ ~Activating(t)
        /\ CallbackRuns(t) => ev_arg[t] = info_arg /\ info_arg \notin freed
        /\ current = t /\ looper = "callback" => info_arg \notin posted
        /\ ev_arg[t] # NULL =>
               \/ Activating(t) \/ Fired(t) \/ CallbackRuns(t)
               \/ t = ADD_EVENT /\ ev_arg[t] \in freed

\* No normal event is lost or duplicated on its way from SendEvent to the
\* fan-out: an accepted one is queued once, or is in its slot, or has been
\* fanned out; one that is queued is nowhere else.  (SlotInv says that one in
\* its slot is fanned out once.)
InSlot(i) == ev_arg[EvType[i]] = i
Conservation ==
    /\ IsInjective(m_vEventInfo)
    /\ \A i \in Infos : Normal(i) =>
           /\ Queued(i) => ~InSlot(i) /\ i \notin posted
           /\ Contains(accepted, i) <=> Queued(i) \/ InSlot(i) \/ i \in posted

\* The scan steps over the info behind one it erases, so a later event of the
\* same type can be dispatched first.  Each time that happens to an info, an
\* info queued before it has left the queue: an info is overtaken at most as
\* often as there were infos before it when it was accepted.
AcceptedBefore(i, j) ==
    \E m, n \in DOMAIN accepted : m < n /\ accepted[m] = i /\ accepted[n] = j
Overtakers(i) ==
    {j \in Infos : EvType[j] = EvType[i] /\ AcceptedBefore(i, j) /\ ~Queued(j)}
GoneBefore(i) == {j \in Infos : AcceptedBefore(j, i) /\ ~Queued(j)}
BoundedOvertaking ==
    \A i \in Infos : Queued(i) /\ Normal(i) =>
        Cardinality(Overtakers(i)) <= Cardinality(GoneBefore(i))

\* What it takes to touch what is not there, however the threads interleave: a
\* missing slot, a call with type EVENT_MAX; an iterator past the end, an event
\* of an unknown type; a NULL argument, a timer that Enable was called for, that
\* a second info used too (by SendEvent or another Enable), and that has served
\* one of its infos.  A freed argument is never touched.
FaultsExplained ==
    /\ fault # "freed_arg"
    /\ fault = "oob" =>
           EVENT_MAX \in DisableArgs \/ \E i \in used : EvType[i] = EVENT_MAX
    /\ fault = "past_end" => \E i \in used : EvType[i] > EVENT_MAX
    /\ fault = "null_arg" =>
           /\ current \in Timers /\ SharedTimer(current)
           /\ \E i \in posted : EvType[i] = current

\* EventDispatch implements the mailbox: queue, slots and fan-out of the
\* normal events are the abstract inbox, serving and served.
NormalInfos == {i \in Infos : Normal(i)}
Mailbox == INSTANCE EventMailbox WITH
    Mail <- NormalInfos,
    MailType <- [i \in NormalInfos |-> EvType[i]],
    NoMail <- NULL,
    inbox <- {i \in NormalInfos : Queued(i)},
    serving <- [t \in {EvType[i] : i \in NormalInfos} |-> ev_arg[t]],
    served <- posted \cap NormalInfos
ImplementsMailbox == Mailbox!MailSpec

\* Every queued normal event is fanned out in the end, unless the service has
\* stopped for good: the process has faulted, EnableSystemTimeEvent returned
\* with the mutex held, or DisableSystemTimeEvent waits in event_del for a
\* callback that waits for the mutex.
MutexLeaked == \E c \in Callers : m_pEventMutex = c /\ ~InLibevent(c)
DeadlyEmbrace ==
    looper = "reset" /\ \E c \in Callers : caller[c] = "event_del" /\ timer[c] = current
Wedged == fault # "none" \/ MutexLeaked \/ DeadlyEmbrace
EventuallyServed ==
    \A i \in NormalInfos : Queued(i) ~> (i \in posted \/ Wedged)

\* No info is served twice and no freed one is found, however Enable, Disable,
\* SendEvent and the callback meet on a timer: an argument that a callback has
\* read, served or freed is in the timer's slot only while that very callback
\* runs.  It may be armed with it meanwhile (Enable writes ev_arg, the looper
\* serves it, event_add follows), but the callback's reset takes it away.
TimerInv ==
    \A t \in Timers :
        ev_arg[t] # NULL /\ ev_arg[t] \in posted \cup freed \cup {info_arg} =>
            CallbackRuns(t) /\ ev_arg[t] = info_arg

\* The one way a timer that will fire loses its argument: the callback of that
\* timer resets the slot without looking whether the timer has been armed or
\* activated again, and it takes a second info for that.  Neither event_add nor
\* the dispatcher ever arms or activates an empty slot.
Orphaned(t) == (t \in armed \/ Fired(t)) /\ ev_arg[t] = NULL
OrphanedByReset ==
    [][\A t \in Timers : Orphaned(t)' /\ ~Orphaned(t) =>
          looper = "reset" /\ current = t /\ SharedTimer(t)]_vars

\* A service that is wedged stays so: nothing in the code releases the mutex.
WedgedForever == [][Wedged => Wedged']_vars

\* Nothing else stops the service: unless it is wedged, or there is nothing to
\* do, a thread is past its wait.  In particular the dispatcher does not sleep
\* on a queued event, although the signal comes after the unlock, and no order
\* of unlocks, signals and event_del leaves every thread waiting for another.
DispatcherGoesOn ==
    dispatcher \in {"scan", "activate"} \/ (dispatcher = "lock" /\ Free)
LooperGoesOn ==
    \/ looper = "idle" /\ (active # <<>> \/ armed # {})
    \/ looper \in {"taken", "callback", "free"}
    \/ looper = "reset" /\ Free
CallerGoesOn(c) == caller[c] \in {"signal", "event_add", "woken"}
NothingToDo ==
    /\ m_vEventInfo = <<>> /\ dispatcher = "waiting"
    /\ looper = "idle" /\ active = <<>> /\ armed = {}
    /\ \A c \in Callers : caller[c] = "idle"
SomeoneGoesOn ==
    ~Wedged /\ ~NothingToDo =>
        DispatcherGoesOn \/ LooperGoesOn \/ \E c \in Callers : CallerGoesOn(c)

-----------------------------------------------------------------------------
(* The inductive invariant of EventDispatch_proofs: what the invariants    *)
(* above need to be preserved by every step.                               *)

\* A running callback has a live argument of its event's type, and a slot only
\* holds arguments of its own type.
LooperInv ==
    /\ current = NULL <=> looper = "idle"
    /\ looper \in {"idle", "taken"} => info_arg = NULL
    /\ Running /\ looper \notin {"idle", "taken"} =>
           info_arg \in Infos /\ EvType[info_arg] = current
    /\ looper \in {"reset", "free"} => current # ADD_EVENT
    /\ \A t \in Slots : ev_arg[t] # NULL => EvType[ev_arg[t]] = t
    /\ IsInjective(active)

\* What a thread has put into a slot stays there until it lets the mutex go.
HeldInv ==
    /\ dispatcher = "activate" =>
           /\ it <= Len(m_vEventInfo)
           /\ EvType[m_vEventInfo[it]] \in Slots
           /\ InSlot(m_vEventInfo[it])
    /\ \A c \in Callers :
           /\ InLibevent(c) => timer[c] \in Timers
           /\ caller[c] = "event_add" => ev_arg[timer[c]] # NULL
           /\ caller[c] = "event_del" => current = timer[c]

\* An info enters the service once, and one that is queued is nowhere else.
FreshInv ==
    /\ posted \subseteq used /\ freed \subseteq used
    /\ info_arg # NULL => info_arg \in used
    /\ \A t \in Slots : ev_arg[t] # NULL => ev_arg[t] \in used
    /\ \A i \in Infos : Contains(accepted, i) => i \in used
    /\ \A i \in Infos : Queued(i) =>
           /\ i \in SendArgs /\ i \in used
           /\ i \notin posted \cup freed /\ i # info_arg
           /\ \A t \in Slots : ev_arg[t] # i
    /\ IsInjective(m_vEventInfo)

\* The argument of a running callback has not been freed; once fanned out it
\* is in `posted`.  Timers that are only sent are never started or stopped.
ServeInv ==
    /\ armed \cap SendOnlySlots = {}
    /\ \A c \in Callers : timer[c] \notin SendOnlySlots
    /\ info_arg \notin freed
    /\ Running /\ looper \in {"reset", "free"} => info_arg \in posted

\* A timer is armed or activated during its own callback, or started while its
\* event is on the way, only if a second info uses it.
Engaged(t) == Contains(active, t) \/ (current = t /\ looper \in {"taken", "callback", "reset"})
Adding(t) == \E c \in Callers : caller[c] = "event_add" /\ timer[c] = t
Rearmed(t) ==
    \/ Orphaned(t)
    \/ current = t /\ looper \in {"taken", "callback", "reset"}
       /\ (t \in armed \/ Contains(active, t))
    \/ Engaged(t) /\ Adding(t)
    \/ Activating(t) /\ (t \in armed \/ Engaged(t))
RearmedInv == \A t \in Timers : Rearmed(t) => SharedTimer(t)

\* A slot is not empty before the callback resets it, a timer that is being
\* started is not armed, and one without its argument has served another.
EmptyInv ==
    /\ Running /\ looper \in {"callback", "reset"} => ev_arg[current] # NULL
    /\ \A t \in Timers : Adding(t) => t \notin armed
    /\ \A t \in Timers : Orphaned(t) => \E i \in posted : EvType[i] = t

-----------------------------------------------------------------------------
(* What messages of the code claim and the code does not do.               *)

\* "enable error the event might already start or not exsit": starting a timer
\* that does not exist is refused, which leaves the mutex as it was.
UnknownTimerRefused == ~MutexLeaked

\* "event [%d] not found!!": an event of a type that has no slot is dropped
\* from the queue and the dispatcher goes on.
UnknownEventDropped == fault \notin {"oob", "past_end"}
=============================================================================
