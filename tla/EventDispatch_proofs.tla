------------------------ MODULE EventDispatch_proofs ------------------------
(***************************************************************************)
(* Proofs about EventDispatch for every set of infos, callers and event    *)
(* types: types, the mutex, slots, timers, the conservation of events,     *)
(* that it implements EventMailbox, how far an event is overtaken, the one *)
(* way a timer loses its argument, what a fault takes, that a wedged       *)
(* service stays wedged and that nothing else stops it.                    *)
(*                                                                         *)
(* The invariants are built in layers, of which CoreInv is the last; the   *)
(* lemmas on sequences reduce the queue and libevent's active queue, which *)
(* never hold an element twice, to their sets of elements.                 *)
(***************************************************************************)
EXTENDS EventDispatch, SequenceLemmas

-----------------------------------------------------------------------------
(* The active queue.                                                       *)

LEMMA DeactivatedDistinct ==
    ASSUME active \in Seq(Slots), IsInjective(active), NEW t
    PROVE  /\ Deactivated(t) \in Seq(Slots)
           /\ \A x : Contains(Deactivated(t), x) <=> Contains(active, x) /\ x # t
           /\ IsInjective(Deactivated(t))
  <1>1. CASE Contains(active, t)
    <2> DEFINE n == CHOOSE m \in DOMAIN active : active[m] = t
    <2>1. n \in 1..Len(active) /\ active[n] = t
      BY <1>1 DEF Contains
    <2>2. Deactivated(t) = RemoveAt(active, n)
      BY <1>1 DEF Deactivated
    <2> HIDE DEF n
    <2>3. RemoveAt(active, n) \in Seq(Slots)
      BY <2>1, RemoveAtProperties
    <2>4. /\ \A x : Contains(RemoveAt(active, n), x) <=> Contains(active, x) /\ x # active[n]
          /\ IsInjective(RemoveAt(active, n))
      BY <2>1, RemoveAtDistinct
    <2> QED
      BY <2>1, <2>2, <2>3, <2>4
  <1>2. CASE ~Contains(active, t)
    BY <1>2 DEF Deactivated
  <1> QED
    BY <1>1, <1>2

\* What the operations of libevent do to the active queue, in terms of its
\* elements.
LEMMA ActiveAfter ==
    ASSUME TypeOK, IsInjective(active), NEW t
    PROVE  /\ event_del(t) =>
                 /\ active' \in Seq(Slots) /\ IsInjective(active)'
                 /\ \A x : Contains(active, x)' <=> Contains(active, x) /\ x # t
           /\ event_add(t) =>
                 /\ active' \in Seq(Slots) /\ IsInjective(active)'
                 /\ \A x : Contains(active, x)' => Contains(active, x)
                 /\ \A x : x # t => (Contains(active, x)' <=> Contains(active, x))
           /\ t \in Slots /\ (event_active(t) \/ active' = Append(Deactivated(t), t)) =>
                 /\ active' \in Seq(Slots) /\ IsInjective(active)'
                 /\ \A x : Contains(active, x)' <=> Contains(active, x) \/ x = t
  <1>1. active \in Seq(Slots)
    BY DEF TypeOK
  <1>2. /\ Deactivated(t) \in Seq(Slots) /\ IsInjective(Deactivated(t))
        /\ \A x : Contains(Deactivated(t), x) <=> Contains(active, x) /\ x # t
    BY <1>1, DeactivatedDistinct
  <1>3. ASSUME t \in Slots
        PROVE  /\ Append(Deactivated(t), t) \in Seq(Slots)
               /\ IsInjective(Append(Deactivated(t), t))
               /\ \A x : Contains(Append(Deactivated(t), t), x) <=> Contains(active, x) \/ x = t
    BY <1>2, <1>3, AppendDistinct
  <1>4. ASSUME t \in Slots, ~Contains(active, t)
        PROVE  /\ Append(active, t) \in Seq(Slots) /\ IsInjective(Append(active, t))
               /\ \A x : Contains(Append(active, t), x) <=> Contains(active, x) \/ x = t
    BY <1>1, <1>4, AppendDistinct
  <1>5. ASSUME t \in Slots, event_active(t)
        PROVE  /\ active' \in Seq(Slots) /\ IsInjective(active')
               /\ \A x : Contains(active', x) <=> Contains(active, x) \/ x = t
    BY <1>1, <1>4, <1>5 DEF event_active
  <1>6. ASSUME event_del(t)
        PROVE  /\ active' \in Seq(Slots) /\ IsInjective(active')
               /\ \A x : Contains(active', x) <=> Contains(active, x) /\ x # t
    BY <1>2, <1>6 DEF event_del
  <1>7. ASSUME event_add(t)
        PROVE  /\ active' \in Seq(Slots) /\ IsInjective(active')
               /\ \A x : Contains(active', x) => Contains(active, x)
               /\ \A x : x # t => (Contains(active', x) <=> Contains(active, x))
    BY <1>1, <1>2, <1>7 DEF event_add
  <1> QED
    BY <1>3, <1>5, <1>6, <1>7

-----------------------------------------------------------------------------
(* Types, the mutex, and what a thread that holds it has put into a slot.  *)

TypeInv == TypeOK /\ LooperInv /\ MutexInv /\ HeldInv

LEMMA SlotFacts ==
    /\ Timers \subseteq Slots /\ ADD_EVENT \in Slots /\ NULL \notin Slots
    /\ NULL \notin Infos /\ NULL \notin Callers /\ NULL # Dispatcher
    /\ Dispatcher \notin Callers
    /\ \A i \in Infos : EvType[i] \in 0..255
  BY DispatchAssumption DEF Slots, Timers, IsTimer, ADD_EVENT

LEMMA TypeInit == Init => TypeInv
  BY SlotFacts DEF Init, TypeInv, TypeOK, LooperInv, MutexInv, HeldInv, InLibevent,
                   ADD_EVENT, IsInjective, Running

\* What the dispatcher is about to activate.
LEMMA ActivatingFacts ==
    ASSUME TypeOK, HeldInv, dispatcher = "activate"
    PROVE  /\ it \in 1..Len(m_vEventInfo) /\ m_vEventInfo[it] \in Infos
           /\ EvType[m_vEventInfo[it]] \in Slots
           /\ ev_arg[EvType[m_vEventInfo[it]]] = m_vEventInfo[it]
           /\ RemoveAt(m_vEventInfo, it) \in Seq(Infos)
  <1>1. it \in 1..Len(m_vEventInfo) /\ m_vEventInfo \in Seq(Infos)
    BY DEF TypeOK, HeldInv
  <1> QED
    BY <1>1, RemoveAtProperties DEF HeldInv, InSlot

LEMMA TypeStep == TypeInv /\ [Next]_vars => (TypeOK /\ LooperInv)'
  <1> SUFFICES ASSUME TypeOK, LooperInv, HeldInv, [Next]_vars
               PROVE  TypeOK' /\ LooperInv'
    BY DEF TypeInv
  <1> USE SlotFacts DEF TypeOK, LooperInv, Running, Free, queueVars, eventVars, dispatcherVars, looperVars, callerVars
  <1>1. ASSUME NEW c \in Callers, NEW i \in SendArgs, SendEvent(c, i)
        PROVE  TypeOK' /\ LooperInv'
    <2>1. i \in Infos
      BY DispatchAssumption
    <2>2. m_vEventInfo' \in Seq(Infos) /\ accepted' \in Seq(Infos)
      BY <1>1, <2>1 DEF SendEvent, push_back
    <2> QED
      BY <1>1, <2>1, <2>2 DEF SendEvent
  <1>2. ASSUME NEW c \in Callers, NEW i \in EnableArgs, EnableSystemTimeEvent(c, i)
        PROVE  TypeOK' /\ LooperInv'
    <2>1. i \in Infos
      BY DispatchAssumption
    <2>2. CASE UNCHANGED <<ev_arg, caller, timer>>
      BY <1>2, <2>1, <2>2 DEF EnableSystemTimeEvent
    <2>3. CASE /\ EvType[i] \in Timers /\ FillTimer(EvType[i], i)
               /\ m_pEventMutex' = c /\ UNCHANGED fault
               /\ caller' = [caller EXCEPT ![c] = "event_add"]
               /\ timer' = [timer EXCEPT ![c] = EvType[i]]
      BY <1>2, <2>1, <2>3 DEF EnableSystemTimeEvent, FillTimer
    <2> QED
      BY <1>2, <2>2, <2>3 DEF EnableSystemTimeEvent
  <1>21. ASSUME NEW c \in Callers, EnableReturns(c)
         PROVE  TypeOK' /\ LooperInv'
    <2>1. active' \in Seq(Slots) /\ IsInjective(active)'
      BY <1>21, ActiveAfter DEF EnableReturns
    <2>2. timer[c] \in Timers
      BY <1>21 DEF EnableReturns, HeldInv, InLibevent
    <2> QED
      BY <1>21, <2>1, <2>2 DEF EnableReturns, event_add, Unlock
  <1>3. ASSUME NEW c \in Callers, NEW t \in DisableArgs, DisableSystemTimeEvent(c, t)
        PROVE  TypeOK' /\ LooperInv'
    <2>1. CASE t \in Timers /\ event_del(t) /\ UNCHANGED <<m_pEventMutex, caller, timer, fault>>
      <3>1. active' \in Seq(Slots) /\ IsInjective(active)'
        BY <2>1, ActiveAfter
      <3> QED
        BY <1>3, <2>1, <3>1 DEF DisableSystemTimeEvent, event_del
    <2>2. CASE UNCHANGED <<active, expired, armed>>
      <3>1. UNCHANGED <<queueVars, ev_arg, dispatcherVars, looperVars, used>>
        BY <1>3 DEF DisableSystemTimeEvent
      <3>2. /\ m_pEventMutex' \in {m_pEventMutex, c} /\ fault' \in {fault, "oob"}
            /\ caller' \in [Callers -> {"idle", "signal", "event_add", "event_del", "woken"}]
            /\ timer' \in [Callers -> Timers \cup {NULL}]
            /\ Running' => Running
        BY <1>3, <2>2 DEF DisableSystemTimeEvent
      <3> QED
        BY <2>2, <3>1, <3>2
    <2> QED
      BY <1>3, <2>1, <2>2 DEF DisableSystemTimeEvent
  <1>4. ASSUME NEW c \in Callers, SignalDispatcher(c)
        PROVE  TypeOK' /\ LooperInv'
    BY <1>4 DEF SignalDispatcher, Wake
  <1>5. ASSUME NEW c \in Callers, DisableReturns(c)
        PROVE  TypeOK' /\ LooperInv'
    <2>1. active' \in Seq(Slots) /\ IsInjective(active)'
      BY <1>5, ActiveAfter DEF DisableReturns
    <2> QED
      BY <1>5, <2>1 DEF DisableReturns, event_del, Unlock
  <1>6. ASSUME DispatcherLocks PROVE TypeOK' /\ LooperInv'
    BY <1>6 DEF DispatcherLocks, Begin
  <1>7. ASSUME SpuriousWakeup PROVE TypeOK' /\ LooperInv'
    BY <1>7 DEF SpuriousWakeup
  <1>8. ASSUME Scanning
        PROVE  /\ it \in 1..Len(m_vEventInfo) /\ m_vEventInfo[it] \in Infos
               /\ RemoveAt(m_vEventInfo, it) \in Seq(Infos)
    BY <1>8, RemoveAtProperties DEF Scanning
  <1>9. ASSUME DropUnknown PROVE TypeOK' /\ LooperInv'
    BY <1>8, <1>9 DEF DropUnknown
  <1>10. ASSUME IndexPastSlots PROVE TypeOK' /\ LooperInv'
    BY <1>10 DEF IndexPastSlots
  <1>11. ASSUME SkipBusy PROVE TypeOK' /\ LooperInv'
    BY <1>11 DEF SkipBusy
  <1>12. ASSUME FillSlot PROVE TypeOK' /\ LooperInv'
    <2> DEFINE i == m_vEventInfo[it]
               t == EvType[i]
    <2>1. i \in Infos /\ t \in Slots /\ ev_arg' = [ev_arg EXCEPT ![t] = i]
      BY <1>8, <1>12 DEF FillSlot
    <2> HIDE DEF i
    <2>2. ev_arg' \in [Slots -> Infos \cup {NULL}]
          /\ \A u \in Slots : ev_arg'[u] # NULL => EvType[ev_arg'[u]] = u
      BY <2>1
    <2> QED
      BY <1>12, <2>2 DEF FillSlot
  <1>22. ASSUME Activate PROVE TypeOK' /\ LooperInv'
    <2> DEFINE t == EvType[m_vEventInfo[it]]
    <2>1. /\ it \in 1..Len(m_vEventInfo) /\ t \in Slots /\ event_active(t)
          /\ m_vEventInfo' \in Seq(Infos)
      BY <1>22, ActivatingFacts DEF Activate, EraseDispatched
    <2> HIDE DEF t
    <2>2. active' \in Seq(Slots) /\ IsInjective(active)'
      BY <2>1, ActiveAfter
    <2>3. it' \in Nat \ {0}
      BY <1>22, <2>1 DEF Activate
    <2>4. expired' \subseteq Timers
      BY <2>1 DEF event_active
    <2> QED
      BY <1>22, <2>1, <2>2, <2>3, <2>4 DEF Activate
  <1>13. ASSUME EndScan PROVE TypeOK' /\ LooperInv'
    BY <1>13 DEF EndScan, Unlock
  <1>14. ASSUME NEW t \in Timers, TimerExpires(t) PROVE TypeOK' /\ LooperInv'
    <2>1. active' \in Seq(Slots) /\ IsInjective(active)'
      BY <1>14, ActiveAfter DEF TimerExpires
    <2> QED
      BY <1>14, <2>1 DEF TimerExpires, LeaveHeap
  <1>15. ASSUME TakeOff PROVE TypeOK' /\ LooperInv'
    <2>1. /\ active' \in Seq(Slots) /\ IsInjective(active)'
          /\ current' \in Slots /\ current' = Head(active)
      BY <1>15, TailDistinct DEF TakeOff
    <2> QED
      BY <1>15, <2>1 DEF TakeOff, LeaveHeap
  <1>23. ASSUME RunCallback PROVE TypeOK' /\ LooperInv'
    <2>1. current \in Slots /\ info_arg' = ev_arg[current] /\ info_arg' \in Infos \cup {NULL}
      BY <1>23 DEF RunCallback
    <2>2. fault' = "none" => info_arg' \in Infos /\ EvType[info_arg'] = current
      BY <1>23, <2>1 DEF RunCallback
    <2> QED
      BY <1>23, <2>1, <2>2 DEF RunCallback
  <1>16. ASSUME AddEventCallback PROVE TypeOK' /\ LooperInv'
    BY <1>16 DEF AddEventCallback, CallbackEnds
  <1>17. ASSUME FanOut PROVE TypeOK' /\ LooperInv'
    BY <1>17 DEF FanOut
  <1>18. ASSUME ResetSlot PROVE TypeOK' /\ LooperInv'
    BY <1>18 DEF ResetSlot, ClearSlot
  <1>19. ASSUME FreeArg PROVE TypeOK' /\ LooperInv'
    BY <1>19 DEF FreeArg, CallbackEnds
  <1>20. CASE UNCHANGED vars
    BY <1>20 DEF vars
  <1> QED
    BY <1>1, <1>2, <1>21, <1>3, <1>4, <1>5, <1>6, <1>7, <1>9, <1>10, <1>11, <1>12, <1>22,
       <1>13, <1>14, <1>15, <1>23, <1>16, <1>17, <1>18, <1>19, <1>20
       DEF Next, CallerStep, DispatcherStep, ScanStep, LooperStep, CallbackStep

LEMMA MutexStep == TypeOK /\ MutexInv /\ [Next]_vars => MutexInv'
  <1> SUFFICES ASSUME TypeOK, MutexInv, [Next]_vars
               PROVE  MutexInv'
    OBVIOUS
  <1> USE SlotFacts DEF TypeOK, MutexInv, InLibevent, Free, queueVars, eventVars,
                        dispatcherVars, looperVars, callerVars
  <1>1. ASSUME NEW c \in Callers, CallerStep(c)
        PROVE  MutexInv'
    <2>1. ASSUME NEW i \in SendArgs, SendEvent(c, i) PROVE MutexInv'
      BY <2>1 DEF SendEvent
    <2>2. ASSUME NEW i \in EnableArgs, EnableSystemTimeEvent(c, i) PROVE MutexInv'
      BY <2>2 DEF EnableSystemTimeEvent
    <2>3. ASSUME NEW t \in DisableArgs, DisableSystemTimeEvent(c, t) PROVE MutexInv'
      BY <2>3 DEF DisableSystemTimeEvent
    <2>4. ASSUME SignalDispatcher(c) PROVE MutexInv'
      BY <2>4 DEF SignalDispatcher, Wake
    <2>5. ASSUME DisableReturns(c) \/ EnableReturns(c) PROVE MutexInv'
      BY <2>5 DEF DisableReturns, WaitOver, EnableReturns, Unlock
    <2> QED
      BY <1>1, <2>1, <2>2, <2>3, <2>4, <2>5 DEF CallerStep
  <1>2. ASSUME DispatcherStep \/ SpuriousWakeup PROVE MutexInv'
    BY <1>2 DEF DispatcherStep, ScanStep, DispatcherLocks, DropUnknown, IndexPastSlots,
                SkipBusy, FillSlot, Activate, Scanning, EndScan, Unlock, SpuriousWakeup
  <1>3. ASSUME LooperStep PROVE MutexInv'
    BY <1>3 DEF LooperStep, CallbackStep, TimerExpires, TakeOff, RunCallback,
                AddEventCallback, CallbackEnds, FanOut, ResetSlot, FreeArg
  <1>4. CASE UNCHANGED vars
    BY <1>4 DEF vars
  <1> QED
    BY <1>1, <1>2, <1>3, <1>4 DEF Next

\* Only a thread that holds the mutex, or the looper's reset that takes it,
\* writes a slot or the queue.
LEMMA HeldStep == TypeInv /\ [Next]_vars => HeldInv'
  <1> SUFFICES ASSUME TypeOK, LooperInv, MutexInv, HeldInv, [Next]_vars
               PROVE  HeldInv'
    BY DEF TypeInv
  <1> USE SlotFacts DEF HeldInv, InLibevent, InSlot, TypeOK
  <1>1. ASSUME UNCHANGED <<m_vEventInfo, ev_arg, dispatcher, it, caller, timer, current>>
        PROVE  HeldInv'
    BY <1>1
  <1>2. ASSUME \/ \E c \in Callers, i \in SendArgs : SendEvent(c, i)
               \/ DispatcherLocks \/ ResetSlot
        PROVE  HeldInv'
    <2>1. dispatcher # "activate" /\ \A c \in Callers : ~InLibevent(c)
      BY <1>2 DEF SendEvent, DispatcherLocks, ResetSlot, Free, MutexInv
    <2>2. /\ dispatcher' # "activate" /\ timer' = timer
          /\ \A c \in Callers : ~InLibevent(c)'
      BY <1>2, <2>1 DEF SendEvent, DispatcherLocks, ResetSlot, dispatcherVars, callerVars
    <2> QED
      BY <2>2
  <1>3. ASSUME NEW c \in Callers, NEW i \in EnableArgs, EnableSystemTimeEvent(c, i)
        PROVE  HeldInv'
    <2>1. dispatcher' # "activate" /\ \A d \in Callers : ~InLibevent(d)
      BY <1>3 DEF EnableSystemTimeEvent, Free, MutexInv, dispatcherVars
    <2>2. i \in Infos
      BY DispatchAssumption
    <2> QED
      BY <1>3, <2>1, <2>2 DEF EnableSystemTimeEvent, FillTimer, looperVars
  <1>4. ASSUME NEW c \in Callers, NEW t \in DisableArgs, DisableSystemTimeEvent(c, t)
        PROVE  HeldInv'
    <2>1. dispatcher' # "activate" /\ \A d \in Callers : ~InLibevent(d)
      BY <1>4 DEF DisableSystemTimeEvent, Free, MutexInv, dispatcherVars
    <2> QED
      BY <1>4, <2>1 DEF DisableSystemTimeEvent, looperVars
  <1>5. ASSUME NEW c \in Callers,
               SignalDispatcher(c) \/ EnableReturns(c) \/ DisableReturns(c)
        PROVE  HeldInv'
    <2>1. /\ UNCHANGED <<m_vEventInfo, ev_arg, it, current>>
          /\ dispatcher' = "activate" => dispatcher = "activate"
          /\ caller' = [caller EXCEPT ![c] = "idle"]
          /\ \A d \in Callers : d # c => timer'[d] = timer[d]
      BY <1>5 DEF SignalDispatcher, Wake, EnableReturns, DisableReturns, queueVars,
                  eventVars, dispatcherVars, looperVars
    <2> QED
      BY <2>1
  <1>6. ASSUME DropUnknown \/ IndexPastSlots \/ SkipBusy \/ EndScan \/ SpuriousWakeup
               \/ Activate
        PROVE  dispatcher' # "activate" /\ UNCHANGED <<ev_arg, caller, timer, current>>
    BY <1>6 DEF DropUnknown, IndexPastSlots, SkipBusy, EndScan, SpuriousWakeup, Activate,
                Scanning, eventVars, dispatcherVars, looperVars, callerVars
  <1>7. ASSUME FillSlot PROVE HeldInv'
    <2> DEFINE i == m_vEventInfo[it]
    <2>1. /\ EvType[i] \in Slots /\ ev_arg' = [ev_arg EXCEPT ![EvType[i]] = i]
          /\ it <= Len(m_vEventInfo) /\ dispatcher = "scan"
          /\ UNCHANGED <<m_vEventInfo, it, caller, timer>>
      BY <1>7 DEF FillSlot, Scanning, queueVars, callerVars
    <2>2. \A c \in Callers : ~InLibevent(c)
      BY <2>1 DEF MutexInv
    <2> QED
      BY <2>1, <2>2
  <1>8. ASSUME \/ \E t \in Timers : TimerExpires(t)
               \/ FanOut \/ RunCallback \/ UNCHANGED vars
        PROVE  UNCHANGED <<m_vEventInfo, ev_arg, dispatcher, it, caller, timer, current>>
    BY <1>8 DEF TimerExpires, RunCallback, FanOut, vars, queueVars, eventVars,
                dispatcherVars, looperVars, callerVars
  <1>9. ASSUME TakeOff PROVE HeldInv'
    <2>1. \A c \in Callers : caller[c] # "event_del"
      BY <1>9 DEF TakeOff, LooperInv
    <2> QED
      BY <1>9, <2>1 DEF TakeOff, queueVars, dispatcherVars, callerVars
  <1>10. ASSUME AddEventCallback \/ FreeArg PROVE HeldInv'
    <2>1. /\ UNCHANGED <<m_vEventInfo, ev_arg, dispatcher, it, timer>>
          /\ \A c \in Callers :
                caller'[c] = IF caller[c] = "event_del" THEN "woken" ELSE caller[c]
      BY <1>10 DEF AddEventCallback, FreeArg, CallbackEnds, queueVars, eventVars, dispatcherVars
    <2> QED
      BY <2>1
  <1> QED
    BY <1>1, <1>2, <1>3, <1>4, <1>5, <1>6, <1>7, <1>8, <1>9, <1>10
       DEF Next, CallerStep, DispatcherStep, ScanStep, LooperStep, CallbackStep

LEMMA BasicStep == TypeInv /\ [Next]_vars => TypeInv'
  BY TypeStep, MutexStep, HeldStep DEF TypeInv

\* Every variable keeps its type in every reachable state.
THEOREM TypeCorrect == Spec => []TypeOK
  <1>1. TypeInv => TypeOK
    BY DEF TypeInv
  <1> QED
    BY <1>1, TypeInit, BasicStep, PTL DEF Spec

\* The dispatcher holds m_pEventMutex exactly while it scans, and a thread in
\* event_add or event_del holds it: no two of them at a time.
THEOREM MutualExclusion == Spec => []MutexInv
  <1>1. TypeInv => MutexInv
    BY DEF TypeInv
  <1> QED
    BY <1>1, TypeInit, BasicStep, PTL DEF Spec

-----------------------------------------------------------------------------
(* The infos in the service.                                               *)

\* Steps that neither enter, leave nor erase an info.
Quiet ==
    \/ \E c \in Callers, i \in EnableArgs : EnableSystemTimeEvent(c, i)
    \/ \E c \in Callers, t \in DisableArgs : DisableSystemTimeEvent(c, t)
    \/ \E c \in Callers : SignalDispatcher(c) \/ EnableReturns(c) \/ DisableReturns(c)
    \/ DispatcherLocks \/ SpuriousWakeup \/ IndexPastSlots \/ SkipBusy \/ EndScan
    \/ LooperStep \/ UNCHANGED vars

LEMMA QuietStep ==
    ASSUME Quiet
    PROVE  /\ UNCHANGED queueVars
           /\ \A x : Queued(x)' <=> Queued(x)
           /\ \A t : Activating(t)' <=> Activating(t)
  <1>1. UNCHANGED queueVars
    BY DEF Quiet, EnableSystemTimeEvent, DisableSystemTimeEvent, SignalDispatcher,
       EnableReturns, DisableReturns, DispatcherLocks, SpuriousWakeup, IndexPastSlots,
       SkipBusy, EndScan, LooperStep, CallbackStep, TimerExpires, TakeOff, RunCallback,
       AddEventCallback, FanOut, FreeArg, ResetSlot, vars, queueVars
  <1>2. \/ UNCHANGED <<dispatcher, it>>
        \/ dispatcher # "activate" /\ dispatcher' # "activate"
    BY DEF Quiet, EnableSystemTimeEvent, DisableSystemTimeEvent, SignalDispatcher, Wake,
       EnableReturns, DisableReturns, DispatcherLocks, SpuriousWakeup, IndexPastSlots,
       SkipBusy, Scanning, EndScan, LooperStep, CallbackStep, TimerExpires, TakeOff,
       RunCallback, AddEventCallback, FanOut, FreeArg, ResetSlot, vars, dispatcherVars
  <1> QED
    BY <1>1, <1>2 DEF Queued, Dispatching, Activating, queueVars

LEMMA QueueSteps ==
    [Next]_vars => \/ Quiet \/ DropUnknown \/ FillSlot \/ Activate
                   \/ \E c \in Callers, i \in SendArgs : SendEvent(c, i)
  BY DEF Next, CallerStep, DispatcherStep, ScanStep, Quiet

\* What the other steps do to the queue.
LEMMA ScannedInfo ==
    ASSUME TypeOK, Scanning
    PROVE  m_vEventInfo[it] \in Infos /\ Queued(m_vEventInfo[it])
  <1>1. m_vEventInfo \in Seq(Infos) /\ it \in 1..Len(m_vEventInfo) /\ dispatcher = "scan"
    BY DEF TypeOK, Scanning
  <1>2. Contains(m_vEventInfo, m_vEventInfo[it])
    BY <1>1 DEF Contains
  <1> QED
    BY <1>1, <1>2 DEF Queued, Dispatching

LEMMA DropStep ==
    ASSUME TypeOK, IsInjective(m_vEventInfo), DropUnknown
    PROVE  /\ m_vEventInfo[it] \in Infos /\ Queued(m_vEventInfo[it])
           /\ IsInjective(m_vEventInfo)'
           /\ \A x : Queued(x)' <=> Queued(x) /\ x # m_vEventInfo[it]
  <1>1. /\ m_vEventInfo \in Seq(Infos) /\ it \in 1..Len(m_vEventInfo)
        /\ dispatcher = "scan" /\ dispatcher' = "scan"
        /\ m_vEventInfo' = RemoveAt(m_vEventInfo, it)
    BY DEF TypeOK, DropUnknown, Scanning
  <1>2. /\ IsInjective(RemoveAt(m_vEventInfo, it))
        /\ \A x : Contains(RemoveAt(m_vEventInfo, it), x)
                     <=> Contains(m_vEventInfo, x) /\ x # m_vEventInfo[it]
    BY <1>1, RemoveAtDistinct
  <1> QED
    BY <1>1, <1>2, ScannedInfo DEF DropUnknown, Queued, Dispatching

LEMMA FillStep ==
    ASSUME TypeOK, FillSlot
    PROVE  /\ m_vEventInfo[it] \in Infos /\ Queued(m_vEventInfo[it])
           /\ UNCHANGED queueVars
           /\ \A x : Queued(x)' <=> Queued(x) /\ x # m_vEventInfo[it]
  <1>1. Scanning /\ dispatcher = "scan" /\ dispatcher' = "activate"
        /\ UNCHANGED <<m_vEventInfo, accepted, it>>
    BY DEF FillSlot, Scanning, queueVars
  <1> QED
    BY <1>1, ScannedInfo DEF Queued, Dispatching, queueVars

LEMMA ActivateStep ==
    ASSUME TypeOK, HeldInv, IsInjective(m_vEventInfo), Activate
    PROVE  /\ IsInjective(m_vEventInfo)' /\ accepted' = accepted
           /\ \A x : Queued(x)' <=> Queued(x)
  <1>1. /\ m_vEventInfo \in Seq(Infos) /\ it \in 1..Len(m_vEventInfo)
        /\ dispatcher = "activate" /\ dispatcher' = "scan"
        /\ m_vEventInfo' = RemoveAt(m_vEventInfo, it) /\ accepted' = accepted
    BY DEF TypeOK, HeldInv, Activate, EraseDispatched
  <1>2. /\ IsInjective(RemoveAt(m_vEventInfo, it))
        /\ \A x : Contains(RemoveAt(m_vEventInfo, it), x)
                     <=> Contains(m_vEventInfo, x) /\ x # m_vEventInfo[it]
    BY <1>1, RemoveAtDistinct
  <1> QED
    BY <1>1, <1>2 DEF Queued, Dispatching

LEMMA PushStep ==
    ASSUME TypeOK, MutexInv, NEW c \in Callers, NEW i \in SendArgs, SendEvent(c, i)
    PROVE  /\ i \in Infos /\ dispatcher' = dispatcher /\ dispatcher \notin {"scan", "activate"}
           /\ \A x : Queued(x)' <=> Queued(x) \/ x = i
           /\ \A x : Contains(accepted, x)' <=> Contains(accepted, x) \/ x = i
           /\ IsInjective(m_vEventInfo) /\ ~Queued(i) => IsInjective(m_vEventInfo)'
  <1>1. /\ m_vEventInfo \in Seq(Infos) /\ accepted \in Seq(Infos) /\ i \in Infos
        /\ m_vEventInfo' = Append(m_vEventInfo, i) /\ accepted' = Append(accepted, i)
        /\ UNCHANGED <<dispatcher, it>>
    BY DispatchAssumption DEF TypeOK, SendEvent, push_back, dispatcherVars
  <1>2. dispatcher \notin {"scan", "activate"}
    BY SlotFacts DEF SendEvent, Free, MutexInv
  <1>3. /\ \A x : Contains(Append(m_vEventInfo, i), x) <=> Contains(m_vEventInfo, x) \/ x = i
        /\ \A x : Contains(Append(accepted, i), x) <=> Contains(accepted, x) \/ x = i
        /\ IsInjective(m_vEventInfo) /\ ~Contains(m_vEventInfo, i)
              => IsInjective(Append(m_vEventInfo, i))
    BY <1>1, AppendDistinct
  <1> QED
    BY <1>1, <1>2, <1>3 DEF Queued, Dispatching

LEMMA FreshInit == Init => FreshInv
  BY SlotFacts DEF Init, FreshInv, Queued, Contains, IsInjective

LEMMA FreshStep == TypeInv /\ FreshInv /\ [Next]_vars => FreshInv'
  <1> SUFFICES ASSUME TypeOK, LooperInv, MutexInv, HeldInv, FreshInv, [Next]_vars
               PROVE  FreshInv'
    BY DEF TypeInv
  <1> USE SlotFacts DEF FreshInv
  <1>1. ASSUME NEW c \in Callers, NEW i \in SendArgs, SendEvent(c, i)
        PROVE  FreshInv'
    <2>1. i \in Infos /\ i \notin used
      BY <1>1, DispatchAssumption DEF SendEvent
    <2>2. /\ \A x : Queued(x)' <=> Queued(x) \/ x = i
          /\ \A x : Contains(accepted, x)' <=> Contains(accepted, x) \/ x = i
          /\ IsInjective(m_vEventInfo)'
      BY <1>1, <2>1, PushStep
    <2> QED
      BY <1>1, <2>1, <2>2 DEF SendEvent, eventVars, looperVars, TypeOK
  <1>2. ASSUME NEW c \in Callers, NEW i \in EnableArgs, EnableSystemTimeEvent(c, i)
        PROVE  FreshInv'
    <2>1. /\ i \in Infos /\ i \notin used /\ used' = used \cup {i}
          /\ UNCHANGED <<m_vEventInfo, accepted, posted, freed, info_arg>>
      BY <1>2, DispatchAssumption DEF EnableSystemTimeEvent, queueVars, looperVars
    <2>2. \A t \in Slots : ev_arg'[t] = ev_arg[t] \/ ev_arg'[t] = i
      BY <1>2 DEF EnableSystemTimeEvent, FillTimer, TypeOK
    <2>3. \A x : Queued(x)' <=> Queued(x)
      BY <1>2, QuietStep DEF Quiet
    <2> QED
      BY <2>1, <2>2, <2>3
  <1>3. CASE Quiet /\ UNCHANGED <<used, ev_arg, info_arg, posted, freed>>
    BY <1>3, QuietStep DEF queueVars
  <1>4. ASSUME NEW c \in Callers,
               \/ \E t \in DisableArgs : DisableSystemTimeEvent(c, t)
               \/ SignalDispatcher(c) \/ EnableReturns(c) \/ DisableReturns(c)
        PROVE  FreshInv'
    <2>1. Quiet
      BY <1>4 DEF Quiet
    <2> QED
      BY <1>3, <1>4, <2>1 DEF DisableSystemTimeEvent, SignalDispatcher, EnableReturns,
                       DisableReturns, eventVars, looperVars, callerVars
  <1>5. ASSUME \/ DispatcherLocks \/ IndexPastSlots \/ SkipBusy \/ EndScan
               \/ SpuriousWakeup \/ TakeOff \/ \E t \in Timers : TimerExpires(t)
        PROVE  FreshInv'
    <2>1. Quiet
      BY <1>5 DEF Quiet, LooperStep, CallbackStep
    <2> QED
      BY <1>3, <1>5, <2>1 DEF DispatcherLocks, IndexPastSlots, SkipBusy, EndScan,
                      SpuriousWakeup, TimerExpires, TakeOff,
                      eventVars, looperVars, callerVars
  <1>6. ASSUME DropUnknown PROVE FreshInv'
    <2>1. /\ IsInjective(m_vEventInfo)'
          /\ \A x : Queued(x)' => Queued(x)
      BY <1>6, DropStep
    <2> QED
      BY <1>6, <2>1 DEF DropUnknown, eventVars, looperVars, callerVars
  <1>7. ASSUME FillSlot PROVE FreshInv'
    <2> DEFINE i == m_vEventInfo[it]
    <2>1. /\ i \in Infos /\ Queued(i) /\ UNCHANGED <<m_vEventInfo, accepted>>
          /\ \A x : Queued(x)' <=> Queued(x) /\ x # i
      BY <1>7, FillStep DEF queueVars
    <2>2. \A t \in Slots : ev_arg'[t] = ev_arg[t] \/ ev_arg'[t] = i
      BY <1>7 DEF FillSlot, TypeOK
    <2> HIDE DEF i
    <2>3. UNCHANGED <<used, info_arg, posted, freed>>
      BY <1>7 DEF FillSlot, looperVars, callerVars
    <2> QED
      BY <2>1, <2>2, <2>3
  <1>12. ASSUME Activate PROVE FreshInv'
    BY <1>12, ActivateStep DEF Activate, looperVars, callerVars
  <1>8. ASSUME RunCallback PROVE FreshInv'
    <2>1. info_arg' = ev_arg[current] /\ current \in Slots
      BY <1>8 DEF RunCallback, TypeOK, LooperInv
    <2>2. Quiet
      BY <1>8 DEF Quiet, LooperStep, CallbackStep
    <2>3. /\ UNCHANGED queueVars /\ \A x : Queued(x)' <=> Queued(x)
          /\ UNCHANGED <<ev_arg, posted, freed, used>>
      BY <1>8, <2>2, QuietStep DEF RunCallback, eventVars, callerVars
    <2> QED
      BY <2>1, <2>3 DEF queueVars
  <1>9. ASSUME AddEventCallback \/ FanOut \/ FreeArg PROVE FreshInv'
    <2>1. info_arg \in Infos /\ Quiet
      BY <1>9 DEF AddEventCallback, FanOut, FreeArg, LooperInv, Quiet, LooperStep, CallbackStep
    <2>2. /\ UNCHANGED <<used, ev_arg>>
          /\ posted' \subseteq posted \cup {info_arg}
          /\ freed' \subseteq freed \cup {info_arg}
          /\ info_arg' \in {info_arg, NULL}
      BY <1>9 DEF AddEventCallback, CallbackEnds, FanOut, FreeArg, eventVars, callerVars
    <2>3. UNCHANGED queueVars /\ \A x : Queued(x)' <=> Queued(x)
      BY <2>1, QuietStep
    <2> QED
      BY <2>1, <2>2, <2>3 DEF queueVars
  <1>10. ASSUME ResetSlot PROVE FreshInv'
    <2>1. \A t \in Slots : ev_arg'[t] = ev_arg[t] \/ ev_arg'[t] = NULL
      BY <1>10 DEF ResetSlot, ClearSlot, TypeOK
    <2>2. Quiet
      BY <1>10 DEF Quiet, LooperStep
    <2>3. UNCHANGED queueVars /\ \A x : Queued(x)' <=> Queued(x)
      BY <2>2, QuietStep
    <2> QED
      BY <1>10, <2>1, <2>3 DEF ResetSlot, queueVars, callerVars
  <1>11. CASE UNCHANGED vars
    <2>1. Quiet
      BY <1>11 DEF Quiet
    <2> QED
      BY <1>3, <1>11, <2>1 DEF vars, eventVars, looperVars, callerVars
  <1> QED
    BY <1>1, <1>2, <1>4, <1>5, <1>6, <1>7, <1>12, <1>8, <1>9, <1>10, <1>11
       DEF Next, CallerStep, DispatcherStep, ScanStep, LooperStep, CallbackStep

-----------------------------------------------------------------------------
(* Slots, timers and callbacks.                                            *)

LiveInv == ServeInv /\ SlotInv /\ TimerInv

LEMMA SendOnlyFacts ==
    /\ SendOnlySlots \subseteq Slots /\ ADD_EVENT \in SendOnlySlots
    /\ \A t \in Slots \ SendOnlySlots : t \in Timers
    /\ \A i \in EnableArgs : EvType[i] \in Timers => EvType[i] \notin SendOnlySlots
    /\ \A t \in DisableArgs : t \in Timers => t \notin SendOnlySlots
  BY DispatchAssumption DEF SendOnlySlots, Slots, Timers, IsTimer, ADD_EVENT

LEMMA LiveInit == Init => LiveInv
  BY SlotFacts, SendOnlyFacts
     DEF Init, LiveInv, ServeInv, SlotInv, TimerInv, Activating, Fired, CallbackRuns,
         Contains, IsInjective

\* Nothing but the dispatcher's two steps changes what is about to be activated.
LEMMA ActivatingStays ==
    ASSUME TypeOK, MutexInv, [Next]_vars, ~FillSlot, ~Activate
    PROVE  \A t : Activating(t)' <=> Activating(t)
  <1>1. CASE Quiet
    BY <1>1, QuietStep
  <1>2. CASE DropUnknown
    BY <1>2 DEF DropUnknown, Scanning, Activating
  <1>3. ASSUME NEW c \in Callers, NEW i \in SendArgs, SendEvent(c, i)
        PROVE  \A t : Activating(t)' <=> Activating(t)
    BY <1>3, PushStep DEF Activating
  <1> QED
    BY <1>1, <1>2, <1>3, QueueSteps

LEMMA LiveStep == TypeInv /\ FreshInv /\ LiveInv /\ [Next]_vars => LiveInv'
  <1> SUFFICES ASSUME TypeOK, LooperInv, MutexInv, HeldInv, FreshInv, LiveInv, [Next]_vars
               PROVE  LiveInv'
    BY DEF TypeInv
  <1> USE SlotFacts, SendOnlyFacts
      DEF LiveInv, ServeInv, SlotInv, TimerInv, CallbackRuns, Fired, Running
  <1>0. ~FillSlot /\ ~Activate => \A t : Activating(t)' <=> Activating(t)
    BY ActivatingStays
  <1>1. CASE /\ UNCHANGED <<ev_arg, active, armed, timer, looper, current, info_arg, posted, freed>>
             /\ Running' => Running
             /\ \A t : Activating(t)' <=> Activating(t)
    BY <1>1
  <1>2. ASSUME \/ \E c \in Callers : SignalDispatcher(c)
               \/ \E c \in Callers, i \in SendArgs : SendEvent(c, i)
               \/ DispatcherLocks \/ DropUnknown \/ IndexPastSlots \/ SkipBusy
               \/ EndScan \/ SpuriousWakeup
        PROVE  LiveInv'
    <2>1. /\ UNCHANGED <<ev_arg, active, armed, timer, looper, current, info_arg, posted, freed>>
          /\ Running' => Running
      BY <1>2 DEF SignalDispatcher, SendEvent, DispatcherLocks, DropUnknown,
         IndexPastSlots, SkipBusy, EndScan, SpuriousWakeup, eventVars, looperVars, callerVars
    <2>2. dispatcher = "activate" => UNCHANGED dispatcher
      BY <1>2 DEF SignalDispatcher, Wake, SendEvent, DispatcherLocks, DropUnknown,
         IndexPastSlots, SkipBusy, Scanning, EndScan, SpuriousWakeup, dispatcherVars
    <2>3. dispatcher # "activate" => dispatcher' # "activate"
      BY <1>2 DEF SignalDispatcher, Wake, SendEvent, DispatcherLocks, DropUnknown,
         IndexPastSlots, SkipBusy, Scanning, EndScan, SpuriousWakeup, dispatcherVars
    <2>4. ~FillSlot /\ ~Activate
      BY <2>2, <2>3 DEF FillSlot, Scanning, Activate
    <2> QED
      BY <1>0, <1>1, <2>1, <2>4
  <1>3. ASSUME NEW c \in Callers, NEW i \in EnableArgs, EnableSystemTimeEvent(c, i)
        PROVE  LiveInv'
    <2> DEFINE t == EvType[i]
    <2>0. /\ i \in Infos /\ i \notin used /\ Running
          /\ UNCHANGED <<active, armed, looper, current, info_arg, posted, freed>>
          /\ \A u : Activating(u)' <=> Activating(u)
      BY <1>3, QuietStep, DispatchAssumption DEF EnableSystemTimeEvent, looperVars, Quiet
    <2>1. CASE UNCHANGED <<ev_arg, timer>>
      BY <1>1, <2>0, <2>1
    <2>2. CASE t \in Timers /\ FillTimer(t, i) /\ timer' = [timer EXCEPT ![c] = t]
      <3>1. ev_arg'[t] = i /\ \A u \in Slots : u # t => ev_arg'[u] = ev_arg[u]
        BY <2>2 DEF FillTimer, TypeOK
      <3>2. t \notin SendOnlySlots /\ i \notin posted \cup freed \cup {info_arg}
        BY <2>0, <2>2 DEF FreshInv
      <3>3. \A d \in Callers : timer'[d] = t \/ timer'[d] = timer[d]
        BY <2>2 DEF TypeOK
      <3> HIDE DEF t
      <3>4. ServeInv'
        BY <2>0, <3>2, <3>3
      <3>5. SlotInv'
        BY <2>0, <3>1, <3>2
      <3>6. TimerInv'
        BY <2>0, <3>1, <3>2
      <3> QED
        BY <3>4, <3>5, <3>6
    <2> QED
      BY <1>3, <2>1, <2>2 DEF EnableSystemTimeEvent
  <1>4. ASSUME NEW t, t \notin SendOnlySlots, event_del(t) \/ event_add(t), Running, Quiet,
               UNCHANGED <<ev_arg, looper, current, info_arg, posted, freed>>,
               \A c \in Callers : timer'[c] \notin SendOnlySlots
        PROVE  LiveInv'
    <2>1. /\ IsInjective(active)'
          /\ \A x : x # t => (Contains(active, x)' <=> Contains(active, x))
      BY <1>4, ActiveAfter DEF LooperInv
    <2>2. armed' \subseteq armed \cup {t}
      BY <1>4 DEF event_del, event_add
    <2>3. \A u : Activating(u)' <=> Activating(u)
      BY <1>4, QuietStep
    <2> QED
      BY <1>4, <2>1, <2>2, <2>3
  <1>5. ASSUME NEW c \in Callers, NEW t \in DisableArgs, DisableSystemTimeEvent(c, t)
        PROVE  LiveInv'
    <2>0. Quiet
      BY <1>5 DEF Quiet
    <2>1. CASE t \in Timers /\ event_del(t) /\ UNCHANGED <<caller, timer>>
      BY <1>4, <1>5, <2>0, <2>1 DEF DisableSystemTimeEvent, looperVars
    <2>2. CASE UNCHANGED <<active, expired, armed>>
      <3>1. \A d \in Callers : timer'[d] \notin SendOnlySlots
        BY <1>5, <2>2 DEF DisableSystemTimeEvent, TypeOK
      <3>2. \A u : Activating(u)' <=> Activating(u)
        BY <2>0, QuietStep
      <3>3. UNCHANGED <<ev_arg, active, armed, looper, current, info_arg, posted, freed>> /\ Running
        BY <1>5, <2>2 DEF DisableSystemTimeEvent, looperVars
      <3> QED
        BY <3>1, <3>2, <3>3
    <2> QED
      BY <1>5, <2>1, <2>2 DEF DisableSystemTimeEvent
  <1>6. ASSUME NEW c \in Callers, DisableReturns(c) \/ EnableReturns(c) PROVE LiveInv'
    <2>1. \A d \in Callers : timer'[d] \notin SendOnlySlots
      BY <1>6 DEF DisableReturns, EnableReturns, TypeOK
    <2>2. Quiet
      BY <1>6 DEF Quiet
    <2> QED
      BY <1>4, <1>6, <2>1, <2>2 DEF DisableReturns, EnableReturns, looperVars
  <1>7. ASSUME FillSlot PROVE LiveInv'
    <2> DEFINE i == m_vEventInfo[it]
               t == EvType[i]
    <2>1. i \in Infos /\ Queued(i)
      BY <1>7, FillStep
    <2>2. i \notin posted \cup freed \cup {info_arg}
      BY <2>1 DEF FreshInv
    <2>3. /\ t \in Slots /\ ~Contains(active, t) /\ ev_arg[t] = NULL
          /\ ev_arg' = [ev_arg EXCEPT ![t] = i] /\ Running /\ Running'
          /\ UNCHANGED <<active, armed, timer, looper, current, info_arg, posted, freed>>
      BY <1>7 DEF FillSlot, Busy, looperVars, callerVars
    <2>4. \A u : Activating(u)' <=> u = t
      BY <1>7 DEF FillSlot, Scanning, Activating, queueVars
    <2>7. \A u : ~Activating(u)
      BY <1>7 DEF FillSlot, Scanning, Activating
    <2> HIDE DEF i, t
    <2>5. ev_arg'[t] = i /\ \A u \in Slots : u # t => ev_arg'[u] = ev_arg[u]
      BY <2>3 DEF TypeOK
    <2>6. t \in SendOnlySlots => current # t \/ looper \in {"idle", "free"}
      BY <2>3 DEF LooperInv, TypeOK
    <2>8. SlotInv'
      BY <2>1, <2>2, <2>3, <2>4, <2>5, <2>6, <2>7 DEF LooperInv
    <2>9. TimerInv'
      BY <2>1, <2>2, <2>3, <2>5
    <2> QED
      BY <2>3, <2>8, <2>9
  <1>15. ASSUME Activate PROVE LiveInv'
    <2> DEFINE t == EvType[m_vEventInfo[it]]
    <2>1. /\ t \in Slots /\ event_active(t)
          /\ UNCHANGED <<ev_arg, armed, timer, looper, current, info_arg, posted, freed, fault>>
      BY <1>15, ActivatingFacts DEF Activate, looperVars, callerVars
    <2>2. (\A u : Activating(u) <=> u = t) /\ \A u : ~Activating(u)'
      BY <1>15 DEF Activate, Activating
    <2> HIDE DEF t
    <2>3. /\ IsInjective(active)'
          /\ \A x : Contains(active, x)' <=> Contains(active, x) \/ x = t
      BY <2>1, ActiveAfter DEF LooperInv
    <2>4. SlotInv'
      BY <2>1, <2>2, <2>3
    <2> QED
      BY <2>1, <2>4
  <1>8. ASSUME NEW t \in Timers, TimerExpires(t) PROVE LiveInv'
    <2>1. /\ IsInjective(active)'
          /\ \A x : Contains(active, x)' <=> Contains(active, x) \/ x = t
      BY <1>8, ActiveAfter DEF TimerExpires, LooperInv
    <2>2. /\ armed' = armed \ {t} /\ t \in armed
          /\ UNCHANGED <<ev_arg, timer, looper, current, info_arg, posted, freed, fault>>
      BY <1>8 DEF TimerExpires, LeaveHeap, looperVars, callerVars
    <2>3. \A u : Activating(u)' <=> Activating(u)
      BY <1>8, QuietStep DEF Quiet, LooperStep
    <2> QED
      BY <2>1, <2>2, <2>3
  <1>9. ASSUME TakeOff PROVE LiveInv'
    <2> DEFINE t == Head(active)
    <2>0. active \in Seq(Slots) /\ active # <<>> /\ active' = Tail(active)
      BY <1>9 DEF TakeOff, TypeOK
    <2>8. t \in Slots /\ t = active[1] /\ 1 \in DOMAIN active
      BY <2>0
    <2>9. Contains(active, t)
      BY <2>8 DEF Contains
    <2>1. /\ t \in Slots /\ Contains(active, t) /\ IsInjective(active)'
          /\ \A x : Contains(active, x)' <=> Contains(active, x) /\ x # t
      BY <2>0, <2>8, <2>9, TailDistinct DEF LooperInv
    <2>2. /\ armed' = armed \ {t} /\ current' = t /\ info_arg' = NULL /\ info_arg = NULL
          /\ looper = "idle" /\ looper' = "taken"
          /\ UNCHANGED <<ev_arg, timer, posted, freed>>
      BY <1>9 DEF TakeOff, LeaveHeap, callerVars, LooperInv
    <2>3. \A u : Activating(u)' <=> Activating(u)
      BY <1>9, QuietStep DEF Quiet, LooperStep, CallbackStep
    <2> HIDE DEF t
    <2>4. ServeInv'
      BY <2>2
    <2>5. SlotInv'
      BY <2>1, <2>2, <2>3
    <2>7. TimerInv'
      BY <2>1, <2>2
    <2> QED
      BY <2>4, <2>5, <2>7
  <1>16. ASSUME RunCallback PROVE LiveInv'
    <2>1. /\ current \in Slots /\ info_arg' = ev_arg[current]
          /\ looper = "taken" /\ looper' = "callback"
          /\ UNCHANGED <<ev_arg, active, armed, timer, current, posted, freed>>
      BY <1>16 DEF RunCallback, eventVars, callerVars, LooperInv, TypeOK
    <2>2. \A u : Activating(u)' <=> Activating(u)
      BY <1>16, QuietStep DEF Quiet, LooperStep, CallbackStep
    <2>3. \A u \in Slots : u # current /\ ev_arg[u] # NULL => ev_arg[u] # ev_arg[current]
      BY <2>1 DEF LooperInv
    <2>4. info_arg' \notin freed
      BY <2>1 DEF TypeOK
    <2>5. SlotInv'
      BY <2>1, <2>2, <2>4
    <2>6. TimerInv'
      BY <2>1, <2>3
    <2> QED
      BY <2>1, <2>4, <2>5, <2>6
  <1>10. ASSUME AddEventCallback PROVE LiveInv'
    <2>1. /\ info_arg \in Infos /\ EvType[info_arg] = current /\ current = ADD_EVENT
          /\ looper = "callback" /\ looper' = "idle" /\ current' = NULL /\ info_arg' = NULL
          /\ freed' = freed \cup {info_arg}
          /\ UNCHANGED <<ev_arg, active, armed, timer, posted>>
      BY <1>10 DEF AddEventCallback, CallbackEnds, LooperInv, eventVars
    <2>7. \A u : Activating(u)' <=> Activating(u)
      BY <1>10, QuietStep DEF Quiet, LooperStep, CallbackStep
    <2>2. ev_arg[ADD_EVENT] = info_arg /\ ~Contains(active, ADD_EVENT) /\ ~Activating(ADD_EVENT)
      BY <2>1
    <2>3. \A u \in Slots : u # ADD_EVENT => ev_arg[u] # info_arg
      BY <2>1 DEF LooperInv
    <2>4. ServeInv'
      BY <2>1 DEF TypeOK
    <2>5. SlotInv'
      BY <2>1, <2>2, <2>3, <2>7
    <2>8. ADD_EVENT \notin Timers
      BY DispatchAssumption DEF Timers, IsTimer, ADD_EVENT
    <2>6. TimerInv'
      BY <2>1, <2>3, <2>8
    <2> QED
      BY <2>4, <2>5, <2>6
  <1>11. ASSUME FanOut PROVE LiveInv'
    <2>1. /\ info_arg \in Infos /\ EvType[info_arg] = current /\ current \in Slots
          /\ looper = "callback" /\ looper' = "reset"
          /\ posted' = posted \cup {info_arg} /\ Running
          /\ UNCHANGED <<ev_arg, active, armed, timer, current, info_arg, freed>>
      BY <1>11 DEF FanOut, LooperInv, TypeOK, eventVars, callerVars
    <2>4. \A u : Activating(u)' <=> Activating(u)
      BY <1>11, QuietStep DEF Quiet, LooperStep, CallbackStep
    <2>2. \A u \in Slots : u # current => ev_arg[u] # info_arg
      BY <2>1 DEF LooperInv
    <2>3. SlotInv'
      BY <2>1, <2>2, <2>4
    <2>5. TimerInv'
      BY <2>1
    <2> QED
      BY <2>1, <2>3, <2>5
  <1>12. ASSUME ResetSlot PROVE LiveInv'
    <2>1. /\ info_arg \in Infos /\ EvType[info_arg] = current /\ current \in Slots
          /\ looper = "reset" /\ looper' = "free" /\ Running
          /\ ev_arg' = [ev_arg EXCEPT ![current] = NULL]
          /\ UNCHANGED <<active, armed, timer, current, info_arg, posted, freed>>
      BY <1>12 DEF ResetSlot, ClearSlot, LooperInv, TypeOK, callerVars
    <2>3. \A u : Activating(u)' <=> Activating(u)
      BY <1>12, QuietStep DEF Quiet, LooperStep
    <2>2. ev_arg'[current] = NULL /\ \A u \in Slots : u # current => ev_arg'[u] = ev_arg[u]
      BY <2>1 DEF TypeOK
    <2>4. SlotInv'
      BY <2>1, <2>2, <2>3
    <2>5. TimerInv'
      BY <2>1, <2>2
    <2> QED
      BY <2>1, <2>4, <2>5
  <1>13. ASSUME FreeArg PROVE LiveInv'
    <2>1. /\ info_arg \in posted
          /\ looper = "free" /\ looper' = "idle" /\ current' = NULL /\ info_arg' = NULL
          /\ freed' = freed \cup {info_arg} /\ Running
          /\ UNCHANGED <<ev_arg, active, armed, timer, posted>>
      BY <1>13 DEF FreeArg, CallbackEnds, eventVars
    <2>3. \A u : Activating(u)' <=> Activating(u)
      BY <1>13, QuietStep DEF Quiet, LooperStep, CallbackStep
    <2>2. NULL \notin freed'
      BY <1>13, <2>1 DEF FreeArg, LooperInv, TypeOK
    <2>4. SlotInv'
      BY <2>1, <2>2, <2>3
    <2>5. TimerInv'
      BY <2>1, <2>2
    <2> QED
      BY <2>1, <2>2, <2>4, <2>5
  <1>14. CASE UNCHANGED vars
    <2>1. Quiet
      BY <1>14 DEF Quiet
    <2> QED
      BY <1>1, <1>14, <2>1, QuietStep DEF vars, eventVars, looperVars, callerVars
  <1> QED
    BY <1>2, <1>3, <1>5, <1>6, <1>7, <1>15, <1>8, <1>9, <1>16, <1>10, <1>11, <1>12, <1>13, <1>14
       DEF Next, CallerStep, DispatcherStep, ScanStep, LooperStep, CallbackStep

CoreInv == TypeInv /\ FreshInv /\ LiveInv

LEMMA CoreInvariant == Spec => []CoreInv
  <1>1. Init => CoreInv
    BY TypeInit, FreshInit, LiveInit DEF CoreInv
  <1>2. CoreInv /\ [Next]_vars => CoreInv'
    BY BasicStep, FreshStep, LiveStep DEF CoreInv
  <1> QED
    BY <1>1, <1>2, PTL DEF Spec

\* The slots: whatever the number of callers and of event types, and in
\* whatever order callers, dispatcher and looper run, a slot that only SendEvent
\* fills is used by one party at a time, and its callback always finds the live
\* argument the dispatcher gave it (EventDispatcher, mainCallBackFunction).
THEOREM SlotsCorrect == Spec => []SlotInv
  <1>1. CoreInv => SlotInv
    BY DEF CoreInv, LiveInv
  <1> QED
    BY <1>1, CoreInvariant, PTL

\* The timers, whoever sends to them, starts and stops them: an argument that a
\* callback has read, served or freed is in a timer's slot only while that very
\* callback runs (Enable- and DisableSystemTimeEvent and EventDispatcher against
\* mainCallBackFunction).
THEOREM TimersCorrect == Spec => []TimerInv
  <1>1. CoreInv => TimerInv
    BY DEF CoreInv, LiveInv
  <1> QED
    BY <1>1, CoreInvariant, PTL

-----------------------------------------------------------------------------
(* Conservation: FreshInv gives all of it but the place of an accepted     *)
(* event, which SlotInv and ServeInv keep.                                 *)

\* Of the quiet steps, three change a slot or what has been fanned out.
LEMMA QuietKinds ==
    Quiet => \/ UNCHANGED <<ev_arg, posted>>
             \/ \E c \in Callers, i \in EnableArgs : EnableSystemTimeEvent(c, i)
             \/ FanOut \/ ResetSlot
  BY DEF Quiet, DisableSystemTimeEvent, SignalDispatcher, EnableReturns, DisableReturns,
     DispatcherLocks, SpuriousWakeup, IndexPastSlots, SkipBusy, EndScan, LooperStep,
     CallbackStep, TimerExpires, TakeOff, RunCallback, AddEventCallback, FreeArg,
     vars, eventVars, looperVars

\* Enable writes into no slot that only SendEvent fills.
LEMMA EnableFills ==
    ASSUME TypeOK, NEW c \in Callers, NEW i \in EnableArgs, EnableSystemTimeEvent(c, i)
    PROVE  /\ posted' = posted
           /\ \A t \in SendOnlySlots : ev_arg'[t] = ev_arg[t]
  <1>1. /\ posted' = posted
        /\ \/ UNCHANGED ev_arg
           \/ EvType[i] \in Timers /\ ev_arg' = [ev_arg EXCEPT ![EvType[i]] = i]
    BY DEF EnableSystemTimeEvent, FillTimer, looperVars
  <1> QED
    BY <1>1, SendOnlyFacts DEF TypeOK

\* The slot of the running callback, for a type that only SendEvent uses.
LEMMA ServedSlot ==
    ASSUME CoreInv
    PROVE  /\ FanOut => /\ info_arg \in Infos /\ EvType[info_arg] = current
                        /\ current # ADD_EVENT /\ posted' = posted \cup {info_arg}
                        /\ UNCHANGED ev_arg
                        /\ current \in SendOnlySlots =>
                              ev_arg[current] = info_arg /\ info_arg \notin posted
           /\ ResetSlot => /\ info_arg \in Infos /\ EvType[info_arg] = current
                           /\ current \in Slots /\ info_arg \in posted
                           /\ ev_arg' = [ev_arg EXCEPT ![current] = NULL]
                           /\ posted' = posted
                           /\ current \in SendOnlySlots => ev_arg[current] = info_arg
  BY SlotFacts DEF CoreInv, TypeInv, TypeOK, LooperInv, LiveInv, ServeInv, SlotInv, CallbackRuns,
     FanOut, ResetSlot, ClearSlot, eventVars

Placed(i) == Contains(accepted, i) <=> Queued(i) \/ InSlot(i) \/ i \in posted
PlacedInv == \A i \in Infos : Normal(i) => Placed(i)

LEMMA PlacedInit == Init => PlacedInv
  BY SlotFacts, SendOnlyFacts
     DEF Init, PlacedInv, Placed, Normal, Queued, InSlot, Contains

LEMMA PlacedStep == CoreInv /\ PlacedInv /\ [Next]_vars => PlacedInv'
  <1> SUFFICES ASSUME CoreInv, TypeOK, MutexInv, HeldInv, FreshInv, PlacedInv, [Next]_vars,
                      NEW x \in Infos, Normal(x)
               PROVE  Placed(x)'
    BY DEF CoreInv, TypeInv, PlacedInv, Normal
  <1>0. /\ Placed(x) /\ EvType[x] \in SendOnlySlots /\ EvType[x] \in Slots
        /\ EvType[x] # ADD_EVENT
    BY SendOnlyFacts DEF PlacedInv, Normal
  <1>1. ASSUME Queued(x)' <=> Queued(x), UNCHANGED <<accepted, posted>>,
               ev_arg'[EvType[x]] = ev_arg[EvType[x]]
        PROVE  Placed(x)'
    BY <1>0, <1>1 DEF Placed, InSlot
  <1>2. ASSUME NEW c \in Callers, NEW i \in SendArgs, SendEvent(c, i)
        PROVE  Placed(x)'
    <2>1. UNCHANGED <<ev_arg, posted>>
      BY <1>2 DEF SendEvent, eventVars, looperVars
    <2> QED
      BY <1>0, <1>2, <2>1, PushStep DEF Placed, InSlot
  <1>3. ASSUME DropUnknown PROVE Placed(x)'
    <2> DEFINE i == m_vEventInfo[it]
    <2>1. /\ EvType[i] > EVENT_MAX /\ UNCHANGED <<accepted, posted, ev_arg>>
          /\ \A y : Queued(y)' <=> Queued(y) /\ y # i
      BY <1>3, DropStep DEF DropUnknown, eventVars, looperVars, FreshInv
    <2>2. x # i
      BY <1>0, <2>1, DispatchAssumption DEF Slots
    <2> QED
      BY <1>1, <2>1, <2>2
  <1>4. ASSUME FillSlot PROVE Placed(x)'
    <2> DEFINE i == m_vEventInfo[it]
               t == EvType[i]
    <2>1. /\ i \in Infos /\ Queued(i) /\ accepted' = accepted
          /\ \A y : Queued(y)' <=> Queued(y) /\ y # i
      BY <1>4, FillStep DEF queueVars
    <2>2. /\ t \in Slots /\ ev_arg[t] = NULL /\ posted' = posted
          /\ ev_arg' = [ev_arg EXCEPT ![t] = i]
      BY <1>4 DEF FillSlot, Busy, looperVars
    <2>3. CASE x = i
      <3>1. InSlot(x)'
        BY <2>2, <2>3 DEF InSlot, TypeOK
      <3>2. Contains(accepted, x)'
        BY <1>0, <2>1, <2>3 DEF Placed
      <3> QED
        BY <3>1, <3>2 DEF Placed
    <2>4. CASE x # i
      <3>1. InSlot(x)' <=> InSlot(x)
        BY <1>0, <2>1, <2>2, <2>4, SlotFacts DEF InSlot, TypeOK
      <3> QED
        BY <1>0, <2>1, <2>2, <2>4, <3>1 DEF Placed
    <2> QED
      BY <2>3, <2>4
  <1>5. ASSUME Activate PROVE Placed(x)'
    <2>1. UNCHANGED <<ev_arg, posted>>
      BY <1>5 DEF Activate, looperVars
    <2> QED
      BY <1>1, <1>5, <2>1, ActivateStep DEF FreshInv
  <1>6. CASE Quiet
    <2>1. (Queued(x)' <=> Queued(x)) /\ accepted' = accepted
      BY <1>6, QuietStep DEF queueVars
    <2>2. CASE UNCHANGED <<ev_arg, posted>>
      BY <1>1, <2>1, <2>2
    <2>3. ASSUME NEW c \in Callers, NEW i \in EnableArgs, EnableSystemTimeEvent(c, i)
          PROVE  Placed(x)'
      BY <1>0, <1>1, <2>1, <2>3, EnableFills
    <2>4. CASE FanOut
      BY <1>0, <2>1, <2>4, ServedSlot DEF Placed, InSlot
    <2>5. CASE ResetSlot
      <3>1. CASE EvType[x] = current
        <4>1. InSlot(x) => x \in posted
          BY <1>0, <2>5, <3>1, ServedSlot DEF InSlot
        <4>2. ~InSlot(x)' /\ posted' = posted
          BY <2>5, <3>1, ServedSlot, SlotFacts DEF InSlot, TypeOK
        <4> QED
          BY <1>0, <2>1, <4>1, <4>2 DEF Placed
      <3>2. CASE EvType[x] # current
        BY <1>0, <1>1, <2>1, <2>5, <3>2, ServedSlot DEF TypeOK
      <3> QED
        BY <3>1, <3>2
    <2> QED
      BY <1>6, <2>2, <2>3, <2>4, <2>5, QuietKinds
  <1> QED
    BY <1>2, <1>3, <1>4, <1>5, <1>6, QueueSteps

\* The queue and the slots together lose no normal event and serve none twice,
\* for every number of events, callers and types (SendEvent, EventDispatcher
\* with its erase inside the loop, mainCallBackFunction).
THEOREM NoEventLost == Spec => []Conservation
  <1>1. Init => PlacedInv
    BY PlacedInit
  <1>2. CoreInv /\ PlacedInv /\ [Next]_vars => PlacedInv'
    BY PlacedStep
  <1>3. CoreInv /\ PlacedInv => Conservation
    BY SendOnlyFacts DEF CoreInv, FreshInv, PlacedInv, Placed, Conservation, Normal, InSlot
  <1> QED
    BY <1>1, <1>2, <1>3, CoreInvariant, PTL DEF Spec


-----------------------------------------------------------------------------
(* EventDispatch implements EventMailbox: each step of the threads is one  *)
(* step of the mailbox or none.  Normal infos are what the mailbox holds;  *)
(* all infos of one type are normal, or none is.                           *)

inbox == {i \in NormalInfos : Queued(i)}
MailTypes == {EvType[i] : i \in NormalInfos}
serving == [t \in MailTypes |-> ev_arg[t]]
served == posted \cap NormalInfos

\* The mailbox sees neither a queue whose normal infos are the same, nor a slot
\* of another type, nor an info of another type that is fanned out.
LEMMA Unseen ==
    ASSUME \A i \in NormalInfos : Queued(i)' <=> Queued(i),
           \A t \in MailTypes : ev_arg'[t] = ev_arg[t],
           posted' \cap NormalInfos = posted \cap NormalInfos
    PROVE  UNCHANGED <<inbox, serving, served>>
  <1>1. NormalInfos' = NormalInfos /\ MailTypes' = MailTypes
    BY DEF NormalInfos, MailTypes, Normal, SendOnlySlots, Slots
  <1> QED
    BY <1>1 DEF inbox, serving, served

LEMMA NormalTypes ==
    /\ \A i \in Infos : i \in NormalInfos <=> EvType[i] \in MailTypes
    /\ MailTypes \subseteq SendOnlySlots \ {ADD_EVENT} /\ NormalInfos \subseteq Infos
  BY DEF NormalInfos, MailTypes, Normal

LEMMA MailStep ==
    CoreInv /\ [Next]_vars => [Mailbox!MailNext]_Mailbox!mailVars
  <1> SUFFICES ASSUME CoreInv, TypeOK, MutexInv, HeldInv, FreshInv, [Next]_vars
               PROVE  \/ Mailbox!MailNext
                      \/ UNCHANGED <<inbox, serving, served>>
    BY DEF CoreInv, TypeInv, Mailbox!mailVars, inbox, serving, served, MailTypes
  <1> USE SlotFacts, SendOnlyFacts, NormalTypes
  <1>1. ASSUME NEW c \in Callers, NEW i \in SendArgs, SendEvent(c, i)
        PROVE  Mailbox!MailNext \/ UNCHANGED <<inbox, serving, served>>
    <2>1. /\ i \in Infos /\ i \notin used /\ UNCHANGED <<ev_arg, posted>>
          /\ \A x : Queued(x)' <=> Queued(x) \/ x = i
      BY <1>1, PushStep DEF SendEvent, eventVars, looperVars
    <2>2. CASE i \in NormalInfos
      <3>1. ~Queued(i) /\ i \notin posted /\ ev_arg[EvType[i]] # i
        BY <2>1, <2>2 DEF FreshInv
      <3>2. Mailbox!Accept(i)
        BY <2>1, <2>2, <3>1 DEF Mailbox!Accept, Mailbox!Busy
      <3> QED
        BY <2>2, <3>2 DEF Mailbox!MailNext
    <2>3. CASE i \notin NormalInfos
      BY <2>1, <2>3, Unseen
    <2> QED
      BY <2>2, <2>3
  <1>2. ASSUME DropUnknown PROVE UNCHANGED <<inbox, serving, served>>
    <2>1. /\ \A x : Queued(x)' <=> Queued(x) /\ x # m_vEventInfo[it]
          /\ m_vEventInfo[it] \in Infos
      BY <1>2, DropStep DEF FreshInv
    <2>2. EvType[m_vEventInfo[it]] > EVENT_MAX /\ EvType[m_vEventInfo[it]] \in 0..255
      BY <1>2, <2>1 DEF DropUnknown
    <2>3. EvType[m_vEventInfo[it]] \notin Slots
      BY <2>2, DispatchAssumption DEF Slots
    <2>4. m_vEventInfo[it] \notin NormalInfos
      BY <2>3
    <2> QED
      BY <1>2, <2>1, <2>4, Unseen DEF DropUnknown, eventVars, looperVars
  <1>3. ASSUME FillSlot PROVE Mailbox!MailNext \/ UNCHANGED <<inbox, serving, served>>
    <2> DEFINE i == m_vEventInfo[it]
               t == EvType[i]
    <2>1. i \in Infos /\ Queued(i) /\ \A x : Queued(x)' <=> Queued(x) /\ x # i
      BY <1>3, FillStep
    <2>2. /\ t \in Slots /\ ev_arg[t] = NULL /\ ev_arg' = [ev_arg EXCEPT ![t] = i]
          /\ posted' = posted
      BY <1>3 DEF FillSlot, Busy, looperVars
    <2> HIDE DEF i
    <2>3. \A u \in Slots : ev_arg'[u] = IF u = t THEN i ELSE ev_arg[u]
      BY <2>2 DEF TypeOK
    <2>4. CASE i \in NormalInfos
      <3>1. PICK m \in NormalInfos : m = i
        BY <2>4
      <3>2. Mailbox!Serve(m)
        BY <2>1, <2>2, <2>3, <3>1 DEF Mailbox!Serve, MailTypes
      <3> QED
        BY <3>2 DEF Mailbox!MailNext
    <2>5. CASE i \notin NormalInfos
      BY <2>1, <2>2, <2>3, <2>5, Unseen
    <2> QED
      BY <2>4, <2>5
  <1>4. ASSUME Activate PROVE UNCHANGED <<inbox, serving, served>>
    <2>1. UNCHANGED <<ev_arg, posted>>
      BY <1>4 DEF Activate, looperVars
    <2> QED
      BY <1>4, <2>1, ActivateStep, Unseen DEF FreshInv
  <1>5. CASE Quiet
    <2>1. \A x : Queued(x)' <=> Queued(x)
      BY <1>5, QuietStep
    <2>2. CASE UNCHANGED <<ev_arg, posted>>
      BY <2>1, <2>2, Unseen
    <2>3. ASSUME NEW c \in Callers, NEW i \in EnableArgs, EnableSystemTimeEvent(c, i)
          PROVE  UNCHANGED <<inbox, serving, served>>
      BY <2>1, <2>3, EnableFills, Unseen
    <2>4. CASE FanOut
      <3>1. /\ info_arg \in Infos /\ EvType[info_arg] = current
            /\ posted' = posted \cup {info_arg} /\ UNCHANGED ev_arg
        BY <2>4, ServedSlot
      <3>2. CASE info_arg \in NormalInfos
        <4>1. ev_arg[current] = info_arg /\ info_arg \notin posted
          BY <2>4, <3>1, <3>2, ServedSlot
        <4>2. Mailbox!HandOver(info_arg)
          BY <2>1, <3>1, <3>2, <4>1 DEF Mailbox!HandOver, Mailbox!Busy
        <4> QED
          BY <3>2, <4>2 DEF Mailbox!MailNext
      <3>3. CASE info_arg \notin NormalInfos
        BY <2>1, <3>1, <3>3, Unseen
      <3> QED
        BY <3>2, <3>3
    <2>5. CASE ResetSlot
      <3>1. /\ info_arg \in Infos /\ EvType[info_arg] = current
            /\ current \in Slots /\ info_arg \in posted /\ posted' = posted
            /\ \A u \in Slots : ev_arg'[u] = IF u = current THEN NULL ELSE ev_arg[u]
        BY <2>5, ServedSlot DEF TypeOK
      <3>2. CASE info_arg \in NormalInfos
        <4>1. PICK m \in NormalInfos : m = info_arg
          BY <3>2
        <4>2. ev_arg[current] = m
          BY <2>5, <3>1, <4>1, ServedSlot
        <4>3. Mailbox!Release(m)
          BY <2>1, <3>1, <4>1, <4>2 DEF Mailbox!Release, Mailbox!Busy, MailTypes
        <4> QED
          BY <4>3 DEF Mailbox!MailNext
      <3>3. CASE info_arg \notin NormalInfos
        BY <2>1, <3>1, <3>3, Unseen
      <3> QED
        BY <3>2, <3>3
    <2> QED
      BY <1>5, <2>2, <2>3, <2>4, <2>5, QuietKinds
  <1> QED
    BY <1>1, <1>2, <1>3, <1>4, <1>5, QueueSteps

\* Queue, slots and fan-out implement the mailbox: however the threads
\* interleave, an accepted normal event waits, is served alone among the events
\* of its type, and is handed to the listeners once (SendEvent, EventDispatcher,
\* mainCallBackFunction).
THEOREM MailboxImplemented == Spec => ImplementsMailbox
  <1>1. Init => Mailbox!MailInit
    <2> SUFFICES ASSUME Init PROVE Mailbox!MailInit
      OBVIOUS
    <2>1. \A i \in NormalInfos : ~Queued(i)
      BY DEF Init, Queued, Contains
    <2>2. \A t \in MailTypes : ev_arg[t] = NULL
      BY NormalTypes, SendOnlyFacts DEF Init
    <2> QED
      BY <2>1, <2>2 DEF Init, Mailbox!MailInit, Mailbox!MailTypes, MailTypes
  <1> QED
    BY <1>1, MailStep, CoreInvariant, PTL DEF Spec, ImplementsMailbox, Mailbox!MailSpec

-----------------------------------------------------------------------------
(* Overtaking.                                                             *)

\* Infos are accepted once, and the queue is in that order.
OrderInv ==
    /\ IsInjective(accepted)
    /\ \A n \in DOMAIN m_vEventInfo : Contains(accepted, m_vEventInfo[n])
    /\ \A m, n \in DOMAIN m_vEventInfo :
           m < n => AcceptedBefore(m_vEventInfo[m], m_vEventInfo[n])

\* The scan has stepped over i, or will when it erases the info before i, and
\* may still dispatch one behind it, for which the erased info makes up.
Missed(i) ==
    /\ dispatcher \in {"scan", "activate"} /\ ~Busy(EvType[i])
    /\ \E n \in DOMAIN m_vEventInfo :
          (n < it \/ (dispatcher = "activate" /\ n > it)) /\ m_vEventInfo[n] = i
Owed(i) == IF Missed(i) THEN 1 ELSE 0
OvertakeInv ==
    \A i \in Infos : Queued(i) /\ Normal(i) =>
        Cardinality(Overtakers(i)) + Owed(i) <= Cardinality(GoneBefore(i))

LEMMA OneOrder ==
    ASSUME TypeOK, IsInjective(accepted), NEW i, NEW j, AcceptedBefore(i, j)
    PROVE  ~AcceptedBefore(j, i)
  <1>1. accepted \in Seq(Infos)
    BY DEF TypeOK
  <1>2. \A m, n \in DOMAIN accepted : accepted[m] = accepted[n] => m = n
    BY DEF IsInjective
  <1>3. DOMAIN accepted \subseteq Int
    BY <1>1
  <1>4. PICK m, n \in DOMAIN accepted : m < n /\ accepted[m] = i /\ accepted[n] = j
    BY DEF AcceptedBefore
  <1>5. ASSUME NEW k \in DOMAIN accepted, NEW l \in DOMAIN accepted,
               k < l, accepted[k] = j, accepted[l] = i
        PROVE  FALSE
    <2>1. k = n /\ l = m
      BY <1>2, <1>4, <1>5
    <2> QED
      BY <1>3, <1>4, <1>5, <2>1
  <1> QED
    BY <1>5 DEF AcceptedBefore

LEMMA AcceptedAfter ==
    ASSUME TypeOK, NEW i \in Infos, ~Contains(accepted, i), accepted' = Append(accepted, i)
    PROVE  \A j, k : AcceptedBefore(j, k)' <=>
               AcceptedBefore(j, k) \/ (k = i /\ Contains(accepted, j))
  <1>1. /\ accepted \in Seq(Infos) /\ accepted' \in Seq(Infos)
        /\ Len(accepted') = Len(accepted) + 1 /\ Len(accepted) \in Nat
        /\ accepted'[Len(accepted) + 1] = i
        /\ \A n \in 1..Len(accepted) : accepted'[n] = accepted[n]
        /\ \A n \in 1..Len(accepted) : accepted[n] # i
    BY DEF TypeOK, Contains
  <1> SUFFICES ASSUME NEW j, NEW k
               PROVE  AcceptedBefore(j, k)' <=>
                          AcceptedBefore(j, k) \/ (k = i /\ Contains(accepted, j))
    OBVIOUS
  <1> DEFINE L == Len(accepted)
  <1>2. AcceptedBefore(j, k)' <=>
            \E m, n \in 1..(L + 1) : m < n /\ accepted'[m] = j /\ accepted'[n] = k
    BY <1>1 DEF AcceptedBefore
  <1>3. AcceptedBefore(j, k) <=> \E m, n \in 1..L : m < n /\ accepted[m] = j /\ accepted[n] = k
    BY <1>1 DEF AcceptedBefore
  <1>4. Contains(accepted, j) <=> \E m \in 1..L : accepted[m] = j
    BY <1>1 DEF Contains
  <1>5. ASSUME NEW m \in 1..(L + 1), NEW n \in 1..(L + 1),
               m < n, accepted'[m] = j, accepted'[n] = k
        PROVE  AcceptedBefore(j, k) \/ (k = i /\ Contains(accepted, j))
    <2>1. m \in 1..L /\ accepted[m] = j
      BY <1>1, <1>5
    <2>2. CASE n = L + 1
      BY <1>1, <1>4, <1>5, <2>1, <2>2
    <2>3. CASE n # L + 1
      <3>1. n \in 1..L /\ accepted[n] = k
        BY <1>1, <1>5, <2>3
      <3> QED
        BY <1>3, <1>5, <2>1, <3>1
    <2> QED
      BY <2>2, <2>3
  <1>6. ASSUME AcceptedBefore(j, k) PROVE AcceptedBefore(j, k)'
    <2>1. PICK m, n \in 1..L : m < n /\ accepted[m] = j /\ accepted[n] = k
      BY <1>3, <1>6
    <2>2. /\ m \in 1..(L + 1) /\ n \in 1..(L + 1)
          /\ accepted'[m] = j /\ accepted'[n] = k
      BY <1>1, <2>1
    <2> QED
      BY <1>2, <2>1, <2>2
  <1>7. ASSUME k = i, Contains(accepted, j) PROVE AcceptedBefore(j, k)'
    <2>1. PICK m \in 1..L : accepted[m] = j
      BY <1>4, <1>7
    <2>2. m \in 1..(L + 1) /\ L + 1 \in 1..(L + 1) /\ m < L + 1 /\ accepted'[m] = j
      BY <1>1, <2>1
    <2> QED
      BY <1>1, <1>2, <1>7, <2>2
  <1> HIDE DEF L
  <1> QED
    BY <1>2, <1>5, <1>6, <1>7

\* What erasing the info at the iterator does, position by position.
LEMMA EraseAt ==
    ASSUME TypeInv, DropUnknown \/ Activate
    PROVE  /\ it \in 1..Len(m_vEventInfo) /\ Len(m_vEventInfo) \in Nat
           /\ accepted' = accepted
           /\ DOMAIN m_vEventInfo = 1..Len(m_vEventInfo)
           /\ DOMAIN m_vEventInfo' = 1..(Len(m_vEventInfo) - 1)
           /\ \A k \in 1..(Len(m_vEventInfo) - 1) :
                  m_vEventInfo'[k] = IF k < it THEN m_vEventInfo[k] ELSE m_vEventInfo[k + 1]
  <1>1. /\ m_vEventInfo \in Seq(Infos) /\ it \in 1..Len(m_vEventInfo)
        /\ accepted' = accepted /\ m_vEventInfo' = RemoveAt(m_vEventInfo, it)
    BY DEF TypeInv, TypeOK, HeldInv, DropUnknown, Scanning, Activate, EraseDispatched
  <1>2. /\ RemoveAt(m_vEventInfo, it) \in Seq(Infos)
        /\ Len(RemoveAt(m_vEventInfo, it)) = Len(m_vEventInfo) - 1
        /\ \A k \in 1..(Len(m_vEventInfo) - 1) :
              RemoveAt(m_vEventInfo, it)[k]
                  = IF k < it THEN m_vEventInfo[k] ELSE m_vEventInfo[k + 1]
    BY <1>1, RemoveAtProperties
  <1> QED
    BY <1>1, <1>2

LEMMA OrderStep == TypeInv /\ FreshInv /\ OrderInv /\ [Next]_vars => OrderInv'
  <1> SUFFICES ASSUME TypeInv, TypeOK, FreshInv, OrderInv, [Next]_vars PROVE OrderInv'
    BY DEF TypeInv
  <1>1. CASE UNCHANGED queueVars
    BY <1>1 DEF queueVars, OrderInv, AcceptedBefore
  <1>2. ASSUME NEW c \in Callers, NEW i \in SendArgs, SendEvent(c, i) PROVE OrderInv'
    <2>1. /\ i \in Infos /\ i \notin used
          /\ m_vEventInfo' = Append(m_vEventInfo, i) /\ accepted' = Append(accepted, i)
      BY <1>2, DispatchAssumption DEF SendEvent, push_back
    <2>2. ~Contains(accepted, i)
      BY <2>1 DEF FreshInv
    <2>3. accepted \in Seq(Infos) /\ m_vEventInfo \in Seq(Infos)
      BY DEF TypeOK
    <2>4. IsInjective(accepted') /\ \A x : Contains(accepted', x) <=> Contains(accepted, x) \/ x = i
      BY <2>1, <2>2, <2>3, AppendDistinct DEF OrderInv
    <2>5. \A j, k : AcceptedBefore(j, k)' <=>
              AcceptedBefore(j, k) \/ (k = i /\ Contains(accepted, j))
      BY <2>1, <2>2, AcceptedAfter
    <2> DEFINE L == Len(m_vEventInfo)
    <2>6. /\ DOMAIN m_vEventInfo = 1..L /\ DOMAIN m_vEventInfo' = 1..(L + 1) /\ L \in Nat
          /\ \A n \in 1..L : m_vEventInfo'[n] = m_vEventInfo[n]
          /\ m_vEventInfo'[L + 1] = i
      BY <2>1, <2>3
    <2>7. ASSUME NEW n \in DOMAIN m_vEventInfo' PROVE Contains(accepted', m_vEventInfo'[n])
      BY <2>4, <2>6, <2>7 DEF OrderInv
    <2>8. ASSUME NEW m \in DOMAIN m_vEventInfo', NEW n \in DOMAIN m_vEventInfo', m < n,
                 NEW x, NEW y, m_vEventInfo'[m] = x, m_vEventInfo'[n] = y
          PROVE  AcceptedBefore(x, y)'
      <3>1. m \in 1..L /\ m_vEventInfo[m] = x
        BY <2>6, <2>8
      <3>2. CASE n = L + 1
        BY <2>5, <2>6, <2>8, <3>1, <3>2 DEF OrderInv
      <3>3. CASE n # L + 1
        <4>1. n \in 1..L /\ m_vEventInfo[n] = y
          BY <2>6, <2>8, <3>3
        <4>2. AcceptedBefore(x, y)
          BY <2>6, <2>8, <3>1, <4>1 DEF OrderInv
        <4> QED
          BY <2>5, <4>2
      <3> QED
        BY <3>2, <3>3
    <2> HIDE DEF L
    <2> QED
      BY <2>4, <2>7, <2>8 DEF OrderInv
  <1>3. ASSUME DropUnknown \/ Activate PROVE OrderInv'
    <2>2. /\ it \in 1..Len(m_vEventInfo) /\ Len(m_vEventInfo) \in Nat
          /\ accepted' = accepted
          /\ DOMAIN m_vEventInfo = 1..Len(m_vEventInfo)
          /\ DOMAIN m_vEventInfo' = 1..(Len(m_vEventInfo) - 1)
          /\ \A k \in 1..(Len(m_vEventInfo) - 1) :
                 m_vEventInfo'[k] = IF k < it THEN m_vEventInfo[k] ELSE m_vEventInfo[k + 1]
      BY <1>3, EraseAt
    <2> DEFINE at(k) == IF k < it THEN k ELSE k + 1
    <2>3. \A k \in DOMAIN m_vEventInfo' :
              at(k) \in DOMAIN m_vEventInfo /\ m_vEventInfo'[k] = m_vEventInfo[at(k)]
      BY <2>2
    <2>4. \A j, k \in DOMAIN m_vEventInfo' : j < k => at(j) < at(k)
      BY <2>2
    <2>5. \A j, k : AcceptedBefore(j, k)' <=> AcceptedBefore(j, k)
      BY <2>2 DEF AcceptedBefore
    <2> HIDE DEF at
    <2> QED
      BY <2>2, <2>3, <2>4, <2>5 DEF OrderInv
  <1>4. Quiet \/ FillSlot => UNCHANGED queueVars
    BY QuietStep, FillStep
  <1> QED
    BY <1>1, <1>2, <1>3, <1>4, QueueSteps

-----------------------------------------------------------------------------

\* While the dispatcher scans, no slot that only SendEvent fills becomes free.
LEMMA BusyStays ==
    ASSUME TypeInv, SlotInv, [Next]_vars, dispatcher \in {"scan", "activate"},
           NEW t \in SendOnlySlots \ {ADD_EVENT}, Busy(t)
    PROVE  Busy(t)'
  <1> USE SlotFacts, SendOnlyFacts DEF Busy, TypeInv, TypeOK
  <1>0. m_pEventMutex = Dispatcher /\ ~Free
    BY DEF MutexInv, Free
  <1>1. CASE UNCHANGED <<active, ev_arg>>
    BY <1>1
  <1>2. ASSUME \/ \E c \in Callers :
                     SignalDispatcher(c) \/ EnableReturns(c) \/ DisableReturns(c)
               \/ \E c \in Callers, i \in SendArgs : SendEvent(c, i)
               \/ \E c \in Callers, i \in EnableArgs : EnableSystemTimeEvent(c, i)
               \/ \E c \in Callers, u \in DisableArgs : DisableSystemTimeEvent(c, u)
               \/ DispatcherLocks \/ DropUnknown \/ IndexPastSlots \/ SkipBusy
               \/ EndScan \/ SpuriousWakeup \/ RunCallback \/ FanOut \/ FreeArg
               \/ AddEventCallback \/ ResetSlot \/ UNCHANGED vars
        PROVE  UNCHANGED <<active, ev_arg>>
    BY <1>0, <1>2 DEF SignalDispatcher, EnableReturns, DisableReturns, WaitOver, InLibevent,
       SendEvent, EnableSystemTimeEvent, DisableSystemTimeEvent, DispatcherLocks, DropUnknown,
       IndexPastSlots, SkipBusy, EndScan, SpuriousWakeup, RunCallback, FanOut, FreeArg,
       AddEventCallback, ResetSlot, vars, eventVars, MutexInv
  <1>3. ASSUME FillSlot PROVE Busy(t)'
    <2>1. active' = active /\ \A u \in Slots : ev_arg[u] # NULL => ev_arg'[u] # NULL
      BY <1>3 DEF FillSlot, Scanning
    <2> QED
      BY <2>1
  <1>4. ASSUME Activate PROVE Busy(t)'
    <2>1. EvType[m_vEventInfo[it]] \in Slots
      BY <1>4, ActivatingFacts DEF Activate
    <2>2. \A x : Contains(active, x)' <=> Contains(active, x) \/ x = EvType[m_vEventInfo[it]]
      BY <1>4, <2>1, ActiveAfter DEF Activate, SlotInv
    <2> QED
      BY <1>4, <2>2 DEF Activate
  <1>5. ASSUME NEW u \in Timers, TimerExpires(u) PROVE Busy(t)'
    <2>1. \A x : Contains(active, x)' <=> Contains(active, x) \/ x = u
      BY <1>5, ActiveAfter DEF TimerExpires, SlotInv
    <2> QED
      BY <1>5, <2>1 DEF TimerExpires
  <1>6. ASSUME TakeOff PROVE Busy(t)'
    <2>1. ev_arg' = ev_arg
      BY <1>6 DEF TakeOff
    <2> QED
      BY <2>1 DEF SlotInv, Fired
  <1> QED
    BY <1>1, <1>2, <1>3, <1>4, <1>5, <1>6
       DEF Next, CallerStep, DispatcherStep, ScanStep, LooperStep, CallbackStep

LEMMA MissedStays ==
    ASSUME TypeInv, SlotInv, [Next]_vars, Quiet,
           NEW i \in Infos, Normal(i), Missed(i)'
    PROVE  Missed(i)
  <1>0. UNCHANGED m_vEventInfo
    BY QuietStep DEF queueVars
  <1>1. PICK n \in DOMAIN m_vEventInfo :
            (n < it' \/ (dispatcher' = "activate" /\ n > it')) /\ m_vEventInfo[n] = i
    BY <1>0 DEF Missed
  <1>2. dispatcher' \in {"scan", "activate"} /\ ~Busy(EvType[i])'
    BY DEF Missed
  <1>3. n \in Nat \ {0} /\ it \in Nat \ {0} /\ m_vEventInfo \in Seq(Infos)
    BY DEF TypeInv, TypeOK
  <1>4. ASSUME dispatcher \in {"scan", "activate"},
               n < it \/ (dispatcher = "activate" /\ n > it)
        PROVE  Missed(i)
    BY <1>1, <1>2, <1>4, BusyStays DEF Missed, Normal
  <1>5. ASSUME DispatcherLocks PROVE FALSE
    BY <1>1, <1>3, <1>5 DEF DispatcherLocks, Begin
  <1>6. ASSUME EndScan \/ SpuriousWakeup PROVE FALSE
    BY <1>2, <1>6 DEF EndScan, SpuriousWakeup
  <1>7. ASSUME SkipBusy PROVE Missed(i)
    <2>1. it' = it + 1 /\ dispatcher = "scan" /\ dispatcher' = "scan"
          /\ Busy(EvType[m_vEventInfo[it]]) /\ UNCHANGED <<ev_arg, active>>
      BY <1>7 DEF SkipBusy, Scanning, eventVars
    <2>2. n # it
      BY <1>1, <1>2, <2>1 DEF Busy
    <2> QED
      BY <1>1, <1>3, <1>4, <2>1, <2>2
  <1>8. ASSUME NEW c \in Callers, SignalDispatcher(c) PROVE UNCHANGED <<dispatcher, it>>
    BY <1>2, <1>8 DEF SignalDispatcher, Wake
  <1>9. ASSUME \/ \E c \in Callers : EnableReturns(c) \/ DisableReturns(c)
               \/ \E c \in Callers, j \in EnableArgs : EnableSystemTimeEvent(c, j)
               \/ \E c \in Callers, u \in DisableArgs : DisableSystemTimeEvent(c, u)
               \/ IndexPastSlots \/ LooperStep \/ UNCHANGED vars
        PROVE  UNCHANGED <<dispatcher, it>>
    BY <1>9 DEF EnableReturns, DisableReturns, EnableSystemTimeEvent, DisableSystemTimeEvent,
       IndexPastSlots, LooperStep, CallbackStep, TimerExpires, TakeOff, RunCallback, FanOut,
       FreeArg, AddEventCallback, ResetSlot, vars, dispatcherVars
  <1> QED
    BY <1>1, <1>2, <1>4, <1>5, <1>6, <1>7, <1>8, <1>9 DEF Quiet

LEMMA CountTypes ==
    ASSUME NEW i
    PROVE  /\ IsFiniteSet(Overtakers(i)) /\ Cardinality(Overtakers(i)) \in Nat
           /\ IsFiniteSet(GoneBefore(i)) /\ Cardinality(GoneBefore(i)) \in Nat
  <1>1. Overtakers(i) \subseteq Infos /\ GoneBefore(i) \subseteq Infos
    BY DEF Overtakers, GoneBefore
  <1> QED
    BY <1>1, DispatchAssumption, FS_Subset, FS_CardinalityType

\* When k leaves, it counts among those that have left before or behind i.
LEMMA LeftCounts ==
    ASSUME TypeOK, OrderInv, accepted' = accepted, NEW k \in Infos, Queued(k),
           \A x : Queued(x)' <=> Queued(x) /\ x # k,
           NEW i \in Infos
    PROVE  /\ Overtakers(i)' = IF EvType[k] = EvType[i] /\ AcceptedBefore(i, k)
                               THEN Overtakers(i) \cup {k} ELSE Overtakers(i)
           /\ GoneBefore(i)' = IF AcceptedBefore(k, i) THEN GoneBefore(i) \cup {k}
                               ELSE GoneBefore(i)
           /\ k \notin Overtakers(i) /\ k \notin GoneBefore(i)
  BY DEF Overtakers, GoneBefore, AcceptedBefore

LEMMA OvertakeStep ==
    CoreInv /\ OrderInv /\ OvertakeInv /\ [Next]_vars => OvertakeInv'
  <1> SUFFICES ASSUME CoreInv, OrderInv, OvertakeInv, [Next]_vars,
                      NEW i \in Infos, Queued(i)', Normal(i)
               PROVE  (Cardinality(Overtakers(i)) + Owed(i) <= Cardinality(GoneBefore(i)))'
    BY DEF OvertakeInv, Normal, SendOnlySlots, Slots
  <1>0. /\ TypeInv /\ TypeOK /\ MutexInv /\ HeldInv /\ FreshInv /\ SlotInv
        /\ EvType[i] \in SendOnlySlots \ {ADD_EVENT} /\ EvType[i] \in Slots
    BY SendOnlyFacts DEF CoreInv, TypeInv, LiveInv, Normal
  <1>c. /\ Cardinality(Overtakers(i)) \in Nat /\ IsFiniteSet(Overtakers(i))
        /\ Cardinality(GoneBefore(i)) \in Nat /\ IsFiniteSet(GoneBefore(i))
        /\ Cardinality(Overtakers(i)') \in Nat /\ Cardinality(GoneBefore(i)') \in Nat
    <2>1. Overtakers(i)' \subseteq Infos /\ GoneBefore(i)' \subseteq Infos
      BY DEF Overtakers, GoneBefore
    <2> QED
      BY <2>1, CountTypes, DispatchAssumption, FS_Subset, FS_CardinalityType
  <1>o. Owed(i) \in {0, 1} /\ Owed(i)' \in {0, 1} /\ (Missed(i)' \/ Owed(i)' = 0)
    BY DEF Owed
  <1>1. CASE Quiet
    <2>1. Overtakers(i)' = Overtakers(i) /\ GoneBefore(i)' = GoneBefore(i) /\ Queued(i)
      BY <1>1, QuietStep DEF queueVars, Overtakers, GoneBefore, AcceptedBefore
    <2>2. Owed(i)' <= Owed(i)
      BY <1>0, <1>1, MissedStays DEF Owed
    <2> QED
      BY <1>c, <1>o, <2>1, <2>2 DEF OvertakeInv
  <1>2. ASSUME NEW c \in Callers, NEW j \in SendArgs, SendEvent(c, j)
        PROVE  (Cardinality(Overtakers(i)) + Owed(i) <= Cardinality(GoneBefore(i)))'
    <2>1. /\ j \in Infos /\ j \notin used /\ accepted' = Append(accepted, j)
          /\ dispatcher' \notin {"scan", "activate"}
          /\ \A x : Queued(x)' <=> Queued(x) \/ x = j
      BY <1>0, <1>2, PushStep DEF SendEvent
    <2>2. ~Contains(accepted, j) /\ ~Queued(j)
      BY <1>0, <2>1 DEF FreshInv
    <2>4. \A x, y : AcceptedBefore(x, y)' <=>
              AcceptedBefore(x, y) \/ (y = j /\ Contains(accepted, x))
      BY <1>0, <2>1, <2>2, AcceptedAfter
    <2>5. \A x, y : AcceptedBefore(x, y) => Contains(accepted, x) /\ Contains(accepted, y)
      BY DEF AcceptedBefore, Contains
    <2>6. Owed(i)' = 0
      BY <2>1 DEF Owed, Missed
    <2>7. CASE i = j
      <3>1. Overtakers(i)' = {}
        BY <2>1, <2>2, <2>4, <2>5, <2>7 DEF Overtakers
      <3>2. Cardinality(Overtakers(i)') = 0
        BY <3>1, FS_EmptySet, Zenon
      <3> QED
        BY <1>c, <2>6, <3>2
    <2>8. CASE i # j
      <3>1. Overtakers(i)' = Overtakers(i) /\ GoneBefore(i)' = GoneBefore(i) /\ Queued(i)
        BY <2>1, <2>2, <2>4, <2>5, <2>8 DEF Overtakers, GoneBefore
      <3> QED
        BY <1>c, <1>o, <2>6, <3>1 DEF OvertakeInv
    <2> QED
      BY <2>7, <2>8
  <1>3. ASSUME DropUnknown \/ FillSlot
        PROVE  (Cardinality(Overtakers(i)) + Owed(i) <= Cardinality(GoneBefore(i)))'
    <2> DEFINE k == m_vEventInfo[it]
    <2>1. Scanning /\ dispatcher = "scan" /\ it \in 1..Len(m_vEventInfo)
          /\ m_vEventInfo \in Seq(Infos)
      BY <1>0, <1>3 DEF TypeOK, DropUnknown, FillSlot, Scanning
    <2>3. /\ k \in Infos /\ Queued(k) /\ accepted' = accepted
          /\ \A x : Queued(x)' <=> Queued(x) /\ x # k
      BY <1>0, <1>3, DropStep, FillStep DEF DropUnknown, queueVars, FreshInv
    <2>4. PICK p \in DOMAIN m_vEventInfo : m_vEventInfo[p] = i /\ p # it
      BY <2>3 DEF Queued, Contains
    <2>5. Queued(i)
      BY <2>3
    <2>6. /\ Overtakers(i)' = IF EvType[k] = EvType[i] /\ AcceptedBefore(i, k)
                              THEN Overtakers(i) \cup {k} ELSE Overtakers(i)
          /\ GoneBefore(i)' = IF AcceptedBefore(k, i) THEN GoneBefore(i) \cup {k}
                              ELSE GoneBefore(i)
          /\ k \notin Overtakers(i) /\ k \notin GoneBefore(i)
      BY <1>0, <2>3, LeftCounts
    <2>7. Cardinality(Overtakers(i)') = IF EvType[k] = EvType[i] /\ AcceptedBefore(i, k)
              THEN Cardinality(Overtakers(i)) + 1 ELSE Cardinality(Overtakers(i))
      BY <1>c, <2>6, FS_AddElement
    <2>8. Cardinality(GoneBefore(i)') = IF AcceptedBefore(k, i)
              THEN Cardinality(GoneBefore(i)) + 1 ELSE Cardinality(GoneBefore(i))
      BY <1>c, <2>6, FS_AddElement
    <2>9. Cardinality(Overtakers(i)) + Owed(i) <= Cardinality(GoneBefore(i))
      BY <2>5 DEF OvertakeInv
    <2>k. k = m_vEventInfo[it]
      OBVIOUS
    <2> HIDE DEF k
    <2>10. CASE p > it
      <3>1. AcceptedBefore(k, i)
        BY <2>1, <2>4, <2>10 DEF OrderInv, k
      <3>2. ~AcceptedBefore(i, k)
        BY <1>0, <3>1, OneOrder DEF OrderInv
      <3> QED
        BY <1>c, <1>o, <2>7, <2>8, <2>9, <3>1, <3>2
    <2>11. CASE p < it
      <3>1. AcceptedBefore(i, k)
        BY <2>1, <2>4, <2>11 DEF OrderInv, k
      <3>2. ~AcceptedBefore(k, i)
        BY <1>0, <3>1, OneOrder DEF OrderInv
      <3>3. Busy(EvType[i]) \/ Owed(i) = 1
        BY <2>1, <2>4, <2>11 DEF Owed, Missed
      <3>4. CASE EvType[k] = EvType[i]
        <4>0. ~DropUnknown
          <5> SUFFICES ASSUME DropUnknown PROVE FALSE
            OBVIOUS
          <5>1. EvType[k] > EVENT_MAX
            BY <2>k DEF DropUnknown
          <5>2. i \in Infos /\ EvType[i] \in 0..(EVENT_MAX - 1) /\ EVENT_MAX \in Nat
            BY <1>0, DispatchAssumption DEF Slots
          <5> QED
            BY <5>1, <5>2, <3>4
        <4>1. FillSlot /\ ~Busy(EvType[i])
          <5>1. FillSlot
            BY <1>3, <4>0
          <5> QED
            BY <5>1, <2>k, <3>4 DEF FillSlot
        <4>2. ev_arg'[EvType[i]] = k /\ k # NULL
          BY <1>0, <2>3, <2>k, <3>4, <4>1, SlotFacts DEF FillSlot, TypeOK
        <4>3. Owed(i)' = 0
          BY <4>2 DEF Owed, Missed, Busy
        <4> QED
          BY <1>c, <1>o, <2>7, <2>8, <2>9, <3>1, <3>2, <3>3, <3>4, <4>1, <4>3
      <3>5. CASE EvType[k] # EvType[i]
        <4>1. Busy(EvType[i]) => Busy(EvType[i])'
          BY <1>0, <2>1, BusyStays
        <4>2. Owed(i)' <= Owed(i)
          BY <1>o, <3>3, <4>1 DEF Missed, Owed
        <4> QED
          BY <1>c, <1>o, <2>7, <2>8, <2>9, <3>2, <3>5, <4>2
      <3> QED
        BY <3>4, <3>5
    <2> QED
      BY <2>1, <2>4, <2>10, <2>11
  <1>4. ASSUME Activate
        PROVE  (Cardinality(Overtakers(i)) + Owed(i) <= Cardinality(GoneBefore(i)))'
    <2>1. Overtakers(i)' = Overtakers(i) /\ GoneBefore(i)' = GoneBefore(i) /\ Queued(i)
      BY <1>0, <1>4, ActivateStep DEF FreshInv, Overtakers, GoneBefore, AcceptedBefore
    <2>2. ASSUME Missed(i)' PROVE Missed(i)
      <3>1. PICK n \in DOMAIN m_vEventInfo' : n < it' /\ m_vEventInfo'[n] = i
        BY <1>4, <2>2 DEF Missed, Activate
      <3>2. dispatcher = "activate" /\ (it' = it + 1 \/ (it' = it /\ it = Len(m_vEventInfo)))
        BY <1>4 DEF Activate
      <3>3. /\ it \in 1..Len(m_vEventInfo) /\ Len(m_vEventInfo) \in Nat
            /\ DOMAIN m_vEventInfo = 1..Len(m_vEventInfo)
            /\ DOMAIN m_vEventInfo' = 1..(Len(m_vEventInfo) - 1)
            /\ m_vEventInfo'[n] = IF n < it THEN m_vEventInfo[n] ELSE m_vEventInfo[n + 1]
        BY <1>0, <1>4, <3>1, EraseAt
      <3>4. PICK m \in DOMAIN m_vEventInfo : (m < it \/ m > it) /\ m_vEventInfo[m] = i
        BY <3>1, <3>2, <3>3
      <3>5. ~Busy(EvType[i])
        BY <1>0, <2>2, <3>2, BusyStays DEF Missed
      <3> QED
        BY <3>2, <3>4, <3>5 DEF Missed
    <2>3. Owed(i)' <= Owed(i)
      BY <2>2 DEF Owed
    <2> QED
      BY <1>c, <1>o, <2>1, <2>3 DEF OvertakeInv
  <1> QED
    BY <1>1, <1>2, <1>3, <1>4, QueueSteps

LEMMA OvertakeInit == Init => OrderInv /\ OvertakeInv
  BY DEF Init, OrderInv, OvertakeInv, IsInjective, Queued, Contains

\* An info of a normal type is overtaken at most as often as there were infos
\* before it in the queue, whatever the scan steps over (EventDispatcher).
THEOREM OvertakingIsBounded == Spec => []BoundedOvertaking
  <1>1. OvertakeInv => BoundedOvertaking
    <2> SUFFICES ASSUME OvertakeInv, NEW i \in Infos, Queued(i), Normal(i)
                 PROVE  Cardinality(Overtakers(i)) <= Cardinality(GoneBefore(i))
      BY DEF BoundedOvertaking
    <2>1. Owed(i) \in {0, 1}
      BY DEF Owed
    <2> QED
      BY <2>1, CountTypes DEF OvertakeInv
  <1>2. CoreInv => TypeInv /\ FreshInv
    BY DEF CoreInv
  <1> QED
    BY <1>1, <1>2, OvertakeInit, OrderStep, OvertakeStep, CoreInvariant, PTL
       DEF Spec

-----------------------------------------------------------------------------
(* How a timer loses its argument.                                         *)

\* The action of OrphanedByReset: only the reset of a slot whose timer is armed
\* or active again takes the argument from a timer that will fire.
LEMMA OrphanStep ==
    ASSUME CoreInv, [Next]_vars, NEW t \in Timers, Orphaned(t)', ~Orphaned(t)
    PROVE  /\ ResetSlot /\ looper = "reset" /\ current = t
           /\ t \in armed \/ Contains(active, t)
  <1> USE SlotFacts
  <1>0. TypeOK /\ LooperInv /\ HeldInv /\ FreshInv /\ LiveInv
    BY DEF CoreInv, TypeInv
  <1>1. ASSUME ev_arg'[t] = NULL => ev_arg[t] = NULL,
               (t \in armed \/ Fired(t))' => t \in armed \/ Fired(t)
        PROVE  FALSE
    BY <1>1 DEF Orphaned
  <1>2. ASSUME \/ \E c \in Callers : SignalDispatcher(c)
               \/ \E c \in Callers, i \in SendArgs : SendEvent(c, i)
               \/ DispatcherLocks \/ DropUnknown \/ IndexPastSlots \/ SkipBusy
               \/ EndScan \/ SpuriousWakeup \/ UNCHANGED vars
        PROVE  UNCHANGED <<ev_arg, active, armed, looper, current>>
    BY <1>2 DEF SignalDispatcher, SendEvent, DispatcherLocks, DropUnknown, IndexPastSlots,
       SkipBusy, EndScan, SpuriousWakeup, vars, eventVars, looperVars
  <1>3. ASSUME UNCHANGED <<ev_arg, active, armed>>,
               looper' = "taken" /\ current' = t => looper = "taken" /\ current = t
        PROVE  FALSE
    BY <1>1, <1>3 DEF Fired
  <1>4. ASSUME NEW c \in Callers, NEW i \in EnableArgs, EnableSystemTimeEvent(c, i) PROVE FALSE
    <2>1. /\ UNCHANGED <<active, armed, looper, current>> /\ i # NULL
          /\ UNCHANGED ev_arg \/ ev_arg' = [ev_arg EXCEPT ![EvType[i]] = i]
      BY <1>4, DispatchAssumption DEF EnableSystemTimeEvent, FillTimer, looperVars
    <2> QED
      BY <1>0, <1>1, <2>1 DEF Fired, TypeOK
  <1>5. ASSUME NEW c \in Callers, EnableReturns(c) PROVE FALSE
    <2>1. /\ event_add(timer[c]) /\ ev_arg' = ev_arg /\ UNCHANGED <<looper, current>>
          /\ ev_arg[timer[c]] # NULL /\ armed' = armed \cup {timer[c]}
      BY <1>0, <1>5 DEF EnableReturns, event_add, HeldInv, looperVars
    <2>2. \A x : Contains(active, x)' => Contains(active, x)
      BY <1>0, <2>1, ActiveAfter DEF LooperInv
    <2>3. CASE t = timer[c]
      BY <2>1, <2>3 DEF Orphaned
    <2>4. CASE t # timer[c]
      BY <1>1, <2>1, <2>2, <2>4 DEF Fired
    <2> QED
      BY <2>3, <2>4
  <1>6. ASSUME NEW u, event_del(u), UNCHANGED <<ev_arg, looper, current>> PROVE FALSE
    <2>1. \A x : Contains(active, x)' <=> Contains(active, x) /\ x # u
      BY <1>0, <1>6, ActiveAfter DEF LooperInv
    <2> QED
      BY <1>1, <1>6, <2>1 DEF event_del, Fired
  <1>7. ASSUME NEW c \in Callers, NEW u \in DisableArgs, DisableSystemTimeEvent(c, u) PROVE FALSE
    BY <1>3, <1>6, <1>7 DEF DisableSystemTimeEvent, looperVars
  <1>8. ASSUME NEW c \in Callers, DisableReturns(c) PROVE FALSE
    BY <1>6, <1>8 DEF DisableReturns, looperVars
  <1>9. ASSUME FillSlot PROVE FALSE
    <2>1. /\ UNCHANGED <<active, armed, looper, current>> /\ m_vEventInfo[it] \in Infos
          /\ ev_arg' = [ev_arg EXCEPT ![EvType[m_vEventInfo[it]]] = m_vEventInfo[it]]
      BY <1>0, <1>9, FillStep DEF FillSlot, looperVars
    <2> QED
      BY <1>0, <1>1, <2>1 DEF Fired, TypeOK
  <1>10. ASSUME Activate PROVE FALSE
    <2> DEFINE u == EvType[m_vEventInfo[it]]
    <2>1. /\ u \in Slots /\ ev_arg[u] # NULL /\ event_active(u)
          /\ UNCHANGED <<ev_arg, armed, looper, current>>
      BY <1>0, <1>10, ActivatingFacts DEF Activate, looperVars
    <2> HIDE DEF u
    <2>2. \A x : Contains(active, x)' <=> Contains(active, x) \/ x = u
      BY <1>0, <2>1, ActiveAfter DEF LooperInv
    <2> QED
      BY <2>1, <2>2 DEF Orphaned, Fired
  <1>11. ASSUME NEW u \in Timers, TimerExpires(u) PROVE FALSE
    <2>1. \A x : Contains(active, x)' <=> Contains(active, x) \/ x = u
      BY <1>0, <1>11, ActiveAfter DEF TimerExpires, LooperInv
    <2> QED
      BY <1>1, <1>11, <2>1 DEF TimerExpires, LeaveHeap, looperVars, Fired
  <1>12. ASSUME TakeOff PROVE FALSE
    <2>1. /\ active \in Seq(Slots) /\ active # <<>> /\ active' = Tail(active)
          /\ current' = Head(active) /\ ev_arg' = ev_arg /\ armed' \subseteq armed
      BY <1>0, <1>12 DEF TakeOff, TypeOK, LeaveHeap
    <2>2. \A x : Contains(active, x)' => Contains(active, x)
      BY <1>0, <2>1, TailDistinct DEF LooperInv
    <2>3. Contains(active, Head(active))
      BY <2>1 DEF Contains
    <2> QED
      BY <1>1, <2>1, <2>2, <2>3 DEF Fired
  <1>13. ASSUME RunCallback \/ AddEventCallback \/ FanOut \/ FreeArg PROVE FALSE
    BY <1>3, <1>13 DEF RunCallback, AddEventCallback, FanOut, FreeArg, CallbackEnds, eventVars
  <1>14. ASSUME ResetSlot
         PROVE  looper = "reset" /\ current = t /\ (t \in armed \/ Contains(active, t))
    <2>1. /\ EvType[info_arg] = current /\ current \in Slots
          /\ looper = "reset" /\ looper' = "free"
          /\ ev_arg' = [ev_arg EXCEPT ![current] = NULL]
          /\ UNCHANGED <<active, armed>>
      BY <1>0, <1>14 DEF ResetSlot, ClearSlot, LooperInv, TypeOK
    <2>2. t \in armed \/ Contains(active, t)
      BY <2>1 DEF Orphaned, Fired
    <2>3. ev_arg[t] # NULL
      BY <2>2 DEF Orphaned, Fired
    <2> QED
      BY <1>0, <2>1, <2>2, <2>3 DEF Orphaned, TypeOK
  <1> QED
    BY <1>2, <1>3, <1>4, <1>5, <1>7, <1>8, <1>9, <1>10, <1>11, <1>12, <1>13, <1>14
       DEF Next, CallerStep, DispatcherStep, ScanStep, LooperStep, CallbackStep

LEMMA SharedStays ==
    ASSUME [Next]_vars, NEW t
    PROVE  /\ SharedTimer(t) => SharedTimer(t)'
           /\ (\E i \in posted : EvType[i] = t) => (\E i \in posted : EvType[i] = t)'
  <1>1. used \subseteq used' /\ posted \subseteq posted'
    BY DEF Next, CallerStep, DispatcherStep, ScanStep, LooperStep, CallbackStep,
       SendEvent, EnableSystemTimeEvent, EnableReturns, DisableSystemTimeEvent,
       SignalDispatcher, DisableReturns, DispatcherLocks, DropUnknown, IndexPastSlots,
       SkipBusy, FillSlot, Activate, EndScan, SpuriousWakeup, TimerExpires, TakeOff,
       RunCallback, AddEventCallback, FanOut, ResetSlot, FreeArg, vars, looperVars, callerVars
  <1> QED
    BY <1>1 DEF SharedTimer

LEMMA EmptyStep == CoreInv /\ EmptyInv /\ [Next]_vars => EmptyInv'
  <1> SUFFICES ASSUME CoreInv, EmptyInv, [Next]_vars PROVE EmptyInv'
    OBVIOUS
  <1>0. TypeOK /\ LooperInv /\ MutexInv /\ HeldInv /\ LiveInv
    BY DEF CoreInv, TypeInv
  <1> USE SlotFacts DEF Running
  <1>1. (Running /\ looper \in {"callback", "reset"} => ev_arg[current] # NULL)'
    <2>1. ASSUME \A u \in Slots : ev_arg[u] # NULL => ev_arg'[u] # NULL,
                 UNCHANGED <<looper, current>>, Running
          PROVE  (Running /\ looper \in {"callback", "reset"} => ev_arg[current] # NULL)'
      BY <1>0, <2>1 DEF EmptyInv, TypeOK, LooperInv
    <2>2. ASSUME \/ \E c \in Callers :
                       SignalDispatcher(c) \/ EnableReturns(c) \/ DisableReturns(c)
                 \/ \E c \in Callers, i \in SendArgs : SendEvent(c, i)
                 \/ \E c \in Callers, t \in DisableArgs : DisableSystemTimeEvent(c, t)
                 \/ DispatcherLocks \/ DropUnknown \/ IndexPastSlots \/ SkipBusy \/ Activate
                 \/ EndScan \/ SpuriousWakeup \/ \E t \in Timers : TimerExpires(t)
          PROVE  UNCHANGED <<ev_arg, looper, current>> /\ Running
      BY <2>2 DEF SignalDispatcher, EnableReturns, DisableReturns, SendEvent,
         DisableSystemTimeEvent, DispatcherLocks, DropUnknown, IndexPastSlots, SkipBusy,
         Activate, EndScan, SpuriousWakeup, TimerExpires, eventVars, looperVars
    <2>3. ASSUME NEW c \in Callers, NEW i \in EnableArgs, EnableSystemTimeEvent(c, i)
          PROVE  /\ \A u \in Slots : ev_arg[u] # NULL => ev_arg'[u] # NULL
                 /\ UNCHANGED <<looper, current>> /\ Running
      <3>1. /\ UNCHANGED <<looper, current>> /\ Running /\ i # NULL
            /\ UNCHANGED ev_arg \/ ev_arg' = [ev_arg EXCEPT ![EvType[i]] = i]
        BY <2>3, DispatchAssumption DEF EnableSystemTimeEvent, FillTimer, looperVars
      <3> QED
        BY <1>0, <3>1 DEF TypeOK
    <2>4. ASSUME FillSlot
          PROVE  /\ \A u \in Slots : ev_arg[u] # NULL => ev_arg'[u] # NULL
                 /\ UNCHANGED <<looper, current>> /\ Running
      BY <1>0, <2>4, FillStep DEF FillSlot, looperVars, TypeOK
    <2>5. ASSUME \/ TakeOff \/ RunCallback \/ AddEventCallback \/ FanOut \/ ResetSlot
                 \/ FreeArg \/ UNCHANGED vars
          PROVE  (Running /\ looper \in {"callback", "reset"} => ev_arg[current] # NULL)'
      BY <2>5 DEF TakeOff, RunCallback, AddEventCallback, FanOut, ResetSlot, FreeArg,
         CallbackEnds, vars, eventVars, looperVars, EmptyInv
    <2> QED
      BY <2>1, <2>2, <2>3, <2>4, <2>5
         DEF Next, CallerStep, DispatcherStep, ScanStep, LooperStep, CallbackStep
  <1>2. ASSUME NEW t \in Timers, Adding(t)' PROVE t \notin armed'
    <2>1. ASSUME Adding(t), armed' \subseteq armed PROVE t \notin armed'
      BY <2>1 DEF EmptyInv
    <2>2. ASSUME \/ \E c \in Callers, i \in SendArgs : SendEvent(c, i)
                 \/ \E c \in Callers, u \in DisableArgs : DisableSystemTimeEvent(c, u)
                 \/ \E c \in Callers : SignalDispatcher(c) \/ DisableReturns(c)
                 \/ DispatcherStep \/ SpuriousWakeup \/ LooperStep \/ UNCHANGED vars
          PROVE  armed' \subseteq armed
      BY <2>2 DEF SendEvent, DisableSystemTimeEvent, SignalDispatcher, DisableReturns,
         event_del, DispatcherStep, DispatcherLocks, ScanStep, DropUnknown, IndexPastSlots,
         SkipBusy, FillSlot, Activate, EndScan, SpuriousWakeup, LooperStep, CallbackStep,
         TimerExpires, TakeOff, LeaveHeap, RunCallback, AddEventCallback, FanOut, FreeArg,
         ResetSlot, vars, eventVars
    <2>3. ASSUME \/ \E c \in Callers, i \in SendArgs : SendEvent(c, i)
                 \/ \E c \in Callers, u \in DisableArgs : DisableSystemTimeEvent(c, u)
                 \/ \E c \in Callers : SignalDispatcher(c) \/ DisableReturns(c)
                 \/ DispatcherStep \/ SpuriousWakeup \/ LooperStep \/ UNCHANGED vars
          PROVE  Adding(t)
      BY <1>0, <1>2, <2>3 DEF Adding, SendEvent, DisableSystemTimeEvent, SignalDispatcher,
         DisableReturns, DispatcherStep, DispatcherLocks, ScanStep, DropUnknown, IndexPastSlots,
         SkipBusy, FillSlot, Activate, EndScan, SpuriousWakeup, LooperStep, CallbackStep,
         CallbackEnds, TimerExpires, TakeOff, RunCallback, AddEventCallback, FanOut, FreeArg,
         ResetSlot, vars, callerVars, TypeOK
    <2>4. ASSUME NEW c \in Callers, NEW i \in EnableArgs, EnableSystemTimeEvent(c, i)
          PROVE  t \notin armed'
      <3>1. armed' = armed /\ (Adding(t)' => Adding(t) \/ t \notin armed)
        BY <1>0, <2>4 DEF EnableSystemTimeEvent, event_pending, Adding, TypeOK
      <3> QED
        BY <1>2, <2>1, <3>1
    <2>5. ASSUME NEW c \in Callers, EnableReturns(c) PROVE t \notin armed'
      <3>1. PICK d \in Callers : caller'[d] = "event_add" /\ timer'[d] = t
        BY <1>2 DEF Adding
      <3>2. d # c
        BY <1>0, <2>5, <3>1 DEF EnableReturns, TypeOK
      <3>3. caller[d] = "event_add" /\ caller[c] = "event_add"
        BY <1>0, <2>5, <3>1, <3>2 DEF EnableReturns, TypeOK
      <3> QED
        BY <1>0, <3>2, <3>3 DEF MutexInv, InLibevent
    <2> QED
      BY <1>2, <2>1, <2>2, <2>3, <2>4, <2>5 DEF Next, CallerStep
  <1>3. ASSUME NEW t \in Timers, Orphaned(t)' PROVE (\E i \in posted : EvType[i] = t)'
    <2>1. CASE Orphaned(t)
      BY <2>1, SharedStays DEF EmptyInv
    <2>2. CASE ~Orphaned(t)
      <3>1. ResetSlot /\ current = t /\ looper = "reset"
        BY <1>3, <2>2, OrphanStep
      <3>2. info_arg \in posted /\ EvType[info_arg] = t
        BY <3>1, ServedSlot
      <3> QED
        BY <3>2, SharedStays
    <2> QED
      BY <2>1, <2>2
  <1> QED
    BY <1>1, <1>2, <1>3 DEF EmptyInv

\* A timer whose event is on its way has an argument in its slot, or had one:
\* a second info that comes along makes it a shared one.
LEMMA EngagedMeans ==
    ASSUME CoreInv, EmptyInv, Running, NEW t \in Timers, Engaged(t)
    PROVE  \/ Orphaned(t)
           \/ ev_arg[t] \in used /\ EvType[ev_arg[t]] = t
  <1>1. ev_arg[t] # NULL \/ Orphaned(t)
    BY DEF Engaged, Orphaned, Fired, EmptyInv
  <1>2. t \in Slots /\ LooperInv /\ FreshInv
    BY SlotFacts DEF CoreInv, TypeInv
  <1>3. ev_arg[t] # NULL => ev_arg[t] \in used
    BY <1>2 DEF FreshInv
  <1>4. ev_arg[t] # NULL => EvType[ev_arg[t]] = t
    BY <1>2 DEF LooperInv
  <1> QED
    BY <1>1, <1>3, <1>4

LEMMA RearmedStep ==
    CoreInv /\ EmptyInv /\ RearmedInv /\ [Next]_vars => RearmedInv'
  <1> SUFFICES ASSUME CoreInv, EmptyInv, RearmedInv, [Next]_vars,
                      NEW t \in Timers, Rearmed(t)'
               PROVE  SharedTimer(t)'
    BY DEF RearmedInv, Timers, Slots, IsTimer
  <1>0. TypeOK /\ LooperInv /\ MutexInv /\ HeldInv /\ FreshInv /\ LiveInv
    BY DEF CoreInv, TypeInv
  <1>a. Rearmed(t) => SharedTimer(t)'
    BY SharedStays DEF RearmedInv
  <1> USE SlotFacts
  <1>1. ASSUME (t \in armed)' => t \in armed, Contains(active, t)' => Contains(active, t),
               ev_arg'[t] = NULL => ev_arg[t] = NULL,
               Activating(t)' => Activating(t), Adding(t)' => Adding(t),
               (current = t /\ looper \in {"taken", "callback", "reset"})'
                   => current = t /\ looper \in {"taken", "callback", "reset"},
               (current = t /\ looper = "taken")' => current = t /\ looper = "taken"
        PROVE  Rearmed(t)
    BY <1>1 DEF Rearmed, Orphaned, Fired, Engaged
  <1>2. ASSUME \/ \E c \in Callers : SignalDispatcher(c)
               \/ \E c \in Callers, i \in SendArgs : SendEvent(c, i)
               \/ DispatcherLocks \/ DropUnknown \/ IndexPastSlots \/ SkipBusy
               \/ EndScan \/ SpuriousWakeup \/ UNCHANGED vars
        PROVE  Rearmed(t)
    <2>1. UNCHANGED <<ev_arg, active, armed, looper, current>>
      BY <1>2 DEF SignalDispatcher, SendEvent, DispatcherLocks, DropUnknown, IndexPastSlots,
         SkipBusy, EndScan, SpuriousWakeup, vars, eventVars, looperVars
    <2>2. Adding(t)' => Adding(t)
      BY <1>0, <1>2 DEF Adding, SignalDispatcher, SendEvent, DispatcherLocks, DropUnknown,
         IndexPastSlots, SkipBusy, EndScan, SpuriousWakeup, vars, callerVars, TypeOK
    <2>3. ~FillSlot /\ ~Activate
      BY <1>2 DEF FillSlot, Scanning, Activate, SignalDispatcher, Wake, SendEvent,
         DispatcherLocks, DropUnknown, IndexPastSlots, SkipBusy, EndScan, SpuriousWakeup,
         vars, dispatcherVars
    <2> QED
      BY <1>0, <1>1, <2>1, <2>2, <2>3, ActivatingStays
  <1>3. ASSUME NEW c \in Callers, NEW i \in EnableArgs, EnableSystemTimeEvent(c, i)
        PROVE  SharedTimer(t)'
    <2>1. /\ UNCHANGED <<active, armed, looper, current>> /\ Running /\ Free
          /\ i \in Infos /\ i \notin used /\ used' = used \cup {i}
          /\ (Activating(t)' <=> Activating(t))
      BY <1>3, QuietStep, DispatchAssumption DEF EnableSystemTimeEvent, looperVars, Quiet
    <2>2. CASE UNCHANGED <<ev_arg, caller, timer>>
      BY <1>1, <1>a, <2>1, <2>2 DEF Adding
    <2>3. CASE /\ EvType[i] \in Timers /\ ev_arg' = [ev_arg EXCEPT ![EvType[i]] = i]
               /\ caller' = [caller EXCEPT ![c] = "event_add"]
               /\ timer' = [timer EXCEPT ![c] = EvType[i]]
      <3>1. CASE EvType[i] # t
        <4>1. ev_arg'[t] = ev_arg[t] /\ (Adding(t)' => Adding(t))
          BY <1>0, <2>3, <3>1 DEF Adding, TypeOK
        <4> QED
          BY <1>1, <1>a, <2>1, <4>1
      <3>2. CASE EvType[i] = t /\ Engaged(t)
        <4>1. CASE Orphaned(t)
          BY <1>a, <4>1 DEF Rearmed
        <4>2. CASE ~Orphaned(t)
          <5>1. ev_arg[t] \in used /\ EvType[ev_arg[t]] = t
            BY <2>1, <3>2, <4>2, EngagedMeans
          <5> QED
            BY <2>1, <3>2, <5>1 DEF SharedTimer
        <4> QED
          BY <4>1, <4>2
      <3>3. CASE EvType[i] = t /\ ~Engaged(t)
        <4>1. ev_arg'[t] # NULL
          BY <1>0, <2>1, <2>3, <3>3 DEF TypeOK
        <4>2. Rearmed(t)
          BY <2>1, <3>3, <4>1 DEF Rearmed, Orphaned, Engaged
        <4> QED
          BY <1>a, <4>2
      <3> QED
        BY <3>1, <3>2, <3>3
    <2> QED
      BY <1>3, <2>2, <2>3 DEF EnableSystemTimeEvent, FillTimer
  <1>4. ASSUME NEW c \in Callers, EnableReturns(c) PROVE Rearmed(t)
    <2> DEFINE u == timer[c]
    <2>1. /\ caller[c] = "event_add" /\ event_add(u) /\ m_pEventMutex = c
          /\ UNCHANGED <<ev_arg, looper, current, dispatcher>> /\ armed' = armed \cup {u}
      BY <1>0, <1>4 DEF EnableReturns, event_add, MutexInv, InLibevent, looperVars, dispatcherVars
    <2>2. /\ \A x : Contains(active, x)' => Contains(active, x)
          /\ u \in Timers /\ ev_arg[u] # NULL
      BY <1>0, <2>1, ActiveAfter DEF LooperInv, HeldInv, InLibevent
    <2>3. ~Activating(t)'
      BY <1>0, <2>1 DEF MutexInv, Activating
    <2>4. Adding(t)' => Adding(t) /\ t # u
      <3>1. ASSUME NEW d \in Callers, caller'[d] = "event_add" PROVE FALSE
        <4>1. d # c /\ caller[d] = "event_add"
          BY <1>0, <1>4, <3>1 DEF EnableReturns, TypeOK
        <4> QED
          BY <1>0, <2>1, <4>1 DEF MutexInv, InLibevent
      <3> QED
        BY <3>1 DEF Adding
    <2>5. CASE t = u
      <3>1. Adding(t)
        BY <2>1, <2>5 DEF Adding
      <3> QED
        BY <2>1, <2>2, <2>3, <2>4, <2>5, <3>1 DEF Rearmed, Orphaned, Engaged
    <2>6. CASE t # u
      BY <1>1, <2>1, <2>2, <2>3, <2>4, <2>6
    <2> QED
      BY <2>5, <2>6
  <1>5. ASSUME \/ \E c \in Callers, u \in DisableArgs : DisableSystemTimeEvent(c, u)
               \/ \E c \in Callers : DisableReturns(c)
        PROVE  Rearmed(t)
    <2>1. UNCHANGED <<ev_arg, looper, current>> /\ (Activating(t)' => Activating(t))
      BY <1>5, QuietStep DEF DisableSystemTimeEvent, DisableReturns, looperVars, Quiet
    <2>2. UNCHANGED <<active, armed>> \/ \E u : event_del(u)
      BY <1>5 DEF DisableSystemTimeEvent, DisableReturns
    <2>3. Adding(t)' => Adding(t)
      BY <1>0, <1>5 DEF DisableSystemTimeEvent, DisableReturns, Adding, TypeOK
    <2>4. (Contains(active, t)' => Contains(active, t)) /\ (t \in armed' => t \in armed)
      BY <1>0, <2>2, ActiveAfter DEF LooperInv, event_del
    <2> QED
      BY <1>1, <2>1, <2>3, <2>4
  <1>6. ASSUME FillSlot PROVE Rearmed(t)
    <2> DEFINE i == m_vEventInfo[it]
               u == EvType[i]
    <2>1. /\ u \in Slots /\ ~Contains(active, u) /\ ev_arg[u] = NULL /\ i \in Infos /\ Running
          /\ ev_arg' = [ev_arg EXCEPT ![u] = i]
          /\ UNCHANGED <<active, armed, looper, current, caller, timer>>
          /\ (Activating(t)' => u = t)
      BY <1>0, <1>6, FillStep DEF FillSlot, Busy, Activating, looperVars, callerVars, queueVars
    <2> HIDE DEF i, u
    <2>2. CASE u # t
      <3>1. ev_arg'[t] = ev_arg[t]
        BY <1>0, <2>1, <2>2 DEF TypeOK
      <3> QED
        BY <1>1, <2>1, <2>2, <3>1 DEF Adding
    <2>3. CASE u = t
      <3>1. ev_arg'[t] # NULL /\ ~(current = t /\ looper \in {"callback", "reset"})
        BY <1>0, <2>1, <2>3 DEF TypeOK, EmptyInv
      <3> QED
        BY <2>1, <2>3, <3>1 DEF Rearmed, Orphaned, Engaged, Fired, Adding
    <2> QED
      BY <2>2, <2>3
  <1>7. ASSUME Activate PROVE Rearmed(t)
    <2> DEFINE u == EvType[m_vEventInfo[it]]
    <2>1. /\ u \in Slots /\ ev_arg[u] # NULL /\ event_active(u) /\ ~Activating(t)'
          /\ UNCHANGED <<ev_arg, armed, looper, current, caller, timer>>
          /\ (u = t => Activating(t))
      BY <1>0, <1>7, ActivatingFacts DEF Activate, Activating, looperVars, callerVars
    <2>2. dispatcher = "activate"
      BY <1>7 DEF Activate
    <2> HIDE DEF u
    <2>3. \A x : Contains(active, x)' <=> Contains(active, x) \/ x = u
      BY <1>0, <2>1, ActiveAfter DEF LooperInv
    <2>4. \A c \in Callers : caller[c] # "event_add"
      BY <1>0, <2>2 DEF MutexInv, InLibevent
    <2>5. ~Adding(t)'
      BY <2>1, <2>4 DEF Adding
    <2>6. CASE u # t
      BY <1>1, <2>1, <2>3, <2>5, <2>6
    <2>7. CASE u = t
      BY <2>1, <2>3, <2>5, <2>7 DEF Rearmed, Orphaned, Engaged, Fired
    <2> QED
      BY <2>6, <2>7
  <1>8. ASSUME NEW u \in Timers, TimerExpires(u) PROVE Rearmed(t)
    <2>1. \A x : Contains(active, x)' <=> Contains(active, x) \/ x = u
      BY <1>0, <1>8, ActiveAfter DEF TimerExpires, LooperInv
    <2>2. /\ looper = "idle" /\ u \in armed /\ armed' \subseteq armed
          /\ UNCHANGED <<ev_arg, looper, current>>
          /\ (Activating(t)' <=> Activating(t)) /\ (Adding(t)' <=> Adding(t))
      BY <1>8, QuietStep DEF TimerExpires, LeaveHeap, looperVars, callerVars, Adding,
         Quiet, LooperStep
    <2>3. CASE u # t
      BY <1>1, <2>1, <2>2, <2>3
    <2>4. CASE u = t
      BY <2>2, <2>4 DEF Rearmed, Orphaned, Engaged, Fired, EmptyInv
    <2> QED
      BY <2>3, <2>4
  <1>9. ASSUME TakeOff PROVE Rearmed(t)
    <2> DEFINE u == Head(active)
    <2>1. /\ active \in Seq(Slots) /\ active # <<>> /\ active' = Tail(active)
          /\ current' = u /\ armed' = armed \ {u} /\ looper = "idle" /\ looper' = "taken"
          /\ ev_arg' = ev_arg /\ (Adding(t)' <=> Adding(t))
      BY <1>0, <1>9 DEF TakeOff, TypeOK, LeaveHeap, callerVars, Adding
    <2>2. u = active[1] /\ 1 \in DOMAIN active
      BY <2>1
    <2>3. Contains(active, u) /\ \A x : Contains(active, x)' <=> Contains(active, x) /\ x # u
      BY <1>0, <2>1, <2>2, TailDistinct DEF LooperInv, Contains
    <2>4. Activating(t)' <=> Activating(t)
      BY <1>9, QuietStep DEF Quiet, LooperStep, CallbackStep
    <2> HIDE DEF u
    <2> QED
      BY <2>1, <2>3, <2>4 DEF Rearmed, Orphaned, Engaged, Fired
  <1>10. ASSUME RunCallback \/ FanOut \/ AddEventCallback \/ FreeArg PROVE Rearmed(t)
    <2>1. UNCHANGED <<ev_arg, active, armed>> /\ (Activating(t)' => Activating(t))
      BY <1>10, QuietStep DEF RunCallback, FanOut, AddEventCallback, FreeArg, eventVars,
         Quiet, LooperStep, CallbackStep
    <2>2. Adding(t)' => Adding(t)
      BY <1>10 DEF RunCallback, FanOut, AddEventCallback, FreeArg, CallbackEnds, callerVars, Adding
    <2>3. /\ (current = t /\ looper \in {"taken", "callback", "reset"})'
                 => current = t /\ looper \in {"taken", "callback", "reset"}
          /\ looper' # "taken"
      BY <1>10 DEF RunCallback, FanOut, AddEventCallback, FreeArg, CallbackEnds
    <2> QED
      BY <1>1, <2>1, <2>2, <2>3
  <1>11. ASSUME ResetSlot PROVE Rearmed(t)
    <2>1. /\ current \in Slots /\ looper = "reset" /\ looper' = "free"
          /\ ev_arg' = [ev_arg EXCEPT ![current] = NULL]
          /\ UNCHANGED <<active, armed, current, caller, timer>>
      BY <1>11, ServedSlot DEF ResetSlot, callerVars
    <2>2. Activating(t)' <=> Activating(t)
      BY <1>11, QuietStep DEF Quiet, LooperStep
    <2>3. CASE current # t
      <3>1. ev_arg'[t] = ev_arg[t]
        BY <1>0, <2>1, <2>3 DEF TypeOK
      <3> QED
        BY <1>1, <2>1, <2>2, <2>3, <3>1 DEF Adding
    <2>4. CASE current = t
      BY <2>1, <2>2, <2>4 DEF Rearmed, Orphaned, Engaged, Fired, Adding
    <2> QED
      BY <2>3, <2>4
  <1> QED
    BY <1>a, <1>2, <1>3, <1>4, <1>5, <1>6, <1>7, <1>8, <1>9, <1>10, <1>11
       DEF Next, CallerStep, DispatcherStep, ScanStep, LooperStep, CallbackStep

LEMMA RearmedInvariant == Spec => [](EmptyInv /\ RearmedInv)
  <1>1. Init => EmptyInv /\ RearmedInv
    BY DEF Init, EmptyInv, RearmedInv, Rearmed, Orphaned, Fired, Engaged, Adding, Activating,
       Contains
  <1> QED
    BY <1>1, EmptyStep, RearmedStep, CoreInvariant, PTL DEF Spec

\* The one way a timer that will fire loses its argument, for any number of
\* timers and callers: the callback resets the slot without looking whether the
\* timer has been armed or activated again (mainCallBackFunction), which it is
\* only if a second info uses it (EnableSystemTimeEvent, SendEvent).
THEOREM OrphansComeFromResets == Spec => OrphanedByReset
  <1>1. ASSUME CoreInv, RearmedInv, [Next]_vars, NEW t \in Timers, Orphaned(t)', ~Orphaned(t)
        PROVE  looper = "reset" /\ current = t /\ SharedTimer(t)
    <2>1. looper = "reset" /\ current = t /\ (t \in armed \/ Contains(active, t))
      BY <1>1, OrphanStep
    <2>2. Rearmed(t)
      BY <2>1 DEF Rearmed
    <2> QED
      BY <1>1, <2>1, <2>2 DEF RearmedInv
  <1>2. CoreInv /\ RearmedInv /\ [Next]_vars =>
            [\A t \in Timers : Orphaned(t)' /\ ~Orphaned(t) =>
                looper = "reset" /\ current = t /\ SharedTimer(t)]_vars
    BY <1>1
  <1> QED
    BY <1>2, CoreInvariant, RearmedInvariant, PTL DEF Spec, OrphanedByReset

-----------------------------------------------------------------------------
(* What it takes to fault.                                                 *)

LEMMA FaultStep ==
    CoreInv /\ EmptyInv /\ RearmedInv /\ FaultsExplained /\ [Next]_vars => FaultsExplained'
  <1> SUFFICES ASSUME CoreInv, EmptyInv, RearmedInv, FaultsExplained, [Next]_vars
               PROVE  FaultsExplained'
    OBVIOUS
  <1>0. TypeOK /\ LooperInv /\ FreshInv /\ LiveInv
    BY DEF CoreInv, TypeInv
  <1>1. ASSUME fault' = "none" PROVE FaultsExplained'
    BY <1>1 DEF FaultsExplained
  <1>2. CASE UNCHANGED vars
    BY <1>2 DEF vars, callerVars, looperVars, FaultsExplained, SharedTimer
  <1>4. ASSUME DropUnknown \/ IndexPastSlots PROVE FaultsExplained'
    <2>1. Scanning /\ used' = used
      BY <1>4 DEF DropUnknown, IndexPastSlots, callerVars
    <2>2. m_vEventInfo[it] \in Infos /\ m_vEventInfo[it] \in used
      BY <1>0, <2>1, ScannedInfo DEF FreshInv
    <2> QED
      BY <1>4, <2>1, <2>2 DEF DropUnknown, IndexPastSlots, FaultsExplained
  <1>5. ASSUME NEW c \in Callers, NEW i \in EnableArgs, EnableSystemTimeEvent(c, i)
        PROVE  FaultsExplained'
    <2>1. i \in used' /\ Running
      BY <1>5 DEF EnableSystemTimeEvent
    <2>2. CASE EvType[i] = EVENT_MAX /\ fault' = "oob"
      BY <2>1, <2>2 DEF FaultsExplained
    <2>3. CASE fault' = fault
      BY <1>1, <2>1, <2>3 DEF Running
    <2> QED
      BY <1>5, <2>2, <2>3 DEF EnableSystemTimeEvent
  <1>6. ASSUME NEW c \in Callers, NEW t \in DisableArgs, DisableSystemTimeEvent(c, t)
        PROVE  FaultsExplained'
    <2>1. CASE t = EVENT_MAX /\ fault' = "oob"
      BY <2>1 DEF FaultsExplained
    <2>2. CASE fault' = fault /\ Running
      BY <1>1, <2>2 DEF Running
    <2> QED
      BY <1>6, <2>1, <2>2 DEF DisableSystemTimeEvent
  <1>7. ASSUME RunCallback PROVE FaultsExplained'
    <2>1. /\ current \in Slots /\ looper = "taken" /\ UNCHANGED <<current, used, posted>>
          /\ fault' = IF ev_arg[current] = NULL THEN "null_arg"
                      ELSE IF ev_arg[current] \in freed THEN "freed_arg" ELSE "none"
      BY <1>0, <1>7 DEF RunCallback, LooperInv, TypeOK, callerVars
    <2>2. Fired(current) /\ ~CallbackRuns(current)
      BY <2>1 DEF Fired, CallbackRuns
    <2>3. ev_arg[current] \notin freed \/ ev_arg[current] = NULL
      BY <1>0, <2>1, <2>2, SendOnlyFacts DEF LiveInv, SlotInv, TimerInv
    <2>4. ev_arg[current] = NULL => current \in Timers
      BY <1>0, <2>1, <2>2, SendOnlyFacts DEF LiveInv, SlotInv
    <2>5. ev_arg[current] = NULL =>
              SharedTimer(current) /\ \E i \in posted : EvType[i] = current
      BY <2>2, <2>4 DEF EmptyInv, RearmedInv, Rearmed, Orphaned
    <2> QED
      BY <2>1, <2>3, <2>4, <2>5 DEF FaultsExplained, SharedTimer, Timers, Slots, IsTimer
  <1>8. ASSUME \/ \E c \in Callers : SignalDispatcher(c) \/ EnableReturns(c) \/ DisableReturns(c)
               \/ \E c \in Callers, i \in SendArgs : SendEvent(c, i)
               \/ DispatcherLocks \/ SpuriousWakeup \/ SkipBusy \/ FillSlot \/ Activate
               \/ EndScan \/ \E t \in Timers : TimerExpires(t)
               \/ TakeOff \/ AddEventCallback \/ FanOut \/ ResetSlot \/ FreeArg
        PROVE  fault' = "none"
    BY <1>8 DEF SignalDispatcher, EnableReturns, DisableReturns, SendEvent, DispatcherLocks,
       SpuriousWakeup, SkipBusy, FillSlot, Activate, EndScan, TimerExpires, TakeOff,
       AddEventCallback, FanOut, ResetSlot, FreeArg, Running
  <1> QED
    BY <1>1, <1>2, <1>4, <1>5, <1>6, <1>7, <1>8
       DEF Next, CallerStep, DispatcherStep, ScanStep, LooperStep, CallbackStep

\* Every fault has its cause, and a freed argument is never touched, for any
\* number of callers and whatever they call (EventDispatcher, Enable- and
\* DisableSystemTimeEvent, mainCallBackFunction).
THEOREM FaultsHaveCauses == Spec => []FaultsExplained
  <1>1. Init => FaultsExplained
    BY DEF Init, FaultsExplained
  <1> QED
    BY <1>1, FaultStep, CoreInvariant, RearmedInvariant, PTL DEF Spec

-----------------------------------------------------------------------------
(* A wedged service stays wedged.                                          *)

\* A caller that holds the mutex and is not in libevent keeps both: no step
\* releases the mutex or moves the caller.
LEMMA LeakStays ==
    ASSUME TypeOK, MutexInv, Next, NEW c \in Callers, m_pEventMutex = c, ~InLibevent(c)
    PROVE  m_pEventMutex' = c /\ ~InLibevent(c)'
  <1> USE SlotFacts DEF MutexInv, InLibevent, Free
  <1>1. ASSUME NEW d \in Callers, CallerStep(d) PROVE m_pEventMutex' = c /\ ~InLibevent(c)'
    <2>1. SignalDispatcher(d)
      BY <1>1 DEF CallerStep, SendEvent, EnableSystemTimeEvent, DisableSystemTimeEvent,
         EnableReturns, DisableReturns, WaitOver
    <2> QED
      BY <2>1 DEF SignalDispatcher, TypeOK
  <1>2. CASE DispatcherStep \/ SpuriousWakeup
    BY <1>2 DEF DispatcherStep, DispatcherLocks, ScanStep, DropUnknown, IndexPastSlots,
       SkipBusy, FillSlot, Activate, EndScan, Scanning, SpuriousWakeup, callerVars
  <1>3. CASE LooperStep
    BY <1>3 DEF LooperStep, CallbackStep, TimerExpires, TakeOff, RunCallback,
       AddEventCallback, FanOut, FreeArg, ResetSlot, CallbackEnds, callerVars
  <1> QED
    BY <1>1, <1>2, <1>3 DEF Next

\* A callback that waits for the mutex, held by the thread that waits for it.
LEMMA EmbraceStays ==
    ASSUME TypeOK, MutexInv, Next, NEW c \in Callers, looper = "reset",
           caller[c] = "event_del", timer[c] = current
    PROVE  /\ looper' = "reset" /\ current' = current
           /\ caller'[c] = "event_del" /\ timer'[c] = timer[c]
  <1> USE SlotFacts DEF InLibevent, Free
  <1>0. m_pEventMutex = c
    BY DEF MutexInv
  <1>1. ASSUME NEW d \in Callers, CallerStep(d)
        PROVE  /\ UNCHANGED <<looper, current>>
               /\ caller'[c] = caller[c] /\ timer'[c] = timer[c]
    <2>1. SignalDispatcher(d)
      BY <1>0, <1>1 DEF CallerStep, SendEvent, EnableSystemTimeEvent, DisableSystemTimeEvent,
         EnableReturns, DisableReturns, WaitOver, MutexInv
    <2> QED
      BY <2>1 DEF SignalDispatcher, looperVars, TypeOK
  <1>2. CASE DispatcherStep \/ SpuriousWakeup
    BY <1>0, <1>2 DEF DispatcherStep, DispatcherLocks, ScanStep, DropUnknown, IndexPastSlots,
       SkipBusy, FillSlot, Activate, EndScan, SpuriousWakeup, looperVars, callerVars
  <1>3. CASE LooperStep
    BY <1>0, <1>3 DEF LooperStep, CallbackStep, TimerExpires, TakeOff, RunCallback,
       AddEventCallback, FanOut, FreeArg, ResetSlot
  <1> QED
    BY <1>1, <1>2, <1>3 DEF Next

LEMMA WedgedStep == CoreInv /\ [Next]_vars /\ Wedged => Wedged'
  <1> SUFFICES ASSUME TypeOK, MutexInv, [Next]_vars, Wedged PROVE Wedged'
    BY DEF CoreInv, TypeInv
  <1> USE DEF Wedged
  <1>1. CASE UNCHANGED vars
    BY <1>1 DEF MutexLeaked, InLibevent, DeadlyEmbrace, vars, looperVars, callerVars
  <1>2. CASE fault # "none"
    <2>1. ~Next
      BY <1>2 DEF Running, Next, CallerStep, DispatcherStep, ScanStep, LooperStep, CallbackStep,
         SendEvent, EnableSystemTimeEvent, EnableReturns, DisableSystemTimeEvent,
         SignalDispatcher, DisableReturns, DispatcherLocks, DropUnknown, IndexPastSlots,
         SkipBusy, FillSlot, Activate, EndScan, SpuriousWakeup, TimerExpires, TakeOff,
         RunCallback, AddEventCallback, FanOut, ResetSlot, FreeArg
    <2> QED
      BY <1>1, <2>1
  <1>3. CASE MutexLeaked /\ Next
    BY <1>3, LeakStays DEF MutexLeaked
  <1>4. CASE DeadlyEmbrace /\ Next
    <2>1. PICK c \in Callers : caller[c] = "event_del" /\ timer[c] = current
      BY <1>4 DEF DeadlyEmbrace
    <2>2. looper = "reset"
      BY <1>4 DEF DeadlyEmbrace
    <2>3. /\ looper' = "reset" /\ current' = current
          /\ caller'[c] = "event_del" /\ timer'[c] = timer[c]
      BY <1>4, <2>1, <2>2, EmbraceStays
    <2> QED
      BY <2>1, <2>3 DEF DeadlyEmbrace
  <1> QED
    BY <1>1, <1>2, <1>3, <1>4

\* A leaked mutex, or an event_del that waits for a callback that waits for the
\* mutex, is for ever: no call and no thread of the code ends it.
THEOREM WedgedIsForEver == Spec => WedgedForever
  <1>1. CoreInv /\ [Next]_vars => [Wedged => Wedged']_vars
    BY WedgedStep
  <1> QED
    BY <1>1, CoreInvariant, PTL DEF Spec, WedgedForever

-----------------------------------------------------------------------------
(* Nothing else stops the service.                                         *)

\* The dispatcher sleeps on a queued event only until a signal that is under
\* way.
WakeInv ==
    dispatcher = "waiting" /\ m_vEventInfo # <<>> =>
        \E c \in Callers : caller[c] = "signal"

LEMMA WakeStep == TypeInv /\ WakeInv /\ [Next]_vars => WakeInv'
  <1> SUFFICES ASSUME TypeInv, WakeInv, [Next]_vars PROVE WakeInv'
    OBVIOUS
  <1>0. TypeOK
    BY DEF TypeInv
  <1> USE DEF WakeInv
  <1>1. ASSUME NEW c \in Callers, NEW i \in SendArgs, SendEvent(c, i) PROVE WakeInv'
    BY <1>0, <1>1 DEF SendEvent, TypeOK
  <1>2. ASSUME NEW c \in Callers, SignalDispatcher(c) PROVE WakeInv'
    BY <1>0, <1>2 DEF SignalDispatcher, Wake, TypeOK
  <1>3. ASSUME NEW c \in Callers,
               \/ \E i \in EnableArgs : EnableSystemTimeEvent(c, i)
               \/ \E t \in DisableArgs : DisableSystemTimeEvent(c, t)
               \/ EnableReturns(c) \/ DisableReturns(c)
        PROVE  WakeInv'
    <2>1. UNCHANGED <<m_vEventInfo, dispatcher>>
      BY <1>3 DEF EnableSystemTimeEvent, DisableSystemTimeEvent, EnableReturns,
         DisableReturns, queueVars, dispatcherVars
    <2>2. \A d \in Callers : caller[d] = "signal" => caller'[d] = "signal"
      BY <1>0, <1>3 DEF EnableSystemTimeEvent, DisableSystemTimeEvent, EnableReturns,
         DisableReturns, WaitOver, TypeOK
    <2> QED
      BY <2>1, <2>2
  <1>6. CASE DispatcherLocks
    BY <1>6 DEF DispatcherLocks, queueVars, callerVars
  <1>7. CASE ScanStep \/ SpuriousWakeup
    BY <1>7 DEF ScanStep, DropUnknown, IndexPastSlots, SkipBusy, FillSlot, Activate, EndScan,
       Scanning, SpuriousWakeup, dispatcherVars
  <1>9. CASE LooperStep
    <2>1. UNCHANGED <<m_vEventInfo, dispatcher>>
      BY <1>9 DEF LooperStep, TimerExpires, CallbackStep, TakeOff, RunCallback,
         AddEventCallback, FanOut, FreeArg, ResetSlot, queueVars, dispatcherVars
    <2>2. \A d \in Callers : caller[d] = "signal" => caller'[d] = "signal"
      BY <1>9 DEF LooperStep, TimerExpires, CallbackStep, TakeOff, RunCallback,
         AddEventCallback, FanOut, FreeArg, ResetSlot, CallbackEnds, callerVars
    <2> QED
      BY <2>1, <2>2
  <1>10. CASE UNCHANGED vars
    BY <1>10 DEF vars, queueVars, dispatcherVars, callerVars
  <1> QED
    BY <1>1, <1>2, <1>3, <1>6, <1>7, <1>9, <1>10
       DEF Next, CallerStep, DispatcherStep

LEMMA NobodyWaits == TypeInv /\ WakeInv => SomeoneGoesOn
  <1> SUFFICES ASSUME TypeInv, WakeInv, ~Wedged,
                      ~DispatcherGoesOn, ~LooperGoesOn,
                      \A c \in Callers : ~CallerGoesOn(c)
               PROVE  NothingToDo
    BY DEF SomeoneGoesOn
  <1>0. /\ TypeOK /\ LooperInv /\ MutexInv /\ HeldInv
        /\ NULL \notin Callers /\ NULL \notin Timers
    BY SlotFacts, DispatchAssumption DEF TypeInv
  <1>1. \A c \in Callers : caller[c] = "idle" \/ (caller[c] = "event_del" /\ current = timer[c])
    BY <1>0 DEF CallerGoesOn, TypeOK, HeldInv
  <1>2. looper = "idle" \/ (looper = "reset" /\ ~Free)
    BY <1>0 DEF LooperGoesOn, TypeOK
  <1>3. ASSUME ~Free PROVE FALSE
    <2>1. m_pEventMutex # Dispatcher
      BY <1>0 DEF MutexInv, DispatcherGoesOn
    <2>2. PICK c \in Callers : m_pEventMutex = c
      BY <1>0, <1>3, <2>1 DEF TypeOK, Free
    <2>3. InLibevent(c)
      BY <2>2 DEF Wedged, MutexLeaked
    <2>4. caller[c] = "event_del" /\ current = timer[c] /\ timer[c] \in Timers
      BY <1>0, <1>1, <2>3 DEF InLibevent, HeldInv
    <2>5. looper = "reset"
      BY <1>0, <1>2, <2>4 DEF LooperInv
    <2> QED
      BY <2>4, <2>5 DEF Wedged, DeadlyEmbrace
  <1>4. looper = "idle" /\ active = <<>> /\ armed = {}
    BY <1>2, <1>3 DEF LooperGoesOn
  <1>5. \A c \in Callers : caller[c] = "idle"
    BY <1>0, <1>1, <1>3 DEF MutexInv, InLibevent, Free
  <1>6. dispatcher = "waiting"
    BY <1>0, <1>3 DEF DispatcherGoesOn, TypeOK
  <1>7. m_vEventInfo = <<>>
    BY <1>5, <1>6 DEF WakeInv
  <1> QED
    BY <1>4, <1>5, <1>6, <1>7 DEF NothingToDo

LEMMA WakeInvariant == Spec => [](TypeInv /\ WakeInv)
  <1>1. Init => WakeInv
    BY DEF Init, WakeInv
  <1> QED
    BY <1>1, TypeInit, BasicStep, WakeStep, PTL DEF Spec

\* Whatever is sent, started and stopped, the service that has something to do
\* has a thread that does it, until it is wedged: no wakeup of the dispatcher is
\* lost, and the mutex, the signal and event_del's wait close no other circle.
THEOREM ServiceGoesOn == Spec => []SomeoneGoesOn
  BY WakeInvariant, NobodyWaits, PTL
=============================================================================
