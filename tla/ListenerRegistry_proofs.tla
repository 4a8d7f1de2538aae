----------------------- MODULE ListenerRegistry_proofs -----------------------
(***************************************************************************)
(* Proofs about ListenerRegistry for any listeners, processes, calls and   *)
(* infos and number of events: types, who holds which of the three kinds   *)
(* of mutex, that a fan-out is a snapshot of its list, that the registry   *)
(* implements EventBroadcast, that only a death ends the embrace of a      *)
(* collection and an OnEvent, and, by counting entries, death recipients   *)
(* and collections, that a listener has one death recipient per entry and  *)
(* that the collections suffice.                                           *)
(***************************************************************************)
EXTENDS ListenerRegistry, SequenceLemmas

-----------------------------------------------------------------------------
(* Types.                                                                  *)

ListType == m_pLinstenerList \in [Events -> Seq(Listeners)]
RegistryType == links \in [Listeners -> Nat] /\ lost \in Nat
MutexType ==
    /\ m_pCbLinstenerMutex \in [Events -> {"looper", "gc", NULL}]
    /\ m_pEventMutex \in {"gc", NULL} /\ m_pDeathMutex \in {"gc", "post", NULL}
ClientType ==
    /\ alive \subseteq Processes /\ obitsSent \subseteq Listeners
    /\ calls \in [Calls -> {"new", "made", "done"}]
LooperType ==
    /\ looper \in {"idle", "lock", "loop", "reset"}
    /\ post \in Posts \cup {NULL} /\ posted \subseteq Posts /\ it \in Nat
    /\ it > 0 /\ (looper # "idle" => post \in Posts)
TaskType ==
    /\ tasks \subseteq Task /\ started \subseteq tasks
    /\ delivery \in {"none", "on_event", "sends", "unlock"}
    /\ delivering \in Task \cup {NULL}
CollectorType ==
    /\ collections \in Nat
    /\ collector \in {"idle", "lock_death", "lock_list", "sweep", "unlock"}
    /\ sweep \in Events \X (Nat \ {0})
FaultType == fault \in {"none", "oob", "null_name"}

Types == /\ ListType /\ RegistryType /\ MutexType /\ ClientType
         /\ LooperType /\ TaskType /\ CollectorType /\ FaultType

LEMMA RegistryFacts ==
    /\ EVENT_MAX \in Nat \ {0} /\ 0 \in Events /\ Events \subseteq Nat
    /\ \A c \in Calls : CallOf[c].event \in Nat /\ CallOf[c].listener \in Listeners
    /\ \A p \in Posts : PostOf[p].event \in Events
    /\ NULL \notin Posts /\ NULL # "gc" /\ NULL # "looper" /\ NULL # "post"
  BY RegistryAssumption DEF Events

LEMMA TypesImply == Types => TypeOK
  BY DEF Types, ListType, RegistryType, MutexType, ClientType, LooperType, TaskType,
     CollectorType, FaultType, TypeOK

LEMMA TypesInit == Init => Types
  <1> SUFFICES ASSUME Init PROVE Types
    OBVIOUS
  <1> USE RegistryFacts
  <1>1. ListType
    BY DEF Init, ListType
  <1>2. RegistryType /\ MutexType /\ ClientType
    BY DEF Init, RegistryType, MutexType, ClientType
  <1>3. LooperType /\ TaskType /\ FaultType
    BY DEF Init, LooperType, TaskType, FaultType
  <1>4. CollectorType
    BY DEF Init, CollectorType
  <1> QED
    BY <1>1, <1>2, <1>3, <1>4 DEF Types

\* Numbers that are only added to, or cut off at 0.
LEMMA NotNegative ==
    /\ \A x \in Int : Max({0, x}) \in Nat
    /\ \A l \in Listeners, n \in Nat : RegistryType => Unlinked(l, n) \in [Listeners -> Nat]
  <1>1. ASSUME NEW x \in Int PROVE Max({0, x}) \in Nat
    <2>1. \E m \in {0, x} : \A y \in {0, x} : m >= y
      <3>1. CASE x >= 0
        BY <3>1
      <3>2. CASE ~(x >= 0)
        BY <3>2
      <3> QED
        BY <3>1, <3>2
    <2>2. Max({0, x}) \in {0, x} /\ \A y \in {0, x} : Max({0, x}) >= y
      BY <2>1 DEF Max
    <2> QED
      BY <2>2
  <1>2. ASSUME NEW l \in Listeners, NEW n \in Nat, RegistryType
        PROVE  Unlinked(l, n) \in [Listeners -> Nat]
    BY <1>2 DEF RegistryType, Unlinked
  <1> QED
    BY <1>1, <1>2

LEMMA RegisterTypes ==
    ASSUME Types, NEW c \in Calls, RegisterEventListener(c)
    PROVE  Types'
  <1> DEFINE e == CallOf[c].event
             l == CallOf[c].listener
  <1> USE RegistryFacts DEF Types
  <1>1. /\ calls' = [calls EXCEPT ![c] = "done"]
        /\ UNCHANGED <<m_pCbLinstenerMutex, m_pEventMutex, m_pDeathMutex, alive,
                       obitsSent, looperVars, tasks, deliveryVars, collectorVars>>
    BY DEF RegisterEventListener, Call
  <1>2. MutexType' /\ ClientType' /\ LooperType' /\ TaskType' /\ CollectorType'
    BY <1>1 DEF MutexType, ClientType, LooperType, TaskType, CollectorType, looperVars,
       deliveryVars, collectorVars
  <1>3. CASE OutOfRange(e)
    <2>1. UNCHANGED registryVars /\ FaultType'
      BY <1>3 DEF OutOfRange, FaultType
    <2> QED
      BY <1>2, <2>1 DEF ListType, RegistryType, registryVars
  <1>4. CASE /\ e \in Events
             /\ m_pLinstenerList' = [m_pLinstenerList EXCEPT ![e] = Append(@, l)]
             /\ LinkListener(l)
             /\ lost' = IF l \in obitsSent THEN lost + 1 ELSE lost
             /\ UNCHANGED fault
    <2>1. ListType'
      BY <1>4 DEF ListType
    <2>2. RegistryType'
      BY <1>4 DEF RegistryType, LinkListener, linkToDeath
    <2> QED
      BY <1>2, <1>4, <2>1, <2>2 DEF FaultType
  <1> QED
    BY <1>3, <1>4 DEF RegisterEventListener

LEMMA UnregisterTypes ==
    ASSUME Types, NEW c \in Calls, UnregisterEventListener(c)
    PROVE  Types'
  <1> DEFINE e == CallOf[c].event
             l == CallOf[c].listener
             s == m_pLinstenerList[e]
             named == {k \in DOMAIN s : NameOf[s[k]] = NameOf[l]}
             gone == ErasedAt(Len(s), named)
             own == Cardinality({k \in gone : s[k] = l})
  <1> USE RegistryFacts DEF Types
  <1>1. /\ calls' = [calls EXCEPT ![c] = "done"]
        /\ UNCHANGED <<m_pCbLinstenerMutex, m_pEventMutex, m_pDeathMutex, alive,
                       obitsSent, looperVars, tasks, deliveryVars, collectorVars>>
    BY DEF UnregisterEventListener, Call
  <1>2. MutexType' /\ ClientType' /\ LooperType' /\ TaskType' /\ CollectorType'
    BY <1>1 DEF MutexType, ClientType, LooperType, TaskType, CollectorType, looperVars,
       deliveryVars, collectorVars
  <1>3. CASE OutOfRange(e)
    <2>1. UNCHANGED registryVars /\ FaultType'
      BY <1>3 DEF OutOfRange, FaultType
    <2> QED
      BY <1>2, <2>1 DEF ListType, RegistryType, registryVars
  <1>4. CASE fault' = "null_name" /\ UNCHANGED registryVars
    BY <1>2, <1>4 DEF ListType, RegistryType, registryVars, FaultType
  <1>5. CASE /\ e \in Events
             /\ m_pLinstenerList' = [m_pLinstenerList EXCEPT ![e] = Kept(s, gone)]
             /\ links' = Unlinked(l, Cardinality(gone))
             /\ lost' = lost + Max({0, links[l] - links'[l] - own})
             /\ UNCHANGED fault
    <2>0. e \in Events
      BY <1>5
    <2>1. s \in Seq(Listeners) /\ Len(s) \in Nat
      <3> HIDE DEF e
      <3> QED
        BY <2>0 DEF ListType
    <2>2. Kept(s, gone) \in Seq(Listeners)
      BY <2>1, KeptFacts
    <2>3. gone \in SUBSET (1..Len(s)) /\ {k \in gone : s[k] = l} \in SUBSET (1..Len(s))
      BY DEF ErasedAt
    <2> HIDE DEF s, gone
    <2>4. Cardinality(gone) \in Nat /\ own \in Nat
      BY <2>1, <2>3, FinitePart
    <2> HIDE DEF own
    <2>5. ListType'
      BY <1>5, <2>2 DEF ListType
    <2>6. links' \in [Listeners -> Nat]
      BY <1>5, <2>4, NotNegative
    <2>7. links[l] - links'[l] - own \in Int
      BY <2>4, <2>6 DEF RegistryType
    <2>8. lost' \in Nat
      BY <1>5, <2>7, NotNegative DEF RegistryType
    <2> QED
      BY <1>2, <1>5, <2>5, <2>6, <2>8 DEF FaultType, RegistryType
  <1> QED
    BY <1>3, <1>4, <1>5 DEF UnregisterEventListener

\* The types of the parts that a step of one kind of thread leaves alone.
LEMMA LooperTypes ==
    ASSUME Types, LooperStep \/ \E p \in Posts : ReadSize(p)
    PROVE  Types'
  <1> USE RegistryFacts DEF Types, LooperOnly, AtLooper
  <1>1. LooperOnly
    BY DEF LooperStep, LockList, PostToListener, EndLoop, ResetSlot, ReadSize
  <1>2. ListType' /\ RegistryType' /\ ClientType' /\ CollectorType'
    BY <1>1 DEF ListType, RegistryType, ClientType, CollectorType, registryVars, collectorVars
  <1>3. ASSUME NEW p \in Posts, ReadSize(p)
        PROVE  LooperType' /\ MutexType' /\ TaskType' /\ FaultType'
    BY <1>3 DEF ReadSize, LooperType, MutexType, TaskType, FaultType, deliveryVars
  <1>4. CASE LockList
    <2>1. LooperType' /\ TaskType' /\ FaultType'
      BY <1>4 DEF LockList, LooperType, TaskType, FaultType, deliveryVars
    <2>2. MutexType'
      BY <1>4 DEF LockList, MutexType
    <2> QED
      BY <1>2, <2>1, <2>2
  <1>5. CASE PostToListener
    <2> DEFINE s == m_pLinstenerList[PostOf[post].event]
    <2>1. post \in Posts /\ it \in Nat /\ it > 0 /\ it <= Len(s)
      BY <1>5 DEF PostToListener, LooperType
    <2>2. s \in Seq(Listeners)
      BY <2>1 DEF ListType
    <2>3. s[it] \in Listeners
      BY <2>1, <2>2
    <2>4. [post |-> post, listener |-> s[it], nth |-> it] \in Task
      BY <2>1, <2>3 DEF Task
    <2>5. TaskType'
      <3>1. UNCHANGED <<started, delivery, delivering>>
        BY <1>5 DEF PostToListener, deliveryVars
      <3>2. tasks \subseteq tasks' /\ tasks' \subseteq tasks \cup {[post |-> post, listener |-> s[it], nth |-> it]}
        BY <1>5 DEF PostToListener
      <3> QED
        BY <2>4, <3>1, <3>2 DEF TaskType
    <2>6. LooperType' /\ MutexType'
      BY <1>5, <2>1 DEF PostToListener, LooperType, MutexType
    <2>7. FaultType'
      BY <1>5 DEF PostToListener, FaultType
    <2> QED
      BY <1>2, <2>5, <2>6, <2>7
  <1>6. CASE EndLoop
    <2>1. LooperType' /\ TaskType' /\ FaultType'
      BY <1>6 DEF EndLoop, LooperType, TaskType, FaultType, deliveryVars
    <2>2. MutexType'
      BY <1>6 DEF EndLoop, UnlockList, MutexType
    <2> QED
      BY <1>2, <2>1, <2>2
  <1>7. CASE ResetSlot
    BY <1>2, <1>7 DEF ResetSlot, LooperType, MutexType, TaskType, FaultType, deliveryVars
  <1> QED
    BY <1>2, <1>3, <1>4, <1>5, <1>6, <1>7 DEF LooperStep

LEMMA DeliveryTypes ==
    ASSUME Types, DeliveryStep \/ \E t \in tasks : StartDelivery(t)
    PROVE  Types'
  <1> USE RegistryFacts DEF Types, DeliveryOnly
  <1>1. DeliveryOnly
    BY DEF DeliveryStep, OnEvent, HandlerSends, OnEventFails, EndDelivery, StartDelivery
  <1>2. /\ ListType' /\ RegistryType' /\ ClientType' /\ LooperType' /\ CollectorType'
        /\ FaultType'
    BY <1>1 DEF ListType, RegistryType, ClientType, LooperType, CollectorType, FaultType,
       registryVars, looperVars, collectorVars
  <1>3. ASSUME NEW t \in tasks, StartDelivery(t) PROVE TaskType' /\ MutexType'
    BY <1>3 DEF StartDelivery, TaskType, MutexType
  <1>4. ASSUME OnEvent \/ HandlerSends \/ OnEventFails \/ EndDelivery
        PROVE  TaskType' /\ MutexType'
    BY <1>4 DEF OnEvent, HandlerSends, OnEventFails, EndDelivery, TaskType, MutexType
  <1> QED
    BY <1>2, <1>3, <1>4 DEF DeliveryStep

LEMMA CollectorTypes ==
    ASSUME Types, CollectorStep
    PROVE  Types'
  <1> USE RegistryFacts DEF Types, CollectorOnly
  <1>1. CollectorOnly
    BY DEF CollectorStep, SweepStep, StartCollection, LockDeath, LockNextList, Collect,
       EndSweep, EndCollection
  <1>2. ClientType' /\ LooperType' /\ TaskType' /\ FaultType'
    BY <1>1 DEF ClientType, LooperType, TaskType, FaultType, looperVars, deliveryVars
  <1> DEFINE e == sweep[1]
             n == sweep[2]
  <1>3. e \in Events /\ n \in Nat /\ n > 0 /\ sweep = <<e, n>>
    BY DEF CollectorType
  <1> HIDE DEF e, n
  <1>4. CASE StartCollection \/ LockDeath
    <2>1. UNCHANGED registryVars /\ MutexType'
      BY <1>4 DEF StartCollection, LockDeath, MutexType
    <2>2. CollectorType'
      BY <1>4 DEF StartCollection, LockDeath, CollectorType
    <2> QED
      BY <1>2, <2>1, <2>2 DEF ListType, RegistryType, registryVars
  <1>5. CASE LockNextList
    <2>1. UNCHANGED registryVars /\ MutexType'
      BY <1>3, <1>5 DEF LockNextList, MutexType, e
    <2>2. CollectorType'
      BY <1>5 DEF LockNextList, CollectorType
    <2> QED
      BY <1>2, <2>1, <2>2 DEF ListType, RegistryType, registryVars
  <1>6. CASE Collect
    <2> DEFINE s == m_pLinstenerList[e]
    <2>1. s \in Seq(Listeners) /\ n <= Len(s)
      BY <1>3, <1>6 DEF Collect, ListType, e, n
    <2>2. s[n] \in Listeners
      BY <1>3, <2>1
    <2>3. MutexType' /\ CollectorType'
      BY <1>3, <1>6 DEF Collect, MutexType, CollectorType, e, n
    <2>4. CASE Dead(s[n])
      <3>1. /\ m_pLinstenerList' = [m_pLinstenerList EXCEPT ![e] = RemoveAt(s, n)]
            /\ links' = Unlinked(s[n], 1)
            /\ lost' = IF links[s[n]] > 0 THEN lost + 1 ELSE lost
        BY <1>6, <2>4 DEF Collect, e, n
      <3>2. RemoveAt(s, n) \in Seq(Listeners)
        BY <1>3, <2>1 DEF RemoveAt
      <3>3. ListType'
        BY <1>3, <3>1, <3>2 DEF ListType
      <3>4. RegistryType'
        BY <2>2, <3>1, NotNegative DEF RegistryType
      <3> QED
        BY <1>2, <2>3, <3>3, <3>4
    <2>5. CASE ~Dead(s[n])
      <3>1. UNCHANGED registryVars
        BY <1>6, <2>5 DEF Collect, e, n
      <3> QED
        BY <1>2, <2>3, <3>1 DEF ListType, RegistryType, registryVars
    <2> QED
      BY <2>4, <2>5
  <1>7. CASE EndSweep
    <2>1. UNCHANGED registryVars /\ MutexType'
      BY <1>3, <1>7 DEF EndSweep, MutexType, e
    <2>2. CASE MoreLists(e)
      <3>1. e + 1 \in Events
        BY <1>3, <2>2 DEF MoreLists, Events
      <3>2. sweep' = <<e + 1, 1>> /\ collector' = "lock_list" /\ collections' = collections
        BY <1>7, <2>2 DEF EndSweep, e
      <3>3. CollectorType'
        BY <3>1, <3>2 DEF CollectorType
      <3> QED
        BY <1>2, <2>1, <3>3 DEF ListType, RegistryType, registryVars
    <2>3. CASE ~MoreLists(e)
      <3>1. sweep' = sweep /\ collector' = "unlock" /\ collections' = collections
        BY <1>7, <2>3 DEF EndSweep, e
      <3>2. CollectorType'
        BY <3>1 DEF CollectorType
      <3> QED
        BY <1>2, <2>1, <3>2 DEF ListType, RegistryType, registryVars
    <2> QED
      BY <2>2, <2>3
  <1>8. CASE EndCollection
    <2>1. UNCHANGED registryVars /\ MutexType'
      BY <1>8 DEF EndCollection, UnlockDeath, MutexType
    <2>2. CollectorType'
      BY <1>8 DEF EndCollection, CollectorType
    <2> QED
      BY <1>2, <2>1, <2>2 DEF ListType, RegistryType, registryVars
  <1> QED
    BY <1>4, <1>5, <1>6, <1>7, <1>8 DEF CollectorStep, SweepStep

LEMMA ClientTypes ==
    ASSUME Types,
           \/ \E p \in Processes : Die(p)
           \/ \E c \in Calls : MakeCall(c)
           \/ \E l \in Listeners : sendObituary(l)
    PROVE  Types'
  <1> USE RegistryFacts DEF Types
  <1>1. ASSUME NEW p \in Processes, Die(p) PROVE Types'
    BY <1>1 DEF Die, ListType, RegistryType, MutexType, ClientType, LooperType, TaskType,
       CollectorType, FaultType, registryVars, looperVars, deliveryVars, collectorVars
  <1>2. ASSUME NEW c \in Calls, MakeCall(c) PROVE Types'
    BY <1>2 DEF MakeCall, ListType, RegistryType, MutexType, ClientType, LooperType, TaskType,
       CollectorType, FaultType, registryVars, looperVars, deliveryVars, collectorVars
  <1>3. ASSUME NEW l \in Listeners, sendObituary(l) PROVE Types'
    <2>1. RegistryType' /\ collections' \in Nat /\ obitsSent' \subseteq Listeners
      BY <1>3 DEF sendObituary, binderDied, RegistryType, CollectorType, ClientType
    <2>2. UNCHANGED <<m_pLinstenerList, m_pCbLinstenerMutex, m_pEventMutex, m_pDeathMutex, alive,
                      calls, looperVars, tasks, deliveryVars, collector, sweep, fault>>
      BY <1>3 DEF sendObituary
    <2> QED
      BY <2>1, <2>2 DEF ListType, MutexType, ClientType, LooperType, TaskType,
         CollectorType, FaultType, looperVars, deliveryVars
  <1> QED
    BY <1>1, <1>2, <1>3

LEMMA TypesStep == Types /\ [Next]_vars => Types'
  <1> SUFFICES ASSUME Types, [Next]_vars PROVE Types'
    OBVIOUS
  <1>1. CASE UNCHANGED vars
    BY <1>1 DEF Types, ListType, RegistryType, MutexType, ClientType, LooperType, TaskType,
       CollectorType, FaultType, vars, registryVars, looperVars, deliveryVars, collectorVars
  <1> QED
    BY <1>1, RegisterTypes, UnregisterTypes, LooperTypes, DeliveryTypes, CollectorTypes,
       ClientTypes DEF Next, ServiceStep

\* Every variable of ListenerRegistry keeps its type, whatever is registered,
\* unregistered and collected.
THEOREM RegistryTypeCorrect == Spec => []TypeOK
  BY TypesInit, TypesStep, TypesImply, PTL DEF Spec

-----------------------------------------------------------------------------
(* The mutexes.                                                            *)

LEMMA MutexInit == Init => MutexInv
  BY RegistryFacts DEF Init, MutexInv

LEMMA MutexStep == Types /\ MutexInv /\ [Next]_vars => MutexInv'
  <1> SUFFICES ASSUME Types, MutexInv, [Next]_vars PROVE MutexInv'
    OBVIOUS
  <1> USE RegistryFacts DEF Types, MutexType, MutexInv
  <1>1. ASSUME UNCHANGED <<m_pCbLinstenerMutex, m_pEventMutex, m_pDeathMutex, looperVars,
                           delivery, collector, sweep>>
        PROVE  MutexInv'
    BY <1>1 DEF looperVars
  <1>2. CASE UNCHANGED vars
    BY <1>1, <1>2 DEF vars, deliveryVars, collectorVars
  <1>3. ASSUME NEW p \in Processes, Die(p) PROVE MutexInv'
    BY <1>1, <1>3 DEF Die, deliveryVars, collectorVars
  <1>4. ASSUME NEW c \in Calls,
               MakeCall(c) \/ RegisterEventListener(c) \/ UnregisterEventListener(c)
        PROVE  MutexInv'
    BY <1>1, <1>4 DEF MakeCall, RegisterEventListener, UnregisterEventListener, Call,
       deliveryVars, collectorVars
  <1>5. ASSUME NEW l \in Listeners, sendObituary(l) PROVE MutexInv'
    BY <1>1, <1>5 DEF sendObituary, deliveryVars
  <1>6. ASSUME NEW p \in Posts, ReadSize(p) PROVE MutexInv'
    <2>1. /\ looper = "idle" /\ looper' \in {"reset", "lock"}
          /\ UNCHANGED <<m_pCbLinstenerMutex, m_pEventMutex, m_pDeathMutex, delivery,
                         collector, sweep>>
      BY <1>6 DEF ReadSize, AtLooper, LooperOnly, deliveryVars, collectorVars
    <2> QED
      BY <2>1
  <1>7. CASE LockList
    <2> DEFINE e == PostOf[post].event
    <2>1. /\ looper = "lock" /\ looper' = "loop" /\ post' = post /\ e \in Events
          /\ m_pCbLinstenerMutex[e] = NULL
          /\ m_pCbLinstenerMutex' = [m_pCbLinstenerMutex EXCEPT ![e] = "looper"]
          /\ UNCHANGED <<m_pEventMutex, m_pDeathMutex, delivery, collector, sweep>>
      BY <1>7 DEF LockList, AtLooper, LooperOnly, LooperType, deliveryVars, collectorVars
    <2> QED
      BY <2>1
  <1>8. CASE PostToListener
    <2>1. /\ looper' = looper /\ post' = post
          /\ UNCHANGED <<m_pCbLinstenerMutex, m_pEventMutex, m_pDeathMutex, delivery,
                         collector, sweep>>
      BY <1>8 DEF PostToListener, LooperOnly, deliveryVars, collectorVars
    <2> QED
      BY <2>1
  <1>9. CASE EndLoop
    <2> DEFINE e == PostOf[post].event
    <2>1. /\ looper = "loop" /\ looper' = "reset" /\ e \in Events
          /\ m_pCbLinstenerMutex' = [m_pCbLinstenerMutex EXCEPT ![e] = NULL]
          /\ UNCHANGED <<m_pEventMutex, m_pDeathMutex, delivery, collector, sweep>>
      BY <1>9 DEF EndLoop, UnlockList, AtLooper, LooperOnly, LooperType, deliveryVars,
         collectorVars
    <2> QED
      BY <2>1
  <1>10. CASE ResetSlot
    <2>1. /\ looper = "reset" /\ looper' = "idle"
          /\ UNCHANGED <<m_pCbLinstenerMutex, m_pEventMutex, m_pDeathMutex, delivery,
                         collector, sweep>>
      BY <1>10 DEF ResetSlot, AtLooper, LooperOnly, deliveryVars, collectorVars
    <2> QED
      BY <2>1
  <1>11. ASSUME NEW t \in tasks, StartDelivery(t) PROVE MutexInv'
    <2>1. /\ m_pDeathMutex = NULL /\ m_pDeathMutex' = "post"
          /\ delivery' \in {"unlock", "on_event"}
          /\ UNCHANGED <<m_pCbLinstenerMutex, m_pEventMutex, looper, post, collector, sweep>>
      BY <1>11 DEF StartDelivery, DeliveryOnly, looperVars, collectorVars
    <2> QED
      BY <2>1
  <1>12. CASE OnEvent \/ HandlerSends \/ OnEventFails
    <2>1. /\ delivery \in {"on_event", "sends"} /\ delivery' \in {"sends", "unlock"}
          /\ UNCHANGED <<m_pDeathMutex, m_pCbLinstenerMutex, m_pEventMutex, looper, post,
                         collector, sweep>>
      BY <1>12 DEF OnEvent, HandlerSends, OnEventFails, DeliveryOnly, looperVars, collectorVars
    <2> QED
      BY <2>1
  <1>13. CASE EndDelivery
    <2>1. /\ delivery = "unlock" /\ delivery' = "none" /\ m_pDeathMutex' = NULL
          /\ UNCHANGED <<m_pCbLinstenerMutex, m_pEventMutex, looper, post, collector, sweep>>
      BY <1>13 DEF EndDelivery, DeliveryOnly, looperVars, collectorVars
    <2> QED
      BY <2>1
  <1>14. CASE StartCollection \/ LockDeath
    <2>1. UNCHANGED <<m_pCbLinstenerMutex, looper, post, delivery, sweep>>
      BY <1>14 DEF StartCollection, LockDeath, CollectorOnly, looperVars, deliveryVars
    <2>2. CASE StartCollection
      BY <2>1, <2>2 DEF StartCollection
    <2>3. CASE LockDeath
      BY <2>1, <2>3 DEF LockDeath
    <2> QED
      BY <1>14, <2>2, <2>3
  <1>15. CASE LockNextList
    <2> DEFINE e == sweep[1]
    <2>1. /\ collector = "lock_list" /\ collector' = "sweep" /\ e \in Events
          /\ m_pCbLinstenerMutex[e] = NULL /\ sweep' = sweep
          /\ m_pCbLinstenerMutex' = [m_pCbLinstenerMutex EXCEPT ![e] = "gc"]
          /\ UNCHANGED <<m_pEventMutex, m_pDeathMutex, looper, post, delivery>>
      BY <1>15 DEF LockNextList, CollectorOnly, CollectorType, looperVars, deliveryVars
    <2> QED
      BY <2>1
  <1>16. CASE Collect
    <2>1. /\ collector' = collector /\ sweep'[1] = sweep[1]
          /\ UNCHANGED <<m_pCbLinstenerMutex, m_pEventMutex, m_pDeathMutex, looper, post, delivery>>
      BY <1>16 DEF Collect, CollectorOnly, looperVars, deliveryVars
    <2> QED
      BY <2>1
  <1>17. CASE EndSweep
    <2> DEFINE e == sweep[1]
    <2>1. /\ collector = "sweep" /\ collector' \in {"lock_list", "unlock"} /\ e \in Events
          /\ m_pCbLinstenerMutex' = [m_pCbLinstenerMutex EXCEPT ![e] = NULL]
          /\ UNCHANGED <<m_pEventMutex, m_pDeathMutex, looper, post, delivery>>
      BY <1>17 DEF EndSweep, CollectorOnly, CollectorType, looperVars, deliveryVars
    <2> QED
      BY <2>1
  <1>18. CASE EndCollection
    <2>1. /\ collector = "unlock" /\ collector' = "idle"
          /\ m_pEventMutex' = NULL /\ m_pDeathMutex' = NULL
          /\ UNCHANGED <<m_pCbLinstenerMutex, looper, post, delivery>>
      BY <1>18 DEF EndCollection, UnlockDeath, CollectorOnly, looperVars, deliveryVars
    <2> QED
      BY <2>1
  <1> QED
    BY <1>2, <1>3, <1>4, <1>5, <1>6, <1>7, <1>8, <1>9, <1>10, <1>11, <1>12, <1>13, <1>14,
       <1>15, <1>16, <1>17, <1>18 DEF Next, ServiceStep, LooperStep, DeliveryStep,
       CollectorStep, SweepStep

\* Whoever holds one of the three kinds of mutex is where its code holds it.
THEOREM RegistryMutualExclusion == Spec => []MutexInv
  BY TypesInit, TypesStep, MutexInit, MutexStep, PTL DEF Spec

LEMMA NobodyWaits == Types /\ MutexInv => SomeoneGoesOn
  <1> SUFFICES ASSUME Types, MutexInv, Running, ~Embrace, ~Unblocked PROVE Quiet
    BY DEF SomeoneGoesOn
  <1> USE RegistryFacts
  <1>1. /\ collector \in {"idle", "lock_death", "lock_list"}
        /\ looper \in {"idle", "lock", "reset"}
        /\ delivery \in {"none", "sends"}
    BY DEF Unblocked, LooperGoesOn, DeliveryGoesOn, CollectorGoesOn, Types, LooperType, TaskType,
       CollectorType
  <1>2. \A e \in Events : m_pCbLinstenerMutex[e] = NULL
    BY <1>1 DEF MutexInv, Types, MutexType
  <1>3. collector # "lock_list"
    BY <1>2 DEF Unblocked, CollectorGoesOn, Types, CollectorType
  <1>4. collector # "lock_death"
    <2> SUFFICES ASSUME collector = "lock_death" PROVE FALSE
      OBVIOUS
    <2>1. delivery = "none"
      BY <1>1 DEF Embrace
    <2>2. m_pDeathMutex = NULL
      BY <2>1 DEF MutexInv, Types, MutexType
    <2> QED
      BY <2>2 DEF Unblocked, CollectorGoesOn
  <1>5. collector = "idle" /\ m_pEventMutex = NULL
    BY <1>1, <1>3, <1>4 DEF MutexInv, Types, MutexType
  <1>6. looper = "idle"
    <2>1. looper # "reset"
      BY <1>5 DEF Unblocked, LooperGoesOn
    <2>2. looper = "lock" => PostOf[post].event \in Events
      BY RegistryAssumption DEF Types, LooperType
    <2> QED
      BY <1>1, <1>2, <2>1, <2>2 DEF Unblocked, LooperGoesOn
  <1>7. delivery = "none" /\ m_pDeathMutex = NULL
    <2>1. delivery = "none"
      BY <1>1, <1>5 DEF Unblocked, DeliveryGoesOn
    <2> QED
      BY <1>5, <2>1 DEF MutexInv, Types, MutexType
  <1>8. tasks = started
    BY <1>7 DEF Unblocked, DeliveryGoesOn
  <1>9. collections = 0
    BY <1>5 DEF Unblocked, CollectorGoesOn, Types, CollectorType
  <1>10. \A c \in Calls : calls[c] # "made"
    BY <1>2 DEF Unblocked, CallGoesOn
  <1> QED
    BY <1>5, <1>6, <1>7, <1>8, <1>9, <1>10 DEF Quiet

\* The locks are taken in no order that blocks all: outside the embrace, one of
\* the threads that have something to do does not wait for a mutex, whatever
\* the clients, their calls and their deaths.
THEOREM LocksLetSomeoneGoOn == Spec => []SomeoneGoesOn
  BY TypesInit, TypesStep, MutexInit, MutexStep, NobodyWaits, PTL DEF Spec

\* A collection and an OnEvent that are in each other's way stay so until the
\* process of the listener dies.
THEOREM EmbraceEndsWithDeath == Spec => EmbraceUntilDeath
  <1>1. ASSUME MutexInv, [Next]_vars, Embrace, ~Embrace'
        PROVE  Dead(delivering.listener)
    <2> USE <1>1 DEF MutexInv, Embrace
    <2>1. /\ collector = "lock_death" /\ delivery = "sends"
          /\ m_pEventMutex = "gc" /\ m_pDeathMutex = "post"
      OBVIOUS
    <2>2. \/ collector' # collector
          \/ delivery' # delivery
      OBVIOUS
    <2>3. ~LockDeath /\ ~HandlerSends
      BY <2>1, RegistryFacts DEF LockDeath, HandlerSends, SendEventProceeds
    <2>4. ASSUME NEW p \in Processes, Die(p) PROVE FALSE
      BY <2>2, <2>4 DEF Die, deliveryVars, collectorVars
    <2>5. ASSUME NEW c \in Calls,
                 MakeCall(c) \/ RegisterEventListener(c) \/ UnregisterEventListener(c)
          PROVE  FALSE
      BY <2>2, <2>5 DEF MakeCall, RegisterEventListener, UnregisterEventListener, Call,
         deliveryVars, collectorVars
    <2>6. ASSUME NEW l \in Listeners, sendObituary(l) PROVE FALSE
      BY <2>2, <2>6 DEF sendObituary, deliveryVars
    <2>7. ASSUME LooperStep \/ \E p \in Posts : ReadSize(p) PROVE FALSE
      BY <2>2, <2>7 DEF LooperStep, LockList, PostToListener, EndLoop, ResetSlot, ReadSize,
         LooperOnly, deliveryVars, collectorVars
    <2>8. ASSUME \/ \E t \in tasks : StartDelivery(t)
                 \/ OnEvent \/ EndDelivery
          PROVE  FALSE
      BY <2>1, <2>8, RegistryFacts DEF StartDelivery, OnEvent, EndDelivery
    <2>9. ASSUME StartCollection \/ LockNextList \/ SweepStep PROVE FALSE
      BY <2>1, <2>9 DEF StartCollection, LockNextList, SweepStep, Collect, EndSweep, EndCollection
    <2>10. ASSUME UNCHANGED vars PROVE FALSE
      BY <2>2, <2>10 DEF vars, deliveryVars, collectorVars
    <2>11. OnEventFails
      BY <2>3, <2>4, <2>5, <2>6, <2>7, <2>8, <2>9, <2>10 DEF Next, ServiceStep, DeliveryStep,
         CollectorStep
    <2> QED
      BY <2>11 DEF OnEventFails
  <1>2. MutexInv /\ [Next]_vars => [Embrace /\ ~Embrace' => Dead(delivering.listener)]_vars
    BY <1>1
  <1> QED
    BY <1>2, RegistryMutualExclusion, PTL DEF Spec, EmbraceUntilDeath

-----------------------------------------------------------------------------
(* The fan-out.                                                            *)

ListOf(p) == m_pLinstenerList[PostOf[p].event]
TasksOf(p) == {t \in tasks : t.post = p}
Passed == {[post |-> post, listener |-> ListOf(post)[k], nth |-> k] :
              k \in {j \in 1..(it - 1) : j \in DOMAIN ListOf(post) /\ Addressed(post, ListOf(post)[j])}}

SnapshotInv ==
    /\ \A t \in tasks : t.post \in posted
    /\ looper # "idle" => post \in posted
    /\ looper = "lock" => it = 1 /\ TasksOf(post) = {}
    /\ looper = "loop" => TasksOf(post) = Passed

LEMMA PassOne ==
    ASSUME Types, SnapshotInv, PostToListener
    PROVE  SnapshotInv'
  <1> DEFINE s == ListOf(post)
             t == [post |-> post, listener |-> s[it], nth |-> it]
  <1>1. /\ looper = "loop" /\ it \in Nat /\ it > 0 /\ it <= Len(s) /\ post \in Posts
        /\ tasks' = (IF Addressed(post, s[it]) THEN tasks \cup {t} ELSE tasks)
        /\ it' = it + 1
        /\ UNCHANGED <<m_pLinstenerList, looper, post, posted>>
    BY DEF PostToListener, AtLooper, LooperOnly, ListOf, Types, LooperType, registryVars
  <1>2. s \in Seq(Listeners)
    BY <1>1, RegistryFacts DEF Types, ListType, ListOf
  <1>3. ListOf(post)' = s
    BY <1>1 DEF ListOf
  <1> HIDE DEF s
  <1>4. {j \in 1..it : j \in DOMAIN s /\ Addressed(post, s[j])} =
            {j \in 1..(it - 1) : j \in DOMAIN s /\ Addressed(post, s[j])}
                \cup (IF Addressed(post, s[it]) THEN {it} ELSE {})
    BY <1>1, <1>2
  <1>5. Passed' = {[post |-> post, listener |-> s[k], nth |-> k] :
                      k \in {j \in 1..it : j \in DOMAIN s /\ Addressed(post, s[j])}}
    <2>1. \A j : Addressed(post, s[j])' = Addressed(post, s[j])
      BY <1>1, <1>3 DEF Addressed, s
    <2>2. 1..(it' - 1) = 1..it
      BY <1>1
    <2> QED
      BY <1>1, <1>3, <2>1, <2>2 DEF Passed, Addressed
  <1>6. Passed' = Passed \cup (IF Addressed(post, s[it]) THEN {t} ELSE {})
    BY <1>4, <1>5 DEF Passed, s
  <1>7. TasksOf(post)' = TasksOf(post) \cup (IF Addressed(post, s[it]) THEN {t} ELSE {})
    BY <1>1 DEF TasksOf
  <1>8. \A u \in tasks' : u.post \in posted'
    BY <1>1 DEF SnapshotInv
  <1> QED
    BY <1>1, <1>6, <1>7, <1>8 DEF SnapshotInv

\* No list changes under the fan-out that walks it.
LEMMA ListKept ==
    ASSUME Types, MutexInv, [Next]_vars, looper = "loop"
    PROVE  ListOf(post)' = ListOf(post) \/ looper' # "loop" \/ post' # post
  <1> DEFINE e == PostOf[post].event
  <1>1. e \in Events /\ m_pCbLinstenerMutex[e] = "looper"
    BY RegistryFacts DEF Types, LooperType, MutexInv
  <1> SUFFICES ASSUME post' = post PROVE m_pLinstenerList'[e] = m_pLinstenerList[e]
    BY DEF ListOf
  <1> HIDE DEF e
  <1> USE DEF registryVars
  <1>2. ASSUME NEW c \in Calls, RegisterEventListener(c) \/ UnregisterEventListener(c)
        PROVE  m_pLinstenerList'[e] = m_pLinstenerList[e]
    <2> DEFINE f == CallOf[c].event
    <2>1. \/ UNCHANGED m_pLinstenerList
          \/ /\ f \in Events /\ ~CbMutexTaken(f)
             /\ \E s : m_pLinstenerList' = [m_pLinstenerList EXCEPT ![f] = s]
      BY <1>2 DEF RegisterEventListener, UnregisterEventListener, OutOfRange
    <2>2. f \in Events /\ ~CbMutexTaken(f) => f # e
      BY <1>1, RegistryFacts DEF CbMutexTaken
    <2> QED
      BY <1>1, <2>1, <2>2 DEF Types, ListType
  <1>3. CASE Collect
    <2> DEFINE f == sweep[1]
    <2>1. f # e
      BY <1>1, <1>3 DEF Collect, MutexInv, Types, CollectorType
    <2>2. \/ UNCHANGED m_pLinstenerList
          \/ \E s : m_pLinstenerList' = [m_pLinstenerList EXCEPT ![f] = s]
      BY <1>3 DEF Collect
    <2> QED
      BY <1>1, <2>1, <2>2 DEF Types, ListType
  <1>4. ASSUME \/ \E p \in Processes : Die(p)
               \/ \E c \in Calls : MakeCall(c)
               \/ \E p \in Posts : ReadSize(p)
               \/ \E l \in Listeners : sendObituary(l)
               \/ LooperStep \/ DeliveryStep \/ \E t \in tasks : StartDelivery(t)
               \/ UNCHANGED vars
        PROVE  UNCHANGED m_pLinstenerList
    BY <1>4 DEF Die, MakeCall, ReadSize, sendObituary, LooperStep, LockList, PostToListener,
       EndLoop, ResetSlot, LooperOnly, DeliveryStep, OnEvent, HandlerSends, OnEventFails,
       EndDelivery, StartDelivery, DeliveryOnly, vars
  <1>5. ASSUME StartCollection \/ LockDeath \/ LockNextList \/ EndSweep \/ EndCollection
        PROVE  UNCHANGED m_pLinstenerList
    BY <1>5 DEF StartCollection, LockDeath, LockNextList, EndSweep, EndCollection
  <1> QED
    BY <1>2, <1>3, <1>4, <1>5 DEF Next, ServiceStep, CollectorStep, SweepStep

\* Only the callback changes what the fan-out knows.
LEMMA FanOutSteps ==
    ASSUME [Next]_vars
    PROVE  \/ UNCHANGED <<looper, post, it, posted, tasks>>
           \/ \E p \in Posts : ReadSize(p)
           \/ LooperStep
  <1>1. ASSUME \/ \E p \in Processes : Die(p)
               \/ \E c \in Calls : MakeCall(c)
               \/ \E l \in Listeners : sendObituary(l)
               \/ \E c \in Calls : RegisterEventListener(c) \/ UnregisterEventListener(c)
               \/ DeliveryStep \/ \E t \in tasks : StartDelivery(t)
               \/ UNCHANGED vars
        PROVE  UNCHANGED <<looper, post, it, posted, tasks>>
    BY <1>1 DEF Die, MakeCall, sendObituary, RegisterEventListener, UnregisterEventListener, Call,
       DeliveryStep, OnEvent, HandlerSends, OnEventFails, EndDelivery, StartDelivery,
       DeliveryOnly, vars, looperVars
  <1>2. ASSUME CollectorStep PROVE UNCHANGED <<looper, post, it, posted, tasks>>
    BY <1>2 DEF CollectorStep, SweepStep, StartCollection, LockDeath, LockNextList, Collect,
       EndSweep, EndCollection, CollectorOnly, looperVars
  <1> QED
    BY <1>1, <1>2 DEF Next, ServiceStep

LEMMA SnapshotStep == Types /\ MutexInv /\ SnapshotInv /\ [Next]_vars => SnapshotInv'
  <1> SUFFICES ASSUME Types, MutexInv, SnapshotInv, [Next]_vars PROVE SnapshotInv'
    OBVIOUS
  <1>1. ASSUME UNCHANGED <<looper, post, it, posted, tasks>> PROVE SnapshotInv'
    <2>1. TasksOf(post)' = TasksOf(post)
      BY <1>1 DEF TasksOf
    <2>2. looper = "loop" => Passed' = Passed
      <3>1. looper = "loop" => ListOf(post)' = ListOf(post)
        BY <1>1, ListKept
      <3> QED
        BY <1>1, <3>1 DEF Passed, Addressed
    <2> QED
      BY <1>1, <2>1, <2>2 DEF SnapshotInv
  <1>2. ASSUME NEW p \in Posts, ReadSize(p) PROVE SnapshotInv'
    <2>1. /\ p \notin posted /\ looper' \in {"reset", "lock"} /\ post' = p
          /\ posted' = posted \cup {p} /\ it' = 1 /\ tasks' = tasks
      BY <1>2 DEF ReadSize
    <2>2. TasksOf(post)' = {}
      BY <2>1 DEF SnapshotInv, TasksOf
    <2> QED
      BY <2>1, <2>2 DEF SnapshotInv
  <1>3. CASE LockList
    <2>1. /\ looper = "lock" /\ looper' = "loop" /\ UNCHANGED <<post, it, posted, tasks>>
      BY <1>3 DEF LockList, AtLooper
    <2>2. TasksOf(post)' = {} /\ it' = 1
      BY <2>1 DEF SnapshotInv, TasksOf
    <2>3. Passed' = {}
      BY <2>2 DEF Passed
    <2> QED
      BY <2>1, <2>2, <2>3 DEF SnapshotInv
  <1>4. CASE PostToListener
    BY <1>4, PassOne
  <1>5. CASE EndLoop \/ ResetSlot
    <2>1. /\ looper' \in {"reset", "idle"} /\ looper # "idle"
          /\ looper' = "reset" => post' = post
          /\ UNCHANGED <<posted, tasks>>
      BY <1>5 DEF EndLoop, ResetSlot, AtLooper
    <2> QED
      BY <2>1 DEF SnapshotInv
  <1> QED
    BY <1>1, <1>2, <1>3, <1>4, <1>5, FanOutSteps DEF LooperStep

\* While the callback walks a list it has made one task for each addressed
\* listener it has passed, and nobody changes the list under it.
THEOREM FanOutIsSnapshot == Spec => []FanOutSnapshot
  <1>1. Init => SnapshotInv
    BY DEF Init, SnapshotInv
  <1>2. SnapshotInv => FanOutSnapshot
    BY DEF SnapshotInv, FanOutSnapshot, TasksOf, Passed, ListOf
  <1> QED
    BY <1>1, <1>2, TypesInit, TypesStep, MutexInit, MutexStep, SnapshotStep, PTL DEF Spec

-----------------------------------------------------------------------------
(* The registry implements EventBroadcast.                                 *)

\* What the callback has promised and sent is its own affair: no other step,
\* and no change of the lists, touches it.
LEMMA PromisesKept ==
    ASSUME Types, MutexInv, [Next]_vars, UNCHANGED <<looper, post, it, posted, tasks>>
    PROVE  sent' = sent /\ letters' = letters
  <1>1. looper = "loop" => ListOf(post)' = ListOf(post)
    BY ListKept
  <1>2. looper = "loop" => StillToCome' = StillToCome
    BY <1>1 DEF StillToCome, ListOf, Addressed
  <1> QED
    BY <1>2 DEF sent, letters

\* A step that leaves the fan-out alone and changes neither lists nor starts nor
\* the living is none of the broadcast's.
Untouched ==
    /\ UNCHANGED <<looper, post, it, posted, tasks>>
    /\ UNCHANGED <<m_pLinstenerList, alive, started>>

LEMMA UntouchedStep ==
    ASSUME Types, MutexInv, [Next]_vars, Untouched
    PROVE  UNCHANGED Broadcast!broadcastVars
  <1>1. sent' = sent /\ letters' = letters
    BY PromisesKept DEF Untouched
  <1>2. dead' = dead
    BY DEF Untouched, dead, Dead
  <1> QED
    BY <1>1, <1>2 DEF Untouched, Broadcast!broadcastVars

\* The callback's steps.
LEMMA SendStep ==
    ASSUME Types, SnapshotInv, NEW p \in Posts,
           m_pLinstenerList' = m_pLinstenerList, alive' = alive, started' = started,
           p \notin sent, sent' = sent \cup {p},
           letters' = letters \cup Broadcast!LettersTo(p, ListOf(p))
    PROVE  Broadcast!BroadcastNext
  <1>1. dead' = dead
    BY DEF dead, Dead
  <1>2. Broadcast!Send(p)
    BY <1>1 DEF Broadcast!Send, ListOf
  <1> QED
    BY <1>2 DEF Broadcast!BroadcastNext

LEMMA FanOutBroadcasts ==
    ASSUME Types, MutexInv, SnapshotInv, [Next]_vars,
           LooperStep \/ \E p \in Posts : ReadSize(p)
    PROVE  Broadcast!BroadcastNext \/ UNCHANGED Broadcast!broadcastVars
  <1>1. UNCHANGED <<m_pLinstenerList, alive, started>>
    BY DEF LooperStep, ReadSize, LockList, PostToListener, EndLoop, ResetSlot, LooperOnly,
       registryVars, deliveryVars
  <1>2. dead' = dead
    BY <1>1 DEF dead, Dead
  <1>3. ASSUME sent' = sent, letters' = letters PROVE UNCHANGED Broadcast!broadcastVars
    BY <1>1, <1>2, <1>3 DEF Broadcast!broadcastVars
  <1>4. ASSUME NEW p \in Posts, ReadSize(p)
        PROVE  Broadcast!BroadcastNext \/ UNCHANGED Broadcast!broadcastVars
    <2>1. /\ looper = "idle" /\ p \notin posted /\ post' = p /\ tasks' = tasks
          /\ posted' = posted \cup {p}
          /\ looper' = IF ListOf(p) = <<>> THEN "reset" ELSE "lock"
      BY <1>4 DEF ReadSize, AtLooper, ListOf
    <2>2. letters' = letters /\ sent = posted
      BY <2>1 DEF letters, sent
    <2>3. CASE ListOf(p) = <<>>
      <3>1. sent' = sent \cup {p}
        BY <2>1, <2>2, <2>3 DEF sent
      <3>2. Broadcast!LettersTo(p, ListOf(p)) = {}
        BY <2>3 DEF Broadcast!LettersTo
      <3> QED
        BY <1>1, <2>1, <2>2, <3>1, <3>2, SendStep
    <2>4. CASE ListOf(p) # <<>>
      <3>1. sent' = sent
        BY <2>1, <2>2, <2>4 DEF sent
      <3> QED
        BY <1>3, <2>2, <3>1
    <2> QED
      BY <2>3, <2>4
  <1>5. ASSUME LockList PROVE Broadcast!BroadcastNext
    <2>1. /\ looper = "lock" /\ looper' = "loop" /\ UNCHANGED <<post, it, posted, tasks>>
          /\ post \in Posts /\ post \in posted /\ it = 1
      BY <1>5 DEF LockList, AtLooper, Types, LooperType, SnapshotInv
    <2>2. post \notin sent /\ sent' = sent \cup {post}
      BY <2>1 DEF sent
    <2>3. letters = tasks /\ letters' = tasks \cup StillToCome'
      BY <2>1 DEF letters
    <2>4. ListOf(post) \in Seq(Listeners)
      BY <2>1, RegistryFacts DEF Types, ListType, ListOf
    <2>5. StillToCome' = Broadcast!LettersTo(post, ListOf(post))
      <3>1. StillToCome' = {[post |-> post, listener |-> ListOf(post)[k], nth |-> k] :
                k \in {j \in DOMAIN ListOf(post) : j >= 1 /\ Addressed(post, ListOf(post)[j])}}
        BY <1>1, <2>1 DEF StillToCome, ListOf, Addressed
      <3>2. {j \in DOMAIN ListOf(post) : j >= 1 /\ Addressed(post, ListOf(post)[j])} =
            {j \in DOMAIN ListOf(post) : PostOf[post].name \in {NULL, NameOf[ListOf(post)[j]]}}
        BY <2>4 DEF Addressed
      <3> QED
        BY <3>1, <3>2, Zenon DEF Broadcast!LettersTo
    <2> QED
      BY <1>1, <2>1, <2>2, <2>3, <2>5, SendStep
  <1>6. ASSUME PostToListener PROVE UNCHANGED Broadcast!broadcastVars
    <2> DEFINE s == ListOf(post)
               t == [post |-> post, listener |-> s[it], nth |-> it]
               To(n) == {j \in DOMAIN s : j >= n /\ Addressed(post, s[j])}
               Made(n) == {[post |-> post, listener |-> s[k], nth |-> k] : k \in To(n)}
    <2>1. /\ looper = "loop" /\ it \in Nat /\ it > 0 /\ it <= Len(s) /\ post \in Posts
          /\ tasks' = (IF Addressed(post, s[it]) THEN tasks \cup {t} ELSE tasks)
          /\ it' = it + 1
          /\ UNCHANGED <<m_pLinstenerList, looper, post, posted>>
      BY <1>6 DEF PostToListener, AtLooper, LooperOnly, ListOf, Types, LooperType, registryVars
    <2>2. s \in Seq(Listeners)
      BY <2>1, RegistryFacts DEF Types, ListType, ListOf
    <2>3. StillToCome = Made(it) /\ StillToCome' = Made(it + 1)
      BY <2>1 DEF StillToCome, ListOf, Addressed
    <2> HIDE DEF s
    <2>4. To(it) = To(it + 1) \cup (IF Addressed(post, s[it]) THEN {it} ELSE {})
      BY <2>1, <2>2
    <2> HIDE DEF To
    <2>5. Made(it) = Made(it + 1) \cup (IF Addressed(post, s[it]) THEN {t} ELSE {})
      BY <2>4
    <2>6. letters' = letters
      BY <2>1, <2>3, <2>5 DEF letters
    <2> QED
      BY <1>3, <2>1, <2>6 DEF sent
  <1>7. ASSUME EndLoop \/ ResetSlot PROVE UNCHANGED Broadcast!broadcastVars
    <2>1. /\ looper # "lock" /\ looper' \in {"reset", "idle"} /\ UNCHANGED <<posted, tasks>>
      BY <1>7 DEF EndLoop, ResetSlot, AtLooper
    <2>2. looper = "loop" => StillToCome = {}
      <3>1. SUFFICES ASSUME looper = "loop" PROVE StillToCome = {}
        OBVIOUS
      <3>2. it > Len(ListOf(post)) /\ it \in Nat /\ post \in Posts
        BY <1>7, <3>1 DEF EndLoop, ResetSlot, AtLooper, ListOf, Types, LooperType
      <3>3. ListOf(post) \in Seq(Listeners)
        BY <3>2, RegistryFacts DEF Types, ListType, ListOf
      <3>4. \A j \in DOMAIN ListOf(post) : ~(j >= it)
        BY <3>2, <3>3
      <3> QED
        BY <3>4 DEF StillToCome, ListOf
    <2>3. letters' = letters /\ sent' = sent
      BY <2>1, <2>2 DEF letters, sent
    <2> QED
      BY <1>3, <2>3
  <1> QED
    BY <1>4, <1>5, <1>6, <1>7 DEF LooperStep

\* EventBroadcast means the same by these operators.
LEMMA SameOperators ==
    ASSUME NEW s, NEW n
    PROVE  /\ Broadcast!RemoveAt(s, n) = RemoveAt(s, n)
           /\ Broadcast!Kept(s, n) = Kept(s, n)
  <1>1. Broadcast!RemoveAt(s, n) = RemoveAt(s, n)
    BY DEF RemoveAt, Broadcast!RemoveAt
  <1>2. Broadcast!Cardinality(DOMAIN s \ n) = Cardinality(DOMAIN s \ n)
    BY Zenon DEF Cardinality, Broadcast!Cardinality
  <1>3. Broadcast!Kept(s, n) = Kept(s, n)
    <2> DEFINE left == DOMAIN s \ n
               order(c) == CHOOSE f \in [1..c -> left] :
                               \A j, k \in DOMAIN f : j < k => f[j] < f[k]
               rest(c) == [k \in DOMAIN order(c) |-> s[order(c)[k]]]
    <2>1. Kept(s, n) = rest(Cardinality(left))
      BY Zenon DEF Kept
    <2>2. Broadcast!Kept(s, n) = rest(Broadcast!Cardinality(left))
      BY Zenon DEF Broadcast!Kept
    <2> HIDE DEF order
    <2> QED
      BY <1>2, <2>1, <2>2, Zenon
  <1> QED
    BY <1>1, <1>3

\* The steps of clients and collection that change a list.
LEMMA RegisterBroadcasts ==
    ASSUME Types, MutexInv, [Next]_vars, NEW c \in Calls, RegisterEventListener(c)
    PROVE  Broadcast!BroadcastNext \/ UNCHANGED Broadcast!broadcastVars
  <1> DEFINE e == CallOf[c].event
             l == CallOf[c].listener
  <1>1. /\ UNCHANGED <<looper, post, it, posted, tasks, alive, started>>
        /\ \/ m_pLinstenerList' = m_pLinstenerList
           \/ e \in Events /\ m_pLinstenerList' = [m_pLinstenerList EXCEPT ![e] = Append(@, l)]
    BY DEF RegisterEventListener, Call, OutOfRange, registryVars, looperVars, deliveryVars
  <1>2. sent' = sent /\ letters' = letters /\ dead' = dead
    BY <1>1, PromisesKept DEF dead, Dead
  <1>3. CASE m_pLinstenerList' = m_pLinstenerList
    BY <1>1, <1>2, <1>3 DEF Broadcast!broadcastVars
  <1>4. CASE e \in Events /\ m_pLinstenerList' = [m_pLinstenerList EXCEPT ![e] = Append(@, l)]
    <2>1. l \in Listeners
      BY RegistryFacts
    <2>2. Broadcast!Join(e, l)
      BY <1>1, <1>2, <1>4 DEF Broadcast!Join
    <2> QED
      BY <1>4, <2>1, <2>2 DEF Broadcast!BroadcastNext
  <1> QED
    BY <1>1, <1>3, <1>4

LEMMA UnregisterBroadcasts ==
    ASSUME Types, MutexInv, [Next]_vars, NEW c \in Calls, UnregisterEventListener(c)
    PROVE  Broadcast!BroadcastNext \/ UNCHANGED Broadcast!broadcastVars
  <1> DEFINE e == CallOf[c].event
             l == CallOf[c].listener
             s == m_pLinstenerList[e]
             named == {k \in DOMAIN s : NameOf[s[k]] = NameOf[l]}
             gone == ErasedAt(Len(s), named)
             visited == VisitedAt(Len(s), named)
             left == /\ e \in Events /\ \A k \in visited : ~Dead(s[k])
                     /\ m_pLinstenerList' = [m_pLinstenerList EXCEPT ![e] = Kept(s, gone)]
  <1>1. /\ UNCHANGED <<looper, post, it, posted, tasks, alive, started>>
        /\ m_pLinstenerList' = m_pLinstenerList \/ left
    BY DEF UnregisterEventListener, Call, OutOfRange, registryVars, looperVars, deliveryVars
  <1>2. sent' = sent /\ letters' = letters /\ dead' = dead
    BY <1>1, PromisesKept DEF dead, Dead
  <1>3. CASE m_pLinstenerList' = m_pLinstenerList
    BY <1>1, <1>2, <1>3 DEF Broadcast!broadcastVars
  <1>4. CASE left
    <2>1. s \in Seq(Listeners) /\ Len(s) \in Nat /\ DOMAIN s = 1..Len(s)
      BY <1>4 DEF Types, ListType
    <2>2. l \in Listeners
      BY RegistryFacts
    <2>3. /\ gone \subseteq 1..Len(s)
          /\ \A k \in 1..Len(s) : k \in gone <=> k \in named /\ k - 1 \notin gone
          /\ visited = {k \in 1..Len(s) : k - 1 \notin gone}
      <3> HIDE DEF s, named
      <3>1. Erases(Len(s), named, gone)
        BY <2>1, ErasedFacts
      <3> QED
        BY <3>1 DEF Erases, VisitedAt
    <2> HIDE DEF gone, visited
    <2>4. gone \in SUBSET named /\ \A k \in named \ gone : k - 1 \in gone
      BY <2>1, <2>3
    <2>5. \A k \in gone : s[k] \notin dead
      BY <1>4, <2>3 DEF dead
    <2>6. Broadcast!Leave(e, NameOf[l])
      <3>1. m_pLinstenerList' = [m_pLinstenerList EXCEPT ![e] = Kept(m_pLinstenerList[e], gone)]
        BY <1>4
      <3>2. m_pLinstenerList' =
                [m_pLinstenerList EXCEPT ![e] = Broadcast!Kept(m_pLinstenerList[e], gone)]
        BY <3>1, SameOperators
      <3> QED
        BY <1>1, <1>2, <2>4, <2>5, <3>2 DEF Broadcast!Leave
    <2> QED
      BY <1>4, <2>2, <2>6 DEF Broadcast!BroadcastNext
  <1> QED
    BY <1>1, <1>3, <1>4

LEMMA CollectBroadcasts ==
    ASSUME Types, MutexInv, [Next]_vars, Collect
    PROVE  Broadcast!BroadcastNext \/ UNCHANGED Broadcast!broadcastVars
  <1> DEFINE e == sweep[1]
             n == sweep[2]
  <1>1. /\ UNCHANGED <<looper, post, it, posted, tasks, alive, started>>
        /\ \/ m_pLinstenerList' = m_pLinstenerList
           \/ /\ Dead(m_pLinstenerList[e][n]) /\ n <= Len(m_pLinstenerList[e])
              /\ m_pLinstenerList' =
                     [m_pLinstenerList EXCEPT ![e] = RemoveAt(m_pLinstenerList[e], n)]
    BY DEF Collect, CollectorOnly, registryVars, looperVars, deliveryVars
  <1>2. sent' = sent /\ letters' = letters /\ dead' = dead
    BY <1>1, PromisesKept DEF dead, Dead
  <1>3. CASE m_pLinstenerList' = m_pLinstenerList
    BY <1>1, <1>2, <1>3 DEF Broadcast!broadcastVars
  <1>4. CASE ~(m_pLinstenerList' = m_pLinstenerList)
    <2>1. e \in Events /\ n \in Nat \ {0}
      BY DEF Types, CollectorType
    <2>2. m_pLinstenerList[e] \in Seq(Listeners)
      BY <2>1 DEF Types, ListType
    <2> HIDE DEF e, n
    <2>3. n \in DOMAIN m_pLinstenerList[e] /\ m_pLinstenerList[e][n] \in Listeners
      BY <1>1, <1>4, <2>1, <2>2
    <2>4. Broadcast!LeaveDead(e, n)
      BY <1>1, <1>2, <1>4, <2>3, SameOperators DEF Broadcast!LeaveDead, dead
    <2> QED
      BY <2>1, <2>3, <2>4 DEF Broadcast!BroadcastNext
  <1> QED
    BY <1>3, <1>4

LEMMA BroadcastStep ==
    Types /\ MutexInv /\ SnapshotInv /\ [Next]_vars
        => [Broadcast!BroadcastNext]_Broadcast!broadcastVars
  <1> SUFFICES ASSUME Types, MutexInv, SnapshotInv, [Next]_vars
               PROVE  Broadcast!BroadcastNext \/ UNCHANGED Broadcast!broadcastVars
    OBVIOUS
  <1>1. ASSUME \/ \E c \in Calls : MakeCall(c)
               \/ \E l \in Listeners : sendObituary(l)
               \/ DeliveryStep \/ UNCHANGED vars
        PROVE  Untouched
    BY <1>1 DEF Untouched, MakeCall, sendObituary, DeliveryStep, OnEvent, HandlerSends,
       OnEventFails, EndDelivery, DeliveryOnly, vars, registryVars, looperVars, deliveryVars
  <1>2. ASSUME StartCollection \/ LockDeath \/ LockNextList \/ EndSweep \/ EndCollection
        PROVE  Untouched
    BY <1>2 DEF Untouched, StartCollection, LockDeath, LockNextList, EndSweep, EndCollection,
       CollectorOnly, registryVars, looperVars, deliveryVars
  <1>3. ASSUME NEW p \in Processes, Die(p) PROVE Broadcast!BroadcastNext
    <2>1. /\ UNCHANGED <<looper, post, it, posted, tasks, m_pLinstenerList, started>>
          /\ alive' \subseteq alive
      BY <1>3 DEF Die, registryVars, looperVars, deliveryVars
    <2>2. sent' = sent /\ letters' = letters
      BY <2>1, PromisesKept
    <2>3. dead' \in SUBSET Listeners /\ dead \subseteq dead'
      BY <2>1 DEF dead, Dead
    <2>4. Broadcast!Perish
      BY <2>1, <2>2, <2>3 DEF Broadcast!Perish
    <2> QED
      BY <2>4 DEF Broadcast!BroadcastNext
  <1>4. ASSUME NEW t \in tasks, StartDelivery(t) PROVE Broadcast!BroadcastNext
    <2>1. /\ UNCHANGED <<looper, post, it, posted, tasks, m_pLinstenerList, alive>>
          /\ t \notin started /\ started' = started \cup {t}
      BY <1>4 DEF StartDelivery, DeliveryOnly, registryVars, looperVars
    <2>2. sent' = sent /\ letters' = letters /\ dead' = dead
      BY <2>1, PromisesKept DEF dead, Dead
    <2>3. t \in letters
      BY DEF letters
    <2>4. Broadcast!Open(t)
      BY <2>1, <2>2, <2>3 DEF Broadcast!Open
    <2> QED
      BY <2>3, <2>4 DEF Broadcast!BroadcastNext
  <1> QED
    BY <1>1, <1>2, <1>3, <1>4, UntouchedStep, FanOutBroadcasts, RegisterBroadcasts,
       UnregisterBroadcasts, CollectBroadcasts
       DEF Next, ServiceStep, CollectorStep, SweepStep

\* Whatever clients, looper, workers and collections do at the same time, an
\* info goes at one moment, and once, to exactly the listeners that are
\* registered and addressed then, and lists change one whole step at a time.
THEOREM BroadcastImplemented == Spec => ImplementsBroadcast
  <1>1. Init => SnapshotInv
    BY DEF Init, SnapshotInv
  <1>2. Init => Broadcast!BroadcastInit
    <2> SUFFICES ASSUME Init PROVE Broadcast!BroadcastInit
      OBVIOUS
    <2>1. dead = {}
      BY RegistryAssumption DEF Init, dead, Dead
    <2>2. sent = {} /\ letters = {}
      BY DEF Init, sent, letters
    <2> QED
      BY <2>1, <2>2 DEF Init, Broadcast!BroadcastInit
  <1> QED
    BY <1>1, <1>2, TypesInit, TypesStep, MutexInit, MutexStep, SnapshotStep, BroadcastStep, PTL
       DEF Spec, ImplementsBroadcast, Broadcast!BroadcastSpec

-----------------------------------------------------------------------------
(* The entries of the lists.                                               *)

EntriesOver(lists, S) ==
    {entry \in UNION {{e} \X DOMAIN lists[e] : e \in Events} :
        lists[entry[1]][entry[2]] \in S}
Count(lists, S) == Cardinality(EntriesOver(lists, S))
OtherEntries(lists, e, S) == {entry \in EntriesOver(lists, S) : entry[1] # e}

LEMMA DisjointUnion ==
    ASSUME NEW A, NEW B, IsFiniteSet(A), IsFiniteSet(B), A \cap B = {}
    PROVE  Cardinality(A \cup B) = Cardinality(A) + Cardinality(B)
  <1>1. Cardinality(A) \in Nat /\ Cardinality(B) \in Nat /\ Cardinality({}) = 0
    BY FS_CardinalityType, FS_EmptySet
  <1>2. Cardinality(A \cup B) = Cardinality(A) + Cardinality(B) - Cardinality({})
    BY FS_Union
  <1> QED
    BY <1>1, <1>2

LEMMA EntryFacts ==
    ASSUME NEW lists \in [Events -> Seq(Listeners)], NEW S
    PROVE  /\ \A x : x \in EntriesOver(lists, S) <=>
                  \E e \in Events : \E n \in 1..Len(lists[e]) :
                      x = <<e, n>> /\ lists[e][n] \in S
           /\ IsFiniteSet(EntriesOver(lists, S)) /\ Count(lists, S) \in Nat
  <1> DEFINE All == UNION {{e} \X DOMAIN lists[e] : e \in Events}
  <1>1. \A e \in Events : lists[e] \in Seq(Listeners) /\ DOMAIN lists[e] = 1..Len(lists[e])
                          /\ Len(lists[e]) \in Nat
    OBVIOUS
  <1>2. \A x : x \in All <=> \E e \in Events : x \in {e} \X DOMAIN lists[e]
    BY Zenon
  <1>3. \A x : x \in All <=> \E e \in Events : \E n \in 1..Len(lists[e]) : x = <<e, n>>
    BY <1>1, <1>2
  <1>4. IsFiniteSet(All)
    <2> DEFINE Rows == {{e} \X DOMAIN lists[e] : e \in Events}
               row == [e \in Events |-> {e} \X DOMAIN lists[e]]
    <2>1. IsFiniteSet(Events)
      BY RegistryFacts, FS_Interval DEF Events
    <2>2. row \in Surjection(Events, Rows)
      BY Zenon DEF Surjection
    <2>3. IsFiniteSet(Rows)
      BY <2>1, <2>2, FS_Surjection
    <2>4. ASSUME NEW e \in Events PROVE IsFiniteSet({e} \X DOMAIN lists[e])
      <3>1. IsFiniteSet({e})
        BY FS_Singleton, Zenon
      <3>2. 0 \in Int /\ 1 \in Int /\ Len(lists[e]) \in Int
        BY <1>1
      <3>3. IsFiniteSet(1..Len(lists[e]))
        BY <3>2, FS_Interval, Zenon
      <3>4. IsFiniteSet({e} \X (1..Len(lists[e])))
        BY <3>1, <3>3, FS_Product, Zenon
      <3> QED
        BY <1>1, <3>4
    <2>5. \A T \in Rows : IsFiniteSet(T)
      BY <2>4
    <2> QED
      BY <2>3, <2>5, FS_UNION
  <1>5. EntriesOver(lists, S) = {x \in All : lists[x[1]][x[2]] \in S}
    BY DEF EntriesOver
  <1> HIDE DEF All
  <1>6. IsFiniteSet(EntriesOver(lists, S))
    BY <1>4, <1>5, FS_Subset
  <1>7. Count(lists, S) \in Nat
    BY <1>6, FS_CardinalityType DEF Count
  <1> QED
    BY <1>3, <1>5, <1>6, <1>7

\* The entries of one list, and those of the others.
LEMMA OneList ==
    ASSUME NEW lists \in [Events -> Seq(Listeners)], NEW e \in Events, NEW S
    PROVE  /\ Count(lists, S) =
                  Cardinality(OtherEntries(lists, e, S)) + Cardinality(Places(lists[e], S))
           /\ Cardinality(OtherEntries(lists, e, S)) \in Nat
           /\ Cardinality(Places(lists[e], S)) \in Nat
  <1> DEFINE All == EntriesOver(lists, S)
             O == OtherEntries(lists, e, S)
             H == {x \in All : x[1] = e}
             P == Places(lists[e], S)
             f == [n \in P |-> <<e, n>>]
  <1>1. /\ \A x : x \in All <=> \E d \in Events : \E n \in 1..Len(lists[d]) :
                      x = <<d, n>> /\ lists[d][n] \in S
        /\ IsFiniteSet(All)
    BY EntryFacts
  <1>2. /\ IsFiniteSet(P) /\ Cardinality(P) \in Nat
        /\ \A n : n \in P <=> n \in 1..Len(lists[e]) /\ lists[e][n] \in S
    <2>1. lists[e] \in Seq(Listeners) /\ DOMAIN lists[e] = 1..Len(lists[e])
      OBVIOUS
    <2>2. IsFiniteSet(P) /\ Cardinality(P) \in Nat
      BY <2>1, PlacesType, Zenon
    <2>3. \A n : n \in P <=> n \in 1..Len(lists[e]) /\ lists[e][n] \in S
      BY <2>1, Zenon DEF Places
    <2> QED
      BY <2>2, <2>3
  <1>3. O = All \ H /\ H \subseteq All
    BY DEF OtherEntries
  <1>4. \A x : x \in H <=> \E n \in P : x = <<e, n>>
    <2> HIDE DEF P, All
    <2> QED
      BY <1>1, <1>2
  <1>5. f \in Bijection(P, H)
    <2>1. f \in [P -> H]
      BY <1>4
    <2>2. \A m, n \in P : f[m] = f[n] => m = n
      OBVIOUS
    <2> QED
      BY <1>4, <2>1, <2>2 DEF Bijection, Injection, Surjection, IsInjective
  <1> HIDE DEF f, All, P, H, O
  <1>6. IsFiniteSet(H) /\ Cardinality(H) = Cardinality(P)
    BY <1>2, <1>5, FS_Bijection DEF ExistsBijection
  <1>7. IsFiniteSet(O) /\ Cardinality(O) \in Nat
    BY <1>1, <1>3, FS_Difference, FS_CardinalityType
  <1>8. All = O \cup H /\ O \cap H = {}
    BY <1>3
  <1>9. Cardinality(All) = Cardinality(O) + Cardinality(H)
    BY <1>6, <1>7, <1>8, DisjointUnion
  <1> QED
    BY <1>2, <1>6, <1>7, <1>9 DEF Count, All, O, P

ChangedAt(e, lists, new) == \A d \in Events : d # e => new[d] = lists[d]

LEMMA ListReplaced ==
    ASSUME NEW lists \in [Events -> Seq(Listeners)], NEW new \in [Events -> Seq(Listeners)],
           NEW e \in Events, NEW S, ChangedAt(e, lists, new)
    PROVE  Count(new, S) = Count(lists, S)
               - Cardinality(Places(lists[e], S)) + Cardinality(Places(new[e], S))
  <1>1. OtherEntries(new, e, S) = OtherEntries(lists, e, S)
    <2>1. ASSUME NEW x PROVE x \in OtherEntries(new, e, S) <=> x \in OtherEntries(lists, e, S)
      <3>1. x \in EntriesOver(new, S) <=>
                  \E d \in Events : \E n \in 1..Len(new[d]) :
                      x = <<d, n>> /\ new[d][n] \in S
        BY EntryFacts, Zenon
      <3>2. x \in EntriesOver(lists, S) <=>
                  \E d \in Events : \E n \in 1..Len(lists[d]) :
                      x = <<d, n>> /\ lists[d][n] \in S
        BY EntryFacts, Zenon
      <3> QED
        BY <3>1, <3>2 DEF OtherEntries, ChangedAt
    <2> QED
      BY <2>1 DEF OtherEntries
  <1>2. /\ Count(new, S) = Cardinality(OtherEntries(new, e, S)) + Cardinality(Places(new[e], S))
        /\ Cardinality(Places(new[e], S)) \in Nat
    BY OneList
  <1>3. /\ Count(lists, S) = Cardinality(OtherEntries(lists, e, S)) + Cardinality(Places(lists[e], S))
        /\ Cardinality(OtherEntries(lists, e, S)) \in Nat
        /\ Cardinality(Places(lists[e], S)) \in Nat
    BY OneList
  <1> QED
    BY <1>1, <1>2, <1>3

\* What the three ways to change a list do to the number of entries of some
\* listeners.
LEMMA AppendedCount ==
    ASSUME NEW lists \in [Events -> Seq(Listeners)], NEW new \in [Events -> Seq(Listeners)],
           NEW e \in Events, NEW S, NEW l \in Listeners,
           ChangedAt(e, lists, new), new[e] = Append(lists[e], l)
    PROVE  Count(new, S) = Count(lists, S) + (IF l \in S THEN 1 ELSE 0)
  <1>1. Count(new, S) = Count(lists, S)
            - Cardinality(Places(lists[e], S)) + Cardinality(Places(new[e], S))
    BY ListReplaced
  <1>2. lists[e] \in Seq(Listeners)
    OBVIOUS
  <1>3. Cardinality(Places(Append(lists[e], l), S)) =
               Cardinality(Places(lists[e], S)) + (IF l \in S THEN 1 ELSE 0)
    BY <1>2, AppendPlaces
  <1>4. Cardinality(Places(lists[e], S)) \in Nat /\ Count(lists, S) \in Nat
    BY <1>2, PlacesType, EntryFacts
  <1> QED
    BY <1>1, <1>3, <1>4

LEMMA RemovedCount ==
    ASSUME NEW lists \in [Events -> Seq(Listeners)], NEW new \in [Events -> Seq(Listeners)],
           NEW e \in Events, NEW S, NEW n \in 1..Len(lists[e]),
           ChangedAt(e, lists, new), new[e] = RemoveAt(lists[e], n)
    PROVE  Count(new, S) = Count(lists, S) - (IF lists[e][n] \in S THEN 1 ELSE 0)
  <1>1. Count(new, S) = Count(lists, S)
            - Cardinality(Places(lists[e], S)) + Cardinality(Places(new[e], S))
    BY ListReplaced
  <1>2. lists[e] \in Seq(Listeners)
    OBVIOUS
  <1>3. Cardinality(Places(RemoveAt(lists[e], n), S)) =
               Cardinality(Places(lists[e], S)) - (IF lists[e][n] \in S THEN 1 ELSE 0)
    BY <1>2, RemovePlaces
  <1>4. Cardinality(Places(lists[e], S)) \in Nat /\ Count(lists, S) \in Nat
    BY <1>2, PlacesType, EntryFacts
  <1> QED
    BY <1>1, <1>3, <1>4

PlacesIn(s, S, gone) == Places(s, S) \cap gone
Fewer(lists, new, S, n) == Count(new, S) = Count(lists, S) - n

LEMMA KeptCount ==
    ASSUME NEW lists \in [Events -> Seq(Listeners)], NEW new \in [Events -> Seq(Listeners)],
           NEW e \in Events, NEW S, NEW gone,
           ChangedAt(e, lists, new), new[e] = Kept(lists[e], gone)
    PROVE  /\ Fewer(lists, new, S, Cardinality(PlacesIn(lists[e], S, gone)))
           /\ IsFiniteSet(PlacesIn(lists[e], S, gone))
           /\ Cardinality(PlacesIn(lists[e], S, gone)) \in Nat
           /\ Cardinality(PlacesIn(lists[e], S, gone)) <= Count(lists, S)
  <1> DEFINE P == Places(lists[e], S)
  <1>1. Count(new, S) = Count(lists, S) - Cardinality(P) + Cardinality(Places(new[e], S))
    BY ListReplaced
  <1>2. lists[e] \in Seq(Listeners)
    OBVIOUS
  <1>3. Cardinality(Places(Kept(lists[e], gone), S)) = Cardinality(P \ gone)
    BY <1>2, KeptPlaces
  <1>4. IsFiniteSet(P) /\ Cardinality(P) \in Nat /\ Count(lists, S) \in Nat
    BY <1>2, PlacesType, EntryFacts
  <1>5. /\ Count(lists, S) = Cardinality(OtherEntries(lists, e, S)) + Cardinality(P)
        /\ Cardinality(OtherEntries(lists, e, S)) \in Nat
    BY OneList
  <1> HIDE DEF P
  <1>6. Cardinality(P \ gone) = Cardinality(P) - Cardinality(P \cap gone)
    BY <1>4, FS_Difference
  <1>7. IsFiniteSet(P \cap gone) /\ Cardinality(P \cap gone) <= Cardinality(P)
    BY <1>4, FS_Intersection
  <1>8. Cardinality(P \cap gone) \in Nat
    BY <1>7, FS_CardinalityType
  <1> QED
    BY <1>1, <1>3, <1>4, <1>5, <1>6, <1>7, <1>8 DEF P, PlacesIn, Fewer

-----------------------------------------------------------------------------
(* One death recipient per entry.                                          *)

\* What the calls and the collection do to lists and death recipients.
Registers(e, l) ==
    /\ m_pCbLinstenerMutex[e] = NULL
    /\ m_pLinstenerList' = [m_pLinstenerList EXCEPT ![e] = Append(@, l)]
    /\ links' = IF l \in obitsSent THEN links ELSE [links EXCEPT ![l] = @ + 1]
    /\ lost' = IF l \in obitsSent THEN lost + 1 ELSE lost
Unregisters(e, l, gone) ==
    /\ m_pCbLinstenerMutex[e] = NULL
    /\ \A k \in gone : NameOf[m_pLinstenerList[e][k]] = NameOf[l]
    /\ m_pLinstenerList' = [m_pLinstenerList EXCEPT ![e] = Kept(m_pLinstenerList[e], gone)]
    /\ links' = Unlinked(l, Cardinality(gone))
    /\ lost' = lost + Max({0, links[l] - links'[l]
                              - Cardinality({k \in gone : m_pLinstenerList[e][k] = l})})

LEMMA RegistrySteps ==
    ASSUME Types, MutexInv, [Next]_vars
    PROVE  \/ UNCHANGED registryVars /\ UNCHANGED obitsSent
           \/ \E l \in Listeners : sendObituary(l)
           \/ Collect
           \/ /\ UNCHANGED <<obitsSent, alive, collectorVars>>
              /\ \/ \E e \in Events, l \in Listeners : Registers(e, l)
                 \/ \E e \in Events, l \in Listeners :
                       \E gone \in SUBSET DOMAIN m_pLinstenerList[e] : Unregisters(e, l, gone)
  <1>1. ASSUME NEW c \in Calls, RegisterEventListener(c)
        PROVE  /\ UNCHANGED <<obitsSent, alive, collectorVars>>
               /\ \/ UNCHANGED registryVars
                  \/ \E e \in Events, l \in Listeners : Registers(e, l)
    <2> DEFINE e == CallOf[c].event
               l == CallOf[c].listener
    <2>1. UNCHANGED <<obitsSent, alive, collectorVars>> /\ l \in Listeners
      BY <1>1, RegistryFacts DEF RegisterEventListener, Call
    <2>2. \/ UNCHANGED registryVars
          \/ e \in Events /\ Registers(e, l)
      BY <1>1 DEF RegisterEventListener, OutOfRange, CbMutexTaken, LinkListener, linkToDeath,
         Registers
    <2> QED
      BY <2>1, <2>2
  <1>2. ASSUME NEW c \in Calls, UnregisterEventListener(c)
        PROVE  /\ UNCHANGED <<obitsSent, alive, collectorVars>>
               /\ \/ UNCHANGED registryVars
                  \/ \E e \in Events, l \in Listeners :
                        \E gone \in SUBSET DOMAIN m_pLinstenerList[e] : Unregisters(e, l, gone)
    <2> DEFINE e == CallOf[c].event
               l == CallOf[c].listener
               s == m_pLinstenerList[e]
               named == {k \in DOMAIN s : NameOf[s[k]] = NameOf[l]}
               gone == ErasedAt(Len(s), named)
    <2>1. UNCHANGED <<obitsSent, alive, collectorVars>> /\ l \in Listeners
      BY <1>2, RegistryFacts DEF UnregisterEventListener, Call
    <2>2. ASSUME e \in Events
          PROVE  gone \in SUBSET DOMAIN s /\ gone \subseteq named
      <3>1. s \in Seq(Listeners) /\ Len(s) \in Nat /\ DOMAIN s = 1..Len(s)
        BY <2>2 DEF Types, ListType
      <3> HIDE DEF s, named
      <3>2. Erases(Len(s), named, gone)
        BY <3>1, ErasedFacts
      <3> HIDE DEF gone
      <3> QED
        BY <3>1, <3>2 DEF Erases
    <2>3. \/ UNCHANGED registryVars
          \/ /\ e \in Events /\ ~CbMutexTaken(e)
             /\ m_pLinstenerList' = [m_pLinstenerList EXCEPT ![e] = Kept(s, gone)]
             /\ links' = Unlinked(l, Cardinality(gone))
             /\ lost' = lost + Max({0, links[l] - links'[l] - Cardinality({k \in gone : s[k] = l})})
      BY <1>2 DEF UnregisterEventListener, OutOfRange
    <2>4. named \subseteq {k \in DOMAIN s : NameOf[s[k]] = NameOf[l]}
      OBVIOUS
    <2> HIDE DEF gone, named
    <2>5. CASE UNCHANGED registryVars
      BY <2>1, <2>5
    <2>6. CASE ~UNCHANGED registryVars
      <3>1. e \in Events /\ gone \in SUBSET DOMAIN s /\ \A k \in gone : NameOf[s[k]] = NameOf[l]
        BY <2>2, <2>3, <2>4, <2>6
      <3>2. Unregisters(e, l, gone)
        BY <2>3, <2>6, <3>1 DEF Unregisters, CbMutexTaken
      <3> QED
        BY <2>1, <3>1, <3>2, Zenon
    <2> QED
      BY <2>5, <2>6
  <1>3. ASSUME \/ \E p \in Processes : Die(p)
               \/ \E c \in Calls : MakeCall(c)
               \/ \E p \in Posts : ReadSize(p)
               \/ LooperStep \/ DeliveryStep \/ \E t \in tasks : StartDelivery(t)
               \/ UNCHANGED vars
        PROVE  UNCHANGED registryVars /\ UNCHANGED obitsSent
    BY <1>3 DEF Die, MakeCall, ReadSize, LooperStep, LockList, PostToListener,
       EndLoop, ResetSlot, LooperOnly, DeliveryStep, OnEvent, HandlerSends, OnEventFails,
       EndDelivery, StartDelivery, DeliveryOnly, vars
  <1>4. ASSUME StartCollection \/ LockDeath \/ LockNextList \/ EndSweep \/ EndCollection
        PROVE  UNCHANGED registryVars /\ UNCHANGED obitsSent
    BY <1>4 DEF StartCollection, LockDeath, LockNextList, EndSweep, EndCollection, CollectorOnly
  <1> QED
    BY <1>1, <1>2, <1>3, <1>4 DEF Next, ServiceStep, CollectorStep, SweepStep

\* In terms of counts.
LEMMA RegistersCount ==
    ASSUME Types, NEW S, NEW e \in Events, NEW l \in Listeners, Registers(e, l), ListType'
    PROVE  Count(m_pLinstenerList', S) =
               Count(m_pLinstenerList, S) + (IF l \in S THEN 1 ELSE 0)
  <1>1. /\ m_pLinstenerList \in [Events -> Seq(Listeners)]
        /\ m_pLinstenerList' \in [Events -> Seq(Listeners)]
        /\ m_pLinstenerList'[e] = Append(m_pLinstenerList[e], l)
        /\ ChangedAt(e, m_pLinstenerList, m_pLinstenerList')
    BY DEF Types, ListType, Registers, ChangedAt
  <1> QED
    BY <1>1, AppendedCount

LEMMA UnregistersCount ==
    ASSUME Types, NEW S, NEW e \in Events, NEW l \in Listeners,
           NEW gone \in SUBSET DOMAIN m_pLinstenerList[e], Unregisters(e, l, gone), ListType'
    PROVE  LET P == PlacesIn(m_pLinstenerList[e], S, gone)
           IN  /\ Fewer(m_pLinstenerList, m_pLinstenerList', S, Cardinality(P))
               /\ IsFiniteSet(P) /\ Cardinality(P) \in Nat
               /\ Cardinality(P) <= Count(m_pLinstenerList, S)
               /\ P = {k \in gone : m_pLinstenerList[e][k] \in S}
               /\ IsFiniteSet(gone) /\ Cardinality(gone) \in Nat
               /\ Cardinality(P) <= Cardinality(gone)
  <1> DEFINE P == PlacesIn(m_pLinstenerList[e], S, gone)
  <1>1. /\ m_pLinstenerList \in [Events -> Seq(Listeners)]
        /\ m_pLinstenerList' \in [Events -> Seq(Listeners)]
        /\ m_pLinstenerList'[e] = Kept(m_pLinstenerList[e], gone)
        /\ ChangedAt(e, m_pLinstenerList, m_pLinstenerList')
    BY DEF Types, ListType, Unregisters, ChangedAt
  <1>2. /\ Fewer(m_pLinstenerList, m_pLinstenerList', S, Cardinality(P))
        /\ IsFiniteSet(P) /\ Cardinality(P) \in Nat
        /\ Cardinality(P) <= Count(m_pLinstenerList, S)
    BY <1>1, KeptCount
  <1>3. P = {k \in gone : m_pLinstenerList[e][k] \in S}
    BY DEF Places, PlacesIn
  <1>4. IsFiniteSet(gone) /\ Cardinality(gone) \in Nat
    <2>1. m_pLinstenerList[e] \in Seq(Listeners)
      BY <1>1
    <2>2. Len(m_pLinstenerList[e]) \in Nat /\ gone \in SUBSET (1..Len(m_pLinstenerList[e]))
      BY <2>1
    <2> QED
      BY <2>2, FinitePart
  <1>5. P \subseteq gone
    BY <1>3
  <1> HIDE DEF P
  <1>6. Cardinality(P) <= Cardinality(gone)
    BY <1>4, <1>5, FS_Subset
  <1> QED
    BY <1>2, <1>3, <1>4, <1>6 DEF P

\* The listener the collection is at.
Swept == m_pLinstenerList[sweep[1]][sweep[2]]

LEMMA CollectSteps ==
    ASSUME Types, Collect, ListType'
    PROVE  /\ collector = "sweep" /\ sweep[1] \in Events
           /\ sweep[2] \in 1..Len(m_pLinstenerList[sweep[1]]) /\ Swept \in Listeners
           /\ sweep' = <<sweep[1], sweep[2] + 1>>
           /\ UNCHANGED <<obitsSent, alive, collections, collector>>
           /\ \/ ~Dead(Swept) /\ UNCHANGED registryVars
              \/ /\ Dead(Swept)
                 /\ ChangedAt(sweep[1], m_pLinstenerList, m_pLinstenerList')
                 /\ m_pLinstenerList'[sweep[1]] = RemoveAt(m_pLinstenerList[sweep[1]], sweep[2])
                 /\ links' = Unlinked(Swept, 1)
                 /\ lost' = IF links[Swept] > 0 THEN lost + 1 ELSE lost
                 /\ \A S : Count(m_pLinstenerList', S) =
                        Count(m_pLinstenerList, S) - (IF Swept \in S THEN 1 ELSE 0)
  <1> DEFINE e == sweep[1]
             n == sweep[2]
             s == m_pLinstenerList[e]
  <1>1. /\ collector = "sweep" /\ sweep' = <<e, n + 1>> /\ e \in Events
        /\ UNCHANGED <<obitsSent, alive, collections, collector>>
    BY DEF Collect, CollectorOnly, Types, CollectorType
  <1>2. s \in Seq(Listeners)
    BY <1>1 DEF Types, ListType
  <1>3. n \in 1..Len(s)
    BY <1>2 DEF Collect, Types, CollectorType
  <1>4. s[n] \in Listeners
    BY <1>2, <1>3
  <1>5. CASE ~Dead(s[n])
    BY <1>1, <1>3, <1>4, <1>5 DEF Collect, Swept
  <1>6. CASE Dead(s[n])
    <2>1. /\ m_pLinstenerList' = [m_pLinstenerList EXCEPT ![e] = RemoveAt(s, n)]
          /\ links' = Unlinked(s[n], 1)
          /\ lost' = IF links[s[n]] > 0 THEN lost + 1 ELSE lost
      BY <1>6 DEF Collect
    <2>2. /\ ChangedAt(e, m_pLinstenerList, m_pLinstenerList')
          /\ m_pLinstenerList'[e] = RemoveAt(s, n)
      BY <1>1, <2>1 DEF Types, ListType, ChangedAt
    <2>3. /\ m_pLinstenerList \in [Events -> Seq(Listeners)]
          /\ m_pLinstenerList' \in [Events -> Seq(Listeners)]
      BY DEF Types, ListType
    <2> HIDE DEF e, n
    <2>4. ASSUME NEW S
          PROVE  Count(m_pLinstenerList', S) =
                     Count(m_pLinstenerList, S) - (IF s[n] \in S THEN 1 ELSE 0)
      BY <1>1, <1>3, <2>2, <2>3, RemovedCount
    <2> QED
      BY <1>1, <1>3, <1>4, <1>6, <2>1, <2>2, <2>4 DEF Swept, e, n
  <1> QED
    BY <1>5, <1>6

Alone(l) == \A m \in Listeners : NameOf[m] = NameOf[l] => m = l
LinkInv ==
    \A l \in Listeners :
        l \notin obitsSent /\ Alone(l) => links[l] = Count(m_pLinstenerList, {l})

LEMMA LinkStep == Types /\ MutexInv /\ LinkInv /\ [Next]_vars => LinkInv'
  <1> SUFFICES ASSUME Types, Types', MutexInv, LinkInv, [Next]_vars,
                      NEW l \in Listeners, l \notin obitsSent', Alone(l)
               PROVE  links'[l] = Count(m_pLinstenerList', {l})
    BY TypesStep DEF LinkInv, Alone
  <1>0. /\ ListType' /\ links \in [Listeners -> Nat] /\ obitsSent \subseteq Listeners
        /\ links' \in [Listeners -> Nat] /\ Count(m_pLinstenerList, {l}) \in Nat
    BY EntryFacts DEF Types, ListType, RegistryType, ClientType
  <1>1. CASE UNCHANGED registryVars /\ UNCHANGED obitsSent
    BY <1>1 DEF LinkInv, registryVars
  <1>2. ASSUME NEW m \in Listeners, sendObituary(m)
        PROVE  links'[l] = Count(m_pLinstenerList', {l})
    BY <1>0, <1>2 DEF sendObituary, LinkInv
  <1>3. CASE Collect
    <2>1. l \notin obitsSent
      BY <1>0, <1>3, CollectSteps
    <2>2. links[l] = Count(m_pLinstenerList, {l})
      BY <2>1 DEF LinkInv
    <2>3. CASE UNCHANGED registryVars
      BY <2>2, <2>3 DEF registryVars
    <2>4. CASE ~UNCHANGED registryVars
      <3>1. /\ Swept \in Listeners /\ links' = Unlinked(Swept, 1)
            /\ Count(m_pLinstenerList', {l}) =
                  Count(m_pLinstenerList, {l}) - (IF Swept \in {l} THEN 1 ELSE 0)
        BY <1>0, <1>3, <2>4, CollectSteps
      <3>2. Count(m_pLinstenerList', {l}) \in Nat
        BY <1>0, EntryFacts DEF ListType
      <3> QED
        BY <1>0, <2>1, <2>2, <3>1, <3>2 DEF Unlinked
    <2> QED
      BY <2>3, <2>4
  <1>4. ASSUME NEW e \in Events, NEW m \in Listeners, Registers(e, m), UNCHANGED obitsSent
        PROVE  links'[l] = Count(m_pLinstenerList', {l})
    <2>1. links[l] = Count(m_pLinstenerList, {l})
      BY <1>4 DEF LinkInv
    <2>2. Count(m_pLinstenerList', {l}) =
              Count(m_pLinstenerList, {l}) + (IF m \in {l} THEN 1 ELSE 0)
      BY <1>0, <1>4, RegistersCount
    <2> QED
      BY <1>0, <1>4, <2>1, <2>2 DEF Registers
  <1>5. ASSUME NEW e \in Events, NEW m \in Listeners,
               NEW gone \in SUBSET DOMAIN m_pLinstenerList[e], Unregisters(e, m, gone),
               UNCHANGED obitsSent
        PROVE  links'[l] = Count(m_pLinstenerList', {l})
    <2> DEFINE P == PlacesIn(m_pLinstenerList[e], {l}, gone)
    <2>1. links[l] = Count(m_pLinstenerList, {l})
      BY <1>5 DEF LinkInv
    <2>2. /\ Count(m_pLinstenerList', {l}) = Count(m_pLinstenerList, {l}) - Cardinality(P)
          /\ Cardinality(P) \in Nat /\ Cardinality(P) <= Count(m_pLinstenerList, {l})
          /\ P = {k \in gone : m_pLinstenerList[e][k] \in {l}}
      <3>1. /\ Fewer(m_pLinstenerList, m_pLinstenerList', {l}, Cardinality(P))
            /\ Cardinality(P) \in Nat /\ Cardinality(P) <= Count(m_pLinstenerList, {l})
            /\ P = {k \in gone : m_pLinstenerList[e][k] \in {l}}
        BY <1>0, <1>5, UnregistersCount
      <3> QED
        BY <3>1 DEF Fewer
    <2>3. /\ \A k \in gone : NameOf[m_pLinstenerList[e][k]] = NameOf[m]
          /\ links' = Unlinked(m, Cardinality(gone))
      BY <1>5 DEF Unregisters
    <2>4. \A k \in gone : m_pLinstenerList[e][k] \in Listeners
      <3>1. m_pLinstenerList[e] \in Seq(Listeners)
        BY DEF Types, ListType
      <3> QED
        BY <3>1
    <2> HIDE DEF P
    <2>5. CASE m = l
      <3>1. P = gone
        BY <2>2, <2>3, <2>4, <2>5 DEF Alone
      <3> QED
        BY <1>0, <1>5, <2>1, <2>2, <2>3, <2>5, <3>1 DEF Unlinked
    <2>6. CASE m # l
      <3>1. P = {}
        BY <2>2, <2>3, <2>6 DEF Alone
      <3>2. Cardinality(P) = 0
        BY <3>1, FS_EmptySet, Zenon
      <3>3. links'[l] = links[l]
        BY <1>0, <2>3, <2>6 DEF Unlinked
      <3> QED
        BY <1>0, <2>1, <2>2, <3>2, <3>3
    <2> QED
      BY <2>5, <2>6
  <1> QED
    BY <1>1, <1>2, <1>3, <1>4, <1>5, RegistrySteps

\* A listener whose name is its own has one death recipient per entry, until
\* its obituary: what it registers and unregisters, and what collections take,
\* keep both in step (linkToDeath and unlinkToDeath in Event.cpp).
THEOREM OneLinkPerEntry == Spec => []LinkPerEntry
  <1>1. Init => LinkInv
    <2> SUFFICES ASSUME Init, NEW l \in Listeners PROVE links[l] = Count(m_pLinstenerList, {l})
      BY DEF LinkInv
    <2>1. m_pLinstenerList \in [Events -> Seq(Listeners)] /\ links[l] = 0
      BY DEF Init
    <2>2. \A e \in Events : Len(m_pLinstenerList[e]) = 0
      BY DEF Init
    <2>3. \A x : ~(x \in EntriesOver(m_pLinstenerList, {l}))
      BY <2>1, <2>2, EntryFacts
    <2>4. EntriesOver(m_pLinstenerList, {l}) = {}
      BY <2>3
    <2> QED
      BY <2>1, <2>4, FS_EmptySet, Zenon DEF Count
  <1>2. LinkInv => LinkPerEntry
    BY DEF LinkInv, LinkPerEntry, Alone, Count, EntriesOver, EntriesOf, EntriesIn
  <1> QED
    BY <1>1, <1>2, TypesInit, TypesStep, MutexInit, MutexStep, LinkStep, PTL DEF Spec

-----------------------------------------------------------------------------
(* Sums: the sum of m over the listeners is the size of this set.          *)

Rows(m) == {x \in Listeners \X Nat : 0 < x[2] /\ x[2] <= m[x[1]]}
Total(m) == Cardinality(Rows(m))

LEMMA TotalType ==
    ASSUME NEW m \in [Listeners -> Nat]
    PROVE  IsFiniteSet(Rows(m)) /\ Total(m) \in Nat
  <1> DEFINE row == [l \in Listeners |-> {l} \X (1..m[l])]
             All == {{l} \X (1..m[l]) : l \in Listeners}
  <1>1. row \in Surjection(Listeners, All)
    BY Zenon DEF Surjection
  <1>2. IsFiniteSet(All)
    BY <1>1, RegistryAssumption, FS_Surjection
  <1>3. ASSUME NEW l \in Listeners PROVE IsFiniteSet({l} \X (1..m[l]))
    <2>1. IsFiniteSet({l})
      BY FS_Singleton, Zenon
    <2>2. 1 \in Int /\ m[l] \in Int
      OBVIOUS
    <2>3. IsFiniteSet(1..m[l])
      BY <2>2, FS_Interval, Zenon
    <2> QED
      BY <2>1, <2>3, FS_Product, Zenon
  <1>4. \A T \in All : IsFiniteSet(T)
    BY <1>3
  <1>5. IsFiniteSet(UNION All)
    BY <1>2, <1>4, FS_UNION
  <1>6. ASSUME NEW x \in Rows(m) PROVE x \in UNION All
    <2>1. PICK l \in Listeners, j \in Nat : x = <<l, j>> /\ 0 < j /\ j <= m[l]
      BY DEF Rows
    <2>2. x \in {l} \X (1..m[l])
      BY <2>1
    <2>3. {l} \X (1..m[l]) \in All
      OBVIOUS
    <2> HIDE DEF All
    <2> QED
      BY <2>2, <2>3
  <1> HIDE DEF All
  <1>7. IsFiniteSet(Rows(m))
    BY <1>5, <1>6, FS_Subset
  <1> QED
    BY <1>7, FS_CardinalityType DEF Total

\* Only the term of l may grow.
LEMMA TotalChange ==
    ASSUME NEW m \in [Listeners -> Nat], NEW new \in [Listeners -> Nat],
           NEW l \in Listeners, \A k \in Listeners : k # l => new[k] <= m[k]
    PROVE  Total(new) <= Total(m) - m[l] + new[l] /\ m[l] <= Total(m)
  <1> DEFINE Row(f) == {l} \X (1..f[l])
             Rest(f) == {x \in Rows(f) : x[1] # l}
  <1>1. ASSUME NEW f \in [Listeners -> Nat]
        PROVE  /\ Total(f) = Cardinality(Rest(f)) + f[l]
               /\ IsFiniteSet(Rest(f)) /\ Cardinality(Rest(f)) \in Nat
    <2>1. Rows(f) = Rest(f) \cup Row(f) /\ Rest(f) \cap Row(f) = {} /\ Rest(f) \subseteq Rows(f)
      BY DEF Rows
    <2>2. IsFiniteSet(Row(f)) /\ Cardinality(Row(f)) = f[l]
      <3>1. IsFiniteSet({l}) /\ Cardinality({l}) = 1
        BY FS_Singleton, Zenon
      <3>2. IsFiniteSet(1..f[l]) /\ Cardinality(1..f[l]) = f[l]
        BY FS_Interval
      <3>3. /\ IsFiniteSet({l} \X (1..f[l]))
            /\ Cardinality({l} \X (1..f[l])) = Cardinality({l}) * Cardinality(1..f[l])
        BY <3>1, <3>2, FS_Product, Zenon
      <3>4. 1 * f[l] = f[l]
        OBVIOUS
      <3> QED
        BY <3>1, <3>2, <3>3, <3>4, Zenon
    <2> HIDE DEF Rest, Row
    <2>3. IsFiniteSet(Rest(f)) /\ Cardinality(Rest(f)) \in Nat
      BY <2>1, TotalType, FS_Subset, FS_CardinalityType
    <2>4. Cardinality(Rows(f)) = Cardinality(Rest(f)) + Cardinality(Row(f))
      BY <2>1, <2>2, <2>3, DisjointUnion, Zenon
    <2> QED
      BY <2>2, <2>3, <2>4 DEF Total
  <1>2. Rest(new) \subseteq Rest(m)
    <2> SUFFICES ASSUME NEW x \in Rest(new) PROVE x \in Rest(m)
      OBVIOUS
    <2>1. PICK k \in Listeners, j \in Nat : x = <<k, j>> /\ 0 < j /\ j <= new[k] /\ k # l
      BY DEF Rows
    <2>2. j <= m[k]
      BY <2>1
    <2> QED
      BY <2>1, <2>2 DEF Rows
  <1> HIDE DEF Rest
  <1>3. Cardinality(Rest(new)) <= Cardinality(Rest(m))
    BY <1>1, <1>2, FS_Subset
  <1> QED
    BY <1>1, <1>3

\* Entries of two separate sets of listeners.
LEMMA CountUnion ==
    ASSUME NEW lists \in [Events -> Seq(Listeners)], NEW S, NEW T, S \cap T = {}
    PROVE  Count(lists, S \cup T) = Count(lists, S) + Count(lists, T)
  <1>1. EntriesOver(lists, S \cup T) = EntriesOver(lists, S) \cup EntriesOver(lists, T)
    BY DEF EntriesOver
  <1>2. EntriesOver(lists, S) \cap EntriesOver(lists, T) = {}
    BY DEF EntriesOver
  <1>3. /\ IsFiniteSet(EntriesOver(lists, S)) /\ IsFiniteSet(EntriesOver(lists, T))
        /\ Count(lists, S) \in Nat /\ Count(lists, T) \in Nat
    BY EntryFacts
  <1>4. Cardinality(EntriesOver(lists, S) \cup EntriesOver(lists, T)) =
            Cardinality(EntriesOver(lists, S)) + Cardinality(EntriesOver(lists, T))
    BY <1>2, <1>3, DisjointUnion, Zenon
  <1> QED
    BY <1>1, <1>4, Zenon DEF Count

-----------------------------------------------------------------------------
(* Automatic collection.                                                   *)

\* The death recipients a listener lacks, and whether the running collection
\* has an entry of a reported listener before it.
MissingLinks(lists, recipients, obits) ==
    [l \in Listeners |-> IF l \in obits \/ Count(lists, {l}) <= recipients[l] THEN 0
                         ELSE Count(lists, {l}) - recipients[l]]
missing == MissingLinks(m_pLinstenerList, links, obitsSent)

Before(x, e, n) == x[1] > e \/ (x[1] = e /\ x[2] >= n)
Sweeping == collector \in {"lock_death", "lock_list", "sweep"}
Ahead == Sweeping /\ \E x \in EntriesOver(m_pLinstenerList, obitsSent) : Before(x, sweep[1], sweep[2])
UnderWay == IF Ahead THEN 1 ELSE 0

\* Each collection that has started takes an entry of a reported listener as
\* long as there is one before it, and there are as many collections, started
\* and to come, as such entries and missing death recipients, but for the lost.
PositionInv ==
    /\ \A l \in obitsSent : Dead(l) /\ links[l] = 0
    /\ collector \in {"idle", "lock_death"} => sweep = <<0, 1>>
    /\ collector = "lock_list" => sweep[2] = 1
BalanceInv ==
    /\ Total(missing) <= lost
    /\ Count(m_pLinstenerList, obitsSent) + Total(missing) <= lost + collections + UnderWay

LEMMA PositionStep == Types /\ MutexInv /\ PositionInv /\ [Next]_vars => PositionInv'
  <1> SUFFICES ASSUME Types, Types', MutexInv, PositionInv, [Next]_vars PROVE PositionInv'
    BY TypesStep
  <1>0. /\ links \in [Listeners -> Nat] /\ obitsSent \subseteq Listeners
        /\ ListType'
    BY DEF Types, RegistryType, ClientType
  <1>1. \A l \in obitsSent' : Dead(l)' /\ links'[l] = 0
    <2>1. alive' \subseteq alive
      <3>1. ASSUME NEW p \in Processes, Die(p) PROVE alive' \subseteq alive
        BY <3>1 DEF Die
      <3>2. ASSUME ~ \E p \in Processes : Die(p) PROVE alive' = alive
        BY <3>2 DEF Next, ServiceStep, MakeCall, ReadSize, sendObituary, RegisterEventListener,
           UnregisterEventListener, Call, LooperStep, LockList, PostToListener, EndLoop,
           ResetSlot, LooperOnly, DeliveryStep, OnEvent, HandlerSends, OnEventFails,
           EndDelivery, StartDelivery, DeliveryOnly, CollectorStep, SweepStep,
           StartCollection, LockDeath, LockNextList, Collect, EndSweep, EndCollection,
           CollectorOnly, vars
      <3> QED
        BY <3>1, <3>2
    <2>2. \A l : Dead(l) => Dead(l)'
      BY <2>1 DEF Dead
    <2>3. CASE UNCHANGED registryVars /\ UNCHANGED obitsSent
      BY <2>2, <2>3 DEF PositionInv, registryVars
    <2>4. ASSUME NEW m \in Listeners, sendObituary(m)
          PROVE  \A l \in obitsSent' : Dead(l)' /\ links'[l] = 0
      BY <1>0, <2>2, <2>4 DEF PositionInv, sendObituary
    <2>5. CASE Collect
      <3>1. UNCHANGED obitsSent /\ (UNCHANGED registryVars \/ links' = Unlinked(Swept, 1))
        BY <1>0, <2>5, CollectSteps
      <3>2. \A l \in obitsSent : links'[l] = links[l]
        BY <1>0, <3>1 DEF Unlinked, registryVars
      <3> QED
        BY <2>2, <3>1, <3>2 DEF PositionInv
    <2>6. ASSUME UNCHANGED obitsSent, NEW e \in Events, NEW m \in Listeners, Registers(e, m)
          PROVE  \A l \in obitsSent' : Dead(l)' /\ links'[l] = 0
      BY <1>0, <2>2, <2>6 DEF PositionInv, Registers
    <2>7. ASSUME UNCHANGED obitsSent, NEW e \in Events, NEW m \in Listeners, NEW gone,
                 Unregisters(e, m, gone)
          PROVE  \A l \in obitsSent' : Dead(l)' /\ links'[l] = 0
      BY <1>0, <2>2, <2>7 DEF PositionInv, Unregisters, Unlinked
    <2> QED
      BY <2>3, <2>4, <2>5, <2>6, <2>7, RegistrySteps
  <1>2. CASE UNCHANGED <<collector, sweep>>
    BY <1>1, <1>2 DEF PositionInv
  <1>3. CASE CollectorStep
    <2>1. CASE StartCollection \/ LockDeath \/ LockNextList \/ EndCollection
      BY <1>1, <2>1 DEF PositionInv, StartCollection, LockDeath, LockNextList, EndCollection
    <2>2. CASE Collect
      BY <1>0, <1>1, <2>2, CollectSteps DEF PositionInv
    <2>3. CASE EndSweep
      BY <1>1, <2>3 DEF PositionInv, EndSweep
    <2> QED
      BY <1>3, <2>1, <2>2, <2>3 DEF CollectorStep, SweepStep
  <1>4. ASSUME ~CollectorStep PROVE UNCHANGED <<collector, sweep>>
    BY <1>4 DEF Next, ServiceStep, Die, MakeCall, ReadSize, sendObituary, RegisterEventListener,
       UnregisterEventListener, Call, LooperStep, LockList, PostToListener, EndLoop, ResetSlot,
       LooperOnly, DeliveryStep, OnEvent, HandlerSends, OnEventFails, EndDelivery,
       StartDelivery, DeliveryOnly, collectorVars, vars
  <1> QED
    BY <1>2, <1>3, <1>4

LEMMA MissingFacts ==
    ASSUME NEW lists \in [Events -> Seq(Listeners)], NEW recipients \in [Listeners -> Nat],
           NEW obits
    PROVE  MissingLinks(lists, recipients, obits) \in [Listeners -> Nat]
  <1>1. \A l \in Listeners : Count(lists, {l}) \in Nat /\ recipients[l] \in Nat
    BY EntryFacts
  <1> QED
    BY <1>1 DEF MissingLinks

LEMMA BalanceTypes ==
    ASSUME Types
    PROVE  /\ m_pLinstenerList \in [Events -> Seq(Listeners)]
           /\ links \in [Listeners -> Nat] /\ obitsSent \subseteq Listeners
           /\ Count(m_pLinstenerList, obitsSent) \in Nat
           /\ missing \in [Listeners -> Nat] /\ Total(missing) \in Nat
           /\ lost \in Nat /\ collections \in Nat /\ UnderWay \in {0, 1}
  <1>1. m_pLinstenerList \in [Events -> Seq(Listeners)] /\ links \in [Listeners -> Nat]
    BY DEF Types, ListType, RegistryType
  <1>2. missing \in [Listeners -> Nat]
    BY <1>1, MissingFacts DEF missing
  <1>3. Total(missing) \in Nat
    BY <1>2, TotalType
  <1>4. Count(m_pLinstenerList, obitsSent) \in Nat
    BY <1>1, EntryFacts
  <1> QED
    BY <1>1, <1>2, <1>3, <1>4 DEF Types, RegistryType, ClientType, CollectorType, UnderWay

LEMMA BalanceTypesAfter ==
    ASSUME Types'
    PROVE  /\ m_pLinstenerList' \in [Events -> Seq(Listeners)]
           /\ links' \in [Listeners -> Nat]
           /\ Count(m_pLinstenerList', obitsSent') \in Nat
           /\ missing' \in [Listeners -> Nat] /\ Total(missing') \in Nat
           /\ lost' \in Nat /\ collections' \in Nat /\ UnderWay' \in {0, 1}
  <1>1. m_pLinstenerList' \in [Events -> Seq(Listeners)] /\ links' \in [Listeners -> Nat]
    BY DEF Types, ListType, RegistryType
  <1>2. missing' \in [Listeners -> Nat]
    BY <1>1, MissingFacts DEF missing
  <1>3. Total(missing') \in Nat
    BY <1>2, TotalType
  <1>4. Count(m_pLinstenerList', obitsSent') \in Nat
    BY <1>1, EntryFacts
  <1> QED
    BY <1>1, <1>2, <1>3, <1>4 DEF Types, RegistryType, CollectorType, UnderWay

LEMMA BalanceCollector ==
    ASSUME Types, Types', PositionInv, BalanceInv, UNCHANGED registryVars, UNCHANGED obitsSent,
           StartCollection \/ LockDeath \/ LockNextList \/ EndSweep \/ EndCollection
    PROVE  BalanceInv'
  <1> DEFINE R == Count(m_pLinstenerList, obitsSent)
             M == Total(missing)
             All == EntriesOver(m_pLinstenerList, obitsSent)
  <1>1. R \in Nat /\ M \in Nat /\ lost \in Nat /\ collections \in Nat /\ UnderWay \in {0, 1}
        /\ m_pLinstenerList \in [Events -> Seq(Listeners)]
    BY BalanceTypes
  <1>2. missing' = missing /\ lost' = lost
        /\ Count(m_pLinstenerList', obitsSent') = R
        /\ EntriesOver(m_pLinstenerList', obitsSent') = All
    BY DEF missing, registryVars
  <1>3. M <= lost /\ R + M <= lost + collections + UnderWay
    BY DEF BalanceInv
  <1> SUFFICES R + M <= lost + collections' + UnderWay'
    BY <1>2, <1>3 DEF BalanceInv
  <1>a. Ahead' <=> Sweeping' /\ \E x \in All : Before(x, sweep'[1], sweep'[2])
    BY <1>2 DEF Ahead, Before
  <1>e. \A x \in All : \E e \in Events : \E n \in 1..Len(m_pLinstenerList[e]) : x = <<e, n>>
    BY <1>1, EntryFacts
  <1>4. CASE StartCollection
    <2>1. /\ collections > 0 /\ collections' = collections - 1 /\ ~Ahead
          /\ sweep' = <<0, 1>> /\ Sweeping'
      BY <1>4 DEF StartCollection, PositionInv, Ahead, Sweeping
    <2>2. CASE R = 0
      <3>1. UnderWay' \in {0, 1}
        BY DEF UnderWay
      <3> QED
        BY <1>1, <1>3, <2>1, <2>2, <3>1
    <2>3. CASE R # 0
      <3>1. IsFiniteSet(All)
        BY <1>1, EntryFacts
      <3>2. All # {}
        BY <2>3, <3>1, FS_EmptySet, Zenon DEF Count
      <3>3. PICK x \in All : TRUE
        BY <3>2
      <3>4. Before(x, 0, 1)
        BY <1>e, RegistryFacts DEF Before
      <3>5. Ahead'
        BY <1>a, <2>1, <3>4
      <3> QED
        BY <1>1, <1>3, <2>1, <3>5 DEF UnderWay
    <2> QED
      BY <2>2, <2>3
  <1>5. CASE LockDeath \/ LockNextList
    <2>1. sweep' = sweep /\ Sweeping /\ Sweeping' /\ collections' = collections
      BY <1>5 DEF LockDeath, LockNextList, Sweeping
    <2>2. Ahead' <=> Ahead
      BY <1>a, <2>1 DEF Ahead
    <2> QED
      BY <1>1, <1>3, <2>1, <2>2 DEF UnderWay
  <1>6. CASE EndSweep
    <2> DEFINE e == sweep[1]
    <2>1. /\ collections' = collections /\ sweep[2] > Len(m_pLinstenerList[e]) /\ e \in Events
          /\ \/ e + 1 < EVENT_MAX /\ sweep' = <<e + 1, 1>> /\ Sweeping'
             \/ ~(e + 1 < EVENT_MAX)
      BY <1>6 DEF EndSweep, MoreLists, Sweeping, Types, CollectorType
    <2>2. Ahead => Ahead'
      <3> SUFFICES ASSUME NEW x \in All, Before(x, e, sweep[2]) PROVE Ahead'
        BY DEF Ahead
      <3>0. PICK d \in Events : \E n \in 1..Len(m_pLinstenerList[d]) : x = <<d, n>>
        BY <1>e
      <3>1. PICK n \in 1..Len(m_pLinstenerList[d]) : x = <<d, n>>
        BY <3>0
      <3>a. x[1] = d /\ x[2] = n
        BY <3>1
      <3>b. /\ d \in Nat /\ e \in Nat /\ sweep[2] \in Nat
            /\ Len(m_pLinstenerList[d]) \in Nat /\ n \in 1..Len(m_pLinstenerList[d])
            /\ d < EVENT_MAX
        BY <1>1, <2>1, RegistryFacts DEF Types, CollectorType, Events
      <3> HIDE DEF e, All
      <3>2. d > e
        BY <2>1, <3>a, <3>b DEF Before
      <3>3. e + 1 < EVENT_MAX
        BY <3>2, <3>b, RegistryFacts
      <3>4. Before(x, e + 1, 1)
        BY <3>a, <3>b, <3>2 DEF Before
      <3> QED
        BY <1>a, <2>1, <3>3, <3>4 DEF e
    <2> QED
      BY <1>1, <1>3, <2>1, <2>2 DEF UnderWay
  <1>7. CASE EndCollection
    <2>1. ~Ahead /\ collections' = collections
      BY <1>7 DEF EndCollection, Ahead, Sweeping
    <2>2. UnderWay' \in {0, 1}
      BY DEF UnderWay
    <2> QED
      BY <1>1, <1>3, <2>1, <2>2 DEF UnderWay
  <1> QED
    BY <1>4, <1>5, <1>6, <1>7

LEMMA BalanceObituary ==
    ASSUME Types, Types', PositionInv, BalanceInv, NEW l \in Listeners, sendObituary(l)
    PROVE  BalanceInv'
  <1> DEFINE R == Count(m_pLinstenerList, obitsSent)
             M == Total(missing)
  <1>1. /\ R \in Nat /\ M \in Nat /\ lost \in Nat /\ collections \in Nat /\ UnderWay \in {0, 1}
        /\ m_pLinstenerList \in [Events -> Seq(Listeners)]
        /\ links \in [Listeners -> Nat] /\ obitsSent \subseteq Listeners
        /\ missing \in [Listeners -> Nat]
    BY BalanceTypes
  <1>2. /\ l \notin obitsSent /\ obitsSent' = obitsSent \cup {l}
        /\ links' = [links EXCEPT ![l] = 0] /\ collections' = collections + links[l]
        /\ UNCHANGED <<m_pLinstenerList, lost, collector, sweep>>
    BY DEF sendObituary, binderDied
  <1>3. M <= lost /\ R + M <= lost + collections + UnderWay
    BY DEF BalanceInv
  <1>4. Count(m_pLinstenerList', obitsSent') = R + Count(m_pLinstenerList, {l})
    <2>1. obitsSent \cap {l} = {}
      BY <1>2
    <2> QED
      BY <1>1, <1>2, <2>1, CountUnion
  <1>5. /\ missing' \in [Listeners -> Nat] /\ missing'[l] = 0
        /\ \A k \in Listeners : k # l => missing'[k] = missing[k]
    <2>1. missing' = MissingLinks(m_pLinstenerList, links', obitsSent')
      BY <1>2 DEF missing
    <2>2. links' \in [Listeners -> Nat] /\ \A k \in Listeners : k # l => links'[k] = links[k]
      BY <1>1, <1>2
    <2>3. \A k \in Listeners : k # l => (k \in obitsSent' <=> k \in obitsSent)
      BY <1>2
    <2> DEFINE new == MissingLinks(m_pLinstenerList, links', obitsSent')
    <2>4. new \in [Listeners -> Nat] /\ new[l] = 0
      <3>1. new \in [Listeners -> Nat]
        BY <1>1, <2>2, MissingFacts, Zenon
      <3>2. l \in obitsSent'
        BY <1>2
      <3>3. new[l] = 0
        BY <3>2 DEF MissingLinks
      <3> QED
        BY <3>1, <3>3
    <2>5. ASSUME NEW k \in Listeners, k # l PROVE new[k] = missing[k]
      BY <2>2, <2>3, <2>5 DEF missing, MissingLinks
    <2> QED
      BY <2>1, <2>4, <2>5
  <1>6. Total(missing') <= M - missing[l] + 0 /\ missing[l] <= M
    <2>1. \A k \in Listeners : k # l => missing'[k] <= missing[k]
      BY <1>1, <1>5
    <2> QED
      BY <1>1, <1>5, <2>1, TotalChange
  <1>7. /\ Count(m_pLinstenerList, {l}) \in Nat /\ missing[l] \in Nat /\ links[l] \in Nat
        /\ Count(m_pLinstenerList, {l}) <= links[l] + missing[l]
    <2>1. Count(m_pLinstenerList, {l}) \in Nat /\ missing[l] \in Nat /\ links[l] \in Nat
      BY <1>1, EntryFacts
    <2>2. missing[l] = IF Count(m_pLinstenerList, {l}) <= links[l] THEN 0
                       ELSE Count(m_pLinstenerList, {l}) - links[l]
      BY <1>2 DEF missing, MissingLinks
    <2> QED
      BY <2>1, <2>2
  <1>8. Ahead => Ahead'
    <2>1. EntriesOver(m_pLinstenerList, obitsSent) \subseteq EntriesOver(m_pLinstenerList', obitsSent')
      BY <1>2 DEF EntriesOver
    <2> QED
      BY <1>2, <2>1 DEF Ahead, Sweeping, Before
  <1>9. UnderWay <= UnderWay' /\ UnderWay' \in {0, 1}
    BY <1>8 DEF UnderWay
  <1>10. Total(missing') \in Nat
    BY <1>5, TotalType
  <1> DEFINE C == Count(m_pLinstenerList, {l})
             Mn == Total(missing')
             Rn == Count(m_pLinstenerList', obitsSent')
  <1>13. Rn = R + C
    BY <1>4
  <1>14. /\ R \in Nat /\ M \in Nat /\ C \in Nat /\ Mn \in Nat /\ Mn <= M - missing[l]
         /\ C <= links[l] + missing[l] /\ missing[l] \in Nat /\ links[l] \in Nat
    BY <1>1, <1>6, <1>7, <1>10
  <1> HIDE DEF R, M, C, Mn, Rn
  <1>11. Mn <= lost'
    BY <1>1, <1>2, <1>3, <1>14
  <1>12. Rn + Mn <= lost' + collections' + UnderWay'
    BY <1>1, <1>2, <1>3, <1>9, <1>13, <1>14
  <1> QED
    BY <1>11, <1>12 DEF BalanceInv, Mn, Rn

LEMMA BalanceRegisters ==
    ASSUME Types, Types', BalanceInv, NEW e \in Events, NEW l \in Listeners, Registers(e, l),
           UNCHANGED <<obitsSent, alive, collectorVars>>
    PROVE  BalanceInv'
  <1>1. /\ Count(m_pLinstenerList, obitsSent) \in Nat /\ Total(missing) \in Nat
        /\ lost \in Nat /\ collections \in Nat /\ UnderWay \in {0, 1}
        /\ m_pLinstenerList \in [Events -> Seq(Listeners)]
        /\ links \in [Listeners -> Nat] /\ missing \in [Listeners -> Nat]
    BY BalanceTypes
  <1>2. /\ m_pLinstenerList' \in [Events -> Seq(Listeners)] /\ ListType'
        /\ missing' \in [Listeners -> Nat] /\ UnderWay' \in {0, 1}
    BY BalanceTypesAfter DEF Types
  <1>3. obitsSent' = obitsSent
        /\ collections' = collections /\ collector' = collector /\ sweep' = sweep
    BY DEF collectorVars
  <1>4. /\ Count(m_pLinstenerList', obitsSent') =
              Count(m_pLinstenerList, obitsSent) + (IF l \in obitsSent THEN 1 ELSE 0)
        /\ lost' = lost + (IF l \in obitsSent THEN 1 ELSE 0)
    <2>1. Count(m_pLinstenerList', obitsSent) =
              Count(m_pLinstenerList, obitsSent) + (IF l \in obitsSent THEN 1 ELSE 0)
      BY <1>2, RegistersCount
    <2>2. lost' = lost + (IF l \in obitsSent THEN 1 ELSE 0)
      BY <1>1 DEF Registers
    <2> QED
      BY <1>3, <2>1, <2>2
  <1>5. ASSUME NEW k \in Listeners PROVE missing'[k] = missing[k]
    <2>1. /\ Count(m_pLinstenerList, {k}) \in Nat
          /\ Count(m_pLinstenerList', {k}) =
                Count(m_pLinstenerList, {k}) + (IF l \in {k} THEN 1 ELSE 0)
      BY <1>1, <1>2, RegistersCount, EntryFacts
    <2>2. links[k] \in Nat
          /\ links'[k] = links[k] + (IF l \notin obitsSent /\ k = l THEN 1 ELSE 0)
      BY <1>1 DEF Registers
    <2> DEFINE C == Count(m_pLinstenerList, {k})
               Cn == Count(m_pLinstenerList', {k})
    <2>3. missing[k] = IF k \in obitsSent \/ C <= links[k] THEN 0 ELSE C - links[k]
      BY DEF missing, MissingLinks
    <2>4. missing'[k] = IF k \in obitsSent' \/ Cn <= links'[k] THEN 0 ELSE Cn - links'[k]
      BY DEF missing, MissingLinks
    <2>5. C \in Nat /\ Cn = C + (IF l = k THEN 1 ELSE 0)
      BY <2>1
    <2> HIDE DEF C, Cn
    <2> QED
      BY <1>3, <2>2, <2>3, <2>4, <2>5
  <1>6. missing' = missing
    BY <1>1, <1>2, <1>5
  <1>7. Ahead => Ahead'
    <2> SUFFICES ASSUME NEW x \in EntriesOver(m_pLinstenerList, obitsSent)
                 PROVE  x \in EntriesOver(m_pLinstenerList', obitsSent')
      BY <1>3 DEF Ahead, Sweeping, Before
    <2>0. \E d \in Events : \E n \in 1..Len(m_pLinstenerList[d]) :
              x = <<d, n>> /\ m_pLinstenerList[d][n] \in obitsSent
      BY <1>1, EntryFacts, Zenon
    <2>a. PICK d \in Events : \E n \in 1..Len(m_pLinstenerList[d]) :
              x = <<d, n>> /\ m_pLinstenerList[d][n] \in obitsSent
      BY <2>0, Zenon
    <2>1. PICK n \in 1..Len(m_pLinstenerList[d]) :
              x = <<d, n>> /\ m_pLinstenerList[d][n] \in obitsSent
      BY <2>a, Zenon
    <2>2. n \in 1..Len(m_pLinstenerList'[d]) /\ m_pLinstenerList'[d][n] = m_pLinstenerList[d][n]
      <3>1. m_pLinstenerList[d] \in Seq(Listeners)
        BY <1>1
      <3>2. \/ m_pLinstenerList'[d] = m_pLinstenerList[d]
            \/ m_pLinstenerList'[d] = Append(m_pLinstenerList[d], l)
        BY <1>1 DEF Registers
      <3> QED
        BY <3>1, <3>2
    <2>3. \E f \in Events : \E j \in 1..Len(m_pLinstenerList'[f]) :
              x = <<f, j>> /\ m_pLinstenerList'[f][j] \in obitsSent'
      BY <1>3, <2>1, <2>2
    <2> QED
      BY <1>2, <2>3, EntryFacts, Zenon
  <1>8. UnderWay <= UnderWay'
    BY <1>7 DEF UnderWay
  <1> DEFINE R == Count(m_pLinstenerList, obitsSent)
             M == Total(missing)
             Rn == Count(m_pLinstenerList', obitsSent')
             Mn == Total(missing')
             n == IF l \in obitsSent THEN 1 ELSE 0
             u == UnderWay
             un == UnderWay'
  <1>9. /\ R \in Nat /\ M \in Nat /\ Mn = M /\ Rn = R + n /\ lost' = lost + n /\ n \in Nat
        /\ u \in Nat /\ un \in Nat /\ u <= un /\ lost \in Nat /\ collections \in Nat
    BY <1>1, <1>2, <1>4, <1>6, <1>8
  <1>10. M <= lost /\ R + M <= lost + collections + u
    BY DEF BalanceInv
  <1> HIDE DEF R, M, Rn, Mn, n, u, un
  <1>11. Mn <= lost' /\ Rn + Mn <= lost' + collections + un
    BY <1>9, <1>10
  <1> QED
    BY <1>3, <1>11 DEF BalanceInv, Rn, Mn, un

LEMMA AtLeast == \A x \in Int : Max({0, x}) >= 0 /\ Max({0, x}) >= x /\ Max({0, x}) \in Nat
  <1> SUFFICES ASSUME NEW x \in Int PROVE Max({0, x}) >= 0 /\ Max({0, x}) >= x
    BY NotNegative
  <1>1. \E m \in {0, x} : \A y \in {0, x} : m >= y
    <2>1. CASE x >= 0
      BY <2>1
    <2>2. CASE ~(x >= 0)
      BY <2>2
    <2> QED
      BY <2>1, <2>2
  <1>2. Max({0, x}) \in {0, x} /\ \A y \in {0, x} : Max({0, x}) >= y
    BY <1>1 DEF Max
  <1> QED
    BY <1>2

\* A removal that takes no entry of a reported listener leaves one before the
\* collection.
LEMMA StillAhead ==
    ASSUME Types, Types', MutexInv, PositionInv, NEW e \in Events, NEW l \in Listeners,
           NEW gone \in SUBSET DOMAIN m_pLinstenerList[e], Unregisters(e, l, gone),
           UNCHANGED <<obitsSent, alive, collectorVars>>,
           PlacesIn(m_pLinstenerList[e], obitsSent, gone) = {}, Ahead
    PROVE  Ahead'
  <1>1. /\ m_pLinstenerList \in [Events -> Seq(Listeners)]
        /\ m_pLinstenerList' \in [Events -> Seq(Listeners)]
    BY BalanceTypes, BalanceTypesAfter
  <1>2. obitsSent' = obitsSent /\ collector' = collector /\ sweep' = sweep
    BY DEF collectorVars
  <1>3. PICK x \in EntriesOver(m_pLinstenerList, obitsSent) : Before(x, sweep[1], sweep[2])
    BY DEF Ahead
  <1>4. \E d \in Events : \E n \in 1..Len(m_pLinstenerList[d]) :
            x = <<d, n>> /\ m_pLinstenerList[d][n] \in obitsSent
    BY <1>1, EntryFacts, Zenon
  <1>5. PICK d \in Events : \E n \in 1..Len(m_pLinstenerList[d]) :
            x = <<d, n>> /\ m_pLinstenerList[d][n] \in obitsSent
    BY <1>4, Zenon
  <1>6. PICK n \in 1..Len(m_pLinstenerList[d]) :
            x = <<d, n>> /\ m_pLinstenerList[d][n] \in obitsSent
    BY <1>5, Zenon
  <1> SUFFICES \E y \in EntriesOver(m_pLinstenerList', obitsSent') : Before(y, sweep[1], sweep[2])
    BY <1>2 DEF Ahead, Sweeping, Before
  <1>7. CASE d # e
    <2>1. m_pLinstenerList'[d] = m_pLinstenerList[d]
      BY <1>1, <1>7 DEF Unregisters
    <2>2. \E f \in Events : \E j \in 1..Len(m_pLinstenerList'[f]) :
              x = <<f, j>> /\ m_pLinstenerList'[f][j] \in obitsSent'
      BY <1>2, <1>6, <2>1
    <2>3. x \in EntriesOver(m_pLinstenerList', obitsSent')
      BY <1>1, <2>2, EntryFacts, Zenon
    <2> QED
      BY <1>3, <2>3
  <1>8. CASE d = e
    <2> DEFINE s == m_pLinstenerList[e]
               t == m_pLinstenerList'[e]
    <2>1. s \in Seq(Listeners) /\ t \in Seq(Listeners) /\ t = Kept(s, gone)
      BY <1>1 DEF Unregisters
    <2>2. n \in Places(s, obitsSent) \ gone
      BY <1>6, <1>8, <2>1 DEF PlacesIn, Places
    <2>3. Places(t, obitsSent) # {}
      BY <2>1, <2>2, KeptPlaces
    <2>4. PICK j \in 1..Len(t) : t[j] \in obitsSent
      BY <2>1, <2>3 DEF Places
    <2>5. <<e, j>> \in EntriesOver(m_pLinstenerList', obitsSent')
      <3>1. \E f \in Events : \E i \in 1..Len(m_pLinstenerList'[f]) :
                <<e, j>> = <<f, i>> /\ m_pLinstenerList'[f][i] \in obitsSent'
        BY <1>2, <2>4
      <3> QED
        BY <1>1, <3>1, EntryFacts, Zenon
    <2>6. /\ sweep[1] \in Nat /\ sweep[2] \in Nat /\ e \in Nat /\ j \in Nat /\ j > 0
      BY <2>1, RegistryFacts DEF Types, CollectorType
    <2>7. e > sweep[1] \/ (e = sweep[1] /\ sweep[2] = 1)
      <3>1. e > sweep[1] \/ e = sweep[1]
        BY <1>3, <1>6, <1>8 DEF Before
      <3>2. ASSUME e = sweep[1] PROVE sweep[2] = 1
        <4>1. collector # "sweep"
          BY <3>2, RegistryFacts DEF MutexInv, Unregisters
        <4>2. collector \in {"lock_death", "lock_list"}
          BY <4>1 DEF Ahead, Sweeping
        <4> QED
          BY <4>2 DEF PositionInv
      <3> QED
        BY <3>1, <3>2
    <2>8. Before(<<e, j>>, sweep[1], sweep[2])
      BY <2>6, <2>7 DEF Before
    <2> QED
      BY <2>5, <2>8
  <1> QED
    BY <1>7, <1>8

\* What an Unregister for l costs: the death recipients l lacks are paid for.
LEMMA UnregistersMissing ==
    ASSUME Types, Types', NEW e \in Events, NEW l \in Listeners,
           NEW gone \in SUBSET DOMAIN m_pLinstenerList[e], Unregisters(e, l, gone),
           UNCHANGED obitsSent
    PROVE  /\ \A k \in Listeners : k # l => missing'[k] <= missing[k]
           /\ missing'[l] + lost <= missing[l] + lost'
           /\ lost <= lost'
  <1>1. /\ links \in [Listeners -> Nat] /\ lost \in Nat /\ ListType'
        /\ m_pLinstenerList \in [Events -> Seq(Listeners)]
    BY BalanceTypes DEF Types
  <1>2. links' = Unlinked(l, Cardinality(gone))
    BY DEF Unregisters
  <1>3. ASSUME NEW k \in Listeners
        PROVE  LET C == Count(m_pLinstenerList, {k})
                   Cn == Count(m_pLinstenerList', {k})
                   own == Cardinality({j \in gone : m_pLinstenerList[e][j] = k})
               IN  /\ C \in Nat /\ own \in Nat /\ own <= C /\ own <= Cardinality(gone)
                   /\ Cn = C - own /\ Cn \in Nat /\ Cardinality(gone) \in Nat
                   /\ missing[k] = IF k \in obitsSent \/ C <= links[k] THEN 0 ELSE C - links[k]
                   /\ missing'[k] = IF k \in obitsSent \/ Cn <= links'[k] THEN 0
                                    ELSE Cn - links'[k]
    <2> DEFINE P == PlacesIn(m_pLinstenerList[e], {k}, gone)
               C == Count(m_pLinstenerList, {k})
               Cn == Count(m_pLinstenerList', {k})
               own == Cardinality({j \in gone : m_pLinstenerList[e][j] = k})
    <2>1. /\ Fewer(m_pLinstenerList, m_pLinstenerList', {k}, Cardinality(P))
          /\ Cardinality(P) \in Nat /\ Cardinality(P) <= C
          /\ P = {j \in gone : m_pLinstenerList[e][j] \in {k}}
          /\ Cardinality(gone) \in Nat /\ Cardinality(P) <= Cardinality(gone)
      <3>1. ListType'
        BY <1>1
      <3>2. /\ Fewer(m_pLinstenerList, m_pLinstenerList', {k}, Cardinality(P))
            /\ IsFiniteSet(P) /\ Cardinality(P) \in Nat
            /\ Cardinality(P) <= Count(m_pLinstenerList, {k})
            /\ P = {j \in gone : m_pLinstenerList[e][j] \in {k}}
            /\ IsFiniteSet(gone) /\ Cardinality(gone) \in Nat
            /\ Cardinality(P) <= Cardinality(gone)
        BY <3>1, UnregistersCount, Zenon
      <3> QED
        BY <3>2, Zenon
    <2>2. P = {j \in gone : m_pLinstenerList[e][j] = k}
      BY <2>1
    <2>3. own = Cardinality(P)
      BY <2>2, Zenon
    <2>4. C \in Nat
      BY <1>1, EntryFacts
    <2>5. missing[k] = IF k \in obitsSent \/ C <= links[k] THEN 0 ELSE C - links[k]
      BY DEF missing, MissingLinks
    <2>6. missing'[k] = IF k \in obitsSent \/ Cn <= links'[k] THEN 0 ELSE Cn - links'[k]
      BY DEF missing, MissingLinks
    <2>7. Cn = C - Cardinality(P)
      BY <2>1 DEF Fewer
    <2> HIDE DEF P, C, Cn, own
    <2>8. Cn = C - own /\ Cn \in Nat /\ own \in Nat /\ own <= C /\ own <= Cardinality(gone)
      BY <2>1, <2>3, <2>4, <2>7
    <2> QED
      BY <2>1, <2>4, <2>5, <2>6, <2>8 DEF C, Cn, own
  <1>4. ASSUME NEW k \in Listeners, k # l PROVE missing'[k] <= missing[k]
    <2> DEFINE C == Count(m_pLinstenerList, {k})
               Cn == Count(m_pLinstenerList', {k})
    <2>1. links'[k] = links[k] /\ links[k] \in Nat
      BY <1>1, <1>2, <1>4 DEF Unlinked
    <2>2. /\ C \in Nat /\ Cn \in Nat /\ Cn <= C
          /\ missing[k] = IF k \in obitsSent \/ C <= links[k] THEN 0 ELSE C - links[k]
          /\ missing'[k] = IF k \in obitsSent \/ Cn <= links'[k] THEN 0 ELSE Cn - links'[k]
      <3> DEFINE own == Cardinality({j \in gone : m_pLinstenerList[e][j] = k})
      <3>1. /\ C \in Nat /\ Cn \in Nat /\ Cn = C - own /\ own \in Nat
            /\ missing[k] = IF k \in obitsSent \/ C <= links[k] THEN 0 ELSE C - links[k]
            /\ missing'[k] = IF k \in obitsSent \/ Cn <= links'[k] THEN 0 ELSE Cn - links'[k]
        BY <1>3, Zenon
      <3> HIDE DEF C, Cn, own
      <3>2. Cn <= C
        BY <3>1
      <3> QED
        BY <3>1, <3>2
    <2> HIDE DEF C, Cn
    <2> QED
      BY <2>1, <2>2
  <1>5. missing'[l] + lost <= missing[l] + lost' /\ lost <= lost'
    <2> DEFINE C == Count(m_pLinstenerList, {l})
               Cn == Count(m_pLinstenerList', {l})
               own == Cardinality({j \in gone : m_pLinstenerList[e][j] = l})
               x == links[l] - links'[l] - own
               g == Cardinality(gone)
    <2>1. /\ C \in Nat /\ own \in Nat /\ own <= C /\ own <= g
          /\ Cn = C - own /\ Cn \in Nat /\ g \in Nat
          /\ missing[l] = IF l \in obitsSent \/ C <= links[l] THEN 0 ELSE C - links[l]
          /\ missing'[l] = IF l \in obitsSent \/ Cn <= links'[l] THEN 0 ELSE Cn - links'[l]
      BY <1>3
    <2>2. links[l] \in Nat /\ links'[l] \in Nat
          /\ (l \notin obitsSent => links'[l] = IF links[l] > g THEN links[l] - g ELSE 0)
      BY <1>1, <1>2, <2>1 DEF Unlinked
    <2>3. x \in Int
      BY <2>1, <2>2
    <2>4. lost' = lost + Max({0, x})
      BY DEF Unregisters
    <2>5. Max({0, x}) >= 0 /\ Max({0, x}) >= x /\ Max({0, x}) \in Nat
      BY <2>3, AtLeast
    <2> DEFINE y == Max({0, x})
    <2>6. lost' = lost + y /\ y \in Nat /\ y >= links[l] - links'[l] - own
      BY <2>4, <2>5
    <2> HIDE DEF C, Cn, own, x, y, g
    <2>7. missing'[l] <= missing[l] + y /\ missing[l] \in Int /\ missing'[l] \in Int
      BY <2>1, <2>2, <2>6
    <2> QED
      BY <1>1, <2>6, <2>7
  <1> QED
    BY <1>4, <1>5

LEMMA BalanceUnregisters ==
    ASSUME Types, Types', MutexInv, PositionInv, BalanceInv,
           NEW e \in Events, NEW l \in Listeners,
           NEW gone \in SUBSET DOMAIN m_pLinstenerList[e], Unregisters(e, l, gone),
           UNCHANGED <<obitsSent, alive, collectorVars>>
    PROVE  BalanceInv'
  <1> DEFINE R == Count(m_pLinstenerList, obitsSent)
             M == Total(missing)
             Rn == Count(m_pLinstenerList', obitsSent')
             Mn == Total(missing')
             P == PlacesIn(m_pLinstenerList[e], obitsSent, gone)
             p == Cardinality(P)
             u == UnderWay
             un == UnderWay'
  <1>1. /\ R \in Nat /\ M \in Nat /\ lost \in Nat /\ collections \in Nat /\ u \in {0, 1}
        /\ missing \in [Listeners -> Nat]
    BY BalanceTypes
  <1>2. Rn \in Nat /\ Mn \in Nat /\ lost' \in Nat /\ un \in {0, 1}
        /\ missing' \in [Listeners -> Nat]
    BY BalanceTypesAfter
  <1>3. obitsSent' = obitsSent /\ collections' = collections
    BY DEF collectorVars
  <1>4. Rn = R - p /\ p \in Nat /\ IsFiniteSet(P)
    <2>1. ListType'
      BY DEF Types
    <2>2. /\ Fewer(m_pLinstenerList, m_pLinstenerList', obitsSent, Cardinality(P))
          /\ IsFiniteSet(P) /\ Cardinality(P) \in Nat
          /\ Cardinality(P) <= Count(m_pLinstenerList, obitsSent)
          /\ P = {k \in gone : m_pLinstenerList[e][k] \in obitsSent}
          /\ IsFiniteSet(gone) /\ Cardinality(gone) \in Nat
          /\ Cardinality(P) <= Cardinality(gone)
      BY <2>1, UnregistersCount, Zenon
    <2> QED
      BY <1>3, <2>2 DEF Fewer
  <1>5. /\ \A k \in Listeners : k # l => missing'[k] <= missing[k]
        /\ missing'[l] + lost <= missing[l] + lost' /\ lost <= lost'
    BY <1>3, UnregistersMissing
  <1>6. Mn <= M - missing[l] + missing'[l] /\ missing[l] \in Nat /\ missing'[l] \in Nat
    BY <1>1, <1>2, <1>5, TotalChange
  <1>7. p = 0 => u <= un
    <2>1. ASSUME P = {}, Ahead PROVE Ahead'
      BY <2>1, StillAhead
    <2>2. p = 0 => P = {}
      BY <1>4, FS_EmptySet, Zenon
    <2> QED
      BY <2>1, <2>2 DEF UnderWay
  <1>8. M <= lost /\ R + M <= lost + collections + u
    BY DEF BalanceInv
  <1> DEFINE a == missing[l]
             an == missing'[l]
             b == lost
             bn == lost'
             c == collections
  <1>9. /\ an + b <= a + bn /\ Mn <= M - a + an /\ a \in Nat /\ an \in Nat /\ b \in Nat
        /\ bn \in Nat /\ c \in Nat /\ M <= b /\ R + M <= b + c + u
        /\ R \in Nat /\ M \in Nat /\ Rn \in Nat /\ Mn \in Nat
    BY <1>1, <1>2, <1>5, <1>6, <1>8
  <1>10. u \in {0, 1} /\ un \in {0, 1} /\ Rn = R - p /\ p \in Nat /\ (p = 0 => u <= un)
    BY <1>1, <1>2, <1>4, <1>7
  <1> HIDE DEF R, M, Rn, Mn, P, p, u, un, a, an, b, bn, c
  <1>11. Mn + b <= M + bn /\ Rn + u <= R + un
    BY <1>9, <1>10
  <1>12. Mn <= bn /\ Rn + Mn <= bn + c + un
    BY <1>9, <1>10, <1>11
  <1> QED
    BY <1>3, <1>12 DEF BalanceInv, Rn, Mn, un, bn, c

\* What taking out a dead listener costs.
LEMMA CollectMissing ==
    ASSUME Types, Types', PositionInv, Collect, Dead(Swept)
    PROVE  LET m == Swept
           IN  /\ m \in Listeners /\ missing \in [Listeners -> Nat]
               /\ missing' \in [Listeners -> Nat]
               /\ \A k \in Listeners : k # m => missing'[k] <= missing[k]
               /\ \/ /\ m \in obitsSent /\ lost' = lost /\ missing'[m] = missing[m]
                     /\ Count(m_pLinstenerList', obitsSent') =
                            Count(m_pLinstenerList, obitsSent) - 1
                  \/ /\ m \notin obitsSent
                     /\ missing'[m] + lost + 1 <= missing[m] + lost' /\ lost <= lost'
                     /\ missing'[m] <= missing[m]
                     /\ Count(m_pLinstenerList', obitsSent') = Count(m_pLinstenerList, obitsSent)
  <1> DEFINE m == Swept
  <1>1. /\ links \in [Listeners -> Nat] /\ lost \in Nat /\ ListType'
        /\ m_pLinstenerList \in [Events -> Seq(Listeners)]
        /\ m_pLinstenerList' \in [Events -> Seq(Listeners)]
        /\ missing \in [Listeners -> Nat] /\ missing' \in [Listeners -> Nat]
        /\ Count(m_pLinstenerList, obitsSent) \in Nat
    BY BalanceTypes, BalanceTypesAfter DEF Types
  <1>2. /\ m \in Listeners /\ obitsSent' = obitsSent
        /\ \/ UNCHANGED registryVars /\ ~Dead(m)
           \/ /\ links' = Unlinked(m, 1)
              /\ lost' = IF links[m] > 0 THEN lost + 1 ELSE lost
              /\ \A S : Count(m_pLinstenerList', S) =
                     Count(m_pLinstenerList, S) - (IF m \in S THEN 1 ELSE 0)
    BY <1>1, CollectSteps
  <1>3. /\ links' = Unlinked(m, 1)
        /\ lost' = IF links[m] > 0 THEN lost + 1 ELSE lost
        /\ \A S : Count(m_pLinstenerList', S) =
               Count(m_pLinstenerList, S) - (IF m \in S THEN 1 ELSE 0)
    BY <1>2
  <1> HIDE DEF m
  <1>4. ASSUME NEW k \in Listeners
        PROVE  LET C == Count(m_pLinstenerList, {k})
                   Cn == Count(m_pLinstenerList', {k})
               IN  /\ C \in Nat /\ Cn \in Nat /\ Cn = C - (IF m = k THEN 1 ELSE 0)
                   /\ missing[k] = IF k \in obitsSent \/ C <= links[k] THEN 0 ELSE C - links[k]
                   /\ missing'[k] = IF k \in obitsSent \/ Cn <= links'[k] THEN 0
                                    ELSE Cn - links'[k]
    <2>1. Count(m_pLinstenerList', {k}) =
              Count(m_pLinstenerList, {k}) - (IF m \in {k} THEN 1 ELSE 0)
      BY <1>3, Zenon
    <2>2. Count(m_pLinstenerList, {k}) \in Nat /\ Count(m_pLinstenerList', {k}) \in Nat
      BY <1>1, EntryFacts
    <2>3. missing[k] = IF k \in obitsSent \/ Count(m_pLinstenerList, {k}) <= links[k] THEN 0
                       ELSE Count(m_pLinstenerList, {k}) - links[k]
      BY DEF missing, MissingLinks
    <2>4. missing'[k] = IF k \in obitsSent \/ Count(m_pLinstenerList', {k}) <= links'[k] THEN 0
                        ELSE Count(m_pLinstenerList', {k}) - links'[k]
      BY <1>2 DEF missing, MissingLinks
    <2>5. m \in {k} <=> m = k
      OBVIOUS
    <2> QED
      BY <2>1, <2>2, <2>3, <2>4, <2>5
  <1>5. ASSUME NEW k \in Listeners, k # m PROVE missing'[k] <= missing[k]
    <2> DEFINE C == Count(m_pLinstenerList, {k})
               Cn == Count(m_pLinstenerList', {k})
    <2>1. links'[k] = links[k] /\ links[k] \in Nat
      BY <1>1, <1>2, <1>3, <1>5 DEF Unlinked
    <2>2. /\ C \in Nat /\ Cn \in Nat /\ Cn = C - (IF m = k THEN 1 ELSE 0)
          /\ missing[k] = IF k \in obitsSent \/ C <= links[k] THEN 0 ELSE C - links[k]
          /\ missing'[k] = IF k \in obitsSent \/ Cn <= links'[k] THEN 0 ELSE Cn - links'[k]
      BY <1>4, Zenon
    <2> HIDE DEF C, Cn
    <2> QED
      BY <1>5, <2>1, <2>2
  <1> DEFINE C == Count(m_pLinstenerList, {m})
             Cn == Count(m_pLinstenerList', {m})
  <1>6. /\ C \in Nat /\ Cn \in Nat /\ Cn = C - 1
        /\ missing[m] = IF m \in obitsSent \/ C <= links[m] THEN 0 ELSE C - links[m]
        /\ missing'[m] = IF m \in obitsSent \/ Cn <= links'[m] THEN 0 ELSE Cn - links'[m]
    <2>1. /\ C \in Nat /\ Cn \in Nat /\ Cn = C - (IF m = m THEN 1 ELSE 0)
          /\ missing[m] = IF m \in obitsSent \/ C <= links[m] THEN 0 ELSE C - links[m]
          /\ missing'[m] = IF m \in obitsSent \/ Cn <= links'[m] THEN 0 ELSE Cn - links'[m]
      BY <1>2, <1>4, Zenon
    <2> QED
      BY <2>1
  <1> HIDE DEF C, Cn
  <1>7. links[m] \in Nat /\ links'[m] = IF m \notin obitsSent /\ links[m] > 0 THEN links[m] - 1
                                       ELSE links[m]
    BY <1>1, <1>2, <1>3 DEF Unlinked
  <1>8. CASE m \in obitsSent
    <2>1. links[m] = 0
      BY <1>8 DEF PositionInv
    <2>2. missing'[m] = missing[m] /\ lost' = lost
      BY <1>3, <1>6, <1>8, <2>1
    <2>3. Count(m_pLinstenerList', obitsSent) =
              Count(m_pLinstenerList, obitsSent) - (IF m \in obitsSent THEN 1 ELSE 0)
      BY <1>3, Zenon
    <2> QED
      BY <1>1, <1>2, <1>5, <1>8, <2>2, <2>3 DEF m
  <1>9. CASE m \notin obitsSent
    <2>1. /\ missing'[m] + lost + 1 <= missing[m] + lost' /\ lost <= lost'
          /\ missing'[m] <= missing[m]
      BY <1>1, <1>3, <1>6, <1>7, <1>9
    <2>2. Count(m_pLinstenerList', obitsSent) =
              Count(m_pLinstenerList, obitsSent) - (IF m \in obitsSent THEN 1 ELSE 0)
      BY <1>3, Zenon
    <2>3. Count(m_pLinstenerList', obitsSent') = Count(m_pLinstenerList, obitsSent)
      BY <1>1, <1>2, <1>9, <2>2
    <2> QED
      BY <1>1, <1>2, <1>5, <1>9, <2>1, <2>3 DEF m
  <1> QED
    BY <1>8, <1>9

LEMMA BalanceCollect ==
    ASSUME Types, Types', PositionInv, BalanceInv, Collect
    PROVE  BalanceInv'
  <1> DEFINE R == Count(m_pLinstenerList, obitsSent)
             M == Total(missing)
             Rn == Count(m_pLinstenerList', obitsSent')
             Mn == Total(missing')
             u == UnderWay
             un == UnderWay'
  <1>1. R \in Nat /\ M \in Nat /\ lost \in Nat /\ collections \in Nat /\ u \in {0, 1}
    BY BalanceTypes
  <1>2. Rn \in Nat /\ Mn \in Nat /\ lost' \in Nat /\ un \in {0, 1}
    BY BalanceTypesAfter
  <1>3. /\ collections' = collections /\ obitsSent' = obitsSent /\ collector' = collector
        /\ sweep' = <<sweep[1], sweep[2] + 1>> /\ collector = "sweep"
        /\ (~Dead(Swept) => UNCHANGED registryVars)
    <2>1. ListType'
      BY DEF Types
    <2> QED
      BY <2>1, CollectSteps
  <1>4. M <= lost /\ R + M <= lost + collections + u
    BY DEF BalanceInv
  <1>5. CASE ~Dead(Swept)
    <2>1. Rn = R /\ Mn = M /\ lost' = lost
      BY <1>3, <1>5 DEF registryVars, missing
    <2>2. Ahead => Ahead'
      <3> SUFFICES ASSUME NEW x \in EntriesOver(m_pLinstenerList, obitsSent),
                          Before(x, sweep[1], sweep[2])
                   PROVE  Before(x, sweep[1], sweep[2] + 1)
        BY <1>3, <1>5 DEF Ahead, Sweeping, Before, registryVars
      <3>1. m_pLinstenerList \in [Events -> Seq(Listeners)]
        BY BalanceTypes
      <3>2. \E d \in Events : \E n \in 1..Len(m_pLinstenerList[d]) :
                x = <<d, n>> /\ m_pLinstenerList[d][n] \in obitsSent
        BY <3>1, EntryFacts, Zenon
      <3>3. PICK d \in Events : \E n \in 1..Len(m_pLinstenerList[d]) :
                x = <<d, n>> /\ m_pLinstenerList[d][n] \in obitsSent
        BY <3>2, Zenon
      <3>4. PICK n \in 1..Len(m_pLinstenerList[d]) :
                x = <<d, n>> /\ m_pLinstenerList[d][n] \in obitsSent
        BY <3>3, Zenon
      <3>5. x[1] = d /\ x[2] = n /\ n \in Nat /\ sweep[2] \in Nat
        BY <3>1, <3>4 DEF Types, CollectorType
      <3>6. ~(d = sweep[1] /\ n = sweep[2])
        BY <1>5, <3>4 DEF PositionInv, Swept
      <3> QED
        BY <3>5, <3>6 DEF Before
    <2>3. u <= un
      BY <2>2 DEF UnderWay
    <2> HIDE DEF R, M, Rn, Mn, u, un
    <2>4. Mn <= lost' /\ Rn + Mn <= lost' + collections + un
      BY <1>1, <1>2, <1>4, <2>1, <2>3
    <2> QED
      BY <1>3, <2>4 DEF BalanceInv, Rn, Mn, un
  <1>6. CASE Dead(Swept)
    <2> DEFINE a == missing[Swept]
               an == missing'[Swept]
    <2>1. /\ Swept \in Listeners /\ missing \in [Listeners -> Nat]
          /\ missing' \in [Listeners -> Nat]
          /\ \A k \in Listeners : k # Swept => missing'[k] <= missing[k]
          /\ \/ lost' = lost /\ an = a /\ Rn = R - 1
             \/ /\ an + lost + 1 <= a + lost' /\ lost <= lost' /\ an <= a
                /\ Rn = R
      BY <1>6, CollectMissing
    <2>2. Mn <= M - a + an /\ a \in Nat /\ an \in Nat
      BY <2>1, TotalChange
    <2> DEFINE b == lost
               bn == lost'
               c == collections
    <2>3. /\ \/ bn = b /\ an = a /\ Rn = R - 1
             \/ an + b + 1 <= a + bn /\ b <= bn /\ an <= a /\ Rn = R
          /\ Mn <= M - a + an /\ a \in Nat /\ an \in Nat /\ b \in Nat
          /\ bn \in Nat /\ c \in Nat /\ M <= b /\ R + M <= b + c + u
          /\ R \in Nat /\ M \in Nat /\ Rn \in Nat /\ Mn \in Nat
      BY <1>1, <1>2, <1>4, <2>1, <2>2
    <2>4. u \in {0, 1} /\ un \in {0, 1}
      BY <1>1, <1>2
    <2> HIDE DEF R, M, Rn, Mn, u, un, a, an, b, bn, c
    <2>5. Mn + b <= M + bn /\ Rn + Mn + b + 1 <= R + M + bn
      BY <2>3
    <2>6. Mn <= bn /\ Rn + Mn <= bn + c + un
      BY <2>3, <2>4, <2>5
    <2> QED
      BY <1>3, <2>6 DEF BalanceInv, Rn, Mn, un, bn, c
  <1> QED
    BY <1>5, <1>6

LEMMA BalanceInit == Init => PositionInv /\ BalanceInv
  <1> SUFFICES ASSUME Init PROVE PositionInv /\ BalanceInv
    OBVIOUS
  <1>1. /\ m_pLinstenerList \in [Events -> Seq(Listeners)] /\ links \in [Listeners -> Nat]
        /\ obitsSent = {} /\ lost = 0 /\ collections = 0 /\ collector = "idle"
        /\ sweep = <<0, 1>> /\ \A e \in Events : m_pLinstenerList[e] = <<>>
    BY DEF Init
  <1>2. ASSUME NEW S PROVE Count(m_pLinstenerList, S) = 0
    <2>1. \A x : x \in EntriesOver(m_pLinstenerList, S) <=>
              \E e \in Events : \E n \in 1..Len(m_pLinstenerList[e]) :
                  x = <<e, n>> /\ m_pLinstenerList[e][n] \in S
      BY <1>1, EntryFacts, Zenon
    <2>2. EntriesOver(m_pLinstenerList, S) = {}
      BY <1>1, <2>1
    <2> QED
      BY <2>2, FS_EmptySet, Zenon DEF Count
  <1>3. Total(missing) = 0
    <2>1. \A l \in Listeners : missing[l] = 0
      BY <1>1, <1>2 DEF missing, MissingLinks
    <2>2. Rows(missing) = {}
      BY <2>1 DEF Rows
    <2> QED
      BY <2>2, FS_EmptySet, Zenon DEF Total
  <1>4. UnderWay = 0
    BY <1>1 DEF UnderWay, Ahead, Sweeping
  <1>5. Count(m_pLinstenerList, obitsSent) = 0
    BY <1>2
  <1> QED
    BY <1>1, <1>3, <1>4, <1>5 DEF PositionInv, BalanceInv

LEMMA BalanceStep ==
    Types /\ MutexInv /\ PositionInv /\ BalanceInv /\ [Next]_vars => BalanceInv'
  <1> SUFFICES ASSUME Types, Types', MutexInv, PositionInv, BalanceInv, [Next]_vars
               PROVE  BalanceInv'
    BY TypesStep
  <1>1. CASE UNCHANGED registryVars /\ UNCHANGED obitsSent
    <2>1. CASE StartCollection \/ LockDeath \/ LockNextList \/ EndSweep \/ EndCollection
      BY <1>1, <2>1, BalanceCollector
    <2>2. CASE Collect
      BY <2>2, BalanceCollect
    <2>3. CASE ~CollectorStep
      <3>1. UNCHANGED collectorVars
        <4>1. ASSUME NEW l \in Listeners, sendObituary(l) PROVE UNCHANGED collectorVars
          BY <1>1, <4>1 DEF sendObituary
        <4>2. CASE ~ \E l \in Listeners : sendObituary(l)
          BY <2>3, <4>2 DEF Next, ServiceStep, Die, MakeCall, ReadSize, RegisterEventListener,
             UnregisterEventListener, Call, LooperStep, LockList, PostToListener, EndLoop,
             ResetSlot, LooperOnly, DeliveryStep, OnEvent, HandlerSends, OnEventFails,
             EndDelivery, StartDelivery, DeliveryOnly, vars
        <4> QED
          BY <4>1, <4>2
      <3>2. /\ missing' = missing /\ lost' = lost /\ collections' = collections
            /\ Count(m_pLinstenerList', obitsSent') = Count(m_pLinstenerList, obitsSent)
            /\ UnderWay' = UnderWay
        BY <1>1, <3>1 DEF missing, registryVars, collectorVars, UnderWay, Ahead, Sweeping, Before
      <3> QED
        BY <3>2 DEF BalanceInv
    <2> QED
      BY <2>1, <2>2, <2>3 DEF CollectorStep, SweepStep
  <1>2. ASSUME NEW l \in Listeners, sendObituary(l) PROVE BalanceInv'
    BY <1>2, BalanceObituary
  <1>3. CASE Collect
    BY <1>3, BalanceCollect
  <1>4. ASSUME UNCHANGED <<obitsSent, alive, collectorVars>>,
               NEW e \in Events, NEW l \in Listeners, Registers(e, l)
        PROVE  BalanceInv'
    BY <1>4, BalanceRegisters
  <1>5. ASSUME UNCHANGED <<obitsSent, alive, collectorVars>>,
               NEW e \in Events, NEW l \in Listeners,
               NEW gone \in SUBSET DOMAIN m_pLinstenerList[e], Unregisters(e, l, gone)
        PROVE  BalanceInv'
    BY <1>5, BalanceUnregisters
  <1> QED
    BY <1>1, <1>2, <1>3, <1>4, <1>5, RegistrySteps

\* Listeners without a death recipient lack one for each of their entries.
LEMMA WithoutLinks ==
    ASSUME Types, NEW D \in SUBSET (Listeners \ obitsSent), \A l \in D : links[l] = 0
    PROVE  Count(m_pLinstenerList, D) <= Total(missing)
  <1> DEFINE L == m_pLinstenerList
             From == {x \in Rows(missing) : x[1] \in D}
             To == EntriesOver(L, D)
             f == [l \in D |-> CHOOSE g : g \in Bijection(1..missing[l], EntriesOver(L, {l}))]
             h == [x \in From |-> f[x[1]][x[2]]]
  <1>1. L \in [Events -> Seq(Listeners)] /\ missing \in [Listeners -> Nat]
    BY BalanceTypes
  <1>2. ASSUME NEW l \in D
        PROVE  f[l] \in Bijection(1..missing[l], EntriesOver(L, {l}))
    <2>1. IsFiniteSet(EntriesOver(L, {l})) /\ Count(L, {l}) \in Nat
      BY <1>1, EntryFacts
    <2>2. missing[l] = Cardinality(EntriesOver(L, {l}))
      <3>1. missing[l] = IF l \in obitsSent \/ Count(L, {l}) <= links[l] THEN 0
                         ELSE Count(L, {l}) - links[l]
        BY DEF missing, MissingLinks
      <3>2. links[l] = 0 /\ l \notin obitsSent
        OBVIOUS
      <3>3. missing[l] = Count(L, {l})
        BY <2>1, <3>1, <3>2
      <3> QED
        BY <3>3 DEF Count
    <2>3. \E g : g \in Bijection(1..missing[l], EntriesOver(L, {l}))
      BY <2>1, <2>2, FS_CardinalityType, Zenon DEF ExistsBijection
    <2> QED
      BY <2>3, Zenon
  <1>3. ASSUME NEW l \in D, NEW x \in EntriesOver(L, {l}) PROVE x \in To
    BY <1>3 DEF EntriesOver
  <1>4. ASSUME NEW x \in To
        PROVE  \E l \in D : x \in EntriesOver(L, {l})
    BY <1>4 DEF EntriesOver
  <1>5. ASSUME NEW x \in From
        PROVE  x[1] \in D /\ x[2] \in 1..missing[x[1]]
    BY <1>1 DEF Rows
  <1>6. ASSUME NEW l \in D, NEW n \in 1..missing[l]
        PROVE  <<l, n>> \in From
    BY <1>1 DEF Rows
  <1> HIDE DEF From, To, f
  <1>7. ASSUME NEW x \in From PROVE h[x] \in To
    <2>1. f[x[1]][x[2]] \in EntriesOver(L, {x[1]})
      BY <1>2, <1>5 DEF Bijection, Injection
    <2> QED
      BY <1>3, <1>5, <2>1
  <1>8. ASSUME NEW y \in To PROVE \E x \in From : h[x] = y
    <2>1. PICK l \in D : y \in EntriesOver(L, {l})
      BY <1>4
    <2>2. PICK n \in 1..missing[l] : f[l][n] = y
      BY <1>2, <2>1 DEF Bijection, Surjection
    <2>3. <<l, n>> \in From
      BY <1>6
    <2>4. h[<<l, n>>] = y
      BY <2>2, <2>3
    <2> QED
      BY <2>3, <2>4
  <1>9. h \in Surjection(From, To)
    <2>1. h \in [From -> To]
      BY <1>7
    <2> QED
      BY <1>8, <2>1 DEF Surjection
  <1>10. IsFiniteSet(Rows(missing)) /\ Total(missing) \in Nat
    BY <1>1, TotalType
  <1>11. From \subseteq Rows(missing)
    BY DEF From
  <1>12. IsFiniteSet(From) /\ Cardinality(From) <= Cardinality(Rows(missing))
    BY <1>10, <1>11, FS_Subset
  <1> HIDE DEF h
  <1>13. IsFiniteSet(To) /\ Cardinality(To) <= Cardinality(From)
    BY <1>9, <1>12, FS_Surjection
  <1>14. Cardinality(To) \in Nat /\ Cardinality(From) \in Nat
    BY <1>12, <1>13, FS_CardinalityType
  <1>15. Cardinality(Rows(missing)) \in Nat
    BY <1>10 DEF Total
  <1>16. Cardinality(To) <= Cardinality(Rows(missing))
    BY <1>12, <1>13, <1>14, <1>15
  <1> QED
    BY <1>16 DEF Count, Total, To

LEMMA BalanceImplies == Types /\ PositionInv /\ BalanceInv => AutoCollect
  <1> SUFFICES ASSUME Types, PositionInv, BalanceInv, AllCollected
               PROVE  Cardinality(DeadEntries) <= lost
    BY DEF AutoCollect
  <1> DEFINE L == m_pLinstenerList
             All == {l \in Listeners : Dead(l)}
             D == All \ obitsSent
             R == Count(L, obitsSent)
             M == Total(missing)
             C == Count(L, D)
  <1>1. /\ L \in [Events -> Seq(Listeners)] /\ obitsSent \subseteq Listeners
        /\ R \in Nat /\ M \in Nat /\ lost \in Nat
    BY BalanceTypes
  <1>2. R + M <= lost
    <2>1. collections = 0 /\ UnderWay = 0
      BY DEF AllCollected, UnderWay, Ahead, Sweeping
    <2>2. R + M <= lost + collections + UnderWay
      BY DEF BalanceInv
    <2> QED
      BY <1>1, <2>1, <2>2
  <1>3. C <= M
    <2>1. D \in SUBSET (Listeners \ obitsSent) /\ \A l \in D : links[l] = 0
      BY DEF AllCollected
    <2> HIDE DEF D
    <2> QED
      BY <2>1, WithoutLinks
  <1>4. Count(L, All) = R + C
    <2>1. All = obitsSent \cup D /\ obitsSent \cap D = {}
      BY <1>1 DEF PositionInv
    <2> HIDE DEF All, D
    <2>2. Count(L, obitsSent \cup D) = Count(L, obitsSent) + Count(L, D)
      BY <1>1, <2>1, CountUnion
    <2> QED
      BY <2>1, <2>2
  <1>5. C \in Nat
    BY <1>1, EntryFacts
  <1>6. Count(L, All) = Cardinality(DeadEntries)
    BY DEF Count, EntriesOver, DeadEntries, EntriesIn
  <1> HIDE DEF R, M, C
  <1> QED
    BY <1>1, <1>2, <1>3, <1>4, <1>5, <1>6

\* However collections, calls and deaths interleave, once every collection has
\* run, no more entries of dead listeners are left than collections were lost,
\* although each collection steps over the listener behind one it takes out.
THEOREM CollectionsSuffice == Spec => []AutoCollect
  <1>1. Init => Types /\ MutexInv /\ PositionInv /\ BalanceInv
    BY TypesInit, MutexInit, BalanceInit
  <1>2. Types /\ MutexInv /\ PositionInv /\ BalanceInv /\ [Next]_vars
            => (Types /\ MutexInv /\ PositionInv /\ BalanceInv)'
    BY TypesStep, MutexStep, PositionStep, BalanceStep
  <1>3. Types /\ PositionInv /\ BalanceInv => AutoCollect
    BY BalanceImplies
  <1> QED
    BY <1>1, <1>2, <1>3, PTL DEF Spec
=============================================================================
