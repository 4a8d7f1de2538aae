-------------------------- MODULE ThreadPool_proofs --------------------------
(***************************************************************************)
(* Proofs about ThreadPool for any number of workers, adders and tasks.    *)
(* PoolInv is inductive: a worker only finds a task to take because it has *)
(* tested the list under the mutex it still holds, so HeadExists, MutexInv *)
(* and the type of `task` need each other.                                 *)
(***************************************************************************)
EXTENDS ThreadPool, SequenceLemmas

PoolInv == TypeOK /\ MutexInv /\ HeadExists

LEMMA PoolFacts ==
    NULL \notin Workers /\ NULL \notin Tasks /\ LongTasks \subseteq Tasks
  BY PoolAssumption

\* Signals and broadcasts only send waiting workers back to the mutex.
LEMMA WakeFacts ==
    ASSUME TypeOK, WakeOne \/ WakeAll
    PROVE  /\ worker' \in [Workers -> {"lock", "test", "wait", "waiting", "take",
                                       "run", "exited"}]
           /\ \A w \in Workers : \/ worker'[w] = worker[w]
                                 \/ worker[w] = "waiting" /\ worker'[w] = "lock"
  BY DEF TypeOK, WakeOne, WakeAll, Waiting, At

LEMMA PoolInit == Init => PoolInv
  <1> SUFFICES ASSUME Init PROVE PoolInv
    OBVIOUS
  <1>1. TypeOK
    <2>0. shutdown \in BOOLEAN
      BY Zenon DEF Init
    <2>1. m_vecTaskList \in Seq(Tasks)
      BY DEF Init
    <2>2. m_pthreadMutex \in Workers \cup {NULL} /\ task \in [Workers -> Tasks \cup {NULL}]
      BY DEF Init
    <2>3. worker \in [Workers -> {"lock", "test", "wait", "waiting", "take",
                                  "run", "exited"}]
      BY DEF Init
    <2>4. /\ adder \in [Adders -> {"idle", "signal"}]
          /\ stopper \in {"idle", "broadcast", "join", "stopped"}
          /\ added \subseteq Tasks
      BY DEF Init
    <2> QED
      BY Zenon, <2>0, <2>1, <2>2, <2>3, <2>4 DEF TypeOK
  <1>2. \A w \in Workers : worker[w] = "lock" /\ task[w] = NULL /\ m_pthreadMutex # w
    BY PoolFacts DEF Init
  <1> QED
    BY <1>1, <1>2 DEF PoolInv, MutexInv, HeadExists

LEMMA PoolStep == PoolInv /\ [Next]_vars => PoolInv'
  <1> SUFFICES ASSUME TypeOK, MutexInv, HeadExists, [Next]_vars
               PROVE  TypeOK' /\ MutexInv' /\ HeadExists'
    BY DEF PoolInv
  <1> USE PoolFacts
  <1>1. ASSUME NEW w \in Workers, Lock(w) \/ Test(w) \/ CondWait(w) \/ ExitOnShutdown(w)
        PROVE  TypeOK' /\ MutexInv' /\ HeadExists'
    <2>1. TypeOK'
      BY <1>1 DEF TypeOK, Lock, Test, CondWait, ExitOnShutdown, Unlock
    <2>2. MutexInv'
      BY <1>1 DEF TypeOK, MutexInv, Lock, Test, CondWait, ExitOnShutdown, Unlock, Free
    <2>3. HeadExists'
      BY <1>1 DEF TypeOK, HeadExists, Lock, Test, CondWait, ExitOnShutdown, MustWait
    <2> QED
      BY <2>1, <2>2, <2>3
  <1>2. ASSUME NEW w \in Workers, SpuriousWakeup(w) \/ FinishTask(w) \/ TaskExitsThread(w)
        PROVE  TypeOK' /\ MutexInv' /\ HeadExists'
    BY <1>2 DEF TypeOK, MutexInv, HeadExists, SpuriousWakeup, FinishTask, GoOn, TaskExitsThread
  <1>3. ASSUME NEW w \in Workers, TakeTask(w)
        PROVE  TypeOK' /\ MutexInv' /\ HeadExists'
    <2>1. m_vecTaskList \in Seq(Tasks) /\ m_vecTaskList # <<>>
      BY <1>3 DEF TypeOK, HeadExists, TakeTask
    <2>2. Head(m_vecTaskList) \in Tasks /\ Tail(m_vecTaskList) \in Seq(Tasks)
      BY <2>1
    <2>3. TypeOK'
      BY <1>3, <2>2 DEF TypeOK, TakeTask, Pop, Unlock
    <2>4. MutexInv'
      BY <1>3, <2>2 DEF TypeOK, MutexInv, TakeTask, Pop, Unlock
    <2>5. HeadExists'
      BY <1>3, <2>4 DEF TypeOK, MutexInv, HeadExists, TakeTask, Unlock
    <2> QED
      BY <2>3, <2>4, <2>5
  <1>4. ASSUME NEW a \in Adders, NEW t \in Tasks, AddTask(a, t)
        PROVE  TypeOK' /\ MutexInv' /\ HeadExists'
    <2>1. m_vecTaskList' \in Seq(Tasks) /\ m_vecTaskList' # <<>>
      BY <1>4 DEF TypeOK, AddTask
    <2> QED
      BY <1>4, <2>1 DEF TypeOK, MutexInv, HeadExists, AddTask
  <1>5. ASSUME \/ \E a \in Adders : SignalWorker(a)
               \/ Broadcast
        PROVE  TypeOK' /\ MutexInv' /\ HeadExists'
    <2>1. WakeOne \/ WakeAll
      BY <1>5 DEF SignalWorker, Broadcast
    <2>2. TypeOK'
      BY <1>5, <2>1, WakeFacts DEF TypeOK, SignalWorker, Broadcast
    <2> QED
      BY <1>5, <2>1, <2>2, WakeFacts DEF MutexInv, HeadExists, SignalWorker, Broadcast
  <1>6. ASSUME StopAll \/ Join PROVE TypeOK' /\ MutexInv' /\ HeadExists'
    BY <1>6 DEF TypeOK, MutexInv, HeadExists, StopAll, Join
  <1>7. CASE UNCHANGED vars
    BY <1>7 DEF vars, TypeOK, MutexInv, HeadExists
  <1> QED
    BY <1>1, <1>2, <1>3, <1>4, <1>5, <1>6, <1>7 DEF Next, WorkerStep

LEMMA PoolInvariant == Spec => []PoolInv
  BY PoolInit, PoolStep, PTL DEF Spec

\* Every variable of the pool keeps its type.
THEOREM PoolTypeCorrect == Spec => []TypeOK
  <1>1. PoolInv => TypeOK
    BY DEF PoolInv
  <1> QED
    BY <1>1, PoolInvariant, PTL

\* One worker at a time is between lock and unlock of ThreadFunc, for every
\* number of workers, and with StopAll writing `shutdown` outside the mutex.
THEOREM PoolMutualExclusion == Spec => []MutexInv
  <1>1. PoolInv => MutexInv
    BY DEF PoolInv
  <1> QED
    BY <1>1, PoolInvariant, PTL

\* ThreadFunc dereferences the head of the task list before it tests for the
\* end of the list: there always is a head.
THEOREM HeadAlwaysExists == Spec => []HeadExists
  <1>1. PoolInv => HeadExists
    BY DEF PoolInv
  <1> QED
    BY <1>1, PoolInvariant, PTL

-----------------------------------------------------------------------------
(* StopAll.                                                                *)

\* Those that StopAll's broadcast has not woken or cannot wake.
StopInv ==
    /\ stopper # "idle" => shutdown
    /\ stopper \in {"join", "stopped"} => \A v, w \in Missed : v = w

LEMMA StopStep == PoolInv /\ StopInv /\ [Next]_vars => StopInv'
  <1> SUFFICES ASSUME TypeOK, MutexInv, StopInv, [Next]_vars
               PROVE  StopInv'
    BY DEF PoolInv
  <1> USE DEF StopInv, Missed, Waiting, At
  <1>1. ASSUME NEW w \in Workers,
               WorkerStep(w) \/ SpuriousWakeup(w) \/ TaskExitsThread(w)
        PROVE  StopInv'
    <2>1. UNCHANGED <<stopper, shutdown>>
      BY <1>1 DEF WorkerStep, Lock, Test, CondWait, ExitOnShutdown, TakeTask, FinishTask,
                  SpuriousWakeup, TaskExitsThread
    <2>2. ASSUME shutdown PROVE Missed' \subseteq Missed
      BY <1>1, <2>2 DEF WorkerStep, Lock, Test, MustWait, CondWait, ExitOnShutdown, TakeTask,
                        FinishTask, GoOn, SpuriousWakeup, TaskExitsThread, TypeOK
    <2> QED
      BY <2>1, <2>2
  <1>2. ASSUME \/ \E a \in Adders, t \in Tasks : AddTask(a, t)
               \/ StopAll \/ Join
        PROVE  StopInv'
    BY <1>2 DEF AddTask, StopAll, Join
  <1>3. ASSUME NEW a \in Adders, SignalWorker(a) PROVE StopInv'
    <2>1. Missed' \subseteq Missed /\ UNCHANGED <<stopper, shutdown>>
      BY <1>3, WakeFacts DEF SignalWorker
    <2> QED
      BY <2>1
  <1>4. ASSUME Broadcast PROVE StopInv'
    <2>1. \A w \in Missed' : w \in Workers /\ worker[w] = "wait"
      BY <1>4 DEF Broadcast, WakeAll, TypeOK
    <2>2. \A w \in Workers : worker[w] = "wait" => m_pthreadMutex = w
      BY DEF MutexInv
    <2> QED
      BY <1>4, <2>1, <2>2 DEF Broadcast
  <1>5. CASE UNCHANGED vars
    BY <1>5 DEF vars
  <1> QED
    BY <1>1, <1>2, <1>3, <1>4, <1>5 DEF Next

\* StopAll sets `shutdown` and broadcasts without the mutex: of any number of
\* workers, its broadcast passes by at most one.
THEOREM StopMissesAtMostOne == Spec => []AtMostOneMissed
  <1>1. Init => StopInv
    BY DEF Init, StopInv
  <1>2. StopInv => AtMostOneMissed
    <2> SUFFICES ASSUME \A v, w \in Missed : v = w PROVE Cardinality(Missed) <= 1
      BY DEF StopInv, AtMostOneMissed, Missed
    <2>1. Missed = {} \/ \E w : Missed = {w}
      OBVIOUS
    <2>2. CASE Missed = {}
      <3>1. Cardinality(Missed) = 0
        BY <2>2, FS_EmptySet
      <3> QED
        BY <3>1
    <2>3. ASSUME NEW w, Missed = {w} PROVE Cardinality(Missed) <= 1
      <3>1. Cardinality(Missed) = 1
        BY <2>3, FS_Singleton
      <3> QED
        BY <3>1
    <2> QED
      BY <2>1, <2>2, <2>3
  <1> QED
    BY <1>1, <1>2, StopStep, PoolInvariant, PTL DEF Spec

-----------------------------------------------------------------------------
(* Tasks are in one place.                                                 *)

\* What is listed or run has been added, which happens once.
PlaceInv ==
    /\ IsInjective(m_vecTaskList)
    /\ \A t : Contains(m_vecTaskList, t) => t \in added
    /\ \A w \in Workers : task[w] # NULL => task[w] \in added
    /\ \A w \in Workers : ~Contains(m_vecTaskList, task[w])
    /\ \A v, w \in Workers : task[v] = task[w] /\ task[v] # NULL => v = w

LEMMA NullNotListed ==
    ASSUME TypeOK PROVE ~Contains(m_vecTaskList, NULL)
  BY PoolFacts, ContainsInSet DEF TypeOK

LEMMA TakeStep ==
    ASSUME PoolInv, PlaceInv, NEW w \in Workers, TakeTask(w)
    PROVE  /\ Contains(m_vecTaskList, task'[w]) /\ task'[w] = Head(m_vecTaskList)
           /\ task'[w] \in Tasks
           /\ \A v \in Workers \ {w} : task'[v] = task[v]
           /\ \A t : Contains(m_vecTaskList', t) <=> Contains(m_vecTaskList, t) /\ t # task'[w]
           /\ IsInjective(m_vecTaskList')
  <1>1. m_vecTaskList \in Seq(Tasks) /\ m_vecTaskList # <<>> /\ IsInjective(m_vecTaskList)
    BY DEF PoolInv, TypeOK, HeadExists, TakeTask, PlaceInv
  <1>2. task' = [task EXCEPT ![w] = Head(m_vecTaskList)] /\ m_vecTaskList' = Tail(m_vecTaskList)
    BY DEF TakeTask, Pop
  <1>3. Contains(m_vecTaskList, Head(m_vecTaskList))
    BY <1>1 DEF Contains
  <1> QED
    BY <1>1, <1>2, <1>3, TailDistinct DEF PoolInv, TypeOK

LEMMA PlaceStep == PoolInv /\ PlaceInv /\ [Next]_vars => PlaceInv'
  <1> SUFFICES ASSUME PoolInv, PlaceInv, [Next]_vars PROVE PlaceInv'
    OBVIOUS
  <1> USE PoolFacts
  <1>t. TypeOK
    BY DEF PoolInv
  <1>1. ASSUME UNCHANGED <<m_vecTaskList, task, added>> PROVE PlaceInv'
    BY <1>1 DEF PlaceInv
  <1>2. ASSUME \/ \E w \in Workers : \/ Lock(w) \/ Test(w) \/ CondWait(w)
                                     \/ ExitOnShutdown(w) \/ SpuriousWakeup(w)
               \/ \E a \in Adders : SignalWorker(a)
               \/ StopAll \/ Broadcast \/ Join \/ UNCHANGED vars
        PROVE  UNCHANGED <<m_vecTaskList, task, added>>
    BY <1>2 DEF Lock, Test, CondWait, ExitOnShutdown, SpuriousWakeup, SignalWorker,
                StopAll, Broadcast, Join, vars
  <1>3. ASSUME NEW w \in Workers, TakeTask(w) PROVE PlaceInv'
    <2>1. added' = added
      BY <1>3 DEF TakeTask
    <2> QED
      BY <1>3, <2>1, TakeStep DEF PlaceInv
  <1>4. ASSUME NEW w \in Workers, FinishTask(w) \/ TaskExitsThread(w) PROVE PlaceInv'
    <2>1. /\ UNCHANGED <<m_vecTaskList, added>> /\ task'[w] = NULL
          /\ \A v \in Workers \ {w} : task'[v] = task[v]
      BY <1>4, <1>t DEF FinishTask, TaskExitsThread, TypeOK
    <2> QED
      BY <2>1, <1>t, NullNotListed DEF PlaceInv
  <1>5. ASSUME NEW a \in Adders, NEW t \in Tasks, AddTask(a, t) PROVE PlaceInv'
    <2>1. /\ t \notin added /\ added' = added \cup {t} /\ task' = task
          /\ m_vecTaskList' = Append(m_vecTaskList, t)
      BY <1>5 DEF AddTask
    <2>2. /\ IsInjective(m_vecTaskList')
          /\ \A x : Contains(m_vecTaskList', x) <=> Contains(m_vecTaskList, x) \/ x = t
      BY <2>1, <1>t, AppendDistinct DEF PlaceInv, TypeOK
    <2>3. \A w \in Workers : task[w] # t
      BY <2>1 DEF PlaceInv
    <2> QED
      BY <2>1, <2>2, <2>3 DEF PlaceInv
  <1> QED
    BY <1>1, <1>2, <1>3, <1>4, <1>5 DEF Next, WorkerStep

LEMMA PlaceInit == Init => PlaceInv
  BY PoolFacts DEF Init, PlaceInv, IsInjective, Contains

LEMMA PlaceInvariant == Spec => []PlaceInv
  BY PlaceInit, PlaceStep, PoolInvariant, PTL DEF Spec

\* However workers, adders and StopAll interleave, no task is started twice, or
\* still listed while it runs.
THEOREM TaskInOnePlace == Spec => []ListedOnce
  <1>1. PlaceInv => ListedOnce
    BY DEF PlaceInv, ListedOnce, IsInjective
  <1> QED
    BY <1>1, PlaceInvariant, PTL

-----------------------------------------------------------------------------
(* Wakeups.                                                                *)

\* A worker that goes to wait has seen an empty list, which the mutex keeps so.
WaitInv == \A w \in Workers : worker[w] = "wait" /\ ~shutdown => m_vecTaskList = <<>>
WakeInv == WaitInv /\ NoLostWakeup

LEMMA WakerSets ==
    /\ IsFiniteSet(Awake) /\ IsFiniteSet(Signalling)
    /\ Cardinality(Awake) \in Nat /\ Cardinality(Signalling) \in Nat
  <1>1. Awake \in SUBSET Workers /\ Signalling \in SUBSET Adders
    BY DEF Awake, At, Signalling
  <1> QED
    BY <1>1, PoolAssumption, FS_Subset, FS_CardinalityType

LEMMA WaitStep == PoolInv /\ WaitInv /\ [Next]_vars => WaitInv'
  <1> SUFFICES ASSUME TypeOK, MutexInv, WaitInv, [Next]_vars PROVE WaitInv'
    BY DEF PoolInv
  <1> USE PoolFacts
  <1>1. ASSUME NEW w \in Workers, Lock(w) \/ Test(w) \/ CondWait(w) \/ ExitOnShutdown(w)
                                  \/ SpuriousWakeup(w) \/ FinishTask(w) \/ TaskExitsThread(w)
        PROVE  WaitInv'
    BY <1>1 DEF WaitInv, TypeOK, Lock, Test, MustWait, CondWait, ExitOnShutdown,
                SpuriousWakeup, FinishTask, GoOn, TaskExitsThread
  <1>2. ASSUME NEW w \in Workers, TakeTask(w) PROVE WaitInv'
    <2>1. \A v \in Workers : worker'[v] # "wait"
      BY <1>2 DEF TypeOK, MutexInv, TakeTask
    <2> QED
      BY <2>1 DEF WaitInv
  <1>3. ASSUME NEW a \in Adders, NEW t \in Tasks, AddTask(a, t) PROVE WaitInv'
    <2>1. \A v \in Workers : worker'[v] # "wait"
      BY <1>3 DEF TypeOK, MutexInv, AddTask, Free
    <2> QED
      BY <2>1 DEF WaitInv
  <1>4. ASSUME \/ \E a \in Adders : SignalWorker(a)
               \/ Broadcast
        PROVE  WaitInv'
    BY <1>4, WakeFacts DEF WaitInv, SignalWorker, Broadcast
  <1>5. ASSUME StopAll \/ Join \/ UNCHANGED vars PROVE WaitInv'
    BY <1>5 DEF WaitInv, StopAll, Join, vars
  <1> QED
    BY <1>1, <1>2, <1>3, <1>4, <1>5 DEF Next, WorkerStep

LEMMA WakeStep == PoolInv /\ StopInv /\ WakeInv /\ [Next]_vars => WakeInv'
  <1> SUFFICES ASSUME TypeOK, MutexInv, HeadExists, StopInv, WaitInv, NoLostWakeup,
                      [Next]_vars
               PROVE  NoLostWakeup'
    BY WaitStep DEF PoolInv, WakeInv
  <1> USE PoolFacts
  <1> DEFINE length == Len(m_vecTaskList)
             wakers == Cardinality(Signalling) + Cardinality(Awake)
  <1>l. m_vecTaskList \in Seq(Tasks) /\ length \in Nat
    BY DEF TypeOK
  <1>c. /\ Cardinality(Awake) \in Nat /\ Cardinality(Signalling) \in Nat /\ wakers \in Nat
        /\ IsFiniteSet(Awake) /\ IsFiniteSet(Signalling)
    BY WakerSets
  <1>n. NoLostWakeup' <=> (Waiting' # {} /\ ~shutdown' => length' <= wakers')
    BY DEF NoLostWakeup
  <1>o. Waiting # {} /\ ~shutdown => length <= wakers
    BY DEF NoLostWakeup
  <1> HIDE DEF length, wakers
  <1>1. ASSUME NEW w \in Workers, Lock(w) \/ (Test(w) /\ ~MustWait)
        PROVE  NoLostWakeup'
    <2>1. Awake' = Awake /\ Waiting' = Waiting
      BY <1>1 DEF Lock, Test, Awake, Waiting, At, TypeOK
    <2>2. UNCHANGED <<m_vecTaskList, shutdown, adder>>
      BY <1>1 DEF Lock, Test
    <2>3. length' = length /\ wakers' = wakers
      BY <2>1, <2>2 DEF length, wakers, Signalling
    <2> QED
      BY <2>1, <2>2, <2>3, <1>n, <1>o
  <1>2. ASSUME NEW w \in Workers, (Test(w) /\ MustWait) \/ CondWait(w)
        PROVE  NoLostWakeup'
    <2>1. shutdown \/ m_vecTaskList = <<>>
      BY <1>2 DEF MustWait, CondWait, WaitInv
    <2>2. UNCHANGED <<m_vecTaskList, shutdown>>
      BY <1>2 DEF Test, CondWait
    <2>3. m_vecTaskList = <<>> => length' = 0
      BY <2>2 DEF length
    <2>4. wakers' \in Nat
      <3>1. Awake' \in SUBSET Workers /\ Signalling' \in SUBSET Adders
        BY DEF Awake, At, Signalling
      <3> QED
        BY <3>1, PoolAssumption, FS_Subset, FS_CardinalityType DEF wakers
    <2> QED
      BY <2>1, <2>2, <2>3, <2>4, <1>n
  <1>3. ASSUME NEW w \in Workers, ExitOnShutdown(w)
        PROVE  NoLostWakeup'
    BY <1>3, <1>n DEF ExitOnShutdown
  <1>4. ASSUME NEW w \in Workers, TakeTask(w)
        PROVE  NoLostWakeup'
    <2>1. Awake' = Awake \ {w} /\ w \in Awake /\ Waiting' = Waiting
      BY <1>4 DEF TakeTask, Awake, Waiting, At, TypeOK
    <2>2. Cardinality(Awake') = Cardinality(Awake) - 1
      BY <2>1, <1>c, FS_RemoveElement
    <2>3. UNCHANGED <<shutdown, adder>> /\ m_vecTaskList' = Tail(m_vecTaskList)
          /\ m_vecTaskList # <<>>
      BY <1>4 DEF TakeTask, Pop, HeadExists
    <2>4. length' = length - 1
      BY <2>3, <1>l DEF length
    <2>5. wakers' = wakers - 1
      BY <2>2, <2>3, <1>c DEF wakers, Signalling
    <2> QED
      BY <2>1, <2>3, <2>4, <2>5, <1>l, <1>c, <1>n, <1>o
  <1>5. ASSUME NEW w \in Workers, SpuriousWakeup(w) \/ FinishTask(w)
        PROVE  NoLostWakeup'
    <2>1. Awake' = Awake \cup {w} /\ w \notin Awake /\ Waiting' \subseteq Waiting
      BY <1>5 DEF SpuriousWakeup, FinishTask, GoOn, Awake, Waiting, At, TypeOK
    <2>2. Cardinality(Awake') = Cardinality(Awake) + 1
      BY <2>1, <1>c, FS_AddElement
    <2>3. UNCHANGED <<m_vecTaskList, shutdown, adder>>
      BY <1>5 DEF SpuriousWakeup, FinishTask
    <2>4. length' = length /\ wakers' = wakers + 1
      BY <2>2, <2>3, <1>c DEF length, wakers, Signalling
    <2> QED
      BY <2>1, <2>3, <2>4, <1>l, <1>c, <1>n, <1>o
  <1>6. ASSUME NEW w \in Workers, TaskExitsThread(w)
        PROVE  NoLostWakeup'
    <2>1. Awake' = Awake /\ Waiting' = Waiting
      BY <1>6 DEF TaskExitsThread, Awake, Waiting, At, TypeOK
    <2>2. UNCHANGED <<m_vecTaskList, shutdown, adder>>
      BY <1>6 DEF TaskExitsThread
    <2>3. length' = length /\ wakers' = wakers
      BY <2>1, <2>2 DEF length, wakers, Signalling
    <2> QED
      BY <2>1, <2>2, <2>3, <1>n, <1>o
  <1>7. ASSUME NEW a \in Adders, NEW t \in Tasks, AddTask(a, t)
        PROVE  NoLostWakeup'
    <2>1. /\ UNCHANGED <<shutdown, worker>> /\ m_vecTaskList' = Append(m_vecTaskList, t)
          /\ Signalling' = Signalling \cup {a} /\ a \notin Signalling
      BY <1>7 DEF AddTask, Signalling, TypeOK
    <2>2. Cardinality(Signalling') = Cardinality(Signalling) + 1
      BY <2>1, <1>c, FS_AddElement
    <2>3. Awake' = Awake /\ Waiting' = Waiting
      BY <2>1 DEF Awake, Waiting, At
    <2>4. length' = length + 1
      BY <2>1, <1>l DEF length
    <2>5. wakers' = wakers + 1
      BY <2>2, <2>3, <1>c DEF wakers
    <2> QED
      BY <2>1, <2>3, <2>4, <2>5, <1>l, <1>c, <1>n, <1>o
  <1>8. ASSUME NEW a \in Adders, SignalWorker(a)
        PROVE  NoLostWakeup'
    <2>1. /\ UNCHANGED <<m_vecTaskList, shutdown>>
          /\ Signalling' = Signalling \ {a} /\ a \in Signalling
      BY <1>8 DEF SignalWorker, Signalling, TypeOK
    <2>2. Cardinality(Signalling') = Cardinality(Signalling) - 1
      BY <2>1, <1>c, FS_RemoveElement
    <2>3. CASE Waiting = {} /\ UNCHANGED worker
      <3>1. Waiting' = {}
        BY <2>3 DEF Waiting, At
      <3> QED
        BY <3>1, <1>n
    <2>4. ASSUME NEW w \in Waiting, worker' = [worker EXCEPT ![w] = "lock"]
          PROVE  NoLostWakeup'
      <3>1. Awake' = Awake \cup {w} /\ w \notin Awake
        BY <2>4 DEF Awake, Waiting, At, TypeOK
      <3>2. Cardinality(Awake') = Cardinality(Awake) + 1
        BY <3>1, <1>c, FS_AddElement
      <3>3. length' = length /\ wakers' = wakers
        BY <2>1, <2>2, <3>2, <1>c DEF length, wakers
      <3> QED
        BY <2>1, <3>3, <1>n, <1>o
    <2> QED
      BY <1>8, <2>3, <2>4 DEF SignalWorker, WakeOne
  <1>9. ASSUME StopAll \/ Broadcast PROVE NoLostWakeup'
    BY <1>9, <1>n DEF StopAll, Broadcast, StopInv
  <1>10. ASSUME Join \/ UNCHANGED vars PROVE NoLostWakeup'
    <2>1. UNCHANGED <<m_vecTaskList, shutdown, worker, adder>>
      BY <1>10 DEF Join, vars
    <2>2. Waiting' = Waiting /\ Awake' = Awake /\ Signalling' = Signalling
      BY <2>1 DEF Waiting, Awake, At, Signalling
    <2>3. length' = length /\ wakers' = wakers
      BY <2>1, <2>2 DEF length, wakers
    <2> QED
      BY <2>1, <2>2, <2>3, <1>n, <1>o
  <1>11. ASSUME NEW w \in Workers, WorkerStep(w) PROVE NoLostWakeup'
    <2>1. Lock(w) \/ (Test(w) /\ ~MustWait) \/ (Test(w) /\ MustWait) \/ CondWait(w)
            \/ ExitOnShutdown(w) \/ TakeTask(w) \/ FinishTask(w)
      BY <1>11 DEF WorkerStep
    <2> QED
      BY <2>1, <1>1, <1>2, <1>3, <1>4, <1>5
  <1> QED
    BY <1>5, <1>6, <1>7, <1>8, <1>9, <1>10, <1>11, Zenon DEF Next

LEMMA StopInvariant == Spec => []StopInv
  <1>1. Init => StopInv
    BY DEF Init, StopInv
  <1> QED
    BY <1>1, StopStep, PoolInvariant, PTL DEF Spec

\* AddTask signals after it has released the mutex: for any number of adders and
\* workers, no task stays listed while all who might take it sleep.
THEOREM NoWakeupLost == Spec => []NoLostWakeup
  <1>1. Init => WakeInv
    <2>1. ASSUME Init PROVE Waiting = {} /\ \A w \in Workers : worker[w] # "wait"
      BY <2>1 DEF Init, Waiting, At
    <2> QED
      BY <2>1 DEF WakeInv, WaitInv, NoLostWakeup
  <1>2. WakeInv => NoLostWakeup
    BY DEF WakeInv
  <1> QED
    BY <1>1, <1>2, WakeStep, PoolInvariant, StopInvariant, PTL DEF Spec

-----------------------------------------------------------------------------
(* ThreadPool implements TaskQueue: what the queue sees of the pool.       *)

runs == {task[w] : w \in At("run")}
gone == Cardinality(At("exited"))
phase == IF ~shutdown THEN "no" ELSE IF stopper = "broadcast" THEN "flag" ELSE "asked"
misses == stopper \in {"join", "stopped"} /\ Missed # {}

LEMMA WorkerSets ==
    ASSUME NEW S \in SUBSET Workers
    PROVE  IsFiniteSet(S) /\ Cardinality(S) \in Nat
  BY PoolAssumption, FS_Subset, FS_CardinalityType

\* Workers that neither run a task nor have exited are idle.
LEMMA IdleWorkers ==
    ASSUME NEW S \in SUBSET Workers, S \cap (At("run") \cup At("exited")) = {}
    PROVE  /\ Cardinality(S) <= Cardinality(Workers) - Cardinality(runs) - gone
           /\ Cardinality(runs) \in Nat /\ gone \in Nat /\ Cardinality(Workers) \in Nat
  <1> DEFINE R == At("run")
             E == At("exited")
  <1>1. R \in SUBSET Workers /\ E \in SUBSET Workers /\ R \cap E = {}
    BY DEF At
  <1>2. IsFiniteSet(runs) /\ Cardinality(runs) <= Cardinality(R)
    <2> DEFINE f == [w \in R |-> task[w]]
    <2>1. f \in Surjection(R, runs)
      BY DEF runs, Surjection
    <2> QED
      BY <1>1, <2>1, WorkerSets, FS_Surjection
  <1> HIDE DEF R, E
  <1>3. Cardinality(R \cup E) = Cardinality(R) + Cardinality(E)
    <2>1. Cardinality(R \cap E) = 0
      BY <1>1, FS_EmptySet
    <2>2. Cardinality(R \cup E) = Cardinality(R) + Cardinality(E) - Cardinality(R \cap E)
      BY <1>1, WorkerSets, FS_Union
    <2> QED
      BY <1>1, <2>1, <2>2, WorkerSets
  <1>4. Cardinality((R \cup E) \cup S) = Cardinality(R \cup E) + Cardinality(S)
    <2>1. (R \cup E) \cap S = {} /\ R \cup E \in SUBSET Workers
      BY <1>1 DEF R, E
    <2>2. Cardinality((R \cup E) \cap S) = 0
      BY <2>1, FS_EmptySet
    <2>3. Cardinality((R \cup E) \cup S)
            = Cardinality(R \cup E) + Cardinality(S) - Cardinality((R \cup E) \cap S)
      BY <2>1, WorkerSets, FS_Union
    <2> QED
      BY <2>1, <2>2, <2>3, WorkerSets
  <1>5. Cardinality((R \cup E) \cup S) <= Cardinality(Workers)
    BY <1>1, PoolAssumption, FS_Subset
  <1>6. Cardinality(runs) \in Nat /\ Cardinality(Workers) \in Nat
    BY <1>2, PoolAssumption, FS_CardinalityType
  <1>7. gone = Cardinality(E)
    BY DEF gone, E
  <1> QED
    BY <1>1, <1>2, <1>3, <1>4, <1>5, <1>6, <1>7, WorkerSets

\* What no task moves in is, to the queue, a spurious wakeup or nothing.
LEMMA UnseenSteps ==
    ASSUME UNCHANGED <<m_vecTaskList, runs, gone, phase>>, misses' => misses
    PROVE  TQ!Rouse \/ UNCHANGED TQ!poolVars
  BY Zenon DEF TQ!Rouse, TQ!poolVars, runs, gone, phase, misses

\* TaskQueue's library is the same one.
LEMMA SameCardinality == \A S : TQ!Cardinality(S) = Cardinality(S)
  BY DEF TQ!Cardinality, Cardinality, TQ!IsFiniteSet, IsFiniteSet

LEMMA QueueIdle == TQ!Idle = Cardinality(Workers) - Cardinality(runs) - gone
  BY SameCardinality DEF TQ!Idle, runs, gone

LEMMA QueueStep ==
    PoolInv /\ StopInv /\ PlaceInv /\ [Next]_vars => [TQ!QueueNext]_TQ!poolVars
  <1> SUFFICES ASSUME TypeOK, MutexInv, HeadExists, StopInv, PlaceInv, [Next]_vars
               PROVE  TQ!QueueNext \/ UNCHANGED TQ!poolVars
    BY DEF PoolInv
  <1> USE PoolFacts
  <1>s. /\ stopper # "idle" => shutdown
        /\ ~shutdown => ~misses
    BY DEF StopInv, misses
  <1>1. ASSUME UNCHANGED <<m_vecTaskList, task, shutdown, stopper, At("run"), At("exited")>>,
               shutdown => Missed' \subseteq Missed
        PROVE  TQ!QueueNext \/ UNCHANGED TQ!poolVars
    <2>1. UNCHANGED <<m_vecTaskList, runs, gone, phase>>
      BY <1>1 DEF runs, gone, phase
    <2>2. misses' => misses
      BY <1>1, <1>s DEF misses
    <2> QED
      BY <2>1, <2>2, UnseenSteps DEF TQ!QueueNext
  <1>2. ASSUME NEW w \in Workers, Lock(w) \/ Test(w) \/ CondWait(w) \/ SpuriousWakeup(w)
        PROVE  TQ!QueueNext \/ UNCHANGED TQ!poolVars
    <2>1. UNCHANGED <<m_vecTaskList, task, shutdown, stopper, At("run"), At("exited")>>
      BY <1>2 DEF Lock, Test, CondWait, SpuriousWakeup, At, TypeOK
    <2>2. shutdown => Missed' \subseteq Missed
      BY <1>2 DEF Lock, Test, MustWait, CondWait, SpuriousWakeup, Missed, Waiting, At, TypeOK
    <2> QED
      BY <1>1, <2>1, <2>2
  <1>3. ASSUME NEW a \in Adders, SignalWorker(a)
        PROVE  TQ!QueueNext \/ UNCHANGED TQ!poolVars
    <2>1. UNCHANGED <<m_vecTaskList, task, shutdown, stopper, At("run"), At("exited")>>
      BY <1>3, WakeFacts DEF SignalWorker, At
    <2>2. Missed' \subseteq Missed
      BY <1>3, WakeFacts DEF SignalWorker, Missed, Waiting, At
    <2> QED
      BY <1>1, <2>1, <2>2
  <1>4. ASSUME UNCHANGED vars PROVE TQ!QueueNext \/ UNCHANGED TQ!poolVars
    BY <1>1, <1>4 DEF vars, Missed, Waiting, At
  <1>5. ASSUME Join PROVE TQ!QueueNext \/ UNCHANGED TQ!poolVars
    <2>1. UNCHANGED <<m_vecTaskList, runs, gone, phase>> /\ (misses' => misses)
      BY <1>5 DEF Join, runs, gone, phase, misses, Missed, Waiting, At
    <2> QED
      BY <2>1, UnseenSteps DEF TQ!QueueNext
  <1>6. ASSUME NEW a \in Adders, NEW t \in Tasks, AddTask(a, t)
        PROVE  TQ!QueueNext
    <2>1. m_vecTaskList' = Append(m_vecTaskList, t)
          /\ UNCHANGED <<runs, gone, phase>> /\ (misses' <=> misses)
      BY <1>6 DEF AddTask, runs, gone, phase, misses, Missed, Waiting, At
    <2>2. TQ!Add(t)
      BY <2>1, Zenon DEF TQ!Add, runs, gone, phase, misses
    <2> QED
      BY <2>2 DEF TQ!QueueNext
  <1>7. ASSUME StopAll PROVE TQ!QueueNext
    <2>1. UNCHANGED <<m_vecTaskList, runs, gone>> /\ phase = "no" /\ phase' = "flag"
      BY <1>7 DEF StopAll, runs, gone, phase, At
    <2>2. ~misses /\ ~misses'
      BY <1>7 DEF StopAll, misses
    <2>3. TQ!RaiseStop
      BY <2>1, <2>2, Zenon DEF TQ!RaiseStop, runs, gone, phase, misses
    <2> QED
      BY <2>3 DEF TQ!QueueNext
  <1>8. ASSUME Broadcast PROVE TQ!QueueNext
    <2>1. UNCHANGED <<m_vecTaskList, task, shutdown, At("run"), At("exited")>>
      BY <1>8, WakeFacts DEF Broadcast, At
    <2>2. UNCHANGED <<m_vecTaskList, runs, gone>> /\ phase = "flag" /\ phase' = "asked"
      BY <1>8, <1>s, <2>1 DEF Broadcast, runs, gone, phase
    <2>3. ASSUME misses' PROVE Cardinality(Workers) - Cardinality(runs) - gone > 0
      <3>1. PICK w \in Workers : worker[w] = "wait"
        BY <1>8, <2>3 DEF Broadcast, WakeAll, misses, Missed, Waiting, At, TypeOK
      <3>2. {w} \in SUBSET Workers /\ {w} \cap (At("run") \cup At("exited")) = {}
        BY <3>1 DEF At
      <3>3. Cardinality({w}) = 1
        BY FS_Singleton
      <3> QED
        BY <3>2, <3>3, IdleWorkers
    <2>4. TQ!AskToLeave
      <3>1. phase = "flag" /\ phase' = "asked" /\ misses' \in BOOLEAN
        BY <2>2 DEF misses
      <3>2. misses' => TQ!Idle > 0
        BY <2>3, QueueIdle
      <3> QED
        BY <2>2, <3>1, <3>2, Zenon DEF TQ!AskToLeave, runs, gone, phase, misses
    <2> QED
      BY <2>4 DEF TQ!QueueNext
  <1>9. ASSUME NEW w \in Workers, ExitOnShutdown(w) PROVE TQ!QueueNext
    <2>1. /\ UNCHANGED <<m_vecTaskList, task, shutdown, stopper, At("run")>> /\ shutdown
          /\ At("exited")' = At("exited") \cup {w} /\ w \notin At("exited")
          /\ Missed' = Missed /\ w \notin Missed /\ w \notin At("run")
      BY <1>9 DEF ExitOnShutdown, Missed, Waiting, At, TypeOK
    <2>2. gone' = gone + 1
      <3>1. At("exited") \in SUBSET Workers
        BY DEF At
      <3> QED
        BY <2>1, <3>1, WorkerSets, FS_AddElement DEF gone
    <2>3. Cardinality(Workers) - Cardinality(runs) - gone > IF misses THEN 1 ELSE 0
      <3>1. CASE ~misses
        <4>1. {w} \in SUBSET Workers /\ {w} \cap (At("run") \cup At("exited")) = {}
          BY <2>1
        <4>2. Cardinality({w}) = 1
          BY FS_Singleton
        <4> QED
          BY <3>1, <4>1, <4>2, IdleWorkers
      <3>2. CASE misses
        <4>1. PICK m \in Missed : TRUE
          BY <3>2 DEF misses
        <4>2. m \in Workers /\ m # w /\ m \notin At("run") \cup At("exited")
          BY <2>1, <4>1 DEF Missed, Waiting, At
        <4>3. {m} \cup {w} \in SUBSET Workers
              /\ ({m} \cup {w}) \cap (At("run") \cup At("exited")) = {}
          BY <2>1, <4>2
        <4>4. IsFiniteSet({m}) /\ Cardinality({m}) = 1
          BY FS_Singleton
        <4>5. Cardinality({m} \cup {w}) = 2
          <5>1. w \notin {m}
            BY <4>2
          <5>2. Cardinality({m} \cup {w}) = Cardinality({m}) + 1
            BY <4>4, <5>1, FS_AddElement
          <5> QED
            BY <4>4, <5>2
        <4> QED
          BY <3>2, <4>3, <4>5, IdleWorkers
      <3> QED
        BY <3>1, <3>2
    <2>4. TQ!Leave
      <3>1. /\ phase # "no" /\ UNCHANGED <<m_vecTaskList, runs, phase>>
            /\ (misses' <=> misses)
        BY <2>1 DEF runs, phase, misses
      <3>2. TQ!Idle > IF misses THEN 1 ELSE 0
        BY <2>3, QueueIdle
      <3> QED
        BY <2>2, <3>1, <3>2, Zenon DEF TQ!Leave, runs, gone, phase, misses
    <2> QED
      BY <2>4 DEF TQ!QueueNext
  <1>10. ASSUME NEW w \in Workers, TakeTask(w) PROVE TQ!QueueNext
    <2>1. /\ m_vecTaskList # <<>> /\ m_vecTaskList' = Tail(m_vecTaskList)
          /\ task'[w] = Head(m_vecTaskList) /\ \A v \in Workers \ {w} : task'[v] = task[v]
          /\ ~shutdown /\ UNCHANGED <<shutdown, stopper>>
          /\ At("run")' = At("run") \cup {w} /\ w \notin At("run")
          /\ At("exited")' = At("exited") /\ w \notin At("exited")
      BY <1>10 DEF TakeTask, Pop, HeadExists, At, TypeOK
    <2>2. runs' = runs \cup {Head(m_vecTaskList)}
      BY <2>1 DEF runs, At
    <2>3. /\ UNCHANGED gone /\ phase = "no" /\ UNCHANGED phase /\ ~misses /\ ~misses'
      BY <2>1, <1>s DEF gone, phase, misses
    <2>4. Cardinality(Workers) - Cardinality(runs) - gone > 0
      <3>1. {w} \in SUBSET Workers /\ {w} \cap (At("run") \cup At("exited")) = {}
        BY <2>1
      <3>2. Cardinality({w}) = 1
        BY FS_Singleton
      <3> QED
        BY <3>1, <3>2, IdleWorkers
    <2>5. TQ!Idle > 0
      BY <2>4, QueueIdle
    <2>6. TQ!Start
      BY <2>1, <2>2, <2>3, <2>5, Zenon DEF TQ!Start, runs, gone, phase, misses
    <2> QED
      BY <2>6 DEF TQ!QueueNext
  <1>11. ASSUME NEW w \in Workers, FinishTask(w) \/ TaskExitsThread(w)
         PROVE  TQ!QueueNext
    <2>1. /\ UNCHANGED <<m_vecTaskList, shutdown, stopper>>
          /\ w \in At("run") /\ At("run")' = At("run") \ {w}
          /\ \A v \in Workers \ {w} : task'[v] = task[v]
          /\ Missed' = Missed
      BY <1>11 DEF FinishTask, GoOn, TaskExitsThread, Missed, Waiting, At, TypeOK
    <2>2. PICK j \in Tasks : j = task[w] /\ j \in runs
      BY <2>1 DEF runs, MutexInv, TypeOK, At
    <2>3. runs' = runs \ {j}
      <3>1. \A v \in At("run") \ {w} : task[v] # j
        BY <2>1, <2>2 DEF PlaceInv, At
      <3>2. \A v \in At("run") \ {w} : task'[v] = task[v]
        BY <2>1 DEF At
      <3>3. runs' = {task[v] : v \in At("run") \ {w}}
        BY <2>1, <3>2 DEF runs
      <3> QED
        BY <2>1, <2>2, <3>1, <3>3 DEF runs
    <2>4. UNCHANGED <<m_vecTaskList, phase>> /\ (misses' <=> misses)
      BY <2>1 DEF phase, misses
    <2>5. CASE FinishTask(w)
      <3>1. At("exited")' = At("exited")
        BY <2>5 DEF FinishTask, GoOn, At, TypeOK
      <3>2. UNCHANGED gone
        BY <3>1 DEF gone
      <3>3. TQ!Finish(j)
        BY <2>2, <2>3, <2>4, <3>2, Zenon DEF TQ!Finish, runs, gone, phase, misses
      <3> QED
        BY <3>3 DEF TQ!QueueNext
    <2>6. CASE TaskExitsThread(w)
      <3>1. At("exited")' = At("exited") \cup {w} /\ w \notin At("exited")
            /\ At("exited") \in SUBSET Workers
        BY <2>6 DEF TaskExitsThread, At, TypeOK
      <3>2. gone' = gone + 1
        BY <3>1, WorkerSets, FS_AddElement DEF gone
      <3>3. TQ!Quit(j)
        BY <2>2, <2>3, <2>4, <3>2, Zenon DEF TQ!Quit, runs, gone, phase, misses
      <3> QED
        BY <3>3 DEF TQ!QueueNext
    <2> QED
      BY <1>11, <2>5, <2>6
  <1>12. ASSUME NEW w \in Workers, WorkerStep(w)
         PROVE  TQ!QueueNext \/ UNCHANGED TQ!poolVars
    BY <1>12, <1>2, <1>9, <1>10, <1>11, Zenon DEF WorkerStep
  <1> QED
    BY <1>2, <1>3, <1>4, <1>5, <1>6, <1>7, <1>8, <1>11, <1>12, Zenon DEF Next

\* However many threads it has, and although StopAll takes no mutex, the pool
\* is the queue that the rest of the service relies on.
THEOREM TaskQueueImplemented == Spec => ImplementsTaskQueue
  <1>1. Init => TQ!QueueInit
    <2> SUFFICES ASSUME Init PROVE TQ!QueueInit
      OBVIOUS
    <2>1. m_vecTaskList = <<>> /\ shutdown = FALSE /\ stopper = "idle"
          /\ At("run") = {} /\ At("exited") = {}
      BY DEF Init, At
    <2>2. runs = {} /\ gone = 0 /\ phase = "no" /\ misses = FALSE
      BY <2>1, FS_EmptySet DEF runs, gone, phase, misses
    <2> QED
      BY <2>1, <2>2, Zenon DEF TQ!QueueInit, runs, gone, phase, misses
  <1> QED
    BY <1>1, QueueStep, PoolInvariant, StopInvariant, PlaceInvariant, PTL
       DEF Spec, ImplementsTaskQueue, TQ!QueueSpec
=============================================================================
