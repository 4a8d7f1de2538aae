----------------------------- MODULE ThreadPool -----------------------------
(***************************************************************************)
(* ThreadPool/src/ThreadPool.cpp: worker threads that wait on one          *)
(* condition variable for a task list, AddTask, and StopAll.  AddTask      *)
(* signals after it has released the mutex; StopAll sets `shutdown` and    *)
(* broadcasts without taking the mutex at all, so a worker's test of its   *)
(* loop condition and its call of pthread_cond_wait are separate steps.    *)
(***************************************************************************)
EXTENDS Integers, FiniteSets, SequencesExt

CONSTANTS
    Workers,    \* the threads of the pool
    Tasks,      \* the tasks, each added at most once
    LongTasks,  \* tasks that may run for ever: EventDispatcher, EventLooper
    Adders,     \* threads that call AddTask
    Stops,      \* whether StopAll is ever called
    NULL

ASSUME PoolAssumption ==
    /\ IsFiniteSet(Workers) /\ Workers # {}
    /\ IsFiniteSet(Adders)
    /\ LongTasks \subseteq Tasks
    /\ Stops \in BOOLEAN
    /\ NULL \notin Workers /\ NULL \notin Tasks

VARIABLES
    m_vecTaskList,   \* the task list
    shutdown,        \* the flag StopAll sets
    m_pthreadMutex,  \* the worker that holds the mutex, or NULL
    worker,          \* where each worker is
    task,            \* the task each worker runs, or NULL
    adder,           \* where each adder is
    stopper,         \* where StopAll is
    added            \* tasks added so far (history)

vars == <<m_vecTaskList, shutdown, m_pthreadMutex, worker, task, adder,
          stopper, added>>

At(pc) == {w \in Workers : worker[w] = pc}
Waiting == At("waiting")
Free == m_pthreadMutex = NULL

TypeOK ==
    /\ m_vecTaskList \in Seq(Tasks)
    /\ shutdown \in BOOLEAN
    /\ m_pthreadMutex \in Workers \cup {NULL}
    /\ worker \in [Workers -> {"lock", "test", "wait", "waiting", "take",
                               "run", "exited"}]
    /\ task \in [Workers -> Tasks \cup {NULL}]
    /\ adder \in [Adders -> {"idle", "signal"}]
    /\ stopper \in {"idle", "broadcast", "join", "stopped"}
    /\ added \subseteq Tasks

\* Create has started every worker.
Init ==
    /\ m_vecTaskList = <<>>
    /\ shutdown = FALSE
    /\ m_pthreadMutex = NULL
    /\ worker = [w \in Workers |-> "lock"]
    /\ task = [w \in Workers |-> NULL]
    /\ adder = [a \in Adders |-> "idle"]
    /\ stopper = "idle"
    /\ added = {}

-----------------------------------------------------------------------------
(* A worker (ThreadFunc).                                                  *)

Lock(w) ==
    /\ worker[w] = "lock" /\ Free
    /\ m_pthreadMutex' = w
    /\ worker' = [worker EXCEPT ![w] = "test"]
    /\ UNCHANGED <<m_vecTaskList, shutdown, task, adder, stopper, added>>

\* The condition of the inner while.
MustWait_IgnoresList == FALSE    \* mutant
MustWait == m_vecTaskList = <<>> /\ ~shutdown

Test(w) ==
    /\ worker[w] = "test"
    /\ worker' = [worker EXCEPT ![w] = IF MustWait THEN "wait" ELSE "take"]
    /\ UNCHANGED <<m_vecTaskList, shutdown, m_pthreadMutex, task, adder,
                   stopper, added>>

Unlock == m_pthreadMutex' = NULL

\* pthread_cond_wait: release the mutex and start to wait, in one step.
CondWait(w) ==
    /\ worker[w] = "wait"
    /\ worker' = [worker EXCEPT ![w] = "waiting"]
    /\ Unlock
    /\ UNCHANGED <<m_vecTaskList, shutdown, task, adder, stopper, added>>

\* pthread_cond_wait may return without a signal; it then takes the mutex
\* again and the condition is tested again.
SpuriousWakeup(w) ==
    /\ worker[w] = "waiting"
    /\ worker' = [worker EXCEPT ![w] = "lock"]
    /\ UNCHANGED <<m_vecTaskList, shutdown, m_pthreadMutex, task, adder,
                   stopper, added>>

\* Exit if the pool is being stopped, otherwise take the first task.
ExitOnShutdown(w) ==
    /\ worker[w] = "take" /\ shutdown
    /\ worker' = [worker EXCEPT ![w] = "exited"]
    /\ Unlock
    /\ UNCHANGED <<m_vecTaskList, shutdown, task, adder, stopper, added>>

Pop_WithoutErase(w) ==    \* mutant
    task' = [task EXCEPT ![w] = Head(m_vecTaskList)] /\ UNCHANGED m_vecTaskList
Pop_FromBack(w) ==    \* mutant
    task' = [task EXCEPT ![w] = Last(m_vecTaskList)]
    /\ m_vecTaskList' = Front(m_vecTaskList)
Pop(w) ==
    /\ task' = [task EXCEPT ![w] = Head(m_vecTaskList)]
    /\ m_vecTaskList' = Tail(m_vecTaskList)

TakeTask(w) ==
    /\ worker[w] = "take" /\ ~shutdown
    /\ Pop(w)
    /\ worker' = [worker EXCEPT ![w] = "run"]
    /\ Unlock
    /\ UNCHANGED <<shutdown, adder, stopper, added>>

GoOn_Returns(w) == worker' = [worker EXCEPT ![w] = "returned"]    \* mutant
GoOn(w) == worker' = [worker EXCEPT ![w] = "lock"]

\* Run returns, and the loop of ThreadFunc goes on.
FinishTask(w) ==
    /\ worker[w] = "run"
    /\ task' = [task EXCEPT ![w] = NULL]
    /\ GoOn(w)
    /\ UNCHANGED <<m_vecTaskList, shutdown, m_pthreadMutex, adder, stopper, added>>

\* Run calls pthread_exit, as EventDispatcher does: the worker is gone.
TaskExitsThread(w) ==
    /\ worker[w] = "run" /\ task[w] \in LongTasks
    /\ task' = [task EXCEPT ![w] = NULL]
    /\ worker' = [worker EXCEPT ![w] = "exited"]
    /\ UNCHANGED <<m_vecTaskList, shutdown, m_pthreadMutex, adder, stopper, added>>

-----------------------------------------------------------------------------
(* AddTask and StopAll.                                                    *)

\* (After StopAll has destroyed the mutex a call is undefined; not modelled.)
AddTask(a, t) ==
    /\ adder[a] = "idle" /\ t \notin added /\ Free
    /\ stopper # "stopped"
    /\ m_vecTaskList' = Append(m_vecTaskList, t)
    /\ added' = added \cup {t}
    /\ adder' = [adder EXCEPT ![a] = "signal"]
    /\ UNCHANGED <<shutdown, m_pthreadMutex, worker, task, stopper>>

\* pthread_cond_signal wakes one waiting worker, if there is one.
WakeOne_Lost == UNCHANGED worker    \* mutant
WakeOne_ForFirstTask ==    \* mutant
    IF Len(m_vecTaskList) = 1 /\ Waiting # {}
    THEN \E w \in Waiting : worker' = [worker EXCEPT ![w] = "lock"]
    ELSE UNCHANGED worker
WakeOne ==
    \/ Waiting = {} /\ UNCHANGED worker
    \/ \E w \in Waiting : worker' = [worker EXCEPT ![w] = "lock"]

SignalWorker(a) ==
    /\ adder[a] = "signal"
    /\ adder' = [adder EXCEPT ![a] = "idle"]
    /\ WakeOne
    /\ UNCHANGED <<m_vecTaskList, shutdown, m_pthreadMutex, task, stopper, added>>

\* Test and set of `shutdown`; a later call of StopAll returns at the test.
StopAll ==
    /\ Stops /\ stopper = "idle" /\ ~shutdown
    /\ shutdown' = TRUE
    /\ stopper' = "broadcast"
    /\ UNCHANGED <<m_vecTaskList, m_pthreadMutex, worker, task, adder, added>>

WakeAll_OnlyOne == WakeOne    \* mutant
WakeAll == worker' = [w \in Workers |-> IF w \in Waiting THEN "lock" ELSE worker[w]]

Broadcast ==
    /\ stopper = "broadcast"
    /\ WakeAll
    /\ stopper' = "join"
    /\ UNCHANGED <<m_vecTaskList, shutdown, m_pthreadMutex, task, adder, added>>

\* The pthread_join loop returns and the mutex and condition are destroyed.
Join ==
    /\ stopper = "join" /\ At("exited") = Workers
    /\ stopper' = "stopped"
    /\ UNCHANGED <<m_vecTaskList, shutdown, m_pthreadMutex, worker, task, adder, added>>

-----------------------------------------------------------------------------
WorkerStep(w) ==
    \/ Lock(w) \/ Test(w) \/ CondWait(w)
    \/ ExitOnShutdown(w) \/ TakeTask(w) \/ FinishTask(w)

Next ==
    \/ \E w \in Workers : WorkerStep(w) \/ SpuriousWakeup(w) \/ TaskExitsThread(w)
    \/ \E a \in Adders, t \in Tasks : AddTask(a, t)
    \/ \E a \in Adders : SignalWorker(a)
    \/ StopAll \/ Broadcast \/ Join

Spec == Init /\ [][Next]_vars

\* Every thread keeps running and gets the mutex if it is free again and
\* again; a task that is not a long one returns.  Nobody has to add a task.
Fairness ==
    /\ \A w \in Workers :
          /\ SF_vars(Lock(w))
          /\ WF_vars(Test(w) \/ CondWait(w) \/ ExitOnShutdown(w) \/ TakeTask(w))
          /\ WF_vars(task[w] \notin LongTasks /\ FinishTask(w))
    /\ \A a \in Adders : WF_vars(SignalWorker(a))
    /\ WF_vars(Broadcast) /\ WF_vars(Join)

FairSpec == Spec /\ Fairness

-----------------------------------------------------------------------------
(* Properties.                                                             *)

\* The mutex is held exactly by the worker between lock and unlock, and a
\* worker runs a task exactly while it has one.
MutexInv ==
    /\ \A w \in Workers : worker[w] \in {"test", "wait", "take"} <=> m_pthreadMutex = w
    /\ \A w \in Workers : worker[w] = "run" <=> task[w] # NULL

\* A worker that goes on to read the head of the list finds one: neither a
\* spurious wakeup, nor another worker, nor the unlocked write of `shutdown`
\* sends it past the test of an empty list.
HeadExists == \A w \in Workers : worker[w] = "take" /\ ~shutdown => m_vecTaskList # <<>>

\* No wakeup of AddTask is lost although it signals after the unlock: while a
\* worker waits, every task in the list has a signal under way or a worker
\* that is awake and about to look at the list.
Awake == At("lock") \cup At("test") \cup At("take")
Signalling == {a \in Adders : adder[a] = "signal"}
NoLostWakeup ==
    Waiting # {} /\ ~shutdown =>
        Len(m_vecTaskList) <= Cardinality(Signalling) + Cardinality(Awake)

\* No task is in two places: listed twice, listed and running, run by two.
ListedOnce ==
    /\ \A m, n \in DOMAIN m_vecTaskList :
          m_vecTaskList[m] = m_vecTaskList[n] => m = n
    /\ \A v, w \in Workers : task[v] = task[w] /\ task[v] # NULL => v = w
    /\ \A w \in Workers : ~Contains(m_vecTaskList, task[w])

\* StopAll can miss a worker that has tested `shutdown` and not yet called
\* pthread_cond_wait, but only one, because that worker holds the mutex.
Missed == Waiting \cup At("wait")
AtMostOneMissed == stopper \in {"join", "stopped"} => Cardinality(Missed) <= 1

\* The pool implements the abstract task queue: first come, first started,
\* never more tasks at a time than workers, and a StopAll that starts nothing
\* more and that every worker obeys but one it may have missed.
TQ == INSTANCE TaskQueue WITH
    Jobs <- Tasks,
    PoolSize <- Cardinality(Workers),
    queue <- m_vecTaskList,
    running <- {task[w] : w \in At("run")},
    left <- Cardinality(At("exited")),
    stop <- IF ~shutdown THEN "no" ELSE IF stopper = "broadcast" THEN "flag" ELSE "asked",
    missed <- stopper \in {"join", "stopped"} /\ Missed # {}
ImplementsTaskQueue == TQ!QueueSpec

\* A pool with more workers than long tasks starts every task, unless StopAll.
EventuallyStarted ==
    \A t \in Tasks : Contains(m_vecTaskList, t) ~> ~Contains(m_vecTaskList, t) \/ shutdown

\* StopAll's comments: wake every waiting thread, the pool is being destroyed,
\* and block until the threads have exited.  With tasks that all return,
\* StopAll returns.
StopAllReturns == stopper = "join" ~> stopper = "stopped"
=============================================================================
