------------------------------ MODULE TaskQueue ------------------------------
(***************************************************************************)
(* What ThreadPool promises to those who use it: a task that is added is   *)
(* started at most once, in the order of the calls of AddTask, and no more *)
(* tasks run at a time than there are threads.  A task may take its thread *)
(* with it (pthread_exit).  StopAll starts nothing more and asks the idle  *)
(* threads to leave, but may miss one of them.                             *)
(***************************************************************************)
EXTENDS Naturals, Sequences, FiniteSets

CONSTANTS Jobs, PoolSize

VARIABLES
    queue,      \* added and not started, in order
    running,    \* started and not finished
    left,       \* threads that have ended
    stop,       \* "no", "flag" (StopAll has begun) or "asked" (it joins)
    missed      \* whether it has missed a thread, which sleeps

poolVars == <<queue, running, left, stop, missed>>

QueueInit ==
    /\ queue = <<>> /\ running = {}
    /\ left = 0 /\ stop = "no" /\ missed = FALSE

Idle == PoolSize - Cardinality(running) - left

Add(j) ==
    /\ queue' = Append(queue, j)
    /\ UNCHANGED <<running, left, stop, missed>>

Start ==
    /\ queue # <<>> /\ Idle > 0 /\ stop = "no"
    /\ running' = running \cup {Head(queue)}
    /\ queue' = Tail(queue)
    /\ UNCHANGED <<left, stop, missed>>

Finish(j) ==
    /\ j \in running
    /\ running' = running \ {j}
    /\ UNCHANGED <<queue, left, stop, missed>>

Quit(j) ==
    /\ j \in running
    /\ running' = running \ {j}
    /\ left' = left + 1
    /\ UNCHANGED <<queue, stop, missed>>

RaiseStop ==
    /\ stop = "no"
    /\ stop' = "flag"
    /\ UNCHANGED <<queue, running, left, missed>>

AskToLeave ==
    /\ stop = "flag"
    /\ stop' = "asked"
    /\ missed' \in BOOLEAN /\ (missed' => Idle > 0)
    /\ UNCHANGED <<queue, running, left>>

Leave ==
    /\ stop # "no" /\ Idle > (IF missed THEN 1 ELSE 0)
    /\ left' = left + 1
    /\ UNCHANGED <<queue, running, stop, missed>>

\* A spurious wakeup of the thread that was missed.
Rouse ==
    /\ missed
    /\ missed' = FALSE
    /\ UNCHANGED <<queue, running, left, stop>>

AllLeft == stop = "asked" /\ left = PoolSize

QueueNext ==
    \/ \E j \in Jobs : Add(j) \/ Finish(j) \/ Quit(j)
    \/ Start \/ RaiseStop \/ AskToLeave \/ Leave \/ Rouse

QueueSpec == QueueInit /\ [][QueueNext]_poolVars
=============================================================================
