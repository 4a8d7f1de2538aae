-------------------------- MODULE MCEventDispatch --------------------------
(* Values of EventDispatch's constants for TLC.  Populations of event
   infos; the types are 0 (ADD_EVENT), 1.. EVENT_COUNT (normal), above it
   timers, EVENT_MAX (no slot) and anything larger (unknown). *)
EXTENDS EventDispatch, TLC

\* One normal event, three infos of the one timer type, one of the first type
\* without a slot and one of an unknown type.
CallsType == [a1 |-> 1, t1 |-> 2, t2 |-> 2, t3 |-> 2, m1 |-> 3, u1 |-> 4]
CallsSet == DOMAIN CallsType

\* Two events of one normal type, two ADD_EVENTs, and a timer.
LiveType == [a1 |-> 1, a2 |-> 1, z1 |-> 0, z2 |-> 0, t1 |-> 2]
LiveSet == DOMAIN LiveType

CallerSymmetry == Permutations(Callers)
=============================================================================
