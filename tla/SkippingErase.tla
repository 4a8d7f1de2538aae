--------------------------- MODULE SkippingErase ---------------------------
(***************************************************************************)
(* The erase loop of UnregisterEventListener:                              *)
(*     for (iter = begin; iter != end; iter++)                             *)
(*         if (hit) { iter = erase(iter); if (iter == end) break; }        *)
(* erase returns the element behind the erased one and iter++ steps over   *)
(* it, so of hits in a row every other one stays.                          *)
(***************************************************************************)
EXTENDS SequencesExt

\* The positions of a sequence of length n the loop erases; hit is the set of
\* positions whose element the condition holds for.
ErasedAt(n, hit) ==
    LET erased[k \in 0..n] == k > 0 /\ k \in hit /\ ~erased[k - 1]
    IN  {k \in 1..n : erased[k]}

\* The positions the condition is evaluated at.
VisitedAt(n, hit) == {k \in 1..n : k - 1 \notin ErasedAt(n, hit)}

\* The sequence without those positions.
Kept(s, gone) ==
    LET left == DOMAIN s \ gone
        order == CHOOSE f \in [1..Cardinality(left) -> left] :
                     \A j, k \in DOMAIN f : j < k => f[j] < f[k]
    IN  [k \in DOMAIN order |-> s[order[k]]]
=============================================================================
