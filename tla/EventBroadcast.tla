--------------------------- MODULE EventBroadcast ---------------------------
(***************************************************************************)
(* What the listener side of the service promises, with no mutex, looper   *)
(* or worker in sight: an info goes, at one moment, to every listener that *)
(* is registered for its event at that moment and that it is addressed to; *)
(* each of these deliveries is begun at most once, in any order, even if   *)
(* the listener has left by then.  A listener leaves a list because it is  *)
(* dead, or because a client names it: then one of that name stays only if *)
(* the one right before it leaves.                                         *)
(***************************************************************************)
EXTENDS Naturals, SkippingErase

CONSTANTS
    Events,     \* event types
    Listeners,  \* listeners
    NameOf,     \* their names
    Posts,      \* infos that may be broadcast
    PostOf,     \* per info: [event, name], name = NULL for everybody
    NULL

VARIABLES
    members,    \* per event, its listeners in the order they came
    dead,       \* listeners that have died
    sent,       \* infos that have gone to their listeners
    letters,    \* the deliveries made of them
    opened      \* those that have begun

broadcastVars == <<members, dead, sent, letters, opened>>

BroadcastInit ==
    /\ members = [e \in Events |-> <<>>]
    /\ dead = {} /\ sent = {} /\ letters = {} /\ opened = {}

Join(e, l) ==
    /\ members' = [members EXCEPT ![e] = Append(@, l)]
    /\ UNCHANGED <<dead, sent, letters, opened>>

Leave(e, name) ==
    LET s == members[e]
        named == {k \in DOMAIN s : NameOf[s[k]] = name}
    IN  /\ \E gone \in SUBSET named :
              /\ \A k \in gone : s[k] \notin dead
              /\ \A k \in named \ gone : k - 1 \in gone
              /\ members' = [members EXCEPT ![e] = Kept(s, gone)]
        /\ UNCHANGED <<dead, sent, letters, opened>>

LeaveDead(e, k) ==
    /\ members[e][k] \in dead
    /\ members' = [members EXCEPT ![e] = RemoveAt(@, k)]
    /\ UNCHANGED <<dead, sent, letters, opened>>

Perish ==
    /\ dead' \in SUBSET Listeners /\ dead \subseteq dead'
    /\ UNCHANGED <<members, sent, letters, opened>>

LettersTo(p, s) ==
    {[post |-> p, listener |-> s[k], nth |-> k] :
        k \in {j \in DOMAIN s : PostOf[p].name \in {NULL, NameOf[s[j]]}}}

Send(p) ==
    /\ p \notin sent
    /\ sent' = sent \cup {p}
    /\ letters' = letters \cup LettersTo(p, members[PostOf[p].event])
    /\ UNCHANGED <<members, dead, opened>>

Open(t) ==
    /\ t \in letters \ opened
    /\ opened' = opened \cup {t}
    /\ UNCHANGED <<members, dead, sent, letters>>

BroadcastNext ==
    \/ \E e \in Events, l \in Listeners : Join(e, l) \/ Leave(e, NameOf[l])
    \/ \E e \in Events : \E k \in DOMAIN members[e] : LeaveDead(e, k)
    \/ Perish
    \/ \E p \in Posts : Send(p)
    \/ \E t \in letters : Open(t)

BroadcastSpec == BroadcastInit /\ [][BroadcastNext]_broadcastVars
=============================================================================
