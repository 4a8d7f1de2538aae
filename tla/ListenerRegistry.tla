-------------------------- MODULE ListenerRegistry --------------------------
(***************************************************************************)
(* The listener side of the service (EventService/src/Event.cpp): clients  *)
(* register and unregister listeners per event, the looper's callback      *)
(* posts one task per listener an info is addressed to, the tasks call     *)
(* OnEvent in the listener's process, and a garbage collection per death   *)
(* notification takes dead listeners out of the lists.                     *)
(*                                                                         *)
(* Three kinds of mutex meet here: m_pEventMutex, m_pDeathMutex and one    *)
(* m_pCbLinstenerMutex per event.  The collection takes all of them; an    *)
(* OnEvent runs with m_pDeathMutex held in a process that may call back.   *)
(* Binder (death links, obituaries, calls to dead processes) is external.  *)
(***************************************************************************)
EXTENDS Integers, FiniteSets, SkippingErase, FiniteSetsExt

CONSTANTS
    Processes,    \* client processes
    Listeners,    \* their listener objects
    ProcessOf,    \* the process of each listener
    NameOf,       \* getListenerName() of each listener
    EVENT_MAX,    \* E_SYSTEM_EVENT_MAX: number of lists, and m_uEventCount
    Calls,        \* Register- and UnregisterEventListener calls clients may make
    CallOf,       \* their arguments: [op, event, listener]
    MAX_CALLS,    \* bound: calls made and infos handed over in a behaviour
    Posts,        \* infos handed to the callback
    PostOf,       \* per info: [event, name], name = NULL for a broadcast
    Senders,      \* listeners whose OnEvent calls SendEvent
    NULL

Events == 0..(EVENT_MAX - 1)

ASSUME RegistryAssumption ==
    /\ IsFiniteSet(Listeners) /\ Senders \subseteq Listeners
    /\ ProcessOf \in [Listeners -> Processes]
    /\ EVENT_MAX \in Nat \ {0}
    /\ \A c \in Calls : /\ CallOf[c].op \in {"register", "unregister"}
                        /\ CallOf[c].event \in 0..255
                        /\ CallOf[c].listener \in Listeners
    /\ \A p \in Posts : PostOf[p].event \in Events \ {0}
    /\ MAX_CALLS \in Nat
    /\ NULL \notin Posts /\ NULL \notin {"gc", "looper", "post"}

VARIABLES
    m_pLinstenerList,     \* per event, the registered listeners
    m_pCbLinstenerMutex,  \* per event, who holds its mutex, or NULL
    m_pEventMutex,        \* held by a collection ("gc"), or NULL
    m_pDeathMutex,        \* held by a collection, by a task ("post"), or NULL
    alive,                \* processes that have not died
    links,                \* per listener, its registered death recipients
    obitsSent,            \* listeners whose obituary binder has sent
    calls,                \* where each call is
    looper,               \* where the callback is
    post,                 \* the info it fans out, or NULL
    it,                   \* its position in the list
    posted,               \* infos whose fan-out is over or under way
    tasks,                \* the PostEvent tasks made so far
    started,              \* those a worker has started with m_pDeathMutex
    delivery,             \* where the PostEvent task with m_pDeathMutex is
    delivering,           \* that task, or NULL
    collections,          \* GarbageCollection tasks that have not started
    collector,            \* where the running collection is
    sweep,                \* the list it is at, and its position in it
    lost,                 \* collections that deaths will not bring (history)
    fault                 \* the memory fault that ended the process, or "none"

registryVars == <<m_pLinstenerList, links, lost>>
looperVars == <<looper, post, it, posted>>
deliveryVars == <<started, delivery, delivering>>
collectorVars == <<collections, collector, sweep>>
vars == <<registryVars, m_pCbLinstenerMutex, m_pEventMutex, m_pDeathMutex, alive,
          obitsSent, calls, looperVars, tasks, deliveryVars, collectorVars, fault>>

Dead(l) == ProcessOf[l] \notin alive
Running == fault = "none"
Task == [post : Posts, listener : Listeners, nth : Nat]

TypeOK ==
    /\ m_pLinstenerList \in [Events -> Seq(Listeners)]
    /\ m_pCbLinstenerMutex \in [Events -> {"looper", "gc", NULL}]
    /\ m_pEventMutex \in {"gc", NULL} /\ m_pDeathMutex \in {"gc", "post", NULL}
    /\ alive \subseteq Processes /\ obitsSent \subseteq Listeners
    /\ links \in [Listeners -> Nat] /\ lost \in Nat
    /\ calls \in [Calls -> {"new", "made", "done"}]
    /\ looper \in {"idle", "lock", "loop", "reset"}
    /\ post \in Posts \cup {NULL} /\ posted \subseteq Posts /\ it \in Nat
    /\ tasks \subseteq Task /\ started \subseteq tasks
    /\ delivery \in {"none", "on_event", "sends", "unlock"}
    /\ delivering \in Task \cup {NULL}
    /\ collections \in Nat
    /\ collector \in {"idle", "lock_death", "lock_list", "sweep", "unlock"}
    /\ sweep \in Events \X Nat
    /\ fault \in {"none", "oob", "null_name"}

Init ==
    /\ m_pLinstenerList = [e \in Events |-> <<>>]
    /\ m_pCbLinstenerMutex = [e \in Events |-> NULL]
    /\ m_pEventMutex = NULL /\ m_pDeathMutex = NULL
    /\ alive = Processes /\ obitsSent = {}
    /\ links = [l \in Listeners |-> 0] /\ lost = 0
    /\ calls = [c \in Calls |-> "new"]
    /\ looper = "idle" /\ post = NULL /\ it = 1 /\ posted = {}
    /\ tasks = {} /\ started = {} /\ delivery = "none" /\ delivering = NULL
    /\ collections = 0 /\ collector = "idle" /\ sweep = <<0, 1>>
    /\ fault = "none"

-----------------------------------------------------------------------------
(* Binder.                                                                 *)

\* BpBinder::linkToDeath and n calls of unlinkToDeath: no effect once the
\* obituary has been sent.
linkToDeath(l) ==
    links' = IF l \in obitsSent THEN links ELSE [links EXCEPT ![l] = @ + 1]
Unlinked(l, n) ==
    IF l \in obitsSent THEN links
    ELSE [links EXCEPT ![l] = IF @ > n THEN @ - n ELSE 0]

Die(p) ==
    /\ Running
    /\ p \in alive
    /\ alive' = alive \ {p}
    /\ UNCHANGED <<registryVars, m_pCbLinstenerMutex, m_pEventMutex, m_pDeathMutex,
                   obitsSent, calls, looperVars, tasks, deliveryVars,
                   collectorVars, fault>>

\* binderDied adds one GarbageCollection task for each death recipient.
binderDied_Once(l) ==    \* mutant
    collections' = IF collections = 0 /\ links[l] > 0 THEN 1 ELSE collections
binderDied(l) == collections' = collections + links[l]

sendObituary(l) ==
    /\ Running
    /\ Dead(l) /\ links[l] > 0 /\ l \notin obitsSent
    /\ obitsSent' = obitsSent \cup {l}
    /\ links' = [links EXCEPT ![l] = 0]
    /\ binderDied(l)
    /\ UNCHANGED <<m_pLinstenerList, lost, m_pCbLinstenerMutex, m_pEventMutex,
                   m_pDeathMutex, alive, calls, looperVars, tasks,
                   deliveryVars, collector, sweep, fault>>

-----------------------------------------------------------------------------
(* Register- and UnregisterEventListener.                                  *)

BelowBound == Cardinality({d \in Calls : calls[d] # "new"}) + Cardinality(posted) < MAX_CALLS

\* A client calls; the call is under way until a binder thread runs it, which
\* may be after the client has died.
MakeCall(c) ==
    /\ Running
    /\ calls[c] = "new" /\ ~Dead(CallOf[c].listener)
    /\ BelowBound
    /\ calls' = [calls EXCEPT ![c] = "made"]
    /\ UNCHANGED <<registryVars, m_pCbLinstenerMutex, m_pEventMutex, m_pDeathMutex,
                   alive, obitsSent, looperVars, tasks, deliveryVars,
                   collectorVars, fault>>

\* What the two calls share: the test of the event's range.
Call(c, op) ==
    /\ Running
    /\ calls[c] = "made" /\ CallOf[c].op = op
    /\ calls' = [calls EXCEPT ![c] = "done"]
    /\ UNCHANGED <<m_pCbLinstenerMutex, m_pEventMutex, m_pDeathMutex, alive,
                   obitsSent, looperVars, tasks, deliveryVars, collectorVars>>
OutOfRange(e) ==
    \/ e > EVENT_MAX /\ UNCHANGED <<registryVars, fault>>
    \/ e = EVENT_MAX /\ fault' = "oob" /\ UNCHANGED registryVars

CbMutexTaken_Ignored(e) == FALSE    \* mutant
CbMutexTaken(e) == m_pCbLinstenerMutex[e] # NULL

LinkListener_FirstOnly(l) ==    \* mutant
    IF links[l] = 0 THEN linkToDeath(l) ELSE UNCHANGED links
LinkListener(l) == linkToDeath(l)

RegisterEventListener(c) ==
    LET e == CallOf[c].event
        l == CallOf[c].listener
    IN  /\ Call(c, "register")
        /\ \/ OutOfRange(e)
           \/ /\ e \in Events /\ ~CbMutexTaken(e)
              /\ m_pLinstenerList' = [m_pLinstenerList EXCEPT ![e] = Append(@, l)]
              /\ LinkListener(l)
              /\ lost' = IF l \in obitsSent THEN lost + 1 ELSE lost
              /\ UNCHANGED fault

\* The listener is asked for its name before the mutex is taken (it may have
\* died since), then every listener the loop comes by: a dead process has no
\* answer, and a std::string is made from NULL.  Listeners of that name go, and
\* each time the argument is unlinked.
UnregisterEventListener(c) ==
    LET e == CallOf[c].event
        l == CallOf[c].listener
        s == m_pLinstenerList[e]
        named == {k \in DOMAIN s : NameOf[s[k]] = NameOf[l]}
        gone == ErasedAt(Len(s), named)
        deadVisited == \E k \in VisitedAt(Len(s), named) : Dead(s[k])
        own == Cardinality({k \in gone : s[k] = l})
    IN  /\ Call(c, "unregister")
        /\ \/ OutOfRange(e)
           \/ /\ e \in Events
              /\ Dead(l) \/ (~CbMutexTaken(e) /\ deadVisited)
              /\ fault' = "null_name"
              /\ UNCHANGED registryVars
           \/ /\ e \in Events /\ ~CbMutexTaken(e)
              /\ ~deadVisited
              /\ m_pLinstenerList' = [m_pLinstenerList EXCEPT ![e] = Kept(s, gone)]
              /\ links' = Unlinked(l, Cardinality(gone))
              /\ lost' = lost + Max({0, links[l] - links'[l] - own})
              /\ UNCHANGED fault

-----------------------------------------------------------------------------
(* The fan-out in mainCallBackFunction.                                    *)

AtLooper(pc) == Running /\ looper = pc
LooperOnly == UNCHANGED <<registryVars, m_pDeathMutex, alive, obitsSent, calls,
                          deliveryVars, collectorVars>>

\* The list's size is read without its mutex; an empty list is not locked.
ReadSize(p) ==
    /\ AtLooper("idle") /\ p \notin posted /\ BelowBound
    /\ looper' = IF m_pLinstenerList[PostOf[p].event] = <<>> THEN "reset" ELSE "lock"
    /\ post' = p /\ posted' = posted \cup {p} /\ it' = 1
    /\ UNCHANGED <<m_pCbLinstenerMutex, m_pEventMutex, tasks, fault>> /\ LooperOnly

LockList ==
    LET e == PostOf[post].event IN
    /\ AtLooper("lock") /\ m_pCbLinstenerMutex[e] = NULL
    /\ m_pCbLinstenerMutex' = [m_pCbLinstenerMutex EXCEPT ![e] = "looper"]
    /\ looper' = "loop"
    /\ UNCHANGED <<post, it, posted, m_pEventMutex, tasks, fault>> /\ LooperOnly

\* One turn of the loop.  An addressed info needs the listener's name.
Addressed(p, l) == PostOf[p].name \in {NULL, NameOf[l]}
PostToListener ==
    LET s == m_pLinstenerList[PostOf[post].event] IN
    /\ AtLooper("loop") /\ it <= Len(s)
    /\ fault' = IF PostOf[post].name # NULL /\ Dead(s[it]) THEN "null_name" ELSE "none"
    /\ tasks' = IF Addressed(post, s[it])
                THEN tasks \cup {[post |-> post, listener |-> s[it], nth |-> it]}
                ELSE tasks
    /\ it' = it + 1
    /\ UNCHANGED <<looper, post, posted, m_pCbLinstenerMutex, m_pEventMutex>> /\ LooperOnly

UnlockList_Late(e) == UNCHANGED m_pCbLinstenerMutex    \* mutant
UnlockList(e) == m_pCbLinstenerMutex' = [m_pCbLinstenerMutex EXCEPT ![e] = NULL]

EndLoop ==
    LET e == PostOf[post].event IN
    /\ AtLooper("loop") /\ it > Len(m_pLinstenerList[e])
    /\ UnlockList(e)
    /\ looper' = "reset" /\ it' = 1
    /\ UNCHANGED <<post, posted, m_pEventMutex, tasks, fault>> /\ LooperOnly

\* The slot is reset under m_pEventMutex (EventDispatch has the slot).
ResetSlot ==
    /\ AtLooper("reset") /\ m_pEventMutex = NULL
    /\ looper' = "idle" /\ post' = NULL
    /\ UNCHANGED <<it, posted, m_pCbLinstenerMutex, m_pEventMutex, tasks, fault>>
    /\ LooperOnly

-----------------------------------------------------------------------------
(* PostEvent::Run.                                                         *)

DeliveryOnly == UNCHANGED <<registryVars, m_pCbLinstenerMutex, m_pEventMutex, alive,
                            obitsSent, calls, looperVars, tasks, collectorVars, fault>>

\* Take m_pDeathMutex and ping the listener.
StartDelivery(t) ==
    /\ Running
    /\ t \in tasks \ started /\ m_pDeathMutex = NULL
    /\ m_pDeathMutex' = "post"
    /\ started' = started \cup {t} /\ delivering' = t
    /\ delivery' = IF Dead(t.listener) THEN "unlock" ELSE "on_event"
    /\ DeliveryOnly

\* OnEvent in the listener's process; it may call SendEvent before it returns.
OnEvent ==
    /\ Running
    /\ delivery = "on_event" /\ ~Dead(delivering.listener)
    /\ delivery' = IF delivering.listener \in Senders THEN "sends" ELSE "unlock"
    /\ UNCHANGED <<m_pDeathMutex, started, delivering>> /\ DeliveryOnly

\* That SendEvent gets m_pEventMutex, returns, and so does OnEvent.
SendEventProceeds_Unlocked == TRUE    \* mutant
SendEventProceeds == m_pEventMutex = NULL

HandlerSends ==
    /\ Running
    /\ delivery = "sends" /\ SendEventProceeds
    /\ delivery' = "unlock"
    /\ UNCHANGED <<m_pDeathMutex, started, delivering>> /\ DeliveryOnly

\* A transaction with a process that dies returns DEAD_OBJECT.
OnEventFails ==
    /\ Running
    /\ delivery \in {"on_event", "sends"} /\ Dead(delivering.listener)
    /\ delivery' = "unlock"
    /\ UNCHANGED <<m_pDeathMutex, started, delivering>> /\ DeliveryOnly

EndDelivery ==
    /\ Running
    /\ delivery = "unlock"
    /\ delivery' = "none" /\ delivering' = NULL
    /\ m_pDeathMutex' = NULL
    /\ UNCHANGED started /\ DeliveryOnly

-----------------------------------------------------------------------------
(* GarbageCollection::Run.                                                 *)

CollectorOnly == UNCHANGED <<alive, obitsSent, calls, looperVars, tasks,
                             deliveryVars, fault>>

StartCollection ==
    /\ Running
    /\ collections > 0 /\ collector = "idle" /\ m_pEventMutex = NULL
    /\ collections' = collections - 1
    /\ m_pEventMutex' = "gc" /\ collector' = "lock_death"
    /\ UNCHANGED <<registryVars, m_pCbLinstenerMutex, m_pDeathMutex, sweep>>
    /\ CollectorOnly

LockDeath ==
    /\ Running
    /\ collector = "lock_death" /\ m_pDeathMutex = NULL
    /\ m_pDeathMutex' = "gc" /\ collector' = "lock_list"
    /\ UNCHANGED <<registryVars, m_pCbLinstenerMutex, m_pEventMutex, collections, sweep>>
    /\ CollectorOnly

LockNextList ==
    LET e == sweep[1] IN
    /\ Running
    /\ collector = "lock_list" /\ m_pCbLinstenerMutex[e] = NULL
    /\ m_pCbLinstenerMutex' = [m_pCbLinstenerMutex EXCEPT ![e] = "gc"]
    /\ collector' = "sweep"
    /\ UNCHANGED <<registryVars, m_pEventMutex, m_pDeathMutex, collections, sweep>>
    /\ CollectorOnly

\* One turn of the inner loop: a dead listener is unlinked and erased, and the
\* listener behind it is stepped over.  If its death is not reported yet, the
\* unlinkToDeath cancels the report and the collection that would follow.
Collect ==
    LET e == sweep[1]
        s == m_pLinstenerList[e]
        n == sweep[2]
    IN  /\ Running
        /\ collector = "sweep" /\ n <= Len(s)
        /\ sweep' = <<e, n + 1>>
        /\ IF Dead(s[n])
           THEN /\ m_pLinstenerList' = [m_pLinstenerList EXCEPT ![e] = RemoveAt(s, n)]
                /\ links' = Unlinked(s[n], 1)
                /\ lost' = IF links[s[n]] > 0 THEN lost + 1 ELSE lost
           ELSE UNCHANGED registryVars
        /\ UNCHANGED <<m_pCbLinstenerMutex, m_pEventMutex, m_pDeathMutex,
                       collections, collector>>
        /\ CollectorOnly

MoreLists_OneTooMany(e) == e + 1 <= EVENT_MAX    \* mutant
MoreLists(e) == e + 1 < EVENT_MAX

EndSweep ==
    LET e == sweep[1] IN
    /\ Running
    /\ collector = "sweep" /\ sweep[2] > Len(m_pLinstenerList[e])
    /\ m_pCbLinstenerMutex' = [m_pCbLinstenerMutex EXCEPT ![e] = NULL]
    /\ IF MoreLists(e)
       THEN sweep' = <<e + 1, 1>> /\ collector' = "lock_list"
       ELSE UNCHANGED sweep /\ collector' = "unlock"
    /\ UNCHANGED <<registryVars, m_pEventMutex, m_pDeathMutex, collections>>
    /\ CollectorOnly

UnlockDeath == m_pDeathMutex' = NULL

EndCollection ==
    /\ Running
    /\ collector = "unlock"
    /\ m_pEventMutex' = NULL /\ UnlockDeath
    /\ collector' = "idle" /\ sweep' = <<0, 1>>
    /\ UNCHANGED <<registryVars, m_pCbLinstenerMutex, collections>>
    /\ CollectorOnly

-----------------------------------------------------------------------------
LooperStep == LockList \/ PostToListener \/ EndLoop \/ ResetSlot
DeliveryStep == OnEvent \/ HandlerSends \/ OnEventFails \/ EndDelivery
SweepStep == Collect \/ EndSweep \/ EndCollection
CollectorStep == StartCollection \/ LockDeath \/ LockNextList \/ SweepStep

\* What the service's threads and binder do of themselves.
ServiceStep ==
    \/ \E l \in Listeners : sendObituary(l)
    \/ \E c \in Calls : RegisterEventListener(c) \/ UnregisterEventListener(c)
    \/ LooperStep
    \/ (\E t \in tasks : StartDelivery(t)) \/ DeliveryStep
    \/ CollectorStep

Next ==
    \/ \E p \in Processes : Die(p)
    \/ \E c \in Calls : MakeCall(c)
    \/ \E p \in Posts : ReadSize(p)
    \/ ServiceStep

Spec == Init /\ [][Next]_vars

-----------------------------------------------------------------------------
(* Properties.                                                             *)

\* Who holds which mutex: a collection never meets an OnEvent, the callback's
\* loop, or another collection.
MutexInv ==
    /\ m_pEventMutex = "gc" <=> collector # "idle"
    /\ m_pDeathMutex = "gc" <=> collector \in {"lock_list", "sweep", "unlock"}
    /\ m_pDeathMutex = "post" <=> delivery # "none"
    /\ \A e \in Events :
        /\ m_pCbLinstenerMutex[e] = "gc" <=> collector = "sweep" /\ sweep[1] = e
        /\ m_pCbLinstenerMutex[e] = "looper" <=> looper = "loop" /\ PostOf[post].event = e

\* The fan-out is a snapshot: while the callback walks the list, it has made
\* exactly one task for every addressed listener it has passed, and the list it
\* has passed is still the list, whoever registers, unregisters or dies.
FanOutSnapshot ==
    looper = "loop" =>
        LET s == m_pLinstenerList[PostOf[post].event] IN
        {t \in tasks : t.post = post} =
            {[post |-> post, listener |-> s[k], nth |-> k] :
                k \in {j \in 1..(it - 1) : j \in DOMAIN s /\ Addressed(post, s[j])}}

\* A listener whose name is its own, and whose death is not yet reported, has
\* one death recipient for each of its entries in the lists, so that its death
\* brings one collection per entry.
EntriesIn(S) ==
    {entry \in UNION {{e} \X DOMAIN m_pLinstenerList[e] : e \in Events} :
        m_pLinstenerList[entry[1]][entry[2]] \in S}
EntriesOf(l) == EntriesIn({l})
LinkPerEntry ==
    \A l \in Listeners :
        l \notin obitsSent /\ (\A m \in Listeners : NameOf[m] = NameOf[l] => m = l) =>
            links[l] = Cardinality(EntriesOf(l))

\* Automatic collection: although a collection steps over the listener behind
\* each one it takes out, there is one per entry of the dead, so that when all
\* have run no more dead listeners are left than collections were lost: a
\* listener was registered after its obituary, unlinked by an Unregister for
\* another of its name, or unlinked by a collection before its obituary.
DeadEntries == EntriesIn({l \in Listeners : Dead(l)})
AllCollected ==
    /\ collections = 0 /\ collector = "idle"
    /\ \A l \in Listeners : Dead(l) => links[l] = 0
AutoCollect == AllCollected => Cardinality(DeadEntries) <= lost

\* The one deadlock of the service: a collection holds m_pEventMutex and waits
\* for m_pDeathMutex, a delivery holds that and its OnEvent waits in SendEvent.
\* It ends only with the death of the process that runs the OnEvent.
Embrace == collector = "lock_death" /\ delivery = "sends"
EmbraceUntilDeath ==
    [][Embrace /\ ~Embrace' => Dead(delivering.listener)]_vars

\* No other order of the locks blocks, wherever clients died on the way: unless
\* the process has faulted or is in that embrace, the service stops only when
\* every call has been answered, every fan-out is over and every task has run:
\* until then one of its threads does not wait for a mutex, and can take a step.
\* (Behaviours are finite, so this is also what must eventually happen.)
Quiet ==
    /\ looper = "idle" /\ collections = 0 /\ collector = "idle"
    /\ tasks = started /\ delivery = "none"
    /\ \A c \in Calls : calls[c] # "made"
LooperGoesOn ==
    \/ looper = "lock" /\ m_pCbLinstenerMutex[PostOf[post].event] = NULL
    \/ looper = "loop"
    \/ looper = "reset" /\ m_pEventMutex = NULL
DeliveryGoesOn ==
    \/ delivery = "none" /\ m_pDeathMutex = NULL /\ tasks # started
    \/ delivery \in {"on_event", "unlock"}
    \/ delivery = "sends" /\ (m_pEventMutex = NULL \/ Dead(delivering.listener))
CollectorGoesOn ==
    \/ collector = "idle" /\ m_pEventMutex = NULL /\ collections > 0
    \/ collector = "lock_death" /\ m_pDeathMutex = NULL
    \/ collector = "lock_list" /\ m_pCbLinstenerMutex[sweep[1]] = NULL
    \/ collector \in {"sweep", "unlock"}
CallGoesOn(c) ==
    /\ calls[c] = "made"
    /\ CallOf[c].event \in Events => m_pCbLinstenerMutex[CallOf[c].event] = NULL
Unblocked ==
    LooperGoesOn \/ DeliveryGoesOn \/ CollectorGoesOn \/ \E c \in Calls : CallGoesOn(c)
SomeoneGoesOn == Running /\ ~Embrace /\ ~Quiet => Unblocked
NoOtherDeadlock == SomeoneGoesOn /\ (Running /\ Unblocked => ENABLED ServiceStep)

-----------------------------------------------------------------------------
(* The registry implements EventBroadcast: an info goes to its listeners   *)
(* when the callback takes the list's mutex, or finds the list empty; the  *)
(* tasks it has still to make are deliveries already.                      *)

dead == {l \in Listeners : Dead(l)}
sent == posted \ (IF looper = "lock" THEN {post} ELSE {})
StillToCome ==
    LET s == m_pLinstenerList[PostOf[post].event] IN
    {[post |-> post, listener |-> s[k], nth |-> k] :
        k \in {j \in DOMAIN s : j >= it /\ Addressed(post, s[j])}}
letters == tasks \cup (IF looper = "loop" THEN StillToCome ELSE {})

Broadcast == INSTANCE EventBroadcast WITH
    members <- m_pLinstenerList, opened <- started

\* Whoever registers, unregisters, dies or is collected while the callback walks
\* a list and workers start the deliveries: each info goes once, at one moment,
\* to exactly the listeners that are registered and addressed at that moment, no
\* delivery begins twice, and nobody leaves a list who is neither dead nor named.
ImplementsBroadcast == Broadcast!BroadcastSpec

-----------------------------------------------------------------------------
\* "there are some event listeners not unregiste, in this circumstance system
\* will auto collect them": once all collections have run, no dead listener is
\* left.
DeadListenersCollected == Running /\ AllCollected => DeadEntries = {}
=============================================================================
