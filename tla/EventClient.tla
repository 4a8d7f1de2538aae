---------------------------- MODULE EventClient ----------------------------
(***************************************************************************)
(* The connection of a client process to the service                       *)
(* (nativeClient/OClt_EventManager/src/OClt_EventManager.cpp).  All        *)
(* OClt_EventManager objects of a process share the static m_pEventService *)
(* that constructors fill, destructors clear and the death notifier        *)
(* clears.  The calls test it and then use it without m_FunctionLock.      *)
(* The service may die and be started again: its incarnations are numbered.*)
(* Service manager, binder and init are external.                          *)
(***************************************************************************)
EXTENDS Integers, FiniteSets

CONSTANTS
    Clients,       \* threads of the process, each with an OClt_EventManager
    MAX_SERVICE,   \* bound: incarnations of the service; the last one lives
    MAX_DESTROYED, \* bound: managers destroyed
    NULL

Services == 1..MAX_SERVICE

ASSUME ClientAssumption ==
    /\ IsFiniteSet(Clients)
    /\ MAX_SERVICE \in Nat \ {0} /\ MAX_DESTROYED \in Nat
    /\ NULL \notin Clients /\ NULL \notin Services

VARIABLES
    service,           \* the incarnation that runs, or NULL
    born,              \* incarnations started so far
    published,         \* what getService("Event") answers, or NULL
    m_pEventService,   \* the incarnation the process is connected to, or NULL
    m_pDeathNotifier,  \* the client that created the notifier, or NULL
    links,             \* per incarnation and notifier, registered recipients
    obitsSent,         \* incarnations whose obituary the process has received
    reports,           \* per incarnation and notifier, binderDied calls to come
    client,            \* where each client is
    target,            \* the incarnation a call of a client goes to, or NULL
    linked,            \* incarnations linked more than once (history)
    refused,           \* incarnations that refused a link (history)
    ended,             \* what connections have been ended by: <<incarnation, how>>
                       \* (history)
    destroyed,         \* managers destroyed so far (history)
    fault              \* "none", or the use of a NULL m_pEventService

serviceVars == <<service, born, published>>
deathVars == <<m_pDeathNotifier, links, obitsSent, reports, linked, refused, ended>>
clientVars == <<client, target, destroyed>>
connectionVars == <<serviceVars, m_pEventService, deathVars, clientVars, fault>>

Running == fault = "none"

\* m_FunctionLock is kept from step to step only while getEventService polls.
FunctionLockFree == \A c \in Clients : client[c] # "get"

NoRecipients == [n \in Clients |-> 0]

\* A destructor, a report of the service's own death, one of another's death.
Endings == {"destructor", "report", "stale report"}

ConnectionTypeOK ==
    /\ service \in Services \cup {NULL} /\ born \in 0..MAX_SERVICE
    /\ published \in Services \cup {NULL}
    /\ m_pEventService \in Services \cup {NULL}
    /\ m_pDeathNotifier \in Clients \cup {NULL}
    /\ links \in [Services -> [Clients -> Nat]]
    /\ reports \in [Services -> [Clients -> Nat]]
    /\ obitsSent \subseteq Services /\ linked \subseteq Services /\ refused \subseteq Services
    /\ ended \subseteq Services \X Endings
    /\ client \in [Clients -> {"none", "lock", "get", "test", "notifier", "create",
                               "link", "ready", "call", "transact"}]
    /\ target \in [Clients -> Services \cup {NULL}]
    /\ destroyed \in 0..MAX_DESTROYED
    /\ fault \in {"none", "null_service"}

ConnectionInit ==
    /\ service = NULL /\ born = 0 /\ published = NULL
    /\ m_pEventService = NULL /\ m_pDeathNotifier = NULL
    /\ links = [k \in Services |-> NoRecipients]
    /\ reports = [k \in Services |-> NoRecipients]
    /\ obitsSent = {} /\ linked = {} /\ refused = {} /\ ended = {}
    /\ client = [c \in Clients |-> "none"]
    /\ target = [c \in Clients |-> NULL]
    /\ destroyed = 0
    /\ fault = "none"

-----------------------------------------------------------------------------
(* The service's lives (main.cpp in README.md), the service manager and    *)
(* binder's death notifications.                                           *)

\* Event::instantiate adds the service.
StartService ==
    /\ Running
    /\ service = NULL /\ born < MAX_SERVICE
    /\ born' = born + 1 /\ service' = born + 1 /\ published' = born + 1
    /\ UNCHANGED <<m_pEventService, deathVars, clientVars, fault>>

ServiceDies ==
    /\ Running
    /\ service # NULL /\ service < MAX_SERVICE
    /\ service' = NULL
    /\ UNCHANGED <<born, published, m_pEventService, deathVars, clientVars, fault>>

\* The service manager drops a dead service when it hears of the death.
Unpublish ==
    /\ Running
    /\ published # NULL /\ published # service
    /\ published' = NULL
    /\ UNCHANGED <<service, born, m_pEventService, deathVars, clientVars, fault>>

DeadService(k) == k \in 1..born /\ k # service

\* Every registered recipient is going to be called; later links are refused.
sendObituary(k) ==
    /\ Running
    /\ DeadService(k) /\ k \notin obitsSent /\ links[k] # NoRecipients
    /\ obitsSent' = obitsSent \cup {k}
    /\ reports' = [reports EXCEPT ![k] = links[k]]
    /\ links' = [links EXCEPT ![k] = NoRecipients]
    /\ UNCHANGED <<serviceVars, m_pEventService, m_pDeathNotifier, linked, refused,
                   ended, clientVars, fault>>

linkToDeath(k, n) ==
    IF k \in obitsSent
    THEN refused' = refused \cup {k} /\ UNCHANGED <<links, linked>>
    ELSE /\ links' = [links EXCEPT ![k][n] = @ + 1]
         /\ linked' = IF links[k] # NoRecipients THEN linked \cup {k} ELSE linked
         /\ UNCHANGED refused

Reported(k, n) == reports[k][n] > 0

\* What a report and a destructor end (history).
EndedByReport(k) ==
    {<<k, "report">>} \cup {<<s, "stale report">> : s \in {m_pEventService} \ {NULL, k}}
EndedByDestructor == {<<s, "destructor">> : s \in {m_pEventService} \ {NULL}}

\* DeathNotifier::binderDied clears the connection, whichever it is by now.
binderDied(k, n) ==
    /\ Running
    /\ Reported(k, n) /\ FunctionLockFree
    /\ reports' = [reports EXCEPT ![k][n] = @ - 1]
    /\ m_pEventService' = NULL
    /\ ended' = ended \cup EndedByReport(k)
    /\ UNCHANGED <<serviceVars, m_pDeathNotifier, links, obitsSent, linked, refused,
                   clientVars, fault>>

-----------------------------------------------------------------------------
(* The constructor and the destructor.                                     *)

Goto(c, pc) == client' = [client EXCEPT ![c] = pc]
At(c, pc) == Running /\ client[c] = pc

Construct(c) ==
    /\ At(c, "none")
    /\ Goto(c, "lock")
    /\ UNCHANGED <<serviceVars, m_pEventService, deathVars, target, destroyed, fault>>

MustPoll_Always == TRUE    \* mutant
MustPoll == m_pEventService = NULL

\* getEventService: return at once if connected, otherwise poll with the lock.
LockFunction(c) ==
    /\ At(c, "lock") /\ FunctionLockFree
    /\ Goto(c, IF MustPoll THEN "get" ELSE "test")
    /\ UNCHANGED <<serviceVars, m_pEventService, deathVars, target, destroyed, fault>>

Found_FirstOnly == published = 1    \* mutant
Found == published # NULL

\* getService answers in the end; what it answers may have died.
GetService(c) ==
    /\ At(c, "get") /\ Found
    /\ m_pEventService' = published
    /\ Goto(c, "test")
    /\ UNCHANGED <<serviceVars, deathVars, target, destroyed, fault>>

\* The test in the constructor reads the static again, without the lock.
TestService(c) ==
    /\ At(c, "test")
    /\ Goto(c, IF m_pEventService = NULL THEN "ready" ELSE "notifier")
    /\ UNCHANGED <<serviceVars, m_pEventService, deathVars, target, destroyed, fault>>

TestNotifier(c) ==
    /\ At(c, "notifier")
    /\ Goto(c, IF m_pDeathNotifier = NULL THEN "create" ELSE "link")
    /\ UNCHANGED <<serviceVars, m_pEventService, deathVars, target, destroyed, fault>>

\* Two constructors may both create a notifier.  The second one replaces the
\* first, whose destructor takes the lock and whose links are dead.
CreateNotifier(c) ==
    LET old == m_pDeathNotifier
        Without(f) == IF old = NULL THEN f ELSE [k \in Services |-> [f[k] EXCEPT ![old] = 0]]
    IN  /\ At(c, "create")
        /\ old = NULL \/ FunctionLockFree
        /\ m_pDeathNotifier' = c
        /\ links' = Without(links) /\ reports' = Without(reports)
        /\ Goto(c, "link")
        /\ UNCHANGED <<serviceVars, m_pEventService, obitsSent, linked, refused, ended,
                       target, destroyed, fault>>

NeedsLink_FirstOnly(c) == m_pEventService # NULL /\ m_pDeathNotifier = c    \* mutant
NeedsLink(c) == m_pEventService # NULL

\* linkToDeath on what the static holds now.
Link(c) ==
    /\ At(c, "link")
    /\ fault' = IF m_pEventService = NULL THEN "null_service" ELSE "none"
    /\ IF NeedsLink(c) THEN linkToDeath(m_pEventService, m_pDeathNotifier)
                       ELSE UNCHANGED <<links, linked, refused>>
    /\ Goto(c, "ready")
    /\ UNCHANGED <<serviceVars, m_pEventService, m_pDeathNotifier, obitsSent, reports,
                   ended, target, destroyed>>

\* The destructor clears the connection of every manager, without the lock.
Destroy(c) ==
    /\ At(c, "ready") /\ destroyed < MAX_DESTROYED
    /\ m_pEventService' = NULL
    /\ ended' = ended \cup EndedByDestructor
    /\ destroyed' = destroyed + 1
    /\ Goto(c, "none")
    /\ UNCHANGED <<serviceVars, m_pDeathNotifier, links, obitsSent, reports, linked,
                   refused, target, fault>>

-----------------------------------------------------------------------------
(* A call of the manager: test, use, and the service's answer.             *)

\* Without a connection the call does nothing.
Test(c) ==
    /\ At(c, "ready") /\ m_pEventService # NULL
    /\ Goto(c, "call")
    /\ UNCHANGED <<serviceVars, m_pEventService, deathVars, target, destroyed, fault>>

Use(c) ==
    /\ At(c, "call")
    /\ target' = [target EXCEPT ![c] = m_pEventService]
    /\ fault' = IF m_pEventService = NULL THEN "null_service" ELSE "none"
    /\ Goto(c, "transact")
    /\ UNCHANGED <<serviceVars, m_pEventService, deathVars, destroyed>>

\* The answer, or DEAD_OBJECT.
Return(c) ==
    /\ At(c, "transact")
    /\ target' = [target EXCEPT ![c] = NULL]
    /\ Goto(c, "ready")
    /\ UNCHANGED <<serviceVars, m_pEventService, deathVars, destroyed, fault>>

-----------------------------------------------------------------------------
LinkStep(c) ==
    TestService(c) \/ TestNotifier(c) \/ CreateNotifier(c) \/ Link(c)
ConstructorStep(c) == LockFunction(c) \/ GetService(c) \/ LinkStep(c)
NotificationStep ==
    \E k \in Services : sendObituary(k) \/ \E n \in Clients : binderDied(k, n)

ClientStep(c) ==
    \/ Construct(c) \/ ConstructorStep(c) \/ Destroy(c)
    \/ Test(c) \/ Use(c) \/ Return(c)
ServiceStep == StartService \/ ServiceDies \/ Unpublish

ConnectionNext == ServiceStep \/ NotificationStep \/ \E c \in Clients : ClientStep(c)

\* Fairness: init restarts the service, binder reports deaths, and a thread that
\* wants m_FunctionLock gets it if it is free again and again.
ConnectionFairness ==
    /\ WF_connectionVars(StartService)
    /\ \A k \in Services : WF_connectionVars(sendObituary(k))
    /\ \A k \in Services, n \in Clients : SF_connectionVars(binderDied(k, n))
    /\ \A c \in Clients : SF_connectionVars(ConstructorStep(c))

ConnectionSpec == ConnectionInit /\ [][ConnectionNext]_connectionVars /\ ConnectionFairness

-----------------------------------------------------------------------------
(* Properties.                                                             *)

\* A process does not stay with a dead service unnoticed: if it is connected to
\* one, the death is going to be reported to it, or the constructor that fetched
\* it has still to link, or that link came after the obituary and was refused.
Recipients(f, k) == {n \in Clients : f[k][n] > 0}
DeathNoticed ==
    m_pEventService # NULL /\ DeadService(m_pEventService) /\ Running =>
        \/ Recipients(links, m_pEventService) \cup Recipients(reports, m_pEventService) # {}
        \/ \E c \in Clients : client[c] \in {"test", "notifier", "create", "link"}
        \/ m_pEventService \in refused

\* What a connection is lost by: a destructor of the process, the death of its
\* own service, or the report of the death of another service, which the process
\* had been connected to before, and then either a destructor had ended that
\* connection and left its link behind, or it is the second report of that death
\* because two managers had linked, or that connection had itself been ended by
\* the report of a third service's death.
ReportOf(k) == \E n \in Clients : binderDied(k, n)
LinkLeftBehind(k) ==
    \/ <<k, "destructor">> \in ended
    \/ <<k, "report">> \in ended /\ k \in linked
    \/ <<k, "stale report">> \in ended
ConnectionLost == m_pEventService # NULL /\ m_pEventService' # m_pEventService
LossExplained ==
    \/ \E c \in Clients : Destroy(c)
    \/ \E k \in Services : /\ ReportOf(k)
                           /\ IF m_pEventService = k THEN DeadService(k) ELSE LinkLeftBehind(k)
ConnectionKept == [][ConnectionLost => LossExplained]_connectionVars

\* A constructor returns in the end, although it polls with m_FunctionLock held
\* and constructors, reports and destructors contend for the connection.
Constructing(c) == client[c] \notin {"none", "ready", "call", "transact"}
ConstructorReturns == \A c \in Clients : Constructing(c) ~> ~Constructing(c) \/ ~Running
=============================================================================
