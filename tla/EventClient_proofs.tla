------------------------- MODULE EventClient_proofs -------------------------
(***************************************************************************)
(* Proofs about the connection of a client process, for any number of      *)
(* managers and of the service's lives: the death of the service that a    *)
(* process is connected to comes to its notice, what a connection to the   *)
(* living service is lost by, what the use of a connection that is gone    *)
(* goes back to, and that constructors do not block each other.            *)
(***************************************************************************)
EXTENDS EventClient, TLAPS

Linking == {"test", "notifier", "create", "link"}

LEMMA ClientFacts ==
    /\ NULL \notin Clients /\ NULL \notin Services
    /\ MAX_SERVICE \in Nat /\ MAX_SERVICE > 0 /\ MAX_DESTROYED \in Nat
  BY ClientAssumption

-----------------------------------------------------------------------------
(* Types.                                                                  *)

LEMMA EndedTypes ==
    ASSUME ConnectionTypeOK
    PROVE  /\ \A k \in Services : EndedByReport(k) \subseteq Services \X Endings
           /\ EndedByDestructor \subseteq Services \X Endings
  <1>1. {m_pEventService} \ {NULL} \subseteq Services
    BY DEF ConnectionTypeOK
  <1>2. "report" \in Endings /\ "stale report" \in Endings /\ "destructor" \in Endings
    BY DEF Endings
  <1>3. ASSUME NEW S, S \subseteq Services, NEW how \in Endings
        PROVE  {<<x, how>> : x \in S} \subseteq Services \X Endings
    BY <1>3
  <1>4. ASSUME NEW k \in Services PROVE EndedByReport(k) \subseteq Services \X Endings
    <2>1. {<<x, "stale report">> : x \in {m_pEventService} \ {NULL, k}} \subseteq Services \X Endings
      BY <1>1, <1>2, <1>3
    <2>2. <<k, "report">> \in Services \X Endings
      BY <1>2
    <2> QED
      BY <2>1, <2>2, Zenon DEF EndedByReport
  <1>5. EndedByDestructor \subseteq Services \X Endings
    BY <1>1, <1>2, <1>3 DEF EndedByDestructor
  <1> QED
    BY <1>4, <1>5

LEMMA ConnectionTypesInit == ConnectionInit => ConnectionTypeOK
  BY ClientFacts DEF ConnectionInit, ConnectionTypeOK, NoRecipients

LEMMA ConnectionTypesStep ==
    ConnectionTypeOK /\ [ConnectionNext]_connectionVars => ConnectionTypeOK'
  <1> SUFFICES ASSUME ConnectionTypeOK, [ConnectionNext]_connectionVars
               PROVE  ConnectionTypeOK'
    OBVIOUS
  <1> USE ClientFacts DEF ConnectionTypeOK, serviceVars, deathVars, clientVars
  <1>1. CASE UNCHANGED connectionVars
    BY <1>1 DEF connectionVars
  <1>2. CASE ServiceStep
    <2>1. CASE StartService
      <3>1. born + 1 \in Services /\ born + 1 \in 0..MAX_SERVICE
        BY <2>1 DEF StartService, Services
      <3> QED
        BY <2>1, <3>1 DEF StartService
    <2>2. CASE ServiceDies \/ Unpublish
      BY <2>2 DEF ServiceDies, Unpublish
    <2> QED
      BY <1>2, <2>1, <2>2 DEF ServiceStep
  <1>3. ASSUME NEW k \in Services, sendObituary(k) PROVE ConnectionTypeOK'
    BY <1>3 DEF sendObituary, NoRecipients
  <1>4. ASSUME NEW k \in Services, NEW n \in Clients, binderDied(k, n)
        PROVE  ConnectionTypeOK'
    BY <1>4, EndedTypes DEF binderDied, Reported
  <1>5. ASSUME NEW c \in Clients, CreateNotifier(c) PROVE ConnectionTypeOK'
    BY <1>5 DEF CreateNotifier, At, Goto
  <1>6. ASSUME NEW c \in Clients, Link(c) PROVE ConnectionTypeOK'
    BY <1>6 DEF Link, linkToDeath, NeedsLink, At, Goto
  <1>7. ASSUME NEW c \in Clients,
               \/ Construct(c) \/ LockFunction(c) \/ GetService(c) \/ TestService(c)
               \/ TestNotifier(c) \/ Test(c) \/ Use(c) \/ Return(c)
        PROVE  ConnectionTypeOK'
    BY <1>7 DEF Construct, LockFunction, GetService, TestService, TestNotifier,
                Test, Use, Return, At, Goto, Found
  <1>8. ASSUME NEW c \in Clients, Destroy(c) PROVE ConnectionTypeOK'
    BY <1>8, EndedTypes DEF Destroy, At, Goto
  <1> QED
    BY <1>1, <1>2, <1>3, <1>4, <1>5, <1>6, <1>7, <1>8
       DEF ConnectionNext, NotificationStep, ClientStep, ConstructorStep, LinkStep

-----------------------------------------------------------------------------
(* Notice.                                                                 *)

\* A connection is watched, dead or not: it has a recipient or a report to
\* come, or somebody has still to link, or a link to it was refused.
Watched ==
    m_pEventService # NULL /\ Running =>
        \/ Recipients(links, m_pEventService) \cup Recipients(reports, m_pEventService) # {}
        \/ \E c \in Clients : client[c] \in Linking
        \/ m_pEventService \in refused
NotifierInv == \A c \in Clients : client[c] = "link" => m_pDeathNotifier # NULL

LEMMA NotifierStep ==
    ConnectionTypeOK /\ NotifierInv /\ [ConnectionNext]_connectionVars => NotifierInv'
  <1> SUFFICES ASSUME ConnectionTypeOK, NotifierInv, [ConnectionNext]_connectionVars
               PROVE  NotifierInv'
    OBVIOUS
  <1> USE ClientFacts DEF ConnectionTypeOK, NotifierInv, deathVars, clientVars
  <1>1. CASE UNCHANGED <<client, m_pDeathNotifier>>
    BY <1>1
  <1>2. ASSUME \/ UNCHANGED connectionVars \/ ServiceStep
               \/ \E k \in Services : sendObituary(k)
               \/ \E k \in Services, n \in Clients : binderDied(k, n)
        PROVE  UNCHANGED <<client, m_pDeathNotifier>>
    BY <1>2 DEF connectionVars, ServiceStep, StartService, ServiceDies, Unpublish,
                sendObituary, binderDied
  <1>3. ASSUME NEW c \in Clients,
               \/ Construct(c) \/ LockFunction(c) \/ GetService(c) \/ TestService(c)
               \/ TestNotifier(c) \/ Link(c) \/ Destroy(c)
               \/ Test(c) \/ Use(c) \/ Return(c)
        PROVE  NotifierInv'
    BY <1>3 DEF Construct, LockFunction, GetService, TestService, TestNotifier, Link,
                Destroy, Test, Use, Return, At, Goto
  <1>4. ASSUME NEW c \in Clients, CreateNotifier(c) PROVE NotifierInv'
    BY <1>4 DEF CreateNotifier, At, Goto
  <1> QED
    BY <1>1, <1>2, <1>3, <1>4
       DEF ConnectionNext, NotificationStep, ClientStep, ConstructorStep, LinkStep

LEMMA WatchedStep ==
    ConnectionTypeOK /\ NotifierInv /\ Watched /\ [ConnectionNext]_connectionVars => Watched'
  <1> SUFFICES ASSUME ConnectionTypeOK, NotifierInv, Watched, [ConnectionNext]_connectionVars,
                      m_pEventService' # NULL, Running'
               PROVE  \/ Recipients(links', m_pEventService')
                            \cup Recipients(reports', m_pEventService') # {}
                      \/ \E c \in Clients : client'[c] \in Linking
                      \/ m_pEventService' \in refused'
    BY DEF Watched, Recipients
  <1> USE ClientFacts DEF Linking, serviceVars, deathVars, clientVars
  <1>1. CASE UNCHANGED <<m_pEventService, links, reports, client, refused, fault>>
    BY <1>1 DEF Watched, Running
  <1>2. ASSUME ServiceStep \/ UNCHANGED connectionVars
        PROVE  UNCHANGED <<m_pEventService, links, reports, client, refused, fault>>
    BY <1>2 DEF connectionVars, ServiceStep, StartService, ServiceDies, Unpublish
  <1>3. ASSUME NEW k \in Services, sendObituary(k)
        PROVE  \/ Recipients(links', m_pEventService')
                     \cup Recipients(reports', m_pEventService') # {}
               \/ \E c \in Clients : client'[c] \in Linking
               \/ m_pEventService' \in refused'
    <2>1. /\ Running /\ UNCHANGED <<m_pEventService, client, refused>>
          /\ links[k] # NoRecipients /\ links[k] \in [Clients -> Nat]
          /\ \A j \in Services \ {k} : links'[j] = links[j] /\ reports'[j] = reports[j]
          /\ reports'[k] = links[k]
      BY <1>3 DEF sendObituary, ConnectionTypeOK
    <2>2. CASE m_pEventService = k
      <3>1. PICK n \in Clients : links[k][n] # 0
        BY <2>1 DEF NoRecipients
      <3>2. n \in Recipients(reports', k)
        BY <2>1, <3>1 DEF Recipients
      <3> QED
        BY <2>1, <2>2, <3>2
    <2>3. CASE m_pEventService # k
      <3>1. m_pEventService \in Services \ {k}
        BY <2>1, <2>3 DEF ConnectionTypeOK
      <3> QED
        BY <2>1, <3>1 DEF Watched, Recipients
    <2> QED
      BY <2>2, <2>3
  <1>4. ASSUME NEW c \in Clients,
               \/ Construct(c) \/ LockFunction(c) \/ TestNotifier(c)
               \/ Test(c) \/ Use(c) \/ Return(c)
        PROVE  /\ UNCHANGED <<m_pEventService, links, reports, refused>> /\ Running
               /\ \A d \in Clients : client[d] \in Linking => client'[d] \in Linking
    BY <1>4 DEF Construct, LockFunction, TestNotifier, Test, Use, Return, At, Goto,
                ConnectionTypeOK
  <1>5. ASSUME NEW c \in Clients,
               GetService(c) \/ CreateNotifier(c) \/ (TestService(c) /\ m_pEventService # NULL)
        PROVE  client'[c] \in Linking
    BY <1>5 DEF GetService, CreateNotifier, TestService, At, Goto, ConnectionTypeOK
  <1>6. ASSUME NEW c \in Clients, Link(c)
        PROVE  \/ Recipients(links', m_pEventService') # {}
               \/ m_pEventService' \in refused'
    <2> DEFINE k == m_pEventService
               n == m_pDeathNotifier
    <2>1. k' = k /\ k \in Services /\ n \in Clients /\ linkToDeath(k, n)
      BY <1>6 DEF Link, NeedsLink, ConnectionTypeOK, NotifierInv, At
    <2>2. CASE k \in obitsSent
      BY <2>1, <2>2 DEF linkToDeath
    <2>3. CASE k \notin obitsSent
      <3>1. links'[k][n] = links[k][n] + 1 /\ links[k][n] \in Nat
        BY <2>1, <2>3 DEF linkToDeath, ConnectionTypeOK
      <3>2. n \in Recipients(links', k)
        BY <2>1, <3>1 DEF Recipients
      <3> QED
        BY <2>1, <3>2
    <2> QED
      BY <2>2, <2>3
  <1>7. ASSUME \/ \E k \in Services, n \in Clients : binderDied(k, n)
               \/ \E c \in Clients : Destroy(c) \/ (TestService(c) /\ m_pEventService = NULL)
        PROVE  FALSE
    BY <1>7 DEF binderDied, Destroy, TestService
  <1>8. CASE ServiceStep \/ NotificationStep \/ UNCHANGED connectionVars
    BY <1>1, <1>2, <1>3, <1>7, <1>8 DEF NotificationStep
  <1>9. ASSUME NEW c \in Clients, ClientStep(c)
        PROVE  \/ Recipients(links', m_pEventService')
                     \cup Recipients(reports', m_pEventService') # {}
               \/ \E d \in Clients : client'[d] \in Linking
               \/ m_pEventService' \in refused'
    <2>1. ASSUME UNCHANGED <<m_pEventService, links, reports, refused>>, Running,
                 \A d \in Clients : client[d] \in Linking => client'[d] \in Linking
          PROVE  \/ Recipients(links', m_pEventService')
                       \cup Recipients(reports', m_pEventService') # {}
                 \/ \E d \in Clients : client'[d] \in Linking
                 \/ m_pEventService' \in refused'
      BY <2>1 DEF Watched
    <2>2. CASE \/ Construct(c) \/ LockFunction(c) \/ TestNotifier(c)
               \/ Test(c) \/ Use(c) \/ Return(c)
      BY <2>1, <2>2, <1>4
    <2>3. CASE \/ GetService(c) \/ CreateNotifier(c) \/ TestService(c) \/ Destroy(c)
      <3>1. client'[c] \in Linking
        BY <2>3, <1>5, <1>7
      <3> QED
        BY <3>1
    <2>4. CASE Link(c)
      BY <2>4, <1>6
    <2> QED
      BY <1>9, <2>2, <2>3, <2>4 DEF ClientStep, ConstructorStep, LinkStep
  <1> QED
    BY <1>8, <1>9 DEF ConnectionNext

LEMMA WatchedInit == ConnectionInit => NotifierInv /\ Watched
  BY DEF ConnectionInit, NotifierInv, Watched

\* A process connected to a dead service is told, unless the one race of the
\* constructor's link with the obituary has been lost.
THEOREM DeathIsNoticed == ConnectionSpec => []DeathNoticed
  <1>1. Watched => DeathNoticed
    BY DEF Watched, DeathNoticed, Linking
  <1> QED
    BY <1>1, ConnectionTypesInit, ConnectionTypesStep, WatchedInit, NotifierStep,
       WatchedStep, PTL DEF ConnectionSpec

-----------------------------------------------------------------------------
(* Keeping the connection.                                                 *)

\* One constructor polls at a time, and only without a connection.
PollInv ==
    /\ \A c \in Clients : client[c] = "get" => m_pEventService = NULL
    /\ \A c, d \in Clients : client[c] = "get" /\ client[d] = "get" => c = d

\* After its obituary a service has no more recipients, and it does not live.
ObituaryInv ==
    /\ \A k \in obitsSent : links[k] = NoRecipients /\ DeadService(k)
    /\ \A k \in Services \ obitsSent : reports[k] = NoRecipients

\* Where there is a recipient or a report, the connection is that service's or
\* has been before; unless two managers were linked to it, there is one of
\* them, and none after the report.
AtMostOnce(f) == \E n \in Clients : \A m \in Clients : f[m] <= IF m = n THEN 1 ELSE 0
HasEnded(k) == \E how \in Endings : <<k, how>> \in ended
Noted(k) == links[k] # NoRecipients \/ reports[k] # NoRecipients
EndedInv ==
    \A k \in Services :
        /\ Noted(k) => m_pEventService = k \/ HasEnded(k)
        /\ Noted(k) /\ k \notin linked => AtMostOnce(links[k]) /\ AtMostOnce(reports[k])
        /\ <<k, "report">> \in ended => k \in obitsSent
        /\ <<k, "report">> \in ended /\ reports[k] # NoRecipients => k \in linked

LEMMA PollStep ==
    ConnectionTypeOK /\ PollInv /\ [ConnectionNext]_connectionVars => PollInv'
  <1> SUFFICES ASSUME ConnectionTypeOK, PollInv, [ConnectionNext]_connectionVars
               PROVE  PollInv'
    OBVIOUS
  <1> USE ClientFacts DEF ConnectionTypeOK, PollInv, serviceVars, clientVars
  <1>1. ASSUME \/ UNCHANGED connectionVars \/ ServiceStep
               \/ \E k \in Services : sendObituary(k)
        PROVE  UNCHANGED <<client, m_pEventService>>
    BY <1>1 DEF connectionVars, ServiceStep, StartService, ServiceDies, Unpublish,
                sendObituary
  <1>2. CASE UNCHANGED <<client, m_pEventService>>
    BY <1>2
  <1>3. ASSUME NEW k \in Services, NEW n \in Clients, binderDied(k, n)
        PROVE  PollInv'
    BY <1>3 DEF binderDied
  <1>4. ASSUME NEW c \in Clients,
               \/ Construct(c) \/ TestService(c) \/ TestNotifier(c) \/ CreateNotifier(c)
               \/ Link(c) \/ Destroy(c) \/ Test(c) \/ Use(c) \/ Return(c)
        PROVE  PollInv'
    BY <1>4 DEF Construct, TestService, TestNotifier, CreateNotifier, Link, Destroy,
                Test, Use, Return, At, Goto
  <1>5. ASSUME NEW c \in Clients, LockFunction(c) PROVE PollInv'
    BY <1>5 DEF LockFunction, FunctionLockFree, MustPoll, At, Goto
  <1>6. ASSUME NEW c \in Clients, GetService(c) PROVE PollInv'
    BY <1>6 DEF GetService, At, Goto
  <1> QED
    BY <1>1, <1>2, <1>3, <1>4, <1>5, <1>6
       DEF ConnectionNext, NotificationStep, ClientStep, ConstructorStep, LinkStep

\* What a step does to recipients and reports.
LEMMA RecipientSteps ==
    ASSUME ConnectionTypeOK, [ConnectionNext]_connectionVars
    PROVE  \/ UNCHANGED <<links, reports, obitsSent, linked>>
           \/ \E k \in Services : sendObituary(k)
           \/ \E k \in Services, n \in Clients : binderDied(k, n)
           \/ \E c \in Clients : CreateNotifier(c) \/ Link(c)
  <1> USE DEF deathVars
  <1>1. CASE ServiceStep \/ UNCHANGED connectionVars
    BY <1>1 DEF connectionVars, ServiceStep, StartService, ServiceDies, Unpublish
  <1>2. ASSUME NEW c \in Clients,
               \/ Construct(c) \/ LockFunction(c) \/ GetService(c) \/ TestService(c)
               \/ TestNotifier(c) \/ Destroy(c) \/ Test(c) \/ Use(c) \/ Return(c)
        PROVE  UNCHANGED <<links, reports, obitsSent, linked>>
    BY <1>2 DEF Construct, LockFunction, GetService, TestService, TestNotifier, Destroy,
                Test, Use, Return
  <1> QED
    BY <1>1, <1>2 DEF ConnectionNext, NotificationStep, ClientStep, ConstructorStep, LinkStep

LEMMA DeadForGood ==
    ASSUME ConnectionTypeOK, [ConnectionNext]_connectionVars,
           NEW k \in Services, DeadService(k)
    PROVE  DeadService(k)'
  <1> USE ClientFacts DEF DeadService, ConnectionTypeOK
  <1>1. CASE UNCHANGED <<service, born>>
    BY <1>1
  <1>2. CASE StartService \/ ServiceDies
    BY <1>2 DEF StartService, ServiceDies, Services
  <1>3. ASSUME ~(StartService \/ ServiceDies) PROVE UNCHANGED <<service, born>>
    <2>1. CASE Unpublish \/ UNCHANGED connectionVars \/ NotificationStep
      BY <2>1 DEF connectionVars, serviceVars, Unpublish, NotificationStep, sendObituary,
                  binderDied
    <2>2. ASSUME NEW c \in Clients, ClientStep(c) PROVE UNCHANGED serviceVars
      BY <2>2 DEF ClientStep, ConstructorStep, LinkStep, Construct, LockFunction,
         GetService, TestService, TestNotifier, CreateNotifier, Link, Destroy, Test, Use,
         Return
    <2> QED
      BY <1>3, <2>1, <2>2 DEF ConnectionNext, ServiceStep, serviceVars
  <1> QED
    BY <1>1, <1>2, <1>3

\* A second notifier takes the first one's recipients and reports with it.
LEMMA NotifierReplaced ==
    ASSUME ConnectionTypeOK, NEW c \in Clients, CreateNotifier(c), NEW k \in Services
    PROVE  /\ \A m \in Clients : links'[k][m] \in {0, links[k][m]}
           /\ \A m \in Clients : reports'[k][m] \in {0, reports[k][m]}
           /\ links[k] = NoRecipients => links'[k] = NoRecipients
           /\ reports[k] = NoRecipients => reports'[k] = NoRecipients
           /\ links'[k] \in [Clients -> Nat] /\ reports'[k] \in [Clients -> Nat]
  <1>1. \/ UNCHANGED <<links, reports>>
        \/ \E old \in Clients : /\ links'[k] = [links[k] EXCEPT ![old] = 0]
                                /\ reports'[k] = [reports[k] EXCEPT ![old] = 0]
    BY DEF CreateNotifier, ConnectionTypeOK
  <1>2. links[k] \in [Clients -> Nat] /\ reports[k] \in [Clients -> Nat]
    BY DEF ConnectionTypeOK
  <1>3. ASSUME NEW f \in [Clients -> Nat], NEW old \in Clients
        PROVE  /\ \A m \in Clients : [f EXCEPT ![old] = 0][m] \in {0, f[m]}
               /\ f = NoRecipients => [f EXCEPT ![old] = 0] = NoRecipients
               /\ [f EXCEPT ![old] = 0] \in [Clients -> Nat]
    BY DEF NoRecipients
  <1>4. CASE UNCHANGED <<links, reports>>
    BY <1>2, <1>4
  <1>5. CASE \E old \in Clients : /\ links'[k] = [links[k] EXCEPT ![old] = 0]
                                  /\ reports'[k] = [reports[k] EXCEPT ![old] = 0]
    <2>1. PICK old \in Clients : /\ links'[k] = [links[k] EXCEPT ![old] = 0]
                                 /\ reports'[k] = [reports[k] EXCEPT ![old] = 0]
      BY <1>5
    <2> QED
      BY <1>2, <1>3, <2>1
  <1> QED
    BY <1>1, <1>4, <1>5

LEMMA ObituaryStep ==
    ConnectionTypeOK /\ NotifierInv /\ ObituaryInv /\ [ConnectionNext]_connectionVars
        => ObituaryInv'
  <1> SUFFICES ASSUME ConnectionTypeOK, NotifierInv, ObituaryInv,
                      [ConnectionNext]_connectionVars
               PROVE  ObituaryInv'
    OBVIOUS
  <1> USE ClientFacts
  <1>0. /\ obitsSent \subseteq Services
        /\ \A k \in obitsSent : DeadService(k)'
    BY DeadForGood DEF ConnectionTypeOK, ObituaryInv
  <1>1. CASE UNCHANGED <<links, reports, obitsSent>>
    BY <1>0, <1>1 DEF ObituaryInv, NoRecipients
  <1>2. ASSUME NEW k \in Services, sendObituary(k) PROVE ObituaryInv'
    <2>1. /\ DeadService(k) /\ obitsSent' = obitsSent \cup {k}
          /\ links'[k] = NoRecipients
          /\ \A j \in Services \ {k} : links'[j] = links[j] /\ reports'[j] = reports[j]
      BY <1>2 DEF sendObituary, ConnectionTypeOK
    <2>2. DeadService(k)'
      BY <2>1, DeadForGood
    <2> QED
      BY <1>0, <2>1, <2>2 DEF ObituaryInv, NoRecipients
  <1>3. ASSUME NEW k \in Services, NEW n \in Clients, binderDied(k, n) PROVE ObituaryInv'
    <2>1. /\ reports[k] # NoRecipients /\ UNCHANGED <<links, obitsSent>>
          /\ \A j \in Services \ {k} : reports'[j] = reports[j]
      BY <1>3 DEF binderDied, Reported, NoRecipients, ConnectionTypeOK
    <2> QED
      BY <1>0, <2>1 DEF ObituaryInv, NoRecipients
  <1>4. ASSUME NEW c \in Clients, CreateNotifier(c) PROVE ObituaryInv'
    <2>1. obitsSent' = obitsSent
      BY <1>4 DEF CreateNotifier
    <2> QED
      BY <1>0, <1>4, <2>1, NotifierReplaced DEF ObituaryInv, NoRecipients
  <1>5. ASSUME NEW c \in Clients, Link(c) PROVE ObituaryInv'
    <2>1. UNCHANGED <<reports, obitsSent>>
      BY <1>5 DEF Link
    <2>2. \A k \in obitsSent : links'[k] = links[k]
      BY <1>0, <1>5 DEF Link, linkToDeath, ConnectionTypeOK
    <2> QED
      BY <1>0, <2>1, <2>2 DEF ObituaryInv, NoRecipients
  <1> QED
    BY <1>1, <1>2, <1>3, <1>4, <1>5, RecipientSteps

\* A connection ends through a report or a destructor only, which is recorded.
LEMMA ConnectionChange ==
    ASSUME ConnectionTypeOK, PollInv, [ConnectionNext]_connectionVars
    PROVE  /\ ended \subseteq ended' /\ linked \subseteq linked'
           /\ ended' # ended => \/ \E k \in Services, n \in Clients : binderDied(k, n)
                               \/ \E c \in Clients : Destroy(c)
           /\ ConnectionLost => /\ \E how \in Endings : <<m_pEventService, how>> \in ended'
                               /\ \/ \E k \in Services, n \in Clients : binderDied(k, n)
                                  \/ \E c \in Clients : Destroy(c)
  <1> USE DEF ConnectionLost, deathVars, clientVars
  <1>1. CASE ServiceStep \/ UNCHANGED connectionVars \/ \E k \in Services : sendObituary(k)
    BY <1>1 DEF connectionVars, ServiceStep, StartService, ServiceDies, Unpublish,
                sendObituary
  <1>2. ASSUME NEW k \in Services, NEW n \in Clients, binderDied(k, n)
        PROVE  /\ ended \subseteq ended' /\ linked' = linked
               /\ ConnectionLost => \E how \in Endings : <<m_pEventService, how>> \in ended'
    BY <1>2 DEF binderDied, EndedByReport, Endings
  <1>3. ASSUME NEW c \in Clients,
               \/ Construct(c) \/ LockFunction(c) \/ TestService(c) \/ TestNotifier(c)
               \/ CreateNotifier(c) \/ Test(c) \/ Use(c) \/ Return(c)
        PROVE  UNCHANGED <<ended, linked, m_pEventService>>
    BY <1>3 DEF Construct, LockFunction, TestService, TestNotifier, CreateNotifier,
                Test, Use, Return
  <1>4. ASSUME NEW c \in Clients, GetService(c)
        PROVE  UNCHANGED <<ended, linked>> /\ ~ConnectionLost
    BY <1>4 DEF GetService, PollInv, At
  <1>5. ASSUME NEW c \in Clients, Link(c)
        PROVE  UNCHANGED <<ended, m_pEventService>> /\ linked \subseteq linked'
    BY <1>5 DEF Link, linkToDeath, NeedsLink
  <1>6. ASSUME NEW c \in Clients, Destroy(c)
        PROVE  /\ ended \subseteq ended' /\ linked' = linked
               /\ ConnectionLost => \E how \in Endings : <<m_pEventService, how>> \in ended'
    BY <1>6 DEF Destroy, EndedByDestructor, Endings
  <1> QED
    BY <1>1, <1>2, <1>3, <1>4, <1>5, <1>6
       DEF ConnectionNext, NotificationStep, ClientStep, ConstructorStep, LinkStep

LEMMA NoneIsAtMostOnce ==
    ASSUME NEW c \in Clients PROVE AtMostOnce(NoRecipients)
  BY DEF AtMostOnce, NoRecipients

LEMMA EndedStep ==
    ConnectionTypeOK /\ PollInv /\ ObituaryInv /\ NotifierInv /\ EndedInv
        /\ [ConnectionNext]_connectionVars => EndedInv'
  <1> DEFINE Fits(k) ==
               /\ Noted(k) => m_pEventService = k \/ HasEnded(k)
               /\ Noted(k) /\ k \notin linked => AtMostOnce(links[k]) /\ AtMostOnce(reports[k])
               /\ <<k, "report">> \in ended => k \in obitsSent
               /\ <<k, "report">> \in ended /\ reports[k] # NoRecipients => k \in linked
  <1> SUFFICES ASSUME ConnectionTypeOK, PollInv, ObituaryInv, NotifierInv, EndedInv,
                      [ConnectionNext]_connectionVars, NEW k \in Services
               PROVE  Fits(k)'
    BY DEF EndedInv, Noted, HasEnded, AtMostOnce, NoRecipients
  <1> USE ClientFacts
  <1>1. /\ Fits(k)
        /\ HasEnded(k) => HasEnded(k)'
        /\ m_pEventService = k => m_pEventService' = k \/ HasEnded(k)'
        /\ linked \subseteq linked' /\ ended \subseteq ended'
    BY ConnectionChange DEF EndedInv, HasEnded, ConnectionLost
  <1>2. ASSUME links'[k] = links[k], reports'[k] = reports[k],
               obitsSent \subseteq obitsSent',
               <<k, "report">> \in ended' => <<k, "report">> \in ended
        PROVE  Fits(k)'
    BY <1>1, <1>2 DEF Noted, NoRecipients, AtMostOnce
  <1>3. ASSUME NEW j \in Services, sendObituary(j) PROVE Fits(k)'
    <2>1. /\ links[j] # NoRecipients /\ links[j] \in [Clients -> Nat] /\ j \notin obitsSent
          /\ links'[j] = NoRecipients /\ reports'[j] = links[j]
          /\ \A i \in Services \ {j} : links'[i] = links[i] /\ reports'[i] = reports[i]
          /\ obitsSent' = obitsSent \cup {j} /\ ended' = ended
      BY <1>3 DEF sendObituary, ConnectionTypeOK
    <2>2. CASE k = j
      <3>1. \E c \in Clients : TRUE
        BY <2>1 DEF NoRecipients
      <3>2. AtMostOnce(NoRecipients)
        BY <3>1, NoneIsAtMostOnce
      <3>3. Noted(k) /\ <<k, "report">> \notin ended'
        BY <1>1, <2>1, <2>2 DEF Noted
      <3>4. k \notin linked' => AtMostOnce(links'[k]) /\ AtMostOnce(reports'[k])
        BY <1>1, <2>1, <2>2, <3>2, <3>3
      <3> QED
        BY <1>1, <3>3, <3>4 DEF Noted, NoRecipients, AtMostOnce
    <2>3. CASE k # j
      BY <1>2, <2>1, <2>3
    <2> QED
      BY <2>2, <2>3
  <1>4. ASSUME NEW c \in Clients, CreateNotifier(c) PROVE Fits(k)'
    <2>1. /\ \A m \in Clients : links'[k][m] \in {0, links[k][m]}
          /\ \A m \in Clients : reports'[k][m] \in {0, reports[k][m]}
          /\ links[k] = NoRecipients => links'[k] = NoRecipients
          /\ reports[k] = NoRecipients => reports'[k] = NoRecipients
      BY <1>4, NotifierReplaced
    <2>2. UNCHANGED <<ended, obitsSent, linked>>
      BY <1>4 DEF CreateNotifier
    <2>3. Noted(k)' => Noted(k)
      BY <2>1 DEF Noted, NoRecipients
    <2>4. \A m \in Clients : links[k][m] \in Nat /\ reports[k][m] \in Nat
      BY DEF ConnectionTypeOK
    <2>5. /\ AtMostOnce(links[k]) => AtMostOnce(links'[k])
          /\ AtMostOnce(reports[k]) => AtMostOnce(reports'[k])
      BY <2>1, <2>4 DEF AtMostOnce
    <2> QED
      BY <1>1, <2>1, <2>2, <2>3, <2>5 DEF NoRecipients, AtMostOnce
  <1>5. ASSUME NEW c \in Clients, Link(c) PROVE Fits(k)'
    <2> DEFINE j == m_pEventService
               n == m_pDeathNotifier
    <2>1. UNCHANGED <<reports, obitsSent, ended, m_pEventService>> /\ (j = NULL => links' = links)
      BY <1>5 DEF Link, NeedsLink
    <2>2. CASE j # NULL /\ j \notin obitsSent /\ k = j
      <3>1. /\ n \in Clients /\ links' = [links EXCEPT ![j][n] = @ + 1]
            /\ linked' = IF links[j] # NoRecipients THEN linked \cup {j} ELSE linked
        BY <1>5, <2>2 DEF Link, NeedsLink, linkToDeath, NotifierInv, ConnectionTypeOK, At
      <3>2. reports[k] = NoRecipients /\ AtMostOnce(reports[k])
        BY <2>2, <3>1, NoneIsAtMostOnce DEF ObituaryInv
      <3>3. k \notin linked' => AtMostOnce(links'[k])
        <4>1. SUFFICES ASSUME links[j] = NoRecipients PROVE AtMostOnce(links'[k])
          BY <2>2, <3>1
        <4>2. links'[j] = [NoRecipients EXCEPT ![n] = @ + 1]
          BY <2>2, <3>1, <4>1 DEF ConnectionTypeOK
        <4>3. \A m \in Clients : links'[j][m] <= IF m = n THEN 1 ELSE 0
          BY <4>2 DEF NoRecipients
        <4> QED
          BY <2>2, <3>1, <4>3 DEF AtMostOnce
      <3> QED
        BY <1>1, <2>1, <2>2, <3>2, <3>3 DEF Noted, NoRecipients, AtMostOnce
    <2>3. CASE ~(j # NULL /\ j \notin obitsSent /\ k = j)
      <3>1. links'[k] = links[k]
        BY <1>5, <2>1, <2>3 DEF Link, NeedsLink, linkToDeath, ConnectionTypeOK
      <3> QED
        BY <1>2, <2>1, <3>1
    <2> QED
      BY <2>2, <2>3
  <1>6. ASSUME NEW j \in Services, NEW n \in Clients, binderDied(j, n) PROVE Fits(k)'
    <2>1. /\ reports[j][n] > 0 /\ reports[j] # NoRecipients
          /\ UNCHANGED <<links, obitsSent, linked>>
          /\ reports' = [reports EXCEPT ![j][n] = @ - 1]
      BY <1>6 DEF binderDied, Reported, NoRecipients
    <2>0. <<k, "report">> \in ended' => k = j \/ <<k, "report">> \in ended
      BY <1>6 DEF binderDied, EndedByReport
    <2>2. j \in obitsSent /\ links[j] = NoRecipients
      BY <2>1 DEF ObituaryInv
    <2>3. CASE k # j
      <3>1. links'[k] = links[k] /\ reports'[k] = reports[k]
        BY <2>1, <2>3 DEF ConnectionTypeOK
      <3> QED
        BY <1>2, <2>0, <2>1, <2>3, <3>1
    <2>4. CASE k = j
      <3>1. /\ reports[k] \in [Clients -> Nat]
            /\ reports'[k] = [reports[k] EXCEPT ![n] = @ - 1]
        BY <2>1, <2>4 DEF ConnectionTypeOK
      <3>2. AtMostOnce(reports[k]) => reports'[k] = NoRecipients
        <4>1. SUFFICES ASSUME AtMostOnce(reports[k]) PROVE reports'[k] = NoRecipients
          OBVIOUS
        <4>2. \A m \in Clients : reports[k][m] = IF m = n THEN 1 ELSE 0
          BY <2>1, <2>4, <3>1, <4>1 DEF AtMostOnce
        <4> QED
          BY <3>1, <4>2 DEF NoRecipients
      <3>3. Noted(k) /\ links'[k] = NoRecipients
        BY <2>1, <2>2, <2>4 DEF Noted
      <3>4. Noted(k)' => k \in linked'
        BY <1>1, <2>1, <3>2, <3>3 DEF Noted, NoRecipients
      <3>5. reports'[k] # NoRecipients => k \in linked'
        BY <3>4 DEF Noted, NoRecipients
      <3> QED
        BY <1>1, <2>1, <2>2, <2>4, <3>3, <3>4, <3>5 DEF NoRecipients, AtMostOnce
    <2> QED
      BY <2>3, <2>4
  <1>7. ASSUME NEW c \in Clients, Destroy(c) PROVE Fits(k)'
    <2>1. /\ UNCHANGED <<links, reports, obitsSent>>
          /\ <<k, "report">> \in ended' => <<k, "report">> \in ended
      BY <1>7 DEF Destroy, EndedByDestructor
    <2> QED
      BY <1>2, <2>1
  <1>8. ASSUME UNCHANGED <<links, reports, obitsSent, linked>>,
               ~\E j \in Services, n \in Clients : binderDied(j, n)
        PROVE  Fits(k)'
    <2>1. CASE ended' = ended
      BY <1>2, <1>8, <2>1
    <2> QED
      BY <1>7, <1>8, <2>1, ConnectionChange
  <1> QED
    BY <1>3, <1>4, <1>5, <1>6, <1>8, RecipientSteps

LEMMA KeptInit == ConnectionInit => PollInv /\ ObituaryInv /\ EndedInv
  BY DEF ConnectionInit, PollInv, ObituaryInv, EndedInv, Noted, NoRecipients

LEMMA KeptStep ==
    ConnectionTypeOK /\ PollInv /\ ObituaryInv /\ EndedInv /\ [ConnectionNext]_connectionVars
        => [ConnectionLost => LossExplained]_connectionVars
  <1> SUFFICES ASSUME ConnectionTypeOK, PollInv, ObituaryInv, EndedInv,
                      [ConnectionNext]_connectionVars, ConnectionLost,
                      ~\E c \in Clients : Destroy(c)
               PROVE  \E k \in Services :
                         /\ ReportOf(k)
                         /\ IF m_pEventService = k THEN DeadService(k) ELSE LinkLeftBehind(k)
    BY DEF LossExplained
  <1>1. PICK k \in Services, n \in Clients : binderDied(k, n)
    BY ConnectionChange
  <1>2. ReportOf(k)
    BY <1>1 DEF ReportOf
  <1>3. reports[k] # NoRecipients
    BY <1>1 DEF binderDied, Reported, NoRecipients
  <1>4. DeadService(k)
    BY <1>3 DEF ObituaryInv
  <1>5. m_pEventService # k => LinkLeftBehind(k)
    BY <1>3 DEF EndedInv, Noted, HasEnded, Endings, LinkLeftBehind
  <1> QED
    BY <1>2, <1>4, <1>5

\* A process loses its connection through a destructor, the death of its own
\* service, or the report of an earlier service's death whose link a destructor,
\* a second manager or another such report had left behind.
THEOREM ConnectionIsKept == ConnectionSpec => ConnectionKept
  BY ConnectionTypesInit, ConnectionTypesStep, WatchedInit, NotifierStep, KeptInit, PollStep,
     ObituaryStep, EndedStep, KeptStep, PTL DEF ConnectionSpec, ConnectionKept

-----------------------------------------------------------------------------
(* The connection that is gone when it is used.                            *)

\* The calls test the static and use it later, without m_FunctionLock, and so
\* does the constructor that links.  What they find NULL was cleared in between,
\* by the report of a death or by the destructor of another manager: a process
\* with one manager is only exposed to deaths.
TakenFrom(c) == obitsSent # {} \/ (destroyed > 0 /\ \E d \in Clients : d # c)
NullUseExplained == fault = "null_service" => \E c \in Clients : TakenFrom(c)

\* Whoever has passed a test and finds the connection gone.
TestedInv ==
    /\ \A c \in Clients :
         client[c] \in {"notifier", "create", "link", "call"} /\ m_pEventService = NULL
             => TakenFrom(c)
    /\ obitsSent = {} => \A k \in Services : reports[k] = NoRecipients
    /\ NullUseExplained

LEMMA TestedStep ==
    ConnectionTypeOK /\ TestedInv /\ [ConnectionNext]_connectionVars => TestedInv'
  <1> SUFFICES ASSUME ConnectionTypeOK, TestedInv, [ConnectionNext]_connectionVars
               PROVE  TestedInv'
    OBVIOUS
  <1> USE ClientFacts DEF ConnectionTypeOK, TestedInv, NullUseExplained, TakenFrom,
                          serviceVars, deathVars, clientVars
  <1>1. CASE ServiceStep \/ UNCHANGED connectionVars
    BY <1>1 DEF connectionVars, ServiceStep, StartService, ServiceDies, Unpublish
  <1>2. ASSUME NEW k \in Services, sendObituary(k) PROVE TestedInv'
    BY <1>2 DEF sendObituary
  <1>3. ASSUME NEW k \in Services, NEW n \in Clients, binderDied(k, n) PROVE TestedInv'
    <2>1. obitsSent # {} /\ UNCHANGED <<obitsSent, destroyed, client, fault>>
      BY <1>3 DEF binderDied, Reported, NoRecipients
    <2> QED
      BY <2>1
  <1>4. ASSUME NEW c \in Clients, CreateNotifier(c) PROVE TestedInv'
    <2>1. /\ UNCHANGED <<m_pEventService, obitsSent, destroyed, fault>>
          /\ \A d \in Clients : d # c => client'[d] = client[d]
          /\ client[c] = "create"
      BY <1>4 DEF CreateNotifier, At, Goto
    <2>2. obitsSent = {} => \A k \in Services : reports'[k] = NoRecipients
      BY <1>4, NotifierReplaced
    <2> QED
      BY <2>1, <2>2
  <1>5. ASSUME NEW c \in Clients,
               \/ Construct(c) \/ LockFunction(c) \/ GetService(c) \/ TestService(c)
               \/ TestNotifier(c) \/ Test(c) \/ Return(c)
        PROVE  TestedInv'
    BY <1>5 DEF Construct, LockFunction, GetService, Found, TestService, TestNotifier,
                Test, Return, At, Goto
  <1>6. ASSUME NEW c \in Clients, Link(c) \/ Use(c) PROVE TestedInv'
    <2>1. /\ UNCHANGED <<m_pEventService, obitsSent, destroyed, reports>>
          /\ \A d \in Clients : d # c => client'[d] = client[d]
          /\ client'[c] \in {"ready", "transact"}
          /\ fault' = "null_service" => m_pEventService = NULL
          /\ client[c] \in {"link", "call"}
      BY <1>6 DEF Link, Use, At, Goto
    <2>2. NullUseExplained'
      BY <2>1
    <2>3. \A d \in Clients :
             client'[d] \in {"notifier", "create", "link", "call"} /\ m_pEventService' = NULL
                 => TakenFrom(d)'
      BY <2>1
    <2> QED
      BY <2>1, <2>2, <2>3
  <1>7. ASSUME NEW c \in Clients, Destroy(c) PROVE TestedInv'
    BY <1>7 DEF Destroy, At, Goto
  <1> QED
    BY <1>1, <1>2, <1>3, <1>4, <1>5, <1>6, <1>7
       DEF ConnectionNext, NotificationStep, ClientStep, ConstructorStep, LinkStep

\* No call and no constructor uses a NULL connection but after the report of a
\* death, or after a destructor if the process has another manager.
THEOREM NullUseHasCause == ConnectionSpec => []NullUseExplained
  <1>1. ConnectionInit => TestedInv
    BY DEF ConnectionInit, TestedInv, NullUseExplained
  <1>2. TestedInv => NullUseExplained
    BY DEF TestedInv
  <1> QED
    BY <1>1, <1>2, ConnectionTypesInit, ConnectionTypesStep, TestedStep, PTL
       DEF ConnectionSpec

-----------------------------------------------------------------------------
(* Nobody waits for each other.                                            *)

\* Where the thread of a manager can take a step of its own: m_FunctionLock is
\* waited for by a constructor and by the destructor of an old notifier.
ClientGoesOn(c) ==
    \/ client[c] \in {"test", "notifier", "link", "call", "transact"}
    \/ client[c] = "lock" /\ FunctionLockFree
    \/ client[c] = "get" /\ published # NULL
    \/ client[c] = "create" /\ (m_pDeathNotifier = NULL \/ FunctionLockFree)

\* While a service runs, constructors do not stop each other, although one of
\* them polls with m_FunctionLock held: there is one that can go on.
ConstructorsGoOn ==
    service # NULL /\ (\E c \in Clients : Constructing(c)) => \E c \in Clients : ClientGoesOn(c)

\* The service manager answers with the service that runs.
PublishedInv == service # NULL => published = service

\* Constructors, death reports and the destructor of a replaced notifier contend
\* for m_FunctionLock, and none of them stops the others while a service runs.
THEOREM ConstructorsDoNotBlock == ConnectionSpec => []ConstructorsGoOn
  <1>1. ConnectionInit => PublishedInv
    BY DEF ConnectionInit, PublishedInv
  <1>2. PublishedInv /\ [ConnectionNext]_connectionVars => PublishedInv'
    <2> SUFFICES ASSUME PublishedInv, [ConnectionNext]_connectionVars PROVE PublishedInv'
      OBVIOUS
    <2>1. CASE ServiceStep
      BY <2>1 DEF PublishedInv, ServiceStep, StartService, ServiceDies, Unpublish
    <2>2. ASSUME NotificationStep \/ UNCHANGED connectionVars PROVE UNCHANGED serviceVars
      BY <2>2 DEF NotificationStep, sendObituary, binderDied, connectionVars
    <2>3. ASSUME NEW c \in Clients, ClientStep(c) PROVE UNCHANGED serviceVars
      BY <2>3 DEF ClientStep, ConstructorStep, LinkStep, Construct, LockFunction,
         GetService, TestService, TestNotifier, CreateNotifier, Link, Destroy, Test, Use,
         Return
    <2> QED
      BY <2>1, <2>2, <2>3 DEF ConnectionNext, PublishedInv, serviceVars
  <1>3. ConnectionTypeOK /\ PublishedInv => ConstructorsGoOn
    <2> SUFFICES ASSUME ConnectionTypeOK, PublishedInv, service # NULL,
                        NEW c \in Clients, Constructing(c)
                 PROVE  \E d \in Clients : ClientGoesOn(d)
      BY DEF ConstructorsGoOn
    <2>1. client[c] \in {"lock", "get", "test", "notifier", "create", "link"}
      BY DEF Constructing, ConnectionTypeOK
    <2>2. CASE FunctionLockFree
      BY <2>1, <2>2 DEF FunctionLockFree, ClientGoesOn
    <2>3. CASE ~FunctionLockFree
      BY <2>3 DEF FunctionLockFree, ClientGoesOn, PublishedInv
    <2> QED
      BY <2>2, <2>3
  <1> QED
    BY <1>1, <1>2, <1>3, ConnectionTypesInit, ConnectionTypesStep, PTL DEF ConnectionSpec
=============================================================================
