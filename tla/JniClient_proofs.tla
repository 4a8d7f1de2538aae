-------------------------- MODULE JniClient_proofs --------------------------
(***************************************************************************)
(* Proofs about JniClient, for any set of listeners, events and names and  *)
(* any number of service incarnations: the types, and that Java, the map   *)
(* of native listeners and the service's lists agree.                      *)
(*                                                                         *)
(* The invariant follows one name at a time (NameInv).  While a call about *)
(* the name is under way the map is ahead of the lists, or the lists of    *)
(* the map; what the lists should have is told from the call and from      *)
(* whether the service has run it.  A call that goes to a dead incarnation *)
(* (Doomed) stays so until it is answered and its name becomes troubled:   *)
(* this needs that no incarnation is known before it is born (KnownInv).   *)
(* MapInv keeps a call on the native listener that the map has: Java has   *)
(* one thread, so nothing changes the entry before the answer.             *)
(***************************************************************************)
EXTENDS JniClient, EventClient_proofs, SequenceLemmas

LEMMA JavaFacts ==
    /\ Clients = {Jni} /\ Jni \in Clients
    /\ NULL \notin Nat /\ MAX_OBJECTS \in Nat /\ Objects \subseteq Nat /\ NULL \notin Objects
    /\ \A l \in Listeners : NameOf[l] \in Names
  BY JniAssumption DEF Objects, Names

-----------------------------------------------------------------------------
(* Types.                                                                  *)

Calling == client[Jni] \in {"call", "transact"}

\* The map and the lists hold native listeners that were made, the map each
\* under its name, and a call is about the one in the map.
MapInv ==
    /\ \A n \in Names : m_mListenerMap[n] # NULL =>
          m_mListenerMap[n] \in 1..Len(objects) /\ ObjectName(m_mListenerMap[n]) = n
    /\ \A e \in Events : \A k \in DOMAIN m_pLinstenerList[e] :
          m_pLinstenerList[e][k] \in 1..Len(objects)
    /\ Calling => /\ request \in Request /\ request.object \in 1..Len(objects)
                  /\ m_mListenerMap[ObjectName(request.object)] = request.object

\* The Java thread's calls are steps of the connection or leave it alone.
LEMMA StepsOfConnection == [Next]_vars => [ConnectionNext]_connectionVars
  <1> SUFFICES ASSUME [Next]_vars PROVE [ConnectionNext]_connectionVars
    OBVIOUS
  <1> USE JavaFacts DEF ConnectionNext, ClientStep
  <1>1. ASSUME NEW op, NEW e, NEW o, CallManager(op, e, o)
        PROVE  [ConnectionNext]_connectionVars
    BY <1>1 DEF CallManager
  <1>2. ASSUME NEW l \in Listeners, NEW e \in Events,
               RegisteEventListener(l, e) \/ UnregisteEventListener(l, e)
        PROVE  [ConnectionNext]_connectionVars
    <2>1. \/ UNCHANGED connectionVars
          \/ \E op \in {"register", "unregister"} :
                CallManager(op, e, m_mListenerMap[NameOf[l]])
                \/ CallManager(op, e, Len(objects'))
      BY <1>2 DEF RegisteEventListener, UnregisteEventListener
    <2> QED
      BY <1>1, <2>1
  <1>3. CASE Served
    BY <1>3 DEF Served
  <1>4. CASE Answered
    BY <1>4 DEF Answered
  <1>5. CASE ServiceAndListsDie
    BY <1>5 DEF ServiceAndListsDie, ServiceStep
  <1>6. CASE ConnectionStep
    BY <1>6 DEF ConnectionStep, ServiceStep
  <1>7. CASE UNCHANGED vars
    BY <1>7 DEF vars
  <1> QED
    BY <1>2, <1>3, <1>4, <1>5, <1>6, <1>7 DEF Next, JavaStep

LEMMA NamesKept ==
    ASSUME TypeOK, MapInv, NEW l \in Listeners, objects' = Append(objects, l)
    PROVE  /\ \A o \in 1..Len(objects) : objects'[o] = objects[o]
           /\ Len(objects') = Len(objects) + 1 /\ Len(objects) \in Nat
           /\ objects'[Len(objects')] = l
  BY DEF TypeOK

LEMMA NameIsName ==
    ASSUME TypeOK, NEW o \in 1..Len(objects)
    PROVE  ObjectName(o) \in Names /\ o \in Objects /\ o \in Nat
  BY JavaFacts DEF TypeOK, ObjectName, Objects

LEMMA JniInit == Init => TypeOK /\ MapInv
  <1> SUFFICES ASSUME Init PROVE TypeOK /\ MapInv
    OBVIOUS
  <1>1. ConnectionTypeOK
    BY ConnectionTypesInit DEF Init
  <1>2. client[Jni] = "none"
    BY JavaFacts DEF Init, ConnectionInit
  <1> QED
    BY <1>1, <1>2, JavaFacts DEF Init, TypeOK, MapInv, Calling

\* A call of the manager is about the native listener it is given.
LEMMA CallTypes ==
    ASSUME ConnectionTypeOK, At(Jni, "ready"), NEW op \in {"register", "unregister"},
           NEW e \in Events, NEW o \in Objects, request \in Request \cup {NULL},
           CallManager(op, e, o)
    PROVE  /\ request' \in Request \cup {NULL}
           /\ Calling' => request' \in Request /\ request'.object = o
  <1>1. CASE Connected
    <2>1. request' = [op |-> op, event |-> e, object |-> o, served |-> FALSE]
      BY <1>1 DEF CallManager
    <2>2. request' \in Request /\ request'.object = o
      BY <2>1 DEF Request
    <2> QED
      BY <2>2
  <1>2. CASE ~Connected
    <2>1. client' = client /\ request' = request
      BY <1>2 DEF CallManager, connectionVars, clientVars
    <2>2. ~Calling'
      BY <2>1 DEF At, Calling
    <2> QED
      BY <2>1, <2>2
  <1> QED
    BY <1>1, <1>2

LEMMA RegisteTypes ==
    ASSUME TypeOK, MapInv, ConnectionTypeOK', NEW l \in Listeners, NEW e \in Events,
           RegisteEventListener(l, e)
    PROVE  TypeOK' /\ MapInv'
  <1> DEFINE n == NameOf[l]
  <1>0. n \in Names /\ NULL \notin Objects /\ Objects \subseteq Nat /\ MAX_OBJECTS \in Nat
    BY JavaFacts
  <1>1. /\ registered' \subseteq Listeners \X Events /\ troubled' \subseteq Names
        /\ m_pLinstenerList' = m_pLinstenerList /\ At(Jni, "ready")
    BY <1>0 DEF RegisteEventListener, Trouble, TypeOK
  <1>2. CASE /\ m_mListenerMap[n] # NULL
             /\ CallManager("register", e, m_mListenerMap[n])
             /\ UNCHANGED <<m_mListenerMap, objects>>
    <2>1. m_mListenerMap[n] \in 1..Len(objects) /\ ObjectName(m_mListenerMap[n]) = n
      BY <1>0, <1>2 DEF MapInv
    <2>2. m_mListenerMap[n] \in Objects
      BY <2>1, NameIsName
    <2>3. /\ request' \in Request \cup {NULL}
          /\ Calling' => request' \in Request /\ request'.object = m_mListenerMap[n]
      BY <1>1, <1>2, <2>2, CallTypes DEF TypeOK
    <2>4. TypeOK'
      BY <1>1, <1>2, <2>3 DEF TypeOK
    <2> QED
      BY <1>1, <1>2, <2>1, <2>3, <2>4 DEF MapInv, ObjectName
  <1>3. CASE /\ m_mListenerMap[n] = NULL /\ Len(objects) < MAX_OBJECTS
             /\ objects' = Append(objects, l)
             /\ m_mListenerMap' = [m_mListenerMap EXCEPT ![n] = Len(objects')]
             /\ CallManager("register", e, Len(objects'))
    <2> DEFINE o == Len(objects')
    <2>1. /\ \A q \in 1..Len(objects) : objects'[q] = objects[q]
          /\ o = Len(objects) + 1 /\ Len(objects) \in Nat /\ objects'[o] = l
      BY <1>3, NamesKept
    <2>2. o \in Objects /\ objects' \in Seq(Listeners) /\ o <= MAX_OBJECTS
      BY <1>0, <1>3, <2>1 DEF Objects, TypeOK
    <2>3. /\ request' \in Request \cup {NULL}
          /\ Calling' => request' \in Request /\ request'.object = o
      BY <1>1, <1>3, <2>2, CallTypes DEF TypeOK
    <2>4. /\ m_mListenerMap' \in [Names -> Objects \cup {NULL}] /\ m_mListenerMap'[n] = o
          /\ \A m \in Names : m # n => m_mListenerMap'[m] = m_mListenerMap[m]
      BY <1>0, <1>3, <2>2 DEF TypeOK
    <2>5. TypeOK'
      BY <1>1, <2>2, <2>3, <2>4 DEF TypeOK
    <2>6. \A m \in Names : m_mListenerMap'[m] # NULL =>
              m_mListenerMap'[m] \in 1..o /\ NameOf[objects'[m_mListenerMap'[m]]] = m
      <3> HIDE DEF o
      <3> SUFFICES ASSUME NEW m \in Names, m_mListenerMap'[m] # NULL
                   PROVE  m_mListenerMap'[m] \in 1..o /\ NameOf[objects'[m_mListenerMap'[m]]] = m
        OBVIOUS
      <3>1. CASE m = n
        BY <2>1, <2>4, <3>1
      <3>2. CASE m # n
        <4>1. m_mListenerMap'[m] \in 1..Len(objects) /\ ObjectName(m_mListenerMap[m]) = m
              /\ m_mListenerMap'[m] = m_mListenerMap[m]
          BY <2>4, <3>2 DEF MapInv
        <4>2. NameOf[objects[m_mListenerMap'[m]]] = m
          BY <4>1 DEF ObjectName
        <4> QED
          BY <2>1, <4>1, <4>2
      <3> QED
        BY <3>1, <3>2
    <2>7. \A d \in Events : \A k \in DOMAIN m_pLinstenerList[d] :
              m_pLinstenerList'[d][k] \in 1..o
      BY <1>1, <2>1 DEF MapInv
    <2>8. Calling' => /\ request'.object \in 1..o
                      /\ m_mListenerMap'[NameOf[objects'[request'.object]]] = request'.object
      <3> HIDE DEF o
      <3>1. 1 <= o /\ o \in Nat
        BY <2>1
      <3> QED
        BY <2>1, <2>3, <2>4, <3>1
    <2> QED
      BY <1>1, <2>3, <2>5, <2>6, <2>7, <2>8 DEF MapInv, ObjectName, o
  <1> QED
    BY <1>2, <1>3 DEF RegisteEventListener

LEMMA UnregisteTypes ==
    ASSUME TypeOK, MapInv, ConnectionTypeOK', NEW l \in Listeners, NEW e \in Events,
           UnregisteEventListener(l, e)
    PROVE  TypeOK' /\ MapInv'
  <1> DEFINE n == NameOf[l]
  <1>0. n \in Names /\ NULL \notin Objects
    BY JavaFacts
  <1>1. /\ registered' \subseteq Listeners \X Events /\ troubled' \subseteq Names
        /\ UNCHANGED <<objects, m_pLinstenerList>> /\ At(Jni, "ready")
    BY <1>0 DEF UnregisteEventListener, TypeOK
  <1>2. CASE UNCHANGED <<connectionVars, m_mListenerMap, request>>
    <2>1. ~Calling'
      BY <1>1, <1>2 DEF At, Calling, connectionVars, clientVars
    <2>2. TypeOK'
      BY <1>1, <1>2 DEF TypeOK
    <2> QED
      BY <1>1, <1>2, <2>1, <2>2 DEF MapInv, ObjectName
  <1>3. CASE /\ m_mListenerMap[n] # NULL
             /\ CallManager("unregister", e, m_mListenerMap[n])
             /\ IF Connected THEN UNCHANGED m_mListenerMap ELSE EraseName(n)
    <2>1. m_mListenerMap[n] \in 1..Len(objects) /\ ObjectName(m_mListenerMap[n]) = n
      BY <1>0, <1>3 DEF MapInv
    <2>2. m_mListenerMap[n] \in Objects
      BY <2>1, NameIsName
    <2>3. /\ request' \in Request \cup {NULL}
          /\ Calling' => request' \in Request /\ request'.object = m_mListenerMap[n]
      BY <1>1, <1>3, <2>2, CallTypes DEF TypeOK
    <2>4. TypeOK'
      BY <1>1, <1>3, <2>3 DEF TypeOK, EraseName
    <2>5. CASE Connected
      BY <1>1, <1>3, <2>1, <2>3, <2>4, <2>5 DEF MapInv, ObjectName
    <2>6. CASE ~Connected
      <3>1. ~Calling'
        BY <1>1, <1>3, <2>6 DEF At, Calling, CallManager, connectionVars, clientVars
      <3>2. \A m \in Names : m_mListenerMap'[m] = IF m = n THEN NULL ELSE m_mListenerMap[m]
        BY <1>3, <2>6 DEF EraseName, TypeOK
      <3> QED
        BY <1>1, <2>4, <3>1, <3>2 DEF MapInv, ObjectName
    <2> QED
      BY <2>5, <2>6
  <1> QED
    BY <1>2, <1>3 DEF UnregisteEventListener

LEMMA ServedTypes ==
    ASSUME TypeOK, MapInv, ConnectionTypeOK', Served
    PROVE  TypeOK' /\ MapInv'
  <1> DEFINE e == request.event
             s == m_pLinstenerList[e]
             named == {k \in DOMAIN s : ObjectName(s[k]) = ObjectName(request.object)}
             t == IF request.op = "register" THEN Append(s, request.object)
                  ELSE Kept(s, ErasedAt(Len(s), named))
  <1>1. /\ request' = [request EXCEPT !.served = TRUE]
        /\ m_pLinstenerList' = [m_pLinstenerList EXCEPT ![e] = t]
        /\ UNCHANGED <<m_mListenerMap, objects, registered, troubled>>
        /\ client' = client /\ client[Jni] = "transact"
    BY DEF Served, At, connectionVars, clientVars
  <1>2. request \in Request /\ request.object \in 1..Len(objects) /\ Calling
        /\ m_mListenerMap[ObjectName(request.object)] = request.object
    BY <1>1 DEF MapInv, Calling
  <1>3. /\ e \in Events /\ request.object \in Objects /\ s \in Seq(Objects)
        /\ request' \in Request /\ request'.object = request.object
    BY <1>1, <1>2 DEF Request, TypeOK
  <1> DEFINE Made == 1..Len(objects)
  <1>4. s \in Seq(Made)
    <2>1. Len(s) \in Nat /\ \A k \in 1..Len(s) : s[k] \in Made
      BY <1>3 DEF MapInv
    <2> QED
      BY <1>3, <2>1
  <1>5. t \in Seq(Made)
    <2> HIDE DEF s, named
    <2>1. Kept(s, ErasedAt(Len(s), named)) \in Seq(Made)
      BY <1>4, KeptFacts
    <2>2. Append(s, request.object) \in Seq(Made)
      BY <1>2, <1>4
    <2> QED
      BY <2>1, <2>2
  <1>6. Made \subseteq Objects
    BY JavaFacts DEF TypeOK, Objects
  <1> HIDE DEF t
  <1>7. t \in Seq(Objects)
    <2> HIDE DEF Made
    <2>1. Len(t) \in Nat /\ \A k \in 1..Len(t) : t[k] \in Objects
      BY <1>5, <1>6
    <2> QED
      BY <1>5, <2>1
  <1>8. TypeOK'
    BY <1>1, <1>3, <1>7 DEF TypeOK
  <1>9. \A d \in Events : \A k \in DOMAIN m_pLinstenerList'[d] : m_pLinstenerList'[d][k] \in Made
    <2> SUFFICES ASSUME NEW d \in Events, NEW k \in DOMAIN m_pLinstenerList'[d]
                 PROVE  m_pLinstenerList'[d][k] \in Made
      OBVIOUS
    <2>1. m_pLinstenerList'[d] = IF d = e THEN t ELSE m_pLinstenerList[d]
      BY <1>1, <1>3 DEF TypeOK
    <2>2. CASE d = e
      BY <1>5, <2>1, <2>2
    <2>3. CASE d # e
      BY <2>1, <2>3 DEF MapInv
    <2> QED
      BY <2>2, <2>3
  <1> QED
    BY <1>1, <1>2, <1>3, <1>8, <1>9 DEF MapInv, ObjectName

\* Until the call has been answered, or made, the Java thread does nothing else.
LEMMA WhileCalling ==
    ASSUME ConnectionTypeOK, ConnectionStep
    PROVE  \/ Calling' = Calling /\ client'[Jni] = client[Jni]
           \/ ~Calling /\ ~Calling'
           \/ Calling' = Calling /\ Use(Jni)
  <1> USE JavaFacts DEF ConnectionStep, Calling, ConnectionTypeOK
  <1>1. CASE StartService \/ Unpublish \/ NotificationStep
    BY <1>1 DEF StartService, Unpublish, NotificationStep, sendObituary, binderDied, clientVars
  <1>2. CASE Construct(Jni)
    BY <1>2 DEF Construct, At, Goto
  <1>3. CASE ConstructorStep(Jni)
    BY <1>3 DEF ConstructorStep, LinkStep, LockFunction, GetService, TestService, TestNotifier,
       CreateNotifier, Link, At, Goto
  <1>4. CASE Use(Jni)
    <2>1. client[Jni] = "call" /\ client'[Jni] = "transact"
      BY <1>4 DEF Use, At, Goto
    <2> QED
      BY <1>4, <2>1
  <1> QED
    BY <1>1, <1>2, <1>3, <1>4

LEMMA AnsweredTypes ==
    ASSUME TypeOK, MapInv, ConnectionTypeOK', Answered
    PROVE  TypeOK' /\ MapInv'
  <1> DEFINE n == ObjectName(request.object)
  <1>1. /\ client[Jni] = "transact" /\ client'[Jni] = "ready" /\ request' = NULL
        /\ UNCHANGED <<objects, m_pLinstenerList, registered>>
        /\ m_mListenerMap' = IF request.op = "unregister"
                             THEN [m_mListenerMap EXCEPT ![n] = NULL] ELSE m_mListenerMap
        /\ troubled' \subseteq troubled \cup {n}
    BY JavaFacts DEF Answered, Return, At, Goto, EraseName, TypeOK, ConnectionTypeOK
  <1>2. n \in Names
    BY <1>1, NameIsName DEF MapInv, Calling
  <1>3. TypeOK'
    BY <1>1, <1>2 DEF TypeOK
  <1>4. ~Calling'
    BY <1>1 DEF Calling
  <1>5. \A m \in Names : m_mListenerMap'[m] # NULL => m_mListenerMap'[m] = m_mListenerMap[m]
    BY <1>1, <1>2 DEF TypeOK
  <1> QED
    BY <1>1, <1>3, <1>4, <1>5 DEF MapInv, ObjectName

LEMMA JniTypesStep == TypeOK /\ MapInv /\ [Next]_vars => TypeOK' /\ MapInv'
  <1> SUFFICES ASSUME TypeOK, MapInv, [Next]_vars PROVE TypeOK' /\ MapInv'
    OBVIOUS
  <1>0. ConnectionTypeOK /\ ConnectionTypeOK'
    BY StepsOfConnection, ConnectionTypesStep DEF TypeOK
  <1>1. ASSUME NEW l \in Listeners, NEW e \in Events, RegisteEventListener(l, e)
        PROVE  TypeOK' /\ MapInv'
    BY <1>0, <1>1, RegisteTypes
  <1>2. ASSUME NEW l \in Listeners, NEW e \in Events, UnregisteEventListener(l, e)
        PROVE  TypeOK' /\ MapInv'
    BY <1>0, <1>2, UnregisteTypes
  <1>3. CASE Served
    BY <1>0, <1>3, ServedTypes
  <1>4. CASE Answered
    BY <1>0, <1>4, AnsweredTypes
  <1>5. CASE ServiceAndListsDie
    <2>1. /\ UNCHANGED <<m_mListenerMap, objects, request, registered>>
          /\ m_pLinstenerList' = [e \in Events |-> <<>>]
          /\ troubled' = troubled \cup {NameOf[r[1]] : r \in registered}
          /\ client' = client
      BY <1>5 DEF ServiceAndListsDie, ServiceDies, clientVars
    <2>2. troubled' \subseteq Names
      BY <2>1, JavaFacts DEF TypeOK
    <2>3. TypeOK'
      BY <1>0, <2>1, <2>2 DEF TypeOK
    <2> QED
      BY <2>1, <2>3 DEF MapInv, Calling, ObjectName
  <1>6. CASE ConnectionStep /\ UNCHANGED jniVars
    <2>1. Calling' => Calling
      BY <1>0, <1>6, WhileCalling
    <2>2. TypeOK'
      BY <1>0, <1>6 DEF TypeOK, jniVars
    <2> QED
      BY <1>6, <2>1, <2>2 DEF MapInv, ObjectName, jniVars
  <1>7. CASE UNCHANGED vars
    BY <1>0, <1>7 DEF vars, jniVars, connectionVars, clientVars, TypeOK, MapInv, Calling,
       ObjectName
  <1> QED
    BY <1>1, <1>2, <1>3, <1>4, <1>5, <1>6, <1>7 DEF Next, JavaStep

\* Every variable of the Java layer keeps its type; in particular a native
\* listener that the map, a call or a list mentions has been made.
THEOREM JniTypeCorrect == Spec => []TypeOK
  BY JniInit, JniTypesStep, PTL DEF Spec

-----------------------------------------------------------------------------
(* What Java, the map and the service agree on.                            *)

\* No incarnation of the service is known before it is born.
Known == 1..born \cup {NULL}
KnownInv ==
    /\ service \in Known /\ published \in Known /\ m_pEventService \in Known
    /\ Running /\ client[Jni] = "transact" => target[Jni] \in 1..born

LEMMA KnownStep == TypeOK /\ KnownInv /\ [Next]_vars => KnownInv'
  <1> SUFFICES ASSUME TypeOK, KnownInv, [Next]_vars PROVE KnownInv'
    OBVIOUS
  <1> USE DEF Known, KnownInv
  <1>0. ConnectionTypeOK /\ born \in Nat
    BY DEF TypeOK, ConnectionTypeOK
  <1>1. ASSUME UNCHANGED <<service, published, m_pEventService, born>>,
               client'[Jni] = "transact" => client[Jni] = "transact" /\ target' = target,
               fault' = fault
        PROVE  KnownInv'
    BY <1>1 DEF Running
  <1>2. CASE StartService
    BY <1>0, <1>2 DEF StartService, clientVars, Running
  <1>3. CASE ServiceDies
    BY <1>0, <1>3 DEF ServiceDies, clientVars, Running
  <1>4. CASE Unpublish
    BY <1>0, <1>4 DEF Unpublish, clientVars, Running
  <1>5. CASE NotificationStep
    BY <1>0, <1>5 DEF NotificationStep, sendObituary, binderDied, clientVars, serviceVars, Running
  <1>6. CASE Construct(Jni) \/ ConstructorStep(Jni)
    BY <1>0, <1>6, JavaFacts DEF Construct, ConstructorStep, LinkStep, LockFunction, GetService,
       TestService, TestNotifier, CreateNotifier, Link, At, Goto, serviceVars, ConnectionTypeOK
  <1>7. CASE Use(Jni)
    BY <1>0, <1>7, JavaFacts DEF Use, At, Goto, serviceVars, ConnectionTypeOK, Running
  <1>8. CASE Test(Jni) \/ Return(Jni)
    BY <1>0, <1>8, JavaFacts DEF Test, Return, At, Goto, serviceVars, ConnectionTypeOK
  <1>9. CASE UNCHANGED connectionVars
    BY <1>1, <1>9 DEF connectionVars, serviceVars, clientVars
  <1> QED
    BY <1>2, <1>3, <1>4, <1>5, <1>6, <1>7, <1>8, <1>9
       DEF Next, JavaStep, RegisteEventListener, UnregisteEventListener, CallManager, Served,
           Answered, ServiceAndListsDie, ConnectionStep, vars

\* The call under way is about name n, and has not been served; it will not be,
\* for it goes to a dead incarnation or to none.
CallFor(n) == Calling /\ ObjectName(request.object) = n
Pending(n) == CallFor(n) /\ ~request.served
Doomed ==
    \/ client[Jni] = "call" /\ (m_pEventService = NULL \/ DeadService(m_pEventService))
    \/ client[Jni] = "transact" /\ DeadService(target[Jni])

\* The registrations of a name, and the lists that should have it: those Java
\* has registered it in, but a call that is not served yet still makes the
\* difference.
Regs(n) == {r \in registered : NameOf[r[1]] = n}
Expected(n, e) ==
    IF Pending(n) THEN request.op = "unregister" /\ request.event = e
    ELSE \E r \in Regs(n) : r[2] = e
Listed(n, e) ==
    \E k \in DOMAIN m_pLinstenerList[e] :
        EntriesNamed(n, e) = {k} /\ m_pLinstenerList[e][k] = m_mListenerMap[n]

RegsInv(n) ==
    \A r \in Regs(n) :
        /\ Regs(n) = {r}
        /\ m_mListenerMap[n] # NULL /\ objects[m_mListenerMap[n]] = r[1]
        /\ CallFor(n) => request.op = "register" /\ request.event = r[2]
EmptyInv(n) ==
    Regs(n) = {} /\ m_mListenerMap[n] # NULL => CallFor(n) /\ request.op = "unregister"
ListInv(n) ==
    \A e \in Events :
        /\ Expected(n, e) => Listed(n, e) \/ (Pending(n) /\ Doomed)
        /\ ~Expected(n, e) => EntriesNamed(n, e) = {}
NameInv(n) == RegsInv(n) /\ EmptyInv(n) /\ ListInv(n)
AgreeInv == Running => \A n \in Names \ troubled : NameInv(n)

\* What a step about other names leaves alone.
Untouched(n) ==
    /\ Regs(n)' = Regs(n)
    /\ m_mListenerMap'[n] = m_mListenerMap[n]
    /\ m_mListenerMap[n] # NULL => objects'[m_mListenerMap[n]] = objects[m_mListenerMap[n]]
    /\ CallFor(n)' <=> CallFor(n)
    /\ CallFor(n) => /\ request'.op = request.op /\ request'.event = request.event
                     /\ request'.served = request.served
    /\ \A e \in Events : /\ EntriesNamed(n, e) = {} => EntriesNamed(n, e)' = {}
                         /\ Listed(n, e) => Listed(n, e)'
    /\ Pending(n) /\ Doomed => Doomed'

LEMMA UntouchedStep == ASSUME NEW n, Untouched(n), NameInv(n) PROVE NameInv(n)'
  <1>1. Pending(n)' <=> Pending(n)
    BY DEF Untouched, Pending
  <1>2. \A e : Expected(n, e)' <=> Expected(n, e)
    BY <1>1 DEF Untouched, Expected, Pending
  <1>3. RegsInv(n)'
    BY DEF Untouched, NameInv, RegsInv
  <1>4. EmptyInv(n)'
    BY DEF Untouched, NameInv, EmptyInv
  <1>5. ListInv(n)'
    BY <1>1, <1>2 DEF Untouched, NameInv, ListInv
  <1> QED
    BY <1>3, <1>4, <1>5 DEF NameInv

\* New native listeners do not change what the lists have.
LEMMA ListsKept ==
    ASSUME TypeOK, MapInv, NEW n,
           \A o \in 1..Len(objects) : objects'[o] = objects[o],
           m_pLinstenerList' = m_pLinstenerList
    PROVE  /\ \A e \in Events : EntriesNamed(n, e)' = EntriesNamed(n, e)
           /\ m_mListenerMap'[n] = m_mListenerMap[n] =>
                  \A e \in Events : Listed(n, e) => Listed(n, e)'
  <1>1. ASSUME NEW e \in Events PROVE EntriesNamed(n, e)' = EntriesNamed(n, e)
    BY <1>1 DEF MapInv, EntriesNamed, ObjectName
  <1> QED
    BY <1>1 DEF Listed

LEMMA RegisteName ==
    ASSUME TypeOK, MapInv, NEW l \in Listeners, NEW e \in Events, RegisteEventListener(l, e),
           NEW n \in Names, n \notin troubled', NameInv(n)
    PROVE  NameInv(n)'
  <1>1. /\ At(Jni, "ready") /\ ~CallFor(n) /\ ~Pending(n)
        /\ m_pLinstenerList' = m_pLinstenerList
        /\ registered' = registered \cup {<<l, e>>}
        /\ troubled' = troubled \cup Trouble(NameOf[l])
    BY DEF RegisteEventListener, At, CallFor, Calling, Pending
  <1>2. /\ \A o \in 1..Len(objects) : objects'[o] = objects[o]
        /\ Len(objects) \in Nat
    <2>1. CASE UNCHANGED objects
      BY <2>1 DEF TypeOK
    <2>2. CASE objects' = Append(objects, l)
      BY <2>2, NamesKept
    <2> QED
      BY <2>1, <2>2 DEF RegisteEventListener
  <1>3. /\ \A d \in Events : EntriesNamed(n, d)' = EntriesNamed(n, d)
        /\ m_mListenerMap'[n] = m_mListenerMap[n] =>
               \A d \in Events : Listed(n, d) => Listed(n, d)'
    BY <1>1, <1>2, ListsKept
  <1>4. CASE NameOf[l] # n
    <2>1. Regs(n)' = Regs(n)
      BY <1>1, <1>4 DEF Regs
    <2>2. m_mListenerMap'[n] = m_mListenerMap[n]
      BY <1>4 DEF RegisteEventListener, TypeOK
    <2>3. m_mListenerMap[n] # NULL => objects'[m_mListenerMap[n]] = objects[m_mListenerMap[n]]
      BY <1>2 DEF MapInv
    <2>4. ~CallFor(n)'
      <3>1. CASE ~Connected
        <4>1. client' = client
          BY <3>1 DEF RegisteEventListener, CallManager, connectionVars, clientVars
        <4> QED
          BY <1>1, <4>1 DEF CallFor, Calling, At
      <3>2. CASE Connected
        <4>1. PICK o \in Nat : request'.object = o /\ NameOf[objects'[o]] = NameOf[l]
          <5>1. CASE m_mListenerMap[NameOf[l]] # NULL /\ UNCHANGED objects
                     /\ CallManager("register", e, m_mListenerMap[NameOf[l]])
            <6>1. m_mListenerMap[NameOf[l]] \in 1..Len(objects)
                  /\ NameOf[objects[m_mListenerMap[NameOf[l]]]] = NameOf[l]
              BY <5>1, JavaFacts DEF MapInv, ObjectName
            <6>2. request'.object = m_mListenerMap[NameOf[l]]
              BY <3>2, <5>1 DEF CallManager
            <6> QED
              BY <1>2, <5>1, <6>1, <6>2
          <5>2. CASE objects' = Append(objects, l) /\ CallManager("register", e, Len(objects'))
            <6>1. objects'[Len(objects')] = l /\ Len(objects') \in Nat
              BY <5>2, NamesKept
            <6>2. request'.object = Len(objects')
              BY <3>2, <5>2 DEF CallManager
            <6> QED
              BY <6>1, <6>2
          <5> QED
            BY <5>1, <5>2 DEF RegisteEventListener
        <4> QED
          BY <1>4, <4>1 DEF CallFor, ObjectName
      <3> QED
        BY <3>1, <3>2
    <2>5. Untouched(n)
      BY <1>1, <1>3, <2>1, <2>2, <2>3, <2>4 DEF Untouched
    <2> QED
      BY <2>5, UntouchedStep
  <1>5. CASE NameOf[l] = n
    <2>1. Connected /\ Regs(n) = {}
      BY <1>1, <1>5 DEF Trouble, Regs
    <2>2. m_mListenerMap[n] = NULL
      BY <1>1, <2>1 DEF NameInv, EmptyInv
    <2> DEFINE o == Len(objects')
    <2>3. /\ objects' = Append(objects, l) /\ CallManager("register", e, o)
          /\ m_mListenerMap' = [m_mListenerMap EXCEPT ![n] = o]
      BY <1>5, <2>2 DEF RegisteEventListener
    <2>4. objects'[o] = l /\ o \in Nat
      BY <2>3, NamesKept
    <2>5. m_mListenerMap'[n] = o
      BY <2>3 DEF TypeOK
    <2>6. /\ request' = [op |-> "register", event |-> e, object |-> o, served |-> FALSE]
          /\ client'[Jni] = "call"
      BY <2>1, <2>3, JavaFacts DEF CallManager, Test, Goto, TypeOK, ConnectionTypeOK
    <2>7. Regs(n)' = {<<l, e>>}
      BY <1>1, <1>5, <2>1 DEF Regs
    <2>8. CallFor(n)' /\ Pending(n)'
      BY <1>5, <2>4, <2>6 DEF CallFor, Calling, ObjectName, Pending
    <2>9. RegsInv(n)' /\ EmptyInv(n)'
      <3>1. EmptyInv(n)'
        BY <2>7 DEF EmptyInv
      <3>2. o # NULL /\ request'.op = "register" /\ request'.event = e
        BY <2>4, <2>6, JavaFacts
      <3>3. \A r \in Regs(n)' : r = <<l, e>> /\ r[1] = l /\ r[2] = e
        BY <2>7
      <3> HIDE DEF o
      <3>4. RegsInv(n)'
        BY <2>4, <2>5, <2>7, <3>2, <3>3 DEF RegsInv
      <3> QED
        BY <3>1, <3>4
    <2>10. ListInv(n)'
      <3>1. \A d : ~Expected(n, d) /\ ~Expected(n, d)'
        BY <1>1, <2>1, <2>6, <2>8 DEF Expected
      <3> QED
        BY <1>3, <3>1 DEF NameInv, ListInv
    <2> QED
      BY <2>9, <2>10 DEF NameInv
  <1> QED
    BY <1>4, <1>5

LEMMA UnregisteName ==
    ASSUME TypeOK, MapInv, NEW l \in Listeners, NEW e \in Events, UnregisteEventListener(l, e),
           NEW n \in Names, n \notin troubled', n \notin troubled, NameInv(n)
    PROVE  NameInv(n)'
  <1>1. /\ At(Jni, "ready") /\ ~CallFor(n) /\ ~Pending(n)
        /\ UNCHANGED <<objects, m_pLinstenerList>>
        /\ <<l, e>> \in registered /\ registered' = registered \ {<<l, e>>}
    BY DEF UnregisteEventListener, At, CallFor, Calling, Pending
  <1>3. /\ \A d \in Events : EntriesNamed(n, d)' = EntriesNamed(n, d)
        /\ m_mListenerMap'[n] = m_mListenerMap[n] =>
               \A d \in Events : Listed(n, d) => Listed(n, d)'
    BY <1>1, ListsKept
  <1>4. CASE NameOf[l] # n
    <2>1. Regs(n)' = Regs(n)
      BY <1>1, <1>4 DEF Regs
    <2>2. m_mListenerMap'[n] = m_mListenerMap[n]
      BY <1>4 DEF UnregisteEventListener, EraseName, TypeOK
    <2>4. ~CallFor(n)'
      <3>1. CASE ~Connected \/ m_mListenerMap[NameOf[l]] = NULL
        <4>1. client' = client
          BY <3>1 DEF UnregisteEventListener, CallManager, connectionVars, clientVars
        <4> QED
          BY <1>1, <4>1 DEF CallFor, Calling, At
      <3>2. CASE Connected /\ m_mListenerMap[NameOf[l]] # NULL
        <4>1. NameOf[objects[m_mListenerMap[NameOf[l]]]] = NameOf[l]
          BY <3>2, JavaFacts DEF MapInv, ObjectName
        <4>2. request'.object = m_mListenerMap[NameOf[l]]
          BY <3>2 DEF UnregisteEventListener, CallManager
        <4> QED
          BY <1>1, <1>4, <4>1, <4>2 DEF CallFor, ObjectName
      <3> QED
        BY <3>1, <3>2
    <2>5. Untouched(n)
      BY <1>1, <1>3, <2>1, <2>2, <2>4 DEF Untouched
    <2> QED
      BY <2>5, UntouchedStep
  <1>5. CASE NameOf[l] = n
    <2>1. Regs(n) = {<<l, e>>} /\ m_mListenerMap[n] # NULL
      <3>1. <<l, e>> \in Regs(n)
        BY <1>1, <1>5 DEF Regs
      <3> QED
        BY <3>1 DEF NameInv, RegsInv
    <2>2. Connected /\ CallManager("unregister", e, m_mListenerMap[n])
          /\ UNCHANGED m_mListenerMap
      BY <1>5, <2>1 DEF UnregisteEventListener
    <2>3. /\ request' = [op |-> "unregister", event |-> e, object |-> m_mListenerMap[n],
                         served |-> FALSE]
          /\ client'[Jni] = "call"
      BY <2>2, JavaFacts DEF CallManager, Test, Goto, TypeOK, ConnectionTypeOK
    <2>4. Regs(n)' = {}
      BY <1>1, <2>1 DEF Regs
    <2>5. CallFor(n)' /\ Pending(n)'
      <3>1. ObjectName(m_mListenerMap[n]) = n
        BY <2>1 DEF MapInv
      <3> QED
        BY <1>1, <2>3, <3>1 DEF CallFor, Calling, ObjectName, Pending
    <2>6. RegsInv(n)' /\ EmptyInv(n)'
      BY <2>3, <2>4, <2>5 DEF RegsInv, EmptyInv
    <2>7. ListInv(n)'
      <3>1. \A d : Expected(n, d)' <=> Expected(n, d)
        BY <1>1, <2>1, <2>3, <2>5 DEF Expected
      <3> QED
        BY <1>1, <1>3, <2>2, <3>1 DEF NameInv, ListInv
    <2> QED
      BY <2>6, <2>7 DEF NameInv
  <1> QED
    BY <1>4, <1>5

\* What the erase loop leaves of a name's entries.
NamedIn(s, n) == {k \in DOMAIN s : ObjectName(s[k]) = n}

LEMMA KeptNamed ==
    ASSUME NEW S, NEW s \in Seq(S), NEW gone, NEW n
    PROVE  /\ NamedIn(s, n) \subseteq gone => NamedIn(Kept(s, gone), n) = {}
           /\ \A k : NamedIn(s, n) = {k} /\ k \notin gone =>
                  \E j \in DOMAIN Kept(s, gone) :
                      NamedIn(Kept(s, gone), n) = {j} /\ Kept(s, gone)[j] = s[k]
  <1> DEFINE t == Kept(s, gone)
             left == DOMAIN s \ gone
  <1>1. PICK f \in Bijection(DOMAIN t, left) : \A k \in DOMAIN t : t[k] = s[f[k]]
    BY KeptFacts
  <1> HIDE DEF t
  <1>2. /\ \A k \in DOMAIN t : f[k] \in left
        /\ \A j, k \in DOMAIN t : f[j] = f[k] => j = k
        /\ \A k \in left : \E j \in DOMAIN t : f[j] = k
    BY <1>1 DEF Bijection, Injection, Surjection, IsInjective
  <1>3. \A j \in NamedIn(t, n) : j \in DOMAIN t /\ f[j] \in NamedIn(s, n) /\ f[j] \notin gone
    BY <1>1, <1>2 DEF NamedIn
  <1>4. ASSUME NEW k, NamedIn(s, n) = {k}, k \notin gone
        PROVE  \E j \in DOMAIN t : NamedIn(t, n) = {j} /\ t[j] = s[k]
    <2>1. k \in left /\ ObjectName(s[k]) = n
      BY <1>4 DEF NamedIn
    <2>2. PICK j \in DOMAIN t : f[j] = k
      BY <1>2, <2>1
    <2>3. j \in NamedIn(t, n) /\ t[j] = s[k]
      BY <1>1, <2>1, <2>2 DEF NamedIn
    <2>4. \A i \in NamedIn(t, n) : i = j
      BY <1>2, <1>3, <1>4, <2>2
    <2> QED
      BY <2>3, <2>4
  <1>5. NamedIn(s, n) \subseteq gone => NamedIn(t, n) = {}
    BY <1>3
  <1> QED
    BY <1>4, <1>5 DEF t

LEMMA KeptNone ==
    ASSUME NEW S, NEW s \in Seq(S), NEW gone, NEW n, NamedIn(s, n) \subseteq gone
    PROVE  NamedIn(Kept(s, gone), n) = {}
  BY KeptNamed

OnlyNamed(s, n, k) == NamedIn(s, n) = {k}

LEMMA KeptOne ==
    ASSUME NEW S, NEW s \in Seq(S), NEW gone, NEW n, NEW k, OnlyNamed(s, n, k), k \notin gone
    PROVE  \E j \in DOMAIN Kept(s, gone) :
               OnlyNamed(Kept(s, gone), n, j) /\ Kept(s, gone)[j] = s[k]
  BY KeptNamed DEF OnlyNamed

LEMMA AppendNamed ==
    ASSUME NEW S, NEW s \in Seq(S), NEW o \in S, NEW n
    PROVE  /\ \A k \in DOMAIN s : k \in DOMAIN Append(s, o) /\ Append(s, o)[k] = s[k]
           /\ ObjectName(o) # n => NamedIn(Append(s, o), n) = NamedIn(s, n)
           /\ ObjectName(o) = n /\ NamedIn(s, n) = {} =>
                  \E k \in DOMAIN Append(s, o) :
                      NamedIn(Append(s, o), n) = {k} /\ Append(s, o)[k] = o
  <1> DEFINE t == Append(s, o)
             m == Len(s) + 1
  <1>1. /\ Len(s) \in Nat /\ DOMAIN s = 1..Len(s) /\ DOMAIN t = 1..m
        /\ \A k \in 1..Len(s) : t[k] = s[k]
        /\ t[m] = o
    OBVIOUS
  <1> HIDE DEF t
  <1>2. \A k \in DOMAIN t : k \in DOMAIN s \/ k = m
    BY <1>1
  <1>3. m \in DOMAIN t /\ \A k \in DOMAIN s : k \in DOMAIN t /\ t[k] = s[k]
    BY <1>1
  <1> HIDE DEF m
  <1>4. ObjectName(o) # n => NamedIn(t, n) = NamedIn(s, n)
    BY <1>1, <1>2, <1>3 DEF NamedIn
  <1>5. ObjectName(o) = n /\ NamedIn(s, n) = {} => NamedIn(t, n) = {m}
    BY <1>1, <1>2, <1>3 DEF NamedIn
  <1> QED
    BY <1>1, <1>3, <1>4, <1>5 DEF t

LEMMA ErasedSingle ==
    ASSUME NEW m \in Nat, NEW k \in 1..m
    PROVE  ErasedAt(m, {k}) = {k}
  <1> DEFINE G == ErasedAt(m, {k})
  <1>1. Erases(m, {k}, G)
    BY ErasedFacts
  <1> HIDE DEF G
  <1>2. G \subseteq 1..m /\ \A j \in 1..m : j \in G <=> j \in {k} /\ j - 1 \notin G
    BY <1>1 DEF Erases
  <1>3. G \subseteq {k}
    BY <1>2
  <1>4. k - 1 \notin G
    BY <1>3
  <1> QED
    BY <1>2, <1>3, <1>4 DEF G

LEMMA ErasedWithin ==
    ASSUME NEW m \in Nat, NEW hit
    PROVE  ErasedAt(m, hit) \subseteq hit
  BY ErasedFacts DEF Erases

LEMMA ServedName ==
    ASSUME TypeOK, MapInv, KnownInv, Served,
           NEW n \in Names, n \notin troubled, NameInv(n)
    PROVE  NameInv(n)'
  <1>1. /\ request' = [request EXCEPT !.served = TRUE] /\ ~request.served
        /\ UNCHANGED <<m_mListenerMap, objects, registered, troubled>>
        /\ UNCHANGED connectionVars /\ client[Jni] = "transact" /\ Running
        /\ target[Jni] = service
    BY DEF Served, At
  <1>2. request \in Request /\ request.object \in 1..Len(objects) /\ Calling
        /\ m_mListenerMap[ObjectName(request.object)] = request.object
    BY <1>1 DEF MapInv, Calling
  <1>3. PICK e \in Events : e = request.event
    BY <1>2 DEF Request
  <1>4. PICK o \in Objects : o = request.object
    BY <1>2 DEF Request
  <1>5. /\ request.op \in {"register", "unregister"}
        /\ request' \in Request /\ request'.object = o /\ request'.event = e
        /\ request'.op = request.op /\ request'.served = TRUE
    BY <1>1, <1>2, <1>3, <1>4 DEF Request
  <1> DEFINE s == m_pLinstenerList[e]
             named == NamedIn(s, ObjectName(o))
             gone == ErasedAt(Len(s), named)
             t == IF request.op = "register" THEN Append(s, o) ELSE Kept(s, gone)
  <1>6. /\ s \in Seq(Objects) /\ Len(s) \in Nat /\ DOMAIN s = 1..Len(s)
        /\ m_pLinstenerList'[e] = t
        /\ \A d \in Events : d # e => m_pLinstenerList'[d] = m_pLinstenerList[d]
    <2>1. m_pLinstenerList' = [m_pLinstenerList EXCEPT ![e] = t]
      BY <1>3, <1>4 DEF Served, NamedIn
    <2>2. s \in Seq(Objects)
      BY DEF TypeOK
    <2> HIDE DEF t
    <2>3. m_pLinstenerList'[e] = t /\ \A d \in Events : d # e => m_pLinstenerList'[d] = m_pLinstenerList[d]
      BY <2>1 DEF TypeOK
    <2> QED
      BY <2>2, <2>3
  <1>13. /\ \A d \in Events : d # e => EntriesNamed(n, d)' = EntriesNamed(n, d)
         /\ \A d \in Events : d # e => (Listed(n, d)' <=> Listed(n, d))
    <2>1. ASSUME NEW d \in Events, d # e PROVE EntriesNamed(n, d)' = EntriesNamed(n, d)
      BY <1>1, <1>6, <2>1 DEF EntriesNamed, ObjectName
    <2>2. ASSUME NEW d \in Events, d # e PROVE Listed(n, d)' <=> Listed(n, d)
      BY <1>1, <1>6, <2>1, <2>2 DEF Listed
    <2> QED
      BY <2>1, <2>2
  <1>14. EntriesNamed(n, e)' = NamedIn(t, n) /\ EntriesNamed(n, e) = NamedIn(s, n)
    <2>1. EntriesNamed(n, e) = NamedIn(s, n)
      BY DEF EntriesNamed, NamedIn
    <2> HIDE DEF t
    <2>2. EntriesNamed(n, e)' = NamedIn(t, n)
      BY <1>1, <1>6 DEF EntriesNamed, NamedIn, ObjectName
    <2> QED
      BY <2>1, <2>2
  <1>7. ~Doomed
    BY <1>1 DEF Doomed, DeadService
  <1>8. CallFor(n)' <=> CallFor(n)
    BY <1>1, <1>4, <1>5 DEF CallFor, Calling, ObjectName, connectionVars, clientVars
  <1>9. gone \subseteq named
    BY <1>6, ErasedWithin
  <1>10. RegsInv(n)' /\ EmptyInv(n)' /\ Regs(n)' = Regs(n)
    BY <1>1, <1>5, <1>8 DEF NameInv, RegsInv, EmptyInv, Regs
  <1>15. /\ request.op = "register" => t = Append(s, o)
         /\ request.op = "unregister" => t = Kept(s, gone)
    OBVIOUS
  <1> HIDE DEF t, s, gone, named
  <1>16. /\ \A k \in DOMAIN s : k \in DOMAIN Append(s, o) /\ Append(s, o)[k] = s[k]
         /\ ObjectName(o) # n => NamedIn(Append(s, o), n) = NamedIn(s, n)
         /\ ObjectName(o) = n /\ NamedIn(s, n) = {} =>
                \E k \in DOMAIN Append(s, o) :
                    NamedIn(Append(s, o), n) = {k} /\ Append(s, o)[k] = o
    BY <1>6, AppendNamed
  <1>11. CASE ObjectName(o) # n
    <2>1. ~CallFor(n)
      BY <1>4, <1>11 DEF CallFor
    <2>2. EntriesNamed(n, e) = {} => EntriesNamed(n, e)' = {}
      <3>1. CASE request.op = "register"
        BY <1>6, <1>11, <1>14, <1>15, <3>1, <1>16
      <3>2. CASE request.op = "unregister"
        <4>1. NamedIn(s, n) = {} => NamedIn(Kept(s, gone), n) = {}
          <5> SUFFICES ASSUME NamedIn(s, n) = {} PROVE NamedIn(Kept(s, gone), n) = {}
            OBVIOUS
          <5>1. NamedIn(s, n) \subseteq gone
            OBVIOUS
          <5> QED
            BY <1>6, <5>1, KeptNone
        <4> QED
          BY <1>14, <1>15, <3>2, <4>1
      <3> QED
        BY <1>5, <3>1, <3>2
    <2>3. Listed(n, e) => Listed(n, e)'
      <3> SUFFICES ASSUME NEW k \in DOMAIN s, NamedIn(s, n) = {k}, s[k] = m_mListenerMap[n]
                   PROVE  \E j \in DOMAIN t : NamedIn(t, n) = {j} /\ t[j] = m_mListenerMap[n]
        BY <1>1, <1>6, <1>14 DEF Listed, s
      <3>1. CASE request.op = "register"
        BY <1>6, <1>11, <1>15, <3>1, <1>16
      <3>2. CASE request.op = "unregister"
        <4>1. k \notin gone
          BY <1>9, <1>11 DEF NamedIn, named
        <4>2. \E j \in DOMAIN Kept(s, gone) :
                 OnlyNamed(Kept(s, gone), n, j) /\ Kept(s, gone)[j] = s[k]
          <5>1. OnlyNamed(s, n, k)
            BY DEF OnlyNamed
          <5> QED
            BY <1>6, <4>1, <5>1, KeptOne
        <4> QED
          BY <1>15, <3>2, <4>2 DEF OnlyNamed
      <3> QED
        BY <1>5, <3>1, <3>2
    <2>4. Untouched(n)
      BY <1>1, <1>13, <1>8, <1>10, <2>1, <2>2, <2>3 DEF Untouched, Pending
    <2> QED
      BY <2>4, UntouchedStep
  <1>12. CASE ObjectName(o) = n
    <2>1. CallFor(n) /\ Pending(n) /\ ~Pending(n)'
      BY <1>1, <1>2, <1>4, <1>5, <1>8, <1>12 DEF CallFor, Pending
    <2>2. /\ \A d \in Events : Expected(n, d) <=> request.op = "unregister" /\ e = d
          /\ \A d \in Events : Expected(n, d)' <=> \E r \in Regs(n) : r[2] = d
      <3>1. \A d \in Events : Expected(n, d) <=> request.op = "unregister" /\ e = d
        BY <1>3, <2>1 DEF Expected
      <3>2. \A d \in Events : Expected(n, d)' <=> \E r \in Regs(n) : r[2] = d
        BY <1>10, <2>1 DEF Expected
      <3> QED
        BY <3>1, <3>2
    <2>3. m_mListenerMap[n] = o /\ o # NULL
      BY <1>2, <1>4, <1>6, <1>12, JavaFacts
    <2>4. CASE request.op = "register"
      <3>1. PICK r \in Regs(n) : TRUE
        BY <2>3, <2>4 DEF NameInv, EmptyInv
      <3>2. Regs(n) = {r} /\ r[2] = e
        BY <1>3, <2>1 DEF NameInv, RegsInv
      <3>3. \A d \in Events : Expected(n, d)' <=> d = e
        BY <2>2, <3>2
      <3>4. \A d \in Events : EntriesNamed(n, d) = {}
        BY <2>2, <2>4 DEF NameInv, ListInv
      <3>5. Listed(n, e)'
        <4>2. NamedIn(s, n) = {}
          BY <1>14, <3>4
        <4>3. PICK j \in DOMAIN t : NamedIn(t, n) = {j} /\ t[j] = o
          BY <1>6, <1>12, <1>15, <2>4, <4>2, <1>16
        <4> QED
          BY <1>1, <1>6, <1>14, <2>3, <4>3 DEF Listed
      <3>6. ListInv(n)'
        BY <1>3, <1>5, <1>13, <3>3, <3>4, <3>5 DEF ListInv
      <3> QED
        BY <1>10, <3>6 DEF NameInv
    <2>5. CASE request.op = "unregister"
      <3>1. Regs(n) = {}
        BY <2>1, <2>5 DEF NameInv, RegsInv
      <3>2. \A d \in Events : ~Expected(n, d)'
        BY <2>2, <3>1
      <3>3. \A d \in Events : d # e => EntriesNamed(n, d) = {}
        BY <2>2 DEF NameInv, ListInv
      <3>4. Listed(n, e)
        BY <1>3, <1>5, <1>7, <2>2, <2>5 DEF NameInv, ListInv
      <3>5. PICK k \in DOMAIN s : NamedIn(s, n) = {k}
        BY <1>6, <1>14, <3>4 DEF Listed, s
      <3>6. gone = {k}
        BY <1>4, <1>6, <1>12, <3>5, ErasedSingle DEF gone, named
      <3>7. NamedIn(t, n) = {}
        BY <1>6, <1>15, <2>5, <3>5, <3>6, KeptNone
      <3>8. ListInv(n)'
        BY <1>3, <1>5, <1>13, <1>6, <1>14, <3>2, <3>3, <3>7 DEF ListInv
      <3> QED
        BY <1>10, <3>8 DEF NameInv
    <2> QED
      BY <1>3, <1>5, <2>4, <2>5
  <1> QED
    BY <1>11, <1>12

LEMMA AnsweredName ==
    ASSUME TypeOK, MapInv, Answered, NEW n \in Names, n \notin troubled', NameInv(n)
    PROVE  NameInv(n)'
  <1> DEFINE m == ObjectName(request.object)
  <1>1. /\ client[Jni] = "transact" /\ client'[Jni] = "ready" /\ request' = NULL
        /\ UNCHANGED <<objects, m_pLinstenerList, registered>>
        /\ m_mListenerMap' = IF request.op = "unregister"
                             THEN [m_mListenerMap EXCEPT ![m] = NULL] ELSE m_mListenerMap
        /\ troubled' = IF request.served THEN troubled ELSE troubled \cup {m}
    BY JavaFacts DEF Answered, Return, At, Goto, EraseName, TypeOK, ConnectionTypeOK
  <1>2. Calling /\ request \in Request
    BY <1>1 DEF MapInv, Calling
  <1>3. ~CallFor(n)' /\ ~Pending(n)' /\ Regs(n)' = Regs(n)
    BY <1>1 DEF CallFor, Calling, Pending, Regs
  <1>4. /\ \A d \in Events : EntriesNamed(n, d)' = EntriesNamed(n, d)
        /\ m_mListenerMap'[n] = m_mListenerMap[n] =>
               \A d \in Events : Listed(n, d) => Listed(n, d)'
    BY <1>1, ListsKept
  <1>5. CASE m # n
    <2>1. m_mListenerMap'[n] = m_mListenerMap[n] /\ ~CallFor(n)
      BY <1>1, <1>5 DEF TypeOK, CallFor
    <2>2. Untouched(n)
      BY <1>1, <1>3, <1>4, <2>1 DEF Untouched, Pending
    <2> QED
      BY <2>2, UntouchedStep
  <1>6. CASE m = n
    <2>1. request.served /\ CallFor(n) /\ ~Pending(n)
      BY <1>1, <1>2, <1>6 DEF CallFor, Pending
    <2>2. \A d : Expected(n, d)' <=> Expected(n, d)
      BY <1>3, <2>1 DEF Expected
    <2>3. CASE request.op = "register"
      <3>1. m_mListenerMap' = m_mListenerMap
        BY <1>1, <2>3
      <3>2. RegsInv(n)'
        BY <1>1, <1>3, <3>1 DEF NameInv, RegsInv
      <3>3. EmptyInv(n)'
        BY <1>3, <2>3, <3>1 DEF NameInv, EmptyInv
      <3>4. ListInv(n)'
        BY <1>4, <2>1, <2>2, <3>1 DEF NameInv, ListInv
      <3> QED
        BY <3>2, <3>3, <3>4 DEF NameInv
    <2>4. CASE request.op = "unregister"
      <3>1. Regs(n) = {}
        BY <2>1, <2>4 DEF NameInv, RegsInv
      <3>2. m_mListenerMap'[n] = NULL
        BY <1>1, <1>6, <2>4 DEF TypeOK
      <3>3. \A d : ~Expected(n, d)
        BY <2>1, <3>1 DEF Expected
      <3>4. RegsInv(n)' /\ EmptyInv(n)'
        BY <1>3, <3>1, <3>2 DEF RegsInv, EmptyInv
      <3>5. ListInv(n)'
        BY <1>4, <2>2, <3>3 DEF NameInv, ListInv
      <3> QED
        BY <3>4, <3>5 DEF NameInv
    <2> QED
      BY <1>2, <2>3, <2>4 DEF Request
  <1> QED
    BY <1>5, <1>6

\* The service dies: what was registered is troubled, and the call under way is
\* going to nothing.
LEMMA DieName ==
    ASSUME TypeOK, MapInv, KnownInv, ServiceAndListsDie,
           NEW n \in Names, n \notin troubled', NameInv(n)
    PROVE  NameInv(n)'
  <1>1. /\ UNCHANGED <<m_mListenerMap, objects, request, registered>>
        /\ m_pLinstenerList' = [e \in Events |-> <<>>]
        /\ troubled' = troubled \cup {NameOf[r[1]] : r \in registered}
        /\ client' = client /\ target' = target /\ m_pEventService' = m_pEventService
        /\ born' = born /\ service' = NULL /\ Running
    BY DEF ServiceAndListsDie, ServiceDies, clientVars
  <1>2. Regs(n) = {} /\ Regs(n)' = {}
    BY <1>1 DEF Regs
  <1>3. (CallFor(n)' <=> CallFor(n)) /\ (Pending(n)' <=> Pending(n))
    BY <1>1 DEF CallFor, Calling, ObjectName, Pending
  <1>4. \A k \in 1..born : DeadService(k)'
    <2>1. born \in Nat /\ NULL \notin Nat
      BY JavaFacts DEF TypeOK, ConnectionTypeOK
    <2> QED
      BY <1>1, <2>1 DEF DeadService
  <1>5. Pending(n) => Doomed'
    <2> SUFFICES ASSUME Pending(n) PROVE Doomed'
      OBVIOUS
    <2>1. CASE client[Jni] = "call"
      <3>1. m_pEventService = NULL \/ m_pEventService \in 1..born
        BY DEF KnownInv, Known
      <3>2. m_pEventService' = NULL \/ DeadService(m_pEventService)'
        BY <1>1, <1>4, <3>1
      <3> QED
        BY <1>1, <2>1, <3>2 DEF Doomed
    <2>2. CASE client[Jni] = "transact"
      <3>1. target[Jni] \in 1..born
        BY <1>1, <2>2 DEF KnownInv
      <3>2. DeadService(target[Jni])'
        BY <1>1, <1>4, <3>1 DEF DeadService
      <3> QED
        BY <1>1, <2>2, <3>2 DEF Doomed
    <2> QED
      BY <2>1, <2>2 DEF Pending, CallFor, Calling
  <1>6. RegsInv(n)' /\ EmptyInv(n)'
    BY <1>1, <1>2, <1>3 DEF NameInv, RegsInv, EmptyInv
  <1>7. \A e \in Events : EntriesNamed(n, e)' = {}
    BY <1>1 DEF EntriesNamed
  <1>8. \A e \in Events : Expected(n, e)' => Pending(n)'
    BY <1>2 DEF Expected
  <1>9. ListInv(n)'
    BY <1>3, <1>5, <1>7, <1>8 DEF ListInv
  <1> QED
    BY <1>6, <1>9 DEF NameInv

\* A call to a dead service or to none stays one.
LEMMA DoomedKept ==
    ASSUME TypeOK, ConnectionStep, Running', Calling, Doomed
    PROVE  Doomed'
  <1>0. ConnectionTypeOK /\ born \in Nat
    BY DEF TypeOK, ConnectionTypeOK
  <1> USE JavaFacts DEF Calling
  <1>1. CASE StartService
    <2>1. /\ born' = born + 1 /\ service' = born + 1
          /\ client' = client /\ target' = target /\ m_pEventService' = m_pEventService
      BY <1>1 DEF StartService, clientVars
    <2>2. ASSUME NEW k, DeadService(k) PROVE k \in 1..born' /\ k # service'
      BY <1>0, <2>1, <2>2 DEF DeadService
    <2> QED
      BY <2>1, <2>2 DEF Doomed, DeadService
  <1>2. CASE Unpublish
    BY <1>2 DEF Unpublish, clientVars, Doomed, DeadService
  <1>3. CASE NotificationStep
    BY <1>3 DEF NotificationStep, sendObituary, binderDied, clientVars, serviceVars, Doomed,
       DeadService
  <1>4. CASE Construct(Jni) \/ ConstructorStep(Jni)
    BY <1>4 DEF Construct, ConstructorStep, LinkStep, LockFunction, GetService, TestService,
       TestNotifier, CreateNotifier, Link, At
  <1>5. CASE Use(Jni)
    <2>1. /\ client[Jni] = "call" /\ client'[Jni] = "transact" /\ target'[Jni] = m_pEventService
          /\ m_pEventService # NULL /\ UNCHANGED serviceVars
      BY <1>0, <1>5 DEF Use, At, Goto, Running, ConnectionTypeOK
    <2> QED
      BY <2>1 DEF Doomed, DeadService, serviceVars
  <1> QED
    BY <1>1, <1>2, <1>3, <1>4, <1>5 DEF ConnectionStep

LEMMA ConnectionName ==
    ASSUME TypeOK, MapInv, ConnectionStep, UNCHANGED jniVars, Running',
           NEW n \in Names, NameInv(n)
    PROVE  NameInv(n)'
  <1>1. UNCHANGED <<m_mListenerMap, objects, m_pLinstenerList, request, registered>>
    BY DEF jniVars
  <1>2. Calling' <=> Calling
    BY WhileCalling DEF TypeOK, Calling
  <1>3. /\ Regs(n)' = Regs(n) /\ (CallFor(n)' <=> CallFor(n))
        /\ \A e \in Events : EntriesNamed(n, e)' = EntriesNamed(n, e)
    BY <1>1, <1>2 DEF Regs, CallFor, ObjectName, EntriesNamed
  <1>4. \A e \in Events : Listed(n, e) => Listed(n, e)'
    BY <1>1, <1>3 DEF Listed
  <1>5. Pending(n) /\ Doomed => Doomed'
    BY DoomedKept DEF Pending, CallFor
  <1> QED
    BY <1>1, <1>3, <1>4, <1>5, UntouchedStep DEF Untouched

LEMMA AgreeStep ==
    TypeOK /\ MapInv /\ KnownInv /\ AgreeInv /\ [Next]_vars => AgreeInv'
  <1> SUFFICES ASSUME TypeOK, MapInv, KnownInv, AgreeInv, [Next]_vars, Running',
                      NEW n \in Names, n \notin troubled'
               PROVE  NameInv(n)'
    BY DEF AgreeInv
  <1>1. CASE UNCHANGED vars
    <2>1. /\ UNCHANGED <<m_mListenerMap, objects, m_pLinstenerList, request, registered>>
          /\ UNCHANGED <<troubled, client, target, m_pEventService, born, service, fault>>
      BY <1>1 DEF vars, jniVars, connectionVars, serviceVars, clientVars
    <2>2. NameInv(n)
      BY <2>1 DEF AgreeInv, Running
    <2>3. Untouched(n)
      BY <2>1 DEF Untouched, Regs, CallFor, Calling, ObjectName, EntriesNamed, Listed, Doomed,
         DeadService
    <2> QED
      BY <2>2, <2>3, UntouchedStep
  <1>2. CASE Next
    <2>1. Running
      BY <1>2 DEF Next, JavaStep, RegisteEventListener, UnregisteEventListener, Served, Answered,
         Return, ServiceAndListsDie, ServiceDies, ConnectionStep, StartService, Unpublish,
         NotificationStep, sendObituary, binderDied, Construct, ConstructorStep, LinkStep,
         LockFunction, GetService, TestService, TestNotifier, CreateNotifier, Link, Use, At
    <2>2. n \notin troubled
      BY <1>2 DEF Next, JavaStep, RegisteEventListener, UnregisteEventListener, Served, Answered,
         ServiceAndListsDie, jniVars
    <2>3. NameInv(n)
      BY <2>1, <2>2 DEF AgreeInv
    <2>4. ASSUME NEW l \in Listeners, NEW e \in Events, RegisteEventListener(l, e)
          PROVE  NameInv(n)'
      BY <2>3, <2>4, RegisteName
    <2>5. ASSUME NEW l \in Listeners, NEW e \in Events, UnregisteEventListener(l, e)
          PROVE  NameInv(n)'
      BY <2>2, <2>3, <2>5, UnregisteName
    <2>6. CASE Served
      BY <2>2, <2>3, <2>6, ServedName
    <2>7. CASE Answered
      BY <2>3, <2>7, AnsweredName
    <2>8. CASE ServiceAndListsDie
      BY <2>3, <2>8, DieName
    <2>9. CASE ConnectionStep /\ UNCHANGED jniVars
      BY <2>3, <2>9, ConnectionName
    <2> QED
      BY <1>2, <2>4, <2>5, <2>6, <2>7, <2>8, <2>9 DEF Next, JavaStep
  <1> QED
    BY <1>1, <1>2

LEMMA AgreeInit == Init => KnownInv /\ AgreeInv
  <1> SUFFICES ASSUME Init PROVE KnownInv /\ AgreeInv
    OBVIOUS
  <1>1. /\ service = NULL /\ published = NULL /\ m_pEventService = NULL
        /\ client[Jni] = "none" /\ registered = {}
        /\ \A n \in Names : m_mListenerMap[n] = NULL
        /\ \A e \in Events : m_pLinstenerList[e] = <<>>
    BY JavaFacts DEF Init, ConnectionInit
  <1>2. KnownInv
    BY <1>1 DEF KnownInv, Known
  <1>3. ASSUME NEW n \in Names PROVE NameInv(n)
    <2>1. Regs(n) = {} /\ ~CallFor(n) /\ ~Pending(n)
      BY <1>1 DEF Regs, CallFor, Calling, Pending
    <2>2. \A e \in Events : ~Expected(n, e) /\ EntriesNamed(n, e) = {}
      BY <1>1, <2>1 DEF Expected, EntriesNamed
    <2> QED
      BY <1>1, <2>1, <2>2 DEF NameInv, RegsInv, EmptyInv, ListInv
  <1> QED
    BY <1>2, <1>3 DEF AgreeInv

LEMMA AgreeImplies == TypeOK /\ AgreeInv => Agreement
  <1> SUFFICES ASSUME TypeOK, AgreeInv, At(Jni, "ready"), NEW n \in Names, n \notin troubled
               PROVE  /\ m_mListenerMap[n] = NULL <=> \A r \in registered : NameOf[r[1]] # n
                      /\ \A e \in Events :
                            LET mine == {l \in Listeners : NameOf[l] = n /\ <<l, e>> \in registered}
                            IN  /\ mine = {} => EntriesNamed(n, e) = {}
                                /\ \A l \in mine : \E k \in DOMAIN m_pLinstenerList[e] :
                                      /\ EntriesNamed(n, e) = {k}
                                      /\ m_pLinstenerList[e][k] = m_mListenerMap[n]
                                      /\ objects[m_mListenerMap[n]] = l
    BY DEF Agreement
  <1>1. NameInv(n) /\ ~CallFor(n) /\ ~Pending(n)
    BY DEF AgreeInv, At, CallFor, Calling, Pending
  <1>2. \A r \in registered : NameOf[r[1]] = n <=> r \in Regs(n)
    BY DEF Regs
  <1>3. m_mListenerMap[n] = NULL <=> Regs(n) = {}
    BY <1>1 DEF NameInv, RegsInv, EmptyInv
  <1>4. Regs(n) = {} <=> \A r \in registered : NameOf[r[1]] # n
    BY DEF Regs
  <1>5. ASSUME NEW e \in Events, \A l \in Listeners : NameOf[l] = n => <<l, e>> \notin registered
        PROVE  EntriesNamed(n, e) = {}
    <2>1. \A r \in Regs(n) : r[1] \in Listeners /\ r = <<r[1], r[2]>> /\ r \in registered
                             /\ NameOf[r[1]] = n
      BY DEF TypeOK, Regs
    <2>2. ~Expected(n, e)
      BY <1>1, <1>5, <2>1 DEF Expected
    <2> QED
      BY <1>1, <2>2 DEF NameInv, ListInv
  <1>6. ASSUME NEW e \in Events, NEW l \in Listeners, NameOf[l] = n, <<l, e>> \in registered
        PROVE  \E k \in DOMAIN m_pLinstenerList[e] :
                  /\ EntriesNamed(n, e) = {k}
                  /\ m_pLinstenerList[e][k] = m_mListenerMap[n]
                  /\ objects[m_mListenerMap[n]] = l
    <2>1. <<l, e>> \in Regs(n)
      BY <1>6 DEF Regs
    <2>2. objects[m_mListenerMap[n]] = l
      BY <1>1, <2>1 DEF NameInv, RegsInv
    <2>3. Expected(n, e)
      BY <1>1, <2>1 DEF Expected
    <2> QED
      BY <1>1, <2>2, <2>3 DEF NameInv, ListInv, Listed
  <1> QED
    BY <1>3, <1>4, <1>5, <1>6

\* Between Java's calls, the map, the service's lists and what Java has
\* registered are the same thing, for every name that was registered for one
\* event at a time by one listener at a time, whatever the connection does
\* meanwhile, as long as the service does not die over it.
THEOREM JavaAndServiceAgree == Spec => []Agreement
  <1>1. Init => TypeOK /\ MapInv /\ KnownInv /\ AgreeInv
    BY JniInit, AgreeInit
  <1>2. TypeOK /\ MapInv /\ KnownInv /\ AgreeInv /\ [Next]_vars
        => TypeOK' /\ MapInv' /\ KnownInv' /\ AgreeInv'
    BY JniTypesStep, KnownStep, AgreeStep
  <1> QED
    BY <1>1, <1>2, AgreeImplies, PTL DEF Spec
=============================================================================
