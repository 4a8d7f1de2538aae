----------------------------- MODULE JniClient -----------------------------
(***************************************************************************)
(* The JNI layer (jni/JNI_OceanusTv_OClt_EventManager.cpp) on top of       *)
(* EventClient: m_mListenerMap keeps one native listener per name, Java    *)
(* registers and unregisters its listeners by name, and the service keeps  *)
(* the native listeners per event.  The process has one manager, which     *)
(* EventManager.java connects once, and one Java thread calls it: the map  *)
(* has no lock.                                                            *)
(***************************************************************************)
EXTENDS EventClient, SkippingErase

CONSTANTS
    Jni,           \* the Java thread, the only client of EventClient
    Listeners,     \* Tv_EventListener objects
    NameOf,        \* getListenerName() of each
    Events,        \* event types they may be registered for
    MAX_OBJECTS    \* bound: native listeners made in a behaviour

ASSUME JniAssumption ==
    /\ Clients = {Jni}
    /\ NULL \notin Nat
    /\ MAX_OBJECTS \in Nat

VARIABLES
    m_mListenerMap,     \* per name, the number of its native listener, or NULL
    objects,            \* the Java listener of each native listener made
    m_pLinstenerList,   \* the service's lists (ListenerRegistry), here only
                        \* the entries of this process
    request,            \* the call the Java thread has under way, or NULL
    registered,         \* what Java takes to be registered (history)
    troubled            \* names Agreement promises nothing for (history)

jniVars == <<m_mListenerMap, objects, m_pLinstenerList, request, registered, troubled>>
vars == <<connectionVars, jniVars>>

Names == {NameOf[l] : l \in Listeners}
Objects == 1..MAX_OBJECTS
Request == [op : {"register", "unregister"}, event : Events, object : Objects,
            served : BOOLEAN]

TypeOK ==
    /\ ConnectionTypeOK
    /\ m_mListenerMap \in [Names -> Objects \cup {NULL}]
    /\ objects \in Seq(Listeners) /\ Len(objects) <= MAX_OBJECTS
    /\ m_pLinstenerList \in [Events -> Seq(Objects)]
    /\ request \in Request \cup {NULL}
    /\ registered \subseteq Listeners \X Events
    /\ troubled \subseteq Names

Init ==
    /\ ConnectionInit
    /\ m_mListenerMap = [n \in Names |-> NULL]
    /\ objects = <<>>
    /\ m_pLinstenerList = [e \in Events |-> <<>>]
    /\ request = NULL
    /\ registered = {} /\ troubled = {}

ObjectName(o) == NameOf[objects[o]]
Connected == m_pEventService # NULL

-----------------------------------------------------------------------------
(* Java's calls.                                                           *)

\* The manager's test of the connection: go on with the call or drop it.
CallManager(op, e, o) ==
    IF Connected
    THEN /\ Test(Jni)
         /\ request' = [op |-> op, event |-> e, object |-> o, served |-> FALSE]
    ELSE UNCHANGED <<connectionVars, request>>

\* Two registrations at a time, or no connection: see Agreement.
Trouble(n) ==
    IF ~Connected \/ \E r \in registered : NameOf[r[1]] = n THEN {n} ELSE {}

\* A known name gets its old native listener, "illegal" or not.
RegisteEventListener(l, e) ==
    LET n == NameOf[l] IN
    /\ At(Jni, "ready") /\ <<l, e>> \notin registered
    /\ registered' = registered \cup {<<l, e>>}
    /\ troubled' = troubled \cup Trouble(n)
    /\ \/ /\ m_mListenerMap[n] # NULL
          /\ CallManager("register", e, m_mListenerMap[n])
          /\ UNCHANGED <<m_mListenerMap, objects>>
       \/ /\ m_mListenerMap[n] = NULL /\ Len(objects) < MAX_OBJECTS
          /\ objects' = Append(objects, l)
          /\ m_mListenerMap' = [m_mListenerMap EXCEPT ![n] = Len(objects')]
          /\ CallManager("register", e, Len(objects'))
    /\ UNCHANGED m_pLinstenerList

EraseName_OnlyNulled(n) == m_mListenerMap' = [m_mListenerMap EXCEPT ![n] = 0]    \* mutant
EraseName_Kept(n) == UNCHANGED m_mListenerMap    \* mutant
EraseName(n) == m_mListenerMap' = [m_mListenerMap EXCEPT ![n] = NULL]

\* A name that is not in the map "is not registed"; otherwise the entry is
\* erased after the call (Answered).
UnregisteEventListener(l, e) ==
    LET n == NameOf[l] IN
    /\ At(Jni, "ready") /\ <<l, e>> \in registered
    /\ registered' = registered \ {<<l, e>>}
    /\ \/ /\ m_mListenerMap[n] = NULL
          /\ UNCHANGED <<connectionVars, m_mListenerMap, request, troubled>>
       \/ /\ m_mListenerMap[n] # NULL
          /\ CallManager("unregister", e, m_mListenerMap[n])
          /\ IF Connected THEN UNCHANGED m_mListenerMap ELSE EraseName(n)
          /\ troubled' = IF Connected THEN troubled ELSE troubled \cup {n}
    /\ UNCHANGED <<objects, m_pLinstenerList>>

\* The service runs the call: push_back, or the erase loop by name.
Served ==
    /\ At(Jni, "transact") /\ request # NULL
    /\ ~request.served /\ target[Jni] = service
    /\ request' = [request EXCEPT !.served = TRUE]
    /\ LET s == m_pLinstenerList[request.event]
           named == {k \in DOMAIN s : ObjectName(s[k]) = ObjectName(request.object)}
       IN  m_pLinstenerList' = [m_pLinstenerList EXCEPT ![request.event] =
               IF request.op = "register" THEN Append(s, request.object)
               ELSE Kept(s, ErasedAt(Len(s), named))]
    /\ UNCHANGED <<connectionVars, m_mListenerMap, objects, registered, troubled>>

\* The call returns, served or not, to the JNI function.
Answered ==
    LET n == ObjectName(request.object) IN
    /\ client[Jni] = "transact" /\ request # NULL
    /\ request.served \/ target[Jni] # service
    /\ Return(Jni)
    /\ request' = NULL
    /\ IF request.op = "unregister" THEN EraseName(n) ELSE UNCHANGED m_mListenerMap
    /\ troubled' = IF request.served THEN troubled ELSE troubled \cup {n}
    /\ UNCHANGED <<objects, m_pLinstenerList, registered>>

\* The lists die with the service.
ServiceAndListsDie ==
    /\ ServiceDies
    /\ m_pLinstenerList' = [e \in Events |-> <<>>]
    /\ troubled' = troubled \cup {NameOf[r[1]] : r \in registered}
    /\ UNCHANGED <<m_mListenerMap, objects, request, registered>>

-----------------------------------------------------------------------------
JavaStep ==
    \/ \E l \in Listeners, e \in Events :
          RegisteEventListener(l, e) \/ UnregisteEventListener(l, e)
    \/ Served
    \/ Answered

ConnectionStep ==
    \/ StartService \/ Unpublish \/ NotificationStep
    \/ Construct(Jni) \/ ConstructorStep(Jni) \/ Use(Jni)

Next ==
    \/ JavaStep
    \/ ServiceAndListsDie
    \/ ConnectionStep /\ UNCHANGED jniVars

Spec == Init /\ [][Next]_vars

-----------------------------------------------------------------------------
(* Properties.                                                             *)

\* What Java has registered, what the map keeps and what the service lists are
\* the same thing between Java's calls, for a name that is registered for one
\* event at a time, by one listener at a time, with the service alive: its list
\* has one entry, the map's, made for that listener; no other list and, without
\* a registration, no list and no map has the name.
EntriesNamed(n, e) ==
    {k \in DOMAIN m_pLinstenerList[e] : ObjectName(m_pLinstenerList[e][k]) = n}
Agreement ==
    At(Jni, "ready") => \A n \in Names \ troubled :
        /\ m_mListenerMap[n] = NULL <=> \A r \in registered : NameOf[r[1]] # n
        /\ \A e \in Events :
              LET mine == {l \in Listeners : NameOf[l] = n /\ <<l, e>> \in registered}
              IN  /\ mine = {} => EntriesNamed(n, e) = {}
                  /\ \A l \in mine : \E k \in DOMAIN m_pLinstenerList[e] :
                        /\ EntriesNamed(n, e) = {k}
                        /\ m_pLinstenerList[e][k] = m_mListenerMap[n]
                        /\ objects[m_mListenerMap[n]] = l
=============================================================================
