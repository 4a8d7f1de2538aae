---------------------------- MODULE InfoTransfer ----------------------------
(***************************************************************************)
(* How an event info travels (EventInfo.cpp, IEventInfo.cpp, IEvent.cpp    *)
(* 91-119, JNI_OceanusTv_OClt_EventManager.cpp 78-152 and 206-276): a call *)
(* writes the address into the caller's info and hands its binder to the   *)
(* service, which copies the info getter by getter; the listener reads the *)
(* service's copy in the same way.  Whoever answers a getter may die.      *)
(*                                                                         *)
(* A native process may use one info for several calls, from several       *)
(* threads; Java's calls make a native info each.  A transaction with a    *)
(* dead process leaves the reply empty: readInt32 gives 0, readCString     *)
(* NULL, and making a std::string of that ends the reader's process.       *)
(***************************************************************************)
EXTENDS Integers, FiniteSets

CONSTANTS
    Requests,     \* calls of the sending process, each from a thread of its own
    RequestOf,    \* [op, object, name]: "send" to a name, "broadcast", "enable"
    Objects,      \* its infos
    InfoOf,       \* what each is made of: [kind, event, content]; for Java's
                  \* infos event and number are any integers
    BYTE, WORD,   \* bounds: the values of a U8 and of a U32
    MAX_CALLS,    \* bound: the calls and deliveries of one behaviour
    GARBAGE,      \* what a std::string holds that is written by two threads
    NULL

E_EVENT_INFO_TYPE_STRING == 0
E_EVENT_INFO_TYPE_NUMBER == 1
E_EVENT_INFO_TYPE_JSON == 2
E_EVENT_INFO_TYPE_NULL == 3

ASSUME TransferAssumption ==
    /\ BYTE \in Nat \ {0} /\ WORD \in Nat \ {0}
    /\ \A r \in Requests : /\ RequestOf[r].op \in {"send", "broadcast", "enable"}
                           /\ RequestOf[r].object \in Objects
    /\ \A o \in Objects : /\ InfoOf[o].kind \in 0..3 /\ InfoOf[o].event \in Int
                          /\ InfoOf[o].kind = E_EVENT_INFO_TYPE_NUMBER => InfoOf[o].content \in Int
    /\ MAX_CALLS \in Nat /\ NULL \notin Requests

VARIABLES
    listener_name,     \* per info
    m_bIsPrivateMsg,   \* per info, a BOOL: 0 or 1
    writers,           \* per info, the calls inside setListenerName
    raced,             \* calls whose setListenerName met another one's
    sender,            \* whether the sending process lives
    service,           \* whether the service lives
    call,              \* where each call is
    copy,              \* the service's copy for each call, so far
    earlier,           \* per call, those with its info that had ended when it began (history)
    overlapped,        \* calls during which their info was used by another (history)
    delivering,        \* the call whose copy a Java listener gets, or NULL
    todo,              \* the getters it has still to call
    got,               \* per call, what the listener has read
    delivered,         \* calls whose copies reached onEvent
    fault              \* whose process made a string of NULL, or "none"

infoVars == <<listener_name, m_bIsPrivateMsg, writers, raced>>
callVars == <<call, copy, earlier, overlapped>>
deliveryVars == <<delivering, todo, got, delivered>>
vars == <<infoVars, sender, service, callVars, deliveryVars, fault>>

\* The widths: U8 EventType, and the cast of the jlong to U32.
Byte_Wide(n) == n    \* mutant
Byte(n) == n % BYTE
Word(n) == n % WORD

IsText(kind) == kind \in {E_EVENT_INFO_TYPE_STRING, E_EVENT_INFO_TYPE_JSON}

\* EventInfo's constructors, CreateNativeEventInfo.
Native(o) ==
    LET i == InfoOf[o] IN
    [kind |-> i.kind, event |-> Byte(i.event),
     content |-> CASE IsText(i.kind) -> i.content
                   [] i.kind = E_EVENT_INFO_TYPE_NUMBER -> Word(i.content)
                   [] OTHER -> 0]

Texts == {InfoOf[o].content : o \in {x \in Objects : IsText(InfoOf[x].kind)}}
Names == {RequestOf[r].name : r \in Requests} \cup {"", GARBAGE}
Info == [kind : 0..3, event : 0..(BYTE - 1), content : (0..(WORD - 1)) \cup Texts]
Blank == [kind |-> 0, event |-> 0, content |-> 0]

TypeOK ==
    /\ listener_name \in [Objects -> Names]
    /\ m_bIsPrivateMsg \in [Objects -> {0, 1}]
    /\ writers \in [Objects -> SUBSET Requests] /\ raced \subseteq Requests
    /\ sender \in BOOLEAN /\ service \in BOOLEAN
    /\ call \in [Requests -> {"new", "set_name", "kind", "length", "string", "number",
                              "msg_type", "event", "name", "accepted"}]
    /\ copy \in [Requests -> [info : Info, private : {0, 1}, name : Names]]
    /\ got \in [Requests -> Info]
    /\ earlier \in [Requests -> SUBSET Requests] /\ overlapped \subseteq Requests
    /\ delivering \in Requests \cup {NULL}
    /\ todo \subseteq {"kind", "string", "number", "event"}
    /\ delivered \subseteq Requests
    /\ fault \in {"none", "service", "listener"}

Init ==
    /\ listener_name = [o \in Objects |-> ""]
    /\ m_bIsPrivateMsg = [o \in Objects |-> 1]
    /\ writers = [o \in Objects |-> {}] /\ raced = {}
    /\ sender = TRUE /\ service = TRUE
    /\ call = [r \in Requests |-> "new"]
    /\ copy = [r \in Requests |-> [info |-> Blank, private |-> 0, name |-> ""]]
    /\ earlier = [r \in Requests |-> {}] /\ overlapped = {}
    /\ delivering = NULL /\ todo = {} /\ delivered = {}
    /\ got = [r \in Requests |-> Blank]
    /\ fault = "none"

Running == fault = "none"

SenderDies ==
    /\ Running /\ sender
    /\ sender' = FALSE
    /\ UNCHANGED <<infoVars, service, callVars, deliveryVars, fault>>

ServiceDies ==
    /\ Running /\ service
    /\ service' = FALSE
    /\ UNCHANGED <<infoVars, sender, callVars, deliveryVars, fault>>

-----------------------------------------------------------------------------
(* The sending process: SendEvent, SendBroadcast and EnableSystemTimeEvent *)
(* of OClt_EventManager.  (The test of the connection is in EventClient.)  *)

Uses(o) == {r \in Requests : RequestOf[r].object = o /\ call[r] # "new"}
UnderWay(o) == {r \in Uses(o) : call[r] # "accepted"}

Started == {q \in Requests : call[q] # "new"}
Deliveries == delivered \cup ({delivering} \ {NULL})
BelowBound == Cardinality(Started) + Cardinality(Deliveries) < MAX_CALLS

Call(r, op, next) ==
    LET o == RequestOf[r].object IN
    /\ Running /\ sender
    /\ call[r] = "new" /\ RequestOf[r].op = op
    /\ BelowBound
    /\ call' = [call EXCEPT ![r] = next]
    /\ earlier' = [earlier EXCEPT ![r] = Uses(o) \ UnderWay(o)]
    /\ overlapped' = overlapped \cup UnderWay(o)
                         \cup (IF UnderWay(o) = {} THEN {} ELSE {r})
    /\ UNCHANGED <<listener_name, sender, service, copy, deliveryVars, fault>>

SendEvent(r) ==
    LET o == RequestOf[r].object IN
    /\ Call(r, "send", "set_name")
    /\ writers' = [writers EXCEPT ![o] = @ \cup {r}]
    /\ raced' = IF writers[o] = {} THEN raced ELSE raced \cup writers[o] \cup {r}
    /\ UNCHANGED m_bIsPrivateMsg

\* A std::string assignment is not atomic, and nothing guards it.
Written(r) == {RequestOf[r].name} \cup (IF r \in raced THEN {GARBAGE} ELSE {})
setListenerName(r) ==
    LET o == RequestOf[r].object IN
    /\ Running /\ sender
    /\ call[r] = "set_name"
    /\ \E n \in Written(r) : listener_name' = [listener_name EXCEPT ![o] = n]
    /\ writers' = [writers EXCEPT ![o] = @ \ {r}]
    /\ call' = [call EXCEPT ![r] = "kind"]
    /\ UNCHANGED <<m_bIsPrivateMsg, raced, sender, service, copy, earlier, overlapped,
                   deliveryVars, fault>>

\* Nothing sets the message type back.
setMsgType(o) == m_bIsPrivateMsg' = [m_bIsPrivateMsg EXCEPT ![o] = 0]

SendBroadcast(r) ==
    /\ Call(r, "broadcast", "kind")
    /\ setMsgType(RequestOf[r].object)
    /\ UNCHANGED <<writers, raced>>

EnableSystemTimeEvent(r) ==
    /\ Call(r, "enable", "kind")
    /\ UNCHANGED <<m_bIsPrivateMsg, writers, raced>>

-----------------------------------------------------------------------------
(* The service: BnEvent::onTransact makes an EventInfo of an IEventInfo.    *)

\* readInt32 of the reply.
Int32(n) == IF sender THEN n ELSE 0

Getter(r, pc, next) ==
    /\ Running /\ service
    /\ call[r] = pc
    /\ call' = [call EXCEPT ![r] = next]
    /\ UNCHANGED <<infoVars, sender, service, earlier, overlapped, deliveryVars>>

\* One of the getters that answer a string.
TextGetter(r, pc, next) ==
    /\ Getter(r, pc, IF sender THEN next ELSE pc)
    /\ fault' = IF sender THEN "none" ELSE "service"

Its(r) == Native(RequestOf[r].object)

getInfoType(r) ==
    LET kind == Int32(Its(r).kind) IN
    /\ Getter(r, "kind", CASE IsText(kind) -> "length"
                           [] kind = E_EVENT_INFO_TYPE_NUMBER -> "number"
                           [] OTHER -> "msg_type")
    /\ copy' = [copy EXCEPT ![r].info.kind = kind]
    /\ UNCHANGED fault

\* The string is asked for twice, for its length and for its text.
getStringLength(r) == TextGetter(r, "length", "string") /\ UNCHANGED copy

getString(r) ==
    /\ TextGetter(r, "string", "msg_type")
    /\ copy' = [copy EXCEPT ![r].info.content = IF sender THEN Its(r).content ELSE @]

getU32Number(r) ==
    /\ Getter(r, "number", "msg_type")
    /\ copy' = [copy EXCEPT ![r].info.content = Int32(Its(r).content)]
    /\ UNCHANGED fault

getMsgType(r) ==
    /\ Getter(r, "msg_type", "event")
    /\ copy' = [copy EXCEPT ![r].private = Int32(m_bIsPrivateMsg[RequestOf[r].object])]
    /\ UNCHANGED fault

getEventType(r) ==
    /\ Getter(r, "event", "name")
    /\ copy' = [copy EXCEPT ![r].info.event = Byte(Int32(Its(r).event))]
    /\ UNCHANGED fault

\* A name that is being written may look like anything.
Readable(o) ==
    {listener_name[o]} \cup
    (IF writers[o] = {} THEN {} ELSE {GARBAGE} \cup {RequestOf[q].name : q \in writers[o]})

\* Event::EnableSystemTimeEvent makes an info without a name public.
Published_Always(r, n) == RequestOf[r].op = "enable"    \* mutant
Published(r, n) == RequestOf[r].op = "enable" /\ n = ""

ReadName_Tolerant(r) ==    \* mutant
    Getter(r, "name", "accepted") /\ UNCHANGED fault
ReadName(r) == TextGetter(r, "name", "accepted")

\* The last getter: with it, the copy is what the service goes on with.
getListenerName(r) ==
    /\ ReadName(r)
    /\ \E n \in IF sender THEN Readable(RequestOf[r].object) ELSE {""} :
           copy' = [copy EXCEPT ![r].name = n, ![r].private = IF Published(r, n) THEN 0 ELSE @]

-----------------------------------------------------------------------------
(* A Java listener: JNI_OceanusTv_EventListener::OnEvent.  Its getters ask *)
(* the service; one delivery runs at a time (m_pDeathMutex).               *)

StartDelivery(r) ==
    /\ Running /\ service
    /\ call[r] = "accepted" /\ delivering = NULL /\ r \notin delivered
    /\ BelowBound
    /\ delivering' = r /\ todo' = {"kind"}
    /\ UNCHANGED <<infoVars, sender, service, callVars, got, delivered, fault>>

Answer(n) == IF service THEN n ELSE 0

\* U32 to jlong.
ToLong_Signed(n) == IF n >= WORD \div 2 THEN n - WORD ELSE n    \* mutant
ToLong(n) == n

Ask(getter, next) ==
    /\ Running
    /\ getter \in todo
    /\ todo' = (todo \ {getter}) \cup next
    /\ UNCHANGED <<infoVars, sender, service, callVars, delivering, delivered>>
Its_copy == copy[delivering].info

AskInfoType ==
    LET kind == Answer(Its_copy.kind) IN
    /\ Ask("kind", CASE IsText(kind) -> {"string"}
                     [] kind = E_EVENT_INFO_TYPE_NUMBER -> {"number", "event"}
                     [] OTHER -> {"event"})
    /\ got' = [got EXCEPT ![delivering].kind = kind]
    /\ UNCHANGED fault

AskString ==
    /\ Ask("string", {"event"})
    /\ fault' = IF service THEN "none" ELSE "listener"
    /\ got' = [got EXCEPT ![delivering].content = IF service THEN Its_copy.content ELSE @]

\* Two arguments of one call: their order is the compiler's.
AskU32Number ==
    /\ Ask("number", {})
    /\ got' = [got EXCEPT ![delivering].content = ToLong(Answer(Its_copy.content))]
    /\ UNCHANGED fault

AskEventType ==
    /\ Ask("event", {})
    /\ got' = [got EXCEPT ![delivering].event = Answer(Its_copy.event)]
    /\ UNCHANGED fault

\* onEvnet is called, and returns.
EndDelivery ==
    /\ Running
    /\ delivering # NULL /\ todo = {}
    /\ delivered' = delivered \cup {delivering}
    /\ delivering' = NULL
    /\ UNCHANGED <<infoVars, sender, service, callVars, todo, got, fault>>

-----------------------------------------------------------------------------
CallStep(r) ==
    SendEvent(r) \/ setListenerName(r) \/ SendBroadcast(r) \/ EnableSystemTimeEvent(r)
CopyStep(r) ==
    \/ getInfoType(r) \/ getStringLength(r) \/ getString(r) \/ getU32Number(r)
    \/ getMsgType(r) \/ getEventType(r) \/ getListenerName(r)
AskStep == AskInfoType \/ AskString \/ AskU32Number \/ AskEventType

Next ==
    \/ \E r \in Requests : CallStep(r) \/ CopyStep(r) \/ StartDelivery(r)
    \/ AskStep \/ EndDelivery
    \/ SenderDies \/ ServiceDies

Spec == Init /\ [][Next]_vars

-----------------------------------------------------------------------------
(* Properties.                                                             *)

\* A copy is never torn by the sender's death: the service goes on with all of
\* the info that was sent or with nothing (because it crashes), although most
\* getters answer a dead sender's part with a 0 that looks like a value.
NeverTorn == \A r \in Requests : call[r] = "accepted" => copy[r].info = Its(r)

\* An info goes where its call asked, if no other call used it meanwhile: a sent
\* one to its listener alone, unless it has once been broadcast; a broadcast to
\* all, whatever it was used for before; a timer's to the listener it was last
\* sent to alone (of sends that overlapped, one is the last), and to all if it
\* was never sent, was last sent to no name, or has once been broadcast.
WasUsed(r, op) == \E q \in earlier[r] : RequestOf[q].op = op
Sends(r) == {q \in earlier[r] : RequestOf[q].op = "send"}
LastSends(r) == {q \in Sends(r) : \A p \in Sends(r) : q \notin earlier[p]}
LastNames(r) == IF Sends(r) = {} THEN {""} ELSE UNION {Written(q) : q \in LastSends(r)}
AsAsked ==
    \A r \in Requests : call[r] = "accepted" /\ r \notin overlapped =>
        LET private == copy[r].private = 1
            name == copy[r].name
        IN
        CASE RequestOf[r].op = "send" -> /\ name = RequestOf[r].name
                                         /\ private <=> ~WasUsed(r, "broadcast")
          [] RequestOf[r].op = "broadcast" -> ~private
          [] RequestOf[r].op = "enable" ->
                 /\ name \in LastNames(r)
                 /\ private <=> name # "" /\ ~WasUsed(r, "broadcast")

\* What reaches Java's onEvent is what was sent, cut to the widths of U8 and
\* U32; only a death of the service during the delivery may turn a number, or
\* the event's type, into 0, and no text is ever delivered with it lost.
DeliveredIntact ==
    \A r \in delivered :
        /\ got[r].kind = Its(r).kind
        /\ got[r].event = InfoOf[RequestOf[r].object].event % BYTE \/ (~service /\ got[r].event = 0)
        /\ got[r].content = Its(r).content
              \/ (~service /\ got[r].kind = E_EVENT_INFO_TYPE_NUMBER /\ got[r].content = 0)
=============================================================================
