------------------------- MODULE InfoTransfer_proofs -------------------------
(***************************************************************************)
(* Proofs about InfoTransfer for every set of calls and infos, and every   *)
(* width.  The inductive invariants say how much of an info has been read  *)
(* at each getter, and which calls have used it: a 0 that a dead process   *)
(* "answers" is never the last thing that is read.                         *)
(***************************************************************************)
EXTENDS InfoTransfer, TLAPS

CopyRecord == [info : Info, private : {0, 1}, name : Names]
Places == {"new", "set_name", "kind", "length", "string", "number",
           "msg_type", "event", "name", "accepted"}
Contents == (0..(WORD - 1)) \cup Texts

LEMMA Widths ==
    /\ \A n \in Int : Byte(n) \in 0..(BYTE - 1) /\ Word(n) \in 0..(WORD - 1)
    /\ \A n \in 0..(BYTE - 1) : Byte(n) = n
    /\ Byte(0) = 0 /\ 0 \in 0..(BYTE - 1) /\ 0 \in 0..(WORD - 1)
  <1>1. ASSUME NEW n \in Int, NEW b \in Nat \ {0} PROVE n % b \in 0..(b - 1)
    OBVIOUS
  <1>2. ASSUME NEW b \in Nat \ {0}, NEW n \in 0..(b - 1) PROVE n % b = n
    OBVIOUS
  <1>3. BYTE \in Nat \ {0} /\ WORD \in Nat \ {0}
    BY TransferAssumption
  <1>4. 0 \in 0..(BYTE - 1) /\ 0 \in 0..(WORD - 1)
    BY <1>3
  <1> QED
    BY <1>1, <1>2, <1>3, <1>4 DEF Byte, Word

LEMMA RequestFacts ==
    /\ \A r \in Requests : /\ RequestOf[r].op \in {"send", "broadcast", "enable"}
                           /\ RequestOf[r].object \in Objects
                           /\ RequestOf[r].name \in Names
    /\ GARBAGE \in Names /\ "" \in Names /\ NULL \notin Requests
  BY TransferAssumption DEF Names

\* What the service is to read of a call's info.
LEMMA ItsInfo ==
    ASSUME NEW r \in Requests
    PROVE  /\ Its(r) \in Info
           /\ Its(r) = [kind |-> Its(r).kind, event |-> Its(r).event, content |-> Its(r).content]
           /\ Its(r).kind \in 0..3 /\ Its(r).event \in 0..(BYTE - 1)
           /\ Its(r).content \in Contents
           /\ Its(r).event = InfoOf[RequestOf[r].object].event % BYTE
           /\ Its(r).kind = E_EVENT_INFO_TYPE_NUMBER => Its(r).content \in 0..(WORD - 1)
           /\ ~IsText(Its(r).kind) /\ Its(r).kind # E_EVENT_INFO_TYPE_NUMBER => Its(r).content = 0
  <1> DEFINE o == RequestOf[r].object
             i == InfoOf[o]
  <1>1. o \in Objects
    BY RequestFacts
  <1>2. i.kind \in 0..3 /\ i.event \in Int
        /\ (i.kind = E_EVENT_INFO_TYPE_NUMBER => i.content \in Int)
    BY <1>1, TransferAssumption
  <1>3. IsText(i.kind) => i.content \in Texts
    BY <1>1 DEF Texts
  <1> HIDE DEF o, i
  <1>4. /\ Its(r).kind = i.kind /\ Its(r).event = Byte(i.event)
        /\ Its(r).content = CASE IsText(i.kind) -> i.content
                              [] i.kind = E_EVENT_INFO_TYPE_NUMBER -> Word(i.content)
                              [] OTHER -> 0
        /\ Its(r) = [kind |-> Its(r).kind, event |-> Its(r).event, content |-> Its(r).content]
    BY DEF Its, Native, o, i
  <1> DEFINE c == CASE IsText(i.kind) -> i.content
                    [] i.kind = E_EVENT_INFO_TYPE_NUMBER -> Word(i.content)
                    [] OTHER -> 0
  <1>5. c \in Contents /\ (i.kind = E_EVENT_INFO_TYPE_NUMBER => c \in 0..(WORD - 1))
        /\ (~IsText(i.kind) /\ i.kind # E_EVENT_INFO_TYPE_NUMBER => c = 0)
    <2>1. CASE IsText(i.kind)
      BY <1>3, <2>1 DEF Contents, IsText, E_EVENT_INFO_TYPE_STRING, E_EVENT_INFO_TYPE_JSON,
         E_EVENT_INFO_TYPE_NUMBER
    <2>2. CASE ~IsText(i.kind) /\ i.kind = E_EVENT_INFO_TYPE_NUMBER
      BY <1>2, <2>2, Widths DEF Contents
    <2>3. CASE ~IsText(i.kind) /\ i.kind # E_EVENT_INFO_TYPE_NUMBER
      BY <2>3, Widths DEF Contents
    <2> QED
      BY <2>1, <2>2, <2>3
  <1>6. Its(r).event = i.event % BYTE /\ Its(r).event \in 0..(BYTE - 1)
    BY <1>2, <1>4, Widths DEF Byte
  <1>7. Its(r).content \in Contents
    BY <1>4, <1>5
  <1>8. Its(r) \in Info
    BY <1>2, <1>4, <1>6, <1>7 DEF Info, Contents
  <1>9. Its(r).event = InfoOf[RequestOf[r].object].event % BYTE
    BY <1>6 DEF o, i
  <1> QED
    BY <1>2, <1>4, <1>5, <1>6, <1>7, <1>8, <1>9

-----------------------------------------------------------------------------
(* Types.  The Boolean variables apart: the SMT solver does badly on them.  *)

FlagType == sender \in BOOLEAN /\ service \in BOOLEAN

DataType ==
    /\ listener_name \in [Objects -> Names]
    /\ m_bIsPrivateMsg \in [Objects -> {0, 1}]
    /\ writers \in [Objects -> SUBSET Requests] /\ raced \subseteq Requests
    /\ call \in [Requests -> Places]
    /\ copy \in [Requests -> CopyRecord]
    /\ got \in [Requests -> Info]
    /\ earlier \in [Requests -> SUBSET Requests] /\ overlapped \subseteq Requests
    /\ delivering \in Requests \cup {NULL}
    /\ todo \subseteq {"kind", "string", "number", "event"}
    /\ delivered \subseteq Requests
    /\ fault \in {"none", "service", "listener"}
    /\ delivering = NULL => todo = {}

LEMMA TypeParts == FlagType /\ DataType => TypeOK
  BY Zenon DEF TypeOK, FlagType, DataType, CopyRecord, Places

LEMMA InfoInit == Init => FlagType /\ DataType
  <1>1. Init => FlagType
    BY Zenon DEF Init, FlagType
  <1>2. Blank \in Info
    BY Widths DEF Blank, Info
  <1>3. [info |-> Blank, private |-> 0, name |-> ""] \in CopyRecord
    BY <1>2, RequestFacts DEF CopyRecord
  <1>4. ASSUME Init PROVE DataType
    <2>1. listener_name \in [Objects -> Names] /\ m_bIsPrivateMsg \in [Objects -> {0, 1}]
      BY <1>4, RequestFacts DEF Init
    <2>2. /\ writers \in [Objects -> SUBSET Requests] /\ raced \subseteq Requests
          /\ earlier \in [Requests -> SUBSET Requests] /\ overlapped \subseteq Requests
      BY <1>4 DEF Init
    <2>3. call \in [Requests -> Places]
      BY <1>4 DEF Init, Places
    <2>4. copy \in [Requests -> CopyRecord]
      BY <1>3, <1>4 DEF Init
    <2>5. got \in [Requests -> Info]
      BY <1>2, <1>4 DEF Init
    <2>6. delivering = NULL /\ todo = {} /\ delivered = {} /\ fault = "none"
      BY <1>4, Zenon DEF Init
    <2> QED
      BY <2>1, <2>2, <2>3, <2>4, <2>5, <2>6 DEF DataType
  <1> QED
    BY Zenon, <1>1, <1>4

LEMMA FlagStep == FlagType /\ [Next]_vars => FlagType'
  <1> SUFFICES ASSUME FlagType, [Next]_vars PROVE FlagType'
    OBVIOUS
  <1> USE DEF FlagType
  <1>1. ASSUME NEW r \in Requests, CallStep(r) \/ StartDelivery(r)
        PROVE  UNCHANGED <<sender, service>>
    BY Zenon, <1>1 DEF CallStep, SendEvent, SendBroadcast, EnableSystemTimeEvent, Call,
       setListenerName, StartDelivery
  <1>2. ASSUME NEW r \in Requests, CopyStep(r) PROVE UNCHANGED <<sender, service>>
    BY Zenon, <1>2 DEF CopyStep, getInfoType, getStringLength, getString, getU32Number,
       getMsgType, getEventType, getListenerName, ReadName, TextGetter, Getter
  <1>3. ASSUME AskStep \/ EndDelivery \/ UNCHANGED vars PROVE UNCHANGED <<sender, service>>
    BY Zenon, <1>3 DEF AskStep, AskInfoType, AskString, AskU32Number, AskEventType, Ask,
       EndDelivery, vars
  <1>4. ASSUME SenderDies \/ ServiceDies PROVE FlagType'
    BY Zenon, <1>4 DEF SenderDies, ServiceDies
  <1> QED
    BY Zenon, <1>1, <1>2, <1>3, <1>4 DEF Next

LEMMA CallTypes ==
    ASSUME DataType, NEW r \in Requests, CallStep(r)
    PROVE  DataType'
  <1> USE RequestFacts
  <1> DEFINE o == RequestOf[r].object
  <1>1. o \in Objects
    OBVIOUS
  <1>2. \A x : UnderWay(x) \subseteq Requests /\ Uses(x) \subseteq Requests
    BY DEF UnderWay, Uses
  <1>3. ASSUME NEW op, NEW next \in Places, Call(r, op, next)
        PROVE  /\ call' \in [Requests -> Places]
               /\ earlier' \in [Requests -> SUBSET Requests] /\ overlapped' \subseteq Requests
               /\ UNCHANGED <<listener_name, copy, deliveryVars, fault>>
    BY <1>2, <1>3 DEF Call, DataType
  <1>4. CASE SendEvent(r)
    <2>1. "set_name" \in Places /\ Call(r, "send", "set_name")
      BY <1>4 DEF SendEvent, Places
    <2>2. /\ writers' \in [Objects -> SUBSET Requests] /\ raced' \subseteq Requests
          /\ UNCHANGED m_bIsPrivateMsg
      BY <1>1, <1>4 DEF SendEvent, DataType
    <2> QED
      BY <2>1, <2>2, <1>3 DEF DataType, deliveryVars
  <1>5. CASE setListenerName(r)
    <2>1. PICK n \in Names : listener_name' = [listener_name EXCEPT ![o] = n]
      BY <1>5 DEF setListenerName, Written
    <2>2. listener_name' \in [Objects -> Names]
      BY <1>1, <2>1 DEF DataType
    <2>3. writers' \in [Objects -> SUBSET Requests] /\ call' \in [Requests -> Places]
      BY <1>1, <1>5 DEF setListenerName, DataType, Places
    <2> QED
      BY <1>5, <2>2, <2>3 DEF setListenerName, DataType, deliveryVars
  <1>6. CASE SendBroadcast(r)
    <2>1. "kind" \in Places /\ Call(r, "broadcast", "kind")
      BY <1>6 DEF SendBroadcast, Places
    <2>2. m_bIsPrivateMsg' \in [Objects -> {0, 1}] /\ UNCHANGED <<writers, raced>>
      BY <1>1, <1>6 DEF SendBroadcast, setMsgType, DataType
    <2> QED
      BY <2>1, <2>2, <1>3 DEF DataType, deliveryVars
  <1>7. CASE EnableSystemTimeEvent(r)
    <2>1. "kind" \in Places /\ Call(r, "enable", "kind")
      BY <1>7 DEF EnableSystemTimeEvent, Places
    <2> QED
      BY <1>7, <2>1, <1>3 DEF EnableSystemTimeEvent, DataType, deliveryVars
  <1> QED
    BY <1>4, <1>5, <1>6, <1>7 DEF CallStep

\* What one getter of the service leaves alone.
LEMMA GetterFacts ==
    ASSUME DataType, NEW r \in Requests, CopyStep(r)
    PROVE  /\ Running /\ service
           /\ call' \in [Requests -> Places] /\ fault' \in {"none", "service"}
           /\ \A q \in Requests \ {r} : call'[q] = call[q]
           /\ UNCHANGED <<infoVars, sender, service, earlier, overlapped, deliveryVars>>
  <1> USE DEF Getter, TextGetter, Running, DataType, Places
  <1>1. CASE getInfoType(r)
    BY <1>1 DEF getInfoType
  <1>2. CASE getStringLength(r)
    BY <1>2 DEF getStringLength
  <1>3. CASE getString(r)
    BY <1>3 DEF getString
  <1>4. CASE getU32Number(r)
    BY <1>4 DEF getU32Number
  <1>5. CASE getMsgType(r)
    BY <1>5 DEF getMsgType
  <1>6. CASE getEventType(r)
    BY <1>6 DEF getEventType
  <1>7. CASE getListenerName(r)
    BY <1>7 DEF getListenerName, ReadName
  <1> QED
    BY <1>1, <1>2, <1>3, <1>4, <1>5, <1>6, <1>7 DEF CopyStep

LEMMA CopyTypes ==
    ASSUME DataType, NEW r \in Requests, CopyStep(r)
    PROVE  copy' \in [Requests -> CopyRecord] /\ \A q \in Requests \ {r} : copy'[q] = copy[q]
  <1> DEFINE c == copy[r]
             o == RequestOf[r].object
  <1>1. /\ c \in CopyRecord /\ o \in Objects /\ m_bIsPrivateMsg[o] \in {0, 1}
        /\ c.info \in Info /\ c.private \in {0, 1} /\ c.name \in Names
    BY RequestFacts DEF DataType, CopyRecord
  <1>2. \A n : Int32(n) \in {n, 0}
    BY DEF Int32
  <1>3. ASSUME NEW d \in CopyRecord, copy' = [copy EXCEPT ![r] = d]
        PROVE  copy' \in [Requests -> CopyRecord] /\ \A q \in Requests \ {r} : copy'[q] = copy[q]
    BY <1>3 DEF DataType
  <1>4. ASSUME NEW k \in 0..3 PROVE [c.info EXCEPT !.kind = k] \in Info
    BY <1>1 DEF Info
  <1>5. ASSUME NEW k \in 0..(BYTE - 1) PROVE [c.info EXCEPT !.event = k] \in Info
    BY <1>1 DEF Info
  <1>6. ASSUME NEW k \in Contents PROVE [c.info EXCEPT !.content = k] \in Info
    BY <1>1 DEF Info, Contents
  <1>7. ASSUME NEW k \in Info PROVE [c EXCEPT !.info = k] \in CopyRecord
    BY <1>1 DEF CopyRecord
  <1>8. 0 \in 0..3 /\ 0 \in Contents
    BY Widths DEF Contents
  <1> HIDE DEF c, o
  <1>k. CASE getInfoType(r)
    <2>1. Int32(Its(r).kind) \in 0..3
      BY <1>2, <1>8, ItsInfo
    <2>2. copy' = [copy EXCEPT ![r] = [c EXCEPT !.info = [c.info EXCEPT !.kind = Int32(Its(r).kind)]]]
      BY <1>k DEF getInfoType, c, DataType
    <2> QED
      BY <2>1, <2>2, <1>3, <1>4, <1>7
  <1>l. CASE getStringLength(r)
    BY <1>l DEF getStringLength, DataType
  <1>s. CASE getString(r)
    <2>1. (IF sender THEN Its(r).content ELSE c.info.content) \in Contents
      BY <1>1, ItsInfo DEF Info, Contents
    <2>2. copy' = [copy EXCEPT ![r] = [c EXCEPT !.info = [c.info EXCEPT !.content =
                     IF sender THEN Its(r).content ELSE c.info.content]]]
      BY <1>s DEF getString, c, DataType
    <2> QED
      BY <2>1, <2>2, <1>3, <1>6, <1>7
  <1>n. CASE getU32Number(r)
    <2>1. Int32(Its(r).content) \in Contents
      BY <1>2, <1>8, ItsInfo
    <2>2. copy' = [copy EXCEPT ![r] = [c EXCEPT !.info = [c.info EXCEPT !.content = Int32(Its(r).content)]]]
      BY <1>n DEF getU32Number, c, DataType
    <2> QED
      BY <2>1, <2>2, <1>3, <1>6, <1>7
  <1>m. CASE getMsgType(r)
    <2>1. Int32(m_bIsPrivateMsg[o]) \in {0, 1}
      BY <1>1, <1>2
    <2>2. copy' = [copy EXCEPT ![r] = [c EXCEPT !.private = Int32(m_bIsPrivateMsg[o])]]
      BY <1>m DEF getMsgType, c, o, DataType
    <2>3. [c EXCEPT !.private = Int32(m_bIsPrivateMsg[o])] \in CopyRecord
      BY <1>1, <2>1 DEF CopyRecord
    <2> QED
      BY <2>2, <2>3, <1>3
  <1>e. CASE getEventType(r)
    <2>1. Byte(Int32(Its(r).event)) \in 0..(BYTE - 1)
      BY <1>2, ItsInfo, Widths
    <2>2. copy' = [copy EXCEPT ![r] = [c EXCEPT !.info = [c.info EXCEPT !.event = Byte(Int32(Its(r).event))]]]
      BY <1>e DEF getEventType, c, DataType
    <2> QED
      BY <2>1, <2>2, <1>3, <1>5, <1>7
  <1>a. CASE getListenerName(r)
    <2>1. PICK n \in (IF sender THEN Readable(o) ELSE {""}) :
              copy' = [copy EXCEPT ![r].name = n,
                                   ![r].private = IF Published(r, n) THEN 0 ELSE @]
      BY <1>a DEF getListenerName, o
    <2>2. n \in Names
      <3>0. listener_name[o] \in Names /\ writers[o] \subseteq Requests
        BY <1>1 DEF DataType
      <3>1. ASSUME NEW x \in Readable(o) PROVE x \in Names
        <4>1. x = listener_name[o] \/ x = GARBAGE \/ \E q \in writers[o] : x = RequestOf[q].name
          BY <3>1 DEF Readable
        <4> QED
          BY <3>0, <4>1, RequestFacts
      <3> QED
        BY <2>1, <3>1, RequestFacts
    <2>3. copy' = [copy EXCEPT ![r] = [c EXCEPT !.name = n,
                     !.private = IF Published(r, n) THEN 0 ELSE c.private]]
      BY <2>1 DEF c, DataType
    <2>4. (IF Published(r, n) THEN 0 ELSE c.private) \in {0, 1}
      BY <1>1
    <2>5. [c EXCEPT !.name = n, !.private = IF Published(r, n) THEN 0 ELSE c.private] \in CopyRecord
      BY <1>1, <2>2, <2>4 DEF CopyRecord
    <2> QED
      BY <2>3, <2>5, <1>3
  <1> QED
    BY <1>k, <1>l, <1>s, <1>n, <1>m, <1>e, <1>a DEF CopyStep

\* What one getter of the listener leaves alone.
LEMMA AskFacts ==
    ASSUME DataType, AskStep
    PROVE  /\ Running /\ delivering \in Requests /\ delivering' = delivering
           /\ todo' \subseteq {"kind", "string", "number", "event"}
           /\ fault' \in {"none", "listener"}
           /\ UNCHANGED <<infoVars, sender, service, callVars, delivered>>
  <1>1. ASSUME NEW g, NEW n \in SUBSET {"kind", "string", "number", "event"}, Ask(g, n)
        PROVE  /\ Running /\ delivering \in Requests /\ delivering' = delivering
               /\ todo' \subseteq {"kind", "string", "number", "event"}
               /\ UNCHANGED <<infoVars, sender, service, callVars, delivered>>
    BY <1>1 DEF Ask, DataType
  <1>2. CASE AskInfoType
    <2>1. PICK n \in SUBSET {"kind", "string", "number", "event"} : Ask("kind", n)
      BY <1>2 DEF AskInfoType
    <2> QED
      BY <1>1, <1>2, <2>1 DEF AskInfoType, Running
  <1>3. CASE AskString
    BY <1>1, <1>3 DEF AskString
  <1>4. CASE AskU32Number
    BY <1>1, <1>4 DEF AskU32Number, Running, Ask
  <1>5. CASE AskEventType
    BY <1>1, <1>5 DEF AskEventType, Running, Ask
  <1> QED
    BY <1>2, <1>3, <1>4, <1>5 DEF AskStep

LEMMA AskTypes ==
    ASSUME DataType, AskStep
    PROVE  got' \in [Requests -> Info]
  <1> DEFINE d == delivering
             g == got[d]
  <1>1. d \in Requests /\ g \in Info /\ Its_copy \in Info
    BY AskFacts DEF DataType, Its_copy, CopyRecord
  <1>2. ASSUME NEW i \in Info, got' = [got EXCEPT ![d] = i] PROVE got' \in [Requests -> Info]
    BY <1>2 DEF DataType
  <1>3. /\ Its_copy.kind \in 0..3 /\ Its_copy.event \in 0..(BYTE - 1)
        /\ Its_copy.content \in Contents
    BY <1>1 DEF Info, Contents
  <1>4. 0 \in 0..3 /\ 0 \in 0..(BYTE - 1) /\ 0 \in Contents
    BY Widths DEF Contents
  <1>5. \A n : Answer(n) \in {n, 0} /\ ToLong(n) = n
    BY DEF Answer, ToLong
  <1> HIDE DEF d, g
  <1>6. CASE AskInfoType
    <2>1. got' = [got EXCEPT ![d] = [g EXCEPT !.kind = Answer(Its_copy.kind)]]
      BY <1>6 DEF AskInfoType, d, g, DataType
    <2>2. [g EXCEPT !.kind = Answer(Its_copy.kind)] \in Info
      BY <1>1, <1>3, <1>4, <1>5 DEF Info
    <2> QED
      BY <1>2, <2>1, <2>2
  <1>7. CASE AskString
    <2>1. got' = [got EXCEPT ![d] = [g EXCEPT !.content =
                     IF service THEN Its_copy.content ELSE g.content]]
      BY <1>7 DEF AskString, d, g, DataType
    <2>2. (IF service THEN Its_copy.content ELSE g.content) \in Contents
      BY <1>1, <1>3 DEF Info, Contents
    <2>3. [g EXCEPT !.content = IF service THEN Its_copy.content ELSE g.content] \in Info
      BY <1>1, <2>2 DEF Info, Contents
    <2> QED
      BY <1>2, <2>1, <2>3
  <1>8. CASE AskU32Number
    <2>1. got' = [got EXCEPT ![d] = [g EXCEPT !.content = Answer(Its_copy.content)]]
      BY <1>5, <1>8 DEF AskU32Number, d, g, DataType
    <2>2. [g EXCEPT !.content = Answer(Its_copy.content)] \in Info
      BY <1>1, <1>3, <1>4, <1>5 DEF Info, Contents
    <2> QED
      BY <1>2, <2>1, <2>2
  <1>9. CASE AskEventType
    <2>1. got' = [got EXCEPT ![d] = [g EXCEPT !.event = Answer(Its_copy.event)]]
      BY <1>9 DEF AskEventType, d, g, DataType
    <2>2. [g EXCEPT !.event = Answer(Its_copy.event)] \in Info
      BY <1>1, <1>3, <1>4, <1>5 DEF Info
    <2> QED
      BY <1>2, <2>1, <2>2
  <1> QED
    BY <1>6, <1>7, <1>8, <1>9 DEF AskStep

LEMMA DataStep == DataType /\ [Next]_vars => DataType'
  <1> SUFFICES ASSUME DataType, [Next]_vars PROVE DataType'
    OBVIOUS
  <1>1. ASSUME NEW r \in Requests, CopyStep(r) PROVE DataType'
    BY <1>1, GetterFacts, CopyTypes DEF DataType, infoVars, deliveryVars
  <1>2. ASSUME NEW r \in Requests, StartDelivery(r) PROVE DataType'
    BY <1>2, RequestFacts DEF StartDelivery, DataType, infoVars, callVars
  <1>3. ASSUME AskStep PROVE DataType'
    BY <1>3, AskFacts, AskTypes, RequestFacts DEF DataType, infoVars, callVars
  <1>4. ASSUME EndDelivery PROVE DataType'
    BY <1>4 DEF EndDelivery, DataType, infoVars, callVars
  <1>5. ASSUME SenderDies \/ ServiceDies \/ UNCHANGED vars PROVE DataType'
    BY <1>5 DEF SenderDies, ServiceDies, vars, DataType, infoVars, callVars, deliveryVars
  <1> QED
    BY <1>1, <1>2, <1>3, <1>4, <1>5, CallTypes DEF Next

\* Every variable keeps its type, for every set of calls and infos: the copies
\* stay within the widths of U8 and U32.
THEOREM TransferTypeCorrect == Spec => []TypeOK
  BY InfoInit, FlagStep, DataStep, TypeParts, PTL DEF Spec

-----------------------------------------------------------------------------
(* The service's copies.                                                   *)

\* What has been read of an info whose sender lives.
Parts(r) ==
    /\ call[r] \in {"new", "set_name", "kind"} => copy[r].info.content = 0
    /\ call[r] \in {"length", "string", "number", "msg_type", "event", "name"} =>
           copy[r].info.kind = Its(r).kind
    /\ call[r] \in {"length", "string"} => IsText(Its(r).kind)
    /\ call[r] = "number" => Its(r).kind = E_EVENT_INFO_TYPE_NUMBER
    /\ call[r] \in {"msg_type", "event", "name"} => copy[r].info.content = Its(r).content
    /\ call[r] = "name" => copy[r].info.event = Its(r).event

CopyInv == (sender => \A r \in Requests : Parts(r)) /\ NeverTorn

LEMMA ItsConstant == \A r : Its(r)' = Its(r)
  BY DEF Its, Native, IsText, Byte, Word, E_EVENT_INFO_TYPE_STRING, E_EVENT_INFO_TYPE_JSON,
     E_EVENT_INFO_TYPE_NUMBER

\* A getter that is answered reads what was sent; the last one is not the last
\* if it is not answered.
LEMMA PartsStep ==
    ASSUME DataType, CopyInv, NEW r \in Requests, CopyStep(r)
    PROVE  /\ sender => Parts(r)'
           /\ call'[r] = "accepted" => copy'[r].info = Its(r)
  <1> DEFINE c == copy[r].info
  <1>1. /\ copy[r] \in CopyRecord /\ c \in Info
        /\ c = [kind |-> c.kind, event |-> c.event, content |-> c.content]
    BY DEF DataType, CopyRecord, Info
  <1>2. Its(r)' = Its(r)
    BY ItsConstant
  <1>3. sender => Parts(r)
    BY DEF CopyInv
  <1>4. \A n : sender => Int32(n) = n
    BY DEF Int32
  <1> USE ItsInfo, Widths DEF E_EVENT_INFO_TYPE_NUMBER, IsText, E_EVENT_INFO_TYPE_STRING,
          E_EVENT_INFO_TYPE_JSON
  <1>k. CASE getInfoType(r)
    <2>1. /\ call[r] = "kind" /\ call'[r] \in {"length", "number", "msg_type"}
          /\ sender' = sender
      BY <1>k DEF getInfoType, Getter, DataType
    <2>2. ASSUME sender
          PROVE  /\ call'[r] = "length" => IsText(Its(r).kind)
                 /\ call'[r] = "number" => Its(r).kind = E_EVENT_INFO_TYPE_NUMBER
                 /\ call'[r] = "msg_type" => /\ ~IsText(Its(r).kind)
                                             /\ Its(r).kind # E_EVENT_INFO_TYPE_NUMBER
      BY <1>k, <1>4, <2>2 DEF getInfoType, Getter, DataType
    <2>3. ASSUME sender
          PROVE  copy'[r].info.kind = Its(r).kind /\ copy'[r].info.content = c.content
      BY <1>1, <1>4, <1>k, <2>3 DEF getInfoType, DataType, CopyRecord, Info
    <2> QED
      BY <1>2, <1>3, <2>1, <2>2, <2>3 DEF Parts
  <1>l. CASE getStringLength(r)
    <2>1. /\ call[r] = "length" /\ call'[r] \in {"length", "string"}
          /\ copy' = copy /\ sender' = sender
      BY <1>l DEF getStringLength, TextGetter, Getter, DataType
    <2> QED
      BY <1>2, <1>3, <2>1 DEF Parts
  <1>s. CASE getString(r)
    <2>1. /\ call[r] = "string" /\ call'[r] = (IF sender THEN "msg_type" ELSE "string")
          /\ sender' = sender
      BY <1>s DEF getString, TextGetter, Getter, DataType
    <2>2. ASSUME sender
          PROVE  copy'[r].info.kind = c.kind /\ copy'[r].info.content = Its(r).content
      BY <1>1, <1>s, <2>2 DEF getString, DataType, CopyRecord, Info
    <2> QED
      BY <1>2, <1>3, <2>1, <2>2 DEF Parts
  <1>n. CASE getU32Number(r)
    <2>1. call[r] = "number" /\ call'[r] = "msg_type" /\ sender' = sender
      BY <1>n DEF getU32Number, Getter, DataType
    <2>2. ASSUME sender
          PROVE  copy'[r].info.kind = c.kind /\ copy'[r].info.content = Its(r).content
      BY <1>1, <1>4, <1>n, <2>2 DEF getU32Number, DataType, CopyRecord, Info
    <2> QED
      BY <1>2, <1>3, <2>1, <2>2 DEF Parts
  <1>m. CASE getMsgType(r)
    <2>1. call[r] = "msg_type" /\ call'[r] = "event" /\ sender' = sender
      BY <1>m DEF getMsgType, Getter, DataType
    <2>2. copy'[r].info = c
      BY <1>1, <1>m DEF getMsgType, DataType, CopyRecord
    <2> QED
      BY <1>2, <1>3, <2>1, <2>2 DEF Parts
  <1>e. CASE getEventType(r)
    <2>1. call[r] = "event" /\ call'[r] = "name" /\ sender' = sender
      BY <1>e DEF getEventType, Getter, DataType
    <2>2. ASSUME sender
          PROVE  /\ copy'[r].info.kind = c.kind /\ copy'[r].info.content = c.content
                 /\ copy'[r].info.event = Its(r).event
      BY <1>1, <1>4, <1>e, <2>2 DEF getEventType, DataType, CopyRecord, Info
    <2> QED
      BY <1>2, <1>3, <2>1, <2>2 DEF Parts
  <1>a. CASE getListenerName(r)
    <2>1. /\ call[r] = "name" /\ call'[r] = (IF sender THEN "accepted" ELSE "name")
          /\ sender' = sender
      BY <1>a DEF getListenerName, ReadName, TextGetter, Getter, DataType
    <2>2. copy'[r].info = c
      <3>1. PICK n : copy' = [copy EXCEPT ![r].name = n,
                                          ![r].private = IF Published(r, n) THEN 0 ELSE @]
        BY <1>a DEF getListenerName
      <3> QED
        BY <1>1, <3>1 DEF DataType, CopyRecord
    <2>3. ASSUME sender PROVE c = Its(r)
      <3>1. c.kind = Its(r).kind /\ c.event = Its(r).event /\ c.content = Its(r).content
        BY <1>3, <2>1, <2>3 DEF Parts
      <3> QED
        BY <1>1, <3>1
    <2> QED
      BY <2>1, <2>2, <2>3 DEF Parts
  <1> QED
    BY <1>k, <1>l, <1>s, <1>n, <1>m, <1>e, <1>a DEF CopyStep

\* Calls and the service's getters for others leave a copy alone.
LEMMA OtherParts ==
    ASSUME NEW r \in Requests, Parts(r), copy'[r] = copy[r],
           \/ call'[r] = call[r]
           \/ {call[r], call'[r]} \subseteq {"new", "set_name", "kind"}
    PROVE  Parts(r)'
  BY ItsConstant DEF Parts

LEMMA CallsKeepCopies ==
    ASSUME DataType, NEW r \in Requests, CallStep(r)
    PROVE  /\ UNCHANGED <<copy, sender, service, deliveryVars, fault>> /\ sender /\ Running
           /\ call[r] \in {"new", "set_name"} /\ call'[r] \in {"set_name", "kind"}
           /\ \A q \in Requests \ {r} : call'[q] = call[q]
  <1>1. ASSUME NEW op, NEW next \in {"set_name", "kind"}, Call(r, op, next)
        PROVE  /\ UNCHANGED <<copy, sender, service, deliveryVars, fault>> /\ sender /\ Running
               /\ call[r] = "new" /\ call'[r] = next
               /\ \A q \in Requests \ {r} : call'[q] = call[q]
    BY <1>1 DEF Call, DataType
  <1>2. CASE SendEvent(r)
    BY <1>1, <1>2 DEF SendEvent
  <1>3. CASE setListenerName(r)
    BY <1>3 DEF setListenerName, DataType
  <1>4. CASE SendBroadcast(r)
    BY <1>1, <1>4 DEF SendBroadcast
  <1>5. CASE EnableSystemTimeEvent(r)
    BY <1>1, <1>5 DEF EnableSystemTimeEvent
  <1> QED
    BY <1>2, <1>3, <1>4, <1>5 DEF CallStep

LEMMA CopyInvStep == DataType /\ CopyInv /\ [Next]_vars => CopyInv'
  <1> SUFFICES ASSUME DataType, CopyInv, [Next]_vars PROVE CopyInv'
    OBVIOUS
  <1>1. ASSUME NEW r \in Requests, CallStep(r) PROVE CopyInv'
    <2>1. sender' = sender /\ sender /\ copy' = copy
      BY <1>1, CallsKeepCopies
    <2>2. ASSUME NEW q \in Requests PROVE Parts(q)'
      BY <1>1, <2>1, CallsKeepCopies, OtherParts DEF CopyInv
    <2>3. ASSUME NEW q \in Requests, call'[q] = "accepted" PROVE copy'[q].info = Its(q)
      BY <1>1, <2>1, <2>3, CallsKeepCopies DEF CopyInv, NeverTorn
    <2> QED
      BY <2>2, <2>3, ItsConstant DEF CopyInv, NeverTorn
  <1>2. ASSUME NEW r \in Requests, CopyStep(r) PROVE CopyInv'
    <2>1. sender' = sender /\ \A q \in Requests \ {r} : copy'[q] = copy[q] /\ call'[q] = call[q]
      BY <1>2, GetterFacts, CopyTypes
    <2>2. ASSUME sender, NEW q \in Requests PROVE Parts(q)'
      BY <1>2, <2>1, <2>2, PartsStep, OtherParts DEF CopyInv
    <2>3. ASSUME NEW q \in Requests, call'[q] = "accepted" PROVE copy'[q].info = Its(q)
      BY <1>2, <2>1, <2>3, PartsStep DEF CopyInv, NeverTorn
    <2> QED
      BY <2>1, <2>2, <2>3, ItsConstant DEF CopyInv, NeverTorn
  <1>3. ASSUME UNCHANGED <<call, copy>>, sender' => sender PROVE CopyInv'
    BY <1>3, ItsConstant, OtherParts DEF CopyInv, NeverTorn
  <1>4. ASSUME \/ \E r \in Requests : StartDelivery(r)
               \/ AskStep \/ EndDelivery \/ SenderDies \/ ServiceDies \/ UNCHANGED vars
        PROVE  UNCHANGED <<call, copy>> /\ (sender' => sender)
    BY <1>4, AskFacts DEF StartDelivery, EndDelivery, SenderDies, ServiceDies, vars, callVars
  <1> QED
    BY <1>1, <1>2, <1>3, <1>4 DEF Next

TransferInv == FlagType /\ DataType /\ CopyInv

LEMMA TransferInvariant == Spec => []TransferInv
  <1>1. Init => CopyInv
    <2> SUFFICES ASSUME Init PROVE CopyInv
      OBVIOUS
    <2>1. \A r \in Requests : call[r] = "new" /\ copy[r].info = Blank
      BY DEF Init
    <2>2. \A r \in Requests : Parts(r)
      BY <2>1 DEF Parts, Blank
    <2> QED
      BY <2>1, <2>2 DEF CopyInv, NeverTorn
  <1> QED
    BY <1>1, InfoInit, FlagStep, DataStep, CopyInvStep, PTL DEF Spec, TransferInv

\* No death of a sender, at whichever getter, makes the service go on with an
\* info of which a part was answered by nobody.
THEOREM CopiesWhole == Spec => []NeverTorn
  <1>1. TransferInv => NeverTorn
    BY DEF TransferInv, CopyInv
  <1> QED
    BY <1>1, TransferInvariant, PTL

-----------------------------------------------------------------------------
(* What a Java listener reads of a copy.                                   *)

ContentRead(r) ==
    \/ got[r].content = Its(r).content
    \/ ~service /\ got[r].kind = E_EVENT_INFO_TYPE_NUMBER /\ got[r].content = 0
EventRead(r) == got[r].event = Its(r).event \/ (~service /\ got[r].event = 0)
KindRead(r) == got[r].kind = Its(r).kind

\* During a delivery: what has been read is right, or will be the last that is.
Reading(r) ==
    /\ "kind" \in todo => todo = {"kind"} /\ got[r] = Blank
    /\ "string" \in todo => todo = {"string"} /\ (service => KindRead(r))
    /\ todo \subseteq {"number", "event"} =>
           /\ KindRead(r)
           /\ "number" \in todo => Its(r).kind = E_EVENT_INFO_TYPE_NUMBER
           /\ "number" \notin todo => ContentRead(r)
           /\ "event" \notin todo => EventRead(r)

DeliveryInv ==
    /\ delivering # NULL => call[delivering] = "accepted" /\ delivering \notin delivered
    /\ \A r \in Requests : r \notin delivered /\ r # delivering => got[r] = Blank
    /\ \A r \in Requests : r = delivering /\ Running => Reading(r)
    /\ \A r \in delivered : KindRead(r) /\ ContentRead(r) /\ EventRead(r)

LEMMA ReadingStep ==
    ASSUME DataType, NeverTorn, DeliveryInv, AskStep, Running',
           NEW d \in Requests, d = delivering
    PROVE  Reading(d)'
  <1> DEFINE g == got[d]
  <1>1. /\ Its_copy = Its(d) /\ Reading(d) /\ delivering' = d /\ service' = service
        /\ g \in Info /\ Its(d)' = Its(d)
    BY AskFacts, RequestFacts, ItsConstant DEF DataType, DeliveryInv, NeverTorn, Its_copy
  <1>2. \A n : Answer(n) = (IF service THEN n ELSE 0) /\ ToLong(n) = n
    BY DEF Answer, ToLong
  <1> USE ItsInfo DEF E_EVENT_INFO_TYPE_NUMBER, IsText, E_EVENT_INFO_TYPE_STRING,
          E_EVENT_INFO_TYPE_JSON, ContentRead, EventRead, KindRead
  <1>3. CASE AskInfoType
    <2>1. todo = {"kind"} /\ g = Blank
      BY <1>1, <1>3 DEF AskInfoType, Ask, Reading
    <2>2. /\ got'[d].kind = (IF service THEN Its(d).kind ELSE 0)
          /\ got'[d].content = 0 /\ got'[d].event = 0
      BY <1>1, <1>2, <1>3, <2>1 DEF AskInfoType, DataType, Info, Blank
    <2>3. CASE service /\ IsText(Its(d).kind)
      <3>1. todo' = {"string"}
        BY <1>1, <1>2, <1>3, <2>1, <2>3 DEF AskInfoType, Ask
      <3> QED
        BY <1>1, <2>2, <2>3, <3>1 DEF Reading
    <2>4. CASE service /\ Its(d).kind = E_EVENT_INFO_TYPE_NUMBER
      <3>1. todo' = {"number", "event"}
        BY <1>1, <1>2, <1>3, <2>1, <2>4 DEF AskInfoType, Ask
      <3> QED
        BY <1>1, <2>2, <2>4, <3>1 DEF Reading
    <2>5. CASE service /\ ~IsText(Its(d).kind) /\ Its(d).kind # E_EVENT_INFO_TYPE_NUMBER
      <3>1. todo' = {"event"}
        BY <1>1, <1>2, <1>3, <2>1, <2>5 DEF AskInfoType, Ask
      <3> QED
        BY <1>1, <2>2, <2>5, <3>1 DEF Reading
    <2>6. CASE ~service
      <3>1. todo' = {"string"}
        BY <1>1, <1>2, <1>3, <2>1, <2>6 DEF AskInfoType, Ask
      <3> QED
        BY <1>1, <2>6, <3>1 DEF Reading
    <2> QED
      BY <2>3, <2>4, <2>5, <2>6
  <1>4. CASE AskString
    <2>1. todo = {"string"} /\ service /\ KindRead(d)
      BY <1>1, <1>4 DEF AskString, Ask, Reading, Running
    <2>2. got'[d].kind = g.kind /\ got'[d].content = Its(d).content
      BY <1>1, <1>4, <2>1 DEF AskString, DataType, Info
    <2>3. todo' = {"event"}
      BY <1>4, <2>1 DEF AskString, Ask
    <2> QED
      BY <1>1, <2>1, <2>2, <2>3 DEF Reading
  <1>5. CASE AskU32Number
    <2>1. "number" \in todo /\ todo \subseteq {"number", "event"} /\ todo' = todo \ {"number"}
      BY <1>1, <1>5 DEF AskU32Number, Ask, Reading, DataType
    <2>2. /\ got'[d].kind = g.kind /\ got'[d].event = g.event
          /\ got'[d].content = (IF service THEN Its(d).content ELSE 0)
      BY <1>1, <1>2, <1>5 DEF AskU32Number, DataType, Info
    <2>3. KindRead(d) /\ Its(d).kind = E_EVENT_INFO_TYPE_NUMBER /\ ("event" \notin todo => EventRead(d))
      BY <1>1, <2>1 DEF Reading
    <2> QED
      BY <1>1, <2>1, <2>2, <2>3 DEF Reading
  <1>6. CASE AskEventType
    <2>1. "event" \in todo /\ todo \subseteq {"number", "event"} /\ todo' = todo \ {"event"}
      BY <1>1, <1>6 DEF AskEventType, Ask, Reading, DataType
    <2>2. /\ got'[d].kind = g.kind /\ got'[d].content = g.content
          /\ got'[d].event = (IF service THEN Its(d).event ELSE 0)
      BY <1>1, <1>2, <1>6 DEF AskEventType, DataType, Info
    <2>3. /\ KindRead(d)
          /\ "number" \in todo => Its(d).kind = E_EVENT_INFO_TYPE_NUMBER
          /\ "number" \notin todo => ContentRead(d)
      BY <1>1, <2>1 DEF Reading
    <2> QED
      BY <1>1, <2>1, <2>2, <2>3 DEF Reading
  <1> QED
    BY <1>3, <1>4, <1>5, <1>6 DEF AskStep

LEMMA AskOne ==
    ASSUME DataType, AskStep, NEW r \in Requests, r # delivering
    PROVE  got'[r] = got[r]
  BY DEF AskStep, AskInfoType, AskString, AskU32Number, AskEventType, DataType

\* The service may die while it is read: what was read already stays right.
LEMMA ReadingKept ==
    ASSUME NEW r, got'[r] = got[r], todo' = todo, service' => service, Reading(r)
    PROVE  Reading(r)'
  BY ItsConstant DEF Reading, KindRead, ContentRead, EventRead, Blank

LEMMA ReadKept ==
    ASSUME NEW r, got'[r] = got[r], service' => service,
           KindRead(r), ContentRead(r), EventRead(r)
    PROVE  KindRead(r)' /\ ContentRead(r)' /\ EventRead(r)'
  BY ItsConstant DEF KindRead, ContentRead, EventRead

LEMMA DeliveryStep ==
    DataType /\ CopyInv /\ DeliveryInv /\ [Next]_vars => DeliveryInv'
  <1> SUFFICES ASSUME DataType, CopyInv, DeliveryInv, [Next]_vars PROVE DeliveryInv'
    OBVIOUS
  <1> USE RequestFacts
  <1>1. ASSUME UNCHANGED deliveryVars, Running' => Running, service' => service,
               \A r \in Requests : call[r] = "accepted" => call'[r] = "accepted"
        PROVE  DeliveryInv'
    <2>1. UNCHANGED <<delivering, todo, got, delivered>>
      BY <1>1 DEF deliveryVars
    <2>2. delivering # NULL => delivering \in Requests
      BY DEF DataType
    <2>3. delivered \subseteq Requests
      BY DEF DataType
    <2> QED
      BY <1>1, <2>1, <2>2, <2>3, ReadingKept, ReadKept DEF DeliveryInv, Blank
  <1>2. ASSUME NEW r \in Requests, CallStep(r) PROVE DeliveryInv'
    <2>1. UNCHANGED deliveryVars /\ Running' = Running /\ service' = service
      BY <1>2, CallsKeepCopies DEF Running
    <2>2. \A q \in Requests : call[q] = "accepted" => call'[q] = "accepted"
      BY <1>2, CallsKeepCopies
    <2> QED
      BY <1>1, <2>1, <2>2
  <1>3. ASSUME NEW r \in Requests, CopyStep(r) PROVE DeliveryInv'
    <2>1. UNCHANGED deliveryVars /\ Running /\ service' = service
      BY <1>3, GetterFacts
    <2>2. call[r] # "accepted"
      BY <1>3 DEF CopyStep, getInfoType, getStringLength, getString, getU32Number, getMsgType,
         getEventType, getListenerName, ReadName, TextGetter, Getter
    <2>3. \A q \in Requests : call[q] = "accepted" => call'[q] = "accepted"
      BY <1>3, <2>2, GetterFacts
    <2> QED
      BY <1>1, <2>1, <2>3
  <1>4. ASSUME SenderDies \/ ServiceDies \/ UNCHANGED vars PROVE DeliveryInv'
    <2>1. UNCHANGED <<deliveryVars, call, fault>>
      BY <1>4 DEF SenderDies, ServiceDies, vars, callVars
    <2>2. service' => service
      BY <1>4, Zenon DEF SenderDies, ServiceDies, vars
    <2> QED
      BY <1>1, <2>1, <2>2 DEF Running
  <1>5. ASSUME NEW d \in Requests, StartDelivery(d) PROVE DeliveryInv'
    <2>1. /\ call[d] = "accepted" /\ delivering = NULL /\ d \notin delivered /\ Running
          /\ delivering' = d /\ todo' = {"kind"}
          /\ UNCHANGED <<service, call, got, delivered, fault>>
      BY <1>5 DEF StartDelivery, callVars
    <2>2. got[d] = Blank
      BY <2>1 DEF DeliveryInv
    <2>3. Reading(d)'
      BY <2>1, <2>2 DEF Reading, Blank
    <2>4. \A r \in delivered : KindRead(r)' /\ ContentRead(r)' /\ EventRead(r)'
      BY <2>1, ReadKept DEF DeliveryInv
    <2> QED
      BY <2>1, <2>3, <2>4 DEF DeliveryInv, Blank
  <1>6. ASSUME AskStep PROVE DeliveryInv'
    <2>1. /\ delivering \in Requests /\ delivering' = delivering
          /\ UNCHANGED <<service, call, delivered>>
      BY <1>6, AskFacts DEF callVars
    <2>2. \A r \in Requests : r # delivering => got'[r] = got[r]
      BY <1>6, AskOne
    <2>3. \A r \in Requests : r = delivering /\ Running' => Reading(r)'
      BY <1>6, ReadingStep DEF CopyInv
    <2>4. \A r \in delivered : KindRead(r)' /\ ContentRead(r)' /\ EventRead(r)'
      BY <2>1, <2>2, ReadKept DEF DeliveryInv, DataType
    <2> QED
      BY <2>1, <2>2, <2>3, <2>4 DEF DeliveryInv, Blank
  <1>7. ASSUME EndDelivery PROVE DeliveryInv'
    <2>1. PICK d \in Requests : d = delivering
      BY <1>7 DEF EndDelivery, DataType
    <2>2. /\ todo = {} /\ delivered' = delivered \cup {d} /\ delivering' = NULL /\ Running
          /\ UNCHANGED <<service, call, got>>
      BY <1>7, <2>1 DEF EndDelivery, callVars
    <2>3. KindRead(d) /\ ContentRead(d) /\ EventRead(d)
      BY <2>1, <2>2 DEF DeliveryInv, Reading
    <2>4. \A r \in delivered' : KindRead(r)' /\ ContentRead(r)' /\ EventRead(r)'
      BY <2>2, <2>3, ReadKept DEF DeliveryInv
    <2> QED
      BY <2>1, <2>2, <2>4 DEF DeliveryInv, Blank
  <1> QED
    BY <1>2, <1>3, <1>4, <1>5, <1>6, <1>7 DEF Next

\* What reaches onEvent is what was sent, whoever dies at whichever getter: a 0
\* answered by nobody is read only if the service dies, and never for a text.
THEOREM ListenersReadWhatWasSent == Spec => []DeliveredIntact
  <1>1. ASSUME Init PROVE DeliveryInv
    <2>1. delivering = NULL /\ delivered = {} /\ \A r \in Requests : got[r] = Blank
      BY <1>1 DEF Init
    <2> QED
      BY <2>1, RequestFacts DEF DeliveryInv
  <1>2. ASSUME DataType, DeliveryInv PROVE DeliveredIntact
    <2>1. ASSUME NEW r \in delivered
          PROVE  /\ r \in Requests /\ KindRead(r) /\ ContentRead(r) /\ EventRead(r)
                 /\ Its(r).event = InfoOf[RequestOf[r].object].event % BYTE
      BY <1>2, ItsInfo DEF DataType, DeliveryInv
    <2> QED
      BY <2>1 DEF DeliveredIntact, KindRead, ContentRead, EventRead
  <1>3. TransferInv => DataType /\ CopyInv
    BY DEF TransferInv
  <1> QED
    BY <1>1, <1>2, <1>3, DeliveryStep, TransferInvariant, PTL DEF Spec

-----------------------------------------------------------------------------
(* Which calls have used an info, and what they have left in it.           *)

ObjectOf(r) == RequestOf[r].object
IsUsed(o, op) == \E q \in Uses(o) : RequestOf[q].op = op
Alone(r) == call[r] \notin {"new", "accepted"} /\ r \notin overlapped

WriterInv ==
    /\ \A o \in Objects : writers[o] = {r \in Requests : ObjectOf(r) = o /\ call[r] = "set_name"}
    /\ raced \subseteq overlapped
    /\ \A r \in Requests : call[r] = "set_name" => RequestOf[r].op = "send"

\* The calls before a call have ended.
EarlierInv == \A p \in Requests : \A q \in earlier[p] : call[q] = "accepted"

\* Whatever an info was used for stays in it: its name is one that a send wrote
\* that ended before no other one began.
Named(q) == RequestOf[q].op = "send" /\ call[q] # "set_name"
NameLeft(o) ==
    \/ listener_name[o] = "" /\ \A q \in Uses(o) : ~Named(q)
    \/ \E q \in Uses(o) : /\ Named(q) /\ listener_name[o] \in Written(q)
                          /\ \A p \in Uses(o) : Named(p) => q \notin earlier[p]
LeftInv ==
    /\ \A o \in Objects : m_bIsPrivateMsg[o] = 0 <=> IsUsed(o, "broadcast")
    /\ \A o \in Objects : NameLeft(o)

\* A call that has met no other one has the info to itself.
AloneInv ==
    \A r \in Requests : Alone(r) =>
        /\ UnderWay(ObjectOf(r)) = {r}
        /\ Uses(ObjectOf(r)) = earlier[r] \cup {r}
        /\ RequestOf[r].op = "send" /\ call[r] # "set_name" =>
               listener_name[ObjectOf(r)] = RequestOf[r].name
        /\ sender /\ call[r] \in {"event", "name"} =>
               copy[r].private = m_bIsPrivateMsg[ObjectOf(r)]

\* AsAsked, for one call.
Asked(r) ==
    LET private == copy[r].private = 1 IN
    CASE RequestOf[r].op = "send" -> /\ copy[r].name = RequestOf[r].name
                                     /\ private <=> ~WasUsed(r, "broadcast")
      [] RequestOf[r].op = "broadcast" -> ~private
      [] RequestOf[r].op = "enable" ->
             /\ copy[r].name \in LastNames(r)
             /\ private <=> copy[r].name # "" /\ ~WasUsed(r, "broadcast")
AskedInv == \A r \in Requests : call[r] = "accepted" /\ r \notin overlapped => Asked(r)

UseInv == WriterInv /\ EarlierInv /\ LeftInv /\ AloneInv /\ AskedInv

LEMMA AskedKept ==
    ASSUME NEW r \in Requests, copy'[r] = copy[r], earlier'[r] = earlier[r], Asked(r),
           \A p \in earlier[r] : earlier'[p] = earlier[p], raced \subseteq raced'
    PROVE  Asked(r)'
  <1>1. WasUsed(r, "broadcast")' = WasUsed(r, "broadcast")
    BY DEF WasUsed
  <1>2. Sends(r)' = Sends(r) /\ LastSends(r)' = LastSends(r)
    BY DEF Sends, LastSends
  <1>3. \A q : Written(q) \subseteq Written(q)'
    BY DEF Written
  <1>4. ASSUME NEW n \in LastNames(r) PROVE n \in LastNames(r)'
    <2>1. CASE Sends(r) = {}
      BY <1>2, <1>4, <2>1 DEF LastNames
    <2>2. CASE Sends(r) # {}
      <3>1. PICK q \in LastSends(r) : n \in Written(q)
        BY <1>4, <2>2 DEF LastNames
      <3>2. q \in LastSends(r)' /\ n \in Written(q)' /\ Sends(r)' # {}
        BY <1>2, <1>3, <2>2, <3>1
      <3> HIDE DEF Written
      <3> QED
        BY <3>2 DEF LastNames
    <2> QED
      BY <2>1, <2>2
  <1>5. RequestOf[r].op \in {"send", "broadcast", "enable"}
    BY RequestFacts
  <1>6. CASE RequestOf[r].op = "send"
    BY <1>1, <1>6 DEF Asked
  <1>7. CASE RequestOf[r].op = "broadcast"
    BY <1>7 DEF Asked
  <1>8. CASE RequestOf[r].op = "enable"
    <2>1. copy[r].name \in LastNames(r)'
      BY <1>4, <1>8 DEF Asked
    <2> QED
      BY <1>1, <1>8, <2>1 DEF Asked
  <1> QED
    BY <1>5, <1>6, <1>7, <1>8

\* A step that leaves an info's name, and its users' places, alone.
LEMMA NameStays ==
    ASSUME NEW o, NameLeft(o), listener_name'[o] = listener_name[o], raced \subseteq raced',
           Uses(o) \subseteq Uses(o)',
           \A q \in Uses(o) : earlier'[q] = earlier[q] /\ (Named(q)' <=> Named(q)),
           \A q \in Uses(o)' \ Uses(o) : ~Named(q)'
    PROVE  NameLeft(o)'
  <1>1. CASE listener_name[o] = "" /\ \A q \in Uses(o) : ~Named(q)
    <2>1. \A q \in Uses(o)' : ~Named(q)'
      BY <1>1
    <2> QED
      BY <1>1, <2>1 DEF NameLeft
  <1>2. ASSUME NEW q \in Uses(o), Named(q), listener_name[o] \in Written(q),
               \A p \in Uses(o) : Named(p) => q \notin earlier[p]
        PROVE  NameLeft(o)'
    <2>1. q \in Uses(o)' /\ Named(q)'
      BY <1>2
    <2>2. listener_name'[o] \in Written(q)'
      BY <1>2 DEF Written
    <2>3. \A p \in Uses(o)' : Named(p)' => q \notin earlier'[p]
      BY <1>2
    <2> QED
      BY <2>1, <2>2, <2>3 DEF NameLeft
  <1> QED
    BY <1>1, <1>2 DEF NameLeft

\* What a timer's call finds: the name of a last send, or none.
LEMMA LastNameLeft ==
    ASSUME UseInv, NEW r \in Requests, NEW o, NameLeft(o), Uses(o) = earlier[r] \cup {r},
           RequestOf[r].op # "send"
    PROVE  listener_name[o] \in LastNames(r)
  <1>1. ASSUME NEW q PROVE q \in Sends(r) <=> q \in Uses(o) /\ Named(q)
    <2>1. q \in earlier[r] => call[q] # "set_name"
      BY DEF UseInv, EarlierInv
    <2> QED
      BY <2>1 DEF Sends, Named
  <1>2. CASE listener_name[o] = "" /\ \A q \in Uses(o) : ~Named(q)
    <2>1. Sends(r) = {}
      BY <1>1, <1>2
    <2> QED
      BY <1>2, <2>1 DEF LastNames
  <1>3. ASSUME NEW q \in Uses(o), Named(q), listener_name[o] \in Written(q),
               \A p \in Uses(o) : Named(p) => q \notin earlier[p]
        PROVE  listener_name[o] \in LastNames(r)
    <2>1. q \in LastSends(r) /\ Sends(r) # {}
      BY <1>1, <1>3 DEF LastSends
    <2> QED
      BY <1>3, <2>1 DEF LastNames
  <1> QED
    BY <1>2, <1>3 DEF NameLeft

\* The last getter, of a call that was alone.
LEMMA AcceptedAsAsked ==
    ASSUME DataType, UseInv, NEW r \in Requests, getListenerName(r), sender, Alone(r)
    PROVE  Asked(r)'
  <1> DEFINE o == ObjectOf(r)
             n == listener_name[o]
             op == RequestOf[r].op
  <1>1. /\ o \in Objects /\ call[r] = "name" /\ op \in {"send", "broadcast", "enable"}
        /\ UnderWay(o) = {r} /\ Uses(o) = earlier[r] \cup {r}
        /\ copy[r].private = m_bIsPrivateMsg[o] /\ m_bIsPrivateMsg[o] \in {0, 1}
        /\ op = "send" => n = RequestOf[r].name
        /\ earlier'[r] = earlier[r]
    BY RequestFacts DEF UseInv, AloneInv, getListenerName, ReadName, TextGetter, Getter, DataType,
       ObjectOf
  <1>2. writers[o] = {}
    <2>1. \A q \in writers[o] : q \in UnderWay(o) /\ call[q] = "set_name"
      BY <1>1 DEF UseInv, WriterInv, UnderWay, Uses, ObjectOf
    <2> QED
      BY <1>1, <2>1
  <1>3. copy' = [copy EXCEPT ![r].name = n,
                             ![r].private = IF Published(r, n) THEN 0 ELSE @]
    <2>1. Readable(o) = {n}
      BY <1>2 DEF Readable
    <2> QED
      BY <2>1 DEF getListenerName, ObjectOf
  <1>4. /\ copy'[r].name = n
        /\ op = "enable" /\ n = "" => copy'[r].private = 0
        /\ ~(op = "enable" /\ n = "") => copy'[r].private = m_bIsPrivateMsg[o]
    <2>1. copy'[r].name = n
          /\ copy'[r].private = (IF Published(r, n) THEN 0 ELSE m_bIsPrivateMsg[o])
      BY <1>1, <1>3 DEF DataType, CopyRecord
    <2>2. Published(r, n) <=> op = "enable" /\ n = ""
      BY DEF Published
    <2> HIDE DEF n
    <2> QED
      BY <2>1, <2>2, Zenon
  <1>5. /\ m_bIsPrivateMsg[o] = 0 <=> WasUsed(r, "broadcast") \/ op = "broadcast"
        /\ op = "enable" => n \in LastNames(r)
    <2>1. (m_bIsPrivateMsg[o] = 0 <=> IsUsed(o, "broadcast")) /\ NameLeft(o)
      BY <1>1 DEF UseInv, LeftInv
    <2>2. op = "enable" => n \in LastNames(r)
      BY <1>1, <2>1, LastNameLeft
    <2> QED
      BY <1>1, <2>1, <2>2 DEF IsUsed, WasUsed
  <1>6. WasUsed(r, "broadcast")' = WasUsed(r, "broadcast") /\ LastNames(r)' = LastNames(r)
    <2>1. UNCHANGED <<earlier, raced>>
      BY GetterFacts DEF CopyStep, infoVars
    <2> QED
      BY <2>1 DEF WasUsed, LastNames, LastSends, Sends, Written
  <1>8. RequestOf[r].op = op
    OBVIOUS
  <1> HIDE DEF o, n, op
  <1>9. CASE op = "send"
    BY <1>1, <1>4, <1>5, <1>6, <1>8, <1>9 DEF Asked
  <1>10. CASE op = "broadcast"
    <2>1. copy'[r].private = 0
      BY <1>1, <1>4, <1>5, <1>10
    <2> QED
      BY <1>8, <1>10, <2>1 DEF Asked
  <1>11. CASE op = "enable"
    <2>1. (copy'[r].private = 1) <=> (n # "" /\ ~WasUsed(r, "broadcast"))
      <3>1. m_bIsPrivateMsg[o] = 0 <=> WasUsed(r, "broadcast")
        BY <1>5, <1>11, Zenon
      <3>2. m_bIsPrivateMsg[o] = 1 <=> ~WasUsed(r, "broadcast")
        BY <1>1, <3>1
      <3>3. CASE n = ""
        <4>1. copy'[r].private = 0
          BY <1>4, <1>11, <3>3, Zenon
        <4>2. copy'[r].private # 1
          BY <4>1
        <4> QED
          BY <3>3, <4>2, Zenon
      <3>4. CASE n # ""
        <4>1. copy'[r].private = m_bIsPrivateMsg[o]
          BY <1>4, <3>4, Zenon
        <4> QED
          BY <3>2, <3>4, <4>1, Zenon
      <3> QED
        BY <3>3, <3>4
    <2>2. (copy'[r].private = 1) <=> (copy'[r].name # "" /\ ~WasUsed(r, "broadcast")')
      BY <1>4, <1>6, <2>1
    <2>3. copy'[r].name \in LastNames(r)'
      BY <1>4, <1>5, <1>6, <1>11
    <2> QED
      BY <1>8, <1>11, <2>2, <2>3 DEF Asked
  <1> QED
    BY <1>1, <1>9, <1>10, <1>11

\* Which calls use an info, after one call has moved on.
LEMMA UsesMoved ==
    ASSUME NEW r \in Requests, \A q \in Requests \ {r} : call'[q] = call[q], call'[r] # "new"
    PROVE  /\ Uses(ObjectOf(r))' = Uses(ObjectOf(r)) \cup {r}
           /\ call'[r] # "accepted" => UnderWay(ObjectOf(r))' = UnderWay(ObjectOf(r)) \cup {r}
           /\ \A o : o # ObjectOf(r) => Uses(o)' = Uses(o) /\ UnderWay(o)' = UnderWay(o)
  <1>1. Uses(ObjectOf(r))' = Uses(ObjectOf(r)) \cup {r}
    BY DEF Uses, ObjectOf
  <1>2. call'[r] # "accepted" => UnderWay(ObjectOf(r))' = UnderWay(ObjectOf(r)) \cup {r}
    BY <1>1 DEF UnderWay, Uses, ObjectOf
  <1>3. ASSUME NEW o, o # ObjectOf(r) PROVE Uses(o)' = Uses(o) /\ UnderWay(o)' = UnderWay(o)
    <2>1. Uses(o)' = Uses(o)
      BY <1>3 DEF Uses, ObjectOf
    <2>2. \A q \in Uses(o) : q # r
      BY <1>3 DEF Uses, ObjectOf
    <2> QED
      BY <2>1, <2>2 DEF UnderWay, Uses
  <1> QED
    BY <1>1, <1>2, <1>3

\* A call that is alone, and is not the one that moves, has another info.
LEMMA AloneElsewhere ==
    ASSUME UseInv, NEW r \in Requests, NEW q \in Requests \ {r}, Alone(q),
           call[r] \notin {"new", "accepted"}
    PROVE  ObjectOf(q) # ObjectOf(r)
  BY DEF UseInv, AloneInv, UnderWay, Uses, ObjectOf

\* ... and stays alone.
LEMMA AloneKept ==
    ASSUME UseInv, NEW q \in Requests, Alone(q), NEW r \in Requests,
           \A x \in Requests \ {r} : call'[x] = call[x], call'[r] # "new", q # r,
           ObjectOf(q) # ObjectOf(r),
           sender' = sender, copy'[q] = copy[q], earlier'[q] = earlier[q],
           listener_name'[ObjectOf(q)] = listener_name[ObjectOf(q)],
           m_bIsPrivateMsg'[ObjectOf(q)] = m_bIsPrivateMsg[ObjectOf(q)]
    PROVE  /\ UnderWay(ObjectOf(q))' = {q}
           /\ Uses(ObjectOf(q))' = earlier'[q] \cup {q}
           /\ RequestOf[q].op = "send" /\ call'[q] # "set_name" =>
                  listener_name'[ObjectOf(q)] = RequestOf[q].name
           /\ sender' /\ call'[q] \in {"event", "name"} =>
                  copy'[q].private = m_bIsPrivateMsg'[ObjectOf(q)]
  <1>1. Uses(ObjectOf(q))' = Uses(ObjectOf(q)) /\ UnderWay(ObjectOf(q))' = UnderWay(ObjectOf(q))
    BY UsesMoved
  <1>2. call'[q] = call[q]
    OBVIOUS
  <1> QED
    BY <1>1, <1>2 DEF UseInv, AloneInv

-----------------------------------------------------------------------------
(* Every step keeps UseInv: a call begins, ...                             *)

StartFacts(r) ==
    /\ call[r] = "new" /\ call'[r] \in {"set_name", "kind"}
    /\ \A q \in Requests \ {r} : call'[q] = call[q] /\ earlier'[q] = earlier[q]
    /\ earlier'[r] = Uses(ObjectOf(r)) \ UnderWay(ObjectOf(r))
    /\ overlapped' = overlapped \cup UnderWay(ObjectOf(r))
                         \cup (IF UnderWay(ObjectOf(r)) = {} THEN {} ELSE {r})
    /\ UNCHANGED <<listener_name, sender, copy>>
    /\ \A o \in Objects \ {ObjectOf(r)} :
           m_bIsPrivateMsg'[o] = m_bIsPrivateMsg[o] /\ writers'[o] = writers[o]
    /\ call'[r] = "set_name" <=> RequestOf[r].op = "send"
    /\ m_bIsPrivateMsg'[ObjectOf(r)] =
           IF RequestOf[r].op = "broadcast" THEN 0 ELSE m_bIsPrivateMsg[ObjectOf(r)]
    /\ writers'[ObjectOf(r)] = writers[ObjectOf(r)]
                                   \cup (IF call'[r] = "set_name" THEN {r} ELSE {})
    /\ raced \subseteq raced'
    /\ raced' \subseteq raced \cup (IF writers[ObjectOf(r)] = {} THEN {}
                                    ELSE writers[ObjectOf(r)] \cup {r})

LEMMA Starting ==
    ASSUME DataType, NEW r \in Requests,
           SendEvent(r) \/ SendBroadcast(r) \/ EnableSystemTimeEvent(r)
    PROVE  StartFacts(r)
  <1>0. ObjectOf(r) \in Objects /\ ObjectOf(r) = RequestOf[r].object
    BY RequestFacts DEF ObjectOf
  <1>1. ASSUME NEW op, NEW next \in {"set_name", "kind"}, Call(r, op, next)
        PROVE  /\ call[r] = "new" /\ RequestOf[r].op = op /\ call'[r] = next
               /\ \A q \in Requests \ {r} : call'[q] = call[q] /\ earlier'[q] = earlier[q]
               /\ earlier'[r] = Uses(ObjectOf(r)) \ UnderWay(ObjectOf(r))
               /\ overlapped' = overlapped \cup UnderWay(ObjectOf(r))
                                    \cup (IF UnderWay(ObjectOf(r)) = {} THEN {} ELSE {r})
               /\ UNCHANGED <<listener_name, sender, copy>>
    <2>1. call[r] = "new" /\ RequestOf[r].op = op /\ UNCHANGED <<listener_name, sender, copy>>
      BY <1>1 DEF Call
    <2>2. /\ call' = [call EXCEPT ![r] = next]
          /\ earlier' = [earlier EXCEPT ![r] = Uses(ObjectOf(r)) \ UnderWay(ObjectOf(r))]
      BY <1>1 DEF Call, ObjectOf
    <2>3. overlapped' = overlapped \cup UnderWay(ObjectOf(r))
                            \cup (IF UnderWay(ObjectOf(r)) = {} THEN {} ELSE {r})
      BY <1>1 DEF Call, ObjectOf
    <2> QED
      BY <2>1, <2>2, <2>3 DEF DataType
  <1>2. CASE SendEvent(r)
    <2>1. /\ Call(r, "send", "set_name") /\ UNCHANGED m_bIsPrivateMsg
          /\ writers' = [writers EXCEPT ![ObjectOf(r)] = @ \cup {r}]
          /\ raced' = IF writers[ObjectOf(r)] = {} THEN raced
                      ELSE raced \cup writers[ObjectOf(r)] \cup {r}
      BY <1>2, <1>0 DEF SendEvent
    <2>2. /\ \A o \in Objects \ {ObjectOf(r)} : writers'[o] = writers[o]
          /\ writers'[ObjectOf(r)] = writers[ObjectOf(r)] \cup {r}
      BY <2>1, <1>0 DEF DataType
    <2> QED
      BY <2>1, <2>2, <1>1 DEF StartFacts
  <1>3. CASE SendBroadcast(r)
    <2>1. /\ Call(r, "broadcast", "kind") /\ UNCHANGED <<writers, raced>>
          /\ m_bIsPrivateMsg' = [m_bIsPrivateMsg EXCEPT ![ObjectOf(r)] = 0]
      BY <1>3, <1>0 DEF SendBroadcast, setMsgType
    <2>2. /\ \A o \in Objects \ {ObjectOf(r)} : m_bIsPrivateMsg'[o] = m_bIsPrivateMsg[o]
          /\ m_bIsPrivateMsg'[ObjectOf(r)] = 0
      BY <2>1, <1>0 DEF DataType
    <2> QED
      BY <2>1, <2>2, <1>1 DEF StartFacts
  <1>4. CASE EnableSystemTimeEvent(r)
    <2>1. /\ Call(r, "enable", "kind") /\ UNCHANGED <<m_bIsPrivateMsg, writers, raced>>
      BY <1>4 DEF EnableSystemTimeEvent
    <2> QED
      BY <2>1, <1>1 DEF StartFacts
  <1> QED
    BY <1>2, <1>3, <1>4

LEMMA StartKeeps ==
    ASSUME DataType, UseInv, NEW r \in Requests, StartFacts(r)
    PROVE  UseInv'
  <1> DEFINE o == ObjectOf(r)
  <1> USE DEF StartFacts
  <1>0. o \in Objects /\ RequestOf[r].op \in {"send", "broadcast", "enable"}
    BY RequestFacts DEF ObjectOf
  <1>1. /\ Uses(o)' = Uses(o) \cup {r} /\ UnderWay(o)' = UnderWay(o) \cup {r}
        /\ \A x : x # o => Uses(x)' = Uses(x) /\ UnderWay(x)' = UnderWay(x)
    BY UsesMoved
  <1>2. r \notin Uses(o) /\ \A x \in Objects : r \notin Uses(x)
    BY DEF Uses
  <1>3. WriterInv'
    <2>1. ASSUME NEW x \in Objects
          PROVE  writers'[x] = {q \in Requests : ObjectOf(q) = x /\ call'[q] = "set_name"}
      <3>1. writers[x] = {q \in Requests : ObjectOf(q) = x /\ call[q] = "set_name"}
        BY DEF UseInv, WriterInv
      <3>2. CASE x # o
        BY <3>1, <3>2
      <3>3. CASE x = o
        BY <3>1, <3>3
      <3> QED
        BY <3>2, <3>3
    <2>2. raced' \subseteq overlapped'
      <3>1. writers[o] \subseteq UnderWay(o)
        BY <1>0 DEF UseInv, WriterInv, UnderWay, Uses, ObjectOf
      <3> QED
        BY <3>1 DEF UseInv, WriterInv
    <2>3. \A q \in Requests : call'[q] = "set_name" => RequestOf[q].op = "send"
      BY DEF UseInv, WriterInv
    <2>4. \A q \in Requests : ObjectOf(q)' = ObjectOf(q)
      BY DEF ObjectOf
    <2> QED
      BY <2>1, <2>2, <2>3, <2>4 DEF WriterInv
  <1>e. EarlierInv'
    <2>1. ASSUME NEW p \in Requests, NEW q \in earlier'[p] PROVE call'[q] = "accepted"
      <3>1. q \in Requests /\ call[q] = "accepted"
        <4>1. CASE p = r
          BY <2>1, <4>1 DEF Uses, UnderWay
        <4>2. CASE p # r
          BY <2>1, <4>2 DEF UseInv, EarlierInv, DataType
        <4> QED
          BY <4>1, <4>2
      <3> QED
        BY <3>1
    <2> QED
      BY <2>1 DEF EarlierInv
  <1>4. LeftInv'
    <2>1. ASSUME NEW x \in Objects PROVE m_bIsPrivateMsg'[x] = 0 <=> IsUsed(x, "broadcast")'
      <3>1. m_bIsPrivateMsg[x] = 0 <=> IsUsed(x, "broadcast")
        BY DEF UseInv, LeftInv
      <3>2. CASE x # o
        BY <1>1, <3>1, <3>2 DEF IsUsed
      <3>3. CASE x = o
        BY <1>1, <3>1, <3>3 DEF IsUsed
      <3> QED
        BY <3>2, <3>3
    <2>2. ASSUME NEW x \in Objects PROVE NameLeft(x)'
      <3>1. NameLeft(x) /\ \A q \in Uses(x) : q \in Requests \ {r}
        BY <1>2 DEF UseInv, LeftInv, Uses
      <3>2. \A q \in Uses(x) : earlier'[q] = earlier[q] /\ (Named(q)' <=> Named(q))
        BY <3>1 DEF Named
      <3>3. ~Named(r)'
        BY DEF Named
      <3>4. Uses(x) \subseteq Uses(x)' /\ Uses(x)' \ Uses(x) \subseteq {r}
        BY <1>1
      <3> QED
        BY <3>1, <3>2, <3>3, <3>4, NameStays
    <2> QED
      BY <2>1, <2>2 DEF LeftInv
  <1>5. AloneInv'
    <2> SUFFICES ASSUME NEW q \in Requests, Alone(q)'
                 PROVE  /\ UnderWay(ObjectOf(q))' = {q}
                        /\ Uses(ObjectOf(q))' = earlier'[q] \cup {q}
                        /\ RequestOf[q].op = "send" /\ call'[q] # "set_name" =>
                               listener_name'[ObjectOf(q)] = RequestOf[q].name
                        /\ sender' /\ call'[q] \in {"event", "name"} =>
                               copy'[q].private = m_bIsPrivateMsg'[ObjectOf(q)]
      BY DEF AloneInv, ObjectOf
    <2>1. CASE q = r
      <3>1. UnderWay(o) = {}
        BY <2>1 DEF Alone
      <3> QED
        BY <1>1, <2>1, <3>1
    <2>2. CASE q # r
      <3>1. Alone(q) /\ q \notin UnderWay(o)
        BY <2>2 DEF Alone
      <3>2. ObjectOf(q) # o /\ ObjectOf(q) \in Objects
        BY <3>1, RequestFacts DEF Alone, UnderWay, Uses, ObjectOf
      <3> QED
        BY <2>2, <3>1, <3>2, AloneKept
    <2> QED
      BY <2>1, <2>2
  <1>6. AskedInv'
    <2>1. ASSUME NEW q \in Requests, call'[q] = "accepted", q \notin overlapped'
          PROVE  Asked(q)'
      <3>1. q # r /\ call[q] = "accepted" /\ q \notin overlapped /\ copy'[q] = copy[q]
            /\ earlier'[q] = earlier[q] /\ earlier[q] \subseteq Requests
        BY <2>1 DEF DataType
      <3>2. \A p \in earlier[q] : p # r /\ earlier'[p] = earlier[p]
        BY <3>1 DEF UseInv, EarlierInv
      <3> QED
        BY <3>1, <3>2, AskedKept DEF UseInv, AskedInv
    <2> QED
      BY <2>1 DEF AskedInv
  <1> QED
    BY <1>3, <1>e, <1>4, <1>5, <1>6 DEF UseInv

-----------------------------------------------------------------------------
(* ... writes its info's name, ...                                         *)

LEMMA NameKeeps ==
    ASSUME DataType, UseInv, NEW r \in Requests, setListenerName(r)
    PROVE  UseInv'
  <1> DEFINE o == ObjectOf(r)
  <1>0. o \in Objects /\ o = RequestOf[r].object
    BY RequestFacts DEF ObjectOf
  <1>1. /\ call[r] = "set_name" /\ call' = [call EXCEPT ![r] = "kind"]
        /\ writers' = [writers EXCEPT ![o] = @ \ {r}]
        /\ UNCHANGED <<m_bIsPrivateMsg, raced, sender, copy, earlier, overlapped>>
    BY <1>0 DEF setListenerName
  <1>2. PICK n \in Written(r) : listener_name' = [listener_name EXCEPT ![o] = n]
    BY <1>0 DEF setListenerName
  <1>3. r \notin overlapped => n = RequestOf[r].name
    BY DEF UseInv, WriterInv, Written
  <1>4. /\ call'[r] = "kind" /\ \A q \in Requests \ {r} : call'[q] = call[q]
        /\ listener_name'[o] = n /\ writers'[o] = writers[o] \ {r}
        /\ \A x \in Objects \ {o} : listener_name'[x] = listener_name[x] /\ writers'[x] = writers[x]
    BY <1>0, <1>1, <1>2 DEF DataType
  <1>5. r \in Uses(o) /\ r \in UnderWay(o) /\ RequestOf[r].op = "send"
    BY <1>1 DEF Uses, UnderWay, ObjectOf, UseInv, WriterInv
  <1>6. \A x : Uses(x)' = Uses(x) /\ UnderWay(x)' = UnderWay(x)
    BY <1>4, <1>5, UsesMoved
  <1> HIDE DEF o
  <1>7. WriterInv'
    <2>1. ASSUME NEW x \in Objects
          PROVE  writers'[x] = {q \in Requests : ObjectOf(q) = x /\ call'[q] = "set_name"}
      <3>1. writers[x] = {q \in Requests : ObjectOf(q) = x /\ call[q] = "set_name"}
        BY DEF UseInv, WriterInv
      <3>2. CASE x # o
        BY <1>4, <3>1, <3>2 DEF o
      <3>3. CASE x = o
        BY <1>4, <3>1, <3>3
      <3> QED
        BY <3>2, <3>3
    <2>2. raced' \subseteq overlapped' /\ \A q \in Requests : ObjectOf(q)' = ObjectOf(q)
      BY <1>1 DEF UseInv, WriterInv, ObjectOf
    <2>3. \A q \in Requests : call'[q] = "set_name" => RequestOf[q].op = "send"
      BY <1>4 DEF UseInv, WriterInv
    <2> QED
      BY <2>1, <2>2, <2>3 DEF WriterInv
  <1>e. EarlierInv'
    BY <1>1, <1>4 DEF UseInv, EarlierInv, DataType
  <1>8. LeftInv'
    <2>1. ASSUME NEW x \in Objects PROVE m_bIsPrivateMsg'[x] = 0 <=> IsUsed(x, "broadcast")'
      BY <1>1, <1>6 DEF UseInv, LeftInv, IsUsed
    <2>2. ASSUME NEW x \in Objects PROVE NameLeft(x)'
      <3>1. NameLeft(x) /\ \A q \in Uses(x) : q \in Requests
        BY DEF UseInv, LeftInv, Uses
      <3>2. CASE x # o
        <4>1. \A q \in Uses(x) : call'[q] = call[q]
          BY <1>4, <3>2 DEF Uses, ObjectOf, o
        <4>2. \A q \in Uses(x) : earlier'[q] = earlier[q] /\ (Named(q)' <=> Named(q))
          BY <1>1, <4>1 DEF Named
        <4>3. Uses(x)' = Uses(x) /\ listener_name'[x] = listener_name[x] /\ raced' = raced
          BY <1>1, <1>4, <1>6, <3>2
        <4> QED
          BY <3>1, <4>2, <4>3, NameStays
      <3>3. CASE x = o
        <4>1. listener_name'[o] \in Written(r)'
          BY <1>1, <1>4 DEF Written
        <4>2. r \in Uses(o)' /\ Named(r)'
          BY <1>4, <1>5, <1>6 DEF Named
        <4>3. \A p \in Uses(o)' : r \notin earlier'[p]
          BY <1>1, <1>6, <3>1, <3>3 DEF UseInv, EarlierInv
        <4> QED
          BY <3>3, <4>1, <4>2, <4>3 DEF NameLeft
      <3> QED
        BY <3>2, <3>3
    <2> QED
      BY <2>1, <2>2 DEF LeftInv
  <1>9. AloneInv'
    <2> SUFFICES ASSUME NEW q \in Requests, Alone(q)'
                 PROVE  /\ UnderWay(ObjectOf(q))' = {q}
                        /\ Uses(ObjectOf(q))' = earlier'[q] \cup {q}
                        /\ RequestOf[q].op = "send" /\ call'[q] # "set_name" =>
                               listener_name'[ObjectOf(q)] = RequestOf[q].name
                        /\ sender' /\ call'[q] \in {"event", "name"} =>
                               copy'[q].private = m_bIsPrivateMsg'[ObjectOf(q)]
      BY DEF AloneInv, ObjectOf
    <2>1. Alone(q)
      BY <1>1, <1>4 DEF Alone
    <2>2. CASE q = r
      <3>1. r \notin overlapped /\ listener_name'[o] = RequestOf[r].name
        BY <1>3, <1>4, <2>1, <2>2 DEF Alone
      <3> QED
        BY <1>1, <1>4, <1>6, <2>1, <2>2, <3>1 DEF UseInv, AloneInv, o
    <2>3. CASE q # r
      <3>1. ObjectOf(q) # ObjectOf(r) /\ ObjectOf(q) \in Objects
        BY <1>1, <2>1, <2>3, AloneElsewhere, RequestFacts DEF ObjectOf
      <3> QED
        BY <1>1, <1>4, <2>1, <2>3, <3>1, AloneKept DEF o
    <2> QED
      BY <2>2, <2>3
  <1>10. AskedInv'
    BY <1>1, <1>4, AskedKept DEF UseInv, AskedInv
  <1> QED
    BY <1>7, <1>e, <1>8, <1>9, <1>10 DEF UseInv

-----------------------------------------------------------------------------
(* ... and the service copies it.                                          *)

LEMMA CopyUses ==
    ASSUME DataType, UseInv, NEW r \in Requests, CopyStep(r)
    PROVE  /\ call[r] \notin {"new", "set_name", "accepted"} /\ call'[r] \notin {"new", "set_name"}
           /\ call'[r] = "accepted" => sender /\ getListenerName(r)
           /\ sender /\ call'[r] \in {"event", "name"} =>
                  \/ copy'[r].private = m_bIsPrivateMsg[ObjectOf(r)]
                  \/ call[r] \in {"event", "name"} /\ copy'[r].private = copy[r].private
  <1> USE DEF Getter, TextGetter, DataType, CopyRecord
  <1>1. CASE getInfoType(r)
    BY <1>1 DEF getInfoType
  <1>2. CASE getStringLength(r)
    BY <1>2 DEF getStringLength
  <1>3. CASE getString(r)
    BY <1>3 DEF getString
  <1>4. CASE getU32Number(r)
    BY <1>4 DEF getU32Number
  <1>5. CASE getMsgType(r)
    BY <1>5 DEF getMsgType, Int32, ObjectOf
  <1>6. CASE getEventType(r)
    BY <1>6 DEF getEventType
  <1>7. CASE getListenerName(r)
    BY <1>7 DEF getListenerName, ReadName
  <1> QED
    BY <1>1, <1>2, <1>3, <1>4, <1>5, <1>6, <1>7 DEF CopyStep

LEMMA CopyKeeps ==
    ASSUME DataType, UseInv, NEW r \in Requests, CopyStep(r)
    PROVE  UseInv'
  <1> DEFINE o == ObjectOf(r)
  <1>1. /\ \A q \in Requests \ {r} : call'[q] = call[q] /\ copy'[q] = copy[q]
        /\ UNCHANGED <<infoVars, sender, earlier, overlapped>>
    BY GetterFacts, CopyTypes
  <1>2. UNCHANGED <<listener_name, m_bIsPrivateMsg, writers, raced>>
    BY <1>1 DEF infoVars
  <1>3. /\ call[r] \notin {"new", "set_name", "accepted"} /\ call'[r] \notin {"new", "set_name"}
        /\ call'[r] = "accepted" => sender /\ getListenerName(r)
    BY CopyUses
  <1>4. r \in Uses(o) /\ r \in UnderWay(o)
    BY <1>3 DEF Uses, UnderWay, ObjectOf
  <1>5. /\ \A x : Uses(x)' = Uses(x)
        /\ call'[r] # "accepted" => UnderWay(o)' = UnderWay(o)
    BY <1>1, <1>3, <1>4, UsesMoved
  <1>6. WriterInv'
    <2>1. \A q \in Requests : /\ call'[q] = "set_name" <=> call[q] = "set_name"
                              /\ ObjectOf(q)' = ObjectOf(q)
      BY <1>1, <1>3 DEF ObjectOf
    <2> QED
      BY <1>1, <1>2, <2>1 DEF UseInv, WriterInv
  <1>e. EarlierInv'
    BY <1>1, <1>3 DEF UseInv, EarlierInv, DataType
  <1>7. LeftInv'
    <2>1. ASSUME NEW x \in Objects PROVE m_bIsPrivateMsg'[x] = 0 <=> IsUsed(x, "broadcast")'
      BY <1>2, <1>5 DEF UseInv, LeftInv, IsUsed
    <2>2. ASSUME NEW x \in Objects PROVE NameLeft(x)'
      <3>1. NameLeft(x) /\ \A q \in Uses(x) : Named(q)' <=> Named(q)
        BY <1>1, <1>3 DEF UseInv, LeftInv, Uses, Named
      <3> QED
        BY <1>1, <1>2, <1>5, <3>1, NameStays
    <2> QED
      BY <2>1, <2>2 DEF LeftInv
  <1>8. AloneInv'
    <2> SUFFICES ASSUME NEW q \in Requests, Alone(q)'
                 PROVE  /\ UnderWay(ObjectOf(q))' = {q}
                        /\ Uses(ObjectOf(q))' = earlier'[q] \cup {q}
                        /\ RequestOf[q].op = "send" /\ call'[q] # "set_name" =>
                               listener_name'[ObjectOf(q)] = RequestOf[q].name
                        /\ sender' /\ call'[q] \in {"event", "name"} =>
                               copy'[q].private = m_bIsPrivateMsg'[ObjectOf(q)]
      BY DEF AloneInv, ObjectOf
    <2>1. Alone(q)
      BY <1>1, <1>3 DEF Alone
    <2>2. CASE q = r
      <3>1. call'[r] # "accepted"
        BY <2>2 DEF Alone
      <3>2. /\ UnderWay(o)' = {r} /\ Uses(o)' = earlier'[r] \cup {r}
            /\ RequestOf[r].op = "send" => listener_name'[o] = RequestOf[r].name
        BY <1>1, <1>2, <1>3, <1>5, <2>1, <2>2, <3>1 DEF UseInv, AloneInv
      <3>3. sender' /\ call'[r] \in {"event", "name"} => copy'[r].private = m_bIsPrivateMsg'[o]
        BY <1>1, <1>2, <2>1, <2>2, CopyUses DEF UseInv, AloneInv
      <3> QED
        BY <2>2, <3>2, <3>3
    <2>3. CASE q # r
      <3>1. ObjectOf(q) # ObjectOf(r)
        BY <1>3, <2>1, <2>3, AloneElsewhere
      <3> QED
        BY <1>1, <1>2, <1>3, <2>1, <2>3, <3>1, AloneKept
    <2> QED
      BY <2>2, <2>3
  <1>9. AskedInv'
    <2>1. ASSUME NEW q \in Requests, call'[q] = "accepted", q \notin overlapped'
          PROVE  Asked(q)'
      <3>1. CASE q = r
        <4>1. Alone(r)
          BY <1>1, <1>3, <2>1, <3>1 DEF Alone
        <4> QED
          BY <1>3, <2>1, <3>1, <4>1, AcceptedAsAsked
      <3>2. CASE q # r
        BY <1>1, <1>2, <2>1, <3>2, AskedKept DEF UseInv, AskedInv
      <3> QED
        BY <3>1, <3>2
    <2> QED
      BY <2>1 DEF AskedInv
  <1> QED
    BY <1>6, <1>e, <1>7, <1>8, <1>9 DEF UseInv

LEMMA UseInit == Init => UseInv
  <1> SUFFICES ASSUME Init PROVE UseInv
    OBVIOUS
  <1>1. \A r \in Requests : call[r] = "new"
    BY DEF Init
  <1>2. \A o : Uses(o) = {}
    BY <1>1 DEF Uses
  <1>3. WriterInv
    BY <1>1 DEF Init, WriterInv
  <1>4. LeftInv
    <2>1. ASSUME NEW o \in Objects PROVE m_bIsPrivateMsg[o] = 1 /\ listener_name[o] = ""
      BY DEF Init
    <2>2. ASSUME NEW o \in Objects PROVE m_bIsPrivateMsg[o] = 0 <=> IsUsed(o, "broadcast")
      <3>1. ~IsUsed(o, "broadcast")
        BY <1>2, Zenon DEF IsUsed
      <3>2. m_bIsPrivateMsg[o] # 0
        <4>1. m_bIsPrivateMsg[o] = 1
          BY <2>1, Zenon
        <4> QED
          BY <4>1
      <3> QED
        BY <3>1, <3>2, Zenon
    <2>3. ASSUME NEW o \in Objects PROVE NameLeft(o)
      BY <1>2, <2>1 DEF NameLeft
    <2> QED
      BY <2>2, <2>3 DEF LeftInv
  <1>5. AloneInv /\ AskedInv
    BY <1>1 DEF AloneInv, AskedInv, Alone
  <1>6. EarlierInv
    BY DEF Init, EarlierInv
  <1> QED
    BY <1>3, <1>4, <1>5, <1>6 DEF UseInv

LEMMA UseStep == DataType /\ UseInv /\ [Next]_vars => UseInv'
  <1> SUFFICES ASSUME DataType, UseInv, [Next]_vars PROVE UseInv'
    OBVIOUS
  <1>1. ASSUME NEW r \in Requests, CallStep(r) PROVE UseInv'
    BY <1>1, Starting, StartKeeps, NameKeeps DEF CallStep
  <1>2. ASSUME NEW r \in Requests, CopyStep(r) PROVE UseInv'
    BY <1>2, CopyKeeps
  <1>3. ASSUME UNCHANGED <<infoVars, callVars>>, sender' => sender PROVE UseInv'
    <2> USE <1>3 DEF infoVars, callVars
    <2>1. /\ \A o : Uses(o)' = Uses(o) /\ UnderWay(o)' = UnderWay(o)
          /\ \A r : ObjectOf(r)' = ObjectOf(r) /\ Alone(r)' = Alone(r)
      BY DEF Uses, UnderWay, ObjectOf, Alone
    <2>2. WriterInv'
      BY <2>1 DEF UseInv, WriterInv
    <2>3. LeftInv' /\ EarlierInv'
      BY <2>1 DEF UseInv, LeftInv, EarlierInv, NameLeft, Named, Written, IsUsed
    <2>4. AloneInv'
      BY <2>1 DEF UseInv, AloneInv
    <2>5. AskedInv'
      BY AskedKept DEF UseInv, AskedInv
    <2> QED
      BY <2>2, <2>3, <2>4, <2>5 DEF UseInv
  <1>4. ASSUME \/ \E r \in Requests : StartDelivery(r)
               \/ AskStep \/ EndDelivery \/ SenderDies \/ ServiceDies \/ UNCHANGED vars
        PROVE  UNCHANGED <<infoVars, callVars>> /\ (sender' => sender)
    BY <1>4, AskFacts DEF StartDelivery, EndDelivery, SenderDies, ServiceDies, vars
  <1> QED
    BY <1>1, <1>2, <1>3, <1>4 DEF Next

\* However often and by whichever calls an info is used again, a call that meets
\* no other one with its info goes where it asked: a send to its own name, alone
\* unless the info has once been broadcast; a broadcast to all; a timer's info to
\* a name the last send wrote (whichever it was, if several overlapped), and to
\* all if there is no such name or the info has once been broadcast.
THEOREM CallsGoWhereTheyAsked == Spec => []AsAsked
  <1>1. UseInv => AsAsked
    BY DEF UseInv, AskedInv, Asked, AsAsked
  <1>2. TransferInv => DataType
    BY DEF TransferInv
  <1> QED
    BY <1>1, <1>2, UseInit, UseStep, TransferInvariant, PTL DEF Spec
=============================================================================
