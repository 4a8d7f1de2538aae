---------------------------- MODULE EventMailbox ----------------------------
(***************************************************************************)
(* What the event service promises for its normal events, with no thread,  *)
(* lock or libevent in sight: an accepted event waits in the inbox, every  *)
(* event type serves one event at a time, and serving an event means       *)
(* handing it to the listeners exactly once.  The order in which the       *)
(* events of one type are served is left open on purpose: EventDispatch    *)
(* can reorder them (see BoundedOvertaking there).                         *)
(***************************************************************************)
EXTENDS Naturals

CONSTANTS
    Mail,       \* the events that may be sent
    MailType,   \* the type of each event
    NoMail      \* "nothing is being served"

VARIABLES
    inbox,      \* accepted events nobody serves yet
    serving,    \* per event type, the event being served
    served      \* events handed to the listeners

mailVars == <<inbox, serving, served>>

MailTypes == {MailType[m] : m \in Mail}

Busy(m) == serving[MailType[m]] = m

MailInit ==
    /\ inbox = {}
    /\ serving = [t \in MailTypes |-> NoMail]
    /\ served = {}

Accept(m) ==
    /\ m \notin inbox \cup served
    /\ ~Busy(m)
    /\ inbox' = inbox \cup {m}
    /\ UNCHANGED <<serving, served>>

Serve(m) ==
    /\ m \in inbox
    /\ serving[MailType[m]] = NoMail
    /\ inbox' = inbox \ {m}
    /\ serving' = [serving EXCEPT ![MailType[m]] = m]
    /\ UNCHANGED served

HandOver(m) ==
    /\ Busy(m)
    /\ m \notin served
    /\ served' = served \cup {m}
    /\ UNCHANGED <<inbox, serving>>

Release(m) ==
    /\ Busy(m)
    /\ m \in served
    /\ serving' = [serving EXCEPT ![MailType[m]] = NoMail]
    /\ UNCHANGED <<inbox, served>>

MailNext == \E m \in Mail : Accept(m) \/ Serve(m) \/ HandOver(m) \/ Release(m)

MailSpec == MailInit /\ [][MailNext]_mailVars
=============================================================================
