-------------------------- MODULE MCInfoTransfer --------------------------
(* Values of InfoTransfer's constants for TLC: an info a native process sends
   to two names and to none, broadcasts or starts a timer with, and an info that Java
   sends: its event does not fit in a U8, its number is negative. *)
EXTENDS InfoTransfer

CONSTANT Text

Req(op, o, n) == [op |-> op, object |-> o, name |-> n]
MCRequestOf == [x |-> Req("send", "o", "x"), y |-> Req("send", "o", "y"),
                b |-> Req("broadcast", "o", "none"), e |-> Req("enable", "o", "none"),
                z |-> Req("send", "o", ""),
                j |-> Req("send", "n", "x"), t |-> Req("send", "s", "x")]
MCRequests == DOMAIN MCRequestOf
MCInfoOf == [o |-> [kind |-> 3, event |-> 1, content |-> 0],
             n |-> [kind |-> 1, event |-> 5, content |-> -1],
             s |-> [kind |-> 2, event |-> 2, content |-> Text]]
MCObjects == DOMAIN MCInfoOf
=============================================================================
