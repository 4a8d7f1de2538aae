------------------------- MODULE MCListenerRegistry -------------------------
(* Values of ListenerRegistry's constants for TLC: two events, listeners of
   two processes, and the calls and infos of a run. *)
EXTENDS ListenerRegistry

\* l1 and l3, in different processes, have the same name.
MCNameOf == [l1 |-> "x", l2 |-> "y", l3 |-> "x"]
MCProcessOf == [l1 |-> "p1", l2 |-> "p2", l3 |-> "p2"]
MCListeners == DOMAIN MCNameOf
MCProcesses == {"p1", "p2"}

\* Two listeners of one process.
LiveNameOf == [l1 |-> "x", l2 |-> "y"]
OneProcessOf == [l1 |-> "p1", l2 |-> "p1"]
LiveListeners == DOMAIN LiveNameOf

Reg(e, l) == [op |-> "register", event |-> e, listener |-> l]
Unreg(e, l) == [op |-> "unregister", event |-> e, listener |-> l]
MCCallOf == [r1 |-> Reg(1, "l1"), r2 |-> Reg(1, "l2"), r3 |-> Reg(1, "l3"),
             r4 |-> Reg(0, "l2"), u1 |-> Unreg(1, "l1"),
             o1 |-> Reg(2, "l1"), o2 |-> Unreg(3, "l2")]
MCCalls == DOMAIN MCCallOf

Info(e, n) == [event |-> e, name |-> n]
MCPostOf == [b |-> Info(1, NULL), x |-> Info(1, "x")]
MCPosts == DOMAIN MCPostOf
=============================================================================
