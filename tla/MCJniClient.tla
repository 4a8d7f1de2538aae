---------------------------- MODULE MCJniClient ----------------------------
(* Values of JniClient's constants for TLC: a and b have one name, c another. *)
EXTENDS JniClient
MCNameOf == [a |-> "x", b |-> "x", c |-> "y"]
MCListeners == DOMAIN MCNameOf
=============================================================================
