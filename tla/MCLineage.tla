------------------------------- MODULE MCLineage -------------------------------
(* An instance of EventLineage for TLC: call a1 of one session writes the file, at any  *)
(* time relative to the calls of the other session, of which b1 rewrites it and b2      *)
(* reads it, one after the other.                                                       *)
EXTENDS EventLineage

CONSTANTS a1, b1, b2

MCSession  == [x \in Calls |-> IF x = a1 THEN "A" ELSE "B"]
MCDeclares == [x \in Calls |->
    CASE x = a1 -> {"write"} [] x = b1 -> {"read", "write"} [] x = b2 -> {"read"}]
===============================================================================
