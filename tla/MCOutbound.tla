------------------------------- MODULE MCOutbound -------------------------------
(* Instances of OutboundDecision for TLC: a call whose first version holds a   *)
(* span of the edited content of either source and whose second version is     *)
(* derived from s1.  The first content of s2 is empty.                         *)
EXTENDS OutboundDecision

CONSTANTS s1, s2

MCDerived     == {<<1, s1>>}
MCCopies      == {<<0, s1, 1>>, <<0, s2, 1>>}
MCDistinctive == {<<s1, 0>>, <<s1, 1>>, <<s2, 1>>}
===============================================================================
