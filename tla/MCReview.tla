------------------------------- MODULE MCReview -------------------------------
(* An instance of ReviewCheckpoints for TLC: a process that is killed and begun     *)
(* again reviews two batches; the current call names one file, and an earlier call  *)
(* of the first batch another one.                                                  *)
EXTENDS ReviewCheckpoints

CONSTANTS own, other

MCReach == [b \in Batches |-> IF b = 1 THEN {own, other} ELSE {own}]
===============================================================================
