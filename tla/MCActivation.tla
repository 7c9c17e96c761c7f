------------------------------ MODULE MCActivation ------------------------------
(* An instance of Activation for TLC: two projects, one inside the other's      *)
(* directory without a repository of its own, and an independent one.           *)
EXTENDS Activation, TLC

CONSTANTS outer, inner, other

MCEnclosing == [r \in Roots |-> IF r = inner THEN <<inner, outer>> ELSE <<r>>]

\* Setup processes are interchangeable.
Symmetry == Permutations(Setups)
================================================================================
