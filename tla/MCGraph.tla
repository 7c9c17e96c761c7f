-------------------------------- MODULE MCGraph --------------------------------
(* An instance of PropertyGraph for TLC: call 1 of one session writes a file    *)
(* that call 2 of another session reads; call 3 of that session depends on the  *)
(* output of call 2, and call 4 on the outputs of both.  The review of the      *)
(* first call may be incomplete.                                                *)
EXTENDS PropertyGraph

CONSTANTS s1

MCSession  == [c \in Calls |-> IF c = 1 THEN "B" ELSE "A"]
MCProduced == {<<1, 2>>}

answer(complete, reads, whole, part) ==
    [complete |-> complete, reads |-> reads, whole |-> whole, part |-> part]

MCVerdicts == [c \in Calls |->
    CASE c = 1 -> {answer(TRUE, {s1}, {}, {}), answer(FALSE, {}, {}, {})}
      [] c = 2 -> {answer(TRUE, {}, {}, {1})}
      [] c = 3 -> {answer(TRUE, {}, {2}, {})}
      [] c = 4 -> {answer(TRUE, {}, {2, 3}, {})}]
===============================================================================
