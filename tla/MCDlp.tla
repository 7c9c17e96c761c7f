--------------------------------- MODULE MCDlp ---------------------------------
(* Instances of DlpIndex for TLC: every content of a source can be indexed, but *)
(* the last of s2, and the payloads hold spans of an older and a newer content. *)
EXTENDS DlpIndex

CONSTANTS i1, i2, s1, s2

MCDistinctive == (Sources \X Contents) \ {<<s2, MaxContent>>}
MCHolds == {<<i1, s1, 0>>, <<i1, s1, 1>>, <<i2, s1, 1>>, <<i1, s2, 0>>}
               \cap (Inspectors \X Sources \X Contents)
===============================================================================
