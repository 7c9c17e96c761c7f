----------------------------- MODULE ProtectedFiles -----------------------------
(***************************************************************************)
(* The protected resources of a workspace and their contents, as the       *)
(* evaluations see them: what OutboundDecision and DlpIndex have in        *)
(* common.                                                                 *)
(***************************************************************************)
EXTENDS Naturals

CONSTANTS
    Sources,        \* protected resources that may be registered
    MaxContent,     \* bound: edits of each protected file
    Distinctive     \* <<s, n>>: content n of s has a span that can be indexed

Contents == 0 .. MaxContent

ASSUME ContentAssumption == MaxContent \in Nat
ASSUME DistinctiveAssumption == Distinctive \subseteq Sources \X Contents

VARIABLE
    content         \* current content of each protected file
===============================================================================
