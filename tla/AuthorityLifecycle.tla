-------------------------- MODULE AuthorityLifecycle --------------------------
(***************************************************************************)
(* What the administrator's on/off switch of a project promises, without   *)
(* files, locks or retries.  A project is absent (never enrolled), active, *)
(* deactivating or inactive.  Work is admitted only while it is active,    *)
(* and it becomes inactive only when the admitted work has left.           *)
(***************************************************************************)
EXTENDS Naturals

CONSTANTS Clients      \* Hook invocations and background workers

VARIABLES
    phase,             \* lifecycle phase of the project
    generation,        \* identity of the current generation, 0 when absent
    admitted           \* clients working under the current generation

vars == <<phase, generation, admitted>>

Phases == {"absent", "active", "deactivating", "inactive"}

Init ==
    /\ phase = "absent"
    /\ generation = 0
    /\ admitted = {}

Admit(c) ==
    /\ phase = "active"
    /\ c \notin admitted
    /\ admitted' = admitted \cup {c}
    /\ UNCHANGED <<phase, generation>>

Leave(c) ==
    /\ c \in admitted
    /\ admitted' = admitted \ {c}
    /\ UNCHANGED <<phase, generation>>

\* A new generation starts with nobody working under an old one.
Start ==
    /\ phase \in {"absent", "inactive"}
    /\ admitted = {}
    /\ phase' = "active"
    /\ generation' > generation
    /\ UNCHANGED admitted

BeginStop ==
    /\ phase = "active"
    /\ phase' = "deactivating"
    /\ generation' > generation
    /\ UNCHANGED admitted

\* Completing a stop confirms the generation that began it.
CompleteStop ==
    /\ phase = "deactivating"
    /\ admitted = {}
    /\ phase' = "inactive"
    /\ UNCHANGED <<generation, admitted>>

Next ==
    \/ \E c \in Clients : Admit(c) \/ Leave(c)
    \/ Start
    \/ BeginStop
    \/ CompleteStop

Spec == Init /\ [][Next]_vars
===============================================================================
