---------------------------- MODULE OutboundDecision ----------------------------
(***************************************************************************)
(* One evaluation of a PreToolUse event: _process_once() of                *)
(* engine/runtime.py and inspect_and_decide() of engine/inspection.py,     *)
(* with the exact-content inspection of engine/dlp.py, the positive        *)
(* shortcut of engine/fast_path.py and the final transaction of            *)
(* engine/property_graph.py.                                               *)
(*                                                                         *)
(* The evaluation takes minutes (it waits for models) and no lock keeps    *)
(* the world still meanwhile: sources are registered, protected files and  *)
(* the files to be sent are edited.  Every read of the world is a step.    *)
(* A check over several files is one step: a fingerprint never returns to  *)
(* an earlier value, so a check that passes file by file also passes for   *)
(* all of them at its first read.                                          *)
(***************************************************************************)
EXTENDS ProtectedFiles

CONSTANTS
    MaxPayload,     \* bound: the last version of what is to be sent
    Derived,        \* <<v, s>>: the provenance of version v reaches source s
    Copies          \* <<v, s, n>>: v holds an exact span of content n of s

Versions == 0 .. MaxPayload

ASSUME BoundsAssumption == MaxPayload \in Nat
ASSUME RelationsAssumption ==
    /\ Derived \subseteq Versions \X Sources
    /\ Copies \subseteq Versions \X Sources \X Contents
    /\ \A copy \in Copies : <<copy[2], copy[3]>> \in Distinctive

VARIABLES
    registered,     \* protected_sources of the workspace
    payload,        \* current version of what the call would send
    kind,           \* what the payload is identified by
    pc,             \* where the evaluation is
    sources,        \* the policy that is inspected
    snapshot,       \* version that was resolved, or Unresolved
    inspected,      \* content of each source that was indexed, or Unread
    matches,        \* sources with an exact span in the snapshot
    stable,         \* the policy had not changed after the comparison
    dlpIssues,      \* the inspection of contents had issues
    issues,         \* the reasons not to allow, if any
    verdict,        \* result of the graph
    outcome,        \* result of the evaluation
    decided         \* history: the world at the final graph transaction

world == <<registered, content, payload, kind>>
evaluation == <<pc, sources, snapshot, inspected, matches, stable, dlpIssues,
                issues, verdict, outcome, decided>>
vars == <<world, evaluation>>

-------------------------------------------------------------------------------
(* Data *)

Unresolved == MaxPayload + 1
Unread     == MaxContent + 1
Nowhere    == [registered |-> {}, content |-> [s \in Sources |-> Unread],
               payload |-> Unresolved]

\* A file is identified by a fingerprint that holds its change time.  The commit
\* of a repository is named by a revision that may move away and back.
Kinds == {"file", "repository"}

Inspecting == {"index", "compare", "recheckSources", "recheckPayload", "policy",
               "match", "fast", "fastCheck"}
Pcs == {"idle", "screen", "sources", "resolve", "graph", "payloadCheck",
        "finalPolicy", "finalSources", "finalPayload", "audit"} \cup Inspecting
Outcomes == {"none", "allow", "no_sources", "local", "block", "unavailable"}

TypeOK ==
    /\ registered \subseteq Sources /\ sources \subseteq Sources
    /\ content \in [Sources -> Contents]
    /\ inspected \in [Sources -> Contents \cup {Unread}]
    /\ payload \in Versions /\ snapshot \in Versions \cup {Unresolved}
    /\ kind \in Kinds /\ pc \in Pcs
    /\ matches \subseteq Sources
    /\ stable \in BOOLEAN /\ dlpIssues \in BOOLEAN /\ issues \in BOOLEAN
    /\ verdict \in {"none", "allow", "block"} /\ outcome \in Outcomes
    /\ decided \in [registered: SUBSET Sources,
                    content: [Sources -> Contents \cup {Unread}],
                    payload: Versions \cup {Unresolved}]

Fresh(label, policy) ==
    /\ pc' = label /\ sources' = policy
    /\ snapshot' = Unresolved /\ inspected' = [s \in Sources |-> Unread]
    /\ matches' = {} /\ stable' = FALSE /\ dlpIssues' = FALSE /\ issues' = TRUE
    /\ verdict' = "none" /\ decided' = Nowhere

Init ==
    /\ registered \in SUBSET Sources
    /\ content = [s \in Sources |-> 0]
    /\ payload = 0 /\ kind \in Kinds
    /\ pc = "idle" /\ sources = {}
    /\ snapshot = Unresolved /\ inspected = [s \in Sources |-> Unread]
    /\ matches = {} /\ stable = FALSE /\ dlpIssues = FALSE /\ issues = TRUE
    /\ verdict = "none" /\ decided = Nowhere
    /\ outcome = "none"

-------------------------------------------------------------------------------
(* The world *)

\* protect: a registration is added, never removed.
Register(s) ==
    /\ registered' = registered \cup {s}
    /\ s \notin registered
    /\ UNCHANGED <<content, payload, kind, evaluation>>

EditSource(s) ==
    /\ content[s] < MaxContent
    /\ content' = [content EXCEPT ![s] = @ + 1]
    /\ UNCHANGED <<registered, payload, kind, evaluation>>

ChangePayload ==
    /\ payload' \in Versions \ {payload}
    /\ kind = "file" => payload' = payload + 1
    /\ UNCHANGED <<registered, content, kind, evaluation>>

-------------------------------------------------------------------------------
(* What the evaluation can see of the world *)

payloadUnchanged == payload = snapshot

\* source_observations: only sources with a distinctive span are stamped.
stamped == {s \in Sources : inspected[s] # Unread /\ <<s, inspected[s]>> \in Distinctive}
changedSources == {s \in stamped : content[s] # inspected[s]}
policyUnchanged == sources = registered

finish(result) == pc' = "audit" /\ outcome' = result
inspection == <<sources, snapshot, inspected, matches, stable, dlpIssues>>

-------------------------------------------------------------------------------
(* _process_once() up to the inspection *)

\* A delivery or a retry: nothing of an earlier evaluation is reused as a result.
Start ==
    /\ pc = "idle"
    /\ IF registered = {}
       THEN Fresh("audit", {}) /\ outcome' = "no_sources"
       ELSE Fresh("screen", {}) /\ outcome' = "none"
    /\ UNCHANGED world

Screen ==
    /\ pc = "screen"
    /\ \/ finish("local")
       \/ pc' = "sources" /\ UNCHANGED outcome
    /\ UNCHANGED <<world, inspection, issues, verdict, decided>>

TakeSources ==
    /\ pc = "sources"
    /\ sources' = registered
    /\ pc' = "resolve"
    /\ UNCHANGED <<world, snapshot, inspected, matches, stable, dlpIssues, issues,
                   verdict, outcome, decided>>

\* The identity is missing, the model provider fails, or a budget ends.
Unavailable ==
    /\ pc \in {"screen", "resolve", "graph"}
    /\ finish("unavailable")
    /\ UNCHANGED <<world, inspection, issues, verdict, decided>>

-------------------------------------------------------------------------------
(* inspect_and_decide(): exact content *)

\* inspect_transmission(); what could not be resolved makes coverage partial.
\* Partial coverage ends up among the issues with those of the comparison.
Resolve ==
    /\ pc = "resolve"
    /\ snapshot' = payload
    /\ dlpIssues' \in BOOLEAN
    /\ pc' = "index"
    /\ UNCHANGED <<world, sources, inspected, matches, stable, issues, verdict,
                   outcome, decided>>

\* Any other exception before "issues" is assigned leaves it as it was.
InspectionFails ==
    /\ pc \in Inspecting \cup {"resolve"}
    /\ pc' = "graph"
    /\ UNCHANGED <<world, inspection, issues, verdict, outcome, decided>>

IndexSource(s) ==
    /\ pc = "index" /\ s \in sources /\ inspected[s] = Unread
    /\ inspected' = [inspected EXCEPT ![s] = content[s]]
    /\ UNCHANGED <<world, pc, sources, snapshot, matches, stable, dlpIssues,
                   issues, verdict, outcome, decided>>

\* Sources that were not indexed were unavailable or have a selector that is
\* not supported.
Compare ==
    /\ pc = "index"
    /\ \/ /\ matches' = {s \in stamped : <<snapshot, s, inspected[s]>> \in Copies}
          /\ dlpIssues' = (dlpIssues \/ \E s \in sources : inspected[s] = Unread)
       \/ \* dlp_work_budget
          /\ matches' \in SUBSET {s \in stamped : <<snapshot, s, inspected[s]>> \in Copies}
          /\ dlpIssues' = TRUE
    /\ pc' = "recheckSources"
    /\ UNCHANGED <<world, sources, snapshot, inspected, stable, issues, verdict,
                   outcome, decided>>

RecheckSources ==
    /\ pc = "recheckSources"
    /\ matches' = matches \ changedSources
    /\ dlpIssues' = (dlpIssues \/ changedSources # {})
    /\ pc' = "recheckPayload"
    /\ UNCHANGED <<world, sources, snapshot, inspected, stable, issues, verdict,
                   outcome, decided>>

RecheckPayload ==
    /\ pc = "recheckPayload"
    /\ matches' = IF payloadUnchanged THEN matches ELSE {}
    /\ dlpIssues' = (dlpIssues \/ ~payloadUnchanged)
    /\ pc' = "policy"
    /\ UNCHANGED <<world, sources, snapshot, inspected, stable, issues, verdict,
                   outcome, decided>>

CheckPolicy ==
    /\ pc = "policy"
    /\ stable' = policyUnchanged
    /\ pc' = "match"
    /\ UNCHANGED <<world, sources, snapshot, inspected, matches, dlpIssues, issues,
                   verdict, outcome, decided>>

MatchBlocks ==
    /\ pc = "match"
    /\ IF matches # {} /\ stable /\ payloadUnchanged
       THEN finish("block")
       ELSE pc' = "fast" /\ UNCHANGED outcome
    /\ UNCHANGED <<world, inspection, issues, verdict, decided>>

\* Without a result of the shortcut the issues of the inspection are kept.
collect ==
    /\ issues' = (dlpIssues \/ ~stable)
    /\ pc' = "graph"
    /\ UNCHANGED outcome

\* known_protected_generation() blocks only: it finds a recorded ancestry, or
\* says nothing.
FastPath ==
    /\ pc = "fast"
    /\ \/ /\ stable /\ payloadUnchanged /\ changedSources = {}
          /\ \E s \in sources : <<snapshot, s>> \in Derived
          /\ pc' = "fastCheck"
          /\ UNCHANGED <<issues, outcome>>
       \/ collect
    /\ UNCHANGED <<world, inspection, verdict, decided>>

FastCheck ==
    /\ pc = "fastCheck"
    /\ IF policyUnchanged /\ payloadUnchanged /\ changedSources = {}
       THEN finish("block") /\ UNCHANGED issues
       ELSE collect
    /\ UNCHANGED <<world, inspection, verdict, decided>>

-------------------------------------------------------------------------------
(* The graph, and the checks that follow it *)

\* analyze_properties() ends with a transaction that reads the registrations
\* again.  A protected path in what is complete blocks; without one, anything
\* incomplete is unavailable (the action Unavailable).
Graph ==
    LET judged == IF snapshot = Unresolved THEN payload ELSE snapshot IN
    /\ pc = "graph"
    /\ verdict' = IF \E s \in registered : <<judged, s>> \in Derived
                  THEN "block" ELSE "allow"
    /\ decided' = [registered |-> registered, content |-> content, payload |-> payload]
    /\ pc' = "payloadCheck"
    /\ UNCHANGED <<world, inspection, issues, outcome>>

\* Mutant: the block of the graph comes first.
BlockFirst ==
    /\ pc = "payloadCheck"
    /\ IF verdict = "block" THEN finish("block")
       ELSE pc' = "finalPolicy" /\ UNCHANGED outcome
    /\ UNCHANGED <<world, inspection, issues, verdict, decided>>

\* A changed payload takes precedence over any result.
CheckPayload ==
    /\ pc = "payloadCheck"
    /\ IF snapshot # Unresolved /\ ~payloadUnchanged
       THEN finish("unavailable")
       ELSE IF verdict = "block"
            THEN finish("block")
            ELSE pc' = "finalPolicy" /\ UNCHANGED outcome
    /\ UNCHANGED <<world, inspection, issues, verdict, decided>>

\* Mutant: the policy was already checked after the comparison.
KeepPolicy ==
    /\ pc = "finalPolicy"
    /\ pc' = "finalSources"
    /\ UNCHANGED <<world, inspection, issues, verdict, outcome, decided>>

FinalPolicy ==
    /\ pc = "finalPolicy"
    /\ issues' = (issues \/ ~policyUnchanged)
    /\ pc' = "finalSources"
    /\ UNCHANGED <<world, inspection, verdict, outcome, decided>>

\* Mutant: the protected files were already checked after the comparison.
KeepSources ==
    /\ pc = "finalSources"
    /\ pc' = "finalPayload"
    /\ UNCHANGED <<world, inspection, issues, verdict, outcome, decided>>

FinalSources ==
    /\ pc = "finalSources"
    /\ issues' = (issues \/ changedSources # {})
    /\ pc' = "finalPayload"
    /\ UNCHANGED <<world, inspection, verdict, outcome, decided>>

FinalPayload ==
    /\ pc = "finalPayload"
    /\ finish(IF issues \/ ~payloadUnchanged THEN "unavailable" ELSE "allow")
    /\ UNCHANGED <<world, inspection, issues, verdict, decided>>

\* A result that cannot be recorded is not a result.
Audit ==
    /\ pc = "audit"
    /\ pc' = "idle"
    /\ outcome' \in {outcome, "unavailable"}
    /\ UNCHANGED <<world, inspection, issues, verdict, decided>>

-------------------------------------------------------------------------------

WorldStep == (\E s \in Sources : Register(s) \/ EditSource(s)) \/ ChangePayload

EvaluationStep ==
    \/ Start \/ Screen \/ TakeSources \/ Unavailable
    \/ Resolve \/ InspectionFails \/ (\E s \in Sources : IndexSource(s))
    \/ Compare \/ RecheckSources \/ RecheckPayload \/ CheckPolicy
    \/ MatchBlocks \/ FastPath \/ FastCheck
    \/ Graph \/ CheckPayload
    \/ FinalPolicy \/ FinalSources \/ FinalPayload \/ Audit

Next == WorldStep \/ EvaluationStep

Spec == Init /\ [][Next]_vars

-------------------------------------------------------------------------------
(* Properties *)

\* An external send is allowed as if everything had been read at one instant,
\* that of the final graph transaction: the policy, every content that was
\* indexed and the file to be sent were then what had been inspected, although
\* they are read at a dozen different times (inspection.py).
AllowIsAtOneInstant ==
    outcome = "allow" =>
        /\ decided.registered = sources
        /\ \A s \in stamped : decided.content[s] = inspected[s]
        /\ kind = "file" => decided.payload = snapshot

\* No source that was registered before that transaction is missed: its content
\* was read, the version to be sent holds no span of it and has no recorded
\* provenance from it.  (The match of a repository is forgotten when its revision
\* looks moved for a moment, so nothing is said of its copies.)
NoSourceMissed ==
    outcome = "allow" =>
        \A s \in decided.registered :
            /\ inspected[s] # Unread
            /\ <<snapshot, s>> \notin Derived
            /\ kind = "file" => <<snapshot, s, inspected[s]>> \notin Copies

\* A block is about what would be sent now: when it is decided the payload is
\* still the version that was resolved, and that version holds a span of an
\* inspected content or has a provenance path from a registered source.  A
\* change of the payload takes precedence over any block.  (An evaluation that
\* could not resolve the payload is judged by the call alone.)
BlockIsAboutCurrentPayload ==
    [][outcome # "block" /\ outcome' = "block" /\ snapshot # Unresolved =>
        /\ payload = snapshot
        /\ \E s \in registered : \/ <<payload, s>> \in Derived
                                 \/ <<payload, s, inspected[s]>> \in Copies]_vars
===============================================================================
