-------------------------------- MODULE DlpIndex --------------------------------
(***************************************************************************)
(* inspect_dlp() of engine/dlp.py, run by several evaluations of the same  *)
(* workspace at once.  They share the tables flow_dlp_sources and          *)
(* flow_dlp_spans, one index entry for each protected source, and each     *)
(* transaction on them is a step; the protected files are edited between   *)
(* any two steps.                                                          *)
(***************************************************************************)
EXTENDS ProtectedFiles

CONSTANTS
    Inspectors,     \* evaluations that run inspect_dlp() at the same time
    Holds           \* <<i, s, n>>: the payload of i holds a span of content n of s

ASSUME SourceAssumption == Sources # {}
ASSUME HoldsAssumption ==
    /\ Holds \subseteq Inspectors \X Sources \X Contents
    /\ \A h \in Holds : <<h[2], h[3]>> \in Distinctive

VARIABLES
    stored,         \* index entry of each source: the content it was made from
    dlpPc,          \* where each inspector is
    source,         \* the source it is looking at
    stamp,          \* the content it saw there
    expected,       \* source_observations and ineligible sources it has seen
    found,          \* its matches
    flawed          \* its inspection had issues

locals == <<source, stamp, expected, found, flawed>>
dlpVars == <<content, stored, dlpPc, locals>>

-------------------------------------------------------------------------------

Missing     == MaxContent + 1     \* no index entry, or a source not seen yet
Unreadable == MaxContent + 2     \* a source that could not be seen
DlpPcs == {"next", "lookup", "read", "write", "recheck", "done"}

DlpTypeOK ==
    /\ content \in [Sources -> Contents]
    /\ stored \in [Sources -> Contents \cup {Missing}]
    /\ dlpPc \in [Inspectors -> DlpPcs]
    /\ source \in [Inspectors -> Sources]
    /\ stamp \in [Inspectors -> Contents]
    /\ expected \in [Inspectors -> [Sources -> Contents \cup {Missing, Unreadable}]]
    /\ found \in [Inspectors -> SUBSET Sources]
    /\ flawed \in [Inspectors -> BOOLEAN]

DlpInit ==
    /\ content = [s \in Sources |-> 0]
    /\ stored \in [Sources -> {0, Missing}]
    /\ dlpPc = [i \in Inspectors |-> "next"]
    /\ source = [i \in Inspectors |-> CHOOSE s \in Sources : TRUE]
    /\ stamp = [i \in Inspectors |-> 0]
    /\ expected = [i \in Inspectors |-> [s \in Sources |-> Missing]]
    /\ found = [i \in Inspectors |-> {}]
    /\ flawed = [i \in Inspectors |-> FALSE]

goto(i, label) == dlpPc' = [dlpPc EXCEPT ![i] = label]

eligible(i) == {s \in Sources : <<s, expected[i][s]>> \in Distinctive}

EditFile(s) ==
    /\ content[s] < MaxContent
    /\ content' = [content EXCEPT ![s] = @ + 1]
    /\ UNCHANGED <<stored, dlpPc, locals>>

\* The fingerprint of the next source, in the order of the policy.
Stat(i) ==
    /\ dlpPc[i] = "next"
    /\ \E s \in Sources :
        /\ expected[i][s] = Missing
        /\ source' = [source EXCEPT ![i] = s]
        /\ stamp' = [stamp EXCEPT ![i] = content[s]]
    /\ goto(i, "lookup")
    /\ UNCHANGED <<content, stored, expected, found, flawed>>

see(i, version) ==
    /\ expected' = [expected EXCEPT ![i][source[i]] = version]
    /\ goto(i, "next")

\* Mutant: an entry is reused whatever content it was made from.
LookupAny(i) ==
    /\ dlpPc[i] = "lookup"
    /\ IF stored[source[i]] # Missing
       THEN see(i, stamp[i])
       ELSE goto(i, "read") /\ UNCHANGED expected
    /\ UNCHANGED <<content, stored, source, stamp, found, flawed>>

Lookup(i) ==
    /\ dlpPc[i] = "lookup"
    /\ IF stored[source[i]] = stamp[i]
       THEN see(i, stamp[i])
       ELSE goto(i, "read") /\ UNCHANGED expected
    /\ UNCHANGED <<content, stored, source, stamp, found, flawed>>

\* read_file() returns one content, whatever is edited while it reads.
ReadFile(i) ==
    /\ dlpPc[i] = "read"
    /\ stamp' = [stamp EXCEPT ![i] = content[source[i]]]
    /\ goto(i, "write")
    /\ UNCHANGED <<content, stored, source, expected, found, flawed>>

\* The spans and the entry of the source are replaced in one transaction.
WriteIndex(i) ==
    /\ dlpPc[i] = "write"
    /\ stored' = [stored EXCEPT ![source[i]] = stamp[i]]
    /\ see(i, stamp[i])
    /\ UNCHANGED <<content, source, stamp, found, flawed>>

\* The source cannot be opened, or it changes while it is read: the inspection
\* goes on with the others.
SourceUnavailable(i) ==
    /\ dlpPc[i] \in {"lookup", "read"}
    /\ flawed' = [flawed EXCEPT ![i] = TRUE]
    /\ see(i, Unreadable)
    /\ UNCHANGED <<content, stored, source, stamp, found>>

\* Mutant: every entry of an eligible source is compared.
MatchAny(i) ==
    /\ dlpPc[i] = "next" /\ \A s \in Sources : expected[i][s] # Missing
    /\ found' = [found EXCEPT ![i] = {s \in eligible(i) : <<i, s, stored[s]>> \in Holds}]
    /\ goto(i, "recheck")
    /\ UNCHANGED <<content, stored, source, stamp, expected, flawed>>

\* One transaction reads all entries; those of another content are left out.
Match(i) ==
    /\ dlpPc[i] = "next" /\ \A s \in Sources : expected[i][s] # Missing
    /\ found' = [found EXCEPT ![i] =
            {s \in eligible(i) : stored[s] = expected[i][s] /\ <<i, s, stored[s]>> \in Holds}]
    /\ goto(i, "recheck")
    /\ UNCHANGED <<content, stored, source, stamp, expected, flawed>>

Recheck(i) ==
    LET changed == {s \in eligible(i) : content[s] # expected[i][s]} IN
    /\ dlpPc[i] = "recheck"
    /\ found' = [found EXCEPT ![i] = @ \ changed]
    /\ flawed' = [flawed EXCEPT ![i] = @ \/ changed # {}]
    /\ goto(i, "done")
    /\ UNCHANGED <<content, stored, source, stamp, expected>>

\* The next evaluation; what it is to send is fixed by its constant.
Again(i) ==
    /\ dlpPc[i] = "done"
    /\ expected' = [expected EXCEPT ![i] = [s \in Sources |-> Missing]]
    /\ found' = [found EXCEPT ![i] = {}]
    /\ flawed' = [flawed EXCEPT ![i] = FALSE]
    /\ goto(i, "next")
    /\ UNCHANGED <<content, stored, source, stamp>>

inspect(i) ==
    \/ Stat(i) \/ Lookup(i) \/ ReadFile(i) \/ WriteIndex(i) \/ Match(i) \/ Recheck(i)

DlpNext ==
    \/ \E s \in Sources : EditFile(s)
    \/ \E i \in Inspectors : inspect(i) \/ SourceUnavailable(i) \/ Again(i)

DlpSpec == DlpInit /\ [][DlpNext]_dlpVars

\* Evaluations end and others follow, and files do not become unavailable for
\* ever.  (Edits are finitely many by MaxContent.)
Fairness ==
    /\ \A i \in Inspectors : WF_dlpVars(inspect(i)) /\ WF_dlpVars(Again(i))
    /\ <>[][\A i \in Inspectors : ~SourceUnavailable(i)]_dlpVars

FairSpec == DlpSpec /\ Fairness

-------------------------------------------------------------------------------
(* Properties *)

\* A match is about the content that its evaluation observed, whoever wrote the
\* index entry: entries of another content never contribute (dlp.py:141).
MatchIsExact ==
    \A i \in Inspectors : \A s \in found[i] : <<i, s, expected[i][s]>> \in Holds

\* An index entry written late, from an older content, is replaced: once the
\* files are no longer edited, every entry comes to be of the current content
\* and stays so.
IndexConverges ==
    \A s \in Sources : <>[](stored[s] = content[s])
===============================================================================
