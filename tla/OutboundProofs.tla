----------------------------- MODULE OutboundProofs -----------------------------
(***************************************************************************)
(* Proofs about OutboundDecision, for any sources, contents, versions and  *)
(* relations, and about DlpIndex, for any evaluations that share it.       *)
(*                                                                         *)
(* An allow is justified by an argument on the order of reads: what is     *)
(* read only ever grows (registrations, fingerprints), so a value that is  *)
(* the same before and after the final graph transaction was the same at   *)
(* it.  A match is justified by the entry it was found in: an entry that   *)
(* is compared has the fingerprint that was observed.                      *)
(***************************************************************************)
EXTENDS OutboundDecision, DlpIndex, Integers, TLAPS

\* No issue has been cleared before the inspection is complete.
Early == {"screen", "sources", "resolve"} \cup Inspecting

\* The world has not gone back behind what was read.
Order ==
    /\ sources \subseteq registered
    /\ \A s \in Sources : inspected[s] # Unread => inspected[s] <= content[s]
    /\ kind = "file" /\ snapshot # Unresolved => snapshot <= payload

NoCopy == \A s \in Sources : <<snapshot, s, inspected[s]>> \notin Copies

\* What the comparison has established, as long as it has no issues.
Compared ==
    /\ pc \in Early => issues
    /\ pc \in Inspecting => snapshot # Unresolved
    /\ pc \in Inspecting \ {"index"} /\ ~dlpIssues =>
            /\ \A s \in sources : inspected[s] # Unread
            /\ \A s \in stamped \ matches : <<snapshot, s, inspected[s]>> \notin Copies
    /\ pc \in {"fast", "fastCheck"} /\ matches # {} /\ stable /\ kind = "file"
            => payload # snapshot

\* What is known once the issues are clear.
Cleared ==
    ~issues =>
        /\ snapshot # Unresolved
        /\ \A s \in sources : inspected[s] # Unread
        /\ kind = "file" => payload # snapshot \/ NoCopy

\* The final graph transaction lies between the inspection and the present.
GraphDone == pc \in {"payloadCheck", "finalPolicy", "finalSources", "finalPayload"}

Between ==
    GraphDone =>
        /\ sources \subseteq decided.registered /\ decided.registered \subseteq registered
        /\ \A s \in Sources : /\ decided.content[s] <= content[s]
                              /\ inspected[s] # Unread => inspected[s] <= decided.content[s]
        /\ kind = "file" /\ snapshot # Unresolved =>
                snapshot <= decided.payload /\ decided.payload <= payload
        /\ verdict = "allow" /\ snapshot # Unresolved =>
                \A s \in decided.registered : <<snapshot, s>> \notin Derived

\* What each of the final checks adds.
Confirmed ==
    /\ outcome = "allow" => pc \in {"audit", "idle"}
    /\ pc = "payloadCheck" => verdict \in {"allow", "block"}
    /\ pc \in {"finalPolicy", "finalSources", "finalPayload"} => verdict = "allow"
    /\ pc \in {"finalSources", "finalPayload"} /\ ~issues => decided.registered = sources
    /\ pc = "finalPayload" /\ ~issues =>
            \A s \in stamped : decided.content[s] = inspected[s]

Justified == AllowIsAtOneInstant /\ NoSourceMissed

Inv == TypeOK /\ Order /\ Compared /\ Cleared /\ Between /\ Confirmed /\ Justified

USE BoundsAssumption, ContentAssumption, RelationsAssumption

-------------------------------------------------------------------------------
(* Types *)

LEMMA FreshTyped ==
    ASSUME TypeOK, NEW label \in Pcs, NEW policy \in SUBSET Sources,
           Fresh(label, policy), UNCHANGED world, outcome' \in Outcomes
    PROVE  TypeOK'
BY DEF TypeOK, Fresh, Nowhere, world

LEMMA TypeInit == Init => TypeOK
<1> SUFFICES ASSUME Init PROVE TypeOK
    OBVIOUS
<1>1. 0 \in Contents /\ 0 \in Versions
  BY DEF Contents, Versions, BoundsAssumption
<1>2. decided \in [registered: SUBSET Sources,
                  content: [Sources -> Contents \cup {Unread}],
                  payload: Versions \cup {Unresolved}]
  BY DEF Init, Nowhere
<1> QED
  BY <1>1, <1>2 DEF Init, TypeOK, Outcomes, Pcs

LEMMA TypeStep == TypeOK /\ [Next]_vars => TypeOK'
<1> SUFFICES ASSUME TypeOK, [Next]_vars PROVE TypeOK'
    OBVIOUS
<1> USE DEF TypeOK, Pcs, Inspecting, Outcomes, finish, inspection, world
<1>1. ASSUME NEW s \in Sources, Register(s) \/ EditSource(s) PROVE TypeOK'
  BY <1>1 DEF Register, EditSource, evaluation, Contents, BoundsAssumption
<1>2. CASE ChangePayload
  BY <1>2 DEF ChangePayload, evaluation
<1>3. CASE Start
  <2>1. CASE registered = {}
    BY <1>3, <2>1, FreshTyped DEF Start
  <2>2. CASE registered # {}
    BY <1>3, <2>2, FreshTyped DEF Start
  <2> QED  BY <2>1, <2>2
<1>4. CASE Screen
  BY <1>4 DEF Screen
<1>5. CASE TakeSources
  BY <1>5 DEF TakeSources
<1>6. CASE Unavailable
  BY <1>6 DEF Unavailable
<1>7. CASE Resolve
  BY <1>7 DEF Resolve
<1>8. CASE InspectionFails
  BY <1>8 DEF InspectionFails
<1>9. ASSUME NEW s \in Sources, IndexSource(s) PROVE TypeOK'
  BY <1>9 DEF IndexSource
<1>10. CASE Compare
  <2>1. matches' \subseteq Sources
    BY <1>10 DEF Compare, stamped
  <2>2. dlpIssues' \in BOOLEAN
    BY <1>10 DEF Compare
  <2> QED  BY <1>10, <2>1, <2>2 DEF Compare
<1>11. CASE RecheckSources
  BY <1>11 DEF RecheckSources
<1>12. CASE RecheckPayload
  BY <1>12 DEF RecheckPayload
<1>13. CASE CheckPolicy
  BY <1>13 DEF CheckPolicy, policyUnchanged
<1>14. CASE MatchBlocks
  BY <1>14 DEF MatchBlocks
<1>15. CASE FastPath
  BY <1>15 DEF FastPath, collect
<1>16. CASE FastCheck
  BY <1>16 DEF FastCheck, collect
<1>17. CASE Graph
  BY <1>17 DEF Graph
<1>18. CASE CheckPayload
  BY <1>18 DEF CheckPayload
<1>19. CASE FinalPolicy
  BY <1>19 DEF FinalPolicy
<1>20. CASE FinalSources
  BY <1>20 DEF FinalSources
<1>21. CASE FinalPayload
  BY <1>21 DEF FinalPayload
<1>22. CASE Audit
  BY <1>22 DEF Audit
<1>23. CASE UNCHANGED vars
  BY <1>23 DEF vars, evaluation
<1> QED
  BY <1>1, <1>2, <1>3, <1>4, <1>5, <1>6, <1>7, <1>8, <1>9, <1>10, <1>11, <1>12, <1>13,
     <1>14, <1>15, <1>16, <1>17, <1>18, <1>19, <1>20, <1>21, <1>22, <1>23
     DEF Next, WorldStep, EvaluationStep

\* Every reachable state has the shape TypeOK describes: in particular a result
\* is one of those _process_once() returns.
THEOREM TypeCorrect == Spec => []TypeOK
BY TypeInit, TypeStep, PTL DEF Spec

-------------------------------------------------------------------------------
(* Order: what an evaluation has read only grows *)

LEMMA OrderStep == TypeOK /\ Order /\ [Next]_vars => Order'
<1> SUFFICES ASSUME TypeOK, Order, [Next]_vars PROVE Order'
    OBVIOUS
<1> USE DEF TypeOK, Contents, Versions, Unread, Unresolved, world, BoundsAssumption
<1>0. ASSUME UNCHANGED <<world, sources, snapshot, inspected>> PROVE Order'
  BY <1>0 DEF Order
<1>1. ASSUME NEW s \in Sources, Register(s) PROVE Order'
  BY <1>1 DEF Order, Register, evaluation
<1>2. ASSUME NEW s \in Sources, EditSource(s) PROVE Order'
  BY <1>2 DEF Order, EditSource, evaluation
<1>3. CASE ChangePayload
  BY <1>3 DEF Order, ChangePayload, evaluation
<1>4. CASE Start
  BY <1>4 DEF Order, Start, Fresh
<1>5. CASE TakeSources
  BY <1>5 DEF Order, TakeSources
<1>6. CASE Resolve
  BY <1>6 DEF Order, Resolve
<1>7. ASSUME NEW s \in Sources, IndexSource(s) PROVE Order'
  BY <1>7 DEF Order, IndexSource
<1>8. CASE Screen \/ Unavailable \/ InspectionFails
  BY <1>8, <1>0 DEF Screen, Unavailable, InspectionFails, inspection
<1>9. CASE Compare \/ RecheckSources \/ RecheckPayload \/ CheckPolicy
  BY <1>9, <1>0 DEF Compare, RecheckSources, RecheckPayload, CheckPolicy
<1>10. CASE MatchBlocks \/ FastPath \/ FastCheck
  BY <1>10, <1>0 DEF MatchBlocks, FastPath, FastCheck, inspection
<1>11. CASE Graph \/ CheckPayload \/ FinalPolicy \/ FinalSources \/ FinalPayload \/ Audit
  BY <1>11, <1>0 DEF Graph, CheckPayload, FinalPolicy, FinalSources, FinalPayload, Audit, inspection
<1>12. CASE UNCHANGED vars
  BY <1>12, <1>0 DEF vars, evaluation
<1> QED
  BY <1>1, <1>2, <1>3, <1>4, <1>5, <1>6, <1>7, <1>8, <1>9, <1>10, <1>11, <1>12
     DEF Next, WorldStep, EvaluationStep

-------------------------------------------------------------------------------
(* Compared: what the comparison of contents establishes *)

LEMMA ComparedStep == TypeOK /\ Order /\ Compared /\ [Next]_vars => Compared'
<1> SUFFICES ASSUME TypeOK, Order, Compared, [Next]_vars PROVE Compared'
    OBVIOUS
<1> USE DEF Early, Inspecting
<1>1. ASSUME NEW s \in Sources, Register(s) \/ EditSource(s) PROVE Compared'
  BY <1>1 DEF Compared, stamped, Register, EditSource, evaluation
<1>2. CASE ChangePayload
  <2>1. payload' # payload /\ (kind = "file" => payload' = payload + 1)
    BY <1>2 DEF ChangePayload
  <2>2. kind = "file" /\ snapshot # Unresolved => payload' # snapshot
    BY <2>1 DEF Order, TypeOK, Contents, Versions, Unresolved, BoundsAssumption
  <2> QED
    BY <1>2, <2>2 DEF Compared, stamped, ChangePayload, evaluation
<1>3. CASE Start
  BY <1>3 DEF Compared, Start, Fresh
<1>4. CASE Screen \/ TakeSources
  BY <1>4 DEF Compared, Screen, TakeSources, finish
<1>5. CASE Unavailable \/ InspectionFails
  BY <1>5 DEF Compared, Unavailable, InspectionFails, finish
<1>6. CASE Resolve
  BY <1>6 DEF Compared, Resolve, TypeOK, Versions, Unresolved, BoundsAssumption
<1>7. ASSUME NEW s \in Sources, IndexSource(s) PROVE Compared'
  BY <1>7 DEF Compared, IndexSource
<1>8. CASE Compare
  <2>1. pc = "index" /\ pc' = "recheckSources" /\ issues' = issues /\ snapshot' = snapshot
    BY <1>8 DEF Compare
  <2>2. ASSUME ~dlpIssues'
        PROVE  /\ \A s \in sources : inspected[s] # Unread
               /\ \A s \in stamped \ matches' : <<snapshot, s, inspected[s]>> \notin Copies
    BY <1>8, <2>2 DEF Compare, stamped
  <2> QED
    BY <1>8, <2>1, <2>2 DEF Compare, Compared, stamped
<1>9. CASE RecheckSources
  <2>1. ~dlpIssues' => ~dlpIssues /\ matches' = matches
    BY <1>9 DEF RecheckSources, TypeOK
  <2> QED
    BY <1>9, <2>1 DEF RecheckSources, Compared, stamped
<1>10. CASE RecheckPayload
  <2>1. ~dlpIssues' => ~dlpIssues /\ matches' = matches
    BY <1>10 DEF RecheckPayload, TypeOK
  <2> QED
    BY <1>10, <2>1 DEF RecheckPayload, Compared, stamped
<1>11. CASE CheckPolicy
  BY <1>11 DEF CheckPolicy, Compared, stamped
<1>12. CASE MatchBlocks
  BY <1>12 DEF MatchBlocks, Compared, stamped, inspection, world, finish, payloadUnchanged
<1>13. CASE FastPath
  BY <1>13 DEF FastPath, collect, Compared, stamped, inspection, world
<1>14. CASE FastCheck
  BY <1>14 DEF FastCheck, collect, finish, Compared, inspection, world
<1>15. CASE Graph \/ CheckPayload \/ FinalPolicy \/ FinalSources \/ FinalPayload \/ Audit
  BY <1>15 DEF Graph, CheckPayload, FinalPolicy, FinalSources, FinalPayload, Audit, finish, Compared
<1>16. CASE UNCHANGED vars
  BY <1>16 DEF vars, evaluation, world, Compared, stamped
<1> QED
  BY <1>1, <1>2, <1>3, <1>4, <1>5, <1>6, <1>7, <1>8, <1>9, <1>10, <1>11, <1>12, <1>13,
     <1>14, <1>15, <1>16 DEF Next, WorldStep, EvaluationStep

-------------------------------------------------------------------------------
(* Cleared: what holds once the issues are clear *)

\* A content without a distinctive span, or that was not read, holds no copy.
LEMMA NotStampedNoCopy ==
    ASSUME TypeOK, NEW s \in Sources, s \notin stamped
    PROVE  <<snapshot, s, inspected[s]>> \notin Copies
<1> SUFFICES ASSUME <<snapshot, s, inspected[s]>> \in Copies PROVE FALSE
    OBVIOUS
<1>1. inspected[s] \in Contents
  BY DEF RelationsAssumption
<1>2. inspected[s] # Unread
  BY <1>1 DEF Contents, Unread, BoundsAssumption
<1>3. <<s, inspected[s]>> \in Distinctive
  BY DEF RelationsAssumption
<1> QED
  BY <1>2, <1>3 DEF stamped

\* FastPath and FastCheck clear the issues only after a complete comparison.
LEMMA CollectClears ==
    ASSUME TypeOK, Compared, pc \in {"fast", "fastCheck"}, collect, UNCHANGED world,
           UNCHANGED inspection
    PROVE  Cleared'
<1> SUFFICES ASSUME ~issues' PROVE Cleared'
    BY DEF Cleared
<1>1. ~dlpIssues /\ stable
  BY DEF collect, TypeOK
<1>2. /\ snapshot # Unresolved
      /\ \A s \in sources : inspected[s] # Unread
      /\ \A s \in stamped \ matches : <<snapshot, s, inspected[s]>> \notin Copies
      /\ matches # {} /\ kind = "file" => payload # snapshot
  BY <1>1 DEF Compared, Inspecting
<1>3. matches = {} => NoCopy
  BY <1>2, NotStampedNoCopy DEF NoCopy
<1> QED
  BY <1>2, <1>3 DEF Cleared, NoCopy, inspection, world

LEMMA ClearedStep == TypeOK /\ Order /\ Compared /\ Cleared /\ [Next]_vars => Cleared'
<1> SUFFICES ASSUME TypeOK, Order, Compared, Cleared, [Next]_vars PROVE Cleared'
    OBVIOUS
<1>0. ASSUME UNCHANGED <<world, sources, snapshot, inspected>>, issues' = FALSE => issues = FALSE
      PROVE  Cleared'
  BY <1>0 DEF Cleared, NoCopy, world, TypeOK
<1>1. ASSUME NEW s \in Sources, Register(s) \/ EditSource(s) PROVE Cleared'
  BY <1>1 DEF Cleared, NoCopy, Register, EditSource, evaluation
<1>2. CASE ChangePayload
  <2>1. payload' # payload /\ (kind = "file" => payload' = payload + 1)
    BY <1>2 DEF ChangePayload
  <2>2. kind = "file" /\ snapshot # Unresolved => payload' # snapshot
    BY <2>1 DEF Order, TypeOK, Contents, Versions, Unresolved, BoundsAssumption
  <2> QED
    BY <1>2, <2>2 DEF Cleared, NoCopy, ChangePayload, evaluation
<1>3. CASE Start
  BY <1>3 DEF Cleared, Start, Fresh
<1>4. CASE Screen \/ Unavailable \/ InspectionFails
  BY <1>4, <1>0 DEF Screen, Unavailable, InspectionFails, inspection
<1>5. CASE TakeSources \/ Resolve \/ \E s \in Sources : IndexSource(s)
  BY <1>5 DEF TakeSources, Resolve, IndexSource, Cleared, Compared, Early, Inspecting
<1>6. CASE Compare \/ RecheckSources \/ RecheckPayload \/ CheckPolicy
  BY <1>6, <1>0 DEF Compare, RecheckSources, RecheckPayload, CheckPolicy
<1>7. CASE MatchBlocks
  BY <1>7, <1>0 DEF MatchBlocks, inspection
<1>8. CASE FastPath
  <2>1. CASE collect
    BY <1>8, <2>1, CollectClears DEF FastPath
  <2>2. CASE UNCHANGED issues
    BY <1>8, <2>2, <1>0 DEF FastPath, inspection
  <2> QED  BY <1>8, <2>1, <2>2 DEF FastPath
<1>9. CASE FastCheck
  <2>1. CASE collect
    BY <1>9, <2>1, CollectClears DEF FastCheck
  <2>2. CASE UNCHANGED issues
    BY <1>9, <2>2, <1>0 DEF FastCheck, inspection
  <2> QED  BY <1>9, <2>1, <2>2 DEF FastCheck
<1>10. CASE Graph \/ CheckPayload \/ FinalPolicy \/ FinalSources \/ FinalPayload \/ Audit
  BY <1>10, <1>0
     DEF Graph, CheckPayload, FinalPolicy, FinalSources, FinalPayload, Audit, inspection, TypeOK
<1>11. CASE UNCHANGED vars
  BY <1>11, <1>0 DEF vars, evaluation
<1> QED
  BY <1>1, <1>2, <1>3, <1>4, <1>5, <1>6, <1>7, <1>8, <1>9, <1>10, <1>11
     DEF Next, WorldStep, EvaluationStep
-------------------------------------------------------------------------------
(* Between: the final graph transaction lies between two reads *)

LEMMA BetweenStep == TypeOK /\ Order /\ Between /\ [Next]_vars => Between'
<1> SUFFICES ASSUME TypeOK, Order, Between, [Next]_vars PROVE Between'
    OBVIOUS
<1> USE DEF GraphDone
<1>0. ASSUME GraphDone' => GraphDone, UNCHANGED <<world, inspection, verdict, decided>>
      PROVE  Between'
  BY <1>0 DEF Between, world, inspection
<1>1. ASSUME NEW s \in Sources, Register(s) PROVE Between'
  BY <1>1 DEF Between, Register, evaluation
<1>2. ASSUME NEW s \in Sources, EditSource(s) PROVE Between'
  <2>1. \A t \in Sources : content[t] <= content'[t]
    BY <1>2 DEF EditSource, TypeOK, Contents, BoundsAssumption
  <2>2. CASE GraphDone
    <3>1. \A t \in Sources : decided.content[t] <= content[t]
      BY <2>2 DEF Between
    <3>2. \A t \in Sources : decided.content[t] \in Int
      BY DEF TypeOK, Contents, Unread, BoundsAssumption
    <3>3. \A t \in Sources : content[t] \in Int /\ content'[t] \in Int
      BY <1>2 DEF EditSource, TypeOK, Contents, BoundsAssumption
    <3>4. \A t \in Sources : decided.content[t] <= content'[t]
      BY <2>1, <3>1, <3>2, <3>3
    <3> QED  BY <1>2, <2>2, <3>4 DEF Between, EditSource, evaluation
  <2> QED  BY <1>2, <2>2 DEF Between, EditSource, evaluation
<1>3. CASE ChangePayload
  <2>1. kind = "file" => payload' = payload + 1
    BY <1>3 DEF ChangePayload
  <2>2. payload \in Int /\ decided.payload \in Int
    BY DEF TypeOK, Versions, Unresolved, BoundsAssumption
  <2> QED
    BY <1>3, <2>1, <2>2 DEF Between, ChangePayload, evaluation
<1>4. CASE Start \/ Screen \/ TakeSources \/ Unavailable
  BY <1>4 DEF Between, Start, Fresh, Screen, TakeSources, Unavailable, finish
<1>5. CASE Resolve \/ InspectionFails \/ \E s \in Sources : IndexSource(s)
  BY <1>5 DEF Between, Resolve, InspectionFails, IndexSource
<1>6. CASE Compare \/ RecheckSources \/ RecheckPayload \/ CheckPolicy
  BY <1>6 DEF Between, Compare, RecheckSources, RecheckPayload, CheckPolicy
<1>7. CASE MatchBlocks \/ FastPath \/ FastCheck
  BY <1>7 DEF Between, MatchBlocks, FastPath, FastCheck, collect, finish
<1>8. CASE Graph
  <2>1. decided' = [registered |-> registered, content |-> content, payload |-> payload]
    BY <1>8 DEF Graph
  <2>2. verdict' = "allow" /\ snapshot # Unresolved =>
            \A s \in registered : <<snapshot, s>> \notin Derived
    BY <1>8 DEF Graph
  <2>3. \A s \in Sources : content[s] <= content[s]
    BY DEF TypeOK, Contents, BoundsAssumption
  <2>4. payload <= payload
    BY DEF TypeOK, Versions, BoundsAssumption
  <2> QED
    BY <1>8, <2>1, <2>2, <2>3, <2>4 DEF Graph, Between, Order, inspection, world
<1>9. CASE CheckPayload \/ FinalPolicy \/ FinalSources \/ FinalPayload \/ Audit
  BY <1>9, <1>0 DEF CheckPayload, FinalPolicy, FinalSources, FinalPayload, Audit, finish
<1>10. CASE UNCHANGED vars
  BY <1>10, <1>0 DEF vars, evaluation, inspection
<1> QED
  BY <1>1, <1>2, <1>3, <1>4, <1>5, <1>6, <1>7, <1>8, <1>9, <1>10
     DEF Next, WorldStep, EvaluationStep

-------------------------------------------------------------------------------
(* Confirmed: what the checks after that transaction add *)

LEMMA ConfirmedStep ==
    TypeOK /\ Order /\ Between /\ Confirmed /\ [Next]_vars => Confirmed'
<1> SUFFICES ASSUME TypeOK, Order, Between, Confirmed, [Next]_vars PROVE Confirmed'
    OBVIOUS
<1> USE DEF Confirmed
<1>1. CASE WorldStep
  BY <1>1 DEF WorldStep, Register, EditSource, ChangePayload, evaluation, stamped
<1>2. CASE Start \/ Screen \/ TakeSources \/ Unavailable
  BY <1>2 DEF Start, Fresh, Screen, TakeSources, Unavailable, finish
<1>3. CASE Resolve \/ InspectionFails \/ \E s \in Sources : IndexSource(s)
  BY <1>3 DEF Resolve, InspectionFails, IndexSource, Inspecting
<1>4. CASE Compare \/ RecheckSources \/ RecheckPayload \/ CheckPolicy
  BY <1>4 DEF Compare, RecheckSources, RecheckPayload, CheckPolicy
<1>5. CASE MatchBlocks \/ FastPath \/ FastCheck
  BY <1>5 DEF MatchBlocks, FastPath, FastCheck, collect, finish
<1>6. CASE Graph
  BY <1>6 DEF Graph
<1>7. CASE CheckPayload
  BY <1>7 DEF CheckPayload, finish, TypeOK
<1>8. CASE FinalPolicy
  <2>1. ASSUME ~issues' PROVE decided.registered = sources
    <3>1. sources = registered
      BY <1>8, <2>1 DEF FinalPolicy, policyUnchanged
    <3> QED  BY <1>8, <3>1 DEF FinalPolicy, Between, GraphDone
  <2> QED
    BY <1>8, <2>1 DEF FinalPolicy, inspection
<1>9. CASE FinalSources
  <2>1. ASSUME ~issues', NEW s \in stamped PROVE decided.content[s] = inspected[s]
    <3>1. content[s] = inspected[s]
      BY <1>9, <2>1 DEF FinalSources, changedSources
    <3>2. s \in Sources /\ inspected[s] # Unread
      BY <2>1 DEF stamped
    <3>3. decided.content[s] <= content[s] /\ inspected[s] <= decided.content[s]
      BY <1>9, <3>2 DEF FinalSources, Between, GraphDone
    <3>4. decided.content[s] \in Int /\ content[s] \in Int
      BY <3>2 DEF TypeOK, Contents, Unread, BoundsAssumption
    <3> QED  BY <3>1, <3>3, <3>4
  <2> QED
    BY <1>9, <2>1 DEF FinalSources, inspection, stamped, TypeOK
<1>10. CASE FinalPayload \/ Audit
  BY <1>10 DEF FinalPayload, Audit, finish
<1>11. CASE UNCHANGED vars
  BY <1>11 DEF vars, evaluation, stamped
<1> QED
  BY <1>1, <1>2, <1>3, <1>4, <1>5, <1>6, <1>7, <1>8, <1>9, <1>10, <1>11
     DEF Next, EvaluationStep

-------------------------------------------------------------------------------
(* Justified: the two invariants *)

LEMMA JustifiedStep == Inv /\ [Next]_vars => Justified'
<1> SUFFICES ASSUME Inv, [Next]_vars PROVE Justified'
    OBVIOUS
<1> USE DEF Inv, Justified
<1>0. ASSUME UNCHANGED <<kind, sources, snapshot, inspected, decided>>,
             outcome' = "allow" => outcome = "allow"
      PROVE  Justified'
  BY <1>0 DEF AllowIsAtOneInstant, NoSourceMissed, stamped
<1>1. ASSUME outcome' # "allow" PROVE Justified'
  BY <1>1 DEF AllowIsAtOneInstant, NoSourceMissed
<1>2. CASE WorldStep
  BY <1>2, <1>0 DEF WorldStep, Register, EditSource, ChangePayload, evaluation
<1>3. CASE Start \/ Screen \/ Unavailable
  BY <1>3, <1>0, <1>1 DEF Start, Screen, Unavailable, Confirmed, finish
<1>4. CASE TakeSources \/ Resolve \/ InspectionFails \/ \E s \in Sources : IndexSource(s)
  BY <1>4, <1>1 DEF TakeSources, Resolve, InspectionFails, IndexSource, Confirmed, Inspecting
<1>5. CASE Compare \/ RecheckSources \/ RecheckPayload \/ CheckPolicy
  BY <1>5, <1>1 DEF Compare, RecheckSources, RecheckPayload, CheckPolicy, Confirmed
<1>6. CASE MatchBlocks \/ FastPath \/ FastCheck
  BY <1>6, <1>1 DEF MatchBlocks, FastPath, FastCheck, collect, finish, Confirmed
<1>7. CASE Graph \/ CheckPayload \/ FinalPolicy \/ FinalSources
  BY <1>7, <1>1 DEF Graph, CheckPayload, FinalPolicy, FinalSources, finish, Confirmed
<1>8. CASE FinalPayload
  <2>1. CASE issues \/ ~payloadUnchanged
    BY <1>8, <2>1, <1>1 DEF FinalPayload, finish
  <2>2. CASE ~issues /\ payloadUnchanged
    <3>1. decided.registered = sources /\ verdict = "allow" /\ snapshot # Unresolved
      BY <1>8, <2>2 DEF FinalPayload, Confirmed, Cleared
    <3>2. AllowIsAtOneInstant'
      <4>1. kind = "file" => decided.payload = snapshot
        <5>1. kind = "file" => snapshot <= decided.payload /\ decided.payload <= payload
          BY <1>8, <3>1 DEF FinalPayload, Between, GraphDone
        <5>2. decided.payload \in Int /\ payload \in Int
          BY DEF TypeOK, Versions, Unresolved, BoundsAssumption
        <5> QED  BY <2>2, <5>1, <5>2 DEF payloadUnchanged
      <4>2. \A s \in stamped : decided.content[s] = inspected[s]
        BY <1>8, <2>2 DEF FinalPayload, Confirmed
      <4> QED
        BY <1>8, <3>1, <4>1, <4>2 DEF AllowIsAtOneInstant, FinalPayload, inspection, world, stamped
    <3>3. NoSourceMissed'
      <4>1. \A s \in sources : inspected[s] # Unread
        BY <2>2 DEF Cleared
      <4>2. \A s \in sources : <<snapshot, s>> \notin Derived
        BY <1>8, <3>1 DEF FinalPayload, Between, GraphDone
      <4>3. kind = "file" => \A s \in sources : <<snapshot, s, inspected[s]>> \notin Copies
        BY <2>2 DEF Cleared, NoCopy, payloadUnchanged, TypeOK
      <4> QED
        BY <1>8, <3>1, <4>1, <4>2, <4>3 DEF NoSourceMissed, FinalPayload, inspection, world
    <3> QED  BY <3>2, <3>3
  <2> QED  BY <2>1, <2>2
<1>9. CASE Audit
  BY <1>9, <1>0, <1>1 DEF Audit, inspection, world
<1>10. CASE UNCHANGED vars
  BY <1>10, <1>0 DEF vars, evaluation, world
<1> QED
  BY <1>2, <1>3, <1>4, <1>5, <1>6, <1>7, <1>8, <1>9, <1>10
     DEF Next, EvaluationStep

-------------------------------------------------------------------------------
(* The invariant *)

LEMMA InvInit == Init => Inv
<1> SUFFICES ASSUME Init PROVE Inv
    OBVIOUS
<1>1. TypeOK
  BY TypeInit
<1>2. Order /\ Compared
  BY DEF Init, Order, Compared, Early, Inspecting
<1>3. Cleared /\ Between /\ Confirmed /\ Justified
  BY DEF Init, Cleared, Between, GraphDone, Confirmed, Justified, AllowIsAtOneInstant,
         NoSourceMissed
<1> QED  BY <1>1, <1>2, <1>3 DEF Inv

LEMMA InvStep == Inv /\ [Next]_vars => Inv'
BY TypeStep, OrderStep, ComparedStep, ClearedStep, BetweenStep, ConfirmedStep, JustifiedStep
   DEF Inv

LEMMA Invariance == Spec => []Inv
BY InvInit, InvStep, PTL DEF Spec

\* Although the evaluation reads the world at a dozen different times, an
\* external send is allowed only if everything it had inspected (the policy, each
\* indexed content, the file to be sent) was so at the final graph transaction.
THEOREM AllowLinearizes == Spec => []AllowIsAtOneInstant
<1>1. Inv => AllowIsAtOneInstant
  BY DEF Inv, Justified
<1> QED  BY Invariance, <1>1, PTL

\* A send that is allowed has been compared with the content and the provenance
\* of every source that was registered before the final graph transaction.
THEOREM NothingMissed == Spec => []NoSourceMissed
<1>1. Inv => NoSourceMissed
  BY DEF Inv, Justified
<1> QED  BY Invariance, <1>1, PTL
-------------------------------------------------------------------------------
(* Blocks *)

\* What a block rests on, at each place that can block.
Grounded ==
    /\ pc \in {"screen", "sources", "resolve"} => \A s \in Sources : inspected[s] = Unread
    /\ pc \in {"screen", "sources", "resolve", "index"} => matches = {}
    /\ pc \in Inspecting =>
          /\ \A s \in Sources : inspected[s] # Unread => s \in sources
          /\ \A s \in matches : s \in sources /\ <<snapshot, s, inspected[s]>> \in Copies
    /\ pc = "fastCheck" => \E s \in sources : <<snapshot, s>> \in Derived
    /\ pc = "payloadCheck" /\ verdict = "block" /\ snapshot # Unresolved =>
          \E s \in registered : <<snapshot, s>> \in Derived

LEMMA GroundedStep == TypeOK /\ Grounded /\ [Next]_vars => Grounded'
<1> SUFFICES ASSUME TypeOK, Grounded, [Next]_vars PROVE Grounded'
    OBVIOUS
<1> USE DEF Grounded, Inspecting
<1>1. ASSUME NEW s \in Sources, Register(s) \/ EditSource(s) PROVE Grounded'
  BY <1>1 DEF Register, EditSource, evaluation
<1>2. CASE ChangePayload
  BY <1>2 DEF ChangePayload, evaluation
<1>3. CASE Start
  BY <1>3 DEF Start, Fresh
<1>4. CASE Screen \/ TakeSources \/ Unavailable \/ InspectionFails
  BY <1>4 DEF Screen, TakeSources, Unavailable, InspectionFails, finish, inspection
<1>5. CASE Resolve
  BY <1>5 DEF Resolve
<1>6. ASSUME NEW s \in Sources, IndexSource(s) PROVE Grounded'
  BY <1>6 DEF IndexSource, TypeOK
<1>7. CASE Compare
  <2>1. \A s \in matches' : s \in stamped /\ <<snapshot, s, inspected[s]>> \in Copies
    BY <1>7 DEF Compare
  <2> QED  BY <1>7, <2>1 DEF Compare, stamped
<1>8. CASE RecheckSources \/ RecheckPayload \/ CheckPolicy
  BY <1>8 DEF RecheckSources, RecheckPayload, CheckPolicy
<1>9. CASE MatchBlocks
  BY <1>9 DEF MatchBlocks, finish, inspection
<1>10. CASE FastPath
  BY <1>10 DEF FastPath, collect, inspection
<1>11. CASE FastCheck
  BY <1>11 DEF FastCheck, collect, finish, inspection
<1>12. CASE Graph
  BY <1>12 DEF Graph, inspection, world
<1>13. CASE CheckPayload \/ FinalPolicy \/ FinalSources \/ FinalPayload \/ Audit
  BY <1>13 DEF CheckPayload, FinalPolicy, FinalSources, FinalPayload, Audit, finish
<1>14. CASE UNCHANGED vars
  BY <1>14 DEF vars, evaluation, world
<1> QED
  BY <1>1, <1>2, <1>3, <1>4, <1>5, <1>6, <1>7, <1>8, <1>9, <1>10, <1>11, <1>12, <1>13, <1>14
     DEF Next, WorldStep, EvaluationStep

\* When an evaluation decides to block, what would be sent is still the version it
\* resolved, and that version copies, or is derived from, a registered source.
THEOREM BlocksAreCurrent == Spec => BlockIsAboutCurrentPayload
<1>1. Init => Grounded
  BY DEF Init, Grounded, Inspecting
<1>2. TypeOK /\ Order /\ Grounded /\ [Next]_vars =>
        [outcome # "block" /\ outcome' = "block" /\ snapshot # Unresolved =>
            /\ payload = snapshot
            /\ \E s \in registered : \/ <<payload, s>> \in Derived
                                     \/ <<payload, s, inspected[s]>> \in Copies]_vars
  <2> SUFFICES ASSUME Order, Grounded, Next, outcome # "block", outcome' = "block",
                      snapshot # Unresolved
               PROVE  /\ payload = snapshot
                      /\ \E s \in registered : \/ <<payload, s>> \in Derived
                                               \/ <<payload, s, inspected[s]>> \in Copies
      OBVIOUS
  <2>1. CASE MatchBlocks
    <3>1. /\ pc = "match" /\ payload = snapshot
          /\ \E s \in matches : TRUE
      BY <2>1 DEF MatchBlocks, finish, payloadUnchanged
    <3> QED  BY <3>1 DEF Grounded, Inspecting, Order
  <2>2. CASE FastCheck
    <3>1. pc = "fastCheck" /\ payload = snapshot
      BY <2>2 DEF FastCheck, finish, collect, payloadUnchanged
    <3> QED  BY <3>1 DEF Grounded, Order
  <2>3. CASE CheckPayload
    <3>1. pc = "payloadCheck" /\ payload = snapshot /\ verdict = "block"
      BY <2>3 DEF CheckPayload, finish, payloadUnchanged
    <3> QED  BY <3>1 DEF Grounded
  <2>4. CASE WorldStep \/ Start \/ Screen \/ TakeSources \/ Unavailable
    BY <2>4 DEF WorldStep, Register, EditSource, ChangePayload, evaluation, Start, Screen,
                TakeSources, Unavailable, finish
  <2>5. CASE Resolve \/ InspectionFails \/ \E s \in Sources : IndexSource(s)
    BY <2>5 DEF Resolve, InspectionFails, IndexSource
  <2>6. CASE Compare \/ RecheckSources \/ RecheckPayload \/ CheckPolicy \/ FastPath
    BY <2>6 DEF Compare, RecheckSources, RecheckPayload, CheckPolicy, FastPath, collect
  <2>7. CASE Graph \/ FinalPolicy \/ FinalSources \/ FinalPayload \/ Audit
    BY <2>7 DEF Graph, FinalPolicy, FinalSources, FinalPayload, Audit, finish
  <2> QED
    BY <2>1, <2>2, <2>3, <2>4, <2>5, <2>6, <2>7 DEF Next, EvaluationStep
<1>3. Inv => TypeOK /\ Order
  BY DEF Inv
<1> QED
  BY Invariance, GroundedStep, <1>1, <1>2, <1>3, PTL DEF Spec, BlockIsAboutCurrentPayload

-------------------------------------------------------------------------------
(* DlpIndex: the index that evaluations share *)

\* Matches are found in one step and exist from then to the end of the evaluation, and
\* in this time nothing is observed any more.
FoundLate == \A i \in Inspectors : dlpPc[i] \notin {"recheck", "done"} => found[i] = {}

DlpInv == DlpTypeOK /\ FoundLate /\ MatchIsExact

-------------------------------------------------------------------------------
(* Initial states and types *)

LEMMA DlpInitInv == DlpInit => DlpInv
<1> SUFFICES ASSUME DlpInit PROVE DlpInv
  OBVIOUS
<1>1. (CHOOSE s \in Sources : TRUE) \in Sources
  BY SourceAssumption
<1>2. 0 \in Contents
  BY ContentAssumption DEF Contents
<1>3. DlpTypeOK
  BY <1>1, <1>2 DEF DlpInit, DlpTypeOK, DlpPcs
<1>4. FoundLate /\ MatchIsExact
  BY DEF DlpInit, FoundLate, MatchIsExact
<1> QED  BY <1>3, <1>4 DEF DlpInv

\* What an evaluation notes about its source and where it goes on.
LEMMA SeeTypes ==
    ASSUME DlpTypeOK, NEW i \in Inspectors,
           NEW v \in Contents \cup {Missing, Unreadable}, see(i, v)
    PROVE  /\ expected' \in [Inspectors -> [Sources -> Contents \cup {Missing, Unreadable}]]
           /\ dlpPc' = [dlpPc EXCEPT ![i] = "next"]
           /\ \A j \in Inspectors \ {i} : expected'[j] = expected[j]
<1> DEFINE Values == Contents \cup {Missing, Unreadable}
<1>1. expected' = [expected EXCEPT ![i] = [expected[i] EXCEPT ![source[i]] = v]]
  BY DEF see, DlpTypeOK
<1>2. [expected[i] EXCEPT ![source[i]] = v] \in [Sources -> Values]
  BY DEF DlpTypeOK
<1> QED  BY <1>1, <1>2 DEF see, goto, DlpTypeOK

LEMMA DlpTypeStep == DlpTypeOK /\ [DlpNext]_dlpVars => DlpTypeOK'
<1> SUFFICES ASSUME DlpTypeOK, [DlpNext]_dlpVars PROVE DlpTypeOK'
  OBVIOUS
<1> USE DEF DlpTypeOK, DlpPcs
<1>1. ASSUME NEW s \in Sources, EditFile(s) PROVE DlpTypeOK'
  <2>1. content[s] + 1 \in Contents
    BY <1>1, ContentAssumption DEF EditFile, Contents
  <2> QED  BY <1>1, <2>1 DEF EditFile, locals
<1>2. ASSUME NEW i \in Inspectors, Stat(i) PROVE DlpTypeOK'
  BY <1>2 DEF Stat, goto
<1>3. ASSUME NEW i \in Inspectors, Lookup(i) PROVE DlpTypeOK'
  <2>1. CASE see(i, stamp[i])
    BY <1>3, <2>1, SeeTypes DEF Lookup
  <2>2. CASE goto(i, "read") /\ UNCHANGED expected
    BY <1>3, <2>2 DEF Lookup, goto
  <2> QED  BY <1>3, <2>1, <2>2 DEF Lookup
<1>4. ASSUME NEW i \in Inspectors, ReadFile(i) PROVE DlpTypeOK'
  BY <1>4 DEF ReadFile, goto
<1>5. ASSUME NEW i \in Inspectors, WriteIndex(i) PROVE DlpTypeOK'
  <2>1. see(i, stamp[i])
    BY <1>5 DEF WriteIndex
  <2> QED  BY <1>5, <2>1, SeeTypes DEF WriteIndex
<1>6. ASSUME NEW i \in Inspectors, SourceUnavailable(i) PROVE DlpTypeOK'
  <2>1. see(i, Unreadable)
    BY <1>6 DEF SourceUnavailable
  <2> QED  BY <1>6, <2>1, SeeTypes DEF SourceUnavailable
<1>7. ASSUME NEW i \in Inspectors, Match(i) PROVE DlpTypeOK'
  BY <1>7 DEF Match, goto, eligible
<1>8. ASSUME NEW i \in Inspectors, Recheck(i) PROVE DlpTypeOK'
  BY <1>8 DEF Recheck, goto
<1>9. ASSUME NEW i \in Inspectors, Again(i) PROVE DlpTypeOK'
  BY <1>9 DEF Again, goto
<1>10. CASE UNCHANGED dlpVars
  BY <1>10 DEF dlpVars, locals
<1> QED
  BY <1>1, <1>2, <1>3, <1>4, <1>5, <1>6, <1>7, <1>8, <1>9, <1>10 DEF DlpNext, inspect

\* The values of the index and of every evaluation.
THEOREM DlpTypeCorrect == DlpSpec => []DlpTypeOK
<1>1. DlpInit => DlpTypeOK
  BY DlpInitInv DEF DlpInv
<1> QED  BY <1>1, DlpTypeStep, PTL DEF DlpSpec

-------------------------------------------------------------------------------
(* Matches *)

LEMMA MatchStep == DlpInv /\ [DlpNext]_dlpVars => FoundLate' /\ MatchIsExact'
<1> SUFFICES ASSUME DlpTypeOK, FoundLate, MatchIsExact, [DlpNext]_dlpVars
             PROVE  FoundLate' /\ MatchIsExact'
  BY DEF DlpInv
\* A step that goes on before any match was found.
<1>1. ASSUME NEW i \in Inspectors, NEW label, goto(i, label), UNCHANGED found,
             dlpPc[i] \notin {"recheck", "done"},
             \A j \in Inspectors \ {i} : expected'[j] = expected[j]
      PROVE  FoundLate' /\ MatchIsExact'
  <2>1. found[i] = {}
    BY <1>1 DEF FoundLate
  <2>2. \A j \in Inspectors : dlpPc'[j] = IF j = i THEN label ELSE dlpPc[j]
    BY <1>1 DEF goto, DlpTypeOK
  <2> QED  BY <1>1, <2>1, <2>2 DEF FoundLate, MatchIsExact
<1>2. ASSUME NEW i \in Inspectors, see(i, stamp[i]) \/ see(i, Unreadable), UNCHANGED found,
             dlpPc[i] \in {"lookup", "read", "write"}
      PROVE  FoundLate' /\ MatchIsExact'
  <2>1. goto(i, "next") /\ \A j \in Inspectors \ {i} : expected'[j] = expected[j]
    BY <1>2 DEF see, DlpTypeOK
  <2> QED  BY <1>1, <1>2, <2>1
<1>3. ASSUME NEW i \in Inspectors, Stat(i) \/ ReadFile(i) PROVE FoundLate' /\ MatchIsExact'
  BY <1>1, <1>3 DEF Stat, ReadFile
<1>4. ASSUME NEW i \in Inspectors, Lookup(i) PROVE FoundLate' /\ MatchIsExact'
  BY <1>1, <1>2, <1>4 DEF Lookup
<1>5. ASSUME NEW i \in Inspectors, WriteIndex(i) \/ SourceUnavailable(i)
      PROVE  FoundLate' /\ MatchIsExact'
  BY <1>2, <1>5 DEF WriteIndex, SourceUnavailable
<1>6. ASSUME NEW i \in Inspectors, Match(i) PROVE FoundLate' /\ MatchIsExact'
  <2>1. \A s \in found'[i] : <<i, s, expected[i][s]>> \in Holds
    BY <1>6 DEF Match, DlpTypeOK
  <2>2. \A j \in Inspectors \ {i} : found'[j] = found[j] /\ dlpPc'[j] = dlpPc[j]
    BY <1>6 DEF Match, goto, DlpTypeOK
  <2>3. dlpPc'[i] = "recheck" /\ expected' = expected
    BY <1>6 DEF Match, goto, DlpTypeOK
  <2> QED  BY <2>1, <2>2, <2>3 DEF FoundLate, MatchIsExact
<1>7. ASSUME NEW i \in Inspectors, Recheck(i) PROVE FoundLate' /\ MatchIsExact'
  <2>1. found'[i] \subseteq found[i] /\ dlpPc'[i] = "done" /\ expected' = expected
    BY <1>7 DEF Recheck, goto, DlpTypeOK
  <2>2. \A j \in Inspectors \ {i} : found'[j] = found[j] /\ dlpPc'[j] = dlpPc[j]
    BY <1>7 DEF Recheck, goto, DlpTypeOK
  <2> QED  BY <2>1, <2>2 DEF FoundLate, MatchIsExact
<1>8. ASSUME NEW i \in Inspectors, Again(i) PROVE FoundLate' /\ MatchIsExact'
  <2>1. found'[i] = {}
    BY <1>8 DEF Again, DlpTypeOK
  <2>2. \A j \in Inspectors \ {i} :
            found'[j] = found[j] /\ dlpPc'[j] = dlpPc[j] /\ expected'[j] = expected[j]
    BY <1>8 DEF Again, goto, DlpTypeOK
  <2> QED  BY <2>1, <2>2 DEF FoundLate, MatchIsExact
<1>9. ASSUME UNCHANGED <<dlpPc, locals>> PROVE FoundLate' /\ MatchIsExact'
  BY <1>9 DEF FoundLate, MatchIsExact, locals
<1> QED
  BY <1>3, <1>4, <1>5, <1>6, <1>7, <1>8, <1>9 DEF DlpNext, inspect, EditFile, dlpVars

\* A match is about the content that its evaluation observed, whatever other evaluations
\* wrote to the index and whenever files were edited.
THEOREM MatchesAreExact == DlpSpec => []MatchIsExact
<1>1. DlpInv /\ [DlpNext]_dlpVars => DlpInv'
  BY DlpTypeStep, MatchStep DEF DlpInv
<1>2. DlpInv => MatchIsExact
  BY DEF DlpInv
<1> QED  BY DlpInitInv, <1>1, <1>2, PTL DEF DlpSpec
===============================================================================
