----------------------------- MODULE PropertyGraph -----------------------------
(***************************************************************************)
(* The provenance graph of a workspace: engine/property_graph.py, with     *)
(* the reviews of engine/review.py as the answers of a model.              *)
(*                                                                         *)
(* analyze_properties() assesses a ToolCall and, depth first, the calls    *)
(* its verdict depends on.  Each assessment is stored as a revision in a   *)
(* transaction of its own, which pins the revisions of its parents.  The   *)
(* head of a call is its last revision of the whole operation; the review  *)
(* of a part of it (a selected output, a witnessed file) has revisions,    *)
(* too, but is to leave the head alone.                                    *)
(*                                                                         *)
(* Analyses of one session exclude each other by its lock.  An analysis    *)
(* that reaches a call of another session assesses it without the lock of  *)
(* that session.                                                           *)
(***************************************************************************)
EXTENDS Naturals, Sequences

CONSTANTS
    Calls,          \* ToolCalls, numbered in the order of their events
    Session,        \* the session of each call
    Hooks,          \* Hook processes that decide on calls
    Drainers,       \* background processes that analyze completed calls
    Sources,        \* protected resources that may be registered
    Bindable,       \* those whose path and selector name a whole file
    Produced,       \* <<p, c>>: call c reads a file generation that p has written
    Verdicts,       \* the valid answers of the model on each call
    None            \* no process, no revision, no verdict

Analyses == Hooks \cup Drainers
Sessions == {Session[c] : c \in Calls}

\* What a call may depend on: earlier calls of its session, by their whole output
\* or a selected part, and the producers of what it reads, by that resource.
Uses == [complete: BOOLEAN, reads: SUBSET Sources, whole: SUBSET Calls, part: SUBSET Calls]

ASSUME CallAssumption == Calls \subseteq Nat /\ Session \in [Calls -> {Session[c] : c \in Calls}]
ASSUME ProcessAssumption == Hooks \cap Drainers = {} /\ None \notin Analyses
ASSUME BindableAssumption == Bindable \subseteq Sources
ASSUME ProducedAssumption ==
    Produced \subseteq {e \in Calls \X Calls : e[1] < e[2]}
ASSUME VerdictAssumption ==
    /\ Verdicts \in [Calls -> SUBSET Uses]
    /\ None \notin UNION {Verdicts[c] : c \in Calls}
    /\ \A c \in Calls : \A v \in Verdicts[c] :
        /\ v.whole \cap v.part = {}
        /\ \A p \in v.whole \cup v.part : p < c
        /\ \A p \in v.whole : Session[p] = Session[c]
        /\ \A p \in v.part : Session[p] = Session[c] \/ <<p, c>> \in Produced

VARIABLES
    completed,      \* calls whose PostToolUse was recorded
    registered,     \* protected_sources of the workspace
    revisions,      \* graph_revisions with their edges and links
    heads,          \* graph_heads
    reviews,        \* graph_completed_reviews: a revision for each request
    lock,           \* holder of each session's lock
    pc,             \* where each analysis is
    stack,          \* its calls of assess(), innermost last
    assessed,       \* its tables of assessed, one for each open analyze_properties()
    decision        \* its last decision

database == <<completed, registered, revisions, heads, reviews>>
vars == <<database, lock, pc, stack, assessed, decision>>

-------------------------------------------------------------------------------
(* Data *)

Scopes   == {"whole", "part"}
Requests == Calls \X Scopes

parents(verdict) == verdict.whole \cup verdict.part
scopeOf(verdict, p) == IF p \in verdict.part THEN "part" ELSE "whole"

\* A revision is named by the digest of its request, its verdict and its links:
\* here it is their record.
revisionOf(frame) ==
    [call |-> frame.call, scope |-> frame.scope, verdict |-> frame.verdict, links |-> frame.links]

Frame(c, scope) ==
    [call |-> c, scope |-> scope, verdict |-> None, links |-> [p \in {} |-> None], head |-> None]

NoDecision == [call |-> None, action |-> "none", own |-> None, judged |-> None]

top(a)  == stack[a][Len(stack[a])]
below(a) == SubSeq(stack[a], 1, Len(stack[a]) - 1)
table(a) == assessed[a][Len(assessed[a])]

\* A frame of another session than the one below it was opened by a nested
\* analyze_properties().
nested(a) == /\ Len(stack[a]) > 1
             /\ Session[top(a).call] # Session[stack[a][Len(stack[a]) - 1].call]

Init ==
    /\ completed = {} /\ registered = {}
    /\ revisions = {}
    /\ heads = [c \in Calls |-> None]
    /\ reviews = [r \in Requests |-> None]
    /\ lock = [s \in Sessions |-> None]
    /\ pc = [a \in Analyses |-> "idle"]
    /\ stack = [a \in Analyses |-> <<>>]
    /\ assessed = [a \in Analyses |-> <<>>]
    /\ decision = [a \in Analyses |-> NoDecision]

goto(a, label) == pc' = [pc EXCEPT ![a] = label]
setTop(a, frame) == stack' = [stack EXCEPT ![a] = Append(below(a), frame)]

linked(frame, p, revision) ==
    [frame EXCEPT !.links = [q \in DOMAIN @ \cup {p} |-> IF q = p THEN revision ELSE @[q]]]

-------------------------------------------------------------------------------
(* The world *)

Register(s) ==
    /\ s \notin registered
    /\ registered' = registered \cup {s}
    /\ UNCHANGED <<completed, revisions, heads, reviews, lock, pc, stack, assessed, decision>>

\* A call is executed when no Hook decides on it (any more).
Complete(c) ==
    /\ c \notin completed
    /\ \A a \in Hooks : stack[a] # <<>> => stack[a][1].call # c
    /\ {p \in Calls : <<p, c>> \in Produced} \subseteq completed
    /\ completed' = completed \cup {c}
    /\ UNCHANGED <<registered, revisions, heads, reviews, lock, pc, stack, assessed, decision>>

-------------------------------------------------------------------------------
(* analyze_properties() *)

open(a, c) ==
    /\ stack' = [stack EXCEPT ![a] = <<Frame(c, "whole")>>]
    /\ assessed' = [assessed EXCEPT ![a] = <<{}>>]
    /\ decision' = [decision EXCEPT ![a] = NoDecision]
    /\ goto(a, "assess")
    /\ UNCHANGED database

\* A Hook decides before a call, a job comes after it.
eligible(a, c) ==
    /\ a \in Hooks <=> c \notin completed
    /\ {p \in Calls : <<p, c>> \in Produced} \subseteq completed

Begin(a, c) ==
    /\ pc[a] = "idle" /\ eligible(a, c)
    /\ lock[Session[c]] = None
    /\ lock' = [lock EXCEPT ![Session[c]] = a]
    /\ open(a, c)

\* The verdict of a completed review is used again, unless the evidence it was
\* based on has changed; otherwise the model is asked.  Only completed calls are
\* candidates for its answer.
Judge(a) ==
    LET frame == top(a)
        review == reviews[<<frame.call, frame.scope>>]
    IN
    /\ pc[a] = "assess" /\ frame.verdict = None
    /\ \E verdict \in Verdicts[frame.call] :
        /\ parents(verdict) \subseteq completed \/ (review # None /\ review.verdict = verdict)
        /\ setTop(a, [frame EXCEPT !.verdict = verdict])
    /\ UNCHANGED <<database, lock, pc, assessed, decision>>

unlinked(a) == parents(top(a).verdict) \ DOMAIN top(a).links

\* A parent that this analysis has assessed is not assessed again.
Reuse(a, revision) ==
    /\ pc[a] = "assess" /\ top(a).verdict # None
    /\ revision \in table(a)
    /\ revision.call \in unlinked(a)
    /\ revision.scope = scopeOf(top(a).verdict, revision.call)
    /\ Session[revision.call] = Session[top(a).call]
    /\ setTop(a, linked(top(a), revision.call, revision))
    /\ UNCHANGED <<database, lock, pc, assessed, decision>>

Descend(a, p) ==
    LET scope == scopeOf(top(a).verdict, p)
        here == Session[p] = Session[top(a).call]
    IN
    /\ pc[a] = "assess" /\ top(a).verdict # None /\ p \in unlinked(a)
    /\ here => ~ \E r \in table(a) : r.call = p /\ r.scope = scope
    /\ stack' = [stack EXCEPT ![a] = Append(@, Frame(p, scope))]
    /\ assessed' = [assessed EXCEPT ![a] = IF here THEN @ ELSE Append(@, {})]
    /\ UNCHANGED <<database, lock, pc, decision>>

\* The head is read before the transaction that stores the revision.
NoteHead(a) ==
    /\ pc[a] = "assess" /\ top(a).verdict # None /\ unlinked(a) = {}
    /\ setTop(a, [top(a) EXCEPT !.head = heads[top(a).call]])
    /\ goto(a, "persist")
    /\ UNCHANGED <<database, lock, assessed, decision>>

\* assess() returns to the call that waits for it, or to the final transaction.
returnFrom(a, revision) ==
    LET outer == below(a)
        known == [assessed[a] EXCEPT ![Len(assessed[a])] = @ \cup {revision}]
    IN
    /\ IF outer = <<>>
       THEN goto(a, "final") /\ UNCHANGED stack
       ELSE /\ goto(a, "assess")
            /\ stack' = [stack EXCEPT ![a] =
                    [outer EXCEPT ![Len(outer)] = linked(@, revision.call, revision)]]
    /\ assessed' = [assessed EXCEPT ![a] =
            IF nested(a) THEN SubSeq(@, 1, Len(@) - 1) ELSE known]

\* Mutant: a scoped revision becomes the head like any other.
headAlways(frame, revision) == revision

\* Mutant: a head that is there is kept.
headKept(frame, revision) ==
    IF frame.scope = "whole" /\ frame.head = None THEN revision ELSE frame.head

\* A scoped revision leaves the head that was noted.
headAfter(frame, revision) == IF frame.scope = "whole" THEN revision ELSE frame.head

\* Mutant: a scoped revision is not worth a row of its own.
storedWhole(revision) ==
    IF revision.scope = "whole" THEN revisions \cup {revision} ELSE revisions

stored(revision) == revisions \cup {revision}

\* persist(), the edges of resources, the head and the completed review are one
\* transaction.
Persist(a) ==
    LET frame == top(a)
        revision == revisionOf(frame)
    IN
    /\ pc[a] = "persist"
    /\ revisions' = stored(revision)
    /\ heads' = [heads EXCEPT ![frame.call] = headAfter(frame, revision)]
    /\ reviews' = IF frame.verdict.complete
                  THEN [reviews EXCEPT ![<<frame.call, frame.scope>>] = revision]
                  ELSE reviews
    /\ returnFrom(a, revision)
    /\ UNCHANGED <<completed, registered, lock, decision>>

\* The ancestry of a revision, by the revisions it has pinned.
ancestry(revision) ==
    LET up[r \in revisions] == {r} \cup UNION {up[r.links[p]] : p \in DOMAIN r.links}
    IN up[revision]

\* A resource is a root wherever a recorded revision has read it.  Background
\* work does not look at the policy; that it may also end with a local operation
\* is left out.
verdictOn(revision, policy) ==
    IF revision = None THEN "unavailable"
    ELSE IF \E r \in ancestry(revision) : r.verdict.reads \cap policy \cap Bindable # {}
         THEN "block"
    ELSE IF policy \subseteq Bindable /\ \A r \in ancestry(revision) : r.verdict.complete
         THEN "allow"
    ELSE "unavailable"

\* The final transaction starts from the head of the call.
Decide(a) ==
    LET c == top(a).call IN
    /\ pc[a] = "final"
    /\ decision' = [decision EXCEPT ![a] =
            [call |-> c, own |-> revisionOf(top(a)), judged |-> heads[c],
             action |-> verdictOn(heads[c], IF a \in Hooks THEN registered ELSE {})]]
    /\ lock' = [lock EXCEPT ![Session[c]] = None]
    /\ stack' = [stack EXCEPT ![a] = <<>>]
    /\ assessed' = [assessed EXCEPT ![a] = <<>>]
    /\ goto(a, "idle")
    /\ UNCHANGED database

\* The model fails, a budget ends or the process is killed: what is stored stays.
Abandon(a) ==
    /\ pc[a] # "idle"
    /\ lock' = [s \in Sessions |-> IF lock[s] = a THEN None ELSE lock[s]]
    /\ stack' = [stack EXCEPT ![a] = <<>>]
    /\ assessed' = [assessed EXCEPT ![a] = <<>>]
    /\ goto(a, "idle")
    /\ UNCHANGED <<database, decision>>

-------------------------------------------------------------------------------

Next ==
    \/ \E s \in Sources : Register(s)
    \/ \E c \in Calls : Complete(c)
    \/ \E a \in Analyses :
        \/ \E c \in Calls : Begin(a, c) \/ Descend(a, c)
        \/ \E r \in revisions : Reuse(a, r)
        \/ Judge(a) \/ NoteHead(a) \/ Persist(a) \/ Decide(a) \/ Abandon(a)

Spec == Init /\ [][Next]_vars

-------------------------------------------------------------------------------
(* Properties *)

\* The values of the database and of the analyses.
TypeOK ==
    /\ completed \subseteq Calls /\ registered \subseteq Sources
    /\ \A c \in Calls : heads[c] \in revisions \cup {None}
    /\ \A q \in Requests : reviews[q] \in revisions \cup {None}
    /\ lock \in [Sessions -> Analyses \cup {None}]
    /\ pc \in [Analyses -> {"idle", "assess", "persist", "final"}]
    /\ \A a \in Analyses :
        /\ pc[a] = "idle" <=> stack[a] = <<>>
        /\ \A i \in 1 .. Len(stack[a]) :
            /\ stack[a][i].call \in Calls /\ stack[a][i].scope \in Scopes
            /\ stack[a][i].verdict \in Verdicts[stack[a][i].call] \cup {None}
            /\ \A p \in DOMAIN stack[a][i].links : stack[a][i].links[p] \in revisions
        /\ \A i \in 1 .. Len(assessed[a]) : assessed[a][i] \subseteq revisions
        /\ decision[a].action \in {"none", "allow", "block", "unavailable"}

\* The graph is closed: whatever was abandoned on the way, each recorded revision
\* pins, for every call its verdict depends on and nothing else, a recorded
\* revision of that call with the scope that was demanded, so a traversal never
\* meets a missing revision (revision_parents).
GraphIsClosed ==
    \A r \in revisions :
        /\ DOMAIN r.links = parents(r.verdict)
        /\ \A p \in DOMAIN r.links :
            /\ r.links[p] \in revisions
            /\ r.links[p].call = p /\ r.links[p].scope = scopeOf(r.verdict, p)

\* A head is a review of the whole operation, whatever parts of it were reviewed
\* for other calls and other sessions; so is a completed review of its request.
HeadsAreWhole ==
    /\ \A c \in Calls : heads[c] # None => heads[c].call = c /\ heads[c].scope = "whole"
    /\ \A q \in Requests : reviews[q] # None =>
        reviews[q].call = q[1] /\ reviews[q].scope = q[2] /\ reviews[q].verdict.complete

\* What a Hook decides is about the revision it has just assessed itself, although
\* the final transaction looks the head of the call up again: jobs and the
\* analyses of other sessions do not move it meanwhile.
HookDecidesOwn ==
    \A a \in Hooks : decision[a].action # "none" => decision[a].judged = decision[a].own

\* "Keep scoped reviews out of the whole-operation head" (property_graph.py:504):
\* an assessment of a part of a call leaves all heads as they are.
ScopedLeavesHeads ==
    [][\A a \in Analyses :
        pc[a] = "persist" /\ top(a).scope = "part" /\ revisions' # revisions
          => heads' = heads]_vars
===============================================================================
