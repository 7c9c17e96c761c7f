----------------------------- MODULE AnalysisProofs -----------------------------
(***************************************************************************)
(* Proofs about the two components that analyse a call: PropertyGraph, for *)
(* any calls, sessions, processes and answers of the model, and            *)
(* ReviewCheckpoints, for any reviewers, batches, files and rounds.        *)
(*                                                                         *)
(* Two facts carry the graph.  The database only grows: a revision that is *)
(* pinned, or a call that is completed, stays so whatever is abandoned.    *)
(* And a Hook's own call is out of reach of all other assessments while it *)
(* decides: they assess completed calls, or they hold the lock of another  *)
(* session.                                                                *)
(*                                                                         *)
(* One fact carries the review.  A receipt that was acquired with the      *)
(* earlier calls of a batch says of each path whether it is admitted       *)
(* there, so that receipts verified with the current call alone, where     *)
(* less is admitted, are those that the batch would acquire now.           *)
(***************************************************************************)
EXTENDS PropertyGraph, ReviewCheckpoints, Integers, SequenceTheorems, TLAPS

-------------------------------------------------------------------------------
(* The graph: its inductive invariant *)

Links(R) == UNION {[S -> R] : S \in SUBSET Calls}

Frames(R) == [call: Calls, scope: Scopes, verdict: Uses \cup {None}, links: Links(R),
              head: R \cup {None}]

Typed ==
    /\ completed \subseteq Calls /\ registered \subseteq Sources
    /\ \A r \in revisions :
        r \in [call: Calls, scope: Scopes, verdict: Uses, links: Links(revisions)]
    /\ heads \in [Calls -> revisions \cup {None}]
    /\ reviews \in [Requests -> revisions \cup {None}]
    /\ lock \in [Sessions -> Analyses \cup {None}]
    /\ pc \in [Analyses -> {"idle", "assess", "persist", "final"}]
    /\ stack \in [Analyses -> Seq(Frames(revisions))]
    /\ assessed \in [Analyses -> Seq(SUBSET revisions)]
    /\ DOMAIN decision = Analyses
    /\ \A a \in Analyses : decision[a].action \in {"none", "allow", "block", "unavailable"}

\* What a verdict on call c pins, when C are the completed calls and R the revisions.
Pins(c, v, links, C, R) ==
    /\ v \in Verdicts[c] /\ parents(v) \subseteq C
    /\ DOMAIN links \subseteq parents(v)
    /\ \A p \in DOMAIN links :
        links[p] \in R /\ links[p].call = p /\ links[p].scope = scopeOf(v, p)

Sound(f, C, R) ==
    /\ IF f.verdict = None THEN DOMAIN f.links = {}
                           ELSE Pins(f.call, f.verdict, f.links, C, R)
    /\ f.head # None => f.head.call = f.call /\ f.head.scope = "whole"

\* A frame that waits for the one above it.
Awaits(f, g) ==
    /\ f.verdict # None
    /\ g.call \in parents(f.verdict) /\ g.scope = scopeOf(f.verdict, g.call)

Stacked(s, C, R) ==
    /\ \A i \in 1 .. Len(s) : Sound(s[i], C, R)
    /\ \A i \in 1 .. Len(s) - 1 : Awaits(s[i], s[i + 1])
    /\ s # <<>> => s[1].scope = "whole"

Analysis(a) ==
    /\ Stacked(stack[a], completed, revisions)
    /\ pc[a] = "idle" <=> stack[a] = <<>>
    /\ pc[a] = "persist" => top(a).verdict # None /\ unlinked(a) = {}
    /\ pc[a] = "final" => Len(stack[a]) = 1 /\ top(a).verdict # None

\* Every recorded revision pins all it depends on, on completed calls.
Recorded ==
    /\ \A r \in revisions :
        /\ Pins(r.call, r.verdict, r.links, completed, revisions)
        /\ DOMAIN r.links = parents(r.verdict)
    /\ HeadsAreWhole

\* Who assesses a call, and which call a Hook may assess.
Exclusive ==
    \A a \in Analyses : stack[a] # <<>> =>
        /\ lock[Session[stack[a][1].call]] = a
        /\ a \in Hooks <=> stack[a][1].call \notin completed

\* A lock that is held is held for an analysis that is open in its session.
LocksAreWorked ==
    \A s \in Sessions : lock[s] # None =>
        lock[s] \in Analyses /\ stack[lock[s]] # <<>> /\ Session[stack[lock[s]][1].call] = s

Own ==
    \A a \in Hooks : pc[a] = "final" => heads[top(a).call] = revisionOf(top(a))

\* The first part is inductive by itself.
GraphBase == Typed /\ (\A a \in Analyses : Analysis(a)) /\ Recorded
GraphInv  == GraphBase /\ Exclusive /\ LocksAreWorked /\ Own /\ HookDecidesOwn

-------------------------------------------------------------------------------
(* Links, frames and stacks *)

LEMMA ParentsAreCalls ==
    ASSUME NEW c \in Calls, NEW v \in Verdicts[c]
    PROVE  /\ v \in Uses /\ v # None
           /\ parents(v) \subseteq Calls
           /\ \A p \in parents(v) : p < c /\ scopeOf(v, p) \in Scopes
<1>1. Verdicts[c] \subseteq Uses
  BY VerdictAssumption
<1>2. v \in Uses
  BY <1>1
<1>3. v # None
  BY VerdictAssumption
<1>4. parents(v) \subseteq Calls
  BY <1>2 DEF Uses, parents
<1>5. \A p \in parents(v) : p < c
  BY VerdictAssumption DEF parents
<1>6. \A p \in parents(v) : scopeOf(v, p) \in Scopes
  BY DEF scopeOf, Scopes
<1> QED  BY <1>2, <1>3, <1>4, <1>5, <1>6

LEMMA NoLinks == ASSUME NEW R PROVE [p \in {} |-> None] \in Links(R)
<1>1. [p \in {} |-> None] \in [{} -> R]
  OBVIOUS
<1> QED  BY <1>1 DEF Links

LEMMA LinksDomain ==
    ASSUME NEW R, NEW l \in Links(R)
    PROVE  DOMAIN l \subseteq Calls /\ \A p \in DOMAIN l : l[p] \in R
BY DEF Links

LEMMA LinksGrow ==
    ASSUME NEW R, NEW S, R \subseteq S
    PROVE  /\ Links(R) \subseteq Links(S) /\ Frames(R) \subseteq Frames(S)
           /\ Seq(Frames(R)) \subseteq Seq(Frames(S))
<1>1. ASSUME NEW l \in Links(R) PROVE l \in Links(S)
  <2>1. PICK T \in SUBSET Calls : l \in [T -> R]
    BY DEF Links
  <2>2. l \in [T -> S]
    BY <2>1
  <2> QED  BY <2>2 DEF Links
<1>2. Frames(R) \subseteq Frames(S)
  BY <1>1 DEF Frames
<1> QED  BY <1>1, <1>2

LEMMA LinkedFrame ==
    ASSUME NEW R, NEW f \in Frames(R), NEW p \in Calls, NEW r \in R
    PROVE  LET g == linked(f, p, r) IN
           /\ g \in Frames(R)
           /\ g.call = f.call /\ g.scope = f.scope /\ g.verdict = f.verdict /\ g.head = f.head
           /\ DOMAIN g.links = DOMAIN f.links \cup {p}
           /\ g.links[p] = r
           /\ \A q \in DOMAIN f.links \ {p} : g.links[q] = f.links[q]
<1> DEFINE l == [q \in DOMAIN f.links \cup {p} |-> IF q = p THEN r ELSE f.links[q]]
<1>1. f.links \in Links(R)
  BY DEF Frames
<1>2. DOMAIN f.links \subseteq Calls /\ \A q \in DOMAIN f.links : f.links[q] \in R
  BY <1>1, LinksDomain
<1>3. l \in [DOMAIN f.links \cup {p} -> R] /\ DOMAIN f.links \cup {p} \in SUBSET Calls
  BY <1>2
<1>4. l \in Links(R)
  BY <1>3 DEF Links
<1>5. linked(f, p, r) = [f EXCEPT !.links = l]
  BY DEF linked
<1>6. [f EXCEPT !.links = l] \in Frames(R)
  BY <1>4 DEF Frames
<1> HIDE DEF l
<1>7. LET g == [f EXCEPT !.links = l] IN
      /\ g.call = f.call /\ g.scope = f.scope /\ g.verdict = f.verdict /\ g.head = f.head
      /\ g.links = l
  BY DEF Frames
<1>8. DOMAIN l = DOMAIN f.links \cup {p} /\ l[p] = r
      /\ \A q \in DOMAIN f.links \ {p} : l[q] = f.links[q]
  BY DEF l
<1> QED  BY <1>5, <1>6, <1>7, <1>8

LEMMA BelowTop ==
    ASSUME NEW F, NEW s \in Seq(F), s # <<>>
    PROVE  LET outer == SubSeq(s, 1, Len(s) - 1) IN
           /\ outer \in Seq(F) /\ Len(outer) = Len(s) - 1
           /\ \A i \in 1 .. Len(s) - 1 : outer[i] = s[i]
<1>1. PICK n \in Nat : n = Len(s) /\ n >= 1
  BY EmptySeq
<1>2. \A i \in 1 .. n - 1 : s[i] \in F
  BY <1>1, ElementOfSeq
<1> DEFINE outer == SubSeq(s, 1, n - 1)
<1>3. /\ outer \in Seq(F)
      /\ Len(outer) = IF 1 <= n - 1 THEN n - 1 - 1 + 1 ELSE 0
      /\ \A i \in 1 .. n - 1 - 1 + 1 : outer[i] = s[1 + i - 1]
  BY <1>2, SubSeqProperties
<1> HIDE DEF outer
<1>4. Len(outer) = n - 1
  <2>1. n = 1 \/ n > 1
    BY <1>1
  <2> QED  BY <1>3, <2>1
<1>5. ASSUME NEW i \in 1 .. n - 1 PROVE outer[i] = s[i]
  <2>1. i \in 1 .. n - 1 - 1 + 1 /\ 1 + i - 1 = i
    OBVIOUS
  <2> QED  BY <1>3, <2>1
<1> QED  BY <1>1, <1>3, <1>4, <1>5 DEF outer

\* The frame on top is replaced.
LEMMA TopReplaced ==
    ASSUME NEW F, NEW s \in Seq(F), s # <<>>, NEW f \in F
    PROVE  LET t == Append(SubSeq(s, 1, Len(s) - 1), f) IN
           /\ t \in Seq(F) /\ Len(t) = Len(s) /\ t[Len(s)] = f
           /\ \A i \in 1 .. Len(s) - 1 : t[i] = s[i]
<1>1. PICK n \in Nat : n = Len(s) /\ n >= 1
  BY EmptySeq
<1> DEFINE outer == SubSeq(s, 1, n - 1)
           t == Append(outer, f)
<1>2. outer \in Seq(F) /\ Len(outer) = n - 1 /\ \A i \in 1 .. n - 1 : outer[i] = s[i]
  BY <1>1, BelowTop
<1> HIDE DEF outer
<1>3. /\ t \in Seq(F) /\ Len(t) = n - 1 + 1 /\ t[n - 1 + 1] = f
      /\ \A i \in 1 .. n - 1 : t[i] = outer[i]
  BY <1>2, AppendProperties
<1> HIDE DEF t
<1>4. Len(t) = n /\ t[n] = f /\ \A i \in 1 .. n - 1 : t[i] = s[i]
  <2>1. n - 1 + 1 = n
    OBVIOUS
  <2> QED  BY <1>2, <1>3, <2>1
<1> QED  BY <1>1, <1>3, <1>4 DEF t, outer

\* The frame on top is gone and the one below it is replaced.
LEMMA TopReturned ==
    ASSUME NEW F, NEW s \in Seq(F), NEW f \in F,
           s # <<>>, SubSeq(s, 1, Len(s) - 1) # <<>>
    PROVE  LET outer == SubSeq(s, 1, Len(s) - 1)
               t == [outer EXCEPT ![Len(outer)] = f] IN
           /\ t \in Seq(F) /\ Len(s) >= 2 /\ Len(t) = Len(s) - 1 /\ t[Len(s) - 1] = f
           /\ Len(outer) = Len(s) - 1 /\ outer[Len(outer)] = s[Len(s) - 1]
           /\ \A i \in 1 .. Len(s) - 2 : t[i] = s[i]
<1>1. PICK n \in Nat : n = Len(s) /\ n >= 1
  BY EmptySeq
<1> DEFINE outer == SubSeq(s, 1, n - 1)
           t == [outer EXCEPT ![n - 1] = f]
<1>2. outer \in Seq(F) /\ Len(outer) = n - 1 /\ \A i \in 1 .. n - 1 : outer[i] = s[i]
  BY <1>1, BelowTop
<1>3. outer # <<>>
  BY <1>1
<1> HIDE DEF outer
<1>4. n >= 2
  <2>1. Len(outer) \in Nat \ {0}
    BY <1>2, <1>3, EmptySeq
  <2> QED  BY <1>1, <1>2, <2>1
<1>5. outer \in [1 .. n - 1 -> F]
  BY <1>2, LenProperties
<1>6. t \in [1 .. n - 1 -> F]
  BY <1>5
<1>7. t[n - 1] = f /\ \A i \in 1 .. n - 2 : t[i] = outer[i]
  BY <1>4, <1>5
<1> HIDE DEF t
<1>8. t \in Seq(F) /\ Len(t) = n - 1
  BY <1>4, <1>6
<1>9. outer[n - 1] = s[n - 1] /\ \A i \in 1 .. n - 2 : t[i] = s[i]
  BY <1>2, <1>4, <1>7
<1> QED  BY <1>1, <1>2, <1>4, <1>7, <1>8, <1>9 DEF t, outer

-------------------------------------------------------------------------------
(* The database only grows *)

LEMMA Grows == [Next]_vars => completed \subseteq completed' /\ revisions \subseteq revisions'
<1> SUFFICES ASSUME [Next]_vars
             PROVE  completed \subseteq completed' /\ revisions \subseteq revisions'
  OBVIOUS
<1>1. ASSUME NEW s \in Sources, Register(s) PROVE UNCHANGED <<completed, revisions>>
  BY <1>1 DEF Register
<1>2. ASSUME NEW c \in Calls, Complete(c)
      PROVE  completed \subseteq completed' /\ UNCHANGED revisions
  BY <1>2 DEF Complete
<1>3. ASSUME NEW a \in Analyses, NEW c \in Calls, Begin(a, c) \/ Descend(a, c)
      PROVE  UNCHANGED <<completed, revisions>>
  BY <1>3 DEF Begin, open, Descend, database
<1>4. ASSUME NEW a \in Analyses, NEW r \in revisions, Reuse(a, r)
      PROVE  UNCHANGED <<completed, revisions>>
  BY <1>4 DEF Reuse, database
<1>5. ASSUME NEW a \in Analyses, Judge(a) \/ NoteHead(a) \/ Decide(a) \/ Abandon(a)
      PROVE  UNCHANGED <<completed, revisions>>
  BY <1>5 DEF Judge, NoteHead, Decide, Abandon, database
<1>6. ASSUME NEW a \in Analyses, Persist(a)
      PROVE  UNCHANGED completed /\ revisions \subseteq revisions'
  BY <1>6 DEF Persist, stored
<1>7. CASE UNCHANGED vars
  BY <1>7 DEF vars, database
<1> QED  BY <1>1, <1>2, <1>3, <1>4, <1>5, <1>6, <1>7 DEF Next

LEMMA StackedGrows ==
    ASSUME NEW s, NEW C, NEW D, NEW R, NEW S, C \subseteq D, R \subseteq S, Stacked(s, C, R)
    PROVE  Stacked(s, D, S)
<1>1. ASSUME NEW i \in 1 .. Len(s) PROVE Sound(s[i], D, S)
  <2>1. Sound(s[i], C, R)
    BY DEF Stacked
  <2> QED  BY <2>1 DEF Sound, Pins
<1> QED  BY <1>1 DEF Stacked

-------------------------------------------------------------------------------
(* What an analysis may do to its stack *)

LEMMA StackTyped ==
    ASSUME Typed, NEW a \in Analyses, NEW R, revisions \subseteq R,
           NEW s \in Seq(Frames(R)), stack' = [stack EXCEPT ![a] = s]
    PROVE  /\ stack' \in [Analyses -> Seq(Frames(R))]
           /\ stack'[a] = s /\ \A b \in Analyses \ {a} : stack'[b] = stack[b]
<1>1. Seq(Frames(revisions)) \subseteq Seq(Frames(R))
  BY LinksGrow
<1> QED  BY <1>1 DEF Typed

LEMMA FreshFrame ==
    ASSUME NEW R, NEW C, NEW c \in Calls, NEW scope \in Scopes
    PROVE  LET f == Frame(c, scope) IN
           /\ f \in Frames(R) /\ Sound(f, C, R)
           /\ f.call = c /\ f.scope = scope /\ f.verdict = None
<1>1. [p \in {} |-> None] \in Links(R)
  BY NoLinks
<1> QED  BY <1>1 DEF Frame, Frames, Sound

LEMMA TopTyped ==
    ASSUME Typed, NEW a \in Analyses, Analysis(a), pc[a] # "idle"
    PROVE  /\ stack[a] # <<>> /\ Len(stack[a]) \in 1 .. Len(stack[a])
           /\ top(a) \in Frames(revisions) /\ Sound(top(a), completed, revisions)
<1>1. stack[a] \in Seq(Frames(revisions)) /\ stack[a] # <<>>
  BY DEF Typed, Analysis
<1>2. Len(stack[a]) \in 1 .. Len(stack[a])
  BY <1>1, EmptySeq
<1>3. top(a) \in Frames(revisions)
  BY <1>1, <1>2, ElementOfSeq DEF top
<1> QED  BY <1>1, <1>2, <1>3 DEF Analysis, Stacked, top

\* The frame on top is replaced by one of the same request.
LEMMA SetTop ==
    ASSUME Typed, NEW a \in Analyses, Analysis(a), pc[a] # "idle",
           NEW f \in Frames(revisions), Sound(f, completed, revisions),
           f.call = top(a).call, f.scope = top(a).scope, setTop(a, f)
    PROVE  /\ stack' \in [Analyses -> Seq(Frames(revisions))]
           /\ \A b \in Analyses \ {a} : stack'[b] = stack[b]
           /\ Stacked(stack'[a], completed, revisions)
           /\ stack'[a] # <<>> /\ Len(stack'[a]) = Len(stack[a])
           /\ stack'[a][Len(stack'[a])] = f
           /\ stack'[a][1].call = stack[a][1].call
<1> DEFINE s == stack[a]
           t == Append(below(a), f)
<1>1. s \in Seq(Frames(revisions)) /\ s # <<>>
  BY DEF Typed, Analysis
<1>2. PICK n \in Nat : n = Len(s) /\ n >= 1
  BY <1>1, EmptySeq
<1>3. /\ t \in Seq(Frames(revisions)) /\ Len(t) = n /\ t[n] = f
      /\ \A i \in 1 .. n - 1 : t[i] = s[i]
  BY <1>1, <1>2, TopReplaced DEF below
<1>4. Stacked(s, completed, revisions) /\ top(a) = s[n]
  BY <1>2 DEF Analysis, top
<1>5. stack' = [stack EXCEPT ![a] = t]
  BY DEF setTop
<1> HIDE DEF s, t
<1>6. Stacked(t, completed, revisions)
  <2>1. ASSUME NEW i \in 1 .. n PROVE Sound(t[i], completed, revisions)
    <3>1. CASE i = n
      BY <1>3, <3>1
    <3>2. CASE i # n
      BY <1>2, <1>3, <1>4, <3>2 DEF Stacked
    <3> QED  BY <3>1, <3>2
  <2>2. ASSUME NEW i \in 1 .. n - 1 PROVE Awaits(t[i], t[i + 1])
    <3>1. Awaits(s[i], s[i + 1]) /\ t[i] = s[i]
      BY <1>2, <1>3, <1>4 DEF Stacked
    <3>2. t[i + 1].call = s[i + 1].call /\ t[i + 1].scope = s[i + 1].scope
      <4>1. CASE i + 1 = n
        BY <1>3, <1>4, <4>1
      <4>2. CASE i + 1 \in 1 .. n - 1
        BY <1>3, <4>2
      <4> QED  BY <4>1, <4>2
    <3> QED  BY <3>1, <3>2 DEF Awaits
  <2>3. t[1].scope = "whole"
    <3>1. s[1].scope = "whole"
      BY <1>1, <1>4 DEF Stacked, s
    <3>2. CASE n = 1
      BY <1>3, <1>4, <3>1, <3>2
    <3>3. CASE n # 1
      BY <1>2, <1>3, <3>1, <3>3
    <3> QED  BY <3>2, <3>3
  <2> QED  BY <1>3, <2>1, <2>2, <2>3 DEF Stacked
<1>7. t[1].call = s[1].call
  <2>1. CASE n = 1
    BY <1>3, <1>4, <2>1
  <2>2. CASE n # 1
    BY <1>2, <1>3, <2>2
  <2> QED  BY <2>1, <2>2
<1>8. t # <<>>
  BY <1>2, <1>3, EmptySeq
<1>9. /\ stack' \in [Analyses -> Seq(Frames(revisions))]
      /\ stack'[a] = t /\ \A b \in Analyses \ {a} : stack'[b] = stack[b]
  BY <1>3, <1>5, StackTyped
<1> QED  BY <1>2, <1>3, <1>6, <1>7, <1>8, <1>9 DEF s

-------------------------------------------------------------------------------
(* Types and stacks, step by step *)

\* An analysis that a step of another one, or of the world, leaves alone.
LEMMA Bystander ==
    ASSUME NEW b \in Analyses, Analysis(b), stack'[b] = stack[b], pc'[b] = pc[b],
           completed \subseteq completed', revisions \subseteq revisions'
    PROVE  Analysis(b)'
<1>1. Stacked(stack[b], completed', revisions')
  BY StackedGrows DEF Analysis
<1>2. Stacked(stack'[b], completed', revisions')
  BY <1>1
<1> QED  BY <1>2 DEF Analysis, top, unlinked

LEMMA AssessedTyped ==
    ASSUME NEW R, NEW q \in Seq(SUBSET R), NEW r \in R
    PROVE  /\ SubSeq(q, 1, Len(q) - 1) \in Seq(SUBSET R)
           /\ [q EXCEPT ![Len(q)] = @ \cup {r}] \in Seq(SUBSET R)
           /\ Append(q, {}) \in Seq(SUBSET R)
<1>1. PICK n \in Nat : n = Len(q)
  BY LenProperties
<1>2. q \in [1 .. n -> SUBSET R] /\ \A i \in 1 .. n - 1 : q[i] \in SUBSET R
  BY <1>1, LenProperties
<1>3. SubSeq(q, 1, n - 1) \in Seq(SUBSET R)
  BY <1>2, SubSeqProperties
<1>4. [q EXCEPT ![n] = @ \cup {r}] \in [1 .. n -> SUBSET R]
  BY <1>2
<1>5. [q EXCEPT ![n] = @ \cup {r}] \in Seq(SUBSET R)
  BY <1>4, SeqDef
<1>6. Append(q, {}) \in Seq(SUBSET R)
  BY AppendProperties
<1> QED  BY <1>1, <1>3, <1>5, <1>6

LEMMA BeginStep ==
    ASSUME Typed, NEW a \in Analyses, NEW c \in Calls, Begin(a, c)
    PROVE  /\ Typed' /\ Analysis(a)'
           /\ \A b \in Analyses \ {a} : stack'[b] = stack[b] /\ pc'[b] = pc[b]
           /\ stack'[a] # <<>> /\ stack'[a][1].call = c /\ pc'[a] = "assess"
<1> DEFINE f == Frame(c, "whole")
<1>1. /\ f \in Frames(revisions) /\ Sound(f, completed, revisions)
      /\ f.call = c /\ f.scope = "whole" /\ f.verdict = None
  BY FreshFrame DEF Scopes
<1>2. stack' = [stack EXCEPT ![a] = <<f>>] /\ UNCHANGED database
  BY DEF Begin, open
<1> HIDE DEF f
<1>3. <<f>> \in Seq(Frames(revisions)) /\ Len(<<f>>) = 1 /\ <<f>>[1] = f /\ <<f>> # <<>>
  BY <1>1
<1>4. /\ stack' \in [Analyses -> Seq(Frames(revisions))] /\ stack'[a] = <<f>>
      /\ \A b \in Analyses \ {a} : stack'[b] = stack[b]
  BY <1>2, <1>3, StackTyped
<1>5. /\ pc' \in [Analyses -> {"idle", "assess", "persist", "final"}] /\ pc'[a] = "assess"
      /\ \A b \in Analyses \ {a} : pc'[b] = pc[b]
  BY DEF Begin, open, goto, Typed
<1>6. lock' \in [Sessions -> Analyses \cup {None}]
  BY DEF Begin, Typed
<1>7. assessed' \in [Analyses -> Seq(SUBSET revisions)]
  <2>1. <<{}>> \in Seq(SUBSET revisions)
    OBVIOUS
  <2> QED  BY <2>1 DEF Begin, open, Typed
<1>8. Typed'
  <2>1. /\ DOMAIN decision' = Analyses
        /\ \A b \in Analyses :
            decision'[b].action \in {"none", "allow", "block", "unavailable"}
    BY DEF Begin, open, NoDecision, Typed
  <2> QED  BY <1>2, <1>4, <1>5, <1>6, <1>7, <2>1 DEF Typed, database
<1>9. Stacked(stack'[a], completed, revisions)
  BY <1>1, <1>3, <1>4 DEF Stacked
<1>10. Analysis(a)'
  BY <1>2, <1>3, <1>4, <1>5, <1>9 DEF Analysis, database
<1> QED  BY <1>1, <1>3, <1>4, <1>5, <1>8, <1>10

\* The steps that replace the frame on top.
LEMMA SetTopStep ==
    ASSUME Typed, NEW a \in Analyses, Analysis(a), pc[a] = "assess",
           NEW f \in Frames(revisions), Sound(f, completed, revisions),
           f.call = top(a).call, f.scope = top(a).scope, setTop(a, f),
           \/ UNCHANGED pc
           \/ goto(a, "persist") /\ f.verdict # None /\ parents(f.verdict) \subseteq DOMAIN f.links,
           UNCHANGED <<database, lock, assessed, decision>>
    PROVE  /\ Typed' /\ Analysis(a)'
           /\ \A b \in Analyses \ {a} : stack'[b] = stack[b] /\ pc'[b] = pc[b]
           /\ stack[a] # <<>> /\ stack'[a] # <<>> /\ stack'[a][1].call = stack[a][1].call
           /\ pc'[a] # "final"
<1>1. /\ stack' \in [Analyses -> Seq(Frames(revisions))]
      /\ \A b \in Analyses \ {a} : stack'[b] = stack[b]
      /\ Stacked(stack'[a], completed, revisions)
      /\ stack'[a] # <<>> /\ Len(stack'[a]) = Len(stack[a])
      /\ stack'[a][Len(stack'[a])] = f
      /\ stack'[a][1].call = stack[a][1].call
  BY SetTop
<1>2. /\ pc' \in [Analyses -> {"idle", "assess", "persist", "final"}]
      /\ pc'[a] \in {"assess", "persist"}
      /\ pc'[a] = "persist" => f.verdict # None /\ parents(f.verdict) \subseteq DOMAIN f.links
      /\ \A b \in Analyses \ {a} : pc'[b] = pc[b]
  BY DEF goto, Typed
<1>3. Typed'
  BY <1>1, <1>2 DEF Typed, database
<1>4. top(a)' = f
  BY <1>1 DEF top
<1>5. Analysis(a)'
  <2>1. pc'[a] = "persist" => top(a)'.verdict # None /\ unlinked(a)' = {}
    BY <1>2, <1>4 DEF unlinked
  <2> QED  BY <1>1, <1>2, <2>1 DEF Analysis, database
<1> QED  BY <1>1, <1>2, <1>3, <1>5 DEF Analysis

LEMMA JudgeStep ==
    ASSUME Typed, Recorded, NEW a \in Analyses, Analysis(a), Judge(a)
    PROVE  /\ Typed' /\ Analysis(a)'
           /\ \A b \in Analyses \ {a} : stack'[b] = stack[b] /\ pc'[b] = pc[b]
           /\ stack[a] # <<>> /\ stack'[a] # <<>> /\ stack'[a][1].call = stack[a][1].call
           /\ pc'[a] # "final"
<1>1. top(a) \in Frames(revisions) /\ Sound(top(a), completed, revisions)
  BY TopTyped DEF Judge
<1> DEFINE frame == top(a)
           review == reviews[<<frame.call, frame.scope>>]
<1>2. PICK v \in Verdicts[frame.call] :
        /\ parents(v) \subseteq completed \/ (review # None /\ review.verdict = v)
        /\ setTop(a, [frame EXCEPT !.verdict = v])
  BY DEF Judge
<1> DEFINE f == [frame EXCEPT !.verdict = v]
<1>3. frame.call \in Calls /\ frame.scope \in Scopes
  BY <1>1 DEF Frames
<1>4. v \in Uses /\ v # None
  BY <1>3, ParentsAreCalls
<1>5. parents(v) \subseteq completed
  <2>1. CASE review # None /\ review.verdict = v
    <3>1. review \in revisions
      BY <1>3, <2>1 DEF Typed, Requests
    <3> QED  BY <2>1, <3>1 DEF Recorded, Pins
  <2> QED  BY <1>2, <2>1
<1>6. f \in Frames(revisions) /\ f.call = frame.call /\ f.scope = frame.scope
      /\ f.verdict = v /\ f.links = frame.links /\ f.head = frame.head
  BY <1>1, <1>4 DEF Frames
<1>7. DOMAIN frame.links = {}
  BY <1>1 DEF Judge, Sound
<1>8. Sound(f, completed, revisions)
  <2>1. Pins(f.call, f.verdict, f.links, completed, revisions)
    BY <1>2, <1>5, <1>6, <1>7 DEF Pins
  <2> QED  BY <1>1, <1>4, <1>6, <2>1 DEF Sound
<1> HIDE DEF f
<1>9. setTop(a, f)
  BY <1>2 DEF f
<1> QED  BY <1>6, <1>8, <1>9, SetTopStep DEF Judge

LEMMA ReuseStep ==
    ASSUME Typed, NEW a \in Analyses, Analysis(a), NEW r \in revisions, Reuse(a, r)
    PROVE  /\ Typed' /\ Analysis(a)'
           /\ \A b \in Analyses \ {a} : stack'[b] = stack[b] /\ pc'[b] = pc[b]
           /\ stack[a] # <<>> /\ stack'[a] # <<>> /\ stack'[a][1].call = stack[a][1].call
           /\ pc'[a] # "final"
<1> DEFINE f == linked(top(a), r.call, r)
<1>1. top(a) \in Frames(revisions) /\ Sound(top(a), completed, revisions)
  BY TopTyped DEF Reuse
<1>2. /\ r.call \in parents(top(a).verdict) /\ top(a).verdict # None
      /\ r.scope = scopeOf(top(a).verdict, r.call)
  BY DEF Reuse, unlinked
<1>3. r.call \in Calls
  BY DEF Typed
<1>4. /\ f \in Frames(revisions)
      /\ f.call = top(a).call /\ f.scope = top(a).scope /\ f.verdict = top(a).verdict
      /\ f.head = top(a).head
      /\ DOMAIN f.links = DOMAIN top(a).links \cup {r.call}
      /\ f.links[r.call] = r
      /\ \A q \in DOMAIN top(a).links \ {r.call} : f.links[q] = top(a).links[q]
  BY <1>1, <1>3, LinkedFrame
<1> HIDE DEF f
<1>5. Sound(f, completed, revisions)
  <2>1. Pins(f.call, f.verdict, f.links, completed, revisions)
    BY <1>1, <1>2, <1>4 DEF Sound, Pins
  <2> QED  BY <1>1, <1>2, <1>4, <2>1 DEF Sound
<1>6. setTop(a, f)
  BY DEF Reuse, f
<1> QED  BY <1>4, <1>5, <1>6, SetTopStep DEF Reuse

LEMMA NoteHeadStep ==
    ASSUME Typed, Recorded, NEW a \in Analyses, Analysis(a), NoteHead(a)
    PROVE  /\ Typed' /\ Analysis(a)'
           /\ \A b \in Analyses \ {a} : stack'[b] = stack[b] /\ pc'[b] = pc[b]
           /\ stack[a] # <<>> /\ stack'[a] # <<>> /\ stack'[a][1].call = stack[a][1].call
           /\ pc'[a] # "final"
<1> DEFINE f == [top(a) EXCEPT !.head = heads[top(a).call]]
<1>1. top(a) \in Frames(revisions) /\ Sound(top(a), completed, revisions)
  BY TopTyped DEF NoteHead
<1>2. top(a).call \in Calls
  BY <1>1 DEF Frames
<1>3. heads[top(a).call] \in revisions \cup {None}
  BY <1>2 DEF Typed
<1>4. /\ f \in Frames(revisions)
      /\ f.call = top(a).call /\ f.scope = top(a).scope /\ f.verdict = top(a).verdict
      /\ f.links = top(a).links /\ f.head = heads[top(a).call]
  BY <1>1, <1>3 DEF Frames
<1> HIDE DEF f
<1>5. Sound(f, completed, revisions)
  BY <1>1, <1>2, <1>4 DEF Sound, Recorded, HeadsAreWhole
<1>6. f.verdict # None /\ parents(f.verdict) \subseteq DOMAIN f.links
  BY <1>4 DEF NoteHead, unlinked
<1>7. setTop(a, f)
  BY DEF NoteHead, f
<1> QED  BY <1>4, <1>5, <1>6, <1>7, SetTopStep DEF NoteHead

LEMMA DescendStep ==
    ASSUME Typed, NEW a \in Analyses, Analysis(a), NEW p \in Calls, Descend(a, p)
    PROVE  /\ Typed' /\ Analysis(a)'
           /\ \A b \in Analyses \ {a} : stack'[b] = stack[b] /\ pc'[b] = pc[b]
           /\ stack[a] # <<>> /\ stack'[a] # <<>> /\ stack'[a][1].call = stack[a][1].call
           /\ pc'[a] # "final"
<1> DEFINE scope == scopeOf(top(a).verdict, p)
           f == Frame(p, scope)
           s == stack[a]
           t == Append(s, f)
<1>1. /\ s \in Seq(Frames(revisions)) /\ s # <<>>
      /\ top(a) \in Frames(revisions) /\ Stacked(s, completed, revisions)
  BY TopTyped DEF Descend, Typed, Analysis
<1>2. PICK n \in Nat : n = Len(s) /\ n >= 1
  BY <1>1, EmptySeq
<1>3. top(a) = s[n] /\ top(a).verdict # None /\ p \in parents(top(a).verdict)
  BY <1>2 DEF Descend, unlinked, top
<1>4. f \in Frames(revisions) /\ Sound(f, completed, revisions) /\ f.call = p /\ f.scope = scope
  <2>1. scope \in Scopes
    BY DEF scopeOf, Scopes
  <2> QED  BY <2>1, FreshFrame
<1>5. stack' = [stack EXCEPT ![a] = t]
  BY DEF Descend, Typed
<1>6. Awaits(s[n], f)
  BY <1>3, <1>4 DEF Awaits
<1> HIDE DEF f
<1>7. /\ t \in Seq(Frames(revisions)) /\ t # <<>> /\ Len(t) = n + 1 /\ t[n + 1] = f
      /\ \A i \in 1 .. n : t[i] = s[i]
  BY <1>1, <1>2, <1>4, AppendProperties
<1> HIDE DEF s, t, scope
<1>8. Stacked(t, completed, revisions)
  <2>1. ASSUME NEW i \in 1 .. n + 1 PROVE Sound(t[i], completed, revisions)
    <3>1. CASE i = n + 1
      BY <1>4, <1>7, <3>1
    <3>2. CASE i \in 1 .. n
      BY <1>1, <1>2, <1>7, <3>2 DEF Stacked
    <3> QED  BY <3>1, <3>2
  <2>2. ASSUME NEW i \in 1 .. n PROVE Awaits(t[i], t[i + 1])
    <3>1. CASE i = n
      BY <1>2, <1>6, <1>7, <3>1
    <3>2. CASE i \in 1 .. n - 1
      <4>1. Awaits(s[i], s[i + 1])
        BY <1>1, <1>2, <3>2 DEF Stacked
      <4>2. t[i] = s[i] /\ t[i + 1] = s[i + 1]
        BY <1>7, <3>2
      <4> QED  BY <4>1, <4>2
    <3> QED  BY <3>1, <3>2
  <2>3. t[1].scope = "whole"
    BY <1>1, <1>2, <1>7 DEF Stacked
  <2>4. n + 1 - 1 = n
    OBVIOUS
  <2> QED  BY <1>7, <2>1, <2>2, <2>3, <2>4 DEF Stacked
<1>9. /\ stack' \in [Analyses -> Seq(Frames(revisions))] /\ stack'[a] = t
      /\ \A b \in Analyses \ {a} : stack'[b] = stack[b]
  BY <1>5, <1>7, StackTyped
<1>10. UNCHANGED <<database, lock, pc, decision>> /\ pc[a] = "assess"
  BY DEF Descend
<1>11. assessed' \in [Analyses -> Seq(SUBSET revisions)]
  <2> DEFINE here == Session[p] = Session[top(a).call]
  <2>1. assessed' = [assessed EXCEPT ![a] = IF here THEN @ ELSE Append(@, {})]
    BY DEF Descend
  <2>2. assessed[a] \in Seq(SUBSET revisions)
    BY DEF Typed
  <2>3. Append(assessed[a], {}) \in Seq(SUBSET revisions)
    BY <2>2, AppendProperties
  <2> QED  BY <2>1, <2>2, <2>3 DEF Typed
<1>12. Typed'
  BY <1>9, <1>10, <1>11 DEF Typed, database
<1>13. Analysis(a)'
  BY <1>7, <1>8, <1>9, <1>10 DEF Analysis, database
<1>14. t[1].call = stack[a][1].call
  BY <1>2, <1>7 DEF s
<1> QED  BY <1>1, <1>7, <1>9, <1>10, <1>12, <1>13, <1>14 DEF s

\* The revision that an assessment stores pins everything its verdict depends on.
LEMMA StoredRevision ==
    ASSUME Typed, NEW a \in Analyses, Analysis(a), Persist(a)
    PROVE  LET r == revisionOf(top(a)) IN
           /\ revisions' = revisions \cup {r}
           /\ r \in [call: Calls, scope: Scopes, verdict: Uses, links: Links(revisions')]
           /\ Pins(r.call, r.verdict, r.links, completed, revisions)
           /\ DOMAIN r.links = parents(r.verdict)
           /\ r.call = top(a).call /\ r.scope = top(a).scope /\ r.verdict = top(a).verdict
<1> DEFINE f == top(a)
           r == revisionOf(f)
<1>1. f \in Frames(revisions) /\ Sound(f, completed, revisions)
  BY TopTyped DEF Persist
<1>2. f.verdict # None /\ parents(f.verdict) \subseteq DOMAIN f.links
  BY DEF Analysis, Persist, unlinked
<1>3. revisions' = revisions \cup {r}
  BY DEF Persist, stored
<1>4. /\ r = [call |-> f.call, scope |-> f.scope, verdict |-> f.verdict, links |-> f.links]
      /\ r.call = f.call /\ r.scope = f.scope /\ r.verdict = f.verdict /\ r.links = f.links
  BY DEF revisionOf
<1> HIDE DEF r
<1>5. f.call \in Calls /\ f.scope \in Scopes /\ f.verdict \in Uses /\ f.links \in Links(revisions)
  BY <1>1, <1>2 DEF Frames
<1>6. f.links \in Links(revisions')
  BY <1>3, <1>5, LinksGrow
<1>7. Pins(r.call, r.verdict, r.links, completed, revisions)
  BY <1>1, <1>2, <1>4 DEF Sound
<1>8. DOMAIN r.links = parents(r.verdict)
  BY <1>2, <1>4, <1>7 DEF Pins
<1> QED  BY <1>3, <1>4, <1>5, <1>6, <1>7, <1>8 DEF r

\* assess() returns: to nobody, or to the frame that waits for this revision.
LEMMA Returned ==
    ASSUME Typed, NEW a \in Analyses, Analysis(a), Persist(a)
    PROVE  /\ stack' \in [Analyses -> Seq(Frames(revisions'))]
           /\ \A b \in Analyses \ {a} : stack'[b] = stack[b] /\ pc'[b] = pc[b]
           /\ pc' \in [Analyses -> {"idle", "assess", "persist", "final"}]
           /\ stack[a] # <<>> /\ stack'[a] # <<>> /\ stack'[a][1].call = stack[a][1].call
           /\ Analysis(a)'
           /\ pc'[a] = "final" => stack'[a] = stack[a] /\ Len(stack[a]) = 1
<1> DEFINE s == stack[a]
           f == top(a)
           r == revisionOf(f)
           outer == SubSeq(s, 1, Len(s) - 1)
<1>1. /\ s \in Seq(Frames(revisions)) /\ s # <<>>
      /\ Stacked(s, completed, revisions)
  BY DEF Typed, Analysis, Persist
<1>2. PICK n \in Nat : n = Len(s) /\ n >= 1 /\ f = s[n]
  BY <1>1, EmptySeq DEF top
<1>3. /\ revisions' = revisions \cup {r} /\ completed' = completed
      /\ r.call = f.call /\ r.scope = f.scope
      /\ r \in revisions'
  BY StoredRevision DEF Persist
<1>4. f.verdict # None /\ f.call \in Calls
  BY TopTyped DEF Analysis, Persist, Frames
<1>5. Stacked(s, completed, revisions')
  BY <1>1, <1>3, StackedGrows
<1>6. CASE outer = <<>>
  <2>1. stack' = stack /\ goto(a, "final")
    BY <1>6 DEF Persist, returnFrom, below
  <2>2. Len(s) = 1
    <3>1. Len(outer) = n - 1 /\ Len(outer) = 0
      BY <1>1, <1>2, <1>6, BelowTop, EmptySeq
    <3> HIDE DEF outer
    <3>2. n = 1
      BY <3>1
    <3> QED  BY <1>2, <3>2
  <2>3. stack' \in [Analyses -> Seq(Frames(revisions'))]
    <3>1. Seq(Frames(revisions)) \subseteq Seq(Frames(revisions'))
      BY <1>3, LinksGrow
    <3> QED  BY <2>1, <3>1 DEF Typed
  <2>4. /\ pc' \in [Analyses -> {"idle", "assess", "persist", "final"}] /\ pc'[a] = "final"
        /\ \A b \in Analyses \ {a} : pc'[b] = pc[b]
    BY <2>1 DEF goto, Typed
  <2>5. Analysis(a)'
    BY <1>1, <1>3, <1>4, <1>5, <2>1, <2>2, <2>4 DEF Analysis, top
  <2> QED  BY <1>1, <2>1, <2>2, <2>3, <2>4, <2>5
<1>7. CASE outer # <<>>
  <2> DEFINE g == linked(s[n - 1], r.call, r)
             t == [outer EXCEPT ![Len(outer)] = g]
  <2>1. s[n - 1] \in Frames(revisions) /\ n >= 2 /\ Len(outer) = n - 1
        /\ outer[Len(outer)] = s[n - 1]
    <3>1. f \in Frames(revisions)
      BY <1>1, <1>2, ElementOfSeq
    <3>2. n >= 2 /\ Len(outer) = n - 1 /\ outer[Len(outer)] = s[n - 1]
      BY <1>1, <1>2, <1>7, <3>1, TopReturned
    <3> QED  BY <1>1, <1>2, <3>2, ElementOfSeq
  <2>2. s[n - 1] \in Frames(revisions') /\ s \in Seq(Frames(revisions'))
    BY <1>1, <1>3, <2>1, LinksGrow
  <2>3. /\ g \in Frames(revisions')
        /\ g.call = s[n - 1].call /\ g.scope = s[n - 1].scope /\ g.verdict = s[n - 1].verdict
        /\ g.head = s[n - 1].head
        /\ DOMAIN g.links = DOMAIN s[n - 1].links \cup {r.call}
        /\ g.links[r.call] = r
        /\ \A q \in DOMAIN s[n - 1].links \ {r.call} : g.links[q] = s[n - 1].links[q]
    BY <1>3, <1>4, <2>2, LinkedFrame
  <2>4. stack' = [stack EXCEPT ![a] = t] /\ goto(a, "assess")
    <3>1. below(a) = outer
      BY DEF below
    <3>2. stack' = [stack EXCEPT ![a] =
                [outer EXCEPT ![Len(outer)] = linked(outer[Len(outer)], r.call, r)]]
          /\ goto(a, "assess")
      BY <1>7, <3>1 DEF Persist, returnFrom
    <3> QED  BY <2>1, <3>2
  <2> HIDE DEF g
  <2>5. /\ t \in Seq(Frames(revisions')) /\ Len(t) = n - 1 /\ t[n - 1] = g
        /\ \A i \in 1 .. n - 2 : t[i] = s[i]
    BY <1>1, <1>2, <1>7, <2>2, <2>3, TopReturned
  <2> HIDE DEF t, outer
  <2>6. Awaits(s[n - 1], f)
    <3>1. n - 1 \in 1 .. n - 1 /\ n - 1 + 1 = n
      BY <2>1
    <3> QED  BY <1>1, <1>2, <3>1 DEF Stacked
  <2>7. Sound(g, completed, revisions')
    <3>1. Sound(s[n - 1], completed, revisions')
      BY <1>2, <1>5, <2>1 DEF Stacked
    <3>2. Pins(g.call, g.verdict, g.links, completed, revisions')
      BY <1>3, <2>3, <2>6, <3>1 DEF Sound, Pins, Awaits
    <3> QED  BY <2>3, <2>6, <3>1, <3>2 DEF Sound, Awaits
  <2>8. Stacked(t, completed, revisions')
    <3>1. ASSUME NEW i \in 1 .. n - 1 PROVE Sound(t[i], completed, revisions')
      <4>1. CASE i = n - 1
        BY <2>5, <2>7, <4>1
      <4>2. CASE i \in 1 .. n - 2
        BY <1>2, <1>5, <2>5, <4>2 DEF Stacked
      <4> QED  BY <4>1, <4>2
    <3>2. ASSUME NEW i \in 1 .. n - 2 PROVE Awaits(t[i], t[i + 1])
      <4>1. Awaits(s[i], s[i + 1]) /\ t[i] = s[i]
        BY <1>1, <1>2, <2>5 DEF Stacked
      <4>2. t[i + 1].call = s[i + 1].call /\ t[i + 1].scope = s[i + 1].scope
        <5>1. CASE i + 1 = n - 1
          BY <2>3, <2>5, <5>1
        <5>2. CASE i + 1 \in 1 .. n - 2
          BY <2>5, <5>2
        <5> QED  BY <5>1, <5>2
      <4> QED  BY <4>1, <4>2 DEF Awaits
    <3>3. t[1].scope = "whole"
      <4>1. s[1].scope = "whole"
        BY <1>1 DEF Stacked
      <4>2. CASE n - 1 = 1
        BY <2>3, <2>5, <4>1, <4>2
      <4>3. CASE n - 1 # 1
        BY <2>1, <2>5, <4>1, <4>3
      <4> QED  BY <4>2, <4>3
    <3>4. n - 1 - 1 = n - 2
      OBVIOUS
    <3> QED  BY <2>5, <3>1, <3>2, <3>3, <3>4 DEF Stacked
  <2>9. t[1].call = s[1].call
    <3>1. CASE n - 1 = 1
      BY <2>3, <2>5, <3>1
    <3>2. CASE n - 1 # 1
      BY <2>1, <2>5, <3>2
    <3> QED  BY <3>1, <3>2
  <2>10. t # <<>>
    BY <2>1, <2>5, EmptySeq
  <2>11. /\ stack' \in [Analyses -> Seq(Frames(revisions'))] /\ stack'[a] = t
         /\ \A b \in Analyses \ {a} : stack'[b] = stack[b]
    BY <1>3, <2>4, <2>5, StackTyped
  <2>12. /\ pc' \in [Analyses -> {"idle", "assess", "persist", "final"}] /\ pc'[a] = "assess"
         /\ \A b \in Analyses \ {a} : pc'[b] = pc[b]
    BY <2>4 DEF goto, Typed
  <2>13. Analysis(a)'
    BY <1>3, <2>8, <2>10, <2>11, <2>12 DEF Analysis
  <2> QED  BY <1>1, <2>9, <2>10, <2>11, <2>12, <2>13
<1> QED  BY <1>6, <1>7

\* The transaction of an assessment: the graph stays closed and heads stay whole.
LEMMA PersistStep ==
    ASSUME Typed, Recorded, NEW a \in Analyses, Analysis(a), Persist(a)
    PROVE  Typed' /\ Recorded'
<1> DEFINE f == top(a)
           r == revisionOf(f)
<1>1. /\ revisions' = revisions \cup {r}
      /\ r \in [call: Calls, scope: Scopes, verdict: Uses, links: Links(revisions')]
      /\ Pins(r.call, r.verdict, r.links, completed, revisions)
      /\ DOMAIN r.links = parents(r.verdict)
      /\ r.call = f.call /\ r.scope = f.scope /\ r.verdict = f.verdict
  BY StoredRevision
<1>2. f \in Frames(revisions) /\ Sound(f, completed, revisions)
  BY TopTyped DEF Persist
<1>3. UNCHANGED <<completed, registered, lock, decision>>
  BY DEF Persist
<1> DEFINE head == headAfter(f, r)
<1>4. /\ head \in revisions' \cup {None}
      /\ head # None => head.call = f.call /\ head.scope = "whole"
  BY <1>1, <1>2 DEF headAfter, Frames, Sound
<1>5. heads' = [heads EXCEPT ![f.call] = head]
  BY DEF Persist
<1>6. reviews' = IF f.verdict.complete
                 THEN [reviews EXCEPT ![<<f.call, f.scope>>] = r]
                 ELSE reviews
  BY DEF Persist
<1>7. assessed' \in [Analyses -> Seq(SUBSET revisions')]
  <2> DEFINE q == assessed[a]
  <2>1. assessed \in [Analyses -> Seq(SUBSET revisions')] /\ r \in revisions'
    <3>1. SUBSET revisions \subseteq SUBSET revisions'
      BY <1>1
    <3>2. Seq(SUBSET revisions) \subseteq Seq(SUBSET revisions')
      BY <3>1, SeqMonotonic
    <3> QED  BY <1>1, <3>2 DEF Typed
  <2>2. /\ SubSeq(q, 1, Len(q) - 1) \in Seq(SUBSET revisions')
        /\ [q EXCEPT ![Len(q)] = @ \cup {r}] \in Seq(SUBSET revisions')
    BY <2>1, AssessedTyped
  <2>3. \/ assessed' = [assessed EXCEPT ![a] = SubSeq(q, 1, Len(q) - 1)]
        \/ assessed' = [assessed EXCEPT ![a] = [q EXCEPT ![Len(q)] = @ \cup {r}]]
    BY <2>1 DEF Persist, returnFrom
  <2> QED  BY <2>1, <2>2, <2>3
<1>8. stack' \in [Analyses -> Seq(Frames(revisions'))]
      /\ pc' \in [Analyses -> {"idle", "assess", "persist", "final"}]
  BY Returned
<1> HIDE DEF f, r, head
<1>9. f.call \in Calls /\ <<f.call, f.scope>> \in Requests
  BY <1>2 DEF Frames, Requests
<1>10. heads' \in [Calls -> revisions' \cup {None}]
  BY <1>1, <1>4, <1>5 DEF Typed
<1>11. reviews' \in [Requests -> revisions' \cup {None}]
  BY <1>1, <1>6 DEF Typed
<1>12. ASSUME NEW x \in revisions'
       PROVE  x \in [call: Calls, scope: Scopes, verdict: Uses, links: Links(revisions')]
  <2>1. CASE x \in revisions
    <3>1. Links(revisions) \subseteq Links(revisions')
      BY <1>1, LinksGrow
    <3> QED  BY <2>1, <3>1 DEF Typed
  <2> QED  BY <1>1, <2>1
<1>13. Typed'
  BY <1>3, <1>7, <1>8, <1>10, <1>11, <1>12 DEF Typed
<1>14. ASSUME NEW x \in revisions'
       PROVE  /\ Pins(x.call, x.verdict, x.links, completed, revisions')
              /\ DOMAIN x.links = parents(x.verdict)
  <2>1. Pins(x.call, x.verdict, x.links, completed, revisions)
        /\ DOMAIN x.links = parents(x.verdict)
    BY <1>1 DEF Recorded
  <2> QED  BY <1>1, <2>1 DEF Pins
<1>15. HeadsAreWhole'
  <2>1. ASSUME NEW c \in Calls, heads'[c] # None
        PROVE  heads'[c].call = c /\ heads'[c].scope = "whole"
    <3>1. CASE c = f.call
      BY <1>4, <1>5, <2>1, <3>1 DEF Typed
    <3>2. CASE c # f.call
      BY <1>5, <2>1, <3>2 DEF Typed, Recorded, HeadsAreWhole
    <3> QED  BY <3>1, <3>2
  <2>2. ASSUME NEW q \in Requests, reviews'[q] # None
        PROVE  reviews'[q].call = q[1] /\ reviews'[q].scope = q[2] /\ reviews'[q].verdict.complete
    <3>1. CASE f.verdict.complete /\ q = <<f.call, f.scope>>
      BY <1>1, <1>6, <3>1 DEF Typed
    <3>2. CASE ~(f.verdict.complete /\ q = <<f.call, f.scope>>)
      <4>1. reviews'[q] = reviews[q]
        BY <1>6, <3>2 DEF Typed
      <4> QED  BY <2>2, <4>1 DEF Recorded, HeadsAreWhole
    <3> QED  BY <3>1, <3>2
  <2> QED  BY <2>1, <2>2 DEF HeadsAreWhole
<1> QED  BY <1>3, <1>13, <1>14, <1>15 DEF Recorded

LEMMA EndStep ==
    ASSUME Typed, NEW a \in Analyses, Analysis(a), Decide(a) \/ Abandon(a)
    PROVE  /\ Typed' /\ Analysis(a)'
           /\ \A b \in Analyses \ {a} : stack'[b] = stack[b] /\ pc'[b] = pc[b]
           /\ stack[a] # <<>> /\ stack'[a] = <<>> /\ pc'[a] = "idle"
<1>1. /\ stack' = [stack EXCEPT ![a] = <<>>] /\ assessed' = [assessed EXCEPT ![a] = <<>>]
      /\ goto(a, "idle") /\ UNCHANGED database /\ pc[a] # "idle"
  BY DEF Decide, Abandon
<1>2. /\ stack' \in [Analyses -> Seq(Frames(revisions))] /\ stack'[a] = <<>>
      /\ \A b \in Analyses \ {a} : stack'[b] = stack[b]
  <2>1. <<>> \in Seq(Frames(revisions))
    BY EmptySeq
  <2> QED  BY <1>1, <2>1, StackTyped
<1>3. assessed' \in [Analyses -> Seq(SUBSET revisions)]
  <2>1. <<>> \in Seq(SUBSET revisions)
    BY EmptySeq
  <2> QED  BY <1>1, <2>1 DEF Typed
<1>4. /\ pc' \in [Analyses -> {"idle", "assess", "persist", "final"}] /\ pc'[a] = "idle"
      /\ \A b \in Analyses \ {a} : pc'[b] = pc[b]
  BY <1>1 DEF goto, Typed
<1>5. /\ lock' \in [Sessions -> Analyses \cup {None}] /\ DOMAIN decision' = Analyses
      /\ \A b \in Analyses : decision'[b].action \in {"none", "allow", "block", "unavailable"}
  <2>1. CASE Decide(a)
    <3>1. lock' = [lock EXCEPT ![Session[top(a).call]] = None]
      BY <2>1 DEF Decide
    <3>2. /\ DOMAIN decision' = Analyses
          /\ decision'[a].action \in {"allow", "block", "unavailable"}
          /\ \A b \in Analyses \ {a} : decision'[b] = decision[b]
      BY <2>1 DEF Decide, verdictOn, Typed
    <3> QED  BY <3>1, <3>2 DEF Typed
  <2>2. CASE Abandon(a)
    BY <2>2 DEF Abandon, database, Typed
  <2> QED  BY <2>1, <2>2
<1>6. Typed'
  BY <1>1, <1>2, <1>3, <1>4, <1>5 DEF Typed, database
<1>7. Stacked(<<>>, completed', revisions')
  BY DEF Stacked
<1>8. Analysis(a)'
  BY <1>2, <1>4, <1>7 DEF Analysis
<1> QED  BY <1>1, <1>2, <1>4, <1>6, <1>8 DEF Analysis

-------------------------------------------------------------------------------
(* The graph is closed *)

LEMMA BaseInit == Init => GraphBase
<1> SUFFICES ASSUME Init PROVE GraphBase
  OBVIOUS
<1>1. Typed
  <2>1. <<>> \in Seq(Frames(revisions)) /\ <<>> \in Seq(SUBSET revisions)
    BY EmptySeq
  <2> QED  BY <2>1 DEF Init, NoDecision, Typed
<1>2. ASSUME NEW a \in Analyses PROVE Analysis(a)
  <2>1. stack[a] = <<>> /\ pc[a] = "idle"
    BY DEF Init
  <2>2. Stacked(<<>>, completed, revisions)
    BY DEF Stacked
  <2> QED  BY <2>1, <2>2 DEF Analysis
<1>3. Recorded
  BY DEF Init, Recorded, HeadsAreWhole
<1> QED  BY <1>1, <1>2, <1>3 DEF GraphBase

LEMMA BaseStep == GraphBase /\ [Next]_vars => GraphBase'
<1> SUFFICES ASSUME Typed, \A a \in Analyses : Analysis(a), Recorded, [Next]_vars
             PROVE  GraphBase'
  BY DEF GraphBase
<1>1. completed \subseteq completed' /\ revisions \subseteq revisions'
  BY Grows
\* Steps that store nothing.
<1>2. ASSUME UNCHANGED <<revisions, heads, reviews>> PROVE Recorded'
  <2>1. ASSUME NEW r \in revisions PROVE Pins(r.call, r.verdict, r.links, completed', revisions)
    BY <1>1 DEF Recorded, Pins
  <2> QED  BY <1>2, <2>1 DEF Recorded, HeadsAreWhole
\* Steps of one analysis.
<1>3. ASSUME NEW a \in Analyses, Typed', Recorded', Analysis(a)',
             \A b \in Analyses \ {a} : stack'[b] = stack[b] /\ pc'[b] = pc[b]
      PROVE  GraphBase'
  <2>1. ASSUME NEW b \in Analyses PROVE Analysis(b)'
    BY <1>1, <1>3, Bystander
  <2> QED  BY <1>3, <2>1 DEF GraphBase
\* Steps of the world.
<1>4. ASSUME UNCHANGED <<pc, stack>>, Typed', Recorded' PROVE GraphBase'
  <2>1. ASSUME NEW b \in Analyses PROVE Analysis(b)'
    BY <1>1, <1>4, Bystander
  <2> QED  BY <1>4, <2>1 DEF GraphBase
<1>5. ASSUME NEW s \in Sources, Register(s) PROVE GraphBase'
  <2>1. Typed'
    BY <1>5 DEF Register, Typed
  <2> QED  BY <1>2, <1>4, <1>5, <2>1 DEF Register
<1>6. ASSUME NEW c \in Calls, Complete(c) PROVE GraphBase'
  <2>1. Typed'
    BY <1>6 DEF Complete, Typed
  <2> QED  BY <1>2, <1>4, <1>6, <2>1 DEF Complete
<1>7. ASSUME NEW a \in Analyses, NEW c \in Calls, Begin(a, c) PROVE GraphBase'
  BY <1>2, <1>3, <1>7, BeginStep DEF Begin, open, database
<1>8. ASSUME NEW a \in Analyses, NEW c \in Calls, Descend(a, c) PROVE GraphBase'
  BY <1>2, <1>3, <1>8, DescendStep DEF Descend, database
<1>9. ASSUME NEW a \in Analyses, NEW r \in revisions, Reuse(a, r) PROVE GraphBase'
  BY <1>2, <1>3, <1>9, ReuseStep DEF Reuse, database
<1>10. ASSUME NEW a \in Analyses, Judge(a) PROVE GraphBase'
  BY <1>2, <1>3, <1>10, JudgeStep DEF Judge, database
<1>11. ASSUME NEW a \in Analyses, NoteHead(a) PROVE GraphBase'
  BY <1>2, <1>3, <1>11, NoteHeadStep DEF NoteHead, database
<1>12. ASSUME NEW a \in Analyses, Persist(a) PROVE GraphBase'
  BY <1>3, <1>12, PersistStep, Returned
<1>13. ASSUME NEW a \in Analyses, Decide(a) \/ Abandon(a) PROVE GraphBase'
  BY <1>2, <1>3, <1>13, EndStep DEF Decide, Abandon, database
<1>14. CASE UNCHANGED vars
  <2>1. Typed'
    BY <1>14 DEF vars, database, Typed
  <2> QED  BY <1>2, <1>4, <1>14, <2>1 DEF vars, database
<1> QED
  BY <1>5, <1>6, <1>7, <1>8, <1>9, <1>10, <1>11, <1>12, <1>13, <1>14 DEF Next

LEMMA BaseAlways == Spec => []GraphBase
<1> QED  BY BaseInit, BaseStep, PTL DEF Spec

\* The values of the database and of the analyses.
THEOREM TypeCorrect == Spec => []TypeOK
<1>1. ASSUME GraphBase PROVE TypeOK
  <2>1. Typed /\ \A a \in Analyses : Analysis(a)
    BY <1>1 DEF GraphBase
  <2>2. ASSUME NEW a \in Analyses, NEW i \in 1 .. Len(stack[a])
        PROVE  /\ stack[a][i].call \in Calls /\ stack[a][i].scope \in Scopes
               /\ stack[a][i].verdict \in Verdicts[stack[a][i].call] \cup {None}
               /\ \A p \in DOMAIN stack[a][i].links : stack[a][i].links[p] \in revisions
    <3>1. stack[a] \in Seq(Frames(revisions))
      BY <2>1 DEF Typed
    <3>2. stack[a][i] \in Frames(revisions)
      BY <3>1, ElementOfSeq
    <3>3. Sound(stack[a][i], completed, revisions)
      BY <2>1 DEF Analysis, Stacked
    <3> QED  BY <3>2, <3>3 DEF Frames, Sound, Pins
  <2>3. ASSUME NEW a \in Analyses, NEW i \in 1 .. Len(assessed[a])
        PROVE  assessed[a][i] \subseteq revisions
    <3>1. assessed[a] \in Seq(SUBSET revisions)
      BY <2>1 DEF Typed
    <3>2. assessed[a][i] \in SUBSET revisions
      BY <3>1, ElementOfSeq
    <3> QED  BY <3>2
  <2> QED  BY <2>1, <2>2, <2>3 DEF Typed, Analysis, TypeOK
<1> QED  BY BaseAlways, <1>1, PTL

\* The graph is closed: whatever analyses are abandoned, each recorded revision pins a
\* recorded revision of every call its verdict depends on, with the scope demanded.
THEOREM GraphStaysClosed == Spec => []GraphIsClosed
<1>1. GraphBase => GraphIsClosed
  BY DEF GraphBase, Recorded, Pins, GraphIsClosed
<1> QED  BY BaseAlways, <1>1, PTL

\* Every link leads to a recorded revision of an earlier call.
LinksGoBack ==
    \A r \in revisions : \A p \in DOMAIN r.links :
        r.links[p] \in revisions /\ r.links[p].call \in Nat /\ r.links[p].call < r.call

\* The graph has no cycle: the ancestry of a revision, on which the policy is decided,
\* is found by links that lead to ever earlier calls, whoever has recorded them.
THEOREM GraphIsAcyclic == Spec => []LinksGoBack
<1>1. ASSUME GraphBase PROVE LinksGoBack
  <2> SUFFICES ASSUME NEW r \in revisions, NEW p \in DOMAIN r.links
               PROVE  r.links[p] \in revisions /\ r.links[p].call \in Nat /\ r.links[p].call < r.call
    BY DEF LinksGoBack
  <2>1. Pins(r.call, r.verdict, r.links, completed, revisions) /\ r.call \in Calls
    BY <1>1 DEF GraphBase, Typed, Recorded
  <2>2. /\ r.verdict \in Verdicts[r.call] /\ p \in parents(r.verdict)
        /\ r.links[p] \in revisions /\ r.links[p].call = p
    BY <2>1 DEF Pins
  <2>3. p \in Calls /\ p < r.call
    BY <2>1, <2>2, ParentsAreCalls
  <2> QED  BY <2>2, <2>3, CallAssumption
<1> QED  BY BaseAlways, <1>1, PTL

\* A head is a review of its whole operation and a completed review answers its
\* request, whatever parts of the operation were reviewed for others.
THEOREM HeadsStayWhole == Spec => []HeadsAreWhole
<1>1. GraphBase => HeadsAreWhole
  BY DEF GraphBase, Recorded
<1> QED  BY BaseAlways, <1>1, PTL

-------------------------------------------------------------------------------
(* What a Hook decides is its own *)

LEMMA BottomTyped ==
    ASSUME GraphBase, NEW a \in Analyses, stack[a] # <<>>
    PROVE  /\ stack[a][1].call \in Calls /\ stack[a][1].scope = "whole"
           /\ Session[stack[a][1].call] \in Sessions
<1>1. stack[a] \in Seq(Frames(revisions)) /\ Stacked(stack[a], completed, revisions)
  BY DEF GraphBase, Typed, Analysis
<1>2. 1 \in 1 .. Len(stack[a])
  BY <1>1, EmptySeq
<1>3. stack[a][1] \in Frames(revisions)
  BY <1>1, <1>2, ElementOfSeq
<1> QED  BY <1>1, <1>3 DEF Frames, Stacked, Sessions

LEMMA ExclusiveStep == GraphBase /\ Exclusive /\ [Next]_vars => Exclusive'
<1> SUFFICES ASSUME GraphBase, Exclusive, [Next]_vars PROVE Exclusive'
  OBVIOUS
<1>1. Typed /\ Recorded /\ \A a \in Analyses : Analysis(a)
  BY DEF GraphBase
\* Steps that leave calls, locks and the bottom of every stack alone.
<1>2. ASSUME UNCHANGED <<completed, lock>>,
             \A b \in Analyses : stack'[b] # <<>> =>
                stack[b] # <<>> /\ stack'[b][1].call = stack[b][1].call
      PROVE  Exclusive'
  BY <1>2 DEF Exclusive
<1>3. ASSUME NEW a \in Analyses, UNCHANGED <<completed, lock>>,
             stack[a] # <<>>, stack'[a][1].call = stack[a][1].call,
             \A b \in Analyses \ {a} : stack'[b] = stack[b]
      PROVE  Exclusive'
  BY <1>2, <1>3
<1>4. ASSUME NEW s \in Sources, Register(s) PROVE Exclusive'
  BY <1>2, <1>4 DEF Register
<1>5. ASSUME NEW c \in Calls, Complete(c) PROVE Exclusive'
  <2>1. UNCHANGED <<lock, stack>> /\ completed' = completed \cup {c}
        /\ \A a \in Hooks : stack[a] # <<>> => stack[a][1].call # c
    BY <1>5 DEF Complete
  <2> QED  BY <2>1 DEF Exclusive
<1>6. ASSUME NEW a \in Analyses, NEW c \in Calls, Begin(a, c) PROVE Exclusive'
  <2>1. /\ \A b \in Analyses \ {a} : stack'[b] = stack[b]
        /\ stack'[a][1].call = c
    BY <1>1, <1>6, BeginStep
  <2>2. /\ lock[Session[c]] = None /\ lock' = [lock EXCEPT ![Session[c]] = a]
        /\ a \in Hooks <=> c \notin completed
        /\ completed' = completed
    BY <1>6 DEF Begin, open, eligible, database
  <2>3. Session[c] \in Sessions
    BY DEF Sessions
  <2>4. lock'[Session[c]] = a
    BY <1>1, <2>2, <2>3 DEF Typed
  <2>5. ASSUME NEW b \in Analyses \ {a}, stack[b] # <<>>
        PROVE  lock'[Session[stack[b][1].call]] = b
    <3>1. lock[Session[stack[b][1].call]] = b
      BY <2>5 DEF Exclusive
    <3>2. b # None
      BY ProcessAssumption
    <3> QED  BY <1>1, <2>2, <3>1, <3>2 DEF Typed
  <2> QED  BY <2>1, <2>2, <2>4, <2>5 DEF Exclusive
<1>7. ASSUME NEW a \in Analyses, NEW c \in Calls, Descend(a, c) PROVE Exclusive'
  BY <1>1, <1>3, <1>7, DescendStep DEF Descend, database
<1>8. ASSUME NEW a \in Analyses, NEW r \in revisions, Reuse(a, r) PROVE Exclusive'
  BY <1>1, <1>3, <1>8, ReuseStep DEF Reuse, database
<1>9. ASSUME NEW a \in Analyses, Judge(a) PROVE Exclusive'
  BY <1>1, <1>3, <1>9, JudgeStep DEF Judge, database
<1>10. ASSUME NEW a \in Analyses, NoteHead(a) PROVE Exclusive'
  BY <1>1, <1>3, <1>10, NoteHeadStep DEF NoteHead, database
<1>11. ASSUME NEW a \in Analyses, Persist(a) PROVE Exclusive'
  BY <1>1, <1>3, <1>11, Returned DEF Persist
\* An analysis that ends releases no lock but its own.
<1>12. ASSUME NEW a \in Analyses, Decide(a) \/ Abandon(a) PROVE Exclusive'
  <2>1. /\ \A b \in Analyses \ {a} : stack'[b] = stack[b]
        /\ stack[a] # <<>> /\ stack'[a] = <<>>
    BY <1>1, <1>12, EndStep
  <2>2. completed' = completed
    BY <1>12 DEF Decide, Abandon, database
  <2>3. ASSUME NEW b \in Analyses \ {a}, stack[b] # <<>>
        PROVE  lock'[Session[stack[b][1].call]] = b
    <3>1. lock[Session[stack[b][1].call]] = b /\ Session[stack[b][1].call] \in Sessions
      BY <2>3, BottomTyped DEF Exclusive
    <3>2. CASE Decide(a)
      <4>1. top(a).call = stack[a][1].call
        BY <1>1, <3>2 DEF Decide, Analysis, top
      <4>2. lock' = [lock EXCEPT ![Session[top(a).call]] = None]
        BY <3>2 DEF Decide
      <4>3. lock[Session[top(a).call]] = a
        BY <2>1, <4>1 DEF Exclusive
      <4> QED  BY <1>1, <3>1, <4>2, <4>3 DEF Typed
    <3>3. CASE Abandon(a)
      BY <3>1, <3>3 DEF Abandon
    <3> QED  BY <1>12, <3>2, <3>3
  <2> QED  BY <2>1, <2>2, <2>3 DEF Exclusive
<1>13. CASE UNCHANGED vars
  BY <1>2, <1>13 DEF vars, database
<1> QED
  BY <1>4, <1>5, <1>6, <1>7, <1>8, <1>9, <1>10, <1>11, <1>12, <1>13 DEF Next

LEMMA WorkedStep == GraphBase /\ Exclusive /\ LocksAreWorked /\ [Next]_vars => LocksAreWorked'
<1> SUFFICES ASSUME GraphBase, Exclusive, LocksAreWorked, [Next]_vars PROVE LocksAreWorked'
  OBVIOUS
<1>1. Typed /\ Recorded /\ \A a \in Analyses : Analysis(a)
  BY DEF GraphBase
<1>2. CASE UNCHANGED <<lock, stack>>
  BY <1>2 DEF LocksAreWorked
<1>3. ASSUME NEW a \in Analyses, UNCHANGED lock,
             stack[a] # <<>>, stack'[a] # <<>>, stack'[a][1].call = stack[a][1].call,
             \A b \in Analyses \ {a} : stack'[b] = stack[b]
      PROVE  LocksAreWorked'
  BY <1>3 DEF LocksAreWorked
<1>4. ASSUME NEW a \in Analyses, NEW c \in Calls, Begin(a, c) PROVE LocksAreWorked'
  <2>1. /\ \A b \in Analyses \ {a} : stack'[b] = stack[b]
        /\ stack'[a] # <<>> /\ stack'[a][1].call = c
    BY <1>1, <1>4, BeginStep
  <2>2. lock' = [lock EXCEPT ![Session[c]] = a] /\ stack[a] = <<>>
    BY <1>1, <1>4 DEF Begin, Analysis
  \* It held no lock before.
  <2>3. \A t \in Sessions : lock[t] # a
    BY <2>2, ProcessAssumption DEF LocksAreWorked
  <2> QED  BY <1>1, <2>1, <2>2, <2>3 DEF LocksAreWorked, Typed
<1>5. ASSUME NEW a \in Analyses, NEW c \in Calls, Descend(a, c) PROVE LocksAreWorked'
  BY <1>1, <1>3, <1>5, DescendStep DEF Descend, database
<1>6. ASSUME NEW a \in Analyses, NEW r \in revisions, Reuse(a, r) PROVE LocksAreWorked'
  BY <1>1, <1>3, <1>6, ReuseStep DEF Reuse, database
<1>7. ASSUME NEW a \in Analyses, Judge(a) PROVE LocksAreWorked'
  BY <1>1, <1>3, <1>7, JudgeStep DEF Judge, database
<1>8. ASSUME NEW a \in Analyses, NoteHead(a) PROVE LocksAreWorked'
  BY <1>1, <1>3, <1>8, NoteHeadStep DEF NoteHead, database
<1>9. ASSUME NEW a \in Analyses, Persist(a) PROVE LocksAreWorked'
  BY <1>1, <1>3, <1>9, Returned DEF Persist
\* An analysis that ends leaves no lock behind.
<1>10. ASSUME NEW a \in Analyses, Decide(a) \/ Abandon(a) PROVE LocksAreWorked'
  <2>1. /\ \A b \in Analyses \ {a} : stack'[b] = stack[b]
        /\ stack[a] # <<>> /\ stack'[a] = <<>>
    BY <1>1, <1>10, EndStep
  <2>2. /\ \A t \in Sessions : lock'[t] \in {lock[t], None} /\ lock'[t] # a
    <3>1. CASE Decide(a)
      <4>1. top(a).call = stack[a][1].call
        BY <1>1, <3>1 DEF Decide, Analysis, top
      <4>2. lock' = [lock EXCEPT ![Session[stack[a][1].call]] = None]
        BY <3>1, <4>1 DEF Decide
      <4>3. \A t \in Sessions : lock[t] = a => t = Session[stack[a][1].call]
        BY ProcessAssumption DEF LocksAreWorked
      <4> QED  BY <1>1, <4>2, <4>3, ProcessAssumption DEF Typed
    <3>2. CASE Abandon(a)
      BY <3>2, ProcessAssumption DEF Abandon
    <3> QED  BY <1>10, <3>1, <3>2
  <2> QED  BY <2>1, <2>2 DEF LocksAreWorked
<1>11. ASSUME NEW s \in Sources, Register(s) PROVE LocksAreWorked'
  BY <1>2, <1>11 DEF Register
<1>12. ASSUME NEW c \in Calls, Complete(c) PROVE LocksAreWorked'
  BY <1>2, <1>12 DEF Complete
<1>13. CASE UNCHANGED vars
  BY <1>2, <1>13 DEF vars
<1> QED
  BY <1>4, <1>5, <1>6, <1>7, <1>8, <1>9, <1>10, <1>11, <1>12, <1>13 DEF Next

\* No other assessment stores a revision of the call that a Hook decides on.
LEMMA OwnCallIsAlone ==
    ASSUME GraphBase, Exclusive, NEW a \in Hooks, pc[a] = "final",
           NEW b \in Analyses \ {a}, Persist(b)
    PROVE  top(b).call # top(a).call
<1>1. a \in Analyses /\ Analysis(a) /\ Analysis(b)
  BY DEF Analyses, GraphBase
<1>2. stack[a] # <<>> /\ top(a).call = stack[a][1].call
  BY <1>1 DEF Analysis, top
<1>3. top(a).call \notin completed /\ lock[Session[top(a).call]] = a
  BY <1>1, <1>2 DEF Exclusive
<1>4. /\ stack[b] \in Seq(Frames(revisions)) /\ stack[b] # <<>>
      /\ Stacked(stack[b], completed, revisions)
  BY <1>1 DEF Persist, Analysis, GraphBase, Typed
<1>5. PICK n \in Nat : n = Len(stack[b]) /\ n >= 1
  BY <1>4, EmptySeq
<1>6. CASE n = 1
  <2>1. top(b).call = stack[b][1].call /\ lock[Session[stack[b][1].call]] = b
    BY <1>4, <1>5, <1>6 DEF top, Exclusive
  <2> QED  BY <1>3, <2>1
<1>7. CASE n >= 2
  <2>1. n - 1 \in 1 .. n - 1 /\ n - 1 \in 1 .. n /\ n - 1 + 1 = n
    BY <1>7
  <2>2. Awaits(stack[b][n - 1], stack[b][n]) /\ Sound(stack[b][n - 1], completed, revisions)
    BY <1>4, <1>5, <2>1 DEF Stacked
  <2>3. stack[b][n].call \in completed
    BY <2>2 DEF Awaits, Sound, Pins
  <2> QED  BY <1>3, <1>5, <2>3 DEF top
<1>8. n >= 1 => n = 1 \/ n >= 2
  OBVIOUS
<1> QED  BY <1>5, <1>6, <1>7, <1>8

LEMMA OwnStep ==
    GraphBase /\ Exclusive /\ Own /\ HookDecidesOwn /\ [Next]_vars
        => Own' /\ HookDecidesOwn'
<1> SUFFICES ASSUME GraphBase, Exclusive, Own, HookDecidesOwn, [Next]_vars
             PROVE  Own' /\ HookDecidesOwn'
  OBVIOUS
<1>1. /\ Typed /\ Recorded /\ \A a \in Analyses : Analysis(a)
      /\ \A a \in Hooks : a \in Analyses
  BY DEF GraphBase, Analyses
\* Steps that store nothing, by the world or on the way to a final transaction.
<1>2. ASSUME UNCHANGED <<heads, decision>>,
             \A a \in Analyses : pc'[a] = "final" => pc[a] = "final" /\ stack'[a] = stack[a]
      PROVE  Own' /\ HookDecidesOwn'
  BY <1>1, <1>2 DEF Own, HookDecidesOwn, top
<1>3. ASSUME NEW a \in Analyses, UNCHANGED <<heads, decision>>, pc'[a] # "final",
             \A b \in Analyses \ {a} : stack'[b] = stack[b] /\ pc'[b] = pc[b]
      PROVE  Own' /\ HookDecidesOwn'
  BY <1>2, <1>3
<1>4. ASSUME NEW s \in Sources, Register(s) PROVE Own' /\ HookDecidesOwn'
  BY <1>2, <1>4 DEF Register
<1>5. ASSUME NEW c \in Calls, Complete(c) PROVE Own' /\ HookDecidesOwn'
  BY <1>2, <1>5 DEF Complete
<1>6. ASSUME NEW a \in Analyses, NEW c \in Calls, Begin(a, c) PROVE Own' /\ HookDecidesOwn'
  <2>1. /\ \A b \in Analyses \ {a} : stack'[b] = stack[b] /\ pc'[b] = pc[b]
        /\ pc'[a] = "assess"
    BY <1>1, <1>6, BeginStep
  <2>2. heads' = heads /\ decision' = [decision EXCEPT ![a] = NoDecision]
    BY <1>6 DEF Begin, open, database
  <2>3. Own'
    BY <1>1, <2>1, <2>2 DEF Own, top
  <2>4. HookDecidesOwn'
    BY <1>1, <2>2 DEF HookDecidesOwn, Typed, NoDecision
  <2> QED  BY <2>3, <2>4
<1>7. ASSUME NEW a \in Analyses, NEW c \in Calls, Descend(a, c) PROVE Own' /\ HookDecidesOwn'
  BY <1>1, <1>3, <1>7, DescendStep DEF Descend, database
<1>8. ASSUME NEW a \in Analyses, NEW r \in revisions, Reuse(a, r) PROVE Own' /\ HookDecidesOwn'
  BY <1>1, <1>3, <1>8, ReuseStep DEF Reuse, database
<1>9. ASSUME NEW a \in Analyses, Judge(a) PROVE Own' /\ HookDecidesOwn'
  BY <1>1, <1>3, <1>9, JudgeStep DEF Judge, database
<1>10. ASSUME NEW a \in Analyses, NoteHead(a) PROVE Own' /\ HookDecidesOwn'
  BY <1>1, <1>3, <1>10, NoteHeadStep DEF NoteHead, database
<1>11. ASSUME NEW b \in Analyses, Persist(b) PROVE Own' /\ HookDecidesOwn'
  <2> DEFINE f == top(b)
             r == revisionOf(f)
  <2>1. /\ heads' = [heads EXCEPT ![f.call] = headAfter(f, r)]
        /\ decision' = decision /\ f.call \in Calls
    BY <1>1, <1>11, TopTyped DEF Persist, Frames
  <2>2. /\ \A a \in Analyses \ {b} : stack'[a] = stack[a] /\ pc'[a] = pc[a]
        /\ pc'[b] = "final" => stack'[b] = stack[b] /\ Len(stack[b]) = 1
        /\ stack[b] # <<>>
    BY <1>1, <1>11, Returned
  <2>3. ASSUME NEW a \in Hooks, pc'[a] = "final" PROVE heads'[top(a)'.call] = revisionOf(top(a)')
    <3>1. CASE a # b
      <4>1. top(a)' = top(a) /\ pc[a] = "final"
        BY <1>1, <2>2, <2>3, <3>1 DEF top
      <4>2. f.call # top(a).call
        BY <1>1, <1>11, <3>1, <4>1, OwnCallIsAlone
      <4>3. top(a).call \in Calls
        BY <1>1, <4>1, TopTyped DEF Frames
      <4>4. heads'[top(a).call] = heads[top(a).call]
        BY <1>1, <2>1, <4>2, <4>3 DEF Typed
      <4> QED  BY <4>1, <4>4 DEF Own
    <3>2. CASE a = b
      <4>1. stack'[b] = stack[b] /\ Len(stack[b]) = 1
        BY <2>2, <2>3, <3>2
      <4>2. top(b)' = f /\ f = stack[b][1]
        BY <4>1 DEF top
      <4>3. f.scope = "whole"
        BY <2>2, <4>2, BottomTyped
      <4>4. headAfter(f, r) = r
        BY <4>3 DEF headAfter
      <4>5. heads'[f.call] = r
        BY <1>1, <2>1, <4>4 DEF Typed
      <4> QED  BY <3>2, <4>2, <4>5
    <3> QED  BY <3>1, <3>2
  <2> QED  BY <2>1, <2>3 DEF Own, HookDecidesOwn
<1>12. ASSUME NEW a \in Analyses, Decide(a) PROVE Own' /\ HookDecidesOwn'
  <2>1. /\ \A b \in Analyses \ {a} : stack'[b] = stack[b] /\ pc'[b] = pc[b]
        /\ pc'[a] = "idle"
    BY <1>1, <1>12, EndStep
  <2>2. heads' = heads /\ pc[a] = "final"
    BY <1>12 DEF Decide, database
  <2>3. /\ decision'[a].own = revisionOf(top(a)) /\ decision'[a].judged = heads[top(a).call]
        /\ \A b \in Analyses \ {a} : decision'[b] = decision[b]
    BY <1>1, <1>12 DEF Decide, Typed
  <2>4. Own'
    BY <1>1, <2>1, <2>2 DEF Own, top
  <2>5. HookDecidesOwn'
    BY <1>1, <2>2, <2>3 DEF Own, HookDecidesOwn
  <2> QED  BY <2>4, <2>5
<1>13. ASSUME NEW a \in Analyses, Abandon(a) PROVE Own' /\ HookDecidesOwn'
  BY <1>1, <1>3, <1>13, EndStep DEF Abandon, database
<1>14. CASE UNCHANGED vars
  BY <1>2, <1>14 DEF vars, database
<1> QED
  BY <1>4, <1>5, <1>6, <1>7, <1>8, <1>9, <1>10, <1>11, <1>12, <1>13, <1>14 DEF Next

LEMMA GraphAlways == Spec => []GraphInv
<1>1. Init => GraphInv
  <2>1. Init => Exclusive /\ LocksAreWorked /\ Own /\ HookDecidesOwn
    BY DEF Init, Exclusive, LocksAreWorked, Own, HookDecidesOwn, NoDecision, Analyses
  <2> QED  BY <2>1, BaseInit DEF GraphInv
<1>2. GraphInv /\ [Next]_vars => GraphInv'
  BY BaseStep, ExclusiveStep, WorkedStep, OwnStep DEF GraphInv
<1> QED  BY <1>1, <1>2, PTL DEF Spec

\* What a Hook decides is about the revision that it has just assessed itself, although
\* the final transaction looks the head of the call up again: neither jobs nor Hooks of
\* other sessions, nor their reviews of parts of the call, move the head meanwhile.
THEOREM DecisionsAreOwn == Spec => []HookDecidesOwn
<1>1. GraphInv => HookDecidesOwn
  BY DEF GraphInv
<1> QED  BY GraphAlways, <1>1, PTL

\* A session is locked exactly while an analysis of one of its calls is open, and then
\* by that analysis alone: no two run at a time, and none that failed or was killed
\* leaves a lock behind that the others would wait for.  The call that an open analysis
\* of a Hook is about has not been executed.
LocksMatchAnalyses ==
    /\ \A a \in Analyses, s \in Sessions :
        lock[s] = a <=> stack[a] # <<>> /\ Session[stack[a][1].call] = s
    /\ \A a \in Hooks : stack[a] # <<>> => stack[a][1].call \notin completed

\* The lock of a session keeps its analyses apart, and whoever ends releases it.
THEOREM SessionsAreExclusive == Spec => []LocksMatchAnalyses
<1>1. ASSUME GraphInv PROVE LocksMatchAnalyses
  <2>1. GraphBase /\ Exclusive /\ LocksAreWorked
    BY <1>1 DEF GraphInv
  <2>2. ASSUME NEW a \in Analyses, NEW s \in Sessions
        PROVE  lock[s] = a <=> stack[a] # <<>> /\ Session[stack[a][1].call] = s
    BY <2>1, ProcessAssumption DEF Exclusive, LocksAreWorked
  <2>3. ASSUME NEW a \in Hooks, stack[a] # <<>> PROVE stack[a][1].call \notin completed
    BY <2>1, <2>3 DEF Exclusive, Analyses
  <2> QED  BY <2>2, <2>3 DEF LocksMatchAnalyses
<1> QED  BY GraphAlways, <1>1, PTL

-------------------------------------------------------------------------------
(* The review: its inductive invariant *)

\* Receipts of batch b that are the files as they are.
Fresh(f, b) == \A p \in DOMAIN f : f[p] = acquired(Reach[b], p)

\* Receipts that say of each path whether it is admitted for batch b: it was acquired
\* with the earlier calls of that batch.
Reached(f, b) == \A p \in DOMAIN f : f[p] = Outside <=> p \notin Reach[b]

Collecting == {"prepare", "ask", "acquire"}
Holding    == {"verify", "save", "take"}

\* The batches that are in the union of review r.
joined(r, b) == b < batch[r] \/ at[r] = "done"

\* Whatever is complete is an answer to what the model was shown.
Answered(r) ==
    /\ at[r] = "ask" => context[r] = receipts[r]
    /\ at[r] \in {"verify", "save"} => answered(verdict[r])
    /\ at[r] = "take" => verdict[r] # Nothing /\ (verdict[r].complete => answered(verdict[r]))
    /\ allComplete[r] => \A b \in Batches : joined(r, b) => answered(union[r][b])

Admitted(r) ==
    /\ at[r] \in {"lookup", "verify"} => receipts[r] = Empty
    /\ at[r] \in Collecting => Reached(receipts[r], batch[r])
    /\ at[r] \in Holding => Reached(verdict[r].receipts, batch[r])

Current(r) ==
    quiet[r] =>
        /\ at[r] \in Collecting => Fresh(receipts[r], batch[r])
        /\ at[r] = "verify" => \A p \in DOMAIN verdict[r].receipts \ pending[r] : same(r, p)
        /\ at[r] \in {"save", "take"} => Fresh(verdict[r].receipts, batch[r])
        /\ \A b \in Batches : joined(r, b) => Fresh(union[r][b].receipts, b)

Finished(r) ==
    /\ known[r] \subseteq currentParts
    /\ at[r] = "verify" => pending[r] \subseteq DOMAIN verdict[r].receipts
    /\ at[r] = "verify" /\ batch[r] \in known[r] => verdict[r] = parts[batch[r]]
    /\ at[r] \in Collecting \cup {"save"} => batch[r] \notin known[r]

\* The checkpoints, whoever has saved them.
Saved ==
    \A b \in Batches : parts[b] # Nothing => answered(parts[b]) /\ Reached(parts[b].receipts, b)

Reviewed(r) == Answered(r) /\ Admitted(r) /\ Current(r) /\ Finished(r)

ReviewInv == ReviewTypeOK /\ Saved /\ \A r \in Reviewers : Reviewed(r)

-------------------------------------------------------------------------------
(* Receipts and types *)

LEMMA EmptyReceipts == Empty \in Receipts /\ DOMAIN Empty = {}
<1>1. Empty \in [{} -> Values]
  BY DEF Empty
<1> QED  BY <1>1 DEF Receipts, Empty

LEMMA ReceiptsDomain ==
    ASSUME NEW f \in Receipts
    PROVE  DOMAIN f \subseteq Paths /\ \A p \in DOMAIN f : f[p] \in Values
BY DEF Receipts

LEMMA WithReceipt ==
    ASSUME NEW f \in Receipts, NEW p \in Paths, NEW v \in Values
    PROVE  LET g == with(f, p, v) IN
           /\ g \in Receipts
           /\ DOMAIN g = DOMAIN f \cup {p} /\ g[p] = v
           /\ \A q \in DOMAIN f \ {p} : g[q] = f[q]
<1> DEFINE g == with(f, p, v)
<1>1. DOMAIN g = DOMAIN f \cup {p} /\ g[p] = v /\ \A q \in DOMAIN f \ {p} : g[q] = f[q]
  BY DEF with
<1>2. DOMAIN f \subseteq Paths /\ \A q \in DOMAIN f : f[q] \in Values
  BY ReceiptsDomain
<1>3. g \in [DOMAIN f \cup {p} -> Values] /\ DOMAIN f \cup {p} \in SUBSET Paths
  BY <1>2 DEF with
<1>4. g \in Receipts
  BY <1>3 DEF Receipts
<1> QED  BY <1>1, <1>4

\* A file that is admitted is not reported as one that is not.
LEMMA AcquiredValue ==
    ASSUME ReviewTypeOK, NEW p \in Paths, NEW reach
    PROVE  /\ acquired(reach, p) \in Values
           /\ acquired(reach, p) = Outside <=> p \notin reach
<1>1. file[p] \in 0..MaxVersion
  BY DEF ReviewTypeOK
<1>2. file[p] \in Values /\ file[p] # Outside /\ Outside \in Values
  BY <1>1, BoundAssumption DEF Values, Outside
<1> QED  BY <1>2 DEF acquired

LEMMA AnswerTyped ==
    ASSUME ReviewTypeOK, NEW r \in Reviewers, NEW complete \in BOOLEAN
    PROVE  /\ answer(r, complete) \in Answers /\ answer(r, complete) # Nothing
           /\ answer(r, complete).complete = complete
           /\ answer(r, complete).receipts = receipts[r]
           /\ answer(r, complete).basis = context[r]
<1>1. answer(r, complete) \in Answers
  BY DEF answer, Answers, ReviewTypeOK
<1> QED  BY <1>1, NothingAssumption DEF answer

LEMMA ForgetTyped ==
    ASSUME ReviewTypeOK, NEW r \in Reviewers, forget(r)
    PROVE  /\ batch' \in [Reviewers -> Batches] /\ round' \in [Reviewers -> 1..MaxRounds]
           /\ pending' \in [Reviewers -> SUBSET Paths]
           /\ receipts' \in [Reviewers -> Receipts] /\ context' \in [Reviewers -> Receipts]
           /\ failure' \in [Reviewers -> Failures \cup {Nothing}]
           /\ verdict' \in [Reviewers -> Answers \cup {Nothing}]
           /\ union' \in [Reviewers -> [Batches -> Answers \cup {Nothing}]]
           /\ allComplete' \in [Reviewers -> BOOLEAN]
<1>1. 1 \in Batches /\ 1 \in 1..MaxRounds /\ Empty \in Receipts
  BY BatchAssumption, BoundAssumption, EmptyReceipts
<1> QED  BY <1>1 DEF forget, ReviewTypeOK

LEMMA RoundLeft ==
    ASSUME ReviewTypeOK, NEW r \in Reviewers, round[r] # MaxRounds
    PROVE  round[r] + 1 \in 1..MaxRounds
<1>1. PICK n \in 1..MaxRounds : round[r] = n
  BY DEF ReviewTypeOK
<1>2. n \in Nat /\ n # MaxRounds /\ MaxRounds \in Nat
  BY <1>1, BoundAssumption
<1>3. n + 1 \in 1..MaxRounds
  BY <1>1, <1>2
<1> QED  BY <1>1, <1>3

LEMMA ReviewTypeInit == ReviewInit => ReviewTypeOK
<1>1. 1 \in Batches /\ 1 \in 1..MaxRounds /\ Empty \in Receipts
  BY BatchAssumption, BoundAssumption, EmptyReceipts
<1> QED  BY <1>1 DEF ReviewInit, ReviewTypeOK

LEMMA ReviewTypeStep == ReviewTypeOK /\ [ReviewNext]_reviewVars => ReviewTypeOK'
<1> SUFFICES ASSUME ReviewTypeOK, [ReviewNext]_reviewVars PROVE ReviewTypeOK'
  OBVIOUS
<1>1. ASSUME NEW p \in Paths, NEW v \in 0..MaxVersion, Edit(p, v) PROVE ReviewTypeOK'
  BY <1>1 DEF Edit, ReviewTypeOK, local
<1> SUFFICES ASSUME NEW r \in Reviewers, BeginReview(r) \/ Kill(r) \/ Step(r)
             PROVE  ReviewTypeOK'
  <2>1. CASE UNCHANGED reviewVars
    BY <2>1 DEF reviewVars, store, local, ghosts, ReviewTypeOK
  <2> QED  BY <1>1, <2>1 DEF ReviewNext
<1> USE DEF proceed
<1>2. CASE BeginReview(r)
  <2>1. currentParts \subseteq Batches
    BY DEF currentParts
  <2> QED  BY <1>2, <2>1, ForgetTyped DEF BeginReview, watch, store, ReviewTypeOK
<1>3. CASE Kill(r)
  BY <1>3, ForgetTyped, EmptyReceipts DEF Kill, watch, store, ReviewTypeOK
<1>4. CASE Lookup(r)
  <2> DEFINE part == parts[batch[r]]
             listed == IF part = Nothing THEN DOMAIN shared[r] ELSE DOMAIN part.receipts
  <2>1. part \in Answers \cup {Nothing} /\ DOMAIN shared[r] \subseteq Paths
    BY ReceiptsDomain DEF ReviewTypeOK
  <2>2. part # Nothing => DOMAIN part.receipts \subseteq Paths
    BY <2>1, ReceiptsDomain DEF Answers
  <2>3. verdict' = [verdict EXCEPT ![r] = part] /\ pending' = [pending EXCEPT ![r] = listed]
        /\ at' = [at EXCEPT ![r] = IF part = Nothing THEN "prepare" ELSE "verify"]
    BY <1>4 DEF Lookup
  <2>4. listed \in SUBSET Paths
    BY <2>1, <2>2
  <2> HIDE DEF part, listed
  <2>5. UNCHANGED <<store, batch, round, receipts, context, shared, failure, union, allComplete, ghosts>>
    BY <1>4 DEF Lookup
  <2> QED  BY <2>1, <2>3, <2>4, <2>5 DEF store, ghosts, ReviewTypeOK
<1>5. CASE Verify(r)
  <2>1. DOMAIN shared[r] \subseteq Paths
    BY ReceiptsDomain DEF ReviewTypeOK
  <2>2. UNCHANGED <<store, batch, round, receipts, context, shared, failure, union, allComplete, ghosts>>
    BY <1>5 DEF Verify
  <2> DEFINE Kinds ==
        /\ at' \in [Reviewers -> {"idle", "lookup", "verify", "prepare", "ask", "acquire", "save",
                                 "take", "done", "retry", "failed"}]
        /\ pending' \in [Reviewers -> SUBSET Paths]
        /\ verdict' \in [Reviewers -> Answers \cup {Nothing}]
  <2>3. Kinds
    <3>1. CASE pending[r] = {}
      BY <1>5, <3>1 DEF Verify, ReviewTypeOK
    <3>2. ASSUME NEW p \in pending[r],
                 pending' = [pending EXCEPT ![r] = @ \ {p}], UNCHANGED <<at, verdict>>
          PROVE  Kinds
      BY <3>2 DEF ReviewTypeOK
    <3>3. ASSUME pending' = [pending EXCEPT ![r] = DOMAIN shared[r]],
                 verdict' = [verdict EXCEPT ![r] = Nothing], proceed(r, "prepare")
          PROVE  Kinds
      BY <2>1, <3>3 DEF ReviewTypeOK
    <3> QED  BY <1>5, <3>1, <3>2, <3>3 DEF Verify
  <2> QED  BY <2>2, <2>3 DEF store, ghosts, ReviewTypeOK
<1>6. CASE Prepare(r)
  <2>1. UNCHANGED <<store, batch, round, shared, failure, verdict, union, allComplete, ghosts>>
    BY <1>6 DEF Prepare
  <2>2. CASE pending[r] = {}
    BY <1>6, <2>1, <2>2 DEF Prepare, show, store, ghosts, ReviewTypeOK
  <2>3. ASSUME NEW p \in pending[r],
               /\ pending' = [pending EXCEPT ![r] = @ \ {p}]
               /\ receipts' = [receipts EXCEPT ![r] =
                        IF stillShared(r, p) THEN with(@, p, shared[r][p]) ELSE @]
               /\ UNCHANGED <<at, context>>
        PROVE  ReviewTypeOK'
    <3>1. stillShared(r, p) => with(receipts[r], p, shared[r][p]) \in Receipts
      <4>1. p \in Paths /\ receipts[r] \in Receipts
        BY DEF ReviewTypeOK
      <4>2. stillShared(r, p) => shared[r][p] \in Values
        BY <4>1, AcquiredValue DEF stillShared
      <4> QED  BY <4>1, <4>2, WithReceipt
    <3>2. receipts' \in [Reviewers -> Receipts]
      BY <2>3, <3>1 DEF ReviewTypeOK
    <3> QED  BY <2>1, <2>3, <3>2 DEF store, ghosts, ReviewTypeOK
  <2> QED  BY <1>6, <2>2, <2>3 DEF Prepare
<1>7. ASSUME NEW complete \in BOOLEAN, Conclude(r, complete) PROVE ReviewTypeOK'
  <2>1. answer(r, complete) \in Answers
    BY AnswerTyped
  <2> QED  BY <1>7, <2>1 DEF Conclude, after, store, ghosts, ReviewTypeOK
<1>8. ASSUME NEW paths \in SUBSET Paths, Request(r, paths) PROVE ReviewTypeOK'
  BY <1>8 DEF Request, store, ghosts, ReviewTypeOK
<1>9. CASE Acquire(r)
  <2>1. UNCHANGED <<store, batch, failure, union, allComplete, ghosts>>
    BY <1>9 DEF Acquire
  <2>2. CASE pending[r] = {}
    <3>1. answer(r, FALSE) \in Answers
      BY AnswerTyped
    <3>2. round[r] # MaxRounds => round[r] + 1 \in 1..MaxRounds
      BY RoundLeft
    <3>3. round' = [round EXCEPT ![r] = IF round[r] = MaxRounds THEN @ ELSE @ + 1]
          /\ verdict' = [verdict EXCEPT ![r] = IF round[r] = MaxRounds THEN answer(r, FALSE) ELSE @]
          /\ at' = [at EXCEPT ![r] = IF round[r] = MaxRounds THEN after(FALSE) ELSE "ask"]
          /\ context' = [context EXCEPT ![r] = receipts[r]]
          /\ UNCHANGED <<pending, receipts, shared>>
      BY <1>9, <2>2 DEF Acquire, show
    <3>4. round' \in [Reviewers -> 1..MaxRounds]
      BY <3>2, <3>3 DEF ReviewTypeOK
    <3> QED  BY <2>1, <3>1, <3>3, <3>4 DEF after, store, ghosts, ReviewTypeOK
  <2>3. ASSUME NEW p \in pending[r],
               LET v == acquired(Reach[batch[r]], p) IN
               /\ pending' = [pending EXCEPT ![r] = @ \ {p}]
               /\ receipts' = [receipts EXCEPT ![r] = with(@, p, v)]
               /\ shared' = [shared EXCEPT ![r] = with(@, p, v)],
               UNCHANGED <<at, round, context, verdict>>
        PROVE  ReviewTypeOK'
    <3> DEFINE v == acquired(Reach[batch[r]], p)
    <3>1. p \in Paths /\ receipts[r] \in Receipts /\ shared[r] \in Receipts
      BY DEF ReviewTypeOK
    <3>2. v \in Values
      BY <3>1, AcquiredValue
    <3>3. with(receipts[r], p, v) \in Receipts /\ with(shared[r], p, v) \in Receipts
      BY <3>1, <3>2, WithReceipt
    <3> QED  BY <2>1, <2>3, <3>3 DEF store, ghosts, ReviewTypeOK
  <2> QED  BY <1>9, <2>2, <2>3 DEF Acquire
<1>10. ASSUME NEW error \in Failures, Malformed(r, error) PROVE ReviewTypeOK'
  <2>1. CASE round[r] = MaxRounds \/ failure[r] = error
    BY <1>10, <2>1, ForgetTyped DEF Malformed, watch, store, ReviewTypeOK
  <2>2. CASE ~(round[r] = MaxRounds \/ failure[r] = error)
    <3>1. round[r] + 1 \in 1..MaxRounds
      BY <2>2, RoundLeft
    <3> QED  BY <1>10, <2>2, <3>1 DEF Malformed, nextRound, store, ghosts, ReviewTypeOK
  <2> QED  BY <2>1, <2>2
<1>11. CASE ProviderFails(r)
  BY <1>11, ForgetTyped DEF ProviderFails, watch, store, ReviewTypeOK
<1>12. CASE SavePart(r)
  BY <1>12 DEF SavePart, local, ReviewTypeOK
<1>13. CASE Take(r)
  <2> DEFINE more == batch[r] + 1 \in Batches
  <2>1. /\ union' = [union EXCEPT ![r] = [union[r] EXCEPT ![batch[r]] = verdict[r]]]
        /\ allComplete' = [allComplete EXCEPT ![r] = completeSoFar(r)]
        /\ at' = [at EXCEPT ![r] = IF more THEN "lookup" ELSE "done"]
        /\ batch' = [batch EXCEPT ![r] = IF more THEN batch[r] + 1 ELSE batch[r]]
        /\ round' = [round EXCEPT ![r] = 1]
        /\ receipts' = [receipts EXCEPT ![r] = Empty]
        /\ context' = [context EXCEPT ![r] = Empty]
        /\ failure' = [failure EXCEPT ![r] = Nothing]
        /\ verdict' = [verdict EXCEPT ![r] = Nothing]
        /\ UNCHANGED <<store, pending, shared, ghosts>>
    BY <1>13 DEF Take, ReviewTypeOK
  <2>2. 1 \in 1..MaxRounds /\ Empty \in Receipts
    BY BoundAssumption, EmptyReceipts
  <2>3. completeSoFar(r) \in BOOLEAN
    BY DEF completeSoFar
  <2>4. [union[r] EXCEPT ![batch[r]] = verdict[r]] \in [Batches -> Answers \cup {Nothing}]
    BY DEF ReviewTypeOK
  <2>5. batch' \in [Reviewers -> Batches]
    BY <2>1 DEF ReviewTypeOK
  <2> HIDE DEF more
  <2> QED  BY <2>1, <2>2, <2>3, <2>4, <2>5 DEF store, ghosts, ReviewTypeOK
<1> QED
  BY <1>2, <1>3, <1>4, <1>5, <1>6, <1>7, <1>8, <1>9, <1>10, <1>11, <1>12, <1>13 DEF Step

-------------------------------------------------------------------------------
(* What the other reviews see of a step *)

\* The others keep what they hold; a checkpoint that is written leaves what they knew.
Apart(r) ==
    \A q \in Reviewers \ {r} :
        /\ at'[q] = at[q] /\ batch'[q] = batch[q] /\ pending'[q] = pending[q]
        /\ receipts'[q] = receipts[q] /\ context'[q] = context[q] /\ verdict'[q] = verdict[q]
        /\ union'[q] = union[q] /\ allComplete'[q] = allComplete[q] /\ quiet'[q] = quiet[q]
        /\ known'[q] \subseteq known[q] /\ \A b \in known'[q] : parts'[b] = parts[b]

LEMMA ForgetApart ==
    ASSUME ReviewTypeOK, NEW r \in Reviewers, forget(r), NEW S, watch(r, S), NEW label,
           proceed(r, label), UNCHANGED store
    PROVE  Apart(r)
BY DEF forget, watch, proceed, store, Apart, ReviewTypeOK

LEMMA StepApart ==
    ASSUME ReviewTypeOK, NEW r \in Reviewers, BeginReview(r) \/ Kill(r) \/ Step(r)
    PROVE  Apart(r) /\ file' = file
<1> USE DEF proceed
<1>1. CASE BeginReview(r)
  BY <1>1, ForgetApart DEF BeginReview, store
<1>2. CASE Kill(r)
  BY <1>2, ForgetApart DEF Kill, store
<1>3. CASE Lookup(r)
  <2>1. /\ UNCHANGED <<store, batch, round, receipts, context, shared, failure, union, allComplete, ghosts>>
        /\ \A q \in Reviewers \ {r} : at'[q] = at[q] /\ pending'[q] = pending[q] /\ verdict'[q] = verdict[q]
    BY <1>3 DEF Lookup, ReviewTypeOK
  <2> QED  BY <2>1 DEF store, ghosts, Apart
<1>4. CASE Verify(r)
  <2>1. UNCHANGED <<store, batch, round, receipts, context, shared, failure, union, allComplete, ghosts>>
    BY <1>4 DEF Verify
  <2> DEFINE Kept ==
        \A q \in Reviewers \ {r} : at'[q] = at[q] /\ pending'[q] = pending[q] /\ verdict'[q] = verdict[q]
  <2>2. Kept
    <3>1. CASE pending[r] = {}
      BY <1>4, <3>1 DEF Verify, ReviewTypeOK
    <3>2. ASSUME NEW p \in pending[r],
                 pending' = [pending EXCEPT ![r] = @ \ {p}], UNCHANGED <<at, verdict>>
          PROVE  Kept
      BY <3>2 DEF ReviewTypeOK
    <3>3. ASSUME pending' = [pending EXCEPT ![r] = DOMAIN shared[r]],
                 verdict' = [verdict EXCEPT ![r] = Nothing], proceed(r, "prepare")
          PROVE  Kept
      BY <3>3 DEF ReviewTypeOK
    <3> QED  BY <1>4, <3>1, <3>2, <3>3 DEF Verify
  <2> QED  BY <2>1, <2>2 DEF store, ghosts, Apart
<1>5. CASE Prepare(r)
  <2>1. UNCHANGED <<store, batch, round, shared, failure, verdict, union, allComplete, ghosts>>
    BY <1>5 DEF Prepare
  <2>2. \A q \in Reviewers \ {r} : /\ at'[q] = at[q] /\ pending'[q] = pending[q]
                                  /\ receipts'[q] = receipts[q] /\ context'[q] = context[q]
    BY <1>5 DEF Prepare, show, ReviewTypeOK
  <2> QED  BY <2>1, <2>2 DEF store, ghosts, Apart
<1>6. ASSUME NEW complete \in BOOLEAN, Conclude(r, complete) PROVE Apart(r) /\ file' = file
  BY <1>6 DEF Conclude, store, ghosts, Apart, ReviewTypeOK
<1>7. ASSUME NEW paths \in SUBSET Paths, Request(r, paths) PROVE Apart(r) /\ file' = file
  BY <1>7 DEF Request, store, ghosts, Apart, ReviewTypeOK
<1>8. CASE Acquire(r)
  <2>1. UNCHANGED <<store, batch, failure, union, allComplete, ghosts>>
    BY <1>8 DEF Acquire
  <2>2. \A q \in Reviewers \ {r} : /\ at'[q] = at[q] /\ pending'[q] = pending[q] /\ verdict'[q] = verdict[q]
                                  /\ receipts'[q] = receipts[q] /\ context'[q] = context[q]
    BY <1>8 DEF Acquire, show, ReviewTypeOK
  <2> QED  BY <2>1, <2>2 DEF store, ghosts, Apart
<1>9. ASSUME NEW error \in Failures, Malformed(r, error) PROVE Apart(r) /\ file' = file
  <2>1. CASE round[r] = MaxRounds \/ failure[r] = error
    <3>1. forget(r) /\ watch(r, {}) /\ UNCHANGED store
          /\ proceed(r, IF error = "invalid" THEN "retry" ELSE "failed")
      BY <1>9, <2>1 DEF Malformed, store
    <3> QED  BY <3>1, ForgetApart DEF store
  <2>2. CASE ~(round[r] = MaxRounds \/ failure[r] = error)
    BY <1>9, <2>2 DEF Malformed, store, ghosts, Apart
  <2> QED  BY <2>1, <2>2
<1>10. CASE ProviderFails(r)
  BY <1>10, ForgetApart DEF ProviderFails, store
<1>11. CASE SavePart(r)
  BY <1>11 DEF SavePart, local, Apart, ReviewTypeOK
<1>12. CASE Take(r)
  BY <1>12 DEF Take, store, ghosts, Apart, ReviewTypeOK
<1> QED
  BY <1>1, <1>2, <1>3, <1>4, <1>5, <1>6, <1>7, <1>8, <1>9, <1>10, <1>11, <1>12 DEF Step

\* What a review that keeps what it holds has, it still has.
LEMMA KeptReviewed ==
    ASSUME ReviewTypeOK, NEW q \in Reviewers, Reviewed(q), file' = file,
           /\ at'[q] = at[q] /\ batch'[q] = batch[q] /\ pending'[q] = pending[q]
           /\ receipts'[q] = receipts[q] /\ context'[q] = context[q] /\ verdict'[q] = verdict[q]
           /\ union'[q] = union[q] /\ allComplete'[q] = allComplete[q] /\ quiet'[q] = quiet[q]
           /\ known'[q] \subseteq known[q] /\ \A b \in known'[q] : parts'[b] = parts[b]
    PROVE  Reviewed(q)'
<1>1. Answered(q)'
  BY DEF Reviewed, Answered, joined, answered
<1>2. Admitted(q)'
  BY DEF Reviewed, Admitted, Reached, Empty
<1>3. Current(q)'
  BY DEF Reviewed, Current, Fresh, acquired, same, joined
<1>4. Finished(q)'
  BY DEF Reviewed, Finished, currentParts
<1> QED  BY <1>1, <1>2, <1>3, <1>4 DEF Reviewed

-------------------------------------------------------------------------------
(* What a step leaves of the review that takes it *)

LEMMA Forgotten ==
    ASSUME ReviewTypeOK, NEW r \in Reviewers, forget(r),
           at'[r] \in {"idle", "lookup", "retry", "failed"}, known'[r] \subseteq currentParts'
    PROVE  Reviewed(r)'
<1>1. /\ batch'[r] = 1 /\ receipts'[r] = Empty
      /\ union'[r] = [b \in Batches |-> Nothing]
  BY DEF forget, ReviewTypeOK
<1>2. \A b \in Batches : ~joined(r, b)'
  BY <1>1, BatchAssumption DEF joined
<1> QED  BY <1>1, <1>2 DEF Reviewed, Answered, Admitted, Current, Finished, Collecting, Holding

\* One more receipt, acquired for the same batch.
LEMMA OneMore ==
    ASSUME ReviewTypeOK, NEW f \in Receipts, NEW b \in Batches, NEW p \in Paths,
           NEW v, v = acquired(Reach[b], p)
    PROVE  /\ Reached(f, b) => Reached(with(f, p, v), b)
           /\ Fresh(f, b) => Fresh(with(f, p, v), b)
<1> DEFINE g == with(f, p, v)
<1>1. v \in Values /\ (v = Outside <=> p \notin Reach[b])
  BY AcquiredValue
<1>2. DOMAIN g = DOMAIN f \cup {p} /\ g[p] = v /\ \A q \in DOMAIN f \ {p} : g[q] = f[q]
  BY <1>1, WithReceipt
<1> HIDE DEF g
<1>3. Reached(f, b) => Reached(g, b)
  BY <1>1, <1>2 DEF Reached
<1>4. Fresh(f, b) => Fresh(g, b)
  BY <1>2 DEF Fresh
<1> QED  BY <1>3, <1>4 DEF g

LEMMA LookupReviewed ==
    ASSUME ReviewTypeOK, Saved, NEW r \in Reviewers, Reviewed(r), Lookup(r)
    PROVE  Reviewed(r)'
<1> DEFINE part == parts[batch[r]]
<1>1. /\ at[r] = "lookup" /\ batch[r] \in Batches
      /\ at'[r] = IF part = Nothing THEN "prepare" ELSE "verify"
      /\ verdict'[r] = part
      /\ pending'[r] = IF part = Nothing THEN DOMAIN shared[r] ELSE DOMAIN part.receipts
      /\ UNCHANGED <<file, parts, batch, receipts, union, allComplete, quiet, known>>
  BY DEF Lookup, proceed, store, ghosts, ReviewTypeOK
<1>2. part # Nothing => answered(part) /\ Reached(part.receipts, batch[r])
  BY <1>1 DEF Saved
<1>3. part = Nothing => batch[r] \notin known[r]
  BY DEF Reviewed, Finished, currentParts
<1>4. receipts[r] = Empty
  BY <1>1 DEF Reviewed, Admitted
<1>5. DOMAIN Empty = {}
  BY EmptyReceipts
<1>6. currentParts' = currentParts
  BY <1>1 DEF currentParts
<1>7. \A b \in Batches : joined(r, b)' <=> joined(r, b)
  BY <1>1 DEF joined
<1>8. Answered(r)'
  BY <1>1, <1>2, <1>7 DEF Reviewed, Answered, answered
<1>9. Admitted(r)'
  BY <1>1, <1>2, <1>4, <1>5 DEF Admitted, Reached, Collecting, Holding
<1>10. Current(r)'
  BY <1>1, <1>4, <1>5, <1>7 DEF Reviewed, Current, Fresh, acquired, Collecting
<1>11. Finished(r)'
  BY <1>1, <1>3, <1>6 DEF Reviewed, Finished, Collecting
<1> QED  BY <1>8, <1>9, <1>10, <1>11 DEF Reviewed

\* Receipts that are verified with fewer paths admitted are those of the batch.
LEMMA SameIsFresh ==
    ASSUME NEW r \in Reviewers, NEW b \in Batches, NEW f, Reached(f, b),
           \A p \in DOMAIN f : acquired(OwnReach, p) = f[p]
    PROVE  Fresh(f, b)
<1> SUFFICES ASSUME NEW p \in DOMAIN f PROVE f[p] = acquired(Reach[b], p)
  BY DEF Fresh
<1>1. CASE p \in OwnReach
  BY <1>1, ReachAssumption DEF acquired
<1>2. CASE p \notin OwnReach
  BY <1>2 DEF Reached, acquired
<1> QED  BY <1>1, <1>2

LEMMA VerifyReviewed ==
    ASSUME ReviewTypeOK, NEW r \in Reviewers, Reviewed(r), Verify(r)
    PROVE  Reviewed(r)'
<1>1. /\ at[r] = "verify" /\ batch[r] \in Batches
      /\ UNCHANGED <<file, parts, batch, receipts, union, allComplete, quiet, known>>
  BY DEF Verify, store, ghosts, ReviewTypeOK
<1>2. /\ answered(verdict[r]) /\ receipts[r] = Empty /\ DOMAIN Empty = {}
      /\ Reached(verdict[r].receipts, batch[r])
      /\ pending[r] \subseteq DOMAIN verdict[r].receipts
      /\ batch[r] \in known[r] => verdict[r] = parts[batch[r]] /\ batch[r] \in currentParts
  BY <1>1, EmptyReceipts DEF Reviewed, Answered, Admitted, Finished, Holding
<1>3. currentParts' = currentParts
  BY <1>1 DEF currentParts
<1>4. ASSUME at'[r] # "done"
      PROVE  \A b \in Batches : joined(r, b)' <=> joined(r, b)
  BY <1>1, <1>4 DEF joined
<1>5. ASSUME pending[r] = {}, at'[r] = "take", verdict'[r] = verdict[r], pending'[r] = pending[r]
      PROVE  Reviewed(r)'
  <2>1. Answered(r)'
    BY <1>1, <1>2, <1>4, <1>5 DEF Reviewed, Answered, answered
  <2>2. Admitted(r)'
    BY <1>1, <1>2, <1>5 DEF Admitted, Reached, Collecting, Holding
  <2>3. quiet[r] => Fresh(verdict[r].receipts, batch[r])
    BY <1>1, <1>2, <1>5, SameIsFresh DEF Reviewed, Current, same
  <2>4. Current(r)'
    BY <1>1, <1>4, <1>5, <2>3 DEF Reviewed, Current, Fresh, acquired, Collecting
  <2>5. Finished(r)'
    BY <1>1, <1>3, <1>5 DEF Reviewed, Finished, Collecting
  <2> QED  BY <2>1, <2>2, <2>4, <2>5 DEF Reviewed
<1>6. ASSUME NEW p \in pending[r], same(r, p), pending'[r] = pending[r] \ {p},
             at'[r] = at[r], verdict'[r] = verdict[r]
      PROVE  Reviewed(r)'
  <2>1. Answered(r)'
    BY <1>1, <1>4, <1>6 DEF Reviewed, Answered, answered
  <2>2. Admitted(r)'
    BY <1>1, <1>6 DEF Reviewed, Admitted, Reached, Empty
  <2>3. quiet[r] => \A q \in DOMAIN verdict[r].receipts \ pending'[r] : same(r, q)
    BY <1>1, <1>6 DEF Reviewed, Current
  <2>4. Current(r)'
    BY <1>1, <1>4, <1>6, <2>3 DEF Reviewed, Current, Fresh, acquired, same, Collecting
  <2>5. Finished(r)'
    BY <1>1, <1>3, <1>6 DEF Reviewed, Finished, Collecting
  <2> QED  BY <2>1, <2>2, <2>4, <2>5 DEF Reviewed
<1>7. ASSUME NEW p \in pending[r], ~same(r, p), pending'[r] = DOMAIN shared[r],
             at'[r] = "prepare", verdict'[r] = Nothing
      PROVE  Reviewed(r)'
  \* A checkpoint that was current is the same as long as it is there.
  <2>1. batch[r] \notin known[r]
    BY <1>2, <1>7 DEF currentParts, same, acquired
  <2>2. Answered(r)'
    BY <1>1, <1>4, <1>7 DEF Reviewed, Answered, answered
  <2>3. Admitted(r)'
    BY <1>1, <1>2, <1>7 DEF Admitted, Reached, Collecting, Holding
  <2>4. Current(r)'
    BY <1>1, <1>2, <1>4, <1>7 DEF Reviewed, Current, Fresh, acquired, Collecting
  <2>5. Finished(r)'
    BY <1>1, <1>3, <1>7, <2>1 DEF Reviewed, Finished, Collecting
  <2> QED  BY <2>2, <2>3, <2>4, <2>5 DEF Reviewed
<1> QED
  <2>1. CASE pending[r] = {}
    BY <1>5, <2>1 DEF Verify, proceed, ReviewTypeOK
  <2>2. CASE pending[r] # {}
    <3>1. PICK p \in pending[r] :
            IF same(r, p)
            THEN pending' = [pending EXCEPT ![r] = @ \ {p}] /\ UNCHANGED <<at, verdict>>
            ELSE /\ pending' = [pending EXCEPT ![r] = DOMAIN shared[r]]
                 /\ verdict' = [verdict EXCEPT ![r] = Nothing]
                 /\ at' = [at EXCEPT ![r] = "prepare"]
      BY <2>2 DEF Verify, proceed
    <3> QED  BY <1>6, <1>7, <3>1 DEF ReviewTypeOK
  <2> QED  BY <2>1, <2>2

LEMMA PrepareReviewed ==
    ASSUME ReviewTypeOK, NEW r \in Reviewers, Reviewed(r), Prepare(r)
    PROVE  Reviewed(r)'
<1>1. /\ at[r] = "prepare" /\ batch[r] \in Batches /\ receipts[r] \in Receipts
      /\ UNCHANGED <<file, parts, batch, verdict, union, allComplete, quiet, known>>
  BY DEF Prepare, store, ghosts, ReviewTypeOK
<1>2. Reached(receipts[r], batch[r]) /\ batch[r] \notin known[r]
      /\ (quiet[r] => Fresh(receipts[r], batch[r]))
  BY <1>1 DEF Reviewed, Admitted, Current, Finished, Collecting
<1>3. currentParts' = currentParts
  BY <1>1 DEF currentParts
<1>4. ASSUME at'[r] \in {"prepare", "ask"}, at'[r] = "ask" => context'[r] = receipts'[r],
             Reached(receipts'[r], batch[r]), quiet[r] => Fresh(receipts'[r], batch[r])
      PROVE  Reviewed(r)'
  <2>1. \A b \in Batches : joined(r, b)' <=> joined(r, b)
    BY <1>1, <1>4 DEF joined
  <2>2. Answered(r)'
    BY <1>1, <1>4, <2>1 DEF Reviewed, Answered, answered
  <2>3. Admitted(r)'
    BY <1>1, <1>4 DEF Admitted, Reached, Collecting, Holding
  <2>4. Current(r)'
    BY <1>1, <1>4, <2>1 DEF Reviewed, Current, Fresh, acquired, Collecting
  <2>5. Finished(r)'
    BY <1>1, <1>2, <1>3, <1>4 DEF Reviewed, Finished, Collecting
  <2> QED  BY <2>2, <2>3, <2>4, <2>5 DEF Reviewed
<1>5. CASE pending[r] = {}
  <2>1. at'[r] = "ask" /\ context'[r] = receipts[r] /\ receipts' = receipts
    BY <1>5 DEF Prepare, proceed, show, ReviewTypeOK
  <2> QED  BY <1>2, <1>4, <2>1
<1>6. CASE pending[r] # {}
  <2>1. PICK p \in pending[r] :
            /\ receipts' = [receipts EXCEPT ![r] =
                    IF stillShared(r, p) THEN with(@, p, shared[r][p]) ELSE @]
            /\ UNCHANGED at
    BY <1>6 DEF Prepare
  <2>2. CASE stillShared(r, p)
    <3>1. receipts'[r] = with(receipts[r], p, shared[r][p])
      BY <2>1, <2>2 DEF ReviewTypeOK
    <3>2. shared[r][p] = acquired(Reach[batch[r]], p) /\ p \in Paths
      BY <2>2 DEF stillShared, ReviewTypeOK
    <3> QED  BY <1>1, <1>2, <1>4, <2>1, <3>1, <3>2, OneMore
  <2>3. CASE ~stillShared(r, p)
    <3>1. receipts'[r] = receipts[r]
      BY <2>1, <2>3 DEF ReviewTypeOK
    <3> QED  BY <1>1, <1>2, <1>4, <2>1, <3>1
  <2> QED  BY <2>2, <2>3
<1> QED  BY <1>5, <1>6

LEMMA ConcludeReviewed ==
    ASSUME ReviewTypeOK, NEW r \in Reviewers, Reviewed(r), NEW complete \in BOOLEAN,
           Conclude(r, complete)
    PROVE  Reviewed(r)'
<1>1. /\ at[r] = "ask" /\ batch[r] \in Batches /\ verdict'[r] = answer(r, complete)
      /\ at'[r] = IF complete THEN "save" ELSE "take"
      /\ UNCHANGED <<file, parts, batch, receipts, context, union, allComplete, quiet, known>>
  BY DEF Conclude, proceed, after, store, ghosts, ReviewTypeOK
<1>2. context[r] = receipts[r] /\ Reached(receipts[r], batch[r]) /\ batch[r] \notin known[r]
      /\ (quiet[r] => Fresh(receipts[r], batch[r]))
  BY <1>1 DEF Reviewed, Answered, Admitted, Current, Finished, Collecting
<1>3. /\ verdict'[r] # Nothing /\ verdict'[r].complete = complete
      /\ verdict'[r].receipts = receipts[r] /\ verdict'[r].basis = receipts[r]
  BY <1>1, <1>2, AnswerTyped
<1>4. currentParts' = currentParts
  BY <1>1 DEF currentParts
<1>5. \A b \in Batches : joined(r, b)' <=> joined(r, b)
  BY <1>1 DEF joined
<1>6. Answered(r)'
  BY <1>1, <1>3, <1>5 DEF Reviewed, Answered, answered
<1>7. Admitted(r)'
  BY <1>1, <1>2, <1>3 DEF Admitted, Reached, Collecting, Holding
<1>8. Current(r)'
  BY <1>1, <1>2, <1>3, <1>5 DEF Reviewed, Current, Fresh, acquired, Collecting
<1>9. Finished(r)'
  BY <1>1, <1>2, <1>4 DEF Reviewed, Finished, Collecting
<1> QED  BY <1>6, <1>7, <1>8, <1>9 DEF Reviewed

LEMMA RequestReviewed ==
    ASSUME ReviewTypeOK, NEW r \in Reviewers, Reviewed(r), NEW paths \in SUBSET Paths,
           Request(r, paths)
    PROVE  Reviewed(r)'
<1>1. /\ at[r] = "ask" /\ at'[r] = "acquire"
      /\ UNCHANGED <<file, parts, batch, receipts, context, verdict, union, allComplete, quiet, known>>
  BY DEF Request, proceed, store, ghosts, ReviewTypeOK
<1>2. Answered(r)'
  BY <1>1 DEF Reviewed, Answered, joined, answered
<1>3. Admitted(r)'
  BY <1>1 DEF Reviewed, Admitted, Reached, Collecting, Holding
<1>4. Current(r)'
  BY <1>1 DEF Reviewed, Current, Fresh, acquired, joined, Collecting
<1>5. Finished(r)'
  BY <1>1 DEF Reviewed, Finished, currentParts, Collecting
<1> QED  BY <1>2, <1>3, <1>4, <1>5 DEF Reviewed

LEMMA AcquireReviewed ==
    ASSUME ReviewTypeOK, NEW r \in Reviewers, Reviewed(r), Acquire(r)
    PROVE  Reviewed(r)'
<1>1. /\ at[r] = "acquire" /\ batch[r] \in Batches /\ receipts[r] \in Receipts
      /\ UNCHANGED <<file, parts, batch, union, allComplete, quiet, known>>
  BY DEF Acquire, store, ghosts, ReviewTypeOK
<1>2. Reached(receipts[r], batch[r]) /\ batch[r] \notin known[r]
      /\ (quiet[r] => Fresh(receipts[r], batch[r]))
  BY <1>1 DEF Reviewed, Admitted, Current, Finished, Collecting
<1>3. currentParts' = currentParts
  BY <1>1 DEF currentParts
<1>4. ASSUME at'[r] # "done"
      PROVE  \A b \in Batches : joined(r, b)' <=> joined(r, b)
  BY <1>1, <1>4 DEF joined
<1>5. ASSUME at'[r] \in {"acquire", "ask"}, at'[r] = "ask" => context'[r] = receipts'[r],
             Reached(receipts'[r], batch[r]), quiet[r] => Fresh(receipts'[r], batch[r])
      PROVE  Reviewed(r)'
  <2>1. Answered(r)'
    BY <1>1, <1>4, <1>5 DEF Reviewed, Answered, answered
  <2>2. Admitted(r)'
    BY <1>1, <1>5 DEF Admitted, Reached, Collecting, Holding
  <2>3. Current(r)'
    BY <1>1, <1>4, <1>5 DEF Reviewed, Current, Fresh, acquired, Collecting
  <2>4. Finished(r)'
    BY <1>1, <1>2, <1>3, <1>5 DEF Reviewed, Finished, Collecting
  <2> QED  BY <2>1, <2>2, <2>3, <2>4 DEF Reviewed
<1>6. CASE pending[r] = {} /\ round[r] # MaxRounds
  <2>1. at'[r] = "ask" /\ context'[r] = receipts[r] /\ receipts' = receipts
    BY <1>6 DEF Acquire, proceed, show, ReviewTypeOK
  <2> QED  BY <1>2, <1>5, <2>1
<1>7. CASE pending[r] = {} /\ round[r] = MaxRounds
  <2>1. at'[r] = "take" /\ verdict'[r] = answer(r, FALSE) /\ receipts' = receipts
    BY <1>7 DEF Acquire, proceed, after, ReviewTypeOK
  <2>2. verdict'[r] # Nothing /\ ~verdict'[r].complete /\ verdict'[r].receipts = receipts[r]
    BY <2>1, AnswerTyped
  <2>3. Answered(r)'
    BY <1>1, <1>4, <2>1, <2>2 DEF Reviewed, Answered, answered
  <2>4. Admitted(r)'
    BY <1>1, <1>2, <2>1, <2>2 DEF Admitted, Reached, Collecting, Holding
  <2>5. Current(r)'
    BY <1>1, <1>2, <1>4, <2>1, <2>2 DEF Reviewed, Current, Fresh, acquired, Collecting
  <2>6. Finished(r)'
    BY <1>1, <1>3, <2>1 DEF Reviewed, Finished, Collecting
  <2> QED  BY <2>3, <2>4, <2>5, <2>6 DEF Reviewed
<1>8. CASE pending[r] # {}
  <2>1. PICK p \in pending[r] :
            receipts' = [receipts EXCEPT ![r] = with(@, p, acquired(Reach[batch[r]], p))]
            /\ UNCHANGED at
    BY <1>8 DEF Acquire
  <2>2. receipts'[r] = with(receipts[r], p, acquired(Reach[batch[r]], p)) /\ p \in Paths
    BY <2>1 DEF ReviewTypeOK
  <2> QED  BY <1>1, <1>2, <1>5, <2>1, <2>2, OneMore
<1> QED  BY <1>6, <1>7, <1>8

LEMMA MalformedReviewed ==
    ASSUME ReviewTypeOK, NEW r \in Reviewers, Reviewed(r), NEW error \in Failures,
           Malformed(r, error)
    PROVE  Reviewed(r)'
<1>1. CASE round[r] = MaxRounds \/ failure[r] = error
  <2>1. forget(r) /\ at'[r] \in {"retry", "failed"} /\ known'[r] = {}
    BY <1>1 DEF Malformed, proceed, watch, ReviewTypeOK
  <2> QED  BY <2>1, Forgotten
<1>2. CASE ~(round[r] = MaxRounds \/ failure[r] = error)
  BY <1>2, KeptReviewed DEF Malformed, store, ghosts
<1> QED  BY <1>1, <1>2

LEMMA SavePartReviewed ==
    ASSUME ReviewTypeOK, NEW r \in Reviewers, Reviewed(r), SavePart(r)
    PROVE  Reviewed(r)'
<1>1. /\ at[r] = "save" /\ at'[r] = "take" /\ batch[r] \in Batches
      /\ parts' = [parts EXCEPT ![batch[r]] = verdict[r]]
      /\ known'[r] = known[r] \ {batch[r]}
      /\ UNCHANGED <<file, batch, receipts, context, verdict, union, allComplete, quiet>>
  BY DEF SavePart, proceed, local, ReviewTypeOK
<1>2. answered(verdict[r]) /\ Reached(verdict[r].receipts, batch[r])
  BY <1>1 DEF Reviewed, Answered, Admitted, Holding
<1>3. \A b \in known'[r] : b \in Batches /\ parts'[b] = parts[b]
  BY <1>1 DEF ReviewTypeOK
<1>4. Answered(r)'
  BY <1>1, <1>2 DEF Reviewed, Answered, joined, answered
<1>5. Admitted(r)'
  BY <1>1, <1>2 DEF Admitted, Reached, Collecting, Holding
<1>6. Current(r)'
  BY <1>1 DEF Reviewed, Current, Fresh, acquired, joined, Collecting
<1>7. Finished(r)'
  BY <1>1, <1>3 DEF Reviewed, Finished, currentParts, Collecting
<1> QED  BY <1>4, <1>5, <1>6, <1>7 DEF Reviewed

\* The batches are taken one after the other: after the last one all are in the union.
LEMMA LastBatch ==
    ASSUME NEW b \in Batches, NEW c \in Batches, b + 1 \notin Batches
    PROVE  c <= b
<1>1. b \in Nat \ {0} /\ c \in Nat \ {0} /\ 1..c \subseteq Batches
  BY BatchAssumption
<1>2. b < c => b + 1 \in 1..c
  BY <1>1
<1> QED  BY <1>1, <1>2

LEMMA TakeReviewed ==
    ASSUME ReviewTypeOK, NEW r \in Reviewers, Reviewed(r), Take(r)
    PROVE  Reviewed(r)'
<1> DEFINE more == batch[r] + 1 \in Batches
<1>1. /\ at[r] = "take" /\ batch[r] \in Batches
      /\ at'[r] = IF more THEN "lookup" ELSE "done"
      /\ batch'[r] = IF more THEN batch[r] + 1 ELSE batch[r]
      /\ union'[r] = [union[r] EXCEPT ![batch[r]] = verdict[r]]
      /\ allComplete'[r] = (allComplete[r] /\ verdict[r].complete)
      /\ receipts'[r] = Empty
      /\ UNCHANGED <<file, parts, quiet, known>>
  BY DEF Take, proceed, completeSoFar, store, ghosts, ReviewTypeOK
<1>2. /\ verdict[r].complete => answered(verdict[r])
      /\ quiet[r] => Fresh(verdict[r].receipts, batch[r])
      /\ allComplete[r] => \A b \in Batches : b < batch[r] => answered(union[r][b])
      /\ quiet[r] => \A b \in Batches : b < batch[r] => Fresh(union[r][b].receipts, b)
  BY <1>1 DEF Reviewed, Answered, Current, joined
<1>3. \A b \in Batches : joined(r, b)' => b < batch[r] \/ b = batch[r]
  <2> SUFFICES ASSUME NEW b \in Batches, joined(r, b)' PROVE b < batch[r] \/ b = batch[r]
    OBVIOUS
  <2>1. b \in Nat /\ batch[r] \in Nat
    BY <1>1, BatchAssumption
  <2>2. CASE more
    BY <1>1, <2>1, <2>2 DEF joined
  <2>3. CASE ~more
    BY <1>1, <2>1, <2>3, LastBatch
  <2> QED  BY <2>2, <2>3
<1>4. \A b \in Batches : union'[r][b] = IF b = batch[r] THEN verdict[r] ELSE union[r][b]
  BY <1>1 DEF ReviewTypeOK
<1> HIDE DEF more
<1>5. at'[r] \in {"lookup", "done"}
  BY <1>1
<1>6. Answered(r)'
  <2>1. allComplete'[r] => \A b \in Batches : joined(r, b)' => answered(union'[r][b])
    BY <1>1, <1>2, <1>3, <1>4
  <2> QED  BY <1>5, <2>1 DEF Answered, answered
<1>7. Admitted(r)'
  BY <1>1, <1>5 DEF Admitted, Collecting, Holding
<1>8. Current(r)'
  <2>1. quiet'[r] => \A b \in Batches : joined(r, b)' => Fresh(union'[r][b].receipts, b)
    BY <1>1, <1>2, <1>3, <1>4
  <2> QED  BY <1>1, <1>5, <2>1 DEF Current, Fresh, acquired, Collecting
<1>9. Finished(r)'
  BY <1>1, <1>5 DEF Reviewed, Finished, currentParts, Collecting
<1> QED  BY <1>6, <1>7, <1>8, <1>9 DEF Reviewed

\* A file that changes ends what is promised of its contents.
LEMMA EditReviewed ==
    ASSUME NEW p, NEW v, NEW q \in Reviewers, Reviewed(q), Edit(p, v)
    PROVE  Reviewed(q)'
<1>1. /\ quiet'[q] = FALSE /\ known'[q] = {}
      /\ UNCHANGED <<parts, at, batch, pending, receipts, context, verdict, union, allComplete>>
  BY DEF Edit, local
<1>2. Answered(q)'
  BY <1>1 DEF Reviewed, Answered, joined, answered
<1>3. Admitted(q)'
  BY <1>1 DEF Reviewed, Admitted, Reached, Empty
<1>4. Current(q)' /\ Finished(q)'
  BY <1>1 DEF Reviewed, Current, Finished
<1> QED  BY <1>2, <1>3, <1>4 DEF Reviewed

-------------------------------------------------------------------------------
(* The theorems *)

LEMMA ReviewInvInit == ReviewInit => ReviewInv
<1> SUFFICES ASSUME ReviewInit PROVE ReviewInv
  OBVIOUS
<1>1. ReviewTypeOK
  BY ReviewTypeInit
<1>2. Saved
  BY DEF ReviewInit, Saved
<1>3. ASSUME NEW r \in Reviewers PROVE Reviewed(r)
  <2>1. /\ at[r] = "idle" /\ batch[r] = 1 /\ known[r] = {}
    BY DEF ReviewInit
  <2>2. \A b \in Batches : ~joined(r, b)
    BY <2>1, BatchAssumption DEF joined
  <2> QED  BY <2>1, <2>2 DEF Reviewed, Answered, Admitted, Current, Finished, Collecting, Holding
<1> QED  BY <1>1, <1>2, <1>3 DEF ReviewInv

LEMMA SavedStep ==
    ASSUME ReviewInv, NEW r \in Reviewers, BeginReview(r) \/ Kill(r) \/ Step(r)
    PROVE  Saved'
<1>1. CASE SavePart(r)
  <2>1. answered(verdict[r]) /\ Reached(verdict[r].receipts, batch[r])
    BY <1>1 DEF SavePart, ReviewInv, Reviewed, Answered, Admitted, Holding
  <2>2. parts' = [parts EXCEPT ![batch[r]] = verdict[r]] /\ parts \in [Batches -> Answers \cup {Nothing}]
    BY <1>1 DEF SavePart, ReviewInv, ReviewTypeOK
  <2> QED  BY <2>1, <2>2 DEF ReviewInv, Saved, answered, Reached
<1>2. CASE ~SavePart(r)
  <2>1. parts' = parts
    BY <1>2 DEF Step, BeginReview, Kill, Lookup, Verify, Prepare, Conclude, Request, Acquire,
                Malformed, ProviderFails, Take, store
  <2> QED  BY <2>1 DEF ReviewInv, Saved, answered, Reached
<1> QED  BY <1>1, <1>2

LEMMA ReviewedStep ==
    ASSUME ReviewInv, NEW r \in Reviewers, BeginReview(r) \/ Kill(r) \/ Step(r)
    PROVE  Reviewed(r)'
<1> USE DEF ReviewInv
<1>1. CASE BeginReview(r)
  <2>1. forget(r) /\ at'[r] = "lookup" /\ known'[r] = currentParts /\ file' = file /\ parts' = parts
    BY <1>1 DEF BeginReview, proceed, watch, store, ReviewTypeOK
  <2>2. currentParts' = currentParts
    BY <2>1 DEF currentParts
  <2> QED  BY <2>1, <2>2, Forgotten
<1>2. CASE Kill(r)
  <2>1. forget(r) /\ at'[r] = "idle" /\ known'[r] = {}
    BY <1>2 DEF Kill, proceed, watch, ReviewTypeOK
  <2> QED  BY <2>1, Forgotten
<1>3. CASE ProviderFails(r)
  <2>1. forget(r) /\ at'[r] = "failed" /\ known'[r] = {}
    BY <1>3 DEF ProviderFails, proceed, watch, ReviewTypeOK
  <2> QED  BY <2>1, Forgotten
<1> QED
  BY <1>1, <1>2, <1>3, LookupReviewed, VerifyReviewed, PrepareReviewed, ConcludeReviewed,
     RequestReviewed, AcquireReviewed, MalformedReviewed, SavePartReviewed, TakeReviewed DEF Step

LEMMA ReviewInvStep == ReviewInv /\ [ReviewNext]_reviewVars => ReviewInv'
<1> SUFFICES ASSUME ReviewInv, [ReviewNext]_reviewVars PROVE Saved' /\ \A q \in Reviewers : Reviewed(q)'
  BY ReviewTypeStep DEF ReviewInv
<1>1. ASSUME NEW p \in Paths, NEW v \in 0..MaxVersion, Edit(p, v)
      PROVE  Saved' /\ \A q \in Reviewers : Reviewed(q)'
  BY <1>1, EditReviewed DEF Edit, ReviewInv, Saved, answered, Reached
<1>2. ASSUME NEW r \in Reviewers, BeginReview(r) \/ Kill(r) \/ Step(r)
      PROVE  Saved' /\ \A q \in Reviewers : Reviewed(q)'
  <2>1. Saved' /\ Reviewed(r)'
    BY <1>2, SavedStep, ReviewedStep
  <2>2. Apart(r) /\ file' = file
    BY <1>2, StepApart DEF ReviewInv
  <2>3. ASSUME NEW q \in Reviewers \ {r} PROVE Reviewed(q)'
    BY <2>2, KeptReviewed DEF Apart, ReviewInv
  <2> QED  BY <2>1, <2>3
<1>3. CASE UNCHANGED reviewVars
  <2>1. Saved'
    BY <1>3 DEF reviewVars, store, ReviewInv, Saved, answered, Reached
  <2>2. ASSUME NEW q \in Reviewers PROVE Reviewed(q)'
    BY <1>3, KeptReviewed DEF reviewVars, store, local, ghosts, ReviewInv
  <2> QED  BY <2>1, <2>2
<1> QED  BY <1>1, <1>2, <1>3 DEF ReviewNext

LEMMA ReviewInvHolds == ReviewSpec => []ReviewInv
BY ReviewInvInit, ReviewInvStep, PTL DEF ReviewSpec

\* The values of the checkpoints and of every review: in particular the batch that is
\* reviewed exists, and the rounds of a question do not exceed their limit.
THEOREM ReviewTypeCorrect == ReviewSpec => []ReviewTypeOK
<1>1. ReviewInv => ReviewTypeOK
  BY DEF ReviewInv
<1> QED  BY <1>1, ReviewInvHolds, PTL

\* Whoever has asked, been killed or retried: a complete result is an answer of the
\* model to every batch, with the receipts of what it was shown then.
THEOREM CompleteIsAnswered == ReviewSpec => []CompleteMeansAnswered
<1>1. ReviewInv => CompleteMeansAnswered
  BY DEF ReviewInv, Saved, Reviewed, Answered, joined, CompleteMeansAnswered
<1> QED  BY <1>1, ReviewInvHolds, PTL

\* Receipts that come together from checkpoints, shared evidence and new requests are
\* the files as they are, unless one has changed meanwhile.
THEOREM ReceiptsAreCurrent == ReviewSpec => []ResultIsCurrent
<1>1. ReviewInv => ResultIsCurrent
  BY DEF ReviewInv, Reviewed, Current, joined, Fresh, ResultIsCurrent
<1> QED  BY <1>1, ReviewInvHolds, PTL

\* A batch that was finished when the review began is not asked about again.
THEOREM CheckpointsAreTaken == ReviewSpec => []FinishedIsNotAskedAgain
<1>1. ReviewInv => FinishedIsNotAskedAgain
  BY DEF ReviewInv, Reviewed, Finished, Collecting, FinishedIsNotAskedAgain
<1> QED  BY <1>1, ReviewInvHolds, PTL
===============================================================================
