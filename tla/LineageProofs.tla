----------------------------- MODULE LineageProofs -----------------------------
(***************************************************************************)
(* Theorems about EventLineage, for any calls, sessions and declarations   *)
(* and any number of events and generations.                               *)
(***************************************************************************)
EXTENDS EventLineage, TLAPS

-------------------------------------------------------------------------------
(* The invariant *)

\* Where a call is tells which rows it has: one event after the tool at most, and none
\* before the tool has ended; the plan is one of the events before it.
PlansInv ==
    \A c \in Calls :
        /\ plan[c] # 0 => plan[c] \in rowsOf(c, "pre_tool_use")
        /\ stage[c] = "observing" => plan[c] # 0
        /\ stage[c] \in {"requested", "screening", "running"} => rowsOf(c, "post_tool_use") = {}
        /\ consumed[c] # 0 => stage[c] \in {"running", "observing", "closed"}
        /\ \A e, f \in rowsOf(c, "post_tool_use") : e = f

\* Observations are of events that are there and of generations that were there, and
\* only events after a tool have observed writes.
SeenInv ==
    \A e \in 1..MaxEvents : \A m \in Modes :
        seen[e][m] # 0 => /\ e \in Events /\ seen[e][m] <= generation
                          /\ m = "write" => journal[e].phase = "post_tool_use"

\* The tool has read no older generation than any snapshot before it.
WitnessInv ==
    \A c \in Calls :
        /\ consumed[c] <= generation
        /\ consumed[c] # 0 =>
             \A e \in rowsOf(c, "pre_tool_use") : seen[e]["read"] <= consumed[c]

\* A call that was alone with the file since its last write has left it as it is.
WriterInv ==
    /\ \A g \in 1..MaxGeneration : writer[g] # Outside => g <= generation
    /\ \A c \in Calls : wrote(c) =>
        /\ "write" \in Declares[c] /\ stage[c] \in {"running", "observing", "closed"}
        /\ stage[c] # "closed" /\ c \notin disturbed => writer[generation] = c

\* An observed write of such a call is its own.
ObservedInv ==
    \A e \in Events : LET c == journal[e].call IN
        journal[e].phase = "post_tool_use" /\ seen[e]["write"] # 0 /\ wrote(c) /\ c \notin disturbed
            => writer[seen[e]["write"]] = c

IInv == TypeOK /\ PlansInv /\ SeenInv /\ WitnessInv /\ WriterInv
        /\ ReadWitnessIsExact /\ ObservedInv

-------------------------------------------------------------------------------
(* Initial states and types *)

LEMMA InitIInv == Init => IInv
<1> SUFFICES ASSUME Init PROVE IInv
  OBVIOUS
<1>1. TypeOK
  BY BoundAssumption DEF Init, TypeOK, Phases
<1>2. Events = {}
  BY DEF Init, Events
<1>3. PlansInv /\ ReadWitnessIsExact /\ ObservedInv
  BY <1>2 DEF Init, PlansInv, ReadWitnessIsExact, ObservedInv, rowsOf
<1>4. SeenInv /\ WitnessInv
  BY DEF Init, SeenInv, WitnessInv
<1>5. WriterInv
  BY OutsideAssumption, BoundAssumption DEF Init, WriterInv, wrote
<1> QED  BY <1>1, <1>3, <1>4, <1>5 DEF IInv

\* The ranges of numbers.
LEMMA Bounds ==
    ASSUME TypeOK
    PROVE  /\ generation \in Nat \ {0} /\ Len(journal) \in Nat /\ consumed \in [Calls -> Nat]
           /\ \A x \in 1..MaxEvents, m \in Modes : seen[x][m] \in Nat
           /\ Events \subseteq 1..MaxEvents
           /\ \A e \in Events : journal[e] \in [call: Calls, phase: Phases]
<1>1. generation \in Nat \ {0} /\ Len(journal) \in Nat
  BY BoundAssumption DEF TypeOK
<1>2. consumed \in [Calls -> Nat]
  BY BoundAssumption DEF TypeOK
<1>3. \A x \in 1..MaxEvents, m \in Modes : seen[x][m] \in Nat
  BY BoundAssumption DEF TypeOK
<1>4. Events \subseteq 1..MaxEvents
  BY <1>1, BoundAssumption DEF TypeOK, Events
<1>5. \A e \in Events : journal[e] \in [call: Calls, phase: Phases]
  <2> DEFINE Row == [call: Calls, phase: Phases]
  <2>1. journal \in Seq(Row)
    BY DEF TypeOK
  <2> HIDE DEF Row
  <2>2. \A e \in Events : journal[e] \in Row
    BY <2>1 DEF Events
  <2> QED  BY <2>2 DEF Row
<1> QED  BY <1>1, <1>2, <1>3, <1>4, <1>5

\* A new row keeps the rows that are there.
LEMMA RecordRows ==
    ASSUME TypeOK, NEW c \in Calls, NEW p \in Phases, record(c, p)
    PROVE  /\ Len(journal') = Len(journal) + 1
           /\ \A e \in Events : journal'[e] = journal[e]
           /\ journal'[Len(journal) + 1] = [call |-> c, phase |-> p]
           /\ Events' = Events \cup {Len(journal) + 1}
           /\ \A b \in Calls, q \in Phases :
                rowsOf(b, q)' = IF b = c /\ q = p THEN rowsOf(b, q) \cup {Len(journal) + 1}
                                ELSE rowsOf(b, q)
           /\ TypeOK' => Len(journal) + 1 \in 1..MaxEvents
<1>1. /\ Len(journal') = Len(journal) + 1
      /\ \A e \in Events : journal'[e] = journal[e]
      /\ journal'[Len(journal) + 1] = [call |-> c, phase |-> p]
  BY DEF TypeOK, record, Events
<1>2. Len(journal) \in Nat
  BY DEF TypeOK
<1>3. Events' = Events \cup {Len(journal) + 1}
  BY <1>1, <1>2 DEF Events
<1>4. ASSUME NEW b \in Calls, NEW q \in Phases
      PROVE  rowsOf(b, q)' = IF b = c /\ q = p THEN rowsOf(b, q) \cup {Len(journal) + 1}
                             ELSE rowsOf(b, q)
  <2>1. \A e \in Events' : e \in rowsOf(b, q)' <=>
            \/ e \in rowsOf(b, q)
            \/ e = Len(journal) + 1 /\ b = c /\ q = p
    BY <1>1, <1>2, <1>3 DEF rowsOf, Events
  <2> QED  BY <2>1, <1>3 DEF rowsOf
<1>5. TypeOK' => Len(journal) + 1 \in 1..MaxEvents
  BY <1>1, <1>2, BoundAssumption DEF TypeOK
<1> QED  BY <1>1, <1>3, <1>4, <1>5

\* An observation changes one entry.
LEMMA ObserveSeen ==
    ASSUME TypeOK, NEW e \in Events, NEW m \in Modes, observe(e, m)
    PROVE  /\ seen' \in [1..MaxEvents -> [Modes -> 0..MaxGeneration]]
           /\ \A x \in 1..MaxEvents, n \in Modes :
                seen'[x][n] = IF x = e /\ n = m THEN generation ELSE seen[x][n]
<1>1. generation \in 0..MaxGeneration /\ seen \in [1..MaxEvents -> [Modes -> 0..MaxGeneration]]
  BY BoundAssumption DEF TypeOK
<1>2. e \in 1..MaxEvents
  BY BoundAssumption DEF TypeOK, Events
<1>3. seen' = [seen EXCEPT ![e] = [seen[e] EXCEPT ![m] = generation]]
  BY <1>1, <1>2 DEF observe
<1>4. [seen[e] EXCEPT ![m] = generation] \in [Modes -> 0..MaxGeneration]
  BY <1>1, <1>2
<1> QED  BY <1>1, <1>2, <1>3, <1>4

LEMMA TypeStep == TypeOK /\ [Next]_vars => TypeOK'
<1> SUFFICES ASSUME TypeOK, [Next]_vars PROVE TypeOK'
  OBVIOUS
<1> USE DEF TypeOK, Phases
<1>1. ASSUME NEW c \in Calls, JournalPre(c) PROVE TypeOK'
  <2>1. journal' \in Seq([call: Calls, phase: Phases]) /\ Len(journal') <= MaxEvents
    BY <1>1, BoundAssumption DEF JournalPre, record
  <2> QED  BY <1>1, <2>1 DEF JournalPre, goto, truth
<1>2. ASSUME NEW c \in Calls, SnapshotPre(c) PROVE TypeOK'
  <2>1. PICK e \in Events : plan' = [plan EXCEPT ![c] = IF @ = 0 THEN e ELSE @]
    BY <1>2 DEF SnapshotPre
  <2>2. e \in 0..MaxEvents
    BY <2>1, BoundAssumption DEF Events
  <2>3. plan' \in [Calls -> 0..MaxEvents]
    BY <2>1, <2>2
  <2>4. seen' \in [1..MaxEvents -> [Modes -> 0..MaxGeneration]]
    <3>1. CASE "read" \in Declares[c]
      BY <1>2, <3>1, ObserveSeen DEF SnapshotPre, Modes
    <3>2. CASE "read" \notin Declares[c]
      BY <1>2, <3>2 DEF SnapshotPre
    <3> QED  BY <3>1, <3>2
  <2> QED  BY <1>2, <2>3, <2>4 DEF SnapshotPre, truth
<1>3. ASSUME NEW c \in Calls, Start(c) PROVE TypeOK'
  BY <1>3 DEF Start, goto, truth, recorded
<1>4. ASSUME NEW c \in Calls, ToolReads(c) PROVE TypeOK'
  BY <1>4 DEF ToolReads, recorded
<1>5. ASSUME NEW who \in Calls \cup {Outside}, change(who),
             UNCHANGED <<recorded, stage, consumed>>
      PROVE  TypeOK'
  <2>1. generation' \in 1..MaxGeneration
    BY <1>5, BoundAssumption DEF change
  <2>2. writer' \in [1..MaxGeneration -> Calls \cup {Outside}] /\ disturbed' \subseteq Calls
    BY <1>5 DEF change
  <2> QED  BY <1>5, <2>1, <2>2 DEF recorded
<1>6. ASSUME NEW c \in Calls, NEW how \in {"ok", "failed"}, JournalPost(c, how) PROVE TypeOK'
  <2>1. journal' \in Seq([call: Calls, phase: Phases]) /\ Len(journal') <= MaxEvents
    BY <1>6, BoundAssumption DEF JournalPost, record
  <2> QED  BY <1>6, <2>1 DEF JournalPost, goto, truth
<1>7. ASSUME NEW c \in Calls, ObserveWrite(c) \/ ObserveRead(c) PROVE TypeOK'
  <2>1. seen' \in [1..MaxEvents -> [Modes -> 0..MaxGeneration]]
    BY <1>7, ObserveSeen DEF ObserveWrite, ObserveRead, Modes
  <2> QED  BY <1>7, <2>1 DEF ObserveWrite, ObserveRead, truth
<1>8. ASSUME NEW c \in Calls, EndPost(c) PROVE TypeOK'
  BY <1>8 DEF EndPost, goto, truth, recorded
<1>9. CASE Setup
  BY <1>9, BoundAssumption DEF Setup, truth
<1>10. CASE UNCHANGED vars
  BY <1>10 DEF vars, recorded, truth
<1> QED
  BY <1>1, <1>2, <1>3, <1>4, <1>5, <1>6, <1>7, <1>8, <1>9, <1>10
     DEF Next, ToolWrites, OutsideWrites

THEOREM TypeCorrect == Spec => []TypeOK
<1>1. Init => TypeOK
  BY InitIInv DEF IInv
<1> QED  BY <1>1, TypeStep, PTL DEF Spec

-------------------------------------------------------------------------------
(* Places and rows *)

LEMMA PlansStep == IInv /\ [Next]_vars => PlansInv'
<1> SUFFICES ASSUME TypeOK, PlansInv, [Next]_vars PROVE PlansInv'
  BY DEF IInv
<1> DEFINE Inv(b) ==
        /\ plan[b] # 0 => plan[b] \in rowsOf(b, "pre_tool_use")
        /\ stage[b] = "observing" => plan[b] # 0
        /\ stage[b] \in {"requested", "screening", "running"} => rowsOf(b, "post_tool_use") = {}
        /\ consumed[b] # 0 => stage[b] \in {"running", "observing", "closed"}
        /\ \A e, f \in rowsOf(b, "post_tool_use") : e = f
<1> SUFFICES ASSUME NEW b \in Calls PROVE Inv(b)'
  BY DEF PlansInv
<1>0. Inv(b)
  BY DEF PlansInv
<1>same. ASSUME journal' = journal
         PROVE  \A q \in Phases : rowsOf(b, q)' = rowsOf(b, q)
  BY <1>same DEF rowsOf, Events
<1> HIDE DEF Inv
<1>1. ASSUME NEW c \in Calls, JournalPre(c) PROVE Inv(b)'
  <2>1. stage' = [stage EXCEPT ![c] = "screening"] /\ UNCHANGED <<plan, consumed>>
        /\ stage[c] \in {"requested", "screening"}
    BY <1>1 DEF JournalPre, goto, truth
  <2>2. /\ rowsOf(b, "post_tool_use")' = rowsOf(b, "post_tool_use")
        /\ rowsOf(b, "pre_tool_use") \subseteq rowsOf(b, "pre_tool_use")'
    BY <1>1, RecordRows DEF JournalPre, Phases
  <2> QED  BY <1>0, <2>1, <2>2 DEF Inv, TypeOK
<1>2. ASSUME NEW c \in Calls, SnapshotPre(c) PROVE Inv(b)'
  <2>1. PICK e \in rowsOf(c, "pre_tool_use") : plan' = [plan EXCEPT ![c] = IF @ = 0 THEN e ELSE @]
    BY <1>2 DEF SnapshotPre, newest
  <2>2. UNCHANGED <<journal, stage, consumed>> /\ stage[c] = "screening"
    BY <1>2 DEF SnapshotPre, truth
  <2>3. \A q \in Phases : rowsOf(b, q)' = rowsOf(b, q)
    BY <1>same, <2>2
  <2> QED  BY <1>0, <2>1, <2>2, <2>3 DEF Inv, TypeOK, Phases
<1>3. ASSUME NEW c \in Calls, Start(c) PROVE Inv(b)'
  <2>1. UNCHANGED <<journal, plan, consumed>> /\ stage[c] = "screening"
        /\ stage' = [stage EXCEPT ![c] = "running"]
    BY <1>3 DEF Start, goto, truth, recorded
  <2>2. \A q \in Phases : rowsOf(b, q)' = rowsOf(b, q)
    BY <1>same, <2>1
  <2> QED  BY <1>0, <2>1, <2>2 DEF Inv, TypeOK, Phases
<1>4. ASSUME NEW c \in Calls, ToolReads(c) PROVE Inv(b)'
  <2>1. UNCHANGED <<journal, plan, stage>> /\ stage[c] = "running"
        /\ consumed' = [consumed EXCEPT ![c] = generation]
    BY <1>4 DEF ToolReads, recorded
  <2>2. \A q \in Phases : rowsOf(b, q)' = rowsOf(b, q)
    BY <1>same, <2>1
  <2> QED  BY <1>0, <2>1, <2>2 DEF Inv, TypeOK, Phases
<1>5. ASSUME NEW c \in Calls, NEW how \in {"ok", "failed"}, JournalPost(c, how) PROVE Inv(b)'
  <2>1. UNCHANGED <<plan, consumed>> /\ stage[c] = "running"
        /\ stage' = [stage EXCEPT ![c] = IF how = "ok" /\ plan[c] # 0 THEN "observing" ELSE "closed"]
    BY <1>5 DEF JournalPost, goto, truth
  <2>2. /\ rowsOf(b, "pre_tool_use")' = rowsOf(b, "pre_tool_use")
        /\ rowsOf(b, "post_tool_use")' =
                IF b = c THEN rowsOf(b, "post_tool_use") \cup {Len(journal) + 1}
                ELSE rowsOf(b, "post_tool_use")
    BY <1>5, RecordRows DEF JournalPost, Phases
  <2> QED  BY <1>0, <2>1, <2>2 DEF Inv, TypeOK
<1>6. ASSUME NEW c \in Calls, EndPost(c) PROVE Inv(b)'
  <2>1. UNCHANGED <<journal, plan, consumed>> /\ stage[c] = "observing"
        /\ stage' = [stage EXCEPT ![c] = "closed"]
    BY <1>6 DEF EndPost, goto, truth, recorded
  <2>2. \A q \in Phases : rowsOf(b, q)' = rowsOf(b, q)
    BY <1>same, <2>1
  <2> QED  BY <1>0, <2>1, <2>2 DEF Inv, TypeOK, Phases
<1>7. ASSUME UNCHANGED <<journal, plan, stage, consumed>> PROVE Inv(b)'
  BY <1>0, <1>7, <1>same DEF Inv, Phases
<1> QED
  BY <1>1, <1>2, <1>3, <1>4, <1>5, <1>6, <1>7
     DEF Next, ToolWrites, OutsideWrites, ObserveWrite, ObserveRead, Setup, vars, recorded, truth

-------------------------------------------------------------------------------
(* Observations *)

\* What an observing step changes: the entry of one event of the call, in one mode.
observes(c, e, m) ==
    /\ e \in Events /\ journal[e].call = c /\ observe(e, m)
    /\ UNCHANGED <<journal, boundary, stage, truth>>

LEMMA Observations ==
    ASSUME TypeOK, NEW c \in Calls
    PROVE  /\ SnapshotPre(c) =>
                \/ UNCHANGED <<journal, seen, boundary, stage, truth>>
                \/ \E e \in rowsOf(c, "pre_tool_use") : observes(c, e, "read")
           /\ ObserveWrite(c) =>
                /\ stage[c] = "observing"
                /\ \E e \in rowsOf(c, "post_tool_use") : observes(c, e, "write")
           /\ ObserveRead(c) =>
                /\ stage[c] = "observing" /\ seen[plan[c]]["read"] = generation
                /\ \E e \in rowsOf(c, "post_tool_use") : observes(c, e, "read")
<1>1. \A e, p : e \in rowsOf(c, p) => e \in Events /\ journal[e].call = c
  BY DEF rowsOf
<1>2. SnapshotPre(c) => \/ UNCHANGED <<journal, seen, boundary, stage, truth>>
                        \/ \E e \in rowsOf(c, "pre_tool_use") : observes(c, e, "read")
  BY <1>1 DEF SnapshotPre, newest, observes
<1>3. ObserveWrite(c) => /\ stage[c] = "observing"
                         /\ \E e \in rowsOf(c, "post_tool_use") : observes(c, e, "write")
  BY <1>1 DEF ObserveWrite, observing, postEvent, newest, observes
<1>4. ObserveRead(c) => /\ stage[c] = "observing" /\ seen[plan[c]]["read"] = generation
                        /\ \E e \in rowsOf(c, "post_tool_use") : observes(c, e, "read")
  BY <1>1 DEF ObserveRead, observing, postEvent, newest, observes
<1> QED  BY <1>2, <1>3, <1>4

LEMMA SeenStep == IInv /\ [Next]_vars => SeenInv'
<1> SUFFICES ASSUME TypeOK, PlansInv, SeenInv, [Next]_vars PROVE SeenInv'
  BY DEF IInv
<1>0. generation \in Nat /\ Len(journal) \in Nat
  BY BoundAssumption DEF TypeOK
<1>1. ASSUME NEW c \in Calls, NEW p \in Phases, record(c, p), UNCHANGED <<seen, generation>>
      PROVE  SeenInv'
  BY <1>1, RecordRows DEF SeenInv
<1>2. ASSUME NEW c \in Calls, NEW e \in Events, NEW m \in Modes, observes(c, e, m),
             m = "write" => journal[e].phase = "post_tool_use"
      PROVE  SeenInv'
  <2>1. /\ \A x \in 1..MaxEvents, n \in Modes :
              seen'[x][n] = IF x = e /\ n = m THEN generation ELSE seen[x][n]
        /\ UNCHANGED <<journal, generation>>
    BY <1>2, ObserveSeen DEF observes, truth
  <2> QED  BY <1>2, <2>1, <1>0 DEF SeenInv, Events
<1>3. ASSUME UNCHANGED <<journal, seen>>, generation' \in {generation, generation + 1}
      PROVE  SeenInv'
  <2>1. \A x \in 1..MaxEvents, m \in Modes : seen[x][m] \in Nat
    BY DEF TypeOK
  <2> QED  BY <1>0, <1>3, <2>1 DEF SeenInv, Events
<1>4. ASSUME NEW c \in Calls, SnapshotPre(c) \/ ObserveWrite(c) \/ ObserveRead(c) PROVE SeenInv'
  <2>1. CASE UNCHANGED <<journal, seen, boundary, stage, truth>>
    BY <2>1, <1>3 DEF truth
  <2>2. CASE \E e \in rowsOf(c, "pre_tool_use") : observes(c, e, "read")
    BY <2>2, <1>2 DEF observes, Modes
  <2>3. CASE \E e \in rowsOf(c, "post_tool_use"), m \in Modes : observes(c, e, m)
    BY <2>3, <1>2 DEF observes, rowsOf
  <2> QED  BY <1>4, <2>1, <2>2, <2>3, Observations DEF Modes
<1>5. ASSUME NEW c \in Calls, JournalPre(c) \/ \E how \in {"ok", "failed"} : JournalPost(c, how)
      PROVE  SeenInv'
  BY <1>5, <1>1 DEF JournalPre, JournalPost, truth, Phases
<1>6. ASSUME NEW who, change(who), UNCHANGED <<journal, seen>> PROVE SeenInv'
  BY <1>6, <1>3 DEF change
<1> QED
  BY <1>3, <1>4, <1>5, <1>6
     DEF Next, Start, ToolReads, ToolWrites, OutsideWrites, EndPost, Setup, vars, recorded, truth

\* The generation of a snapshot before the call, that of the tool and that of the snapshot
\* after it are in this order, and a read counts when the first and the last are the same.
LEMMA WitnessStep == IInv /\ [Next]_vars => WitnessInv' /\ ReadWitnessIsExact'
<1> SUFFICES ASSUME TypeOK, PlansInv, SeenInv, WitnessInv, ReadWitnessIsExact, [Next]_vars
             PROVE  WitnessInv' /\ ReadWitnessIsExact'
  BY DEF IInv
<1>0. /\ generation \in Nat \ {0} /\ Len(journal) \in Nat /\ consumed \in [Calls -> Nat]
      /\ \A x \in 1..MaxEvents, m \in Modes : seen[x][m] \in Nat
      /\ Events \subseteq 1..MaxEvents
      /\ \A e \in Events : journal[e] \in [call: Calls, phase: Phases]
  BY Bounds
<1>1. ASSUME NEW c \in Calls, NEW p \in Phases, record(c, p), UNCHANGED <<seen, truth>>,
             p = "pre_tool_use" => stage[c] \in {"requested", "screening"}
      PROVE  WitnessInv' /\ ReadWitnessIsExact'
  <2> DEFINE new == Len(journal) + 1
  <2>1. new \notin Events
    BY <1>0 DEF Events
  <2>2. new \in 1..MaxEvents => seen[new]["read"] = 0
    BY <2>1 DEF SeenInv, Modes
  <2>3. p = "pre_tool_use" => consumed[c] = 0
    BY <1>1 DEF PlansInv
  <2>4. WitnessInv'
    <3>1. ASSUME NEW b \in Calls, consumed[b] # 0
          PROVE  rowsOf(b, "pre_tool_use")' = rowsOf(b, "pre_tool_use")
      BY <1>1, <2>3, <3>1, RecordRows DEF Phases
    <3> QED  BY <1>1, <3>1 DEF WitnessInv, truth
  <2>5. ReadWitnessIsExact'
    <3>1. Events' = Events \cup {new} /\ \A e \in Events : journal'[e] = journal[e]
      BY <1>1, RecordRows
    <3>2. new \in 1..MaxEvents
      BY <1>1, TypeStep, RecordRows
    <3> QED  BY <1>1, <2>2, <3>1, <3>2 DEF ReadWitnessIsExact, truth
  <2> QED  BY <2>4, <2>5
<1>2. ASSUME NEW c \in Calls, NEW e \in rowsOf(c, "pre_tool_use"), observes(c, e, "read"),
             stage[c] = "screening"
      PROVE  WitnessInv' /\ ReadWitnessIsExact'
  <2>1. /\ \A x \in 1..MaxEvents, n \in Modes :
              seen'[x][n] = IF x = e /\ n = "read" THEN generation ELSE seen[x][n]
        /\ UNCHANGED <<journal, consumed, generation>>
    BY <1>2, ObserveSeen DEF observes, truth, Modes
  <2>2. consumed[c] = 0 /\ journal[e] = [call |-> c, phase |-> "pre_tool_use"]
    BY <1>2 DEF PlansInv, rowsOf
  <2>3. WitnessInv'
    <3>1. \A b \in Calls : \A x \in rowsOf(b, "pre_tool_use")' :
              x \in rowsOf(b, "pre_tool_use") /\ x \in 1..MaxEvents /\ (x = e => b = c)
      BY <1>0, <2>1, <2>2 DEF rowsOf, Events
    <3> QED  BY <2>1, <2>2, <3>1 DEF WitnessInv, Modes
  <2>4. ReadWitnessIsExact'
    BY <1>0, <2>1, <2>2 DEF ReadWitnessIsExact, Events, Modes
  <2> QED  BY <2>3, <2>4
<1>3. ASSUME NEW c \in Calls, NEW e \in rowsOf(c, "post_tool_use"), NEW m \in Modes,
             observes(c, e, m), stage[c] = "observing",
             m = "read" => seen[plan[c]]["read"] = generation
      PROVE  WitnessInv' /\ ReadWitnessIsExact'
  <2>1. /\ \A x \in 1..MaxEvents, n \in Modes :
              seen'[x][n] = IF x = e /\ n = m THEN generation ELSE seen[x][n]
        /\ UNCHANGED <<journal, consumed, generation>>
    BY <1>3, ObserveSeen DEF observes, truth
  <2>2. journal[e] = [call |-> c, phase |-> "post_tool_use"]
    BY <1>3 DEF rowsOf
  <2>3. WitnessInv'
    <3>1. \A b \in Calls : \A x \in rowsOf(b, "pre_tool_use")' :
              x \in rowsOf(b, "pre_tool_use") /\ x \in 1..MaxEvents /\ x # e
      BY <1>0, <2>1, <2>2 DEF rowsOf, Events
    <3> QED  BY <2>1, <3>1 DEF WitnessInv, Modes
  <2>4. m = "read" /\ consumed[c] # 0 => consumed[c] = generation
    <3>1. plan[c] \in rowsOf(c, "pre_tool_use")
      BY <1>3 DEF PlansInv
    <3> QED  BY <1>0, <1>3, <3>1 DEF WitnessInv
  <2>5. ReadWitnessIsExact'
    BY <1>0, <2>1, <2>2, <2>4 DEF ReadWitnessIsExact, Events, Modes
  <2> QED  BY <2>3, <2>5
<1>4. ASSUME NEW c \in Calls, ToolReads(c) PROVE WitnessInv' /\ ReadWitnessIsExact'
  <2>1. /\ consumed' = [consumed EXCEPT ![c] = generation] /\ stage[c] = "running"
        /\ UNCHANGED <<journal, seen, generation>>
    BY <1>4 DEF ToolReads, recorded
  <2>2. \A b \in Calls : \A x \in rowsOf(b, "pre_tool_use")' :
            x \in rowsOf(b, "pre_tool_use") /\ x \in 1..MaxEvents
    BY <1>0, <2>1 DEF rowsOf, Events
  <2>3. \A x \in 1..MaxEvents : seen[x]["read"] <= generation
    BY <1>0 DEF SeenInv, Modes
  <2>4. WitnessInv'
    BY <1>0, <2>1, <2>2, <2>3 DEF WitnessInv
  <2>5. \A e \in Events : journal[e].phase = "post_tool_use" => journal[e].call # c
    BY <1>0, <2>1 DEF PlansInv, rowsOf
  <2> QED  BY <1>0, <2>1, <2>4, <2>5 DEF ReadWitnessIsExact, Events
<1>5. ASSUME UNCHANGED <<journal, seen, consumed>>, generation' \in {generation, generation + 1}
      PROVE  WitnessInv' /\ ReadWitnessIsExact'
  <2>1. ReadWitnessIsExact'
    BY <1>5 DEF ReadWitnessIsExact, Events
  <2>2. WitnessInv'
    BY <1>0, <1>5 DEF WitnessInv, rowsOf, Events
  <2> QED  BY <2>1, <2>2
<1>6. ASSUME NEW c \in Calls, SnapshotPre(c) \/ ObserveWrite(c) \/ ObserveRead(c)
      PROVE  WitnessInv' /\ ReadWitnessIsExact'
  <2>1. CASE SnapshotPre(c)
    BY <2>1, <1>2, <1>5, Observations DEF SnapshotPre, truth
  <2>2. CASE ObserveWrite(c) \/ ObserveRead(c)
    BY <2>2, <1>3, Observations DEF Modes
  <2> QED  BY <1>6, <2>1, <2>2
<1>7. ASSUME NEW c \in Calls, JournalPre(c) \/ \E how \in {"ok", "failed"} : JournalPost(c, how)
      PROVE  WitnessInv' /\ ReadWitnessIsExact'
  BY <1>7, <1>1 DEF JournalPre, JournalPost, Phases
<1>8. ASSUME NEW who, change(who), UNCHANGED <<journal, seen, consumed>>
      PROVE  WitnessInv' /\ ReadWitnessIsExact'
  BY <1>8, <1>5 DEF change
<1> QED
  BY <1>4, <1>5, <1>6, <1>7, <1>8
     DEF Next, Start, ToolWrites, OutsideWrites, EndPost, Setup, vars, recorded, truth

-------------------------------------------------------------------------------
(* Writers *)

LEMMA WriterStep == IInv /\ [Next]_vars => WriterInv' /\ ObservedInv'
<1> SUFFICES ASSUME TypeOK, PlansInv, SeenInv, WriterInv, ObservedInv, [Next]_vars
             PROVE  WriterInv' /\ ObservedInv'
  BY DEF IInv
<1>0. /\ generation \in Nat \ {0} /\ generation \in 1..MaxGeneration /\ Len(journal) \in Nat
      /\ \A x \in 1..MaxEvents, m \in Modes : seen[x][m] \in Nat
      /\ Events \subseteq 1..MaxEvents
      /\ \A e \in Events : journal[e] \in [call: Calls, phase: Phases]
  BY Bounds DEF TypeOK
<1>1. ASSUME UNCHANGED truth,
             \A b \in Calls : wrote(b) =>
                /\ stage'[b] \in {"running", "observing", "closed"}
                /\ stage'[b] # "closed" => stage[b] # "closed"
      PROVE  WriterInv'
  <2>1. \A b \in Calls : wrote(b)' <=> wrote(b)
    BY <1>1 DEF wrote, truth
  <2> QED  BY <1>1, <2>1 DEF WriterInv, truth
<1>2. ASSUME UNCHANGED <<journal, seen, truth>> PROVE ObservedInv'
  BY <1>2 DEF ObservedInv, Events, wrote, truth
<1>3. ASSUME NEW c \in Calls, NEW p \in Phases, record(c, p), UNCHANGED <<seen, truth>>
      PROVE  ObservedInv'
  <2>1. Len(journal) + 1 \in 1..MaxEvents => seen[Len(journal) + 1]["write"] = 0
    BY <1>0 DEF SeenInv, Events, Modes
  <2>2. Len(journal) + 1 \in 1..MaxEvents
    BY <1>3, TypeStep, RecordRows
  <2>3. \A b : wrote(b)' <=> wrote(b)
    BY <1>3 DEF wrote, truth
  <2> QED  BY <1>3, <2>1, <2>2, <2>3, RecordRows DEF ObservedInv, truth
<1>4. ASSUME NEW c \in Calls, NEW e \in rowsOf(c, "post_tool_use"), NEW m \in Modes,
             observes(c, e, m), stage[c] = "observing"
      PROVE  WriterInv' /\ ObservedInv'
  <2>1. /\ \A x \in 1..MaxEvents, n \in Modes :
              seen'[x][n] = IF x = e /\ n = m THEN generation ELSE seen[x][n]
        /\ UNCHANGED <<journal, stage, truth>>
    BY <1>4, ObserveSeen DEF observes
  <2>2. journal[e].call = c
    BY <1>4 DEF rowsOf
  <2>3. WriterInv'
    BY <1>1, <2>1 DEF WriterInv
  <2>4. \A b : wrote(b)' <=> wrote(b)
    BY <2>1 DEF wrote, truth
  <2>5. ObservedInv'
    BY <1>0, <1>4, <2>1, <2>2, <2>4 DEF ObservedInv, WriterInv, Events, Modes, truth
  <2> QED  BY <2>3, <2>5
<1>5. ASSUME NEW c \in Calls, NEW e \in rowsOf(c, "pre_tool_use"), observes(c, e, "read")
      PROVE  WriterInv' /\ ObservedInv'
  <2>1. /\ \A x \in 1..MaxEvents : seen'[x]["write"] = seen[x]["write"]
        /\ UNCHANGED <<journal, stage, truth>>
    BY <1>5, ObserveSeen DEF observes, Modes
  <2>2. WriterInv'
    BY <1>1, <2>1 DEF WriterInv
  <2>3. \A b : wrote(b)' <=> wrote(b)
    BY <2>1 DEF wrote, truth
  <2>4. ObservedInv'
    BY <1>0, <2>1, <2>3 DEF ObservedInv, Events, truth
  <2> QED  BY <2>2, <2>4
<1>6. ASSUME NEW who \in Calls \cup {Outside}, change(who), UNCHANGED <<recorded, stage, consumed>>,
             who \in Calls => stage[who] = "running" /\ "write" \in Declares[who]
      PROVE  WriterInv' /\ ObservedInv'
  <2>1. /\ generation' = generation + 1 /\ generation + 1 \in 1..MaxGeneration
        /\ writer'[generation + 1] = who
        /\ \A g \in 1..generation : writer'[g] = writer[g]
        /\ \A g \in 1..MaxGeneration : g # generation + 1 => writer'[g] = writer[g]
        /\ disturbed \subseteq disturbed'
        /\ \A b \in Calls \ {who} :
             "write" \in Declares[b] /\ stage[b] \in {"running", "observing"} => b \in disturbed'
    BY <1>0, <1>6, BoundAssumption DEF change, TypeOK
  <2>2. \A b \in Calls \ {who} : wrote(b)' => wrote(b)
    BY <1>0, <2>1 DEF wrote
  <2>3. WriterInv'
    <3>1. \A g \in 1..MaxGeneration : writer'[g] # Outside => g <= generation'
      BY <1>0, <2>1 DEF WriterInv
    <3>2. ASSUME NEW b \in Calls, wrote(b)'
          PROVE  /\ "write" \in Declares[b] /\ stage'[b] \in {"running", "observing", "closed"}
                 /\ stage'[b] # "closed" /\ b \notin disturbed' => writer'[generation'] = b
      <4>1. CASE b = who
        BY <1>6, <2>1, <4>1
      <4>2. CASE b # who
        <5>1. wrote(b) /\ stage' = stage
          BY <1>6, <2>2, <3>2, <4>2
        <5> QED  BY <2>1, <4>2, <5>1 DEF WriterInv
      <4> QED  BY <4>1, <4>2
    <3> QED  BY <3>1, <3>2 DEF WriterInv
  <2>4. ObservedInv'
    <3>1. ASSUME NEW e \in Events, journal[e].phase = "post_tool_use", seen[e]["write"] # 0,
                 NEW c, journal[e].call = c, wrote(c)', c \notin disturbed'
          PROVE  writer'[seen[e]["write"]] = c
      <4>1. c \in Calls /\ e \in rowsOf(c, "post_tool_use")
        BY <1>0, <3>1 DEF rowsOf
      <4>2. c # who
        BY <1>6, <4>1 DEF PlansInv
      <4>3. wrote(c) /\ c \notin disturbed
        BY <2>1, <2>2, <3>1, <4>1, <4>2 DEF wrote
      <4>4. seen[e]["write"] \in 1..generation
        BY <1>0, <3>1 DEF SeenInv, Modes
      <4> QED  BY <2>1, <3>1, <4>3, <4>4 DEF ObservedInv
    <3>2. UNCHANGED <<journal, seen>>
      BY <1>6 DEF recorded
    <3>3. \A c : wrote(c)' <=> \E g \in 1..generation' : writer'[g] = c
      BY DEF wrote
    <3> QED  BY <3>1, <3>2, <3>3 DEF ObservedInv, Events, wrote
  <2> QED  BY <2>3, <2>4
<1>7. ASSUME NEW c \in Calls, SnapshotPre(c) \/ ObserveWrite(c) \/ ObserveRead(c)
      PROVE  WriterInv' /\ ObservedInv'
  <2>1. CASE UNCHANGED <<journal, seen, boundary, stage, truth>>
    BY <2>1, <1>1, <1>2 DEF WriterInv
  <2> QED  BY <1>4, <1>5, <1>7, <2>1, Observations DEF Modes
<1>8. ASSUME NEW c \in Calls, NEW label, goto(c, label), UNCHANGED truth,
             \/ label = "closed"
             \/ stage[c] \in {"requested", "screening"}
             \/ stage[c] = "running" /\ label = "observing"
      PROVE  WriterInv'
  <2>1. ASSUME NEW b \in Calls, wrote(b)
        PROVE  /\ stage'[b] \in {"running", "observing", "closed"}
               /\ stage'[b] # "closed" => stage[b] # "closed"
    <3>1. stage[b] \in {"running", "observing", "closed"}
      BY <2>1 DEF WriterInv
    <3>2. stage'[b] = IF b = c THEN label ELSE stage[b]
      BY <1>8 DEF goto, TypeOK
    <3> QED  BY <1>8, <3>1, <3>2
  <2> QED  BY <1>1, <1>8, <2>1
<1>9. ASSUME NEW c \in Calls, JournalPre(c) PROVE WriterInv' /\ ObservedInv'
  <2>1. goto(c, "screening") /\ UNCHANGED truth /\ stage[c] \in {"requested", "screening"}
    BY <1>9 DEF JournalPre
  <2>2. WriterInv'
    BY <1>8, <2>1
  <2> QED  BY <1>3, <1>9, <2>2 DEF JournalPre, Phases
<1>10. ASSUME NEW c \in Calls, NEW how \in {"ok", "failed"}, JournalPost(c, how)
       PROVE  WriterInv' /\ ObservedInv'
  <2>1. stage[c] = "running" /\ UNCHANGED truth /\ (goto(c, "observing") \/ goto(c, "closed"))
    BY <1>10 DEF JournalPost
  <2>2. WriterInv'
    BY <1>8, <2>1
  <2> QED  BY <1>3, <1>10, <2>2 DEF JournalPost, Phases
<1>11. ASSUME NEW c \in Calls, Start(c) \/ EndPost(c) PROVE WriterInv' /\ ObservedInv'
  <2>1. /\ UNCHANGED <<journal, seen, truth>>
        /\ goto(c, "closed") \/ (goto(c, "running") /\ stage[c] = "screening")
    BY <1>11 DEF Start, EndPost, recorded
  <2>2. WriterInv'
    BY <1>8, <2>1
  <2> QED  BY <1>2, <2>1, <2>2
<1>12. ASSUME NEW c \in Calls, ToolReads(c) PROVE WriterInv' /\ ObservedInv'
  BY <1>12 DEF ToolReads, recorded, WriterInv, ObservedInv, wrote, Events
<1>13. ASSUME NEW c \in Calls, ToolWrites(c) PROVE WriterInv' /\ ObservedInv'
  BY <1>6, <1>13 DEF ToolWrites
<1>14. CASE OutsideWrites
  BY <1>6, <1>14, OutsideAssumption DEF OutsideWrites
<1>15. CASE UNCHANGED <<journal, seen, stage, truth>>
  BY <1>15, <1>1, <1>2 DEF WriterInv
<1>16. Setup \/ UNCHANGED vars => UNCHANGED <<journal, seen, stage, truth>>
  BY DEF Setup, vars, recorded
<1> QED
  BY <1>7, <1>9, <1>10, <1>11, <1>12, <1>13, <1>14, <1>15, <1>16 DEF Next

LEMMA Invariance == Spec => []IInv
<1>1. IInv /\ [Next]_vars => IInv'
  BY TypeStep, PlansStep, SeenStep, WitnessStep, WriterStep DEF IInv
<1> QED  BY InitIInv, <1>1, PTL DEF Spec

\* A read on record is of the generation that the tool has read.
THEOREM ReadsAreExact == Spec => []ReadWitnessIsExact
<1>1. IInv => ReadWitnessIsExact
  BY DEF IInv
<1> QED  BY <1>1, Invariance, PTL

\* A producer that was alone with the file has written what it is named for.
THEOREM LoneProducersWrote == Spec => []LoneProducerWroteIt
<1>1. IInv => LoneProducerWroteIt
  <2> SUFFICES ASSUME IInv, NEW e \in Events, NEW p \in Producers(e),
                      wrote(journal[p].call), journal[p].call \notin disturbed
               PROVE  writer[seen[e]["read"]] = journal[p].call
    BY DEF LoneProducerWroteIt
  <2>1. /\ p \in Events /\ journal[p].phase = "post_tool_use" /\ seen[p]["write"] # 0
        /\ seen[p]["write"] = seen[e]["read"]
    BY DEF Producers, writes, Events, IInv, TypeOK
  <2> QED  BY <2>1 DEF IInv, ObservedInv
<1> QED  BY <1>1, Invariance, PTL

\* Only a Hook that was still busy with an earlier event changes the producers of an event.
THEOREM ProducersAreSettled == Spec => ProducersSettle
<1>1. ASSUME IInv, [Next]_vars, NEW e \in Events,
             settled(e), seen[e]' = seen[e], boundary' = boundary
      PROVE  Producers(e)' = Producers(e)
  <2>0. e \in Nat /\ Len(journal) \in Nat
    BY <1>1, Bounds DEF IInv, Events
  <2>1. SUFFICES \A p \in 1..(e - 1) :
            journal'[p] = journal[p] /\ seen'[p]["write"] = seen[p]["write"]
    BY <1>1, <2>0, <2>1 DEF Producers, writes
  <2>2. ASSUME NEW c \in Calls, NEW ph \in Phases, record(c, ph), UNCHANGED seen
        PROVE  \A p \in 1..(e - 1) :
                journal'[p] = journal[p] /\ seen'[p]["write"] = seen[p]["write"]
    <3>1. \A p \in 1..(e - 1) : p \in Events
      BY <2>0 DEF Events
    <3> QED  BY <1>1, <2>2, <3>1, RecordRows DEF IInv
  <2>3. ASSUME NEW c \in Calls, ObserveWrite(c)
        PROVE  \A p \in 1..(e - 1) :
                journal'[p] = journal[p] /\ seen'[p]["write"] = seen[p]["write"]
    <3>1. PICK x \in rowsOf(c, "post_tool_use") : observes(c, x, "write")
      BY <1>1, <2>3, Observations DEF IInv
    <3>2. ~ (x \in 1..(e - 1))
      BY <1>1, <2>3, <3>1, Observations DEF IInv, settled, observes
    <3>3. \A p \in 1..(e - 1) : p \in 1..MaxEvents
      BY <1>1, <2>0, Bounds DEF IInv, Events
    <3> QED  BY <1>1, <3>1, <3>2, <3>3, ObserveSeen DEF IInv, observes, Modes
  <2>4. ASSUME NEW c \in Calls, SnapshotPre(c) \/ ObserveRead(c)
        PROVE  \A p \in 1..(e - 1) :
                journal'[p] = journal[p] /\ seen'[p]["write"] = seen[p]["write"]
    <3>1. \/ UNCHANGED <<journal, seen>>
          \/ \E x \in Events : observes(c, x, "read")
      BY <1>1, <2>4, Observations DEF IInv, observes
    <3>2. \A p \in 1..(e - 1) : p \in 1..MaxEvents
      BY <1>1, <2>0, Bounds DEF IInv, Events
    <3> QED  BY <1>1, <3>1, <3>2, ObserveSeen DEF IInv, observes, Modes
  <2>5. CASE UNCHANGED <<journal, seen>>
    BY <2>5
  <2> QED
    BY <1>1, <2>2, <2>3, <2>4, <2>5
       DEF Next, JournalPre, JournalPost, Start, ToolReads, ToolWrites, OutsideWrites, EndPost,
           Setup, vars, recorded, truth, Phases
<1>2. IInv /\ [Next]_vars =>
        [\A e \in Events : settled(e) /\ settled(e)' /\ seen[e]' = seen[e] /\ boundary' = boundary
            => Producers(e)' = Producers(e)]_vars
  BY <1>1
<1> QED  BY <1>2, Invariance, PTL DEF Spec, ProducersSettle

-------------------------------------------------------------------------------
(* Sessions that make one call at a time *)

\* All events of b are older than all events of c.
isOlder(b, c) == \A e, f \in Events : journal[e].call = b /\ journal[f].call = c => e < f
neighbours(b, c) == b # c /\ Session[b] = Session[c] /\ Session[c] \in Serial

\* The event after the tool is the last one of its call, and the events of two calls of
\* a serial session do not interleave.
SerialInv ==
    /\ \A e \in Events : stage[journal[e].call] # "requested"
    /\ \A e, f \in Events :
        journal[e].phase = "post_tool_use" /\ journal[f].call = journal[e].call => f <= e
    /\ \A b, c \in Calls : neighbours(b, c) =>
        /\ inProgress(c) => ~inProgress(b) /\ isOlder(b, c)
        /\ isOlder(b, c) \/ isOlder(c, b)

\* A call that is alone in its session may have another event.
LEMMA RecordSerial ==
    ASSUME TypeOK, SerialInv, NEW c \in Calls, NEW p \in Phases, record(c, p),
           stage[c] \in {"requested", "screening", "running"},
           \A e \in Events : journal[e].call = c => journal[e].phase # "post_tool_use",
           \A b \in Calls : neighbours(b, c) => ~inProgress(b),
           NEW label, label # "requested", stage' = [stage EXCEPT ![c] = label]
    PROVE  SerialInv'
<1> DEFINE n == Len(journal) + 1
<1>1. /\ Events' = Events \cup {n} /\ n \in Nat /\ \A e \in Events : e \in Nat /\ e < n
      /\ \A e \in Events : journal'[e] = journal[e]
      /\ journal'[n].call = c /\ journal'[n].phase = p
  <2>1. /\ Len(journal) \in Nat /\ Events' = Events \cup {n}
        /\ \A e \in Events : journal'[e] = journal[e]
        /\ journal'[n] = [call |-> c, phase |-> p]
    BY RecordRows, Bounds
  <2>2. n \in Nat /\ \A e \in Events : e \in Nat /\ e < n
    BY <2>1 DEF Events
  <2> QED  BY <2>1, <2>2
<1>2. stage'[c] = label /\ \A b \in Calls \ {c} : stage'[b] = stage[b] /\ inProgress(b)' = inProgress(b)
  BY DEF TypeOK, inProgress
<1>3. \A e \in Events : journal[e].call \in Calls
  BY Bounds
<1> HIDE DEF n
<1>4. \A e \in Events' : stage'[journal'[e].call] # "requested"
  BY <1>1, <1>2, <1>3 DEF SerialInv
<1>5. \A e, f \in Events' :
        journal'[e].phase = "post_tool_use" /\ journal'[f].call = journal'[e].call => f <= e
  <2> SUFFICES ASSUME NEW e \in Events', NEW f \in Events',
                      journal'[e].phase = "post_tool_use", journal'[f].call = journal'[e].call
               PROVE  f <= e
    OBVIOUS
  <2>1. CASE e = n
    BY <1>1, <2>1
  <2>2. CASE e \in Events /\ f \in Events
    BY <1>1, <2>2 DEF SerialInv
  <2>3. CASE e \in Events /\ f = n
    BY <1>1, <2>3
  <2> QED  BY <1>1, <2>1, <2>2, <2>3
<1>6. \A b \in Calls : neighbours(b, c) => isOlder(b, c)'
  <2> SUFFICES ASSUME NEW b \in Calls, neighbours(b, c) PROVE isOlder(b, c)'
    OBVIOUS
  <2>1. isOlder(b, c)
    <3>1. CASE stage[c] = "requested"
      BY <3>1 DEF SerialInv, isOlder
    <3>2. CASE stage[c] # "requested"
      BY <3>2 DEF SerialInv, inProgress
    <3> QED  BY <3>1, <3>2
  <2> QED  BY <1>1, <2>1 DEF isOlder, neighbours
<1>7. \A b, d \in Calls \ {c} : isOlder(b, d) => isOlder(b, d)'
  BY <1>1 DEF isOlder
<1>8. ASSUME NEW b \in Calls, NEW d \in Calls, neighbours(b, d)
      PROVE  /\ inProgress(d)' => ~inProgress(b)' /\ isOlder(b, d)'
             /\ isOlder(b, d)' \/ isOlder(d, b)'
  <2>1. CASE d = c
    BY <1>2, <1>6, <1>8, <2>1 DEF neighbours
  <2>2. CASE b = c
    <3>1. neighbours(d, c) /\ d # c
      BY <1>8, <2>2 DEF neighbours
    <3> QED  BY <1>2, <1>6, <2>2, <3>1
  <2>3. CASE b # c /\ d # c
    BY <1>2, <1>7, <1>8, <2>3 DEF SerialInv
  <2> QED  BY <2>1, <2>2, <2>3
<1>9. \A b, d : neighbours(b, d)' = neighbours(b, d)
  BY DEF neighbours
<1> QED  BY <1>4, <1>5, <1>8, <1>9 DEF SerialInv

LEMMA SerialStep == IInv /\ SerialInv /\ [Next]_vars => SerialInv'
<1> SUFFICES ASSUME TypeOK, PlansInv, SerialInv, [Next]_vars PROVE SerialInv'
  BY DEF IInv
<1>1. ASSUME NEW c \in Calls, stage[c] \in {"requested", "screening", "running"}
      PROVE  \A e \in Events : journal[e].call = c => journal[e].phase # "post_tool_use"
  <2>1. rowsOf(c, "post_tool_use") = {}
    BY <1>1 DEF PlansInv
  <2>2. \A e \in Events : journal[e] = [call |-> journal[e].call, phase |-> journal[e].phase]
    BY Bounds
  <2> QED  BY <2>1, <2>2 DEF rowsOf
<1>2. ASSUME NEW c \in Calls, JournalPre(c) PROVE SerialInv'
  <2>1. /\ record(c, "pre_tool_use") /\ stage[c] \in {"requested", "screening", "running"}
        /\ \A b \in Calls : neighbours(b, c) => ~inProgress(b)
        /\ stage' = [stage EXCEPT ![c] = "screening"]
    BY <1>2 DEF JournalPre, goto, neighbours
  <2> QED  BY <1>1, <2>1, RecordSerial DEF Phases
<1>3. ASSUME NEW c \in Calls, NEW how \in {"ok", "failed"}, JournalPost(c, how) PROVE SerialInv'
  <2>1. /\ record(c, "post_tool_use") /\ stage[c] = "running"
        /\ \E label \in {"observing", "closed"} : stage' = [stage EXCEPT ![c] = label]
    BY <1>3 DEF JournalPost, goto
  <2>2. \A b \in Calls : neighbours(b, c) => ~inProgress(b)
    BY <2>1 DEF SerialInv, inProgress
  <2> QED  BY <1>1, <2>1, <2>2, RecordSerial DEF Phases
<1>4. ASSUME NEW c \in Calls, Start(c) \/ EndPost(c) PROVE SerialInv'
  <2>1. /\ UNCHANGED journal /\ inProgress(c)
        /\ \E label \in {"running", "closed"} : stage' = [stage EXCEPT ![c] = label]
    BY <1>4 DEF Start, EndPost, goto, recorded, inProgress
  <2>2. /\ \A b \in Calls : inProgress(b)' => inProgress(b)
        /\ \A b \in Calls : stage'[b] = "requested" => stage[b] = "requested"
    BY <2>1 DEF TypeOK, inProgress
  <2>3. \A b, d : isOlder(b, d)' = isOlder(b, d) /\ neighbours(b, d)' = neighbours(b, d)
    BY <2>1 DEF isOlder, neighbours, Events
  <2>4. Events' = Events /\ \A e \in Events : journal[e].call \in Calls
    BY <2>1, Bounds DEF Events
  <2> QED  BY <2>1, <2>2, <2>3, <2>4 DEF SerialInv
<1>5. CASE UNCHANGED <<journal, stage>>
  BY <1>5 DEF SerialInv, isOlder, neighbours, inProgress, Events
<1> QED
  BY <1>2, <1>3, <1>4, <1>5
     DEF Next, SnapshotPre, ToolReads, ToolWrites, OutsideWrites, ObserveWrite, ObserveRead,
         Setup, vars, recorded, truth

\* A producer of the own session is in the history of the event that reads, under the
\* event that the history names it by, and before the call that reads.
THEOREM OwnProducersAreRecorded == Spec => []OwnProducersAreInHistory
<1>1. Init => SerialInv
  <2>1. Init => Events = {} /\ \A c \in Calls : ~inProgress(c)
    BY DEF Init, Events, inProgress
  <2> QED  BY <2>1 DEF SerialInv, isOlder
<1>2. Spec => []SerialInv
  BY <1>1, Invariance, SerialStep, PTL DEF Spec
<1>3. IInv /\ SerialInv => OwnProducersAreInHistory
  <2> SUFFICES ASSUME IInv, SerialInv, NEW e \in Events, NEW p \in Producers(e),
                      Session[journal[p].call] = Session[journal[e].call],
                      Session[journal[e].call] \in Serial
               PROVE  /\ journal[p].call \in History(e)
                      /\ nodeEvent(p, journal[p].call, e)
                      /\ precedes(journal[p].call, journal[e].call, e)
    BY DEF OwnProducersAreInHistory
  <2> DEFINE b == journal[p].call
             c == journal[e].call
  <2>1. /\ p \in Events /\ p \in Nat /\ e \in Nat /\ p < e /\ boundary < p
        /\ journal[p].phase = "post_tool_use"
    BY Bounds DEF Producers, writes, Events, IInv
  <2>2. b \in Calls /\ c \in Calls
    BY <2>1, Bounds DEF IInv
  <2>3. p \in rowsBefore(b, e)
    BY <2>1 DEF rowsBefore
  <2>4. \A f \in Events : journal[f].call = b => f <= p
    BY <2>1 DEF SerialInv
  <2>5. nodeEvent(p, b, e)
    BY <2>3, <2>4 DEF nodeEvent, newest, rowsBefore
  <2>6. b # c
    BY <2>1, <2>4
  <2>7. neighbours(b, c)
    BY <2>6 DEF neighbours
  <2>8. ~isOlder(c, b)
    BY <2>1 DEF isOlder
  <2>9. isOlder(b, c)
    BY <2>2, <2>7, <2>8 DEF SerialInv
  <2>10. \A g \in rowsBefore(c, e) : p < g
    BY <2>1, <2>9 DEF isOlder, rowsBefore
  <2> QED  BY <2>2, <2>3, <2>5, <2>10 DEF History, precedes
<1> QED  BY <1>2, <1>3, Invariance, PTL
===============================================================================
