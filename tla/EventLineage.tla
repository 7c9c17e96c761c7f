------------------------------ MODULE EventLineage ------------------------------
(***************************************************************************)
(* Which call wrote what another call reads: engine/lineage.py, with the   *)
(* journal it joins and the history that graph.load_calls() makes of it.   *)
(*                                                                         *)
(* A Hook before a call journals the event, lets a model say which files   *)
(* the call will read and write, and takes a snapshot of what it reads.    *)
(* The Hook after the call journals that event and takes another snapshot: *)
(* the generation found there counts as written by the call, and as read   *)
(* by it when it is the one that was found before.  Between these steps    *)
(* the file belongs to nobody: calls of other sessions and programs that   *)
(* have no Hooks write to it.  matching_producers() reconstructs from the  *)
(* two snapshots and the order of the journal who wrote a generation.      *)
(*                                                                         *)
(* The module follows one file.  Its fingerprint never returns to an       *)
(* earlier value, so a generation is a number.                             *)
(***************************************************************************)
EXTENDS Naturals, Sequences, FiniteSets

CONSTANTS
    Calls,          \* ToolCalls
    Session,        \* the session of each call
    Declares,       \* the modes in which the model says a call uses the file
    Serial,         \* the sessions whose host makes one call at a time
    Outside,        \* a writer without Hooks
    MaxEvents,      \* bound: events in the journal
    MaxBoundary,    \* bound: events that are older than the setup
    MaxGeneration   \* bound: generations of the file

Modes    == {"read", "write"}
Sessions == {Session[c] : c \in Calls}

ASSUME DeclaresAssumption == Declares \in [Calls -> SUBSET Modes]
ASSUME SessionAssumption == Session \in [Calls -> Sessions] /\ Serial \subseteq Sessions
ASSUME OutsideAssumption == Outside \notin Calls
ASSUME BoundAssumption == MaxEvents \in Nat /\ MaxBoundary \in 0..MaxEvents /\ MaxGeneration \in Nat \ {0}

VARIABLES
    journal,        \* events by sequence_no, which is also their event_id here
    plan,           \* flow_operation_plans: the event of each call's plan, 0 before
    seen,           \* flow_file_observations: the last generation of an event and mode, or 0
    boundary,       \* recording_boundaries.after_sequence
    stage,          \* where each call is
    generation,     \* the file as it is
    writer,         \* who wrote each generation
    consumed,       \* the generation that the tool itself read, or 0
    disturbed       \* declared writers that were not alone with the file until their
                    \* last snapshot

recorded == <<journal, plan, seen, boundary>>
truth    == <<generation, writer, consumed, disturbed>>
vars     == <<recorded, stage, truth>>

-------------------------------------------------------------------------------
(* The journal *)

Phases == {"pre_tool_use", "post_tool_use"}
Events == 1..Len(journal)

rowsOf(c, phase) == {e \in Events : journal[e] = [call |-> c, phase |-> phase]}
newest(e, S) == e \in S /\ \A f \in S : f <= e

\* Journal.record(): an event that is there already keeps its place.
record(c, phase) == journal' = Append(journal, [call |-> c, phase |-> phase])

observe(e, mode) == seen' = [seen EXCEPT ![e][mode] = generation]

-------------------------------------------------------------------------------
(* What is made of it *)

\* load_calls(): the calls of the session of event e that its history holds, each
\* named by its last event, in the order of their first one.
rowsBefore(c, e) == {f \in Events : boundary < f /\ f <= e /\ journal[f].call = c}
History(e) == {c \in Calls : /\ Session[c] = Session[journal[e].call]
                             /\ rowsBefore(c, e) # {}}
nodeEvent(f, c, e) == newest(f, rowsBefore(c, e))
precedes(b, c, e) == \E f \in rowsBefore(b, e) : \A g \in rowsBefore(c, e) : f < g

\* Observed writes in the recorded history before e.
writesEver(e) == {p \in 1..(e - 1) : journal[p].phase = "post_tool_use" /\ seen[p]["write"] # 0}
writes(e) == {p \in 1..(e - 1) : /\ boundary < p
                                 /\ journal[p].phase = "post_tool_use" /\ seen[p]["write"] # 0}

\* matching_producers(): the observed writes of the generation that e reads, as far as
\* no other observed write is journaled after them and before e.
ProducersOfPath(e) ==
    {p \in writes(e) : seen[e]["read"] # 0 /\ \A q \in (p + 1)..(e - 1) : seen[q]["write"] = 0}
ProducersAtAnyTime(e) ==
    {p \in Events \ {e} : /\ boundary < p
                          /\ seen[e]["read"] # 0 /\ seen[p]["write"] = seen[e]["read"]}
Producers(e) ==
    {p \in writes(e) : /\ seen[p]["write"] = seen[e]["read"]
                       /\ \A q \in (p + 1)..(e - 1) : seen[q]["write"] = 0}

Init ==
    /\ journal = <<>>
    /\ plan = [c \in Calls |-> 0]
    /\ seen = [e \in 1..MaxEvents |-> [m \in Modes |-> 0]]
    /\ boundary = 0
    /\ stage = [c \in Calls |-> "requested"]
    /\ generation = 1
    /\ writer = [g \in 1..MaxGeneration |-> Outside]
    /\ consumed = [c \in Calls |-> 0]
    /\ disturbed = {}

goto(c, label) == stage' = [stage EXCEPT ![c] = label]

-------------------------------------------------------------------------------
(* PreToolUse *)

inProgress(c) == stage[c] \notin {"requested", "closed"}

\* The event reaches the journal before any model is asked.  A second delivery with
\* another payload is a second event.
JournalPre(c) ==
    /\ stage[c] \in {"requested", "screening"}
    /\ Session[c] \in Serial =>
         \A b \in Calls \ {c} : Session[b] = Session[c] => ~inProgress(b)
    /\ Len(journal) < MaxEvents
    /\ record(c, "pre_tool_use")
    /\ goto(c, "screening")
    /\ UNCHANGED <<plan, seen, boundary, truth>>

\* snapshot_resources() of the last delivery; the plan stays that of the first one.
\* A repeated evaluation and record_transmission_snapshots() observe again.
SnapshotPre(c) ==
    /\ stage[c] = "screening"
    /\ \E e \in Events :
        /\ newest(e, rowsOf(c, "pre_tool_use"))
        /\ plan' = [plan EXCEPT ![c] = IF @ = 0 THEN e ELSE @]
        /\ IF "read" \in Declares[c] THEN observe(e, "read") ELSE UNCHANGED seen
    /\ UNCHANGED <<journal, boundary, stage, truth>>

\* The host starts the tool.  Where no source is registered a call is let through
\* without a plan.  A call that is denied stays where it is.
Start(c) ==
    /\ stage[c] = "screening"
    /\ goto(c, "running")
    /\ UNCHANGED <<recorded, truth>>

-------------------------------------------------------------------------------
(* The world *)

change(who) ==
    /\ generation < MaxGeneration
    /\ generation' = generation + 1
    /\ writer' = [writer EXCEPT ![generation + 1] = who]
    /\ disturbed' = disturbed \cup
         {c \in Calls \ {who} : "write" \in Declares[c] /\ stage[c] \in {"running", "observing"}}

ToolReads(c) ==
    /\ stage[c] = "running" /\ "read" \in Declares[c] /\ consumed[c] = 0
    /\ consumed' = [consumed EXCEPT ![c] = generation]
    /\ UNCHANGED <<recorded, stage, generation, writer, disturbed>>

ToolWrites(c) ==
    /\ stage[c] = "running" /\ "write" \in Declares[c]
    /\ change(c)
    /\ UNCHANGED <<recorded, stage, consumed>>

OutsideWrites ==
    /\ change(Outside)
    /\ UNCHANGED <<recorded, stage, consumed>>

-------------------------------------------------------------------------------
(* PostToolUse *)

\* The tool has ended, and its result is an event.  A failed call has no effects to
\* observe, and neither has one without a plan.
JournalPost(c, how) ==
    /\ stage[c] = "running"
    /\ Len(journal) < MaxEvents
    /\ record(c, "post_tool_use")
    /\ goto(c, IF how = "ok" /\ plan[c] # 0 THEN "observing" ELSE "closed")
    /\ UNCHANGED <<plan, seen, boundary, truth>>

\* Each mode of the plan is a reading of its own.
observing(c, mode) == stage[c] = "observing" /\ mode \in Declares[c]
postEvent(e, c) == newest(e, rowsOf(c, "post_tool_use"))

ObserveWrite(c) ==
    /\ observing(c, "write")
    /\ \E e \in Events : postEvent(e, c) /\ observe(e, "write")
    /\ UNCHANGED <<journal, plan, boundary, stage, truth>>

ObserveReadAnyway(c) ==
    /\ observing(c, "read")
    /\ \E e \in Events : postEvent(e, c) /\ observe(e, "read")
    /\ UNCHANGED <<journal, plan, boundary, stage, truth>>

\* A read counts when the file is the one that was found before the call.
ObserveRead(c) ==
    /\ observing(c, "read")
    /\ seen[plan[c]]["read"] = generation
    /\ \E e \in Events : postEvent(e, c) /\ observe(e, "read")
    /\ UNCHANGED <<journal, plan, boundary, stage, truth>>

\* The Hook is through with it, could not read the file, or is killed.
EndPost(c) ==
    /\ stage[c] = "observing"
    /\ goto(c, "closed")
    /\ UNCHANGED <<recorded, truth>>

\* Setup fixes where the recorded history begins; a second one changes nothing.
Setup ==
    /\ boundary = 0 /\ Len(journal) \in 1..MaxBoundary
    /\ boundary' = Len(journal)
    /\ UNCHANGED <<journal, plan, seen, stage, truth>>

Next ==
    \/ \E c \in Calls : JournalPre(c)
    \/ \E c \in Calls : SnapshotPre(c)
    \/ \E c \in Calls : Start(c)
    \/ \E c \in Calls : ToolReads(c)
    \/ \E c \in Calls : ToolWrites(c)
    \/ \E c \in Calls, how \in {"ok", "failed"} : JournalPost(c, how)
    \/ \E c \in Calls : ObserveWrite(c)
    \/ \E c \in Calls : ObserveRead(c)
    \/ \E c \in Calls : EndPost(c)
    \/ OutsideWrites
    \/ Setup

Spec == Init /\ [][Next]_vars

-------------------------------------------------------------------------------
(* Properties *)

TypeOK ==
    /\ journal \in Seq([call: Calls, phase: Phases]) /\ Len(journal) <= MaxEvents
    /\ plan \in [Calls -> 0..MaxEvents]
    /\ seen \in [1..MaxEvents -> [Modes -> 0..MaxGeneration]]
    /\ boundary \in 0..MaxEvents
    /\ stage \in [Calls -> {"requested", "screening", "running", "observing", "closed"}]
    /\ generation \in 1..MaxGeneration
    /\ writer \in [1..MaxGeneration -> Calls \cup {Outside}]
    /\ consumed \in [Calls -> 0..MaxGeneration]
    /\ disturbed \subseteq Calls

\* What is recorded as read by a call is what its tool has read: nobody replaced the
\* file between the two snapshots and put what was there before back (snapshot_resources()
\* is all that vouches for a read, and the tool reads at a time no Hook sees).
ReadWitnessIsExact ==
    \A e \in Events :
        LET c == journal[e].call IN
        journal[e].phase = "post_tool_use" /\ seen[e]["read"] # 0 /\ consumed[c] # 0
            => seen[e]["read"] = consumed[c]

wrote(c) == \E g \in 1..generation : writer[g] = c

\* The producer that is named for what a call reads has written it, unless somebody
\* else wrote to the file before its last snapshot, or it wrote nothing at all.  A
\* replacement from outside never inherits an older producer.
LoneProducerWroteIt ==
    \A e \in Events : \A p \in Producers(e) :
        LET c == journal[p].call IN
        wrote(c) /\ c \notin disturbed => writer[seen[e]["read"]] = c

\* Every producer in the session of the event is one of the calls of its history, under
\* the event it is named by and before the call that reads: analyze_properties() raises
\* resource_producer_missing for any other, and the event is never decided.
OwnProducersAreInHistory ==
    \A e \in Events : \A p \in Producers(e) :
        LET b == journal[p].call
            c == journal[e].call
        IN  Session[b] = Session[c] /\ Session[c] \in Serial
                => b \in History(e) /\ nodeEvent(p, b, e) /\ precedes(b, c, e)

\* An event that is looked at again, by a worker or for a later call, has the producers
\* it had for its Hook: only a Hook that was still busy with an earlier event may change
\* them, never a later one.
settled(e) == \A f \in 1..(e - 1) : stage[journal[f].call] # "observing"
ProducersSettle ==
    [][\A e \in Events :
        settled(e) /\ settled(e)' /\ seen[e]' = seen[e] /\ boundary' = boundary
            => Producers(e)' = Producers(e)]_vars
===============================================================================
