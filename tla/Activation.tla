------------------------------- MODULE Activation -------------------------------
(***************************************************************************)
(* Setup of projects and their selection by Hooks: app.py _setup(),        *)
(* integrations/activation.py and the first lines of hook.py run().        *)
(*                                                                         *)
(* Setup of a project writes four things one after the other: the row of   *)
(* the project in the database, its judge configuration in a file that all *)
(* projects share, a marker file for every registered project followed by  *)
(* one that says that the migration to markers is complete, and the        *)
(* boundary from which events count.  Setups of several projects run at    *)
(* the same time, and any of them may be killed between two writes and be  *)
(* repeated.                                                               *)
(*                                                                         *)
(* A Hook looks for the nearest marker from its directory outwards and,    *)
(* while the migration is not complete, for the nearest registered root.   *)
(***************************************************************************)
EXTENDS Naturals, Sequences

CONSTANTS
    Roots,          \* projects
    Enclosing,      \* each project and those around it without a .git between, inside out
    Setups,         \* setup processes
    MaxEvents,      \* bound on the events that Hooks record
    None            \* no project, no process, no boundary

ASSUME EnclosingAssumption ==
    /\ Enclosing \in [Roots -> Seq(Roots)]
    /\ \A r \in Roots : Len(Enclosing[r]) > 0 /\ Enclosing[r][1] = r
ASSUME NoneAssumption == None \notin Roots \cup Setups \cup Nat
ASSUME BoundAssumption == MaxEvents \in Nat

VARIABLES
    legacy,         \* projects registered by an installation that predates markers
    registered,     \* rows of workspaces
    configured,     \* projects in semantic-flow.json
    markers,        \* projects with a marker file
    complete,       \* migration-v1.complete exists
    boundary,       \* recording_boundaries
    events,         \* the last sequence_no in the journal
    lock,           \* holder of the configuration lock
    pc, root,       \* where each setup is, and its project
    seen,           \* the configuration it has read
    todo,           \* the projects it has still to mark
    setUp,          \* projects that one setup has taken through all its steps
    since           \* the last event when a setup first reported success for a project

files == <<registered, configured, markers, complete, boundary>>
vars == <<legacy, files, events, lock, pc, root, seen, todo, setUp, since>>

-------------------------------------------------------------------------------

\* The innermost project of S around r.
nearest(r, S) ==
    LET found == {i \in DOMAIN Enclosing[r] : Enclosing[r][i] \in S}
    IN IF found = {} THEN None
       ELSE Enclosing[r][CHOOSE i \in found : \A j \in found : i <= j]

\* Mutant: a marker anywhere suppresses the registrations of the database.
enabledByAnyMarker(r) ==
    IF nearest(r, markers) # None THEN nearest(r, markers)
    ELSE IF markers # {} \/ complete THEN None
    ELSE nearest(r, registered)

\* enabled_workspace_root().  A directory without markers is as good as none.
enabled(r) ==
    IF nearest(r, markers) # None THEN nearest(r, markers)
    ELSE IF complete THEN None
    ELSE nearest(r, registered)

Init ==
    /\ legacy \in SUBSET Roots
    /\ registered = legacy /\ configured = {} /\ markers = {} /\ complete = FALSE
    /\ boundary = [r \in Roots |-> None]
    /\ events = 0
    /\ lock = None
    /\ pc = [s \in Setups |-> "idle"]
    /\ root = [s \in Setups |-> None]
    /\ seen = [s \in Setups |-> {}]
    /\ todo = [s \in Setups |-> {}]
    /\ setUp = {}
    /\ since = [r \in Roots |-> None]

goto(s, label) == pc' = [pc EXCEPT ![s] = label]

\* The process ends and leaves nothing but the files.
end(s) ==
    /\ goto(s, "idle")
    /\ root' = [root EXCEPT ![s] = None]
    /\ seen' = [seen EXCEPT ![s] = {}]
    /\ todo' = [todo EXCEPT ![s] = {}]

-------------------------------------------------------------------------------
(* A setup *)

\* A configured project only gets its boundary.  Refusals change nothing.
Begin(s, r) ==
    /\ pc[s] = "idle"
    /\ root' = [root EXCEPT ![s] = r]
    /\ goto(s, IF r \in configured THEN "again" ELSE "register")
    /\ UNCHANGED <<legacy, files, events, lock, seen, todo, setUp, since>>

Register(s) ==
    /\ pc[s] = "register"
    /\ registered' = registered \cup {root[s]}
    /\ goto(s, "configure")
    /\ UNCHANGED <<legacy, configured, markers, complete, boundary, events, lock, root, seen, todo,
                   setUp, since>>

\* Mutant: the file is read without the lock.
ReadUnlocked(s) ==
    /\ pc[s] = "configure"
    /\ seen' = [seen EXCEPT ![s] = configured]
    /\ goto(s, "write")
    /\ UNCHANGED <<legacy, files, events, lock, root, todo, setUp, since>>

ReadConfiguration(s) ==
    /\ pc[s] = "configure"
    /\ lock = None
    /\ lock' = s
    /\ seen' = [seen EXCEPT ![s] = configured]
    /\ goto(s, "write")
    /\ UNCHANGED <<legacy, files, events, root, todo, setUp, since>>

\* The new file replaces the old one at once.
WriteConfiguration(s) ==
    /\ pc[s] = "write"
    /\ configured' = seen[s] \cup {root[s]}
    /\ lock' = None /\ seen' = [seen EXCEPT ![s] = {}]
    /\ goto(s, "roots")
    /\ UNCHANGED <<legacy, registered, markers, complete, boundary, events, root, todo,
                   setUp, since>>

ReadRoots(s) ==
    /\ pc[s] = "roots"
    /\ todo' = [todo EXCEPT ![s] = registered \cup {root[s]}]
    /\ goto(s, "mark")
    /\ UNCHANGED <<legacy, files, events, lock, root, seen, setUp, since>>

SaveMarker(s, r) ==
    /\ pc[s] = "mark" /\ r \in todo[s]
    /\ markers' = markers \cup {r}
    /\ todo' = [todo EXCEPT ![s] = @ \ {r}]
    /\ UNCHANGED <<legacy, registered, configured, complete, boundary, events, lock, pc, root, seen,
                   setUp, since>>

SaveMigrationComplete(s) ==
    /\ pc[s] = "mark" /\ todo[s] = {}
    /\ complete' = TRUE
    /\ goto(s, "finish")
    /\ UNCHANGED <<legacy, registered, configured, markers, boundary, events, lock, root, seen, todo,
                   setUp, since>>

\* Mutant: each setup sets the boundary anew.
boundaryNow(r) == events

\* A boundary that is there stays.
boundaryOf(r) == IF boundary[r] = None THEN events ELSE boundary[r]

Finish(s) ==
    LET r == root[s] IN
    /\ pc[s] \in {"again", "finish"}
    /\ boundary' = [boundary EXCEPT ![r] = boundaryOf(r)]
    /\ setUp' = IF pc[s] = "finish" THEN setUp \cup {r} ELSE setUp
    /\ since' = [since EXCEPT ![r] = IF @ = None THEN events ELSE @]
    /\ end(s)
    /\ UNCHANGED <<legacy, registered, configured, markers, complete, events, lock>>

\* A setup is killed; the operating system releases its lock.
Kill(s) ==
    /\ pc[s] # "idle"
    /\ lock' = IF lock = s THEN None ELSE lock
    /\ end(s)
    /\ UNCHANGED <<legacy, files, events, setUp, since>>

SetupStep(s) ==
    \/ \E r \in Roots : Begin(s, r) \/ SaveMarker(s, r)
    \/ Register(s) \/ ReadConfiguration(s) \/ WriteConfiguration(s) \/ ReadRoots(s)
    \/ SaveMigrationComplete(s) \/ Finish(s) \/ Kill(s)

\* A Hook in project r records its event, for the project that is enabled there.
Hook(r) ==
    /\ enabled(r) # None /\ events < MaxEvents
    /\ events' = events + 1
    /\ UNCHANGED <<legacy, files, lock, pc, root, seen, todo, setUp, since>>

Next == (\E s \in Setups : SetupStep(s)) \/ (\E r \in Roots : Hook(r))

Spec == Init /\ [][Next]_vars

-------------------------------------------------------------------------------
(* Properties *)

\* The values of the files and of the setups.
TypeOK ==
    /\ legacy \subseteq registered /\ registered \subseteq Roots
    /\ configured \subseteq registered /\ markers \subseteq registered /\ setUp \subseteq markers
    /\ complete \in BOOLEAN
    /\ boundary \in [Roots -> Nat \cup {None}] /\ since \in [Roots -> Nat \cup {None}]
    /\ events \in 0 .. MaxEvents
    /\ lock \in Setups \cup {None}
    /\ pc \in [Setups -> {"idle", "register", "configure", "write", "roots", "mark", "finish", "again"}]
    /\ root \in [Setups -> Roots \cup {None}]
    /\ seen \in [Setups -> SUBSET registered] /\ todo \in [Setups -> SUBSET registered]

\* Projects that an installation without markers had enabled stay enabled through
\* the migration, whichever project is set up first and wherever a setup is killed
\* ("Suppress the legacy DB fallback only after the complete marker has been durably
\* published", activation.py:101).  Not for themselves, though: until all markers
\* are written, the marker of a project around a legacy one takes it over.
LegacyStaysEnabled == \A r \in legacy : enabled(r) # None

\* A project that a setup has taken through all its steps is configured and enabled
\* for itself, not for a project around it, and stays so whatever other setups do.
SetUpIsEnabled == \A r \in setUp : r \in configured /\ enabled(r) = r

\* A setup never loses the configuration of a project that another one has written.
ConfigurationsKept == [][configured \subseteq configured']_vars

\* What Hooks record after a setup has reported success counts, however often setup
\* is repeated: the boundary of a project is not later than that report.
RecordedFromSetup ==
    \A r \in Roots : since[r] # None => boundary[r] # None /\ boundary[r] <= since[r]

\* A project for which setup has reported success is enabled when no setup of it
\* is under way: "already_configured" is a result that satisfies the request
\* (skills/tooluseproxy-setup/SKILL.md:27).
ReportedIsEnabled ==
    \A r \in Roots : since[r] # None /\ (\A s \in Setups : root[s] # r) => enabled(r) # None
===============================================================================
