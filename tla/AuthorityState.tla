---------------------------- MODULE AuthorityState ----------------------------
(***************************************************************************)
(* The OS-owned lifecycle file of one target (user, project, data          *)
(* directory): tooluseproxy/authority_state.py, its administrator entry    *)
(* point authority_admin.py and the leases that Hooks and workers take     *)
(* through integrations/authority.py.                                      *)
(*                                                                         *)
(* Every flock, read and publication of the file is a step of its own, so  *)
(* that Hooks, workers and administrators interleave between them, and any *)
(* of these processes may die between two steps (the kernel then releases  *)
(* its flocks).                                                            *)
(***************************************************************************)
EXTENDS Naturals

CONSTANTS
    Clients,          \* Hook invocations and background workers
    Admins,           \* administrator processes
    Operator,         \* the administrator who keeps running "finish" (liveness)
    Nobody,           \* no holder of an exclusive lock
    MaxGenerations,   \* bound: state revisions drawn by transition()
    MaxOperations     \* bound: operation identifiers drawn by _review()

ASSUME NobodyAssumption == Nobody \notin Admins
ASSUME OperatorAssumption == Operator \in Admins
ASSUME BoundsAssumption == MaxGenerations \in Nat /\ MaxOperations \in Nat

VARIABLES
    state,            \* the published file <target.key>.json
    shared,           \* clients holding <target.key>.lease shared
    exclusive,        \* administrator holding <target.key>.lease exclusively
    adminLock,        \* administrator holding <target.key>.admin exclusively
    clientPc,         \* where each client is
    seen,             \* generation a client last read under its lease
    adminPc,          \* where each administrator is
    request,          \* the reviewed request of each administrator
    lastGeneration,   \* generations drawn so far
    lastOperation,    \* operation identifiers drawn so far
    settled           \* history: operations whose final phase was published

clientVars == <<clientPc, seen>>
adminVars  == <<adminPc, request>>
vars == <<state, shared, exclusive, adminLock, clientPc, seen, adminPc,
          request, lastGeneration, lastOperation, settled>>

-------------------------------------------------------------------------------
(* Data *)

Generations == 0 .. MaxGenerations    \* 0 is the "absent" of an expected revision
Operations  == 0 .. MaxOperations     \* 0 is no operation
Actions     == {"enroll", "reactivate", "deactivate"}
Reviewable  == Actions \cup {"finish"}

\* The phase in which _review() accepts what an administrator asks for.
ReviewedIn  == [enroll |-> "absent", deactivate |-> "active",
                reactivate |-> "inactive", finish |-> "deactivating"]

States == [phase: {"active", "deactivating", "inactive"},
           generation: Generations, operation: Operations, action: Actions]
Absent == [phase |-> "absent", generation |-> 0, operation |-> 0, action |-> "none"]

Requests  == [action: Actions, expected: Generations, operation: Operations]
NoRequest == [action |-> "none", expected |-> 0, operation |-> 0]

ClientPcs == {"idle", "locking", "rereading", "running", "bypassing", "legacy", "refused"}
AdminPcs  == {"idle", "reviewed", "checking", "activating", "publishing",
              "stopping", "draining", "retiring"}

Init ==
    /\ state = Absent
    /\ shared = {} /\ exclusive = Nobody /\ adminLock = Nobody
    /\ clientPc = [c \in Clients |-> "idle"]
    /\ seen = [c \in Clients |-> 0]
    /\ adminPc = [a \in Admins |-> "idle"]
    /\ request = [a \in Admins |-> NoRequest]
    /\ lastGeneration = 0 /\ lastOperation = 0
    /\ settled = {}

-------------------------------------------------------------------------------
(* A Hook or a worker: lease() around its whole invocation *)

clientOnly == UNCHANGED <<state, exclusive, adminLock, adminVars,
                          lastGeneration, lastOperation, settled>>

\* Mutant: a stopped project is taken for one that was never enrolled.
AnyButActive(c) ==
    /\ clientPc[c] = "idle"
    /\ clientPc' = [clientPc EXCEPT ![c] =
            IF state.phase \in {"absent", "inactive"} THEN "legacy"
            ELSE IF state.phase = "active" THEN "locking" ELSE "bypassing"]
    /\ UNCHANGED <<shared, seen>>
    /\ clientOnly

\* The first read.  Without a file the client runs without a lease; a project
\* that is being stopped or is stopped is passed through unprotected, with no
\* lock taken.
ReadState(c) ==
    /\ clientPc[c] = "idle"
    /\ clientPc' = [clientPc EXCEPT ![c] =
            IF state.phase = "absent" THEN "legacy"
            ELSE IF state.phase = "active" THEN "locking" ELSE "bypassing"]
    /\ UNCHANGED <<shared, seen>>
    /\ clientOnly

\* flock(LOCK_SH | LOCK_NB): an administrator holding the lease makes the
\* client fail with authority_operation_in_progress, which the Hook denies.
TakeLease(c) ==
    /\ clientPc[c] = "locking"
    /\ IF exclusive = Nobody
       THEN /\ shared' = shared \cup {c}
            /\ clientPc' = [clientPc EXCEPT ![c] = "rereading"]
       ELSE /\ clientPc' = [clientPc EXCEPT ![c] = "refused"]
            /\ UNCHANGED shared
    /\ UNCHANGED seen
    /\ clientOnly

\* Mutant: the lease is held, so the phase is not looked at again.
RereadGenerationOnly(c) ==
    /\ clientPc[c] = "rereading"
    /\ seen' = [seen EXCEPT ![c] = state.generation]
    /\ clientPc' = [clientPc EXCEPT ![c] = "running"]
    /\ UNCHANGED shared
    /\ clientOnly

\* The publication may have happened between the first read and the lock.
RereadState(c) ==
    /\ clientPc[c] = "rereading"
    /\ seen' = [seen EXCEPT ![c] = state.generation]
    /\ clientPc' = [clientPc EXCEPT ![c] =
            IF state.phase = "active" THEN "running" ELSE "bypassing"]
    /\ UNCHANGED shared
    /\ clientOnly

\* The invocation ends, or is killed at any point: closing the descriptor
\* releases the lease.
EndClient(c) ==
    /\ clientPc[c] # "idle"
    /\ clientPc' = [clientPc EXCEPT ![c] = "idle"]
    /\ shared' = shared \ {c}
    /\ UNCHANGED seen
    /\ clientOnly

-------------------------------------------------------------------------------
(* An administrator: _review(), then transition() under the .admin lock *)

goto(a, pc) == adminPc' = [adminPc EXCEPT ![a] = pc]

\* _review() reads the file without a lock.  It draws a new operation, except
\* that "finish" takes up the operation that is being completed, and is
\* applied as its "deactivate".
Review(a, action) ==
    /\ adminPc[a] = "idle"
    /\ state.phase = ReviewedIn[action]
    /\ action # "finish" => lastOperation < MaxOperations
    /\ lastOperation' = IF action = "finish" THEN lastOperation ELSE lastOperation + 1
    /\ request' = [request EXCEPT ![a] =
            [action    |-> IF action = "finish" THEN "deactivate" ELSE action,
             expected  |-> state.generation,
             operation |-> IF action = "finish" THEN state.operation ELSE lastOperation']]
    /\ goto(a, "reviewed")
    /\ UNCHANGED <<state, shared, exclusive, adminLock, clientVars, lastGeneration, settled>>

\* The answer of an earlier call was lost (or its process died): the same
\* request is submitted again.
Resubmit(a) ==
    /\ adminPc[a] = "idle"
    /\ request[a] # NoRequest
    /\ goto(a, "reviewed")
    /\ UNCHANGED <<state, shared, exclusive, adminLock, clientVars, request,
                   lastGeneration, lastOperation, settled>>

\* _apply_review() goes no further: cancelled, more than 120 seconds after the
\* review, or the directories are no longer those that were reviewed.
Withdraw(a) ==
    /\ adminPc[a] = "reviewed"
    /\ goto(a, "idle")
    /\ UNCHANGED <<state, shared, exclusive, adminLock, clientVars, request,
                   lastGeneration, lastOperation, settled>>

\* flock(.admin, LOCK_EX | LOCK_NB).
TakeAdminLock(a) ==
    /\ adminPc[a] = "reviewed"
    /\ IF adminLock = Nobody
       THEN adminLock' = a /\ goto(a, "checking")
       ELSE UNCHANGED adminLock /\ goto(a, "idle")
    /\ UNCHANGED <<state, shared, exclusive, clientVars, request,
                   lastGeneration, lastOperation, settled>>

\* transition() is a lookup for an operation that has already completed.
IsReplay(r) ==
    /\ state.operation = r.operation /\ state.action = r.action
    /\ \/ r.action = "deactivate" /\ state.phase = "inactive"
       \/ r.action = "reactivate" /\ state.phase = "active"

\* Mutant: the revision that was reviewed does not matter.
AnyRevision(r) == FALSE

\* authority_state_conflict: the file is no longer what was reviewed.
IsStale(r) == state.generation # r.expected

\* Mutant: a stop that is under way is left to whoever began it.
IsStopping(r) == r.action = "deactivate" /\ state.phase = "deactivating"

\* Another operation is stopping the project; its own retry goes on.
StopsElsewhere(r) ==
    r.action = "deactivate" /\ state.phase = "deactivating" /\ state.operation # r.operation

\* The errors of transition(), all raised before anything is written.
IsRejected(r) ==
    \/ state = Absent /\ r.action # "enroll"
    \/ state # Absent /\ r.action = "enroll"
    \/ state # Absent /\ state.operation = r.operation
                      /\ (state.action # r.action \/ r.action # "deactivate")
    \/ IsStale(r)
    \/ r.action = "reactivate" /\ state.phase = "deactivating"
    \/ StopsElsewhere(r)

\* transition() reads the file under the lock and decides what to do.
CheckRequest(a) ==
    LET r == request[a] IN
    /\ adminPc[a] = "checking"
    /\ IF IsReplay(r) \/ IsRejected(r)
       THEN adminLock' = Nobody /\ goto(a, "idle")
       ELSE /\ UNCHANGED adminLock
            /\ goto(a, IF r.action # "deactivate" THEN "activating"
                       ELSE IF state.phase = "deactivating" THEN "draining" ELSE "stopping")
    /\ UNCHANGED <<state, shared, exclusive, clientVars, request,
                   lastGeneration, lastOperation, settled>>

\* Mutant: the lease of the clients is not an obstacle.
TakeWithoutDrain(a) ==
    /\ adminPc[a] \in {"activating", "draining"}
    /\ exclusive = Nobody /\ exclusive' = a
    /\ goto(a, IF adminPc[a] = "activating" THEN "publishing" ELSE "retiring")
    /\ UNCHANGED <<state, shared, adminLock, clientVars, request,
                   lastGeneration, lastOperation, settled>>

\* flock(.lease, LOCK_EX | LOCK_NB), for a new active generation or for the
\* end of a stop.  While clients hold the lease the call ends: an error for the
\* former, the durable deactivating state for the latter.
TakeExclusive(a) ==
    /\ adminPc[a] \in {"activating", "draining"}
    /\ IF shared = {} /\ exclusive = Nobody
       THEN /\ exclusive' = a
            /\ UNCHANGED adminLock
            /\ goto(a, IF adminPc[a] = "activating" THEN "publishing" ELSE "retiring")
       ELSE /\ adminLock' = Nobody
            /\ goto(a, "idle")
            /\ UNCHANGED exclusive
    /\ UNCHANGED <<state, shared, clientVars, request,
                   lastGeneration, lastOperation, settled>>

\* Mutant: a stop keeps the revision of the project it stops.
PublishSameRevision(a, phase, generation) ==
    state' = [phase |-> phase,
              generation |-> IF phase = "deactivating" THEN state.generation ELSE generation,
              operation |-> request[a].operation, action |-> request[a].action]

Publish(a, phase, generation) ==
    state' = [phase |-> phase, generation |-> generation,
              operation |-> request[a].operation, action |-> request[a].action]

PublishActive(a) ==
    /\ adminPc[a] = "publishing"
    /\ lastGeneration < MaxGenerations
    /\ lastGeneration' = lastGeneration + 1
    /\ Publish(a, "active", lastGeneration')
    /\ exclusive' = Nobody /\ adminLock' = Nobody
    /\ settled' = settled \cup {request[a].operation}
    /\ goto(a, "idle")
    /\ UNCHANGED <<shared, clientVars, request, lastOperation>>

\* Durable before the drain: new clients are no longer admitted.
PublishDeactivating(a) ==
    /\ adminPc[a] = "stopping"
    /\ lastGeneration < MaxGenerations
    /\ lastGeneration' = lastGeneration + 1
    /\ Publish(a, "deactivating", lastGeneration')
    /\ goto(a, "draining")
    /\ UNCHANGED <<shared, exclusive, adminLock, clientVars, request,
                   lastOperation, settled>>

PublishInactive(a) ==
    /\ adminPc[a] = "retiring"
    /\ Publish(a, "inactive", state.generation)
    /\ exclusive' = Nobody /\ adminLock' = Nobody
    /\ settled' = settled \cup {request[a].operation}
    /\ goto(a, "idle")
    /\ UNCHANGED <<shared, clientVars, request, lastGeneration, lastOperation>>

\* The administrator's process dies: the kernel releases its locks, the
\* published file stays as it is.
CrashAdmin(a) ==
    /\ adminPc[a] \notin {"idle", "reviewed"}
    /\ adminLock' = Nobody
    /\ exclusive' = IF exclusive = a THEN Nobody ELSE exclusive
    /\ goto(a, "idle")
    /\ UNCHANGED <<state, shared, clientVars, request,
                   lastGeneration, lastOperation, settled>>

-------------------------------------------------------------------------------

ClientStep(c) == ReadState(c) \/ TakeLease(c) \/ RereadState(c) \/ EndClient(c)

AdminStep(a) ==
    \/ \E action \in Reviewable : Review(a, action)
    \/ Resubmit(a)
    \/ Withdraw(a)
    \/ TakeAdminLock(a)
    \/ CheckRequest(a)
    \/ TakeExclusive(a)
    \/ PublishActive(a)
    \/ PublishDeactivating(a)
    \/ PublishInactive(a)
    \/ CrashAdmin(a)

Next == (\E c \in Clients : ClientStep(c)) \/ (\E a \in Admins : AdminStep(a))

Spec == Init /\ [][Next]_vars

\* Every invocation ends (the Hook watchdog and the judgment budget see to it),
\* an administrator's call ends, by itself or by being killed, and the operator
\* keeps running "finish" on a stop that is not complete, with calls that are
\* not killed every time, while the other administrators' requests come to an
\* end (two calls that always meet at the .admin lock could refuse each other).
CallStep(a) ==
    \/ CheckRequest(a) \/ TakeExclusive(a)
    \/ PublishActive(a) \/ PublishDeactivating(a) \/ PublishInactive(a)
    \/ CrashAdmin(a)

Fairness ==
    /\ \A c \in Clients : WF_vars(EndClient(c))
    /\ \A a \in Admins : WF_vars(CallStep(a))
    /\ SF_vars(Review(Operator, "finish"))
    /\ SF_vars(TakeAdminLock(Operator))
    /\ SF_vars(CheckRequest(Operator))
    /\ SF_vars(TakeExclusive(Operator))
    /\ SF_vars(PublishInactive(Operator))
    /\ <>[][\/ \E c \in Clients : ClientStep(c)
            \/ \E a \in Admins : CallStep(a)
            \/ AdminStep(Operator)]_vars

FairSpec == Spec /\ Fairness

-------------------------------------------------------------------------------
(* Properties *)

\* Clients that do the protected work of an active project under a lease.
Admitted == {c \in Clients : clientPc[c] = "running"}

\* The values every process and the file can have.
TypeOK ==
    /\ state \in States \cup {Absent}
    /\ shared \subseteq Clients
    /\ exclusive \in Admins \cup {Nobody}
    /\ adminLock \in Admins \cup {Nobody}
    /\ clientPc \in [Clients -> ClientPcs]
    /\ seen \in [Clients -> Generations]
    /\ adminPc \in [Admins -> AdminPcs]
    /\ request \in [Admins -> Requests \cup {NoRequest}]
    /\ lastGeneration \in Generations
    /\ lastOperation \in Operations
    /\ settled \subseteq Operations

\* "inactive" is published only after every Hook and worker that was admitted
\* has ended, whatever it was doing between its two reads of the file
\* (lease() and the drain of transition()).
InactiveMeansDrained == state.phase = "inactive" => Admitted = {}

\* A generation never overlaps an older one: all admitted clients work under
\* the same generation, which is the published one while the project is active.
OneGeneration ==
    \A c \in Admitted :
        /\ state.phase = "active" => seen[c] = state.generation
        /\ \A d \in Admitted : seen[d] = seen[c]

\* A stop takes effect only on the generation that was reviewed: a stale
\* request never stops a project that was restarted after its review.
StopsOnlyReviewed ==
    [][state.phase = "active" /\ state'.phase # "active"
         => \E a \in Admins : /\ adminLock = a
                              /\ request[a].action = "deactivate"
                              /\ request[a].expected = state.generation]_vars

\* Sending the same request again is a lookup: once the final phase of an
\* operation was published, that operation never changes the file again,
\* whatever other operations did in between.
AppliedOnce ==
    [][state' # state => state'.operation \notin settled]_vars

\* The lifecycle the administrator is promised: AuthorityLifecycle, with the
\* admitted clients as those that run under a lease.
Lifecycle == INSTANCE AuthorityLifecycle
    WITH phase <- state.phase, generation <- state.generation, admitted <- Admitted

ImplementsLifecycle == Lifecycle!Spec

\* A stop that was begun is completed, through crashes of the administrator
\* and clients that were admitted before it, as long as "finish" is run again.
StopCompletes == state.phase = "deactivating" ~> state.phase = "inactive"

\* Hooks from before the enrolment hold no lease, and no stop waits for them; but
\* enrolment is final, so that they run out and from then on none is without a lease,
\* whatever is stopped and restarted (lease() and the "legacy Hooks" of transition()).
LegacyRunsOut ==
    state.phase # "absent" ~> [](\A c \in Clients : clientPc[c] # "legacy")
===============================================================================
