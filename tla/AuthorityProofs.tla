---------------------------- MODULE AuthorityProofs ----------------------------
(***************************************************************************)
(* Proofs about AuthorityState, for any clients and administrators and any *)
(* bounds.  The inductive invariant is built in layers, each preserved by  *)
(* every step where the layers before it hold:                             *)
(*   Typed      the types, and that a call has a request,                  *)
(*   Locked     which program points hold which flock,                     *)
(*   Drained    what the drain guarantees to the admitted clients,         *)
(*   Reviewed   what a request still says of the file it was made for,     *)
(*   Settled    what an operation that has completed may still do.         *)
(***************************************************************************)
EXTENDS AuthorityState, TLAPS

Typed ==
    /\ TypeOK
    /\ \A a \in Admins : adminPc[a] # "idle" => request[a] \in Requests

LeasePcs == {"rereading", "running"}
CallPcs  == {"checking", "activating", "publishing", "stopping", "draining", "retiring"}

Locked ==
    /\ \A c \in Clients : clientPc[c] \in LeasePcs => c \in shared
    /\ exclusive # Nobody => shared = {}
    /\ \A a \in Admins : adminPc[a] \in {"publishing", "retiring"} => exclusive = a
    /\ \A a \in Admins : adminPc[a] \in CallPcs => adminLock = a

Drained ==
    /\ \A c \in Clients : clientPc[c] = "running" => state.phase \in {"active", "deactivating"}
    /\ OneGeneration

\* A request that still expects the published generation.
Current(a) == request[a] # NoRequest /\ request[a].expected = state.generation

Reviewed ==
    /\ state.generation <= lastGeneration
    /\ \A a \in Admins : request[a].expected <= lastGeneration
    /\ state # Absent => state.phase # "absent"
    /\ state.phase \in {"deactivating", "inactive"} => state.action = "deactivate"
    /\ \A a \in Admins : Current(a) =>
        /\ request[a].action = "reactivate" => state.phase = "inactive"
        /\ request[a].action = "deactivate" =>
                \/ state.phase = "active"
                \/ /\ state.phase \in {"deactivating", "inactive"}
                   /\ request[a].operation = state.operation
    /\ \A a \in Admins :
        /\ adminPc[a] \in {"activating", "publishing"} => state.phase \in {"absent", "inactive"}
        /\ adminPc[a] = "stopping" => /\ Current(a) /\ request[a].action = "deactivate"
                                      /\ state.phase = "active"
        /\ adminPc[a] \in {"draining", "retiring"} =>
                /\ request[a].action = "deactivate" /\ state.phase = "deactivating"
                /\ request[a].operation = state.operation

USE NobodyAssumption, BoundsAssumption DEF NobodyAssumption, BoundsAssumption

-------------------------------------------------------------------------------
(* Typed *)

LEMMA TypedInit == Init => Typed
BY DEF Init, Typed, TypeOK, Generations, Operations, ClientPcs, AdminPcs

\* A published state is one of the states.
LEMMA PublishTyped ==
    ASSUME Typed, NEW a \in Admins, adminPc[a] # "idle",
           NEW phase \in {"active", "deactivating", "inactive"},
           NEW generation \in Generations,
           Publish(a, phase, generation)
    PROVE  state' \in States
BY DEF Typed, Publish, States, Requests

LEMMA TypedStep == Typed /\ [Next]_vars => Typed'
<1> SUFFICES ASSUME Typed, [Next]_vars PROVE Typed'
    OBVIOUS
<1> USE DEF Typed, TypeOK
<1>1. ASSUME NEW c \in Clients, ClientStep(c) PROVE Typed'
  <2>1. CASE ReadState(c)
    BY <2>1 DEF ReadState, clientOnly, adminVars, ClientPcs
  <2>2. CASE TakeLease(c)
    BY <2>2 DEF TakeLease, clientOnly, adminVars, ClientPcs
  <2>3. CASE RereadState(c)
    <3>1. state.generation \in Generations
      BY DEF States, Absent, Generations
    <3> QED  BY <2>3, <3>1 DEF RereadState, clientOnly, adminVars, ClientPcs
  <2>4. CASE EndClient(c)
    BY <2>4 DEF EndClient, clientOnly, adminVars, ClientPcs
  <2> QED  BY <1>1, <2>1, <2>2, <2>3, <2>4 DEF ClientStep
<1>2. ASSUME NEW a \in Admins, AdminStep(a) PROVE Typed'
  <2>1. ASSUME NEW action \in Reviewable, Review(a, action) PROVE Typed'
    <3>1. state.generation \in Generations /\ (action = "finish" => state.operation \in Operations)
      BY <2>1 DEF Review, States, Absent, Generations, Operations
    <3>2. lastOperation' \in Operations
      BY <2>1 DEF Review, Operations
    <3>3. request'[a] \in Requests /\ request' \in [Admins -> Requests \cup {NoRequest}]
      <4> DEFINE new == [action    |-> IF action = "finish" THEN "deactivate" ELSE action,
                         expected  |-> state.generation,
                         operation |-> IF action = "finish" THEN state.operation
                                                            ELSE lastOperation']
      <4>1. new \in Requests
        BY <3>1, <3>2 DEF Requests, Reviewable, Actions
      <4>2. request' = [request EXCEPT ![a] = new]
        BY <2>1 DEF Review
      <4> QED  BY <4>1, <4>2
    <3>4. \A b \in Admins : b # a => adminPc'[b] = adminPc[b] /\ request'[b] = request[b]
      BY <2>1 DEF Review, goto
    <3> QED  BY <2>1, <3>2, <3>3, <3>4 DEF Review, goto, clientVars, AdminPcs
  <2>2. CASE Resubmit(a)
    BY <2>2 DEF Resubmit, goto, clientVars, AdminPcs
  <2>3. CASE Withdraw(a)
    BY <2>3 DEF Withdraw, goto, clientVars, AdminPcs
  <2>4. CASE TakeAdminLock(a)
    BY <2>4 DEF TakeAdminLock, goto, clientVars, AdminPcs
  <2>5. CASE CheckRequest(a)
    BY <2>5 DEF CheckRequest, goto, clientVars, AdminPcs
  <2>6. CASE TakeExclusive(a)
    BY <2>6 DEF TakeExclusive, goto, clientVars, AdminPcs
  <2>7. CASE PublishActive(a)
    <3>1. lastGeneration' \in Generations
      BY <2>7 DEF PublishActive, Generations
    <3>2. state' \in States
      BY <2>7, <3>1, PublishTyped DEF PublishActive
    <3> QED  BY <2>7, <3>1, <3>2 DEF PublishActive, goto, clientVars, AdminPcs, Requests
  <2>8. CASE PublishDeactivating(a)
    <3>1. lastGeneration' \in Generations
      BY <2>8 DEF PublishDeactivating, Generations
    <3>2. state' \in States
      BY <2>8, <3>1, PublishTyped DEF PublishDeactivating
    <3> QED  BY <2>8, <3>1, <3>2 DEF PublishDeactivating, goto, clientVars, AdminPcs
  <2>9. CASE PublishInactive(a)
    <3>1. state.generation \in Generations
      BY DEF States, Absent, Generations
    <3>2. state' \in States
      BY <2>9, <3>1, PublishTyped DEF PublishInactive
    <3> QED  BY <2>9, <3>2 DEF PublishInactive, goto, clientVars, AdminPcs, Requests
  <2>10. CASE CrashAdmin(a)
    BY <2>10 DEF CrashAdmin, goto, clientVars, AdminPcs
  <2> QED
    BY <1>2, <2>1, <2>2, <2>3, <2>4, <2>5, <2>6, <2>7, <2>8, <2>9, <2>10 DEF AdminStep
<1>3. CASE UNCHANGED vars
  BY <1>3 DEF vars, clientVars, adminVars
<1> QED  BY <1>1, <1>2, <1>3 DEF Next

\* Every variable keeps to its values, in every run of the lifecycle file.
THEOREM TypeCorrect == Spec => []TypeOK
<1>1. Spec => []Typed
  BY TypedInit, TypedStep, PTL DEF Spec
<1>2. Typed => TypeOK
  BY DEF Typed
<1> QED  BY <1>1, <1>2, PTL

-------------------------------------------------------------------------------
(* Locked *)

LEMMA LockedInit == Init => Locked
BY DEF Init, Locked, LeasePcs, CallPcs

\* Only the holder of the .admin lock moves between the program points of a call.
LEMMA LockedStep == Typed /\ Locked /\ [Next]_vars => Locked'
<1> SUFFICES ASSUME Typed, Locked, [Next]_vars PROVE Locked'
    OBVIOUS
<1> USE DEF Locked, LeasePcs, CallPcs
<1>t. /\ clientPc \in [Clients -> ClientPcs] /\ adminPc \in [Admins -> AdminPcs]
      /\ exclusive \in Admins \cup {Nobody} /\ adminLock \in Admins \cup {Nobody}
  BY DEF Typed, TypeOK
<1>1. ASSUME NEW c \in Clients, ClientStep(c) PROVE Locked'
  <2>1. CASE ReadState(c)
    BY <1>t, <2>1 DEF ReadState, clientOnly, adminVars
  <2>2. CASE TakeLease(c)
    BY <1>t, <2>2 DEF TakeLease, clientOnly, adminVars
  <2>3. CASE RereadState(c)
    BY <1>t, <2>3 DEF RereadState, clientOnly, adminVars
  <2>4. CASE EndClient(c)
    BY <1>t, <2>4 DEF EndClient, clientOnly, adminVars
  <2> QED  BY <1>1, <2>1, <2>2, <2>3, <2>4 DEF ClientStep
<1>2. ASSUME NEW a \in Admins, AdminStep(a) PROVE Locked'
  <2>1. ASSUME NEW action \in Reviewable, Review(a, action) PROVE Locked'
    BY <1>t, <2>1 DEF Review, goto, clientVars
  <2>2. CASE Resubmit(a)
    BY <1>t, <2>2 DEF Resubmit, goto, clientVars
  <2>3. CASE Withdraw(a)
    BY <1>t, <2>3 DEF Withdraw, goto, clientVars
  <2>4. CASE TakeAdminLock(a)
    BY <1>t, <2>4 DEF TakeAdminLock, goto, clientVars
  <2>5. CASE CheckRequest(a)
    BY <1>t, <2>5 DEF CheckRequest, goto, clientVars
  <2>6. CASE TakeExclusive(a)
    BY <1>t, <2>6 DEF TakeExclusive, goto, clientVars
  <2>7. CASE PublishActive(a)
    BY <1>t, <2>7 DEF PublishActive, goto, clientVars
  <2>8. CASE PublishDeactivating(a)
    BY <1>t, <2>8 DEF PublishDeactivating, goto, clientVars
  <2>9. CASE PublishInactive(a)
    BY <1>t, <2>9 DEF PublishInactive, goto, clientVars
  <2>10. CASE CrashAdmin(a)
    BY <1>t, <2>10 DEF CrashAdmin, goto, clientVars, AdminPcs
  <2> QED
    BY <1>2, <2>1, <2>2, <2>3, <2>4, <2>5, <2>6, <2>7, <2>8, <2>9, <2>10 DEF AdminStep
<1>3. CASE UNCHANGED vars
  BY <1>3 DEF vars, clientVars, adminVars
<1> QED  BY <1>1, <1>2, <1>3 DEF Next

-------------------------------------------------------------------------------
(* Drained *)

LEMMA DrainedInit == Init => Drained
BY DEF Init, Drained, OneGeneration, Admitted

\* Whoever holds the lease exclusively has no admitted client beside it.
LEMMA NobodyAdmitted ==
    ASSUME Locked, NEW a \in Admins, adminPc[a] \in {"publishing", "retiring"}
    PROVE  \A c \in Clients : clientPc[c] # "running"
BY DEF Locked, LeasePcs

LEMMA DrainedStep == Typed /\ Locked /\ Drained /\ [Next]_vars => Drained'
<1> SUFFICES ASSUME Typed, Locked, Drained, [Next]_vars PROVE Drained'
    OBVIOUS
<1> USE DEF Drained, OneGeneration, Admitted
<1>t. clientPc \in [Clients -> ClientPcs] /\ seen \in [Clients -> Generations]
  BY DEF Typed, TypeOK
<1>1. ASSUME NEW c \in Clients, ClientStep(c) PROVE Drained'
  <2>1. CASE ReadState(c)
    BY <1>t, <2>1 DEF ReadState, clientOnly
  <2>2. CASE TakeLease(c)
    BY <1>t, <2>2 DEF TakeLease, clientOnly
  <2>3. CASE RereadState(c)
    BY <1>t, <2>3 DEF RereadState, clientOnly
  <2>4. CASE EndClient(c)
    BY <1>t, <2>4 DEF EndClient, clientOnly
  <2> QED  BY <1>1, <2>1, <2>2, <2>3, <2>4 DEF ClientStep
<1>2. ASSUME NEW a \in Admins, AdminStep(a) PROVE Drained'
  <2>1. CASE PublishActive(a) \/ PublishInactive(a)
    BY <2>1, NobodyAdmitted DEF PublishActive, PublishInactive, clientVars
  <2>2. CASE PublishDeactivating(a)
    BY <2>2 DEF PublishDeactivating, Publish, clientVars
  <2>3. CASE UNCHANGED <<state, clientVars>>
    BY <2>3 DEF clientVars
  <2> QED
    BY <1>2, <2>1, <2>2, <2>3
    DEF AdminStep, Review, Resubmit, Withdraw, TakeAdminLock, CheckRequest,
        TakeExclusive, CrashAdmin
<1>3. CASE UNCHANGED vars
  BY <1>3 DEF vars
<1> QED  BY <1>1, <1>2, <1>3 DEF Next

\* A stop that is published as complete has waited for every admitted client,
\* whatever it was doing between its two reads of the file.
THEOREM StopIsDrained == Spec => []InactiveMeansDrained
<1>1. Init => Typed /\ Locked /\ Drained
  BY TypedInit, LockedInit, DrainedInit
<1>2. Typed /\ Locked /\ Drained /\ [Next]_vars => (Typed /\ Locked /\ Drained)'
  BY TypedStep, LockedStep, DrainedStep
<1>3. Drained => InactiveMeansDrained
  BY DEF Drained, InactiveMeansDrained, Admitted
<1> QED  BY <1>1, <1>2, <1>3, PTL DEF Spec

\* Admitted clients never work under two generations at once.
THEOREM GenerationsDoNotOverlap == Spec => []OneGeneration
<1>1. Init => Typed /\ Locked /\ Drained
  BY TypedInit, LockedInit, DrainedInit
<1>2. Typed /\ Locked /\ Drained /\ [Next]_vars => (Typed /\ Locked /\ Drained)'
  BY TypedStep, LockedStep, DrainedStep
<1>3. Drained => OneGeneration
  BY DEF Drained
<1> QED  BY <1>1, <1>2, <1>3, PTL DEF Spec

-------------------------------------------------------------------------------
(* Reviewed *)

LEMMA ReviewedInit == Init => Reviewed
BY DEF Init, Reviewed, Current, Absent, NoRequest

\* A request that expects the published generation, in the only phases in which
\* it can do so.
LEMMA CheckedRequest ==
    ASSUME Typed, Reviewed, NEW a \in Admins, adminPc[a] = "checking",
           ~IsReplay(request[a]), ~IsRejected(request[a])
    PROVE  /\ request[a].action # "deactivate" => state.phase \in {"absent", "inactive"}
           /\ request[a].action = "deactivate" =>
                /\ Current(a)
                /\ \/ state.phase = "active"
                   \/ /\ state.phase = "deactivating"
                      /\ request[a].operation = state.operation
<1>1. request[a] \in Requests /\ state \in States \cup {Absent}
  BY DEF Typed, TypeOK
<1>2. request[a] # NoRequest
  BY <1>1 DEF Requests, NoRequest, Actions
<1>3. state.generation = request[a].expected
  BY DEF IsRejected, IsStale, StopsElsewhere
<1>4. Current(a)
  BY <1>2, <1>3 DEF Current
<1>5. CASE request[a].action = "enroll"
  BY <1>5, <1>1 DEF IsRejected, IsStale, StopsElsewhere, Absent
<1>6. CASE request[a].action = "reactivate"
  BY <1>6, <1>4 DEF Reviewed
<1>7. CASE request[a].action = "deactivate"
  BY <1>7, <1>4 DEF Reviewed, IsReplay
<1> QED  BY <1>1, <1>5, <1>6, <1>7 DEF Requests, Actions

\* Where nothing is published and no request is drawn, only the program points
\* matter, and a request stays Current.
LEMMA ReviewedFrame ==
    ASSUME Reviewed, UNCHANGED <<state, request, lastGeneration>>,
           \A a \in Admins :
                \/ adminPc'[a] = adminPc[a]
                \/ adminPc'[a] \in {"idle", "reviewed", "checking"}
                \/ adminPc[a] = "activating" /\ adminPc'[a] = "publishing"
                \/ adminPc[a] = "draining" /\ adminPc'[a] = "retiring"
    PROVE  Reviewed'
BY DEF Reviewed, Current

\* A new generation is expected by no request, and no other call is under way.
LEMMA ReviewedPublish ==
    ASSUME Typed, Locked, Reviewed, NEW a \in Admins,
           adminPc[a] \in {"publishing", "stopping"},
           NEW phase \in {"active", "deactivating"},
           lastGeneration' = lastGeneration + 1,
           Publish(a, phase, lastGeneration'),
           phase = "deactivating" => request[a].action = "deactivate",
           UNCHANGED request,
           adminPc' = [adminPc EXCEPT ![a] = IF phase = "active" THEN "idle" ELSE "draining"]
    PROVE  Reviewed'
<1>1. /\ request \in [Admins -> Requests \cup {NoRequest}]
      /\ adminPc \in [Admins -> AdminPcs] /\ lastGeneration \in Nat
  BY DEF Typed, TypeOK, Generations
<1>2. /\ state'.phase = phase /\ state'.generation = lastGeneration + 1
      /\ state'.operation = request[a].operation /\ state'.action = request[a].action
  BY DEF Publish
<1>3. \A b \in Admins : request[b].expected \in Nat /\ request[b].expected < lastGeneration'
  BY <1>1 DEF Reviewed, Requests, NoRequest, Generations
<1>4. \A b \in Admins : ~Current(b)'
  BY <1>1, <1>2, <1>3 DEF Current
<1>5. \A b \in Admins : b # a => adminPc'[b] \in {"idle", "reviewed"}
  BY <1>1 DEF Locked, CallPcs, AdminPcs
<1>6. adminPc'[a] = IF phase = "active" THEN "idle" ELSE "draining"
  BY <1>1
<1>7. /\ state'.generation <= lastGeneration'
      /\ \A b \in Admins : request'[b].expected <= lastGeneration'
  BY <1>1, <1>2, <1>3
<1>8. /\ state' # Absent => state'.phase # "absent"
      /\ state'.phase \in {"deactivating", "inactive"} => state'.action = "deactivate"
  BY <1>2
<1>9. \A b \in Admins :
        /\ adminPc'[b] \in {"activating", "publishing"} => FALSE
        /\ adminPc'[b] = "stopping" => FALSE
        /\ adminPc'[b] \in {"draining", "retiring"} =>
                /\ request'[b].action = "deactivate" /\ state'.phase = "deactivating"
                /\ request'[b].operation = state'.operation
  BY <1>2, <1>5, <1>6
<1> QED  BY <1>4, <1>7, <1>8, <1>9 DEF Reviewed

LEMMA ReviewedStep == Typed /\ Locked /\ Reviewed /\ [Next]_vars => Reviewed'
<1> SUFFICES ASSUME Typed, Locked, Reviewed, [Next]_vars PROVE Reviewed'
    OBVIOUS
<1>t. /\ request \in [Admins -> Requests \cup {NoRequest}]
      /\ adminPc \in [Admins -> AdminPcs] /\ lastGeneration \in Nat
      /\ state \in States \cup {Absent} /\ state.generation \in Nat
  BY DEF Typed, TypeOK, Generations, States, Absent
<1>1. ASSUME NEW c \in Clients, ClientStep(c) PROVE Reviewed'
  BY <1>1, ReviewedFrame
  DEF ClientStep, ReadState, TakeLease, RereadState, EndClient, clientOnly, adminVars
<1>2. ASSUME NEW a \in Admins, AdminStep(a) PROVE Reviewed'
  <2>1. ASSUME NEW action \in Reviewable, Review(a, action) PROVE Reviewed'
    <3>1. /\ UNCHANGED <<state, lastGeneration>> /\ state.phase = ReviewedIn[action]
          /\ adminPc'[a] = "reviewed" /\ request'[a].expected = state.generation
          /\ request'[a].action = IF action = "finish" THEN "deactivate" ELSE action
          /\ action = "finish" => request'[a].operation = state.operation
          /\ \A b \in Admins \ {a} : request'[b] = request[b] /\ adminPc'[b] = adminPc[b]
      BY <1>t, <2>1 DEF Review, goto
    <3>2. \A b \in Admins \ {a} : Current(b)' = Current(b)
      BY <3>1 DEF Current
    <3>3. /\ request'[a].action = "reactivate" => state'.phase = "inactive"
          /\ request'[a].action = "deactivate" =>
                \/ state'.phase = "active"
                \/ /\ state'.phase \in {"deactivating", "inactive"}
                   /\ request'[a].operation = state'.operation
      BY <3>1 DEF Reviewable, Actions, ReviewedIn
    <3> QED  BY <1>t, <3>1, <3>2, <3>3 DEF Reviewed
  <2>2. CASE Resubmit(a) \/ Withdraw(a) \/ TakeAdminLock(a) \/ TakeExclusive(a) \/ CrashAdmin(a)
    BY <1>t, <2>2, ReviewedFrame
    DEF Resubmit, Withdraw, TakeAdminLock, TakeExclusive, CrashAdmin, goto
  <2>3. CASE CheckRequest(a)
    <3>1. CASE IsReplay(request[a]) \/ IsRejected(request[a])
      BY <1>t, <2>3, <3>1, ReviewedFrame DEF CheckRequest, goto
    <3>2. CASE ~IsReplay(request[a]) /\ ~IsRejected(request[a])
      <4>1. UNCHANGED <<state, request, lastGeneration>> /\ adminPc[a] = "checking"
        BY <2>3 DEF CheckRequest
      <4>2. adminPc' = [adminPc EXCEPT ![a] =
                IF request[a].action # "deactivate" THEN "activating"
                ELSE IF state.phase = "deactivating" THEN "draining" ELSE "stopping"]
        BY <2>3, <3>2 DEF CheckRequest, goto
      <4>3. \A b \in Admins : Current(b)' = Current(b)
        BY <4>1 DEF Current
      <4>4. \A b \in Admins \ {a} : adminPc'[b] = adminPc[b]
        BY <1>t, <4>2
      <4>5. /\ adminPc'[a] \in {"activating", "publishing"} => state'.phase \in {"absent", "inactive"}
            /\ adminPc'[a] = "stopping" => /\ Current(a)' /\ request'[a].action = "deactivate"
                                           /\ state'.phase = "active"
            /\ adminPc'[a] \in {"draining", "retiring"} =>
                    /\ request'[a].action = "deactivate" /\ state'.phase = "deactivating"
                    /\ request'[a].operation = state'.operation
        BY <1>t, <3>2, <4>1, <4>2, <4>3, CheckedRequest
      <4> QED  BY <4>1, <4>3, <4>4, <4>5 DEF Reviewed
    <3> QED  BY <3>1, <3>2
  <2>4. CASE PublishActive(a)
    BY <2>4, ReviewedPublish DEF PublishActive, goto
  <2>5. CASE PublishDeactivating(a)
    <3>1. request[a].action = "deactivate"
      BY <2>5 DEF PublishDeactivating, Reviewed
    <3> QED  BY <2>5, <3>1, ReviewedPublish DEF PublishDeactivating, goto
  <2>6. CASE PublishInactive(a)
    <3>1. /\ request[a].action = "deactivate" /\ state.phase = "deactivating"
          /\ request[a].operation = state.operation
      BY <2>6 DEF PublishInactive, Reviewed
    <3>2. /\ state'.phase = "inactive" /\ state'.generation = state.generation
          /\ state'.operation = state.operation /\ state'.action = "deactivate"
          /\ UNCHANGED <<request, lastGeneration>>
      BY <2>6, <3>1 DEF PublishInactive, Publish
    <3>3. \A b \in Admins : adminPc'[b] \in {"idle", "reviewed"}
      BY <1>t, <2>6 DEF PublishInactive, goto, Locked, CallPcs, AdminPcs
    <3>4. \A b \in Admins : Current(b)' = Current(b)
      BY <3>2 DEF Current
    <3> QED  BY <3>1, <3>2, <3>3, <3>4 DEF Reviewed
  <2> QED
    BY <1>2, <2>1, <2>2, <2>3, <2>4, <2>5, <2>6 DEF AdminStep
<1>3. CASE UNCHANGED vars
  BY <1>3, ReviewedFrame DEF vars
<1> QED  BY <1>1, <1>2, <1>3 DEF Next

-------------------------------------------------------------------------------
(* Settled *)

\* Only a request that expects the published generation is applied.  When its operation
\* has completed it is the stop that made the project inactive, which is a lookup.
Settled ==
    /\ \A n \in settled : n <= lastOperation
    /\ state.operation <= lastOperation
    /\ \A a \in Admins : request[a].operation <= lastOperation
    /\ state.phase = "deactivating" => state.operation \notin settled
    /\ \A a \in Admins : Current(a) /\ request[a].operation \in settled
            => state.phase = "inactive" /\ state.operation = request[a].operation
    /\ \A a \in Admins : adminPc[a] \in CallPcs \ {"checking"} => request[a].operation \notin settled

LEMMA SettledInit == Init => Settled
BY DEF Init, Settled, Current, Absent, NoRequest, CallPcs

\* A request of a completed operation goes no further than the check.
LEMMA CheckedIsOpen ==
    ASSUME Typed, Reviewed, Settled, NEW a \in Admins, adminPc[a] = "checking",
           ~IsReplay(request[a]), ~IsRejected(request[a])
    PROVE  request[a].operation \notin settled
<1> SUFFICES ASSUME request[a].operation \in settled PROVE FALSE
    OBVIOUS
<1>1. request[a] \in Requests /\ request[a] # NoRequest
  BY DEF Typed, Requests, NoRequest, Actions
<1>2. Current(a)
  BY <1>1 DEF Current, IsRejected, IsStale
<1>3. state.phase = "inactive" /\ state.operation = request[a].operation
  BY <1>2 DEF Settled
<1>4. state.action = "deactivate" /\ state # Absent
  BY <1>3 DEF Reviewed, Absent
<1>5. CASE request[a].action = "deactivate"
  BY <1>3, <1>4, <1>5 DEF IsReplay
<1>6. CASE request[a].action # "deactivate"
  BY <1>3, <1>4, <1>6 DEF IsRejected
<1> QED  BY <1>5, <1>6

LEMMA SettledFrame ==
    ASSUME Settled, UNCHANGED <<state, request, lastOperation, settled>>,
           \A a \in Admins :
                \/ adminPc'[a] = adminPc[a]
                \/ adminPc'[a] \in {"idle", "reviewed", "checking"}
                \/ adminPc[a] \in CallPcs \ {"checking"}
                \/ request[a].operation \notin settled
    PROVE  Settled'
BY DEF Settled, Current, CallPcs

LEMMA SettledStep == Typed /\ Locked /\ Reviewed /\ Settled /\ [Next]_vars => Settled'
<1> SUFFICES ASSUME Typed, Locked, Reviewed, Settled, [Next]_vars PROVE Settled'
    OBVIOUS
<1>t. /\ request \in [Admins -> Requests \cup {NoRequest}]
      /\ adminPc \in [Admins -> AdminPcs]
      /\ lastGeneration \in Nat /\ lastOperation \in Nat /\ settled \subseteq Nat
      /\ state \in States \cup {Absent} /\ state.generation \in Nat /\ state.operation \in Nat
      /\ \A b \in Admins : request[b].expected \in Nat /\ request[b].operation \in Nat
  BY DEF Typed, TypeOK, Generations, Operations, States, Absent, Requests, NoRequest
<1>c. \A a, b \in Admins : adminPc[a] \in CallPcs /\ adminPc[b] \in CallPcs => a = b
  BY DEF Locked
<1>1. ASSUME NEW c \in Clients, ClientStep(c) PROVE Settled'
  BY <1>1, SettledFrame
  DEF ClientStep, ReadState, TakeLease, RereadState, EndClient, clientOnly, adminVars
<1>2. ASSUME NEW a \in Admins, AdminStep(a) PROVE Settled'
  <2>1. ASSUME NEW action \in Reviewable, Review(a, action) PROVE Settled'
    <3>1. /\ UNCHANGED <<state, settled>> /\ state.phase = ReviewedIn[action]
          /\ adminPc'[a] = "reviewed" /\ lastOperation' >= lastOperation /\ lastOperation' \in Nat
          /\ request'[a].operation = IF action = "finish" THEN state.operation ELSE lastOperation'
          /\ \A b \in Admins \ {a} : request'[b] = request[b] /\ adminPc'[b] = adminPc[b]
      BY <1>t, <2>1 DEF Review, goto
    <3>2. request'[a].operation \notin settled' /\ request'[a].operation <= lastOperation'
      <4>1. CASE action = "finish"
        BY <1>t, <3>1, <4>1 DEF Settled, ReviewedIn
      <4>2. CASE action # "finish"
        <5>1. lastOperation' = lastOperation + 1
          BY <2>1, <4>2 DEF Review
        <5> QED  BY <1>t, <3>1, <4>2, <5>1 DEF Settled
      <4> QED  BY <4>1, <4>2
    <3>3. \A b \in Admins \ {a} : Current(b)' = Current(b)
      BY <3>1 DEF Current
    <3> QED  BY <1>t, <3>1, <3>2, <3>3 DEF Settled, CallPcs
  <2>2. CASE Resubmit(a) \/ Withdraw(a) \/ TakeAdminLock(a) \/ TakeExclusive(a) \/ CrashAdmin(a)
    BY <1>t, <2>2, SettledFrame
    DEF Resubmit, Withdraw, TakeAdminLock, TakeExclusive, CrashAdmin, goto, CallPcs
  <2>3. CASE CheckRequest(a)
    <3>1. IsReplay(request[a]) \/ IsRejected(request[a]) => adminPc'[a] = "idle"
      BY <1>t, <2>3 DEF CheckRequest, goto
    <3>2. ~IsReplay(request[a]) /\ ~IsRejected(request[a]) => request[a].operation \notin settled
      BY <2>3, CheckedIsOpen DEF CheckRequest
    <3> QED  BY <1>t, <2>3, <3>1, <3>2, SettledFrame DEF CheckRequest, goto
  <2>4. CASE PublishActive(a) \/ PublishDeactivating(a)
    <3>1. /\ state'.generation = lastGeneration + 1 /\ UNCHANGED <<request, lastOperation>>
          /\ state'.operation = request[a].operation
          /\ request[a].operation \notin settled
          /\ settled' \subseteq settled \cup {request[a].operation}
          /\ state'.phase = "deactivating" => settled' = settled
      BY <2>4 DEF PublishActive, PublishDeactivating, Publish, Settled, CallPcs
    <3>2. \A b \in Admins : ~Current(b)'
      BY <1>t, <3>1 DEF Current, Reviewed
    <3>3. \A b \in Admins \ {a} : adminPc'[b] = adminPc[b] /\ adminPc[b] \notin CallPcs
      BY <1>t, <1>c, <2>4 DEF PublishActive, PublishDeactivating, goto, CallPcs
    <3>4. adminPc'[a] \in CallPcs => settled' = settled
      BY <1>t, <2>4 DEF PublishActive, PublishDeactivating, goto, CallPcs
    <3> QED  BY <1>t, <3>1, <3>2, <3>3, <3>4 DEF Settled
  <2>5. CASE PublishInactive(a)
    <3>1. state.phase = "deactivating" /\ request[a].operation = state.operation
      BY <2>5 DEF PublishInactive, Reviewed
    <3>2. /\ state'.phase = "inactive" /\ state'.generation = state.generation
          /\ state'.operation = state.operation /\ UNCHANGED <<request, lastOperation>>
          /\ settled' = settled \cup {state.operation}
      BY <2>5, <3>1 DEF PublishInactive, Publish
    <3>3. \A b \in Admins : Current(b)' = Current(b)
      BY <3>2 DEF Current
    <3>4. \A b \in Admins : adminPc'[b] \notin CallPcs
      BY <1>t, <1>c, <2>5 DEF PublishInactive, goto, CallPcs
    <3>5. \A b \in Admins : Current(b) => request[b].operation \notin settled
      BY <3>1 DEF Settled
    <3> QED  BY <1>t, <3>1, <3>2, <3>3, <3>4, <3>5 DEF Settled
  <2> QED
    BY <1>2, <2>1, <2>2, <2>3, <2>4, <2>5 DEF AdminStep
<1>3. CASE UNCHANGED vars
  BY <1>3, SettledFrame DEF vars, adminVars
<1> QED  BY <1>1, <1>2, <1>3 DEF Next

-------------------------------------------------------------------------------
(* The whole invariant, and what its steps may do *)

Inv == Typed /\ Locked /\ Drained /\ Reviewed /\ Settled

LEMMA Invariance == Spec => []Inv
<1>1. Init => Inv
  BY TypedInit, LockedInit, DrainedInit, ReviewedInit, SettledInit DEF Inv
<1>2. Inv /\ [Next]_vars => Inv'
  BY TypedStep, LockedStep, DrainedStep, ReviewedStep, SettledStep DEF Inv
<1> QED  BY <1>1, <1>2, PTL DEF Spec

\* A stop takes effect only on the generation that was reviewed.
THEOREM StopsAreReviewed == Spec => StopsOnlyReviewed
<1> DEFINE Stop == state.phase = "active" /\ state'.phase # "active"
           ByReview == \E a \in Admins : /\ adminLock = a
                                         /\ request[a].action = "deactivate"
                                         /\ request[a].expected = state.generation
<1>1. Inv /\ [Next]_vars => (Stop => ByReview)
  <2> SUFFICES ASSUME Inv, [Next]_vars, Stop PROVE ByReview
      OBVIOUS
  <2>1. CASE UNCHANGED state
    BY <2>1
  <2>2. ASSUME NEW a \in Admins,
               PublishActive(a) \/ PublishDeactivating(a) \/ PublishInactive(a)
        PROVE  ByReview
    <3>1. CASE PublishActive(a)
      BY <3>1 DEF PublishActive, Publish
    <3>2. CASE PublishDeactivating(a)
      BY <3>2 DEF PublishDeactivating, Inv, Locked, Reviewed, Current, CallPcs
    <3>3. CASE PublishInactive(a)
      BY <3>3 DEF PublishInactive, Inv, Reviewed
    <3> QED  BY <2>2, <3>1, <3>2, <3>3
  <2> QED
    BY <2>1, <2>2
    DEF Next, vars, ClientStep, ReadState, TakeLease, RereadState, EndClient, clientOnly,
        AdminStep, Review, Resubmit, Withdraw, TakeAdminLock, CheckRequest,
        TakeExclusive, CrashAdmin
<1>2. Inv /\ [Next]_vars => [Stop => ByReview]_vars
  BY <1>1
<1> QED  BY <1>2, Invariance, PTL DEF Spec, StopsOnlyReviewed

\* An operation whose final phase was published never changes the file again, however
\* often and by whom its request is sent again.
THEOREM OperationsApplyOnce == Spec => AppliedOnce
<1> DEFINE Fresh == state' # state => state'.operation \notin settled
<1>1. Inv /\ [Next]_vars => Fresh
  <2> SUFFICES ASSUME Inv, [Next]_vars, state' # state PROVE state'.operation \notin settled
      OBVIOUS
  <2>1. ASSUME NEW a \in Admins,
               PublishActive(a) \/ PublishDeactivating(a) \/ PublishInactive(a)
        PROVE  state'.operation \notin settled
    BY <2>1 DEF PublishActive, PublishDeactivating, PublishInactive, Publish, Inv, Settled, CallPcs
  <2> QED
    BY <2>1
    DEF Next, vars, ClientStep, ReadState, TakeLease, RereadState, EndClient, clientOnly,
        AdminStep, Review, Resubmit, Withdraw, TakeAdminLock, CheckRequest,
        TakeExclusive, CrashAdmin
<1>2. Inv /\ [Next]_vars => [Fresh]_vars
  BY <1>1
<1> QED  BY <1>2, Invariance, PTL DEF Spec, AppliedOnce

-------------------------------------------------------------------------------
(* Implementation of the abstract lifecycle *)

LEMMA LifecycleInit == Init => Lifecycle!Init
BY DEF Init, Lifecycle!Init, Absent, Admitted

LEMMA LifecycleStep == Inv /\ [Next]_vars => [Lifecycle!Next]_(Lifecycle!vars)
<1> SUFFICES ASSUME Inv, [Next]_vars PROVE Lifecycle!Next \/ UNCHANGED Lifecycle!vars
    OBVIOUS
<1> USE DEF Lifecycle!vars
<1>t. /\ clientPc \in [Clients -> ClientPcs] /\ lastGeneration \in Nat
      /\ state.generation \in Nat
  BY DEF Inv, Typed, TypeOK, Generations, States, Absent
<1>1. ASSUME NEW c \in Clients, ClientStep(c)
      PROVE  Lifecycle!Next \/ UNCHANGED Lifecycle!vars
  <2>0. UNCHANGED state
    BY <1>1 DEF ClientStep, ReadState, TakeLease, RereadState, EndClient, clientOnly
  <2>1. CASE ReadState(c) \/ TakeLease(c)
    <3>1. Admitted' = Admitted
      BY <1>t, <2>1 DEF ReadState, TakeLease, Admitted
    <3> QED  BY <2>0, <3>1
  <2>2. CASE RereadState(c)
    <3>1. CASE state.phase = "active"
      <4>1. c \notin Admitted /\ Admitted' = Admitted \cup {c}
        BY <1>t, <2>2, <3>1 DEF RereadState, Admitted
      <4>2. Lifecycle!Admit(c)
        BY <2>0, <3>1, <4>1 DEF Lifecycle!Admit
      <4> QED  BY <4>2 DEF Lifecycle!Next
    <3>2. CASE state.phase # "active"
      <4>1. Admitted' = Admitted
        BY <1>t, <2>2, <3>2 DEF RereadState, Admitted
      <4> QED  BY <2>0, <4>1
    <3> QED  BY <3>1, <3>2
  <2>3. CASE EndClient(c)
    <3>1. Admitted' = Admitted \ {c}
      BY <1>t, <2>3 DEF EndClient, Admitted
    <3>2. CASE c \in Admitted
      BY <2>0, <3>1, <3>2 DEF Lifecycle!Leave, Lifecycle!Next
    <3>3. CASE c \notin Admitted
      BY <2>0, <3>1, <3>3
    <3> QED  BY <3>2, <3>3
  <2> QED  BY <1>1, <2>1, <2>2, <2>3 DEF ClientStep
<1>2. ASSUME NEW a \in Admins, AdminStep(a)
      PROVE  Lifecycle!Next \/ UNCHANGED Lifecycle!vars
  <2>0. Admitted' = Admitted
    BY <1>2
    DEF AdminStep, Review, Resubmit, Withdraw, TakeAdminLock, CheckRequest, TakeExclusive,
        PublishActive, PublishDeactivating, PublishInactive, CrashAdmin, clientVars, Admitted
  <2>1. adminPc[a] \in {"publishing", "retiring"} => Admitted = {}
    BY NobodyAdmitted DEF Inv, Admitted
  <2>2. CASE PublishActive(a)
    <3>1. state.phase \in {"absent", "inactive"} /\ Admitted = {}
      BY <2>1, <2>2 DEF PublishActive, Inv, Reviewed
    <3>2. state'.phase = "active" /\ state'.generation > state.generation
      BY <1>t, <2>2 DEF PublishActive, Publish, Inv, Reviewed
    <3> QED  BY <2>0, <3>1, <3>2 DEF Lifecycle!Start, Lifecycle!Next
  <2>3. CASE PublishDeactivating(a)
    <3>1. state.phase = "active"
      BY <2>3 DEF PublishDeactivating, Inv, Reviewed
    <3>2. state'.phase = "deactivating" /\ state'.generation > state.generation
      BY <1>t, <2>3 DEF PublishDeactivating, Publish, Inv, Reviewed
    <3> QED  BY <2>0, <3>1, <3>2 DEF Lifecycle!BeginStop, Lifecycle!Next
  <2>4. CASE PublishInactive(a)
    <3>1. state.phase = "deactivating" /\ Admitted = {}
      BY <2>1, <2>4 DEF PublishInactive, Inv, Reviewed
    <3>2. state'.phase = "inactive" /\ state'.generation = state.generation
      BY <2>4 DEF PublishInactive, Publish
    <3> QED  BY <2>0, <3>1, <3>2 DEF Lifecycle!CompleteStop, Lifecycle!Next
  <2>5. CASE UNCHANGED state
    BY <2>0, <2>5
  <2> QED
    BY <1>2, <2>2, <2>3, <2>4, <2>5
    DEF AdminStep, Review, Resubmit, Withdraw, TakeAdminLock, CheckRequest,
        TakeExclusive, CrashAdmin
<1>3. CASE UNCHANGED vars
  BY <1>3 DEF vars, Admitted
<1> QED  BY <1>1, <1>2, <1>3 DEF Next

\* Every behaviour of the file, its locks and its processes is one of the
\* abstract lifecycle.
THEOREM Implementation == Spec => ImplementsLifecycle
BY LifecycleInit, LifecycleStep, Invariance, PTL DEF Spec, ImplementsLifecycle, Lifecycle!Spec
===============================================================================
