---------------------------- MODULE PendingJudgment ----------------------------
(***************************************************************************)
(* The durable judgment of one PreToolUse event: engine/pending.py.        *)
(* decide() is run by every delivery of the event to a Hook and, for a     *)
(* judgment that is waiting, by resume() in the background worker.  They   *)
(* share one row of pending_judgments; a row that is running belongs to    *)
(* its owner until the lease ends, and a transaction writes it only for    *)
(* its owner.  Any of them may be killed between two steps, and any        *)
(* transaction may fail.                                                   *)
(*                                                                         *)
(* Time is kept as what is left of every interval, so it never runs out.   *)
(* One unit stands for 240 seconds: Budget is 480 s, Lease is 700 s.       *)
(***************************************************************************)
EXTENDS Naturals

CONSTANTS
    Hooks,           \* Hook processes that evaluate deliveries of the event
    Workers,         \* background workers
    Nobody,          \* owner of a row that was never claimed
    Budget,          \* budget_seconds of one decide() call
    Lease,           \* lease_until - wall() at an acquisition
    MaxDelay,        \* the longest retry_at - wall() at a close
    MaxAttempts      \* max_attempts of one decide() call

Evaluators == Hooks \cup Workers

ASSUME EvaluatorAssumption == Hooks \cap Workers = {} /\ Nobody \notin Evaluators
ASSUME TimeAssumption ==
    /\ Budget \in Nat \ {0} /\ Lease \in Nat \ {0} /\ MaxDelay \in Nat \ {0}
    /\ Budget <= Lease
ASSUME AttemptAssumption == MaxAttempts \in Nat \ {0}

VARIABLES
    row,             \* the row of pending_judgments
    pc,              \* where each evaluator is
    budget,          \* time each evaluator has left before its deadline
    result,          \* result of its last attempt
    attempt,         \* attempts it has made without a complete result
    answer           \* what its last decide() returned

locals == <<budget, result, attempt, answer>>
vars == <<row, pc, locals>>

-------------------------------------------------------------------------------
(* Data *)

Permissions == {"allow", "block"}      \* the complete results
\* An unavailable result says whether, and within which scope, to try again.
Results == Permissions \cup {"unavailable", "provider", "not_retryable"}

RowStates == {"absent", "running", "complete", "waiting", "needs_evidence"}
Rows == [state: RowStates, owner: Evaluators \cup {Nobody}, lease: 0 .. Lease,
         delay: 0 .. MaxDelay, held: BOOLEAN]

Pcs == {"idle", "selected", "acquiring", "judging", "recording", "closing"}
\* "state_unavailable" is pending too, with judgment_state_unavailable as reason.
Answers == {"none", "pending", "state_unavailable"} \cup Permissions

Init ==
    /\ row = [state |-> "absent", owner |-> Nobody, lease |-> 0, delay |-> 0, held |-> FALSE]
    /\ pc = [e \in Evaluators |-> "idle"]
    /\ budget = [e \in Evaluators |-> 0]
    /\ result = [e \in Evaluators |-> "unavailable"]
    /\ attempt = [e \in Evaluators |-> 0]
    /\ answer = [e \in Evaluators |-> "none"]

goto(e, label) == pc' = [pc EXCEPT ![e] = label]

\* The variables of a call go with it; only its answer remains.
return(e, value) ==
    /\ goto(e, "idle")
    /\ answer' = [answer EXCEPT ![e] = value]
    /\ budget' = [budget EXCEPT ![e] = 0]
    /\ result' = [result EXCEPT ![e] = "unavailable"]
    /\ attempt' = [attempt EXCEPT ![e] = 0]

-------------------------------------------------------------------------------
(* decide() *)

\* Mutant: the lease is compared the wrong way round.
leaseReversed == row.state = "running" /\ row.lease = 0

\* A running row whose lease is over may be taken by anybody.
busy == row.state = "running" /\ row.lease > 0

start(e) ==
    /\ goto(e, "acquiring")
    /\ budget' = [budget EXCEPT ![e] = Budget]
    /\ answer' = [answer EXCEPT ![e] = "none"]
    /\ UNCHANGED <<row, result, attempt>>

\* The host delivers the event, again or concurrently with another delivery.
Deliver(h) == pc[h] = "idle" /\ start(h)

\* The upsert keeps what the row says about earlier attempts and holds.
Acquire(e) ==
    /\ pc[e] = "acquiring" /\ ~busy
    /\ row' = [state |-> "running", owner |-> e, lease |-> Lease,
               delay |-> row.delay, held |-> row.held]
    /\ goto(e, "judging")
    /\ UNCHANGED locals

\* Mutant: the loop waits for the row without looking at its deadline.
WaitForRow(e) == FALSE

\* Another delivery is still at work when the deadline comes.
WaitBudget(e) ==
    /\ pc[e] = "acquiring" /\ busy /\ budget[e] = 0
    /\ return(e, "pending")
    /\ UNCHANGED row

\* operation(deadline), outside every transaction; whatever it raises or
\* returns that is no result counts as unavailable.
Judge(e) ==
    /\ pc[e] = "judging" /\ budget[e] > 0
    /\ \E r \in Results : result' = [result EXCEPT ![e] = r]
    /\ goto(e, "recording")
    /\ UNCHANGED <<row, budget, attempt, answer>>

JudgmentBudget(e) ==
    /\ pc[e] = "judging" /\ budget[e] = 0
    /\ goto(e, "closing")
    /\ UNCHANGED <<row, locals>>

\* Mutant: the result is published whoever owns the row by now.
RecordUnfenced(e) ==
    /\ pc[e] = "recording" /\ result[e] \in Permissions
    /\ row' = [row EXCEPT !.state = "complete"]
    /\ return(e, result[e])

\* The attempt is recorded and published in one transaction, for the owner only.
RecordComplete(e) ==
    /\ pc[e] = "recording" /\ row.owner = e /\ result[e] \in Permissions
    /\ row' = [row EXCEPT !.state = "complete"]
    /\ return(e, result[e])

RecordIncomplete(e) ==
    /\ pc[e] = "recording" /\ row.owner = e /\ result[e] \notin Permissions
    /\ row' = [row EXCEPT !.state = "running"]
    /\ LET count == attempt[e] + 1 IN
       IF result[e] = "not_retryable"
       THEN goto(e, "closing") /\ UNCHANGED attempt
       ELSE \* The attempts of a provider or review failure are not limited.
            /\ attempt' = [attempt EXCEPT ![e] = IF count > MaxAttempts THEN @ ELSE count]
            /\ goto(e, IF result[e] # "provider" /\ count >= MaxAttempts
                       THEN "closing" ELSE "judging")
    /\ UNCHANGED <<budget, result, answer>>

OwnershipChanged(e) ==
    /\ pc[e] = "recording" /\ row.owner # e
    /\ return(e, "pending")
    /\ UNCHANGED row

\* Mutant: the hold is written whoever owns the row by now.
CloseUnfenced(e) ==
    /\ pc[e] = "closing"
    /\ \E delay \in 0 .. MaxDelay :
          row' = [state |-> IF result[e] = "not_retryable" THEN "needs_evidence" ELSE "waiting",
                  owner |-> e, lease |-> 0, delay |-> delay, held |-> TRUE]
    /\ return(e, "pending")

\* The hold is written for the owner only, and pending is returned in any case.
Close(e) ==
    /\ pc[e] = "closing"
    /\ IF row.owner = e
       THEN \E delay \in 0 .. MaxDelay :
                row' = [state |-> IF result[e] = "not_retryable" THEN "needs_evidence"
                                                                 ELSE "waiting",
                        owner |-> e, lease |-> 0, delay |-> delay, held |-> TRUE]
       ELSE UNCHANGED row
    /\ return(e, "pending")

\* A transaction fails (judgment_state_unavailable): nothing is written.
StateUnavailable(e) ==
    /\ pc[e] \in {"acquiring", "recording", "closing"}
    /\ return(e, "state_unavailable")
    /\ UNCHANGED row

\* The process is killed (of a Hook, its watchdog then answers in its place).
Kill(e) ==
    /\ pc[e] # "idle"
    /\ return(e, "none")
    /\ UNCHANGED row

-------------------------------------------------------------------------------
(* resume(): the worker picks rows that are due, and only then decides *)

\* Mutant: what a killed process left running is nobody's.
SelectWaiting(w) ==
    /\ pc[w] = "idle"
    /\ row.state = "waiting" /\ row.delay = 0
    /\ goto(w, "selected")
    /\ UNCHANGED <<row, locals>>

\* Mutant: only what a killed process left running is taken up.
SelectRunning(w) ==
    /\ pc[w] = "idle"
    /\ row.state = "running" /\ row.lease = 0
    /\ goto(w, "selected")
    /\ UNCHANGED <<row, locals>>

Select(w) ==
    /\ pc[w] = "idle"
    /\ \/ row.state = "waiting" /\ row.delay = 0
       \/ row.state = "running" /\ row.lease = 0
    /\ goto(w, "selected")
    /\ UNCHANGED <<row, locals>>

\* The project is stopped, not configured or no longer enabled.
Skip(w) ==
    /\ pc[w] = "selected"
    /\ goto(w, "idle")
    /\ UNCHANGED <<row, locals>>

Resume(w) == pc[w] = "selected" /\ start(w)

-------------------------------------------------------------------------------

less(n) == IF n = 0 THEN 0 ELSE n - 1

Tick ==
    /\ row.lease > 0 \/ row.delay > 0 \/ \E e \in Evaluators : budget[e] > 0
    /\ row' = [state |-> row.state, owner |-> row.owner, lease |-> less(row.lease),
               delay |-> less(row.delay), held |-> row.held]
    /\ budget' = [e \in Evaluators |-> less(budget[e])]
    /\ UNCHANGED <<pc, result, attempt, answer>>

\* What decide() does by itself.
decideStep(e) ==
    \/ Acquire(e) \/ WaitBudget(e) \/ Judge(e) \/ JudgmentBudget(e)
    \/ RecordComplete(e) \/ RecordIncomplete(e) \/ OwnershipChanged(e) \/ Close(e)

Next ==
    \/ \E h \in Hooks : Deliver(h)
    \/ \E w \in Workers : Select(w) \/ Skip(w) \/ Resume(w)
    \/ \E e \in Evaluators : decideStep(e) \/ StateUnavailable(e) \/ Kill(e)
    \/ Tick

Spec == Init /\ [][Next]_vars

\* Time passes and a decide() call that is not killed goes on.
CallFairness ==
    /\ WF_vars(Tick)
    /\ \A e \in Evaluators : WF_vars(decideStep(e))

FairSpec == Spec /\ CallFairness

\* Workers are started again and again (every Hook invocation starts one, so
\* does "analyze") and the project stays enabled, the processes are not killed
\* for ever, and the host does not deliver the same event for ever.
RecoverySpec ==
    /\ FairSpec
    /\ \A w \in Workers : SF_vars(Select(w)) /\ SF_vars(Resume(w))
    /\ <>[][/\ \A h \in Hooks : ~Deliver(h)
            /\ \A e \in Evaluators : ~Kill(e) /\ ~StateUnavailable(e)]_vars

-------------------------------------------------------------------------------
(* Properties *)

Evaluating(e) == pc[e] \in {"judging", "recording", "closing"}

\* The values of the row and of every evaluator.
TypeOK ==
    /\ row \in Rows
    /\ pc \in [Evaluators -> Pcs]
    /\ budget \in [Evaluators -> 0 .. Budget]
    /\ result \in [Evaluators -> Results]
    /\ attempt \in [Evaluators -> 0 .. MaxAttempts]
    /\ answer \in [Evaluators -> Answers]

\* While an evaluator is within its budget, no other delivery or worker takes
\* the event from it: the judgment is not duplicated in flight, and a late
\* start of the budget (waiting for another delivery) does not matter.
InBudgetOwnsRow ==
    \A e \in Evaluators :
        Evaluating(e) /\ budget[e] > 0 => row.owner = e /\ row.state = "running"

\* A permission is returned only by the evaluator that owns the event at that
\* moment, together with the completion of the row: one whose lease was taken
\* over, or whose transaction failed, answers pending whatever it computed.
PermissionByOwner ==
    [][\A e \in Evaluators :
        answer[e] \notin Permissions /\ answer'[e] \in Permissions
          => row.owner = e /\ row.state = "running" /\ row'.state = "complete"]_vars

\* While a lease is live only its owner's steps change what the row says.
LiveLeaseFenced ==
    [][busy /\ (row'.state # row.state \/ row'.owner # row.owner \/ row'.held # row.held)
         => pc'[row.owner] # pc[row.owner]]_vars

\* Every delivery is answered within its budget and the time of its last step,
\* however long the provider fails and whoever owns the row.
DeliveryAnswered == \A h \in Hooks : pc[h] # "idle" ~> pc[h] = "idle"

\* A judgment that a killed Hook left running, or that is waiting, is taken up
\* again in the background and gets out of that state.
RunningRecovers == row.state = "running" ~> row.state # "running"
WaitingResumes  == row.state = "waiting" ~> row.state # "waiting"
===============================================================================
