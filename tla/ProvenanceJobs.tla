---------------------------- MODULE ProvenanceJobs ----------------------------
(***************************************************************************)
(* The background provenance jobs of one session: the leased queue of      *)
(* engine/jobs.py, drained by the worker and by "analyze run" at the same  *)
(* time, and session_lock() of engine/runtime.py, by which the graph       *)
(* analysis of a waiting Hook goes before the jobs.                        *)
(*                                                                         *)
(* Jobs are numbered in the order of their events.  As in PendingJudgment  *)
(* time is what is left of every interval.                                 *)
(***************************************************************************)
EXTENDS Integers

CONSTANTS
    Jobs,            \* job numbers, in the order of sequence_no
    Drainers,        \* processes that run drain()
    Hooks,           \* Hook processes that analyze the graph of the session
    Nobody,          \* no owner or no holder of the lock
    Lease,           \* lease_until - now at a claim
    Work,            \* budget of one analysis
    Wait,            \* how long a Hook waits for the session lock
    MaxAttempts      \* claims of a job that are not given back

ASSUME ActorAssumption == Drainers \cap Hooks = {} /\ Nobody \notin Drainers \cup Hooks
ASSUME JobAssumption == Jobs \subseteq Nat /\ Jobs # {}
ASSUME IntervalAssumption ==
    Lease \in Nat \ {0} /\ Work \in Nat \ {0} /\ Wait \in Nat \ {0} /\ MaxAttempts \in Nat \ {0}

VARIABLES
    job,             \* the rows of flow_jobs
    lock,            \* holder of the session's flock
    pc,              \* where each drainer is
    current,         \* the job it has claimed
    work,            \* what is left of its budget
    outcome,         \* what it is about to record
    hook,            \* where each Hook is
    waiter,          \* time left in its row of flow_foreground_waiters
    spent            \* history: claims of each job that priority did not end

drainers == <<pc, current, work, outcome>>
hooks == <<hook, waiter>>
vars == <<job, lock, drainers, hooks, spent>>

-------------------------------------------------------------------------------

Settled  == {"done", "failed", "paused"}
Statuses == {"absent", "pending", "running"} \cup Settled
Outcomes == Settled \cup {"budget", "priority"}
Rows == [status: Statuses, owner: Drainers \cup {Nobody}, lease: 0 .. Lease,
         attempts: 0 .. MaxAttempts]

TypeOK ==
    /\ job \in [Jobs -> Rows]
    /\ lock \in Drainers \cup Hooks \cup {Nobody}
    /\ pc \in [Drainers -> {"idle", "claimed", "analyzing", "finishing"}]
    /\ current \in [Drainers -> Jobs] /\ work \in [Drainers -> 0 .. Work]
    /\ outcome \in [Drainers -> Outcomes]
    /\ hook \in [Hooks -> {"idle", "waiting", "holding"}]
    /\ waiter \in [Hooks -> 0 .. Wait]
    /\ spent \in [Jobs -> Int]

AnyJob == CHOOSE j \in Jobs : TRUE

Init ==
    /\ job = [j \in Jobs |-> [status |-> "absent", owner |-> Nobody, lease |-> 0, attempts |-> 0]]
    /\ lock = Nobody
    /\ pc = [d \in Drainers |-> "idle"]
    /\ current = [d \in Drainers |-> AnyJob]
    /\ work = [d \in Drainers |-> 0]
    /\ outcome = [d \in Drainers |-> "done"]
    /\ hook = [h \in Hooks |-> "idle"]
    /\ waiter = [h \in Hooks |-> 0]
    /\ spent = [j \in Jobs |-> 0]

less(n) == IF n = 0 THEN 0 ELSE n - 1

goto(d, label) == pc' = [pc EXCEPT ![d] = label]

\* The drainer forgets its job; current keeps a value of no meaning.
leave(d) ==
    /\ goto(d, "idle")
    /\ current' = [current EXCEPT ![d] = AnyJob]
    /\ work' = [work EXCEPT ![d] = 0]
    /\ outcome' = [outcome EXCEPT ![d] = "done"]

unlock(process) == lock' = IF lock = process THEN Nobody ELSE lock

-------------------------------------------------------------------------------
(* The queue *)

\* enqueue(), by PostToolUse; a job that exists is left as it is.
Enqueue(j) ==
    /\ job[j].status = "absent"
    /\ job' = [job EXCEPT ![j].status = "pending"]
    /\ UNCHANGED <<lock, drainers, hooks, spent>>

expired(j) == job[j].status = "running" /\ job[j].lease = 0

\* Mutant: a job that used up its attempts is left as it is.
neverExhausted(j) == FALSE

exhausted(j) == expired(j) /\ job[j].attempts >= MaxAttempts

claimable == {j \in Jobs : /\ job[j].status = "pending" \/ expired(j)
                           /\ job[j].attempts < MaxAttempts}

\* What a claim leaves of the row of another job.
swept(j) == [job[j] EXCEPT !.status = IF exhausted(j) THEN "failed" ELSE @]

\* claim(): one transaction fails the exhausted jobs and takes the first of
\* those that may be claimed.
ClaimFirst(d, next) ==
    /\ next \in claimable /\ \A k \in claimable : next <= k
    /\ job' = [j \in Jobs |->
            IF j = next THEN [status |-> "running", owner |-> d, lease |-> Lease,
                              attempts |-> job[j].attempts + 1]
                        ELSE swept(j)]
    /\ current' = [current EXCEPT ![d] = next]
    /\ spent' = [spent EXCEPT ![next] = @ + 1]
    /\ goto(d, "claimed")
    /\ UNCHANGED <<work, outcome>>

ClaimNothing ==
    /\ claimable = {} /\ \E j \in Jobs : exhausted(j)
    /\ job' = [j \in Jobs |-> swept(j)]
    /\ UNCHANGED <<drainers, spent>>

Claim(d) ==
    /\ pc[d] = "idle"
    /\ (\E next \in Jobs : ClaimFirst(d, next)) \/ ClaimNothing
    /\ UNCHANGED <<lock, hooks>>

\* Mutant: the job is still running, whoever has claimed it.
stillRunning(d, j) == job[j].status = "running"

\* Mutant: the job is still its own, whatever it has become.
stillOwn(d, j) == job[j].owner = d

\* The update of finish() only applies to the owner of a running job.
owned(d, j) == job[j].owner = d /\ job[j].status = "running"

\* Mutant: an attempt that ran out of its budget is given back, too.
refundsBudget(d) == outcome[d] \in {"priority", "budget"}

\* "pending" gives an attempt back only when a Hook went first.
refunds(d) == outcome[d] = "priority"

Finish(d) ==
    LET j == current[d] IN
    /\ pc[d] = "finishing"
    /\ IF owned(d, j)
       THEN job' = [job EXCEPT ![j] =
                [status |-> IF outcome[d] \in Settled THEN outcome[d] ELSE "pending",
                 owner |-> d, lease |-> 0,
                 attempts |-> IF refunds(d) THEN less(@.attempts) ELSE @.attempts]]
       ELSE UNCHANGED job
    /\ leave(d)
    /\ UNCHANGED <<lock, hooks, spent>>

\* The transaction fails: the job is recorded as failed, if that succeeds.
FinishFails(d) ==
    /\ pc[d] = "finishing" /\ outcome[d] \in {"done", "paused"}
    /\ outcome' = [outcome EXCEPT ![d] = "failed"]
    /\ UNCHANGED <<job, lock, pc, current, work, hooks, spent>>

-------------------------------------------------------------------------------
(* drain(), after a claim *)

\* The session lock is left before the outcome is recorded.
decide(d, value) ==
    /\ outcome' = [outcome EXCEPT ![d] = value]
    /\ goto(d, "finishing")
    /\ unlock(d)
    /\ spent' = IF value = "priority" THEN [spent EXCEPT ![current[d]] = @ - 1] ELSE spent
    /\ UNCHANGED <<job, current, work, hooks>>

\* Background work is disabled, its model has changed or the project is stopped.
Disabled(d) ==
    /\ pc[d] \in {"claimed", "analyzing"}
    /\ decide(d, "paused")

\* session_lock(background=True) does not wait.
LockSession(d) ==
    /\ pc[d] = "claimed"
    /\ IF lock = Nobody
       THEN /\ lock' = d
            /\ work' = [work EXCEPT ![d] = Work]
            /\ goto(d, "analyzing")
            /\ UNCHANGED <<job, current, outcome, hooks, spent>>
       ELSE decide(d, "priority")

\* Before each model call the analysis looks for waiting Hooks and at its budget.
hookWaiting == \E h \in Hooks : waiter[h] > 0

Yield(d) ==
    /\ pc[d] = "analyzing" /\ hookWaiting
    /\ decide(d, "priority")

BudgetEnds(d) ==
    /\ pc[d] = "analyzing" /\ ~hookWaiting /\ work[d] = 0
    /\ decide(d, "budget")

\* The result: complete, unavailable (paused), or an exception.
Analyzed(d) ==
    /\ pc[d] = "analyzing"
    /\ \E value \in Settled : decide(d, value)

CrashDrainer(d) ==
    /\ pc[d] # "idle"
    /\ unlock(d)
    /\ leave(d)
    /\ UNCHANGED <<job, hooks, spent>>

-------------------------------------------------------------------------------
(* session_lock() of a Hook *)

Announce(h) ==
    /\ hook[h] = "idle"
    /\ hook' = [hook EXCEPT ![h] = "waiting"]
    /\ waiter' = [waiter EXCEPT ![h] = Wait]
    /\ UNCHANGED <<job, lock, drainers, spent>>

\* The row is removed as soon as the lock is held.
TakeSession(h) ==
    /\ hook[h] = "waiting" /\ lock = Nobody
    /\ lock' = h
    /\ hook' = [hook EXCEPT ![h] = "holding"]
    /\ waiter' = [waiter EXCEPT ![h] = 0]
    /\ UNCHANGED <<job, drainers, spent>>

\* session_analysis_busy, or the end of the analysis.
LeaveSession(h) ==
    /\ \/ hook[h] = "holding"
       \/ hook[h] = "waiting" /\ waiter[h] = 0
    /\ unlock(h)
    /\ hook' = [hook EXCEPT ![h] = "idle"]
    /\ UNCHANGED <<job, drainers, waiter, spent>>

\* The row of a killed Hook stays until its time is over.
CrashHook(h) ==
    /\ hook[h] # "idle"
    /\ unlock(h)
    /\ hook' = [hook EXCEPT ![h] = "idle"]
    /\ UNCHANGED <<job, drainers, waiter, spent>>

-------------------------------------------------------------------------------

Tick ==
    /\ \/ \E j \in Jobs : job[j].lease > 0
       \/ \E d \in Drainers : work[d] > 0
       \/ hookWaiting
    /\ job' = [j \in Jobs |-> [job[j] EXCEPT !.lease = less(@)]]
    /\ work' = [d \in Drainers |-> less(work[d])]
    /\ waiter' = [h \in Hooks |-> less(waiter[h])]
    /\ UNCHANGED <<lock, pc, current, outcome, hook, spent>>

drainStep(d) ==
    \/ Finish(d) \/ FinishFails(d) \/ Disabled(d) \/ LockSession(d)
    \/ Yield(d) \/ BudgetEnds(d) \/ Analyzed(d)

Next ==
    \/ \E j \in Jobs : Enqueue(j)
    \/ \E d \in Drainers : Claim(d) \/ drainStep(d) \/ CrashDrainer(d)
    \/ \E h \in Hooks : Announce(h) \/ TakeSession(h) \/ LeaveSession(h) \/ CrashHook(h)
    \/ Tick

Spec == Init /\ [][Next]_vars

\* Every Hook starts a worker, so drains keep coming and go on until they are
\* killed, which may happen again and again; Hooks end, and from some time on
\* no other Hook wants the session.
Fairness ==
    /\ WF_vars(Tick)
    /\ \A d \in Drainers : WF_vars(Claim(d)) /\ WF_vars(drainStep(d))
    /\ \A h \in Hooks : WF_vars(LeaveSession(h))
    /\ <>[][\A h \in Hooks : ~Announce(h)]_vars

FairSpec == Spec /\ Fairness

-------------------------------------------------------------------------------
(* Properties *)

\* "Only an interruption by priority reduces the number of attempts of a
\* background job, so that retries do not go on without end"
\* (docs/explicit-outbound-boundary.md:35): whatever drainers are late, killed or
\* overtaken, a job is not started more often than that, the claims that really
\* ended by priority apart, and the row does not say less.
AttemptsBounded ==
    \A j \in Jobs : spent[j] <= job[j].attempts /\ job[j].attempts <= MaxAttempts

\* A job that was settled stays as it is: a drainer that lost its lease does not
\* overwrite the outcome of the one that took over.
SettledIsFinal ==
    [][\A j \in Jobs : job[j].status \in Settled => job'[j].status = job[j].status]_vars

\* While the lease of a running job is live, nobody but its owner takes it out of
\* that state or claims it.
LiveLeaseKept ==
    [][\A j \in Jobs : job[j].status = "running" /\ job[j].lease > 0
        /\ (job'[j].status # "running" \/ job'[j].owner # job[j].owner)
          => pc[job[j].owner] = "finishing" /\ pc'[job[j].owner] = "idle"]_vars

\* A repeated crash leaves no job running for ever (tests/test_jobs.py:161).
RunningEnds == \A j \in Jobs : job[j].status = "running" ~> job[j].status # "running"

\* A job that was enqueued is settled, or it stays pending after its last
\* attempt, which ended by the budget.
JobSettles ==
    \A j \in Jobs : job[j].status = "pending"
        ~> \/ job[j].status \in Settled
           \/ job[j].status = "pending" /\ job[j].attempts = MaxAttempts
===============================================================================
