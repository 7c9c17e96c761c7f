------------------------------- MODULE JobsProofs -------------------------------
(***************************************************************************)
(* Proofs about ProvenanceJobs, for any jobs, drainers and Hooks and any   *)
(* lease, budget and limit of attempts.  A claim counts in the row at once *)
(* and is given back in two steps (the decision to yield, the transaction  *)
(* that records it), between which the job may be claimed by others: the   *)
(* invariant keeps one attempt in hand for the owner that still has to     *)
(* give one back.                                                          *)
(*                                                                         *)
(* The session lock is a second subject: who holds it, and that nobody     *)
(* leaves it behind.                                                       *)
(***************************************************************************)
EXTENDS ProvenanceJobs, TLAPS

\* A drainer that is about to give its attempt back, and still owns its job.
Owes(d) == pc[d] = "finishing" /\ outcome[d] = "priority" /\ owned(d, current[d])

InHand == \A d \in Drainers : Owes(d) => spent[current[d]] < job[current[d]].attempts

Inv == TypeOK /\ AttemptsBounded /\ InHand

USE ActorAssumption, JobAssumption, IntervalAssumption
    DEF ActorAssumption, JobAssumption, IntervalAssumption

-------------------------------------------------------------------------------
(* Types *)

LEMMA AnyJobIsAJob == AnyJob \in Jobs
BY DEF AnyJob

LEMMA RowTyped ==
    ASSUME TypeOK, NEW j \in Jobs
    PROVE  job[j] \in Rows /\ swept(j) \in Rows
BY DEF TypeOK, swept, Rows, Statuses, Settled

LEMMA TypeInit == Init => TypeOK
BY AnyJobIsAJob DEF Init, TypeOK, Rows, Statuses, Outcomes, Settled

LEMMA DecideTyped ==
    ASSUME TypeOK, NEW d \in Drainers, NEW value \in Outcomes, decide(d, value)
    PROVE  TypeOK'
<1>1. spent' \in [Jobs -> Int]
  <2>1. current[d] \in Jobs /\ spent \in [Jobs -> Int]
    BY DEF TypeOK
  <2>2. spent[current[d]] \in Int
    BY <2>1
  <2>3. spent[current[d]] - 1 \in Int
    BY <2>2
  <2> QED  BY <2>1, <2>3 DEF decide
<1>2. lock' \in Drainers \cup Hooks \cup {Nobody}
  BY DEF TypeOK, decide, unlock
<1> QED
  BY <1>1, <1>2 DEF TypeOK, decide, goto, hooks

LEMMA LeaveTyped ==
    ASSUME TypeOK, NEW d \in Drainers, leave(d)
    PROVE  /\ pc' \in [Drainers -> {"idle", "claimed", "analyzing", "finishing"}]
           /\ current' \in [Drainers -> Jobs] /\ work' \in [Drainers -> 0 .. Work]
           /\ outcome' \in [Drainers -> Outcomes]
BY AnyJobIsAJob DEF TypeOK, leave, goto, Outcomes, Settled

LEMMA TypeStep == TypeOK /\ [Next]_vars => TypeOK'
<1> SUFFICES ASSUME TypeOK, [Next]_vars PROVE TypeOK'
    OBVIOUS
<1>1. ASSUME NEW j \in Jobs, Enqueue(j) PROVE TypeOK'
  BY <1>1 DEF Enqueue, TypeOK, Rows, Statuses, drainers, hooks
<1>2. ASSUME NEW d \in Drainers, Claim(d) PROVE TypeOK'
  <2>1. ASSUME NEW next \in Jobs, ClaimFirst(d, next) PROVE TypeOK'
    <3>1. [status |-> "running", owner |-> d, lease |-> Lease,
           attempts |-> job[next].attempts + 1] \in Rows
      BY <2>1, RowTyped DEF ClaimFirst, claimable, Rows, Statuses
    <3>2. job' \in [Jobs -> Rows]
      BY <2>1, <3>1, RowTyped DEF ClaimFirst
    <3>3. spent' \in [Jobs -> Int] /\ current' \in [Drainers -> Jobs]
      BY <2>1 DEF ClaimFirst, TypeOK
    <3>4. pc' \in [Drainers -> {"idle", "claimed", "analyzing", "finishing"}]
      BY <2>1 DEF ClaimFirst, goto, TypeOK
    <3> QED  BY <1>2, <2>1, <3>2, <3>3, <3>4 DEF Claim, ClaimFirst, TypeOK, hooks
  <2>2. CASE ClaimNothing
    BY <1>2, <2>2, RowTyped DEF Claim, ClaimNothing, TypeOK, drainers, hooks
  <2> QED  BY <1>2, <2>1, <2>2 DEF Claim
<1>3. ASSUME NEW d \in Drainers, Finish(d) PROVE TypeOK'
  <2>1. current[d] \in Jobs
    BY DEF TypeOK
  <2>2. job' \in [Jobs -> Rows]
    <3>1. CASE owned(d, current[d])
      <4>1. [status |-> IF outcome[d] \in Settled THEN outcome[d] ELSE "pending",
             owner |-> d, lease |-> 0,
             attempts |-> IF refunds(d) THEN less(job[current[d]].attempts)
                          ELSE job[current[d]].attempts] \in Rows
        <5>1. job[current[d]].attempts \in 0 .. MaxAttempts
          BY <2>1, RowTyped DEF Rows
        <5>2. (IF refunds(d) THEN less(job[current[d]].attempts)
               ELSE job[current[d]].attempts) \in 0 .. MaxAttempts
          BY <5>1 DEF less
        <5>3. (IF outcome[d] \in Settled THEN outcome[d] ELSE "pending") \in Statuses
          BY DEF Statuses, Settled
        <5> QED  BY <5>2, <5>3 DEF Rows
      <4> QED  BY <1>3, <2>1, <3>1, <4>1 DEF Finish, TypeOK
    <3> QED  BY <1>3, <3>1 DEF Finish, TypeOK
  <2> QED  BY <1>3, <2>2, LeaveTyped DEF Finish, TypeOK, hooks
<1>4. ASSUME NEW d \in Drainers, FinishFails(d) PROVE TypeOK'
  BY <1>4 DEF FinishFails, TypeOK, Outcomes, Settled, hooks
<1>5. ASSUME NEW d \in Drainers, Disabled(d) \/ Yield(d) \/ BudgetEnds(d) \/ Analyzed(d)
      PROVE  TypeOK'
  BY <1>5, DecideTyped DEF Disabled, Yield, BudgetEnds, Analyzed, Outcomes, Settled
<1>6. ASSUME NEW d \in Drainers, LockSession(d) PROVE TypeOK'
  <2>1. CASE lock = Nobody
    BY <1>6, <2>1 DEF LockSession, TypeOK, goto, hooks
  <2>2. CASE lock # Nobody
    BY <1>6, <2>2, DecideTyped DEF LockSession, Outcomes
  <2> QED  BY <2>1, <2>2
<1>7. ASSUME NEW d \in Drainers, CrashDrainer(d) PROVE TypeOK'
  BY <1>7, LeaveTyped DEF CrashDrainer, TypeOK, unlock, hooks
<1>8. ASSUME NEW h \in Hooks, Announce(h) \/ TakeSession(h) \/ LeaveSession(h) \/ CrashHook(h)
      PROVE  TypeOK'
  BY <1>8 DEF Announce, TakeSession, LeaveSession, CrashHook, TypeOK, unlock, drainers
<1>9. CASE Tick
  <2>1. \A n \in Nat : less(n) \in 0 .. n
    BY DEF less
  <2>2. ASSUME NEW j \in Jobs PROVE [job[j] EXCEPT !.lease = less(@)] \in Rows
    <3>1. job[j] \in Rows /\ less(job[j].lease) \in 0 .. Lease
      BY <2>1 DEF TypeOK, Rows
    <3> QED  BY <3>1 DEF Rows
  <2>3. work' \in [Drainers -> 0 .. Work] /\ waiter' \in [Hooks -> 0 .. Wait]
    BY <1>9, <2>1 DEF Tick, TypeOK
  <2> QED  BY <1>9, <2>2, <2>3 DEF Tick, TypeOK
<1>10. CASE UNCHANGED vars
  BY <1>10 DEF vars, drainers, hooks, TypeOK
<1> QED
  BY <1>1, <1>2, <1>3, <1>4, <1>5, <1>6, <1>7, <1>8, <1>9, <1>10 DEF Next, drainStep

\* Every row, drainer and Hook keeps to its shape: in particular a row never
\* counts more than MaxAttempts attempts.
THEOREM TypeCorrect == Spec => []TypeOK
BY TypeInit, TypeStep, PTL DEF Spec

-------------------------------------------------------------------------------
(* Outcomes and leases *)

\* The outcome of a job is never overwritten, whatever drainers still work on it.
THEOREM OutcomesAreFinal == Spec => SettledIsFinal
<1>1. TypeOK /\ [Next]_vars =>
        [\A j \in Jobs : job[j].status \in Settled => job'[j].status = job[j].status]_vars
  <2> SUFFICES ASSUME TypeOK, Next, NEW j \in Jobs, job[j].status \in Settled
               PROVE  job'[j].status = job[j].status
      OBVIOUS
  <2> USE DEF Settled
  <2>1. ASSUME NEW k \in Jobs, Enqueue(k) PROVE job'[j] = job[j]
    BY <2>1 DEF Enqueue, TypeOK
  <2>2. ASSUME NEW d \in Drainers, Claim(d) PROVE job'[j].status = job[j].status
    <3>1. ~expired(j) /\ ~exhausted(j) /\ j \notin claimable
      BY DEF expired, exhausted, claimable
    <3>2. swept(j).status = job[j].status
      BY <3>1 DEF swept, TypeOK, Rows
    <3> QED  BY <2>2, <3>1, <3>2 DEF Claim, ClaimFirst, ClaimNothing
  <2>3. ASSUME NEW d \in Drainers, Finish(d) PROVE job'[j] = job[j]
    BY <2>3 DEF Finish, owned, TypeOK
  <2>4. ASSUME NEW d \in Drainers,
               FinishFails(d) \/ Disabled(d) \/ LockSession(d) \/ Yield(d) \/ BudgetEnds(d)
                 \/ Analyzed(d) \/ CrashDrainer(d)
        PROVE  job' = job
    BY <2>4 DEF FinishFails, Disabled, LockSession, Yield, BudgetEnds, Analyzed, decide,
                CrashDrainer
  <2>5. ASSUME NEW h \in Hooks,
               Announce(h) \/ TakeSession(h) \/ LeaveSession(h) \/ CrashHook(h)
        PROVE  job' = job
    BY <2>5 DEF Announce, TakeSession, LeaveSession, CrashHook
  <2>6. CASE Tick
    BY <2>6 DEF Tick, TypeOK, Rows
  <2> QED
    BY <2>1, <2>2, <2>3, <2>4, <2>5, <2>6 DEF Next, drainStep
<1> QED
  BY TypeCorrect, <1>1, PTL DEF Spec, SettledIsFinal

\* While a lease is live, only the end of its owner's analysis takes the job from
\* it.
THEOREM LeasesAreKept == Spec => LiveLeaseKept
<1>1. TypeOK /\ [Next]_vars =>
        [\A j \in Jobs : job[j].status = "running" /\ job[j].lease > 0
            /\ (job'[j].status # "running" \/ job'[j].owner # job[j].owner)
              => pc[job[j].owner] = "finishing" /\ pc'[job[j].owner] = "idle"]_vars
  <2> SUFFICES ASSUME TypeOK, Next, NEW j \in Jobs,
                      job[j].status = "running", job[j].lease > 0,
                      job'[j].status # "running" \/ job'[j].owner # job[j].owner
               PROVE  pc[job[j].owner] = "finishing" /\ pc'[job[j].owner] = "idle"
      OBVIOUS
  <2>1. ASSUME NEW k \in Jobs, Enqueue(k) PROVE FALSE
    BY <2>1 DEF Enqueue, TypeOK
  <2>2. ASSUME NEW d \in Drainers, Claim(d) PROVE FALSE
    <3>1. ~expired(j) /\ ~exhausted(j) /\ j \notin claimable
      BY DEF expired, exhausted, claimable
    <3>2. swept(j).status = job[j].status /\ swept(j).owner = job[j].owner
      BY <3>1 DEF swept, TypeOK, Rows
    <3> QED  BY <2>2, <3>1, <3>2 DEF Claim, ClaimFirst, ClaimNothing
  <2>3. ASSUME NEW d \in Drainers, Finish(d)
        PROVE  pc[job[j].owner] = "finishing" /\ pc'[job[j].owner] = "idle"
    <3>1. j = current[d] /\ owned(d, j)
      BY <2>3 DEF Finish, TypeOK
    <3> QED  BY <2>3, <3>1 DEF Finish, owned, leave, goto, TypeOK
  <2>4. ASSUME NEW d \in Drainers,
               FinishFails(d) \/ Disabled(d) \/ LockSession(d) \/ Yield(d) \/ BudgetEnds(d)
                 \/ Analyzed(d) \/ CrashDrainer(d)
        PROVE  FALSE
    BY <2>4 DEF FinishFails, Disabled, LockSession, Yield, BudgetEnds, Analyzed, decide,
                CrashDrainer
  <2>5. ASSUME NEW h \in Hooks,
               Announce(h) \/ TakeSession(h) \/ LeaveSession(h) \/ CrashHook(h)
        PROVE  FALSE
    BY <2>5 DEF Announce, TakeSession, LeaveSession, CrashHook
  <2>6. CASE Tick
    BY <2>6 DEF Tick, TypeOK, Rows
  <2> QED
    BY <2>1, <2>2, <2>3, <2>4, <2>5, <2>6 DEF Next, drainStep
<1> QED
  BY TypeCorrect, <1>1, PTL DEF Spec, LiveLeaseKept

-------------------------------------------------------------------------------
(* Attempts *)

LEMMA AttemptsFrame ==
    ASSUME Inv, UNCHANGED <<job, pc, current, outcome, spent>>
    PROVE  AttemptsBounded' /\ InHand'
BY DEF Inv, AttemptsBounded, InHand, Owes, owned

\* A decision takes the claim from the history; if it is to yield, the attempt it
\* owes is in hand.
LEMMA DecideAttempts ==
    ASSUME Inv, NEW d \in Drainers, NEW value \in Outcomes, decide(d, value)
    PROVE  AttemptsBounded' /\ InHand'
<1>1. /\ job' = job /\ current' = current
      /\ \A j \in Jobs : spent'[j] <= spent[j]
      /\ \A j \in Jobs : spent'[j] \in Int /\ spent[j] \in Int /\ job[j].attempts \in Int
      /\ current[d] \in Jobs
      /\ value = "priority" => spent'[current[d]] = spent[current[d]] - 1
  BY DEF Inv, TypeOK, decide, Rows
<1>2. AttemptsBounded'
  BY <1>1 DEF Inv, AttemptsBounded
<1>3. ASSUME NEW e \in Drainers, Owes(e)'
      PROVE  spent'[current'[e]] < job'[current'[e]].attempts
  <2>1. CASE e = d
    <3>1. value = "priority"
      BY <1>3, <2>1 DEF Owes, decide, Inv, TypeOK
    <3>2. spent[current[d]] <= job[current[d]].attempts
      BY <1>1 DEF Inv, AttemptsBounded
    <3>i. spent[current[d]] \in Int /\ job[current[d]].attempts \in Int
      BY <1>1
    <3>3. spent[current[d]] - 1 < job[current[d]].attempts
      BY <3>2, <3>i
    <3> QED  BY <1>1, <2>1, <3>1, <3>3
  <2>2. CASE e # d
    <3>1. Owes(e)
      BY <1>1, <1>3, <2>2 DEF Owes, owned, decide, goto, Inv, TypeOK
    <3>2. current[e] \in Jobs
      BY DEF Inv, TypeOK
    <3>3. spent[current[e]] < job[current[e]].attempts
      BY <3>1 DEF Inv, InHand
    <3>i. /\ spent[current[e]] \in Int /\ job[current[e]].attempts \in Int
          /\ spent'[current[e]] \in Int /\ spent'[current[e]] <= spent[current[e]]
      BY <1>1, <3>2
    <3>4. spent'[current[e]] < job[current[e]].attempts
      BY <3>3, <3>i
    <3> QED  BY <1>1, <3>4
  <2> QED  BY <2>1, <2>2
<1> QED  BY <1>2, <1>3 DEF InHand

LEMMA SweepKeeps ==
    ASSUME TypeOK, NEW j \in Jobs, job'[j] = swept(j)
    PROVE  /\ job'[j].attempts = job[j].attempts /\ job'[j].owner = job[j].owner
           /\ job'[j].status = "running" => job[j].status = "running"
BY DEF TypeOK, swept, Rows

LEMMA AttemptsStep == Inv /\ [Next]_vars => AttemptsBounded' /\ InHand'
<1> SUFFICES ASSUME Inv, [Next]_vars PROVE AttemptsBounded' /\ InHand'
    OBVIOUS
<1>t. TypeOK /\ AttemptsBounded /\ InHand
  BY DEF Inv
<1>c. /\ \A d \in Drainers : current[d] \in Jobs
      /\ \A j \in Jobs : spent[j] \in Int /\ job[j] \in Rows /\ job[j].attempts \in Nat
  BY <1>t DEF TypeOK, Rows
<1>1. ASSUME NEW j \in Jobs, Enqueue(j) PROVE AttemptsBounded' /\ InHand'
  <2>1. /\ \A k \in Jobs : job'[k].attempts = job[k].attempts /\ job'[k].owner = job[k].owner
        /\ \A k \in Jobs : job'[k].status = "running" => job[k].status = "running"
        /\ UNCHANGED <<pc, current, outcome, spent>>
    BY <1>1, <1>t DEF Enqueue, TypeOK, Rows, drainers
  <2> QED  BY <2>1, <1>t, <1>c DEF AttemptsBounded, InHand, Owes, owned
<1>2. ASSUME NEW d \in Drainers, Claim(d) PROVE AttemptsBounded' /\ InHand'
  <2>1. ASSUME NEW next \in Jobs, ClaimFirst(d, next) PROVE AttemptsBounded' /\ InHand'
    <3>1. /\ job'[next].attempts = job[next].attempts + 1 /\ job'[next].owner = d
          /\ spent'[next] = spent[next] + 1 /\ job[next].attempts < MaxAttempts
      BY <2>1, <1>t DEF ClaimFirst, claimable, TypeOK
    <3>2. ASSUME NEW j \in Jobs \ {next}
          PROVE  /\ spent'[j] = spent[j]
                 /\ job'[j].attempts = job[j].attempts /\ job'[j].owner = job[j].owner
                 /\ job'[j].status = "running" => job[j].status = "running"
      <4>1. job'[j] = swept(j) /\ spent'[j] = spent[j]
        BY <2>1, <1>t DEF ClaimFirst, TypeOK
      <4> QED  BY <4>1, <1>t, SweepKeeps
    <3>3. AttemptsBounded'
      <4>1. spent'[next] <= job'[next].attempts /\ job'[next].attempts <= MaxAttempts
        <5>1. /\ spent[next] \in Int /\ job[next].attempts \in Nat
              /\ spent[next] <= job[next].attempts
          BY <1>t, <1>c DEF AttemptsBounded
        <5>2. /\ spent[next] + 1 <= job[next].attempts + 1
              /\ job[next].attempts + 1 <= MaxAttempts
          BY <5>1, <3>1
        <5> QED  BY <5>2, <3>1
      <4> QED  BY <3>2, <4>1, <1>t DEF AttemptsBounded
    <3>4. ASSUME NEW e \in Drainers, Owes(e)'
          PROVE  spent'[current'[e]] < job'[current'[e]].attempts
      <4>1. e # d /\ current'[e] = current[e] /\ pc[e] = "finishing" /\ outcome' = outcome
        BY <2>1, <3>4, <1>t DEF Owes, ClaimFirst, goto, TypeOK
      <4>2. current[e] # next
        BY <3>1, <3>4, <4>1 DEF Owes, owned
      <4>3. Owes(e)
        BY <3>2, <3>4, <4>1, <4>2, <1>c DEF Owes, owned
      <4> QED  BY <3>2, <4>1, <4>2, <4>3, <1>t, <1>c DEF InHand
    <3> QED  BY <3>3, <3>4 DEF InHand
  <2>2. CASE ClaimNothing
    <3>1. ASSUME NEW j \in Jobs
          PROVE  /\ job'[j].attempts = job[j].attempts /\ job'[j].owner = job[j].owner
                 /\ job'[j].status = "running" => job[j].status = "running"
      <4>1. job'[j] = swept(j)
        BY <2>2 DEF ClaimNothing
      <4> QED  BY <4>1, <1>t, SweepKeeps
    <3>2. UNCHANGED <<pc, current, outcome, spent>>
      BY <2>2 DEF ClaimNothing, drainers
    <3> QED  BY <3>1, <3>2, <1>t, <1>c DEF AttemptsBounded, InHand, Owes, owned
  <2> QED  BY <1>2, <2>1, <2>2 DEF Claim
<1>3. ASSUME NEW d \in Drainers, Finish(d) PROVE AttemptsBounded' /\ InHand'
  <2>1. UNCHANGED spent /\ pc[d] = "finishing" /\ leave(d)
    BY <1>3 DEF Finish
  <2>2. ASSUME NEW e \in Drainers, Owes(e)'
        PROVE  e # d /\ current'[e] = current[e] /\ pc[e] = "finishing" /\ outcome[e] = "priority"
    BY <2>1, <2>2, <1>t DEF Owes, leave, goto, TypeOK
  <2>3. CASE owned(d, current[d])
    <3>1. /\ \A j \in Jobs \ {current[d]} : job'[j] = job[j]
          /\ job'[current[d]].status # "running"
          /\ job'[current[d]].attempts =
                IF refunds(d) THEN less(job[current[d]].attempts) ELSE job[current[d]].attempts
      BY <1>3, <2>3, <1>t, <1>c DEF Finish, TypeOK, Settled
    <3>2. refunds(d) => spent[current[d]] < job[current[d]].attempts
      BY <2>1, <2>3, <1>t DEF InHand, Owes, refunds
    <3>3. AttemptsBounded'
      BY <2>1, <3>1, <3>2, <1>t, <1>c DEF AttemptsBounded, less
    <3>4. ASSUME NEW e \in Drainers, Owes(e)'
          PROVE  spent'[current'[e]] < job'[current'[e]].attempts
      <4>1. current[e] # current[d]
        BY <2>2, <3>1, <3>4 DEF Owes, owned
      <4>2. Owes(e)
        BY <2>2, <3>1, <3>4, <4>1, <1>c DEF Owes, owned
      <4> QED  BY <2>1, <2>2, <3>1, <3>4, <4>1, <4>2, <1>t, <1>c DEF InHand
    <3> QED  BY <3>3, <3>4 DEF InHand
  <2>4. CASE ~owned(d, current[d])
    <3>1. job' = job
      BY <1>3, <2>4 DEF Finish
    <3>2. AttemptsBounded'
      BY <2>1, <3>1, <1>t DEF AttemptsBounded
    <3>3. ASSUME NEW e \in Drainers, Owes(e)' PROVE Owes(e)
      BY <2>2, <3>1, <3>3 DEF Owes, owned
    <3> QED  BY <2>1, <2>2, <3>1, <3>2, <3>3, <1>t DEF InHand
  <2> QED  BY <2>3, <2>4
<1>4. ASSUME NEW d \in Drainers, FinishFails(d) PROVE AttemptsBounded' /\ InHand'
  <2>1. UNCHANGED <<job, spent, pc, current>>
    BY <1>4 DEF FinishFails
  <2>2. \A e \in Drainers : outcome'[e] = "priority" => outcome[e] = "priority"
    BY <1>4, <1>t DEF FinishFails, TypeOK
  <2> QED  BY <2>1, <2>2, <1>t DEF AttemptsBounded, InHand, Owes, owned
<1>5. ASSUME NEW d \in Drainers, Disabled(d) \/ Yield(d) \/ BudgetEnds(d) \/ Analyzed(d)
      PROVE  AttemptsBounded' /\ InHand'
  BY <1>5, DecideAttempts DEF Disabled, Yield, BudgetEnds, Analyzed, Outcomes, Settled
<1>6. ASSUME NEW d \in Drainers, LockSession(d) PROVE AttemptsBounded' /\ InHand'
  <2>1. CASE lock = Nobody
    <3>1. UNCHANGED <<job, spent, current, outcome>>
      BY <1>6, <2>1 DEF LockSession
    <3>2. \A e \in Drainers : pc'[e] = "finishing" => pc[e] = "finishing"
      BY <1>6, <2>1, <1>t DEF LockSession, goto, TypeOK
    <3> QED  BY <3>1, <3>2, <1>t DEF AttemptsBounded, InHand, Owes, owned
  <2>2. CASE lock # Nobody
    BY <1>6, <2>2, DecideAttempts DEF LockSession, Outcomes
  <2> QED  BY <2>1, <2>2
<1>7. ASSUME NEW d \in Drainers, CrashDrainer(d) PROVE AttemptsBounded' /\ InHand'
  <2>1. UNCHANGED <<job, spent>> /\ leave(d)
    BY <1>7 DEF CrashDrainer
  <2>2. ASSUME NEW e \in Drainers, Owes(e)' PROVE Owes(e) /\ current'[e] = current[e]
    BY <2>1, <2>2, <1>t DEF Owes, owned, leave, goto, TypeOK
  <2> QED  BY <2>1, <2>2, <1>t DEF AttemptsBounded, InHand
<1>8. ASSUME NEW h \in Hooks, Announce(h) \/ TakeSession(h) \/ LeaveSession(h) \/ CrashHook(h)
      PROVE  AttemptsBounded' /\ InHand'
  BY <1>8, AttemptsFrame DEF Announce, TakeSession, LeaveSession, CrashHook, drainers
<1>9. CASE Tick
  <2>1. /\ \A k \in Jobs : /\ job'[k].attempts = job[k].attempts
                           /\ job'[k].owner = job[k].owner /\ job'[k].status = job[k].status
        /\ UNCHANGED <<pc, current, outcome, spent>>
    BY <1>9, <1>c DEF Tick, Rows
  <2> QED  BY <2>1, <1>t, <1>c DEF AttemptsBounded, InHand, Owes, owned
<1>10. CASE UNCHANGED vars
  BY <1>10, AttemptsFrame DEF vars, drainers
<1> QED
  BY <1>1, <1>2, <1>3, <1>4, <1>5, <1>6, <1>7, <1>8, <1>9, <1>10 DEF Next, drainStep

\* However late, killed or overtaken its drainers are, a job is not claimed more
\* than MaxAttempts times, the claims that ended by priority apart.
THEOREM AttemptsAreBounded == Spec => []AttemptsBounded
<1>1. Init => Inv
  <2> SUFFICES ASSUME Init PROVE Inv
      OBVIOUS
  <2>1. AttemptsBounded /\ InHand
    BY DEF Init, AttemptsBounded, InHand, Owes
  <2> QED  BY <2>1, TypeInit DEF Inv
<1>2. Inv /\ [Next]_vars => Inv'
  BY TypeStep, AttemptsStep DEF Inv
<1>3. Inv => AttemptsBounded
  BY DEF Inv
<1> QED  BY <1>1, <1>2, <1>3, PTL DEF Spec

-------------------------------------------------------------------------------
(* The session lock *)

\* The session is locked exactly while a drainer analyzes one of its jobs or a Hook holds
\* it: background work never runs beside the graph analysis of a Hook or of another
\* drainer, and nobody who ends, yields or is killed leaves the lock behind.
LockMatchesWork ==
    /\ \A d \in Drainers : lock = d <=> pc[d] = "analyzing"
    /\ \A h \in Hooks : lock = h <=> hook[h] = "holding"

LEMMA LockStep == TypeOK /\ LockMatchesWork /\ [Next]_vars => LockMatchesWork'
<1> SUFFICES ASSUME TypeOK, LockMatchesWork, [Next]_vars PROVE LockMatchesWork'
  OBVIOUS
<1>1. ASSUME NEW d \in Drainers, unlock(d), hook' = hook,
             pc' \in {[pc EXCEPT ![d] = "finishing"], [pc EXCEPT ![d] = "idle"]}
      PROVE  LockMatchesWork'
  BY <1>1 DEF unlock, LockMatchesWork, TypeOK
<1>2. ASSUME NEW d \in Drainers, NEW value, decide(d, value) PROVE LockMatchesWork'
  BY <1>1, <1>2 DEF decide, goto, hooks
<1>3. ASSUME UNCHANGED <<lock, pc, hook>> PROVE LockMatchesWork'
  BY <1>3 DEF LockMatchesWork
<1>4. ASSUME NEW d \in Drainers, Claim(d) PROVE LockMatchesWork'
  <2>1. UNCHANGED <<lock, hook>> /\ pc[d] = "idle"
        /\ pc' \in {pc, [pc EXCEPT ![d] = "claimed"]}
    BY <1>4 DEF Claim, ClaimFirst, ClaimNothing, goto, drainers, hooks
  <2> QED  BY <2>1 DEF LockMatchesWork, TypeOK
<1>5. ASSUME NEW d \in Drainers, LockSession(d) PROVE LockMatchesWork'
  <2>1. CASE lock = Nobody
    BY <1>5, <2>1 DEF LockSession, goto, hooks, LockMatchesWork, TypeOK
  <2>2. CASE lock # Nobody
    BY <1>2, <1>5, <2>2 DEF LockSession
  <2> QED  BY <2>1, <2>2
<1>6. ASSUME NEW d \in Drainers, Finish(d) PROVE LockMatchesWork'
  BY <1>6 DEF Finish, leave, goto, hooks, LockMatchesWork, TypeOK
<1>7. ASSUME NEW d \in Drainers, FinishFails(d) PROVE LockMatchesWork'
  BY <1>3, <1>7 DEF FinishFails, hooks
<1>8. ASSUME NEW d \in Drainers, Disabled(d) \/ Yield(d) \/ BudgetEnds(d) \/ Analyzed(d)
      PROVE  LockMatchesWork'
  BY <1>2, <1>8 DEF Disabled, Yield, BudgetEnds, Analyzed
<1>9. ASSUME NEW d \in Drainers, CrashDrainer(d) PROVE LockMatchesWork'
  BY <1>1, <1>9 DEF CrashDrainer, leave, goto, hooks
<1>10. ASSUME NEW h \in Hooks, Announce(h) \/ LeaveSession(h) \/ CrashHook(h)
       PROVE  LockMatchesWork'
  BY <1>10 DEF Announce, LeaveSession, CrashHook, unlock, drainers, LockMatchesWork, TypeOK
<1>11. ASSUME NEW h \in Hooks, TakeSession(h) PROVE LockMatchesWork'
  BY <1>11 DEF TakeSession, drainers, LockMatchesWork, TypeOK
<1>12. CASE (\E j \in Jobs : Enqueue(j)) \/ Tick \/ UNCHANGED vars
  BY <1>3, <1>12 DEF Enqueue, Tick, vars, drainers, hooks
<1> QED
  BY <1>4, <1>5, <1>6, <1>7, <1>8, <1>9, <1>10, <1>11, <1>12 DEF Next, drainStep

\* The session lock keeps background work apart from Hooks and from itself.
THEOREM SessionIsExclusive == Spec => []LockMatchesWork
<1>1. Init => LockMatchesWork
  BY DEF Init, LockMatchesWork
<1> QED  BY <1>1, TypeInit, TypeStep, LockStep, PTL DEF Spec
===============================================================================
