----------------------------- MODULE PendingProofs -----------------------------
(***************************************************************************)
(* Proofs about PendingJudgment, for any Hooks and workers and any budget, *)
(* lease and limits with Budget <= Lease.  The invariant says who owns the *)
(* row: an evaluator within its budget still has a lease that is at least  *)
(* as long, so nobody can take the row, and one that owns the row without  *)
(* having closed it finds it running.                                      *)
(***************************************************************************)
EXTENDS PendingJudgment, TLAPS

Owned ==
    /\ \A e \in Evaluators : Evaluating(e) /\ budget[e] > 0 =>
            row.owner = e /\ row.state = "running" /\ row.lease >= budget[e]
    /\ \A e \in Evaluators : Evaluating(e) /\ row.owner = e => row.state = "running"
    /\ row.state = "running" => row.owner \in Evaluators

Inv == TypeOK /\ Owned

USE EvaluatorAssumption, TimeAssumption, AttemptAssumption
    DEF EvaluatorAssumption, TimeAssumption, AttemptAssumption

-------------------------------------------------------------------------------
(* Types *)

LEMMA TypeInit == Init => TypeOK
BY DEF Init, TypeOK, Rows, RowStates, Pcs, Results, Answers

LEMMA ReturnTyped ==
    ASSUME TypeOK, NEW e \in Evaluators, NEW value \in Answers, return(e, value), row' \in Rows
    PROVE  TypeOK'
BY DEF TypeOK, return, goto, Pcs, Results

LEMMA StartTyped ==
    ASSUME TypeOK, NEW e \in Evaluators, start(e)
    PROVE  TypeOK'
BY DEF TypeOK, start, goto, Pcs, Answers

LEMMA TypeStep == TypeOK /\ [Next]_vars => TypeOK'
<1> SUFFICES ASSUME TypeOK, [Next]_vars PROVE TypeOK'
    OBVIOUS
<1>r. /\ row \in Rows
      /\ \A s \in RowStates : [row EXCEPT !.state = s] \in Rows
  BY DEF TypeOK, Rows
<1>1. ASSUME NEW h \in Hooks, Deliver(h) PROVE TypeOK'
  BY <1>1, StartTyped DEF Deliver, Evaluators
<1>2. ASSUME NEW w \in Workers, Select(w) \/ Skip(w) \/ Resume(w) PROVE TypeOK'
  <2>1. CASE Select(w) \/ Skip(w)
    BY <2>1 DEF Select, Skip, TypeOK, goto, locals, Pcs, Evaluators
  <2>2. CASE Resume(w)
    BY <2>2, StartTyped DEF Resume, Evaluators
  <2> QED  BY <1>2, <2>1, <2>2
<1>3. ASSUME NEW e \in Evaluators, decideStep(e) PROVE TypeOK'
  <2>1. CASE Acquire(e)
    <3>1. row' \in Rows
      BY <2>1, <1>r DEF Acquire, Rows, RowStates
    <3> QED  BY <2>1, <3>1 DEF Acquire, TypeOK, goto, locals, Pcs
  <2>2. CASE WaitBudget(e)
    BY <2>2, <1>r, ReturnTyped DEF WaitBudget, Answers
  <2>3. CASE Judge(e)
    BY <2>3 DEF Judge, TypeOK, goto, Pcs
  <2>4. CASE JudgmentBudget(e)
    BY <2>4 DEF JudgmentBudget, TypeOK, goto, locals, Pcs
  <2>5. CASE RecordComplete(e)
    BY <2>5, <1>r, ReturnTyped DEF RecordComplete, Answers, RowStates
  <2>6. CASE RecordIncomplete(e)
    <3>1. row' \in Rows
      BY <2>6, <1>r DEF RecordIncomplete, RowStates
    <3>2. pc' \in [Evaluators -> Pcs]
      BY <2>6 DEF RecordIncomplete, TypeOK, goto, Pcs
    <3>3. attempt' \in [Evaluators -> 0 .. MaxAttempts]
      BY <2>6 DEF RecordIncomplete, TypeOK
    <3> QED  BY <2>6, <3>1, <3>2, <3>3 DEF RecordIncomplete, TypeOK
  <2>7. CASE OwnershipChanged(e)
    BY <2>7, <1>r, ReturnTyped DEF OwnershipChanged, Answers
  <2>8. CASE Close(e)
    <3>1. row' \in Rows
      <4>1. CASE row.owner = e
        <5>1. PICK delay \in 0 .. MaxDelay, s \in {"needs_evidence", "waiting"} :
                  row' = [state |-> s, owner |-> e, lease |-> 0, delay |-> delay, held |-> TRUE]
          BY <2>8, <4>1 DEF Close
        <5> QED  BY <5>1 DEF Rows, RowStates
      <4>2. CASE row.owner # e
        BY <2>8, <4>2, <1>r DEF Close
      <4> QED  BY <4>1, <4>2
    <3> QED  BY <2>8, <3>1, ReturnTyped DEF Close, Answers
  <2> QED
    BY <1>3, <2>1, <2>2, <2>3, <2>4, <2>5, <2>6, <2>7, <2>8 DEF decideStep
<1>4. ASSUME NEW e \in Evaluators, StateUnavailable(e) \/ Kill(e) PROVE TypeOK'
  BY <1>4, <1>r, ReturnTyped DEF StateUnavailable, Kill, Answers
<1>5. CASE Tick
  <2>1. \A n \in Nat : less(n) \in 0 .. n
    BY DEF less
  <2>2. row' \in Rows
    BY <1>5, <1>r, <2>1 DEF Tick, Rows
  <2>3. budget' \in [Evaluators -> 0 .. Budget]
    BY <1>5, <2>1 DEF Tick, TypeOK
  <2> QED  BY <1>5, <2>2, <2>3 DEF Tick, TypeOK
<1>6. CASE UNCHANGED vars
  BY <1>6 DEF vars, locals, TypeOK
<1> QED  BY <1>1, <1>2, <1>3, <1>4, <1>5, <1>6 DEF Next

\* The row and the variables of every call keep to their values.
THEOREM TypeCorrect == Spec => []TypeOK
BY TypeInit, TypeStep, PTL DEF Spec

-------------------------------------------------------------------------------
(* Ownership *)

LEMMA OwnedInit == Init => Owned
BY DEF Init, Owned, Evaluating

\* A call that has returned owns nothing; the others see no difference if the
\* row did not change.
LEMMA ReturnOwned ==
    ASSUME Inv, NEW e \in Evaluators, NEW value, return(e, value), UNCHANGED row
    PROVE  Owned'
BY DEF Inv, TypeOK, Owned, return, goto, Evaluating

LEMMA StartOwned ==
    ASSUME Inv, NEW e \in Evaluators, pc[e] \in {"idle", "selected"}, start(e)
    PROVE  Owned'
BY DEF Inv, TypeOK, Owned, start, goto, Evaluating

\* If the owner returns, no other evaluator is within its budget.
LEMMA OwnerReturns ==
    ASSUME Inv, NEW e \in Evaluators, row.owner = e, NEW value, return(e, value),
           row'.owner = e, row'.state # "running"
    PROVE  Owned'
BY DEF Inv, TypeOK, Owned, return, goto, Evaluating

LEMMA OwnedStep == Inv /\ [Next]_vars => Owned'
<1> SUFFICES ASSUME Inv, [Next]_vars PROVE Owned'
    OBVIOUS
<1>t. /\ pc \in [Evaluators -> Pcs] /\ budget \in [Evaluators -> 0 .. Budget]
      /\ row \in Rows /\ row.lease \in Nat
  BY DEF Inv, TypeOK, Rows
<1>1. ASSUME NEW h \in Hooks, Deliver(h) PROVE Owned'
  BY <1>1, StartOwned DEF Deliver, Evaluators
<1>2. ASSUME NEW w \in Workers, Select(w) \/ Skip(w) \/ Resume(w) PROVE Owned'
  <2>1. CASE Select(w) \/ Skip(w)
    BY <1>t, <2>1 DEF Select, Skip, Inv, Owned, goto, locals, Evaluating, Evaluators
  <2>2. CASE Resume(w)
    BY <2>2, StartOwned DEF Resume, Evaluators
  <2> QED  BY <1>2, <2>1, <2>2
<1>3. ASSUME NEW e \in Evaluators, decideStep(e) PROVE Owned'
  <2>1. CASE Acquire(e)
    <3>1. \A f \in Evaluators : ~(Evaluating(f) /\ budget[f] > 0)
      BY <1>t, <2>1 DEF Acquire, busy, Inv, Owned
    <3>2. /\ row'.owner = e /\ row'.state = "running" /\ row'.lease = Lease
          /\ UNCHANGED budget
          /\ pc' = [pc EXCEPT ![e] = "judging"]
      BY <1>t, <2>1 DEF Acquire, goto, locals, Rows
    <3>3. \A f \in Evaluators \ {e} : Evaluating(f)' = Evaluating(f)
      BY <1>t, <3>2 DEF Evaluating
    <3>4. budget[e] <= Lease
      BY <1>t
    <3> QED  BY <3>1, <3>2, <3>3, <3>4 DEF Owned
  <2>2. CASE WaitBudget(e)
    BY <2>2, ReturnOwned DEF WaitBudget
  <2>3. CASE Judge(e) \/ JudgmentBudget(e)
    BY <1>t, <2>3 DEF Judge, JudgmentBudget, Inv, Owned, goto, locals, Evaluating
  <2>4. CASE RecordComplete(e)
    <3>1. row'.owner = e /\ row'.state = "complete"
      BY <1>t, <2>4 DEF RecordComplete, Rows
    <3> QED  BY <2>4, <3>1, OwnerReturns DEF RecordComplete
  <2>5. CASE RecordIncomplete(e)
    <3>1. UNCHANGED row
      BY <1>t, <2>5 DEF RecordIncomplete, Inv, Owned, Evaluating, Rows
    <3>2. \A f \in Evaluators : Evaluating(f)' = Evaluating(f)
      BY <1>t, <2>5 DEF RecordIncomplete, goto, Evaluating
    <3> QED  BY <2>5, <3>1, <3>2 DEF RecordIncomplete, Inv, Owned
  <2>6. CASE OwnershipChanged(e)
    BY <2>6, ReturnOwned DEF OwnershipChanged
  <2>7. CASE Close(e)
    <3>1. CASE row.owner = e
      <4>1. row'.owner = e /\ row'.state # "running"
        BY <1>t, <2>7, <3>1 DEF Close, Rows
      <4> QED  BY <2>7, <3>1, <4>1, OwnerReturns DEF Close
    <3>2. CASE row.owner # e
      BY <2>7, <3>2, ReturnOwned DEF Close
    <3> QED  BY <3>1, <3>2
  <2> QED
    BY <1>3, <2>1, <2>2, <2>3, <2>4, <2>5, <2>6, <2>7 DEF decideStep
<1>4. ASSUME NEW e \in Evaluators, StateUnavailable(e) \/ Kill(e) PROVE Owned'
  BY <1>4, ReturnOwned DEF StateUnavailable, Kill
<1>5. CASE Tick
  <2>1. /\ row'.owner = row.owner /\ row'.state = row.state /\ row'.lease = less(row.lease)
        /\ UNCHANGED pc /\ \A e \in Evaluators : budget'[e] = less(budget[e])
    BY <1>t, <1>5 DEF Tick, Rows
  <2> QED  BY <1>t, <2>1 DEF Inv, Owned, Evaluating, less
<1>6. CASE UNCHANGED vars
  BY <1>6 DEF vars, locals, Inv, Owned, Evaluating
<1> QED  BY <1>1, <1>2, <1>3, <1>4, <1>5, <1>6 DEF Next

LEMMA Invariance == Spec => []Inv
<1>1. Init => Inv
  BY TypeInit, OwnedInit DEF Inv
<1>2. Inv /\ [Next]_vars => Inv'
  BY TypeStep, OwnedStep DEF Inv
<1> QED  BY <1>1, <1>2, PTL DEF Spec

\* An evaluator within its budget is not overtaken, because Budget <= Lease.
THEOREM BudgetWithinLease == Spec => []InBudgetOwnsRow
<1>1. Inv => InBudgetOwnsRow
  BY DEF Inv, Owned, InBudgetOwnsRow
<1> QED  BY <1>1, Invariance, PTL

-------------------------------------------------------------------------------
(* What a step may do *)

\* A permission is returned by the owner of the row only, with its completion.
THEOREM PermissionNeedsOwner == Spec => PermissionByOwner
<1> DEFINE Permits(e) == answer[e] \notin Permissions /\ answer'[e] \in Permissions
           Completes(e) == row.owner = e /\ row.state = "running" /\ row'.state = "complete"
<1>1. Inv /\ [Next]_vars => \A e \in Evaluators : Permits(e) => Completes(e)
  <2> SUFFICES ASSUME Inv, [Next]_vars, NEW e \in Evaluators, Permits(e)
               PROVE  Completes(e)
      OBVIOUS
  <2>t. answer \in [Evaluators -> Answers] /\ row \in Rows
    BY DEF Inv, TypeOK
  <2>1. ASSUME NEW f \in Evaluators, start(f) PROVE FALSE
    BY <2>t, <2>1 DEF start, Permissions
  <2>2. ASSUME NEW f \in Evaluators, NEW value \in {"pending", "state_unavailable", "none"},
               return(f, value)
        PROVE  FALSE
    BY <2>t, <2>2 DEF return, Permissions
  <2>3. ASSUME NEW f \in Evaluators, RecordComplete(f) PROVE Completes(e)
    <3>1. f = e
      BY <2>t, <2>3 DEF RecordComplete, return
    <3> QED  BY <2>t, <2>3, <3>1 DEF RecordComplete, Inv, Owned, Evaluating, Rows
  <2>4. CASE UNCHANGED answer
    BY <2>4
  <2> QED
    BY <2>1, <2>2, <2>3, <2>4
    DEF Next, Deliver, Select, Skip, Resume, decideStep, Acquire, WaitBudget, Judge,
        JudgmentBudget, RecordIncomplete, OwnershipChanged, Close, StateUnavailable,
        Kill, Tick, vars, locals, Evaluators
<1> QED  BY <1>1, Invariance, PTL DEF Spec, PermissionByOwner

\* While a lease is live, the row changes only by a step of its owner.
THEOREM LeaseIsRespected == Spec => LiveLeaseFenced
<1> DEFINE Changed == row'.state # row.state \/ row'.owner # row.owner \/ row'.held # row.held
           OwnerMoves == pc'[row.owner] # pc[row.owner]
<1>1. Inv /\ [Next]_vars => (busy /\ Changed => OwnerMoves)
  <2> SUFFICES ASSUME Inv, [Next]_vars, busy, Changed PROVE OwnerMoves
      OBVIOUS
  <2>t. /\ pc \in [Evaluators -> Pcs] /\ row \in Rows
        /\ row.owner \in Evaluators
    BY DEF Inv, TypeOK, Owned, busy
  <2>1. ASSUME NEW e \in Evaluators, RecordComplete(e) \/ RecordIncomplete(e) \/ Close(e)
        PROVE  OwnerMoves
    <3>1. CASE RecordComplete(e)
      BY <2>t, <3>1 DEF RecordComplete, return, goto
    <3>2. CASE RecordIncomplete(e)
      BY <2>t, <3>2 DEF RecordIncomplete, goto
    <3>3. CASE Close(e)
      BY <2>t, <3>3 DEF Close, return, goto
    <3> QED  BY <2>1, <3>1, <3>2, <3>3
  <2>2. CASE Tick
    BY <2>t, <2>2 DEF Tick, Rows
  <2>3. CASE UNCHANGED row
    BY <2>3
  <2> QED
    BY <2>1, <2>2, <2>3
    DEF Next, Deliver, start, Select, Skip, Resume, decideStep, Acquire, WaitBudget, Judge,
        JudgmentBudget, OwnershipChanged, StateUnavailable, Kill, vars
<1> QED  BY <1>1, Invariance, PTL DEF Spec, LiveLeaseFenced
===============================================================================
