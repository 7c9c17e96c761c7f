--------------------------- MODULE ReviewCheckpoints ---------------------------
(***************************************************************************)
(* The review of one assessment by a model: engine/review.py, with the     *)
(* evidence that engine/requirements.py acquires for it.                   *)
(*                                                                         *)
(* The earlier calls are divided into batches, and the model is asked      *)
(* about each of them.  It may ask for files; what is found of them is     *)
(* shown to it with the next question and kept with its verdict as a       *)
(* receipt.  A complete verdict is a checkpoint: a later review of the     *)
(* same records takes it when its receipts can be acquired again, and      *)
(* asks otherwise.                                                         *)
(*                                                                         *)
(* Several processes may review the same records, and each of them may be  *)
(* killed at any step, while others edit the files.                        *)
(***************************************************************************)
EXTENDS Naturals

CONSTANTS
    Reviewers,      \* processes that call review() for the same records
    Batches,        \* 1..n, the batches of the earlier calls
    Paths,          \* files that the model may ask for
    OwnReach,       \* those that acquire() admits for the current call
    Reach,          \* those it admits with the earlier calls of each batch
    MaxVersion,     \* bound: contents of a file, 0 when it cannot be read
    MaxRounds,      \* questions in one inspect()
    Nothing         \* no verdict, no failure

Outside  == MaxVersion + 1                  \* the receipt of a path that is not admitted
Values   == 0..Outside
Receipts == UNION {[S -> Values] : S \in SUBSET Paths}
Answers  == [complete: BOOLEAN, receipts: Receipts, basis: Receipts]

ASSUME BatchAssumption ==
    Batches \subseteq Nat \ {0} /\ 1 \in Batches /\ \A b \in Batches : 1..b \subseteq Batches
ASSUME ReachAssumption ==
    OwnReach \subseteq Paths /\ \A b \in Batches : OwnReach \subseteq Reach[b] /\ Reach[b] \subseteq Paths
ASSUME BoundAssumption == MaxVersion \in Nat /\ MaxRounds \in Nat \ {0}
ASSUME NothingAssumption == Nothing \notin Answers

\* Invalid shapes of an answer; only the first is one that review() repairs.
Failures == {"invalid", "completed_with_requests"}

VARIABLES
    file,           \* the files as they are
    parts,          \* graph_review_parts
    at,             \* where each review is
    batch,          \* the batch it is about
    round,          \* its question
    pending,        \* paths still to be acquired
    receipts,       \* what was acquired for this batch
    context,        \* execution_definitions: what the model is shown of it
    shared,         \* evidence_context of the analysis
    failure,        \* validation_failure
    verdict,        \* the verdict on this batch
    union,          \* verdicts on the batches before
    allComplete,    \* the flag of that name
    quiet,          \* no file has changed since the review began
    known           \* batches with a checkpoint then that was current and is there

store == <<file, parts>>
local    == <<batch, round, pending, receipts, context, shared, failure, verdict, union, allComplete>>
ghosts   == <<quiet, known>>
reviewVars == <<store, at, local, ghosts>>

-------------------------------------------------------------------------------
(* Receipts *)

Empty == [p \in {} |-> 0]
with(f, p, v) == [q \in DOMAIN f \cup {p} |-> IF q = p THEN v ELSE f[q]]

\* acquire() for one request.
acquired(reach, p) == IF p \in reach THEN file[p] ELSE Outside
observed(v) == v \in 1..MaxVersion

\* A verdict with its receipts and, for the properties, what the model was shown.
answer(r, complete) == [complete |-> complete, receipts |-> receipts[r], basis |-> context[r]]

ReviewInit ==
    /\ file \in [Paths -> 0..MaxVersion]
    /\ parts = [b \in Batches |-> Nothing]
    /\ at = [r \in Reviewers |-> "idle"]
    /\ batch = [r \in Reviewers |-> 1] /\ round = [r \in Reviewers |-> 1]
    /\ pending = [r \in Reviewers |-> {}]
    /\ receipts = [r \in Reviewers |-> Empty]
    /\ context = [r \in Reviewers |-> Empty]
    /\ shared = [r \in Reviewers |-> Empty]
    /\ failure = [r \in Reviewers |-> Nothing]
    /\ verdict = [r \in Reviewers |-> Nothing]
    /\ union = [r \in Reviewers |-> [b \in Batches |-> Nothing]]
    /\ allComplete = [r \in Reviewers |-> TRUE]
    /\ quiet = [r \in Reviewers |-> TRUE] /\ known = [r \in Reviewers |-> {}]

proceed(r, label) == at' = [at EXCEPT ![r] = label]

-------------------------------------------------------------------------------
(* The world *)

Edit(p, v) ==
    /\ file[p] # v
    /\ file' = [file EXCEPT ![p] = v]
    /\ quiet' = [r \in Reviewers |-> FALSE] /\ known' = [r \in Reviewers |-> {}]
    /\ UNCHANGED <<parts, at, local>>

\* What a review knew is lost with it, when it is killed or raises.
forget(r) ==
    /\ batch' = [batch EXCEPT ![r] = 1] /\ round' = [round EXCEPT ![r] = 1]
    /\ pending' = [pending EXCEPT ![r] = {}]
    /\ receipts' = [receipts EXCEPT ![r] = Empty]
    /\ context' = [context EXCEPT ![r] = Empty]
    /\ failure' = [failure EXCEPT ![r] = Nothing]
    /\ verdict' = [verdict EXCEPT ![r] = Nothing]
    /\ union' = [union EXCEPT ![r] = [b \in Batches |-> Nothing]]
    /\ allComplete' = [allComplete EXCEPT ![r] = TRUE]

watch(r, S) ==
    /\ quiet' = [quiet EXCEPT ![r] = TRUE]
    /\ known' = [known EXCEPT ![r] = S]

Kill(r) ==
    /\ at[r] # "idle"
    /\ proceed(r, "idle")
    /\ forget(r)
    /\ shared' = [shared EXCEPT ![r] = Empty]
    /\ watch(r, {})
    /\ UNCHANGED store

-------------------------------------------------------------------------------
(* review() *)

ended == {"idle", "done", "retry", "failed"}

\* For the properties: checkpoints that rest on files the current call names, as they are.
currentParts ==
    {b \in Batches : /\ parts[b] # Nothing
                     /\ \A p \in DOMAIN parts[b].receipts :
                            p \in OwnReach /\ parts[b].receipts[p] = file[p]}

\* A review that follows another one in the same analysis finds its evidence.
BeginReview(r) ==
    /\ at[r] \in ended
    /\ proceed(r, "lookup")
    /\ forget(r)
    /\ watch(r, currentParts)
    /\ UNCHANGED <<store, shared>>

\* The checkpoint is read once; the one that is verified is this row.
Lookup(r) ==
    LET part == parts[batch[r]] IN
    /\ at[r] = "lookup"
    /\ verdict' = [verdict EXCEPT ![r] = part]
    /\ pending' = [pending EXCEPT ![r] =
            IF part = Nothing THEN DOMAIN shared[r] ELSE DOMAIN part.receipts]
    /\ proceed(r, IF part = Nothing THEN "prepare" ELSE "verify")
    /\ UNCHANGED <<store, batch, round, receipts, context, shared, failure, union, allComplete, ghosts>>

\* Mutant: a path that could not be read is not the same as anything.
sameWhenObserved(r, p) ==
    acquired(OwnReach, p) = verdict[r].receipts[p] /\ observed(acquired(OwnReach, p))

\* reusable() acquires for the current call alone.
same(r, p) == acquired(OwnReach, p) = verdict[r].receipts[p]

Verify(r) ==
    /\ at[r] = "verify"
    /\ IF pending[r] = {}
       THEN proceed(r, "take") /\ UNCHANGED <<pending, verdict>>
       ELSE \E p \in pending[r] :
            IF same(r, p)
            THEN /\ pending' = [pending EXCEPT ![r] = @ \ {p}]
                 /\ UNCHANGED <<at, verdict>>
            ELSE /\ pending' = [pending EXCEPT ![r] = DOMAIN shared[r]]
                 /\ verdict' = [verdict EXCEPT ![r] = Nothing]
                 /\ proceed(r, "prepare")
    /\ UNCHANGED <<store, batch, round, receipts, context, shared, failure, union, allComplete, ghosts>>

-------------------------------------------------------------------------------
(* inspect() *)

show(r) == context' = [context EXCEPT ![r] = receipts[r]]

\* Mutant: shared evidence is taken as it was.
stillSharedAlways(r, p) == TRUE

\* Evidence of an earlier review is checked again, with the records of this one.
stillShared(r, p) == acquired(Reach[batch[r]], p) = shared[r][p] /\ observed(shared[r][p])

Prepare(r) ==
    /\ at[r] = "prepare"
    /\ IF pending[r] = {}
       THEN proceed(r, "ask") /\ show(r) /\ UNCHANGED <<pending, receipts>>
       ELSE \E p \in pending[r] :
            /\ pending' = [pending EXCEPT ![r] = @ \ {p}]
            /\ receipts' = [receipts EXCEPT ![r] =
                    IF stillShared(r, p) THEN with(@, p, shared[r][p]) ELSE @]
            /\ UNCHANGED <<at, context>>
    /\ UNCHANGED <<store, batch, round, shared, failure, verdict, union, allComplete, ghosts>>

after(complete) == IF complete THEN "save" ELSE "take"

\* A verdict that is complete or asks for nothing new ends the inspection.  That an
\* attempt is recorded first (graph_review_attempts) only words the next question.
Conclude(r, complete) ==
    /\ at[r] = "ask"
    /\ verdict' = [verdict EXCEPT ![r] = answer(r, complete)]
    /\ proceed(r, after(complete))
    /\ UNCHANGED <<store, batch, round, pending, receipts, context, shared, failure, union, allComplete, ghosts>>

Request(r, paths) ==
    /\ at[r] = "ask"
    /\ paths # {} /\ paths \cap DOMAIN receipts[r] = {}
    /\ pending' = [pending EXCEPT ![r] = paths]
    /\ proceed(r, "acquire")
    /\ UNCHANGED <<store, batch, round, receipts, context, shared, failure, verdict, union, allComplete, ghosts>>

\* The verdict of the last round is without the evidence it has asked for.
Acquire(r) ==
    LET gathered == pending[r] = {}
        last == round[r] = MaxRounds
    IN
    /\ at[r] = "acquire"
    /\ IF gathered
       THEN /\ show(r)
            /\ proceed(r, IF last THEN after(FALSE) ELSE "ask")
            /\ round' = [round EXCEPT ![r] = IF last THEN @ ELSE @ + 1]
            /\ verdict' = [verdict EXCEPT ![r] = IF last THEN answer(r, FALSE) ELSE @]
            /\ UNCHANGED <<pending, receipts, shared>>
       ELSE /\ \E p \in pending[r] : LET v == acquired(Reach[batch[r]], p) IN
                /\ pending' = [pending EXCEPT ![r] = @ \ {p}]
                /\ receipts' = [receipts EXCEPT ![r] = with(@, p, v)]
                /\ shared' = [shared EXCEPT ![r] = with(@, p, v)]
            /\ UNCHANGED <<at, round, context, verdict>>
    /\ UNCHANGED <<store, batch, failure, union, allComplete, ghosts>>

\* Mutant: a malformed answer is asked for again without counting.
nextRoundFree(r) == UNCHANGED round

nextRound(r) == round' = [round EXCEPT ![r] = @ + 1]

\* A malformed answer is returned with its error once; the same error or the last round
\* ends the inspection, for another attempt (ReviewRetry) where review() knows the error.
Malformed(r, error) ==
    /\ at[r] = "ask"
    /\ IF round[r] = MaxRounds \/ failure[r] = error
       THEN /\ proceed(r, IF error = "invalid" THEN "retry" ELSE "failed")
            /\ forget(r) /\ watch(r, {})
       ELSE /\ nextRound(r)
            /\ failure' = [failure EXCEPT ![r] = error]
            /\ UNCHANGED <<at, batch, pending, receipts, context, verdict, union, allComplete, ghosts>>
    /\ UNCHANGED <<store, shared>>

\* JudgeProviderError, or an exhausted budget: nothing is recorded.
ProviderFails(r) ==
    /\ at[r] = "ask"
    /\ proceed(r, "failed")
    /\ forget(r) /\ watch(r, {})
    /\ UNCHANGED <<store, shared>>

-------------------------------------------------------------------------------
(* review(), after the answer *)

SavePart(r) ==
    /\ at[r] = "save"
    /\ parts' = [parts EXCEPT ![batch[r]] = verdict[r]]
    /\ known' = [q \in Reviewers |-> known[q] \ {batch[r]}]
    /\ proceed(r, "take")
    /\ UNCHANGED <<file, local, quiet>>

\* Mutant: the last batch decides.
completeSoFarLast(r) == verdict[r].complete

completeSoFar(r) == allComplete[r] /\ verdict[r].complete

\* The verdict joins the union, and the next batch begins.
Take(r) ==
    LET more == batch[r] + 1 \in Batches IN
    /\ at[r] = "take"
    /\ union' = [union EXCEPT ![r][batch[r]] = verdict[r]]
    /\ allComplete' = [allComplete EXCEPT ![r] = completeSoFar(r)]
    /\ proceed(r, IF more THEN "lookup" ELSE "done")
    /\ batch' = [batch EXCEPT ![r] = IF more THEN @ + 1 ELSE @]
    /\ round' = [round EXCEPT ![r] = 1]
    /\ receipts' = [receipts EXCEPT ![r] = Empty]
    /\ context' = [context EXCEPT ![r] = Empty]
    /\ failure' = [failure EXCEPT ![r] = Nothing]
    /\ verdict' = [verdict EXCEPT ![r] = Nothing]
    /\ UNCHANGED <<store, pending, shared, ghosts>>

Step(r) ==
    \/ Lookup(r) \/ Verify(r) \/ Prepare(r)
    \/ \E complete \in BOOLEAN : Conclude(r, complete)
    \/ \E paths \in SUBSET Paths : Request(r, paths)
    \/ Acquire(r)
    \/ \E error \in Failures : Malformed(r, error)
    \/ ProviderFails(r)
    \/ SavePart(r) \/ Take(r)

ReviewNext ==
    \/ \E p \in Paths, v \in 0..MaxVersion : Edit(p, v)
    \/ \E r \in Reviewers : BeginReview(r) \/ Kill(r) \/ Step(r)

\* A process that is not killed goes on, and the model answers or times out.
Fairness == \A r \in Reviewers : WF_reviewVars(Step(r))

ReviewSpec == ReviewInit /\ [][ReviewNext]_reviewVars /\ Fairness

-------------------------------------------------------------------------------
(* Properties *)

ReviewTypeOK ==
    /\ file \in [Paths -> 0..MaxVersion]
    /\ parts \in [Batches -> Answers \cup {Nothing}]
    /\ at \in [Reviewers -> {"idle", "lookup", "verify", "prepare", "ask", "acquire", "save",
                             "take", "done", "retry", "failed"}]
    /\ batch \in [Reviewers -> Batches] /\ round \in [Reviewers -> 1..MaxRounds]
    /\ pending \in [Reviewers -> SUBSET Paths]
    /\ receipts \in [Reviewers -> Receipts] /\ context \in [Reviewers -> Receipts]
    /\ shared \in [Reviewers -> Receipts]
    /\ failure \in [Reviewers -> Failures \cup {Nothing}]
    /\ verdict \in [Reviewers -> Answers \cup {Nothing}]
    /\ union \in [Reviewers -> [Batches -> Answers \cup {Nothing}]]
    /\ allComplete \in [Reviewers -> BOOLEAN] /\ quiet \in [Reviewers -> BOOLEAN] /\ known \in [Reviewers -> SUBSET Batches]

answered(v) == v # Nothing /\ v.complete /\ v.receipts = v.basis

\* A complete result rests on a complete answer of the model to every batch, whoever
\* asked for it, and carries the receipts of exactly what the model was shown then:
\* no unread tail and no evidence that was acquired too late becomes part of an allow.
CompleteMeansAnswered ==
    /\ \A b \in Batches : parts[b] # Nothing => answered(parts[b])
    /\ \A r \in Reviewers :
        at[r] = "done" /\ allComplete[r] => \A b \in Batches : answered(union[r][b])

\* Receipts of different times and processes come together in a result, from
\* checkpoints, shared evidence and new requests.  They are the files as they are,
\* unless a file has changed since the review began.
ResultIsCurrent ==
    \A r \in Reviewers :
        at[r] = "done" /\ quiet[r] =>
            \A b \in Batches : \A p \in DOMAIN union[r][b].receipts :
                union[r][b].receipts[p] = acquired(Reach[b], p)

\* The model is not asked again about a batch that was finished before this review began,
\* however the reviews before it have ended, while its checkpoint is there and rests on
\* files that the current call names and that are as they were.
FinishedIsNotAskedAgain ==
    \A r \in Reviewers : at[r] = "ask" /\ quiet[r] => batch[r] \notin known[r]

\* Whatever the model answers, a review ends.
EveryReviewEnds ==
    \A r \in Reviewers : at[r] = "lookup" ~> at[r] \in ended
===============================================================================
