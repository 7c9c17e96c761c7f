# ToolUseProxy in TLA+

ToolUseProxy stands between a coding agent and its tools. The host starts a
short-lived Hook process before every tool call (PreToolUse) and after it
(PostToolUse). The Hook records the call in a SQLite journal, decides whether
the call sends anything outside that comes from a protected file, and answers
`allow`, `deny` or an incomplete judgment. Background workers analyze completed
calls. An administrator can switch the protection of a project on and off from a
process of another user, and a setup command enables projects.

Nothing here is one long-running program: all coordination goes through files,
`flock`, and short SQLite transactions between processes that may be killed at
any instruction. That coordination is what these modules model. Paths below are
relative to `src/`; `tooluseproxy/engine/` is abbreviated to `engine/`.

## Contents

1. [The system](#1-the-system)
2. [Modules](#2-modules)
3. [Runs](#3-runs)
4. [Fairness](#4-fairness)
5. [Proofs](#5-proofs)
6. [Findings](#6-findings)
7. [What is not modelled](#7-what-is-not-modelled)
8. [Plan](#8-plan)

To repeat the checks: `tlc -config X.cfg M` for the pairs of section 3, and
`tlapm M.tla` for the eight `*Proofs` modules. `PROJECT.json` relates every
definition to the lines it models, every property to a plausible bug (a
mutant, kept beside the definition it changes) that breaks it, and every hazard
to the properties that cover it.

## 1. The system

| Component | State it keeps | Operations | Hard behaviour |
|---|---|---|---|
| **Administrator lifecycle** `tooluseproxy/authority_state.py`, `authority_admin.py` | one state file per project (phase, generation, pending and last operation); `.lease` and `.admin` lock files | `lease`, `_review`, `transition` (activate, deactivate, finish) | the file is read without a lock before it is read under one; a stop is published in two steps and only completes when no lease is held; a call may be lost after it was applied and be repeated with the same operation id |
| **Authority leases** `tooluseproxy/integrations/authority.py` | the shared lock, held for one invocation | run a Hook or worker under the lease | a Hook that read "active" may get its lock after a stop |
| **Pending judgments** `engine/pending.py` | one row of `pending_judgments` per event: status, owner, `lease_until`, `retry_at`, attempts, last result | `decide`, `resume` | deliveries of one event and the worker compete; the owner may be killed or overtaken while the model thinks; every write is fenced by owner and lease |
| **Background worker** `engine/worker.py` | a lock per database and workspace | resume judgments, drain jobs | started by every Hook, killed at any time |
| **Provenance jobs** `engine/jobs.py`, `session_lock` of `engine/runtime.py` | `flow_jobs` (status, owner, lease, attempts), `flow_foreground_waiters`, one flock per session | `enqueue_jobs`, `claim`, `drain`, `finish`; a Hook announces itself and takes the session | late and dead drainers; a refund of attempts that must not make retries endless; a Hook must go before the queue |
| **Evaluation** `engine/runtime.py`, `inspection.py`, `fast_path.py` | none of its own; reads policy, payload, file stamps, index, graph | `_process_once`, `inspect_and_decide` | minutes between the first read and the answer, no lock over the world |
| **Exact content inspection** `engine/dlp.py` | an index of spans per protected file, shared by all evaluations | stat, look up, read, replace, compare, check again | the compare is a later transaction than the one that wrote the entry |
| **Property graph** `engine/property_graph.py` | revisions with pinned parents, a head per call, completed reviews | `analyze_properties`, `verdict` | parts of a call are reviewed separately, also for another session whose lock is not held |
| **Event lineage, graph recording** `engine/lineage.py`, `graph.py` | plans and file observations of events; the recorded calls | `snapshot_resources` before and after a call, `matching_producers`, `load_calls` | the two snapshots around a call race with the tool, with calls of other sessions and with programs that have no Hooks |
| **Reviews and requirements** `engine/review.py`, `requirements.py` | a checkpoint for each batch of earlier calls, evidence shared within an analysis | ask about a batch, acquire what the model requests, repair a malformed answer, save, take a checkpoint again | killed or raising in the middle; files edited between acquisition, answer and reuse; receipts of different times in one result |
| **Activation and setup** `tooluseproxy/app.py`, `integrations/activation.py` | rows of projects, the shared judge configuration, marker files, the migration file, recording boundaries | `_setup`, `enabled_workspace_root` | four writes with no common transaction; setups of several projects at once |
| **Payload and targets** `engine/payload.py`, `repository_evidence.py`, `targets.py` | budgets and parts of one resolution | visit the declared target, read files block by block and repositories by revision, `unchanged` | files written or renamed over while they are read, and between two of them; limits that cut something off |
| **Journal, evidence** `engine/journal.py`, `evidence.py` | the SQLite schema | append events, retention | transactions that fail |
| **Hook launcher, watchdog** `tooluseproxy_hook_watchdog.py`, `hooks/run_hook.sh` | child process | kill the Hook at its deadline and answer for it | the Hook may have written already |
| **Model provider** `engine/judge.py`, `codex.py` | external | answer, fail, never answer | any answer is possible |
| **Pure parts** `engine/contracts.py`, `identity.py`, `workspace.py`, `config_snapshot.py` | none | canonical records, digests, fingerprints | inputs of the models |
| **Log viewer** | none | presentation | not modelled |

How they meet: a Hook takes an authority lease, looks for its project
(activation), appends the event to the journal and runs `decide()` on the row of
the judgment, which runs an evaluation; the evaluation waits for the session
lock, asks the property graph, which reads lineage and asks reviews, and compares
what is sent with the content index. The worker takes the same lease and runs
`resume()` on waiting rows and `drain()` on the queue. Shared state is always a
file, a lock file or a table; the only callback is the judgment passed to
`decide()`.

What makes each one correct:

- *Lifecycle*: stopped means nobody works any more; nobody works under a
  generation that has been replaced; a review of one state never stops another;
  repeating a lost call does nothing new; a stop can be completed.
- *Pending*: only the owner of the row turns a result into a permission; a live
  lease is not overtaken; every delivery is answered; judgments that were
  interrupted are taken up again, those that lack evidence are not.
- *Jobs*: attempts are bounded, outcomes are final, leases of live drainers are
  kept, no job stays `running` for ever.
- *Evaluation*: an allow describes the world of one instant, misses no registered
  source, and a block is about what is sent now.
- *Index*: a match is about the content that was observed; entries that were
  written late do not stay.
- *Graph*: what a revision rests on is recorded with it; heads are complete
  reviews of whole operations; a Hook decides by what it assessed itself.
- *Lineage*: a recorded read is what the tool has read; a producer that was alone
  with the file wrote it; producers of the own session are in the history that is
  assessed; what was decided on does not get other producers afterwards.
- *Reviews*: a complete result rests on a complete answer to every batch about what
  was shown; its receipts are current; finished work is not repeated; it ends.
- *Payload*: what was read is what was there, all of it at one instant; complete
  coverage misses no member.
- *Activation*: what was enabled stays enabled through the migration; a project
  that was set up is enabled; no configuration is lost; recording starts no later
  than success is reported.

## 2. Modules

| Module | Models | Extends / composes |
|---|---|---|
| `AuthorityLifecycle` | the promise of the on/off switch, without files or locks | abstract specification |
| `AuthorityState` | clients and administrators over the state file and the two locks | implements `AuthorityLifecycle` (`INSTANCE ... WITH`) |
| `PendingJudgment` | one row, its Hooks and its workers | |
| `ProvenanceJobs` | the queue of a session, drainers, Hooks that wait for its lock | |
| `ProtectedFiles` | the protected files and their contents, numbered | extended by the next two |
| `OutboundDecision` | one evaluation in a world that changes | |
| `DlpIndex` | evaluations that share the index | the inside of the inspection of `OutboundDecision` |
| `PropertyGraph` | analyses of several sessions on one graph | |
| `EventLineage` | the calls of several sessions around one file, and what is made of their snapshots | stands before `PropertyGraph`, whose `Produced` it explains |
| `ReviewCheckpoints` | the review of one assessment, batch by batch | the inside of the step `Judge` of `PropertyGraph` |
| `PayloadResolution` | the reading of what is sent, and its checks | the inside of the steps of `OutboundDecision` that take one version of the payload |
| `Activation` | setups and Hooks over the activation files | |
| `AuthorityProofs`, `PendingProofs`, `JobsProofs`, `ActivationProofs`, `LineageProofs`, `PayloadProofs` | theorems on `AuthorityState`, `PendingJudgment`, `ProvenanceJobs`, `Activation`, `EventLineage`, `PayloadResolution` | each extends its module |
| `OutboundProofs` | theorems on the inspection and decision of a call | extends `OutboundDecision` and `DlpIndex` |
| `AnalysisProofs` | theorems on the analysis of a call | extends `PropertyGraph` and `ReviewCheckpoints` |
| `MCOutbound`, `MCDlp`, `MCGraph`, `MCActivation`, `MCLineage`, `MCReview`, `MCPayload` | functions and relations for instances of TLC | |

Two pairs of components share a module of proofs, which extends both. Their definitions
have different names for that: those of `DlpIndex` (`DlpInit`, `DlpNext`, `DlpSpec`,
`dlpPc`) and of `ReviewCheckpoints` (`ReviewInit`, `ReviewNext`, `ReviewSpec`, `at`,
`proceed`, `Nothing`) say which component they belong to.

**Actions are steps between visible effects.** One action is what a process does
between two reads or writes of shared state: a transaction, a lock operation, an
atomic replacement of a file, a read of a file or clock. A local computation goes
with the step before or after it. Killing a process is an action wherever a
process has shared state to leave behind; it removes the locals, releases its
`flock`s and keeps rows and files.

**Time.** `PendingJudgment` and `ProvenanceJobs` keep what is left of each
interval, not a clock, so no bound on time is needed. `Tick` takes a unit from
each. A process may take any number of ticks between two steps, so every
deadline can be missed, and "late" needs no action of its own.

**Identities that only grow.** File fingerprints, versions of a payload,
generations and operations are numbers that never return to an earlier value.
The code compares them for equality only. (That an edit may restore size and
content of a file is the subject of `engine/identity.py`; its digest includes
inode and change time.)

### AuthorityState

`state` is the JSON file (`absent` when there is none); `shared` and `exclusive`
are the two modes of `.lease`, `adminLock` is `.admin`. A client goes
`ReadState`, `TakeLease`, `RereadState`, `EndClient` (`authority_state.lease`).
An administrator goes `Review` (no lock), `TakeAdminLock`, `CheckRequest` (every
refusal and the replay of an applied operation), then publishes: an activation
needs the exclusive lease, a stop publishes `deactivating` first, tries the
exclusive lease and publishes `inactive` only when it gets it (`TakeExclusive`,
`PublishActive`, `PublishDeactivating`, `PublishInactive`). `Resubmit` sends a
request again whose answer was lost, `Withdraw` gives one up; `CrashAdmin` is
possible wherever the call has taken a lock.

### PendingJudgment

`row` is the row. `start`, `Acquire`, `Judge`, `RecordComplete`,
`RecordIncomplete`, `OwnershipChanged` and `Close` are the steps of `decide()` in
their order, each transaction an action; `StateUnavailable` is a transaction that
raises, `JudgmentBudget` a provider that uses up the budget. `Select`, `Skip` and
`Resume` are `resume()`: the selection is a transaction of its own, the decision
comes later. `held` is the hold that `Close` records with the row.

### ProvenanceJobs

`job[j]` is a row of `flow_jobs`. `Claim` is one transaction: expired rows with
no attempts left fail, then the first claimable row is taken. `LockSession`
(which does not wait), `Yield` to a waiting Hook, `BudgetEnds`, `Analyzed`,
`Disabled`, `Finish` and `FinishFails` are `drain()`. `Announce`, `TakeSession`,
`LeaveSession` and `CrashHook` are `session_lock()` of a Hook, whose row in
`flow_foreground_waiters` keeps background work waiting until it expires, also
when the Hook has been killed. `spent` is a history variable: the claims of a
job that priority did not end.

### OutboundDecision

The world is the registration list, the content number of each source and the
version of what is sent. The evaluation reads policy, payload, stamps and spans,
waits for the graph, and runs the final checks and the final transaction, each read
a step. Three relations say what content does to data: `Derived` (provenance of a
version reaches a source), `Copies` (a version holds a span of a content) and
`Distinctive` (a content has a span at all). Sources may be registered and files
edited at any moment.

### DlpIndex

The middle of `OutboundDecision`, for several evaluations: `Stat`, `Lookup`,
`ReadFile`, `WriteIndex` for each source, then `Match` and `Recheck`. `stored` is
the content an entry was made from.

### PropertyGraph

`stack[a]` is the recursion of `assess()`; a frame holds the verdict and the
revisions its parents got. `Judge` is the review (any of `Verdicts`), `Reuse` takes
what was assessed or completed before, `Descend` recurses, `NoteHead` and `Persist`
are the read before the transaction and the transaction, `Decide` is the last
transaction of a Hook. Two scopes stand for the demands a child has on a parent:
the whole operation and a part of it. An analysis holds the lock of its own
session only.

### EventLineage

`journal` is the order of events (`sequence_no`), `seen` the file observations,
`plan` the event of a call's operation plan, `boundary` the recording boundary.
`JournalPre`, `SnapshotPre` and `Start` are the Hook before a call,
`JournalPost`, `ObserveWrite`, `ObserveRead` and `EndPost` the one after it: it reads
the file once for each mode of the plan, and may be killed between the two.
`ToolReads`, `ToolWrites` and `OutsideWrites` are the world, which moves at any time.
`History`, `nodeEvent` and `precedes` are `load_calls()`, `Producers` is
`matching_producers()`. The truth (`writer`, `consumed`, `disturbed`) is kept beside
what is recorded, and the properties compare the two. Sessions in `Serial` have a
host that makes one call after the other; the calls of other sessions overlap.

### ReviewCheckpoints

`Lookup` and `Verify` are the row of `graph_review_parts` and `reusable()`;
`Prepare`, `Conclude`, `Request`, `Acquire`, `Malformed` and `ProviderFails` are
`inspect()` in its rounds; `SavePart` and `Take` end a batch. Evidence that an
earlier review of the same analysis has acquired is checked again and shared. What
a model answers is any choice of these steps; `Edit` changes a file between any two.
A receipt is the version of a file, or a mark that the request was not admitted.
`quiet` and `known` are history variables of the properties.

### PayloadResolution

A target is the sequence of its items in the order of `visit()`. `Open`, `Stat`,
`Read`, `After` and `Name` are the system calls of `read_file()`, a block at a time,
and `Revision` and `ObjectsRead` the two looks at a repository. `Refuse`, `Expand`,
`Value`, `Unsupported` and `Unreadable` are the other ends of an item; `Resolved`
ends the resolution, `CheckPart`, `AllChecked` and `ContextChanged` are
`unchanged()`. Files are written in place (an open descriptor sees it) or renamed over
(it does not), and revisions are moved and moved back.

`OutboundDecision` treats the resolution and each check of the payload as one
step on one version. `AllAtOneInstant` is the reason that it may: parts that are
found unchanged one by one were all there at one instant between resolution and
check. It assumes that a change of a file always gives it a change time it
never had, and that a file that was renamed over is not written any more by who
holds it open. For revisions the property is not stated, since a branch may
move away and back.

### Activation

`Begin`, `Register`, `ReadConfiguration`, `WriteConfiguration`, `ReadRoots`,
`SaveMarker`, `SaveMigrationComplete`, `Finish` are the writes of `_setup()` in
order. `enabled(r)` is the walk of a Hook from `r` outwards; `Hook(r)` records an
event where it finds a project with a boundary.

## 3. Runs

Passing runs, with the size TLC reports and the time on two threads:

| Run | Module, configuration | Distinct states | Time |
|---|---|---|---|
| Authority | `AuthorityState`, `MCAuthority.cfg` | 66,938 | 48 s |
| Pending | `PendingJudgment`, `MCPending.cfg` | 30,592 | 8 s |
| Jobs | `ProvenanceJobs`, `MCJobs.cfg` | 445,802 | 112 s |
| Outbound | `MCOutbound`, `MCOutbound.cfg` | 64,100 | 1 s |
| Dlp | `MCDlp`, `MCDlp.cfg` | 123,107 | 3 s |
| Graph | `MCGraph`, `MCGraph.cfg` | 1,150,570 | 40 s |
| Lineage | `MCLineage`, `MCLineage.cfg` | 9,499,366 | 128 s |
| Review | `MCReview`, `MCReview.cfg` | 2,047,854 | 101 s |
| Payload | `MCPayload`, `MCPayload.cfg` | 2,070,108 | 19 s |
| Activation | `MCActivation`, `MCActivation.cfg` | 2,503,886 | 29 s |

Runs that are expected to end with a counterexample, one property each, explained
in section 6: GraphScoped, ActivationKilled.

Most runs check deadlock: none of their processes waits without a way on. Two do
not, because the system may stop: in Lineage every call ends and the journal
is bounded (`MaxEvents`), and in Review nobody need start a process or edit a file.

Every module has a type invariant (`TypeOK`, `DlpTypeOK`, `ReviewTypeOK`). It is proved
for all constants (section 5) and therefore not repeated in the runs. The safety
properties of the runs are proved, too; the runs stay, since they show that the
properties hold because of the code (the mutants break them on these instances) and
since only they check liveness.

**Authority** asks whether the switch keeps its promise: `InactiveMeansDrained`,
`OneGeneration`, `StopsOnlyReviewed`, `AppliedOnce`, the refinement
`ImplementsLifecycle` and the liveness properties `StopCompletes` and
`LegacyRunsOut`. The last is about Hooks that began before the project was
enrolled: they hold no lease, so that the first stop does not wait for them; what
the code gives instead is that they run out, and that there are none after that,
since enrolment is final. Two administrators are needed for a review to become stale
and for a repeated request to meet a later one. One client is enough here: the safety
properties are proved for any set of clients, and clients do not look at each other.
Four generations
(`MaxGenerations`) allow a stop and a restart between a review and its
application; four operations (`MaxOperations`) a review, the other
administrator's stop and start, and a repetition of the first.

**Pending** asks who may answer: `InBudgetOwnsRow`, `PermissionByOwner`,
`LiveLeaseFenced`; and whether everything is answered and taken up:
`DeliveryAnswered`, `RunningRecovers`, `WaitingResumes`. One Hook to which the
event is delivered again and again and one worker are two evaluators of the same
row, in every order of kill, expiry and takeover (a second Hook takes the check of
liveness beyond three million states; the safety properties are proved for any
number). A unit is 240 s: `Budget` 2 stands for 480 s, `Lease` 3 for 700 s rounded
up, so the real order Budget < Lease is kept. `MaxAttempts` 2 allows a retry within
a decision. `MaxDelay` 1 makes a waiting row not yet due.

**Jobs** asks for `AttemptsBounded`, `SettledIsFinal`, `LiveLeaseKept`,
`RunningEnds` and `JobSettles`. Two jobs give an order to claims; two drainers
overtake each other; `MaxAttempts` 2 separates a refund from a first claim.
`Lease`, `Work` and `Wait` of one unit each expire in any order. `JobSettles` says
settled *or out of attempts*: a job that is given back with its last attempt stays
`pending` and is not claimed again. That is what the code does
(`AttemptsBounded` needs it), and its tests accept it.

**Outbound** asks for `AllowIsAtOneInstant`, `NoSourceMissed` and
`BlockIsAboutCurrentPayload`: two sources, one edit of each (`MaxContent`), two
versions of the payload (`MaxPayload`). One source begins without a span. These
three are proved without the bounds.

**Dlp** asks for `MatchIsExact` and `IndexConverges`: two evaluations, two sources,
one edit each, one content without a span.

**Graph** asks for `GraphIsClosed`, `HeadsAreWhole` and `HookDecidesOwn` on four
calls of two sessions: call 1 of session B writes a file that call 2 of A reads,
call 3 uses 2, call 4 uses 2 and 3. The diamond makes 4 meet an assessed parent
(`Reuse`), and the edge between sessions is the review of a part without the lock.
One Hook and one drainer; the review of call 1 may be incomplete.

**Lineage** asks for `ReadWitnessIsExact`, `LoneProducerWroteIt`,
`OwnProducersAreInHistory` and `ProducersSettle`: one file, a call of one session that
writes it, and two calls of a serial session of which the first rewrites it and the
second reads it; three generations, so that two of the writers (or one and a program
without Hooks) write after each other; five events, so that one call may stay
unfinished or be delivered twice; the boundary is set at either of the first two
events. `LoneProducerWroteIt` says what a named producer means and no more: a
*disturbed* writer, one that was not alone with the file until its last snapshot, may
be named for what another one wrote. `OwnProducersAreInHistory` is about the
assertion `resource_producer_missing` of the graph, which a serial session never meets.

**Review** asks for `CompleteMeansAnswered`, `ResultIsCurrent`,
`FinishedIsNotAskedAgain` and the liveness property `EveryReviewEnds`: two batches,
one file that the current call names and one that only an earlier call of
batch 1 admits, each readable or not, and three rounds (a malformed answer, its
repair and a request). One process is killed and begun again as often as it likes, so
that it meets the checkpoints of its predecessors; two at the same time take the
instance beyond twenty million states. For any number of them the three invariants are
proved.

**Payload** asks for `AllAtOneInstant` and `CompleteIsWhole`: six targets, which
between them exceed the members of a collection, the members altogether, the bytes,
the depth and the range of an item, and hold a text, an unsupported item, nested
collections and a repository with two commits of different size; two files of up to two
blocks, each changed twice. Two changes let a file be torn and then be whole again
under another fingerprint.

**Activation** asks for `LegacyStaysEnabled`, `SetUpIsEnabled`,
`RecordedFromSetup` and `ConfigurationsKept`: three projects, one inside another,
any of them from an older installation, two setups that run on any of them again
and again. One event (`MaxEvents`) is enough to tell a boundary that was kept from
one that was moved. Setups are interchangeable and no liveness is checked, so
symmetry is sound there; it is used nowhere else.

## 4. Fairness

Safety properties are checked and proved under `Init /\ [][Next]_vars`; fairness
is only used where something must eventually happen.

- `AuthorityState!Fairness`: an invocation ends (the watchdog kills a Hook, a
  judgment has a budget); an administrator's call ends or is killed; the operator
  keeps running `finish`, with calls that are not killed every time (`SF`), and
  from some time on the other administrators begin no new requests. The last one
  is necessary: a call that finds `.admin` held fails at once instead of waiting, so
  two administrators that always meet there could refuse each other for ever.
- `PendingJudgment!RecoverySpec`: time passes, a `decide()` that is not killed goes
  on (`WF`); workers are started again and again, since every Hook starts one and
  so does `analyze`; kills, failing transactions and deliveries of this one event
  end some time. `DeliveryAnswered` uses only the first two.
- `ProvenanceJobs!Fairness`: time passes; drains keep coming and go on unless they
  are killed, which may happen for ever; Hooks leave the session (they have a
  budget); from some time on no other Hook announces itself. Without the last,
  Hooks starve the queue, which is what priority means.
- `DlpIndex!Fairness`: evaluations end and others follow; files are not unavailable
  for ever. Edits are finite by `MaxContent`.
- `ReviewCheckpoints!Fairness`: a review that is not killed goes on (`WF` of its own
  steps); a model that does not answer is `ProviderFails`, by its timeout. Nothing
  is assumed about what it answers.

## 5. Proofs

All theorems are checked by `tlapm` for every value of the constants under the
named assumptions of the modules, and every invariant and action property of the
passing runs is one of them. Each proof finds an inductive invariant, checks
it step by step (one step for each action), and draws the property from it.

| Module | Theorems | Assumptions | Inductive invariant |
|---|---|---|---|
| `AuthorityProofs` | `TypeCorrect`, `StopIsDrained`, `GenerationsDoNotOverlap`, `StopsAreReviewed`, `OperationsApplyOnce`, `Implementation` | nobody is not an administrator; the bounds are natural numbers | `Typed /\ Locked /\ Drained /\ Reviewed /\ Settled` |
| `PendingProofs` | `TypeCorrect`, `BudgetWithinLease`, `PermissionNeedsOwner`, `LeaseIsRespected` | `Budget <= Lease` (480 s and 700 s) | `TypeOK /\ Owned` |
| `OutboundProofs` | `TypeCorrect`, `AllowLinearizes`, `NothingMissed`, `BlocksAreCurrent` | `Copies` only holds of contents with spans | `TypeOK /\ Order /\ Compared /\ Cleared /\ Between /\ Confirmed /\ Justified` |
| `OutboundProofs`, on the index | `DlpTypeCorrect`, `MatchesAreExact` | there is a source; the bound is a natural number; a payload holds spans only of contents that have one | `DlpTypeOK /\ MatchesLate /\ MatchIsExact` |
| `AnalysisProofs`, on the graph | `TypeCorrect`, `GraphStaysClosed`, `GraphIsAcyclic`, `HeadsStayWhole`, `DecisionsAreOwn`, `SessionsAreExclusive` | calls are numbered; a call depends on earlier ones, of its session or by a file | `GraphBase`, that is `Typed /\ Analysis /\ Recorded`, and `Exclusive /\ LocksAreWorked /\ Own /\ HookDecidesOwn` with it |
| `AnalysisProofs`, on the review | `ReviewTypeCorrect`, `CompleteIsAnswered`, `ReceiptsAreCurrent`, `CheckpointsAreTaken` | batches are numbered from 1 without a gap; what the current call admits, each batch admits; no verdict is not a verdict | `ReviewTypeOK /\ Saved /\ Reviewed`, where `Reviewed` is `Answered /\ Admitted /\ Current /\ Finished` of every review |
| `JobsProofs` | `TypeCorrect`, `OutcomesAreFinal`, `LeasesAreKept`, `AttemptsAreBounded`, `SessionIsExclusive` | processes are distinct, intervals are positive | `TypeOK /\ AttemptsBounded /\ InHand`, and `LockMatchesWork` |
| `ActivationProofs` | `TypeCorrect`, `MigrationIsSafe`, `SetupIsEffective`, `NoLostConfiguration`, `BoundaryIsFixed` | a project is the innermost around itself | `TypeOK /\ Progress /\ ExclusiveWriter /\ Migrated /\ setUp \subseteq configured /\ BoundaryRecorded /\ RecordedFromSetup` |
| `LineageProofs` | `TypeCorrect`, `ReadsAreExact`, `LoneProducersWrote`, `ProducersAreSettled`, `OwnProducersAreRecorded` | programs without Hooks are not calls; the bounds are natural numbers | `TypeOK /\ PlansInv /\ SeenInv /\ WitnessInv /\ WriterInv /\ ReadWitnessIsExact /\ ObservedInv`, and `SerialInv` for the own producers |
| `PayloadProofs` | `TypeCorrect`, `PayloadWasThere`, `CoverageIsComplete` | members come after their collection; the limits are natural numbers | `Typed /\ OpenedEarlier /\ ReadsPrefix /\ PartsEarlier /\ HeldBetween /\ CheckedWereHeld`, and `WholeSoFar` for the coverage |

Why the properties are not inductive themselves:

- *Authority*. That an inactive project is drained rests on the lock: `Locked` says
  which program points hold which lock and that a shared and an exclusive lease
  exclude each other, `Drained` what follows for the clients that were admitted.
  `Reviewed` says what a request still means that expects the published generation,
  and what an administrator between check and publication may rely on: the state
  is the one it checked, because it holds `.admin`. `Settled` says that a request
  which still expects the published generation, and whose operation has completed, can
  only be the stop that made the project inactive, which the check recognizes as a
  replay; every other one is stale. `Implementation` maps the phase, the generation and the clients
  that run to the abstract variables and shows that each step is an abstract one or
  a stutter.
- *Pending*. `Owned`: an evaluator with time left in its budget owns the row, and
  the lease of the row is at least what is left of the budget. Both decrease in the
  same `Tick`; at the acquisition this is `Budget <= Lease`. Nothing else about the
  two numbers is needed, which is why 480 and 700 may be changed as long as this stays.
- *Outbound*. What is read only grows (registrations, fingerprints: `Order`), so a
  value that is the same before and after the final graph transaction was the same
  at it. `Compared` and `Cleared` say what the inspection has established before,
  `Between` orders inspection, transaction and present, `Confirmed` adds what each
  of the final checks finds.
- *Jobs*. A claim counts in the row at once and is given back in two steps, the
  decision to yield and the transaction that records it, between which others may
  claim the job. `InHand` keeps one attempt of the row in hand for an owner that
  has still to give one back.
- *Activation*. `Progress` says what a setup has written when it has come to a step;
  `Migrated`, that every legacy project has its marker once the migration is
  complete; `ExclusiveWriter`, that who is between reading and writing the
  configuration holds its lock and has read the present one.
- *Dlp*. Matches are found in one step and stay (`MatchesLate`: there are none
  before), and nothing is observed after that step, so that what is true of a match
  when it is found is still true at the end.
- *Graph*. A frame of `stack[a]` holds half of a revision: `Sound` says that what it has
  pinned so far is recorded and has the demanded scope, `Awaits` that each frame is the
  parent that the frame below waits for, so that the revision it returns is the one that
  is missing there. With that `Persist` only records revisions that pin everything
  (`Recorded`). It stays so because the database only grows: `Abandon` may come anywhere
  and takes nothing back. `GraphIsAcyclic` follows from the numbers of the calls.
  For `HookDecidesOwn`, `Exclusive` says that an open analysis holds the lock of its
  session, and that a Hook's call is not completed. Everybody else assesses completed
  calls, above the bottom of a stack, or calls of a session whose lock they hold, so that no
  other analysis stores a head for the call of a Hook that is at its final transaction
  (`Own`); its own frame, at the bottom of the stack, is of the whole operation, so that
  the revision it stores becomes the head. `LocksAreWorked` is the converse: a lock that is held
  is held for an open analysis.
- *Review*. A checkpoint was acquired with the earlier calls of its batch and is verified
  with the current call alone, which admits less. `Admitted` closes the gap: such receipts
  mark a path as not admitted exactly if the *batch* does not admit it (`Reached`). What the
  current call acquires equally is then what the batch would acquire now, also where it is
  the mark (`SameIsFresh`). `Current` carries this through the rounds: as long as no file
  has changed, everything that was acquired, taken or joined is the files as they are.
  `Answered` needs that what the model is shown and what is acquired are the same whenever
  it is asked, and are apart only between, where a verdict is not complete. `Finished` says
  that a checkpoint which was current when a review began can only be refused by a change
  or by one that was written over it, and then it is not `known` any more. The batches that
  have joined are those before the present one; at the end they are all of them, because
  they are numbered without a gap. The reviews share nothing but files and checkpoints, so
  that a step of one leaves what holds of the others (`StepApart`, `KeptReviewed`).
- *Lineage*. `PlansInv` says which events a call has at each of its stages,
  `SeenInv` that observations are of events and generations that are there. From
  `WitnessInv` (the tool read no older generation than the snapshot before it) and the
  equality of the two snapshots follows that it read exactly this one.
  `WriterInv` says that a call which was alone with the file since its last write left it
  as it is, `ObservedInv` carries this to the snapshot after the call. That producers
  settle needs no more than that events are appended and observations belong to
  events that are not newer. `SerialInv`: the event after the tool is the last one of its
  call, and the events of two calls of a serial session do not interleave, so that a
  producer of the own session is older than every event of the call that reads.
- *Payload*. `OpenedEarlier` relates the descriptor to the path: what is open is an
  earlier state of it. `ReadsPrefix` says that what was read is the beginning of the
  file as long as its change time is the one before the reading, which with equal
  fingerprints at the end makes a part of the whole file (`PartsEarlier`).
  `HeldBetween` puts the end of the resolution between a part and the present: a
  fingerprint that is the same before and after was the same then. `WholeSoFar` is the
  coverage of what was visited, by the order of the items.

The invariants with which `PropertyGraph`, `ReviewCheckpoints` and `ProvenanceJobs` are
proved were checked by TLC before: those of the graph with two Hooks, a drainer
and three calls (1,517,035 states), the others on the instances of their runs.

Only model-checked: liveness (`StopCompletes`, `LegacyRunsOut`, `DeliveryAnswered`,
`RunningRecovers`, `WaitingResumes`, `RunningEnds`, `JobSettles`,
`IndexConverges`, `EveryReviewEnds`), which like `ENABLED` is out of reach of the
prover. Induction over data is out of reach too: `ancestry` of the graph, the sequences
of `Enclosing` and the items of a target are used by their elements, never by induction on
their length. So it is proved that the links which `ancestry` follows are closed and
lead back, and not what `verdictOn` makes of all revisions that it finds. No module
declares a `RECURSIVE` operator.

## 6. Findings

Each is a counterexample of a run, with its lines in `PROJECT.json`.

1. **GraphScoped** (code). A review of a part puts back the head it read before its
   transaction (`engine/property_graph.py:490`). For a call of another session,
   whose lock it does not hold, this may restore an older head or remove a new one.
2. **ActivationKilled** (code). A setup killed between the configuration and the
   markers and then repeated reports `already_configured`
   (`tooluseproxy/app.py:115-130`) and writes no marker. Once the setup of another
   project has completed the migration, Hooks do not find the project.

Observations from the modelling that are not runs. They follow from the code as it is
and contradict no statement that is worth a run, or have been decided on with open eyes:

- `resume()` selects waiting rows and decides them later. A row that a delivery made
  `needs_evidence` in between is judged again all the same
  (`docs/explicit-outbound-boundary.md:34` says such an analysis is not repeated
  automatically). It costs time and no soundness.
- A protected file without a distinctive span is not stamped (`engine/dlp.py:125-129`),
  so that an edit which fills it during the evaluation is not noticed. The allow
  is still about one earlier instant (`AllowIsAtOneInstant`), not about the last.
- The comparison leaves out index entries whose fingerprint is not the observed one
  (`engine/dlp.py:133-141`). When another evaluation replaced the entry in between, the
  span is left out and nothing says that the inspection was incomplete. `MatchIsExact`
  is therefore stated in one direction only.
- `matching_producers()` stops at the last declared writer (`engine/lineage.py:219`). A
  later call that was declared to write and wrote nothing observes the same
  generation and is named in place of the one that wrote it. This is why
  `LoneProducerWroteIt` has `wrote(c)` as a hypothesis.
- A call that rewrites a file in place has no witnessed read after the call
  (`engine/lineage.py:104`): the file is not what it was before, by the call itself.
  The chain to the older writer then rests on the read before the call only.
- `reusable()` acquires with the current call alone (`engine/requirements.py:150`). A
  checkpoint that rests on a file that only an earlier call admits is never taken
  again. `FinishedIsNotAskedAgain` is stated for the other ones.
- A malformed answer is repaired once and then retried by `review()`, except for
  `completed_with_evidence_requests`, which ends the review.
- A collection with more members than the limit is said to be incomplete
  (`engine/payload.py:152`), which the budget of members reports as well: the collection
  itself uses one.

## 7. What is not modelled

- Parsing of commands and payloads, canonical forms and digests
  (`contracts.py`, `identity.py`): pure functions; their results are inputs. What
  can go stale about them (a payload or file that changes) is modelled.
- The rounds in which `engine/targets.py` lets a model describe the target and acquires
  definitions for it: the declared target is an input of `PayloadResolution`. The loop
  has the form of the one in `ReviewCheckpoints`.
- The search for spans in bytes: the relations `Holds`, `Copies`.
- What a model answers: any answer, failure or delay.
- Owner and mode checks of the administrator's directories and the walk to
  enclosing directories (`integrations/authority.py:54-66`); signals and process
  groups of the watchdog; retention of the journal.
- The worker's own lock, which admits one worker per database and workspace: the
  models allow several, which is more behaviour.
- In `ReviewCheckpoints`, byte budgets, listings of directories and the table of
  attempts, which words the next question; in `EventLineage`, more than one file at a
  time (paths are compared for equality and never share a generation).
- The log viewer: read-only presentation.
- `legacy/` (the frozen v0.1), `research/`, `scripts/`, `skills/`. Most lines of
  the repository are there: some 85,000 of 92,000. Nothing in `tooluseproxy/`
  imports the frozen program or the research, and a model of a program that no longer
  runs would say nothing about the present one. The definitions here stand for about
  two fifths of the 7,200 lines of the live program, and what is missing of
  it is in the list above.

Hazards that no property covers carry a note in `PROJECT.json`.

## 8. Plan

Done, in this order, by how much depends on it: lifecycle and its refinement,
pending judgments, evaluation, index, jobs, graph, activation, lineage, reviews,
payload; proofs for all of them.

What would come next, in this order:

1. `HookDelivery` (`tooluseproxy_hook_watchdog.py`, `engine/hook.py`): host,
   watchdog and Hook; exactly one answer for each delivery, never an allow that was
   not decided. Refines the deliveries of `PendingJudgment`.
2. `WorkerComposition`: worker, judgments, jobs and lifecycle together, to check
   that a stop drains a worker in the middle of either activity, and that the finite
   batch a worker takes under its lock does not strand a row that came in too late.
3. An abstract specification of one decision (allow, block or incomplete at one
   instant) implemented by `OutboundDecision` with `PayloadResolution` in place
   of its payload steps, and of the queue (a bag of jobs with bounded attempts)
   implemented by `ProvenanceJobs`.
4. The rounds of `engine/targets.py`, as a second instance of the loop of
   `ReviewCheckpoints`.
5. Proofs: that a review implements the step `Judge` of `PropertyGraph`, and the
   inspection of `DlpIndex` that of `OutboundDecision`, as refinements; the abstract
   specifications of item 3.
6. `Activation`: setup of a project nested in one that is being migrated, where the
   marker of the outer project may be found first by a killed setup of the inner
   one; `add-source` and its registration as steps of their own.
