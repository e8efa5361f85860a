# Draftly: models, model checks and proofs

This directory holds TLA+ models of Draftly (the code under `src/src/draftly`), the TLC
configurations that check them on small instances and TLAPS proofs of their most
important properties. Paths below are relative to `src/src/draftly` unless they start
with `src/`.

Contents: [1 The system](#1-the-system), [2 PageWorkflow](#2-pageworkflow),
[3 RunLifecycle](#3-runlifecycle), [4 Around an agent call](#4-around-an-agent-call),
[5 A tenant's documents](#5-a-tenants-documents), [6 Beside the workflow](#6-beside-the-workflow),
[7 The runs](#7-the-runs), [8 What is proved](#8-what-is-proved),
[9 Where code and documentation disagree](#9-where-code-and-documentation-disagree),
[10 What is not modelled](#10-what-is-not-modelled), [11 Plan](#11-plan),
[12 Running it](#12-running-it).

## 1 The system

Draftly turns repository events into documentation. A GitHub webhook becomes a
job on a Redis queue; a worker process claims the event, builds an agent graph
(classify, research, document, evaluate, deliver) and runs it. The `document`
node of that graph is itself a durable workflow over pages. A review gate stops
the graph before delivery; steering handlers may stop it at any tool call. Both
pauses are answered through the API, possibly by another process, days later.
Around this core are the tenant's side (connecting accounts, onboarding, the document
index, drafts, content packages), what every agent call passes through (steering, guards,
model choice), and services beside the runs (support, memory, evaluation, reviews and
their notices, streams, the audit trail, workflow definitions).

| Part | State | Operations | Module |
|---|---|---|---|
| Page workflow (`orchestration/page_workflow`) | pages, tasks, evaluations in Postgres; per process the claimed batch | seed, claim with lease, write, evaluate, revise, review, retry, recycle leases; approve, request changes, reject | `PageWorkflow` |
| Writer session (`integrations/strands`) | stored messages of a task's conversation; invocations per task | store, time out, restore, repair, charge | `WriterSession` |
| Draft store (`persistence/repositories/drafts.py`) | `draft_revisions`, `draft_chunks` | start, append, finalize, replay, read | `DraftStore`, `ArtifactStore` |
| Runner, reviews, interventions, entry points, recovery | four status rows, the event log, the graph session, `reviews`, `workflow_interventions` | run, resume, respond, decide, cancel, retry, sweep | `RunLifecycle` |
| Graphs (`orchestration/graphs`, `routing`, `nodes`) | results so far, iteration counts | run a batch of nodes, choose the next | `WorkflowGraphs` |
| Steering (`steering/`) | guide counters, judge and its cache, interventions | steer a call | `Steering` |
| Guards, read cache (`steering/*_guard.py`) | counters of one invocation, shared cache | let through, guide, deny | `AgentGuards` |
| Models (`models/`) | provider health, cooldowns, the catalogue | route, fail over, embed | `ModelRouting`, `ModelCatalogue` |
| Connections (`app/api/routes/github.py`, `slack.py`, `integrations.py`) | states, installations, health | authorise, link, store, disconnect | `Connections` |
| Installation tokens (`integrations/github/app_auth.py`) | token cache, its lock | get, mint, clear | `InstallationTokens` |
| Onboarding (`app/api/routes/onboarding.py`, `workflows/onboarding`) | onboarding row, jobs row, Redis lock | wizard steps, initialise, pipeline, release | `Onboarding`, `KnowledgeExtraction` |
| Documents (`documentation/`, `document_revisions.py`) | documents, chunks, revisions | sync, refresh, edit, restore | `Documents` |
| Content (`content/`) | packages, revisions, variants, review events | generate, review | `ContentPackages` |
| Evaluation (`evaluation/`) | idempotency keys, summaries, case rows | request, run, score, persist | `Evaluation` |
| Memory (`memory/`) | candidates, items | queue, claim, curate, maintain, recall | `Memory` |
| Support (`integrations/slack`, `discord`) | links, guards, queue, receipts | receive, claim, reply, retry | `Support` |
| Review queue and notices (`review/`) | reviews, deliveries of notices | store, decide, expire, list; claim, send, mark | `ReviewQueue`, `ReviewNotices` |
| Streams (`events/`) | sequence, table, Redis streams, tickets | publish, replay, follow, reconnect | `Streams`, `Dashboard` |
| Audit (`orchestration/hooks/audit.py`) | buffer, flush task, `agent_runs`, `agent_steps` | open, buffer, flush, drain | `AgentAudit` |
| Workflow definitions (`persistence/repositories/workflows.py`) | definitions, `workflow_runs` | edit, start, dispatch, cancel, retry | `WorkflowDefinitions` |
| Process (`app/lifecycle.py`) | started flag, background tasks, pool, Redis | start up, shut down, run jobs | `AppLifecycle` |

How they meet: the page workflow is one node of the graph and writes through the draft
store; the graph is one step sequence of the runner (`GraphAdvances` in RunLifecycle); the
gate and steering end a graph early and the runner stores what is asked; the audit hook
and the streams watch the graph; support, evaluation and content start runs of their
own. The modules are joined at these points by what one says about another (a sealed
artifact, a paused session, an approval), not by shared variables.

What is hard here:

* **Several processes, no locks.** Postgres statements are atomic; what a process
  read in one statement may be stale in the next. The tables are guarded by
  conditional updates in some places (`try_claim`, `claim_ready_tasks`,
  `record_decision`) and by nothing in others (`mark_status`, `update_state`).
* **Leases without heartbeat.** A task's lease is 300 s, whoever is running it.
* **Crashes between two statements**, with replays that must not repeat effects.
* **Status kept four times**, written one row at a time, each write best effort.
* **At-least-once delivery**: webhooks are redelivered, queue jobs are retried.
* **Two kinds of pause** answered by callers who may come twice, early or late.
* **Fire-and-forget tasks** on an event loop that ends with its job.
* **Budgets and caps everywhere**: guides, reads, turns, failovers, executions, queue
  sizes, stream lengths, each with a rule for what happens at the limit.

What correctness means: the page workflow never passes a page on something nobody judged,
never runs out of its budgets and never loses a page; the runner starts a graph once per
event, never delivers past the gate, records an approval only for a graph that completed and
whose receipt, if it left one, names a delivery, and what died is noticed; what arrives
twice has one effect; what a reader is shown is neither repeated nor incomplete.
`PROJECT.json` lists every hazard at its line with the properties that would catch it.

## 2 PageWorkflow

`PageWorkflow.tla` models one documentation run: the three tables and the sealed
drafts (`page`, `tasks`, `evals`, `sealed`, `good`), and any number of workers,
each one call: the graph node's invocation, or an approve, request_changes or
reject decision. A step is one round trip to the database, except that `StartInvoke`,
`SeedPage` and `Promote` each join neighbouring statements: the inserts of
`create_pages`, the two tasks of a page, the read of the sealed draft and its recording.

| Model | Code |
|---|---|
| `StartInvoke`, `SeedPage` | `node.py` invoke and `_seed`, `repository.create_pages` |
| `ResetExpiredLeases`, `ClaimReadyTasks`, `TakeSnapshot` | `executor._drive`: one step per query |
| `WriterPrepare`, `WriterSeals`, `RecordArtifact` | `PageWriterHandler`, `record_artifact` |
| `EvaluatorReads`, `RecordEvaluation`, `EvaluatorRevises`, `EvaluatorCounts`, `EvaluatorEnqueuesReview` | `PageEvaluatorHandler`, `record_evaluation`, `schedule_revisions`, `_schedule_review_if_ready` |
| `ReviewerReads`, `ReviewerClean`, `ReviewerCorrects` | `CrossPageReviewHandler` |
| `HandlerFails`, `CompleteTask`, `RetryOrFailTask` | the executor's settling of a batch |
| `StartApprove`, `ApprovePage`; `StartRequestChanges`, `ScheduleHumanRevisions`; `StartReject`, `CancelPendingTasks`, `MarkEscalatedFailed` | `node.resume`, one step per statement |
| `LeaseExpires`, `Crash` | time and process death |

An artifact is named by page and version: `draft_revisions` is unique on (run,
path, version) and sealed rows do not change, so content and the verdict of the
deterministic gate are functions of that pair. What an agent writes and what a
grader says are free choices. The lease owner is the same string in every process,
as in the code. The poll interval is the order of steps.

## 3 RunLifecycle

`RunLifecycle.tla` models one event and everything that may happen to its run. `row`
is the status in the four tables, `clock` is `jobs.started_at` relative to the
sweep's cutoff, `envelope` is the terminal record in `workflow_events`, `session` is
the persisted graph (external: modelled from how `_session_is_resumable` reads it),
`reviews` and `asks` are the rows of `reviews` and `workflow_interventions`. A worker
is one call and is used once; sweepers run again and again. `todo` holds the status
writes a process still has to make: `WriteRow` makes them one at a time, so that
every other process may come in between, and may lose one when `CanLose` holds.

| Model | Code |
|---|---|
| `Webhook`, `SaveGithubWorkflow`, `RetryJob` | `github_webhook` (its two writes are two steps), RQ's `Retry` |
| `StartJob`, `TryClaim`, `EnsureCanonicalRun`, `ReconcileRun` | `run_pull_request_workflow`, `WorkflowRunner.run`, `try_claim`, `reconcile_run` |
| `GraphAdvances`, `GraphDelivers`, `GraphAsks`, `GraphPauses`, `GraphEnds`, `GraphRaises` | the invoked graph: what it persists and when; `ReviewGate.gate`, `_persist_intervention` |
| `Outcome`, `GraphEnds` | `delivery_receipt_from_result`, `is_blocked_delivery`, `is_empty_delivery`: only a deliver node that ran leaves a receipt, which may say "blocked" or be empty whatever was sent; a completed graph without a receipt counts as delivered |
| `FinishResult` | `_finish_result`, `_store_interrupts`, `_finish_pending_intervention` |
| `StartReview`, `CheckReview`, `Preflight`, `Decide`, `RecordChanges`, `StartRevision` | the review route, `resume_review_from_runtime`, `resume_review`, `record_decision` |
| `StartRespond`, `LookUp`, `ReplayLookup`, `ClaimResponse`, `Reply` | the respond route, `resume_intervention`, the two queries of `claim_response` |
| `CancelRun` | `cancel_run` |
| `SweepLists`, `SweepRechecks`, `SweepMarks`, `SweepAligns`, `Age` | `mark_stale_runs_failed`; `Age` passes the cutoff, which exceeds the graph's execution timeout, so not while the run is alive |
| `Crash` | process death |

## 4 Around an agent call

`MCAgents` bundles six components that share no state.

* **`Steering`**: concurrent tool calls and model turns. A call evaluates its role's policy
  (`Evaluate`), may ask the judge, which is shared, locked, cached and may hang
  (`JudgeCached`, `JudgeEnters`, `JudgeAnswers`, `JudgeRaises`, `JudgeTimesOut`,
  `ThreadEnds`), reserves a guide in the scoped and in the total counter (`ReserveGuide`,
  one transaction), stores an intervention (`PersistIntervention`) or an audit step
  (`RecordDecision`), and returns an action. Any write may raise (`StoreRaises`). A model
  turn that may not interrupt is guided without a reservation (`Outcome`), which no budget
  bounds; `GuideBudgetHolds` bounds the reserved guides and says where that may happen.
  `GuideBudgetHolds`, `PausedIsInInbox`.
* **`AgentGuards`**: the loop of one agent under the burst, registry, research and read
  guards (`ModelTurn`, `InventedTool`, `ResearchCall`, `WriterRead`) and the read cache
  that the writers of a pass share. A model may call anything at any time.
  `ResearchIsBounded`.
* **`ModelRouting`**: health of providers shared by streams (`StreamFails`, `Failover`),
  capability calls (`ResolveTry`) and embeddings (`EmbedTry`), cooldown and recovery. Any
  candidate that passes the constraints may score best. `FailoverIsContained`.
* **`ModelCatalogue`**: every model that `models/factory.py` registers, with capabilities,
  window, price and priority, and `route` over them while providers go down and models
  cool. Prices are integers (cents per million tokens); statistics are cold.
  `RolesSurviveOutages`.
* **`WorkflowGraphs`**: the edges and conditions of the six graphs (documentation with and
  without research, issue, support, content, feedback, evaluation), the nodes that decide,
  and the external runtime: a batch runs concurrently, then every node with a satisfied
  edge from it, each execution counted up to the graph's own limit (`NodeLimit`: 8 for
  feedback, 6 for evaluation). `NodeBudgetSuffices`, `DeliveredWasJudged`.
* **`WriterSession`**: one conversation per write task, stored message by message
  (`create_message`), where a blocking call may time out and land later
  (`_run_times_out`, `LateWriteLands`); a new attempt restores and repairs it
  (`_page_session`, `truncate_dangling_tool_blocks`) and charges the task
  (`_spend_attempt`, which clears its table when it is full). `HistoryIsWhole`.

## 5 A tenant's documents

`MCKnowledge` bundles seven.

* **`Connections`**: authorisation states, the GitHub and Slack callbacks statement by
  statement, installation webhooks, health and disconnection. `OwnerIsKept`.
* **`InstallationTokens`**: the cache is read, the lock taken, the cache read again, a
  token minted; time runs in quarters of an hour. `OneLiveToken`.
* **`Onboarding`**, in a deployment with Redis: the wizard's reads and writes of its row,
  the initialise request (`Acquire`, `LockHeld`, `Reconcile`, `Preflight`, `RecordStart`,
  `EnqueueInit`, `Register`), the pipeline in the API process or in the worker, a process
  that dies anywhere, the lock's expiry. `OnePipeline`, `HandedOutRunHasJob`.
* **`KnowledgeExtraction`**: producer, workers and persisting task joined by two bounded
  queues, or shards against a credit budget; any group or batch may fail.
  `EveryChunkAccounted`.
* **`Documents`**: a sync or refresh job per file (fetch, hash check, upsert, delete chunks,
  store chunks), a source that changes, editors who save on a base they read or leave either
  base out. `EditsAreNotLost`.
* **`DraftStore`** and **`ArtifactStore`**: the draft tools, one step per statement
  (`PrepareReads`, `prepare_versioned_write`, `AppendReads`, `AppendIndexes`,
  `append_chunk`, `FinalizeReads`, `_assembled`, `finalize`), calls that die
  (`CallDies`), and the promise to readers: an artifact grows while it is open, is sealed
  once with content, and never changes again. `ImplementsArtifactStore` is the refinement.
  It is what PageWorkflow assumes of a sealed artifact, and it holds while tool calls on
  one draft do not overlap; `draft_calls` shows what happens when they do.
* **`ContentPackages`**: generations and reviews of one source event, each statement a
  step. A generation is the route's own or a content graph's, with or without a gate;
  the graph goes on to its deliver node (`AnswerGate`, `Deliver`), which writes "approved"
  (`ContentApproval`). `DecisionHasAuthor`.

## 6 Beside the workflow

`MCServices` bundles ten.

* **`Evaluation`**: the idempotent request, the loop over datasets and cases, the
  deterministic evaluators on what a case observed, the rows left. `OneRunPerKey`.
* **`Memory`**: candidates, `claim_pending`, the curator's decisions one statement at a
  time, what its own tools write before it returns them (`CuratorTool`), maintenance,
  recall. `DecisionAppliedOnce`.
* **`Support`**: linking, the Discord gateway, the duplicate guards, the queue and its
  retries, claim, reply, receipt, review buttons, restarts. A run's agent posts or does not:
  several posts of one run count once. `OneReplyPerMessage`.
* **`ReviewQueue`**: inserts in progress, decisions and expiry under a paged walk.
  `WalkIsComplete`.
* **`ReviewNotices`**: reviewers who come, change and go, and attempts that claim, send and
  mark each leg. A message counts when the provider confirms it. `NotifiedOnce`.
* **`Streams`**: the graph's frames and the sinks draw numbers, append to the table and add
  to the stream in two steps; a watcher replays and then follows. `WatcherSeesAllOnce`.
* **`Dashboard`**: a trimmed stream, tickets, reconnection with the last id.
  `DashboardIsExact`.
* **`AgentAudit`**: the hook buffers, a task flushes, the runner drains it before the loop
  ends, unless the invocation raised. `AuditSurvivesTeardown`.
* **`WorkflowDefinitions`**: editors, run requests, cancel, retry and webhook jobs on the
  same rows. No property is checked of it: one row per key (`KeyedOnce`) is what the
  INSERT's conflict clause says, and is proved for any number of requests.
* **`AppLifecycle`**: startup and shutdown step by step, any of which may raise, next to
  jobs that use the pool. `StoppedHoldsNothing`.

## 7 The runs

| Run | Instance | Shows |
|---|---|---|
| `page_single` | 2 pages, 1 worker, 2 attempts, handlers may fail | budget; the executor's outcome is true; "passed" follows a review of the very artifacts reported |
| `page_decisions` | 2 pages, 3 workers, all decisions, crashes | pages pass only on a stored evaluation, leases exclude, no page is left behind |
| `page_overrun` | 1 page, 4 workers, 1 lease outlived by its batch | `latest_version` never decreases and evaluations are never replaced, even then |
| `page_live` | 1 page, 2 workers, failures and crashes, fairness | every call ends |
| `run_calls` | 2 deliveries, a retry, an approval on 3 workers; crashes, lost writes | at most one graph per event |
| `run_gate` | 2 deliveries, 2 responders to one intervention, each decision, a cancellation on 3 workers; raising graphs, either kind of key | no delivery without an approval of the gate; responders with keys of their own resume once; the sweep fails no finished or paused run; an approval is recorded only behind a graph that completed under that review, with no receipt against it |
| `run_dead` | a run, an approval; crashes, raising graphs, fairness | a run whose worker died in the graph is failed |
| `agents` | section 4's components | its eight invariants |
| `knowledge` | section 5's | its six invariants, `OwnerIsKept`, the refinement |
| `services` | section 6's | its nine invariants |
| `run_twice_delivered` | 2 approvals | violated: section 9 |
| `draft_calls` | 2 overlapping tool calls | violated: section 9 |

**Pages.** Two pages are the least for which "the last evaluator schedules the review" and a
review that corrects one page of several mean anything; two attempts are the least
with an automatic revision; three workers are the least with an executor and two
racing decisions. `BatchLimit` and the semaphore sizes are as in the code and do
not bind on these instances. `MaxOverruns` bounds how often a lease expires under a
live worker; 0 states the assumption "a batch ends within its lease".

**Run.** `Limit` bounds how many calls of each kind arrive and `MaxAsks` how many
interventions a run raises. Every property is about two or three calls meeting on one
run, and a fourth adds only repetitions of the same races. `Symmetry` permutes workers;
it is not used with liveness. `run_calls` has no sweeper, because the claim it is about
is an INSERT that looks at no status; `run_gate` and `run_dead` have one.

**Bundles.** A behaviour of a bundle picks one component (`focus`) and leaves the others at
rest. The components share no variable, so nothing is lost by it, and the states are the
sum of the components' and not the product. The caps in the configurations (`MaxReads`,
`MaxGuides`, `JudgeCacheLimit`, `DashLimit`, `ReplayLimit`, `PageLimit`, `MaxProcessed` and
the like) are the code's limits made small so that they are reached; 15 executions and two
iterations in the graphs, and the catalogue, are the code's own values. `max_iterations`
is the evaluators' default. Where one actor is enough for the property's case the
configuration has one: one onboarding request (with two, `OnePipeline` fails: section 9),
one graph build in `Streams` (the property speaks of the first: section 9), one
draft caller (with two, `draft_calls`), one run request next to a webhook job in
`WorkflowDefinitions`. `SameKey` lists the definitions that have the webhook's
`workflow_key`. `MaxInitFaults = 1` lets one process die or one write fail per behaviour.
`knowledge` permutes content generations and content reviews (`ContentSymmetry`), which
occur in no other component; the other bundles use no symmetry.

**Deadlock** is checked in the page and run instances and in `draft_calls`. The bundles
say `CHECK_DEADLOCK FALSE`: their components stop when the requests, ids or revisions of
the instance are used up, which is no state of the system.

**Fairness.** `page_live`: every live worker keeps taking steps, because the event
loop schedules it, and leases expire, because time passes. Nothing is assumed about
handlers succeeding. `run_dead`: workers keep working (weak); time passes (weak); the
sweep is scheduled every ten minutes and at every worker's start, so it starts when it
finds something (weak) and is not killed at the same statement for ever (strong).

## 8 What is proved

For every value of the constants, from the named assumptions of the modules and nothing
else. Each component's theorems rest on one inductive invariant of that component; each
was checked by TLC as an invariant of the component's run before it was proved.

**Pages** (`PageWorkflowTypeProofs`, `PageWorkflowProofs`, `PageBudgetProofs`)

* `TypeCorrect`: `Spec => []TypeOK`. `TypeOK` is inductive as it stands. Besides shapes
  it says that a task is retried at most once for infrastructure reasons and that a worker
  only holds tasks that are in the table.
* `PassedIsJudged`: `Spec => []PassedWasJudged`. The invariant is `JudgedInv`: types, the
  fact that only a worker started for an approval reaches the approving statement
  (`RolesOK`), and the property. The lemma `OnlyTheseJudge` reduces a step to the few
  actions that set a page to passed or escalated, `UnjudgedKeeps` handles all others.
* `LeasesExclude`: with `MaxOverruns = 0`, `Spec => []NoDoubleRun`. Mutual exclusion is
  not inductive: a task held by a live worker must also still be running under a live
  lease (`HeldIsLeased`), or the next `reset_expired_leases` would hand it out again.
  The assumption is needed: TLC refutes the property with `MaxOverruns = 1`.
* `LateNeverWins`: `Spec => LateCompletionsLose`, an action property, from types alone
  and for any number of overruns.
* `BudgetHolds`: `Spec => []AutomaticBudget`, for any number of crashes and overruns. The
  bound is a count of rows, the code only compares numbers; `BudgetInv` connects them. An
  evaluation counts as its task row says (`EvalsOK`), the rows' attempts never fall from
  version to version, grow at every automatic one and stay in `1..MaxAttempts`
  (`AttemptsGrow`), and the page row, from which the next number is computed, agrees with
  the evaluation of the current artifact (`PageCounts`), also for a handler that read it
  earlier (`HandlerKnows`). Attempts are then an injection of a page's automatic
  evaluations into `1..MaxAttempts`.
* `NoPageLeftBehind`: with `MaxOverruns = 0`, `Spec => []NoAbandonedPage`. `CareInv` adds
  to the leases of `LeasesExclude`: tasks come in pairs whose evaluation waits for its write
  (`PairsOK`, `DepsDone`); a write ends well only after the page has its version
  (`WritesDone`); an evaluation ends well only when the page that rests on it is judged, and
  has its next write if it is to be revised (`EvalsDone`); a replayed evaluation comes to the
  stored verdict, because the write it judges is completed (`EvalsTrue`); every artifact has
  its pair (`CurrentOK`) and a new page has one or somebody still owes it (`SeedOK`). The
  assumption is needed: a handler that outlasts its lease can record the same version a
  second time, after its evaluation is completed, and the page is "evaluating" for good
  (TLC shows it with `MaxOverruns = 1`).
* What the executor tells the node, always with `MaxOverruns = 0`. `CallInv` adds to `CareInv`
  which calls come where (`CallsOK`: decisions come after the node's report, the node is
  entered again only after a crash), what waits for what (`WaitsOK`), and that a claim which
  found nothing is still right when the table is looked at again (`NothingReady`). Two lemmas
  carry the rest: while the node's call is under way every step is its own (`OnlyDriver`), and
  no step changes what a task waits for or revives one that ended (`AllRowsLast`).
  `DeadlocksAreTrue`, which allows crashes: a declared deadlock has a failed or cancelled
  task, because reviews wait for evaluations, evaluations for writes, and writes for nothing
  (`StuckOnFailure`). `OutcomesAreTrue` (`OutcomeIsTrue`): the loop also ends normally only
  with every page passed or escalated. `PassesReviewed` (`PassedWasReviewed`, an action
  property): the evaluation that lets the last page pass owes the review until it has
  enqueued it (`Owes`, `ReviewOwed`), and at the report everything in the table is completed
  (`Unharmed`). The first two assume `OneExecutor`, that no request_changes call executes
  tasks beside another, the last two `~CanCrash`. Section 9 says what happens without.

**Run** (`RunLifecycleProofs`). `Control` says which statements a call of each kind can be
at (`RoleOK`), that a worker in the middle of its status writes has one left, and that
answers refer to rows that exist; `RunTypes` is its corollary. On top of it, one invariant
per property:

* `OneRun` (`OneRunPerEvent`): `ClaimInv`. A claimed event never becomes `absent` again,
  and between the INSERT and the graph there is at most one worker.
* `ApprovedIsConfirmed` (`ApprovalWasConfirmed`): `ConfirmInv` follows the answer
  "delivered" back through the worker's memory (result, receipt) to the end of the graph
  which that approval resumed, and the gate of a gate review to that very call
  (`GateOpened`). That something was sent is not claimed, and not so: section 9.
* `GateHolds` (`GateIsNotBypassed`): `GateInv`. A gate that is open, in a worker's memory
  or in the stored session, was opened by an approval of that gate, so a retry that
  restores the session opens nothing new.
* `ResumedOnce` (`InterventionResumedOnce`): `ResumeInv`. The right to resume passes from
  the pending row to one responder; with the default key it would not, hence `OwnKeys`.
* `SweepSpares` (`SweepSparesFinished`, an action property) assumes `~CanCrash` and
  `~CanLose`. `SweepInv` says that a job whose clock is old has its claim, that no fresh
  run is ahead of its graph then, and that a sweep about to mark found no envelope. Both
  assumptions are needed: TLC refutes the property with crashes and a retry (`started_at`
  is set once, so a retry's live run looks stale as soon as it begins) and with lost
  writes (a finished run whose envelope was lost looks abandoned).

**Around an agent call** (`AgentsProofs`)

* `FailoverContained`: `RouteInv`. What a wrapper holds comes from `Candidates`; a vector's
  space is that of an embedding candidate, and since some provider is first in the chain
  (`FirstExists`) all candidates serve its space.
* `ResearchBounded`: `GuardInv`. Until the synthesis request each executed call is
  counted; from then on each one names a tool for the first time, so the excess is the
  number of tools named. Assumes that an agent is not both a writer and a researcher.
* `GuidesBudgeted`, `PausedFound`: `SteerInv`. A reservation is held from the transaction to
  the returned guide (`Granted`), which an unreserved one never had; the calls that hold one
  on a subject, or for an agent, are never more than its counter, and the counters agree
  because both grow in one step. Only writers ask the judge, so a side-effecting call
  recorded as interrupted came through the statement that stores its row.
* `HistoryWhole` (`HistoryIsWhole`): `SessionInv`. In the store a call carries the number it
  is stored under and an answer the number before its own (`Placed`), so what a crash, a
  failed store or a late write (`LateWrite`) can leave unanswered is found by its place; a
  writer that stores its messages leaves no gap (`WriterWell`), and while a tool runs only
  the last call is without its answer (`AwaitsTool`). Truncation does the rest.
* `DeliveryJudged` (`DeliveredWasJudged`): `GraphInv` has one part per family of graphs and
  says, node by node, what must have been reported for it to run, and what no longer can be
  once delivery is in the batch. `NodeBudgetEnough` (`NodeBudgetSuffices`): `CostInv`
  bounds the executions by what the nodes have reported and by the iterations used. It
  assumes `RoomyLimit`: two evaluators that use all their iterations, two nodes each, and
  five nodes besides must fit below the limit, as they do below the code's 15 for two
  iterations. The feedback and evaluation graphs, which have no such loop, fit below their
  own limits without it.
* `RolesSurvive` (`RolesSurviveOutages`): `HealthInv`. Two candidates of different providers
  stand for the writer and two for the judge, so one outage leaves one; four models stand
  by for research, so three cooldowns leave one, hence `MaxCooling <= 3`. Where a
  candidate is left the router finds a best one (`RouteExists`), by least naturals.

**A tenant's documents** (`DraftStoreProofs`, `KnowledgeProofs`)

* `DraftsAreArtifacts`: if there is one caller, `DraftSpec` implements `ArtifactStore`. The
  invariant says what a call in progress still knows: the index it is about to write is the
  next one, the draft it saw open is open, what it assembled is what is stored. Each step
  is then one abstract step or a stutter.
* `TokensLive` (`OneLiveToken`): `TokenInv`. Whoever is past the second look at the cache
  holds the lock, the cache is still stale then, and the cache holds the last mint.
* `EditsKept` (`EditsAreNotLost`): `DocInv`. `DecisionsHaveAuthors` (`DecisionHasAuthor`):
  `ContentInv`, the event of a request is there before its status is written, and a
  deliver node that writes "approved" was let through.
* `RunsHaveJobs` (`HandedOutRunHasJob`): `OnbInv`. A request that is about to answer, or
  found a run in the organisation's row, has a run with a job row (`HasRun`).
* `PipelinesAlone` (`OnePipeline`), if requests do not overlap (`OneRequest`): `LockInv`. A
  live pipeline holds the lock and the organisation's row names a run (`LiveHolds`), so the
  next request finds the lock taken and no reason to call it stale; what a pipeline writes
  back names a run too (`WritesRun`), and a request that has the lock has no pipeline beside
  it but its own (`RequestHolds`). The condition is needed: section 9.
* `ChunksAccounted` (`EveryChunkAccounted`): `ExtractInv`. Each group is still to be queued,
  in the queue, with a worker, in a finished batch, or accounted for; the sentinels come
  after all groups; and the collector counts every group exactly once, so it does not stop
  early.
* `OwnersKept`: `ConnSpec => OwnerIsKept`, an action property.

**Beside the workflow** (`ServicesProofs`)

* `AnsweredOnce` (`OneReplyPerMessage`): at most one delivery of a question is at work under
  its claim, and nothing was posted before (`ClaimIsHeld`, `RepliesFollowClaim`).
* `AppliedOnce` (`DecisionAppliedOnce`): the candidates ahead of a curator are claimed by it
  alone and have changed nothing yet (`ClaimsHold`, `NothingEarly`). That any set of
  candidates can be listed in order (`OrderExists`) is proved by the least size for which
  it could not.
* `KeyedRunsOnce` (`OneRunPerKey`): a run is started by the request that is in its key's
  row, and answers repeat the row. `OneRowPerKey` (`KeyedOnce`, checked by no run): handlers
  read long before they insert; only the insert's own conflict check matters, and rows keep
  their key.
* `NotifiedAtMostOnce` (`NotifiedOnce`): an attempt that has claimed a leg holds it alone
  (`ClaimsExclude`), and nothing was confirmed for a leg that may be claimed or is still to
  be sent (`NothingYet`).
* `WalksAreComplete` (`WalkIsComplete`): up to the cursor every review that stayed pending
  was shown, and nothing past it. `ViewersSeeAll` (`DashboardIsExact`): what was shown ends
  at the viewer's position.
* `AuditIsWhole` (`AuditSurvivesTeardown`): after an invocation that returned, every step is
  in the table, in the buffer, or with a flush that will write it. `WatchersSeeAllOnce`
  (`WatcherSeesAllOnce`): the table and the stream hold each envelope of a first build at
  most once and in order (`RunSide`); the numbers up to `min` were replayed, those above it
  come from the stream, and `min` separates them (`ShownOnce`, `NoneMissed`). It assumes
  `Fits`, that a build's envelopes and their audit copies are not trimmed: at the code's
  1000 a build of 500 envelopes. `StoppedIsEmpty` (`StoppedHoldsNothing`): what is held at
  each step of startup and shutdown.

Assumptions on constants that the proofs needed and the code has: a token lives longer than
nothing and `Unlocked` is no caller (`InstallationTokens`); groups are a finite sequence,
workers a finite set (`KnowledgeExtraction`); the absent key is no key (`Evaluation`);
writers and researchers are different agents (`AgentGuards`); the graphs are the seven the
code builds (`WorkflowGraphs`); bounds are numbers (`ModelCatalogue`).

Only model-checked: `EveryCallEnds` and `DeadRunsAreFailed`, which need fairness and
`ENABLED` and are out of the proof system's reach. Every other property of the passing runs
is proved.

The provers cannot instantiate the library's induction theorems. Where a proof needed
induction over numbers it takes the least counterexample instead (`NatMin`, from the
well-foundedness of `<`). What a recursive function computes is only model-checked.

## 9 Where code and documentation disagree

Two runs must be found violated, on the smallest instance that shows it; `PROJECT.json`
quotes the sentence each contradicts.

| Run | What happens |
|---|---|
| `run_twice_delivered` | two approvals of one review both deliver (`review/resume.py:96`) |
| `draft_calls` | a second tool call changes a revision after the first has sealed it (`persistence/repositories/drafts.py:177`) |

Several properties hold only under the condition their configuration states. Changing it
shows what happens without:

| Property | Change | What happens |
|---|---|---|
| `NoDoubleRun` | `MaxOverruns = 1` | a batch that outlasts its lease is run by a second worker |
| `OutcomeIsTrue` | two executors, or `CanFail` and `CanCrash` | a deadlock is declared while a task is claimable; an executor re-entered after a failed task and a crash returns with an unsettled page |
| `PassedWasReviewed` | `CanFail` and two workers that die | a failed review is forgotten on re-entry and the node reports "passed" |
| `SweepSparesFinished` | `CanCrash = TRUE` | a retried job is past the cutoff from its first moment, and is failed after it has paused |
| `OnePipeline` | two `Requests` | a request reconciles the lock of one that has not written its rows, and both start |

The rest was met while modelling and is kept in the models as the code has it, without a
property.

*Page workflow and runner.* A cross-page correction of a page without budget is raised as an
exception and consumes the infrastructure retry (`page_workflow/handlers.py:989` against
`executor.py:10`). A crash between scheduling a revision and completing the evaluation makes
the evaluation fail for good (`handlers.py:259`). An approval that overtakes the last row
writes of a pausing run completes it, and the late write puts it back to pending_review
(`runner.py:1369`). A worker that dies after its envelope and before its row writes leaves a
run the sweep skips for ever (`reconciliation.py:173`), which is why `DeadRunsAreFailed` is
stated for a death before the envelope. Two responders under the default key both resume the
graph (`runner.py:996`), which is why `InterventionResumedOnce` speaks of keys of their own.
A completed graph whose deliver node left no receipt is reported as delivered
(`runner.py:113`, `:1394`; `src/tests/workflows/test_phase5_runner_events.py:400` expects it),
and the approval that resumed it is recorded though nothing was sent, against "never records
an approval for work that did not reach delivery" (`src/docs/deployment/production.md:167`,
`src/docs/workflows/support.md:174`); that is why `ApprovalWasConfirmed` speaks of the graph
and its receipt. A redelivery while the run pauses leaves the jobs row running
(`github_pr_workflow.py:63`). The responder of an intervention gets an error for an applied
answer (`interventions.py:141`).

*Agents.* Clearing the full budget table refunds invocations (`handlers.py:340` against
`:331`). Exceptions of the steering callbacks are swallowed by the runtime, so that
persistence failures do not fail closed; a delivery agent whose budget is used up is guided
again at every model turn, with no reservation and no bound (`handler.py:498`); a judge that
timed out keeps its thread. Tree listings share one cache key, and a read refused by the
guard's key is charged twice (`writer_scope.py:60`). A failover below the threshold may
choose the failing provider again. Under the production allowlist evaluation depends on
orcarouter alone and research on mantle alone.

*Documents.* With the queue enabled the lock is compared as bytes with a string and never
released (`init_lock.py:65`), so it stays until it expires; `failure` is never cleared; the
job is queued before its row exists. A sync skips a page whose hash is stored although its
chunks were not (`sync_service.py:137`), and a page that loses its headings keeps its old
chunks. A first draft is not checked against the source it was made from. A workspace that
is connected may be taken over by another organisation (`slack.py:155`), and two
organisations may both link one GitHub account (`github.py:209`). Content variants of a
regeneration point to a revision that is not stored, two requests for changes share a
revision number, and an approval may overtake a blocking variant. The content graph's
deliver node marks the package approved with no row in `content_review_events`, over
whatever the route decided meanwhile (`orchestration/graphs/content_graph.py:231`). The
token lock belongs to the first event loop that uses it.

*Services.* A definition's run is queued with an event type no surface handles and is never
started; a cancelled run is overwritten by its job; a run can be retried once. A job that
dies keeps its candidates claimed (`curation_workflow.py:5` says pending), and one that
rejects marks them applied. The curator's prompt has it call `supersede_memory` and return
the SUPERSEDE, which is then applied once more (`agents/prompts.py:1141`,
`curation_workflow.py:132`); a batch released after its tools have written is curated
again on top of them. A live evaluation may fall back to recorded output
(`documentation_evaluation.py:76`). A Discord guild may have two owners (`discord.py:263`);
"revise" is shown as a rejection; the duplicate guard forgets everything at 500 entries. An
e-mail that failed is marked sent (`notifier.py`), and a claim of a dead attempt is never
sent. A watcher who reconnects with a Last-Event-ID is shown frames twice, more than
1500 envelopes lose the middle, and a resumed run counts from 1 again, so that its frames are
skipped as old (`runner.py:196`). The row of an audit may be opened after it was closed, and an
invocation that raises leaves `run`, `resume_review` and `resume_intervention` before the
drain, so its last steps may be lost with the job's loop (`runner.py:557`, `:747`, `:1111`).
Shutdown does not stop work first (`lifecycle.py:143`), and a Redis client that fails to
close leaves the database open.

## 10 What is not modelled

`PROJECT.json` lists every component with its reason. In short: what agents write and
graders say (free choices of the models), prompts, skills, tools and clients of external
services; formatting, logging, metrics; authentication; retrieval and ranking, embeddings
and measured model scores, which are floating-point computations; the feedback loop's
classification. Within the modelled files: `reserve_next_version` and read queries of the
page repository; intervention expiry, because no code sets `expires_at`; an intervention
lookup that raises inside `_store_interrupts`; the effects of `_resume_documentation_pages`,
which are PageWorkflow's decisions; the revised run of request_changes, which is a new
event; the scripted transports of `evaluation/online.py`; a steering handler without a
counter store, which reserves nothing (`policy.py:565`); the second penalty a stream's
provider gets when the failover finds no candidate (`integrations/strands/models.py:253`);
several Slack posts of one support run, and posts of resumed runs; onboarding without Redis,
where the lock always succeeds (`init_lock.py:30`), and the run id that the status route
repeats (`onboarding.py:845`); a resumption answered by the API process, whose loop goes on
and lets an audit flush finish; webhook events that name a `workflow_definition_id`; stage
three to five of onboarding beyond their outcome; `current_stage` and `stage_states` of a
run's progress.

## 11 Plan

1. An abstract task queue (a task is open, taken, finished once) that PageWorkflow
   implements when no lease is overrun, as a refinement.
2. The feedback loop's gap counters, where overlapping loops overwrite newer counts.

## 12 Running it

    tlc -config page_single.cfg MCPageWorkflow
    tlc -config run_calls.cfg MCRunLifecycle
    tlc -config agents.cfg MCAgents
    tlc -config knowledge.cfg MCKnowledge
    tlc -config services.cfg MCServices
    tlapm PageWorkflowProofs.tla      (and the other *Proofs.tla)

The longest runs visit several million states and take a few minutes; so do the proofs.
Definitions marked "Mutant" change one definition the way a plausible bug
would; `PROJECT.json` pairs each with the property it must break.
