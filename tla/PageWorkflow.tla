---------------------------- MODULE PageWorkflow ----------------------------
(***************************************************************************)
(* The durable page workflow of one documentation run                      *)
(* (src/draftly/orchestration/page_workflow).  Three tables hold its       *)
(* durable state: documentation_page_states (page), documentation_         *)
(* workflow_tasks (tasks) and documentation_page_evaluations (evals), next *)
(* to the sealed rows of draft_revisions (sealed).  A worker is one        *)
(* process that either drives the task graph (the "document" graph node,   *)
(* or a request_changes decision) or applies an approve or reject          *)
(* decision.  A database round trip of a worker is a step of its own, with *)
(* three exceptions that join neighbouring statements: StartInvoke the     *)
(* inserts of create_pages, SeedPage the two tasks of a page, and Promote  *)
(* the read of the sealed artifact and record_artifact.  A crash loses     *)
(* everything but the tables.                                              *)
(*                                                                         *)
(* An artifact is named by its page and version: draft_revisions has one   *)
(* row per (run, path, version), and a sealed row never changes, so its    *)
(* id, its content hash and the deterministic quality gate's verdict on it *)
(* are functions of that pair.                                             *)
(***************************************************************************)
EXTENDS Naturals, FiniteSets

CONSTANTS
    Pages,                  \* page ids: the canonical repository paths
    NoEvidence,             \* the pages whose plan carries no usable evidence
    Workers,                \* processes that may touch this run, each used once
    MaxAttempts,            \* MAX_AUTOMATIC_EVALUATION_ATTEMPTS, at most 3
    BatchLimit,             \* tasks claimed per round: 10 in the code
    WriteConcurrency,       \* slots of the write semaphore
    EvaluationConcurrency,  \* slots of the semaphore of every other task type
    Decisions,              \* the review decisions that arrive in this run
    CanFail,                \* may a handler raise an infrastructure error?
    CanCrash,               \* may a worker die, or its node time out?
    MaxOverruns             \* bound: how often a batch outlasts lease_seconds

ASSUME PagesAssumption ==
    /\ Pages # {} /\ IsFiniteSet(Pages)
    /\ NoEvidence \subseteq Pages

ASSUME BudgetAssumption == MaxAttempts \in 1..3

ASSUME PoolAssumption ==
    /\ BatchLimit \in Nat \ {0}
    /\ WriteConcurrency \in Nat \ {0}
    /\ EvaluationConcurrency \in Nat \ {0}

ASSUME EnvironmentAssumption ==
    /\ Decisions \subseteq {"approve", "request_changes", "reject"}
    /\ CanFail \in BOOLEAN
    /\ CanCrash \in BOOLEAN
    /\ MaxOverruns \in Nat

VARIABLES
    page,      \* documentation_page_states, one row per page
    sealed,    \* versions of each page's draft that are sealed
    good,      \* sealed versions the deterministic quality gate accepts
    evals,     \* documentation_page_evaluations
    tasks,     \* documentation_workflow_tasks: task id -> row
    pc,        \* where each worker is
    role,      \* what each worker was started for
    batch,     \* each worker's claimed tasks and how far their handlers are
    outcome,   \* how executor.run went: "none", "failed" or "deadlocked"
    held,      \* page ids a decision read before it acts on them
    result,    \* what each worker's call reported to the graph
    overruns   \* leases that expired under a live worker so far

tables  == <<page, sealed, good, evals, tasks>>
control == <<pc, role, outcome, held, result, overruns>>
vars    == <<page, sealed, good, evals, tasks,
             pc, role, batch, outcome, held, result, overruns>>

-----------------------------------------------------------------------------
(* Task ids and rows.                                                      *)

Version == Nat \ {0}

WriteTask(p, v)    == [kind |-> "write",    page |-> p, version |-> v]
EvaluateTask(p, v) == [kind |-> "evaluate", page |-> p, version |-> v]
\* cross-page-review:<digest of the accepted artifact of every page>
ReviewTask(snapshot) == [kind |-> "cross_page_review", snapshot |-> snapshot]

PageTask == [kind : {"write", "evaluate"}, page : Pages, version : Version]
Task == PageTask \cup [kind : {"cross_page_review"}, snapshot : [Pages -> Nat]]

PageStatus == {"absent", "pending", "evaluating", "revising", "passed",
               "awaiting_human_review", "failed"}
TaskStatus == {"pending", "running", "completed", "failed", "cancelled"}
EvalStatus == {"passed", "revision_required", "awaiting_human_review"}

PageRow == [status : PageStatus, latest : Nat, next : Version, attempt : Nat]
TaskRow == [status  : TaskStatus,
            retries : 0..1,              \* infrastructure_retries
            owner   : {"none", "page-workflow-executor"},
            lease   : {"none", "live", "expired"},
            deps    : SUBSET Task,
            attempt : Nat,               \* input_data.attempt of an evaluate task
            human   : BOOLEAN,           \* input_data.human_guided
            source  : Nat]               \* version an evaluation asks to revise
EvalRow == [page : Pages, version : Version, attempt : Nat, status : EvalStatus]

\* The lease owner is a default argument: the same string in every process.
LeaseOwner(w) == "page-workflow-executor"

NewRow(deps, attempt, human, source) ==
    [status |-> "pending", retries |-> 0, owner |-> "none", lease |-> "none",
     deps |-> deps, attempt |-> attempt, human |-> human, source |-> source]

\* INSERT ... ON CONFLICT (run_id, task_id) DO NOTHING, for a set of rows.
Enqueue(rows) ==
    [t \in DOMAIN tasks \cup DOMAIN rows |->
        IF t \in DOMAIN tasks THEN tasks[t] ELSE rows[t]]

\* The write/evaluate pair of each page of P, for version ver[p]; the
\* evaluation waits for the write of version t.version + offset.
PairsAt(P, ver, att, human, source, offset) ==
    [t \in {WriteTask(p, ver[p]) : p \in P} \cup {EvaluateTask(p, ver[p]) : p \in P} |->
        IF t.kind = "write"
        THEN NewRow({}, 0, human, source[t.page])
        ELSE NewRow({WriteTask(t.page, t.version + offset)}, att[t.page], human, 0)]

\* Mutant: the evaluation depends on the write of the next version.
PairsWrongDependency(P, ver, att, human, source) == PairsAt(P, ver, att, human, source, 1)

Pairs(P, ver, att, human, source) == PairsAt(P, ver, att, human, source, 0)

NoPages == [p \in Pages |-> 0]
Latest  == [p \in Pages |-> page[p].latest]

\* get_path_latest: the newest sealed version of the page, 0 when there is none.
LatestSealed(p) ==
    CHOOSE v \in sealed[p] \cup {0} : \A u \in sealed[p] : u <= v

Ready(t) ==
    /\ tasks[t].status = "pending"
    /\ \A d \in tasks[t].deps : d \in DOMAIN tasks /\ tasks[d].status = "completed"

AllPassed == \A p \in Pages : page[p].status = "passed"
Settled   == \A p \in Pages : page[p].status \in {"passed", "awaiting_human_review"}
Escalated == {p \in Pages : page[p].status = "awaiting_human_review"}

-----------------------------------------------------------------------------
(* Workers and handlers.                                                   *)

Terminal == {"reported", "failed", "deadlocked", "crashed"}
WorkerPc == {"off", "seed", "reset", "claim", "snapshot", "run", "report",
             "approve", "changes", "cancel", "reject"} \cup Terminal
Live(w)  == pc[w] \notin Terminal \cup {"off"}

HandlerAt == {"ready", "writing", "promote", "replay", "record", "revise",
              "count", "enqueue", "verdict", "ok", "error"}
Handler == [at : HandlerAt, ver : [Pages -> Nat], att : [Pages -> Nat]]
Fresh   == [at |-> "ready", ver |-> NoPages, att |-> NoPages]
NoBatch == [t \in {} |-> Fresh]

Init ==
    /\ page   = [p \in Pages |-> [status |-> "absent", latest |-> 0, next |-> 1, attempt |-> 0]]
    /\ sealed = [p \in Pages |-> {}]
    /\ good   = [p \in Pages |-> {}]
    /\ evals  = {}
    /\ tasks  = NoBatch
    /\ pc      = [w \in Workers |-> "off"]
    /\ role    = [w \in Workers |-> "none"]
    /\ batch   = [w \in Workers |-> NoBatch]
    /\ outcome = [w \in Workers |-> "none"]
    /\ held    = [w \in Workers |-> {}]
    /\ result  = [w \in Workers |-> "none"]
    /\ overruns = 0

Goto(w, label) == pc' = [pc EXCEPT ![w] = label]

\* The handler of t moves on, to a step that holds nothing.
Advance(w, t, label) == batch' = [batch EXCEPT ![w][t].at = label]

-----------------------------------------------------------------------------
(* DocumentationWorkflowNode.invoke_async: seed, run, report.              *)

\* The run is claimed once; the node is re-entered only after a crash.
StartInvoke(w) ==
    /\ pc[w] = "off"
    /\ \A u \in Workers : role[u] = "invoke" => pc[u] = "crashed"
    /\ role' = [role EXCEPT ![w] = "invoke"]
    /\ Goto(w, "seed")
    /\ page' = [p \in Pages |->
                  IF page[p].status = "absent" THEN [page[p] EXCEPT !.status = "pending"]
                                               ELSE page[p]]
    /\ UNCHANGED <<sealed, good, evals, tasks, batch, outcome, held, result, overruns>>

\* The v1 pair of one page; the executor starts once every page has its pair.
SeedPage(w, p) ==
    LET one  == [q \in Pages |-> 1]
        rows == Enqueue(Pairs({p}, one, one, FALSE, NoPages))
    IN /\ pc[w] = "seed"
       /\ p \notin held[w]
       /\ tasks' = rows
       /\ held'  = [held EXCEPT ![w] = IF @ \cup {p} = Pages THEN {} ELSE @ \cup {p}]
       /\ Goto(w, IF held[w] \cup {p} = Pages THEN "reset" ELSE "seed")
       /\ UNCHANGED <<page, sealed, good, evals, role, batch, outcome, result, overruns>>

\* The aggregate report read from the page states after executor.run returned.
Report(w) ==
    /\ pc[w] = "report"
    /\ result' = [result EXCEPT ![w] = IF AllPassed THEN "passed"
                                       ELSE IF Settled THEN "ready_for_review"
                                       ELSE "not_ready"]
    /\ Goto(w, "reported")
    /\ UNCHANGED <<page, sealed, good, evals, tasks, role, batch, outcome, held, overruns>>

-----------------------------------------------------------------------------
(* PageWorkflowExecutor._drive.                                            *)

Recycle(w, leases) ==
    /\ pc[w] = "reset"
    /\ tasks' = [t \in DOMAIN tasks |->
                   IF tasks[t].status = "running" /\ tasks[t].lease \in leases
                   THEN [tasks[t] EXCEPT !.status = "pending", !.owner = "none", !.lease = "none"]
                   ELSE tasks[t]]
    /\ Goto(w, "claim")
    /\ UNCHANGED <<page, sealed, good, evals, role, batch, outcome, held, result, overruns>>

\* Mutant: every running task is recycled, its lease notwithstanding.
ResetAllLeases(w) == Recycle(w, {"live", "expired"})

ResetExpiredLeases(w) == Recycle(w, {"expired"})

ClaimReadyTasks(w) ==
    LET ready == {t \in DOMAIN tasks : Ready(t)}
    IN /\ pc[w] = "claim"
       /\ \E claimed \in SUBSET ready :
            /\ Cardinality(claimed) <= BatchLimit
            /\ claimed # ready => Cardinality(claimed) = BatchLimit
            /\ tasks' = [t \in DOMAIN tasks |->
                           IF t \in claimed
                           THEN [tasks[t] EXCEPT !.status = "running",
                                                 !.owner = LeaseOwner(w), !.lease = "live"]
                           ELSE tasks[t]]
            /\ batch' = [batch EXCEPT ![w] = [t \in claimed |-> Fresh]]
            /\ Goto(w, IF claimed = {} THEN "snapshot" ELSE "run")
       /\ UNCHANGED <<page, sealed, good, evals, role, outcome, held, result, overruns>>

\* Nothing was claimable: a later query decides between waiting, deadlock and done.
TakeSnapshot(w) ==
    LET with(s) == {t \in DOMAIN tasks : tasks[t].status = s}
    IN /\ pc[w] = "snapshot"
       /\ Goto(w, IF with("pending") # {} /\ with("running") = {}
                  THEN IF role[w] = "invoke" THEN "deadlocked" ELSE "report"
                  ELSE IF with("pending") \cup with("running") # {} THEN "reset"
                  ELSE "report")
       /\ outcome' = [outcome EXCEPT ![w] = IF with("pending") # {} /\ with("running") = {}
                                           THEN "deadlocked" ELSE @]
       /\ UNCHANGED <<page, sealed, good, evals, tasks, role, batch, held, result, overruns>>

\* asyncio.gather returns when every handler has finished; outcomes are then
\* persisted one call at a time.
Gathered(w) == pc[w] = "run" /\ \A t \in DOMAIN batch[w] : batch[w][t].at \in {"ok", "error"}

Without(f, t) == [x \in DOMAIN f \ {t} |-> f[x]]

\* The round's end: a failed task ends the call, otherwise the loop continues.
\* resume() does not look at the failed tasks, invoke_async fails the node.
AfterSettling(w, t, failed) ==
    /\ batch'   = [batch EXCEPT ![w] = Without(@, t)]
    /\ outcome' = [outcome EXCEPT ![w] = IF failed THEN "failed" ELSE @]
    /\ Goto(w, IF DOMAIN batch[w] # {t} THEN "run"
               ELSE IF outcome[w] = "none" /\ ~failed THEN "reset"
               ELSE IF role[w] = "invoke" THEN "failed" ELSE "report")
    /\ UNCHANGED <<page, sealed, good, evals, role, held, result, overruns>>

Owned(w, t) == tasks[t].status = "running" /\ tasks[t].owner = LeaseOwner(w)

CompleteTask(w, t) ==
    /\ Gathered(w)
    /\ batch[w][t].at = "ok"
    /\ tasks' = IF Owned(w, t) THEN [tasks EXCEPT ![t].status = "completed"] ELSE tasks
    /\ AfterSettling(w, t, FALSE)

RetryOrFail(w, t, again, retries) ==
    /\ Gathered(w)
    /\ batch[w][t].at = "error"
    /\ tasks' = IF Owned(w, t)
                THEN [tasks EXCEPT ![t].status = IF again THEN "pending" ELSE "failed",
                                   ![t].retries = retries,
                                   ![t].owner = "none", ![t].lease = "none"]
                ELSE tasks
    /\ AfterSettling(w, t, Owned(w, t) /\ ~again)
RetryForever(w, t)  == RetryOrFail(w, t, TRUE, 1)

RetryOrFailTask(w, t) == RetryOrFail(w, t, tasks[t].retries < 1, 1)

-----------------------------------------------------------------------------
(* Handlers.  A handler waits for a slot of its pool before its first step. *)

InPool(t, write) == (t.kind = "write") = write
Started(w, write) ==
    {t \in DOMAIN batch[w] : InPool(t, write) /\ batch[w][t].at \notin {"ready", "ok", "error"}}

At(w, t, label) ==
    /\ pc[w] = "run"
    /\ t \in DOMAIN batch[w]
    /\ batch[w][t].at = label
    /\ label = "ready" =>
         Cardinality(Started(w, t.kind = "write"))
           < (IF t.kind = "write" THEN WriteConcurrency ELSE EvaluationConcurrency)

\* Any exception of a model call, a tool or the database, a writer that ends
\* without a sealed draft, a reviewer that returns no usable verdict.
HandlerFails(w, t) ==
    /\ CanFail
    /\ pc[w] = "run"
    /\ t \in DOMAIN batch[w]
    /\ batch[w][t].at \notin {"ok", "error"}
    /\ Advance(w, t, "error")
    /\ UNCHANGED <<tables, control>>

(* PageWriterHandler.                                                      *)

\* prepare_versioned_write, then the revision source check.
WriterPrepare(w, t) ==
    /\ t.kind = "write"
    /\ At(w, t, "ready")
    /\ Advance(w, t,
         IF t.version \in sealed[t.page] THEN "replay"
         ELSE IF tasks[t].source \notin {0, LatestSealed(t.page)} THEN "error"
         ELSE "writing")
    /\ UNCHANGED <<tables, control>>

\* The writer agent finalizes the draft, or finds it sealed already.
WriterSeals(w, t) ==
    /\ t.kind = "write"
    /\ At(w, t, "writing")
    /\ sealed' = [sealed EXCEPT ![t.page] = @ \cup {t.version}]
    /\ IF t.version \in sealed[t.page]
       THEN good' = good
       ELSE \E accepted \in SUBSET {t.version} : good' = [good EXCEPT ![t.page] = @ \cup accepted]
    /\ Advance(w, t, "promote")
    /\ UNCHANGED <<page, evals, tasks, control>>

\* record_artifact, after the artifact check of a fresh write ("promote") or
\* straight from prepare_versioned_write ("replay").
Promote(w, t, accepted) ==
    LET fresh == At(w, t, "promote") => LatestSealed(t.page) = t.version
    IN /\ t.kind = "write"
       /\ At(w, t, "promote") \/ At(w, t, "replay")
       /\ IF fresh /\ accepted
          THEN /\ page' = [page EXCEPT ![t.page].latest = t.version, ![t.page].status = "evaluating"]
               /\ Advance(w, t, "ok")
          ELSE /\ page' = page
               /\ Advance(w, t, "error")
       /\ UNCHANGED <<sealed, good, evals, tasks, control>>

\* Mutant: the UPDATE has no condition on latest_version.
PromoteAlways(w, t) == Promote(w, t, TRUE)

RecordArtifact(w, t) == Promote(w, t, page[t.page].latest <= t.version)

(* PageEvaluatorHandler.                                                   *)

Verdict(t) ==
    IF t.page \in NoEvidence THEN "awaiting_human_review"
    ELSE IF t.version \in good[t.page] THEN "passed"
    ELSE IF tasks[t].human \/ tasks[t].attempt >= MaxAttempts THEN "awaiting_human_review"
    ELSE "revision_required"

EvaluatorReads(w, t) ==
    /\ t.kind = "evaluate"
    /\ At(w, t, "ready")
    /\ Advance(w, t,
         IF tasks[t].attempt \in 1..MaxAttempts /\ LatestSealed(t.page) = t.version
         THEN "record" ELSE "error")
    /\ UNCHANGED <<tables, control>>

\* record_evaluation: the first evaluation of an artifact stays, and the page
\* state is projected from the stored row.
Stored(p, v) == {e \in evals : e.page = p /\ e.version = v}

StoreEvaluation(w, t, counted, skip) ==
    LET p == t.page
        v == t.version
        row == [page |-> p, version |-> v, attempt |-> tasks[t].attempt, status |-> Verdict(t)]
    IN /\ t.kind = "evaluate"
       /\ At(w, t, "record")
       /\ IF page[p].latest = v
          THEN \E e \in IF Stored(p, v) = {} THEN {row} ELSE Stored(p, v) :
                 /\ evals' = evals \cup {e}
                 /\ page' = [page EXCEPT
                      ![p].attempt = IF e.status \in counted THEN e.attempt ELSE @,
                      ![p].status = IF e.status = "revision_required" THEN "revising" ELSE e.status]
                 /\ Advance(w, t, IF skip /\ Stored(p, v) # {} THEN "ok"
                                  ELSE IF row.status = "revision_required" THEN "revise"
                                  ELSE IF row.status = "passed" THEN "count"
                                  ELSE "ok")
          ELSE UNCHANGED <<evals, page>> /\ Advance(w, t, "error")
       /\ UNCHANGED <<sealed, good, tasks, control>>

\* Mutants: a passing evaluation does not count as an attempt; a replayed
\* evaluation returns without scheduling what should follow it.
StoreEvaluationUncounted(w, t) == StoreEvaluation(w, t, EvalStatus \ {"passed"}, FALSE)
StoreEvaluationOnce(w, t)      == StoreEvaluation(w, t, EvalStatus, TRUE)

RecordEvaluation(w, t) == StoreEvaluation(w, t, EvalStatus, FALSE)

\* schedule_revisions for the pages of P: all of them or none.
Schedulable(P, ver, att) ==
    \A p \in P : /\ att[p] \in 1..3
                 /\ page[p].latest = ver[p]
                 /\ page[p].attempt + 1 = att[p]

ScheduleAt(P, next, att, source) ==
    /\ page' = [p \in Pages |->
                  IF p \in P
                  THEN [page[p] EXCEPT !.status = "revising",
                          !.next = IF @ < next[p] + 1 THEN next[p] + 1 ELSE @]
                  ELSE page[p]]
    /\ tasks' = Enqueue(Pairs(P, next, att, FALSE, source))

ScheduleRevisions(P, ver, att, source) ==
    ScheduleAt(P, [p \in Pages |-> ver[p] + 1], att, source)

EvaluatorRevises(w, t) ==
    LET ver == [p \in Pages |-> t.version]
        att == [p \in Pages |-> tasks[t].attempt + 1]
    IN /\ t.kind = "evaluate"
       /\ At(w, t, "revise")
       /\ IF Schedulable({t.page}, ver, att)
          THEN ScheduleRevisions({t.page}, ver, att, ver) /\ Advance(w, t, "ok")
          ELSE UNCHANGED <<page, tasks>> /\ Advance(w, t, "error")
       /\ UNCHANGED <<sealed, good, evals, control>>

\* _schedule_review_if_ready: the page states are read first ...
EvaluatorCounts(w, t) ==
    /\ t.kind = "evaluate"
    /\ At(w, t, "count")
    /\ batch' = [batch EXCEPT ![w][t] =
                   IF AllPassed THEN [@ EXCEPT !.at = "enqueue", !.ver = Latest]
                                ELSE [@ EXCEPT !.at = "ok"]]
    /\ UNCHANGED <<tables, control>>

\* ... and the review of exactly those artifacts is enqueued afterwards.
EnqueueReview(w, t, id) ==
    /\ t.kind = "evaluate"
    /\ At(w, t, "enqueue")
    /\ IF \A p \in Pages : LatestSealed(p) = batch[w][t].ver[p]
       THEN /\ tasks' = Enqueue([r \in {ReviewTask(id)} |-> NewRow({t}, 0, FALSE, 0)])
            /\ Advance(w, t, "ok")
       ELSE tasks' = tasks /\ Advance(w, t, "error")
    /\ UNCHANGED <<page, sealed, good, evals, control>>

\* Mutant: the review id does not depend on the artifacts.
EnqueueOneReview(w, t) == EnqueueReview(w, t, [p \in Pages |-> 1])

EvaluatorEnqueuesReview(w, t) == EnqueueReview(w, t, batch[w][t].ver)

(* CrossPageReviewHandler.                                                 *)

\* Every page passed, or is already being corrected by an earlier, unfinished
\* execution of this same review.
Reviewable(t) ==
    \A p \in Pages :
        /\ \/ page[p].status = "passed"
           \/ page[p].status = "revising" /\ page[p].latest = t.snapshot[p]
        /\ page[p].latest >= 1
        /\ LatestSealed(p) = page[p].latest
        /\ page[p].latest = t.snapshot[p]

ReviewerReads(w, t) ==
    /\ t.kind = "cross_page_review"
    /\ At(w, t, "ready")
    /\ batch' = [batch EXCEPT ![w][t] =
                   IF Reviewable(t)
                   THEN [at |-> "verdict", ver |-> Latest,
                         att |-> [p \in Pages |-> page[p].attempt]]
                   ELSE [@ EXCEPT !.at = "error"]]
    /\ UNCHANGED <<tables, control>>

ReviewerClean(w, t) ==
    /\ t.kind = "cross_page_review"
    /\ At(w, t, "verdict")
    /\ Advance(w, t, "ok")
    /\ UNCHANGED <<tables, control>>

\* The corrections name a set of pages; their budget is checked against the
\* states read before the model was called.
ReviewerCorrects(w, t) ==
    LET ver  == batch[w][t].ver
        next == [p \in Pages |-> batch[w][t].att[p] + 1]
    IN /\ t.kind = "cross_page_review"
       /\ At(w, t, "verdict")
       /\ \E P \in (SUBSET Pages) \ {{}} :
            IF (\A p \in P : next[p] <= MaxAttempts) /\ Schedulable(P, ver, next)
            THEN ScheduleRevisions(P, ver, next, NoPages) /\ Advance(w, t, "ok")
            ELSE UNCHANGED <<page, tasks>> /\ Advance(w, t, "error")
       /\ UNCHANGED <<sealed, good, evals, control>>

-----------------------------------------------------------------------------
(* DocumentationWorkflowNode.resume: human decisions.  They exist once the *)
(* node reported a settled run and its change waits at the review gate.    *)

GateOpen == \E w \in Workers : role[w] = "invoke" /\ result[w] \in {"passed", "ready_for_review"}

StartDecision(w, decision, label) ==
    /\ pc[w] = "off"
    /\ GateOpen
    /\ decision \in Decisions
    /\ role' = [role EXCEPT ![w] = decision]
    /\ held' = [held EXCEPT ![w] = Escalated]
    /\ Goto(w, IF Escalated = {} THEN "report" ELSE label)

StartApprove(w) ==
    /\ StartDecision(w, "approve", "approve")
    /\ UNCHANGED <<page, sealed, good, evals, tasks, batch, outcome, result, overruns>>

\* approve_escalated_pages: one conditional UPDATE per page read before.
Approve(w, p, statuses) ==
    /\ pc[w] = "approve"
    /\ p \in held[w]
    /\ page' = IF page[p].status \in statuses
               THEN [page EXCEPT ![p].status = "passed"] ELSE page
    /\ held' = [held EXCEPT ![w] = @ \ {p}]
    /\ Goto(w, IF held[w] = {p} THEN "report" ELSE "approve")
    /\ UNCHANGED <<sealed, good, evals, tasks, role, batch, outcome, result, overruns>>

\* Mutant: the UPDATE does not check the page's status.
ApproveAnyway(w, p) == Approve(w, p, PageStatus)

ApprovePage(w, p) == Approve(w, p, {"awaiting_human_review"})

StartRequestChanges(w) ==
    /\ StartDecision(w, "request_changes", "changes")
    /\ UNCHANGED <<page, sealed, good, evals, tasks, batch, outcome, result, overruns>>

ScheduleHumanRevisions(w) ==
    LET next == [p \in Pages |-> page[p].latest + 1]
        att  == [p \in Pages |-> page[p].attempt]
    IN /\ pc[w] = "changes"
       /\ page' = [p \in Pages |->
                     IF p \in Escalated
                     THEN [page[p] EXCEPT !.status = "revising",
                             !.next = IF @ < next[p] + 1 THEN next[p] + 1 ELSE @]
                     ELSE page[p]]
       /\ tasks' = Enqueue(Pairs(Escalated, next, att, TRUE, NoPages))
       /\ held' = [held EXCEPT ![w] = {}]
       /\ Goto(w, "reset")
       /\ UNCHANGED <<sealed, good, evals, role, batch, outcome, result, overruns>>

StartReject(w) ==
    /\ StartDecision(w, "reject", "cancel")
    /\ UNCHANGED <<page, sealed, good, evals, tasks, batch, outcome, result, overruns>>

\* reject, first statement.
CancelPendingTasks(w) ==
    /\ pc[w] = "cancel"
    /\ tasks' = [t \in DOMAIN tasks |->
                   IF tasks[t].status \in {"pending", "running"}
                   THEN [tasks[t] EXCEPT !.status = "cancelled"] ELSE tasks[t]]
    /\ Goto(w, "reject")
    /\ UNCHANGED <<page, sealed, good, evals, role, batch, outcome, held, result, overruns>>

\* Second statement: mark_escalated_failed.
MarkEscalatedFailed(w) ==
    /\ pc[w] = "reject"
    /\ page' = [p \in Pages |-> IF p \in Escalated THEN [page[p] EXCEPT !.status = "failed"]
                                                   ELSE page[p]]
    /\ held' = [held EXCEPT ![w] = {}]
    /\ Goto(w, "report")
    /\ UNCHANGED <<sealed, good, evals, tasks, role, batch, outcome, result, overruns>>

-----------------------------------------------------------------------------
(* The environment: time and death.                                        *)

\* now() passes lease_expires_at.  There is no heartbeat, so nothing but a
\* batch ending in time keeps the lease of a live worker from expiring.
LeaseExpires(t) ==
    LET inUse == \E w \in Workers : Live(w) /\ t \in DOMAIN batch[w]
    IN /\ tasks[t].status = "running"
       /\ tasks[t].lease = "live"
       /\ inUse => overruns < MaxOverruns
       /\ tasks' = [tasks EXCEPT ![t].lease = "expired"]
       /\ overruns' = IF inUse THEN overruns + 1 ELSE overruns
       /\ UNCHANGED <<page, sealed, good, evals, pc, role, batch, outcome, held, result>>

\* The process dies, the node times out and its coroutine is cancelled, or a
\* repository call raises out of the scheduling loop.
Crash(w) ==
    /\ CanCrash
    /\ Live(w)
    /\ Goto(w, "crashed")
    /\ batch' = [batch EXCEPT ![w] = NoBatch]
    /\ held'  = [held EXCEPT ![w] = {}]
    /\ UNCHANGED <<tables, role, outcome, result, overruns>>

-----------------------------------------------------------------------------

HandlerStep(w, t) ==
    \/ WriterPrepare(w, t) \/ WriterSeals(w, t) \/ RecordArtifact(w, t)
    \/ EvaluatorReads(w, t) \/ RecordEvaluation(w, t) \/ EvaluatorRevises(w, t)
    \/ EvaluatorCounts(w, t) \/ EvaluatorEnqueuesReview(w, t)
    \/ ReviewerReads(w, t) \/ ReviewerClean(w, t) \/ ReviewerCorrects(w, t)
    \/ HandlerFails(w, t)

ExecutorStep(w) ==
    \/ ResetExpiredLeases(w) \/ ClaimReadyTasks(w) \/ TakeSnapshot(w) \/ Report(w)
    \/ \E t \in DOMAIN batch[w] : CompleteTask(w, t) \/ RetryOrFailTask(w, t) \/ HandlerStep(w, t)

DecisionStep(w) ==
    \/ \E p \in Pages : ApprovePage(w, p)
    \/ ScheduleHumanRevisions(w) \/ CancelPendingTasks(w) \/ MarkEscalatedFailed(w)

Step(w) == (\E p \in Pages : SeedPage(w, p)) \/ ExecutorStep(w) \/ DecisionStep(w)

Start(w) == StartInvoke(w) \/ StartApprove(w) \/ StartRequestChanges(w) \/ StartReject(w)

\* Nobody is working on the run.
Quiet == (\A w \in Workers : ~Live(w)) /\ UNCHANGED vars

Next ==
    \/ \E w \in Workers : Start(w) \/ Step(w) \/ Crash(w)
    \/ \E t \in DOMAIN tasks : LeaseExpires(t)
    \/ Quiet

Spec == Init /\ [][Next]_vars

\* A live worker keeps working, and time passes.
Fairness ==
    /\ \A w \in Workers : WF_vars(Step(w))
    /\ WF_vars(\E t \in DOMAIN tasks : LeaseExpires(t))

FairSpec == Spec /\ Fairness

-----------------------------------------------------------------------------
(* Properties.                                                             *)

\* f is a table: a function on some of the keys K whose rows are in R.
TableOf(f, K, R) ==
    /\ f = [k \in DOMAIN f |-> f[k]]
    /\ DOMAIN f \subseteq K
    /\ \A k \in DOMAIN f : f[k] \in R

TablesOK ==
    /\ page \in [Pages -> PageRow]
    /\ sealed \in [Pages -> SUBSET Version]
    /\ good \in [Pages -> SUBSET Version]
    /\ evals \subseteq EvalRow
    /\ TableOf(tasks, Task, TaskRow)

BatchOK ==
    /\ batch = [w \in Workers |-> batch[w]]
    /\ \A w \in Workers : TableOf(batch[w], DOMAIN tasks, Handler)

ControlOK ==
    /\ pc \in [Workers -> WorkerPc]
    /\ role \in [Workers -> {"none", "invoke", "approve", "request_changes", "reject"}]
    /\ outcome \in [Workers -> {"none", "failed", "deadlocked"}]
    /\ held \in [Workers -> SUBSET Pages]
    /\ result \in [Workers -> {"none", "passed", "ready_for_review", "not_ready"}]
    /\ overruns \in 0..MaxOverruns

\* Every table row and every worker's memory has its declared shape (at most
\* one infrastructure retry among it), and a worker only holds tasks that are
\* in the table.
TypeOK == TablesOK /\ BatchOK /\ ControlOK

\* A page stands as passed only on the evaluation of its current artifact: that
\* evaluation passed it, or it escalated the page and an approve decision ran.
PassedWasJudged ==
    \A p \in Pages :
        /\ page[p].status = "passed" =>
             \E e \in Stored(p, page[p].latest) :
                \/ e.status = "passed"
                \/ e.status = "awaiting_human_review" /\ \E w \in Workers : role[w] = "approve"
        /\ page[p].status = "awaiting_human_review" =>
             \E e \in Stored(p, page[p].latest) : e.status = "awaiting_human_review"

\* Retries, replays and crashes never buy a page more automatic evaluations
\* than MAX_AUTOMATIC_EVALUATION_ATTEMPTS.
AutomaticBudget ==
    \A p \in Pages :
        Cardinality({e \in evals : /\ e.page = p
                                   /\ ~tasks[EvaluateTask(p, e.version)].human}) <= MaxAttempts

Unfinished(t) == t \in DOMAIN tasks /\ tasks[t].status # "completed"

\* Whatever a page waits for, the task that brings it is still in the table and
\* not completed: no page is left behind "evaluating" or "revising".
NoAbandonedPage ==
    \A p \in Pages :
        LET v == page[p].latest
        IN /\ page[p].status = "pending" =>
                Unfinished(WriteTask(p, 1)) \/ \E w \in Workers : role[w] = "invoke" /\ pc[w] \in {"seed", "crashed"}
           /\ page[p].status = "evaluating" => Unfinished(EvaluateTask(p, v))
           /\ page[p].status = "revising" =>
                Unfinished(EvaluateTask(p, v)) \/ Unfinished(WriteTask(p, v + 1))

\* The node reports "passed" only after a cross-page review of exactly the
\* artifacts it reports was completed.
PassedWasReviewed ==
    [][\A w \in Workers :
         /\ role[w] = "invoke"
         /\ result[w] = "none"
         /\ result'[w] = "passed"
         => ReviewTask(Latest) \in DOMAIN tasks /\ tasks[ReviewTask(Latest)].status = "completed"]_vars

\* "two workers never run the same task" (repository.py).
NoDoubleRun ==
    \A w, u \in Workers :
        w # u /\ Live(w) /\ Live(u) => DOMAIN batch[w] \cap DOMAIN batch[u] = {}

\* "Late completions cannot replace a newer artifact" (repository.py), and an
\* evaluation, once stored, stays as it is.
LateCompletionsLose ==
    [][/\ \A p \in Pages : page[p].latest <= page'[p].latest
       /\ evals \subseteq evals'
       /\ \A e \in evals' \ evals : Stored(e.page, e.version) = {}]_vars

\* What the executor tells the node is so: it returns normally only when every
\* page is passed or escalated, and raises DeadlockedWorkflowError, "Every pending
\* task names a dependency that is failed or cancelled", only when a task is
\* (executor.py run).
OutcomeIsTrue ==
    \A w \in Workers :
        /\ role[w] = "invoke" /\ pc[w] = "report" => Settled
        /\ outcome[w] = "deadlocked" =>
               \E t \in DOMAIN tasks : tasks[t].status \in {"failed", "cancelled"}

\* Every call that drives the run or applies a decision ends.
EveryCallEnds == \A w \in Workers : Live(w) ~> ~Live(w)
=============================================================================
