----------------------------- MODULE Onboarding -----------------------------
(***************************************************************************)
(* Onboarding of one organisation: the wizard's routes                     *)
(* (app/api/routes/onboarding.py), the Redis lock that admits one           *)
(* initialisation at a time (app/services/init_lock.py), the five stage     *)
(* pipeline (workflows/onboarding/initialize.py) run in the API process or  *)
(* by the RQ worker (workers/rq_worker.py), and the onboarding_state and    *)
(* jobs rows they share.  Every handler reads the row, awaits, and writes   *)
(* it back: reads and writes are separate steps.                            *)
(***************************************************************************)
EXTENDS Naturals, FiniteSets

CONSTANTS
    Requests,    \* requests in flight
    InitRuns,    \* run ids that can be drawn
    NoInitRun,
    RqModes,     \* the values of settings.rq_enabled to look at
    PublicDocs,  \* tavily_public_ingestion_enabled, tavily_research_enabled
    MaxInitFaults  \* bound: processes that die, writes that fail

ASSUME OnboardingAssumption ==
    /\ NoInitRun \notin InitRuns
    /\ RqModes \subseteq BOOLEAN /\ PublicDocs \in BOOLEAN /\ MaxInitFaults \in Nat

VARIABLES
    rqEnabled, \* settings.rq_enabled of the deployment
    row,      \* the onboarding_state row
    initLock, \* onboarding:init-lock, a run id or NoInitRun
    initJobs, \* status of the jobs row of a run, "none" without one
    req,      \* requests being handled
    pipe,     \* pipelines
    answered, \* run ids that an initialise request was answered with
    initFaults \* processes that died and writes that failed

onbVars == <<rqEnabled, row, initLock, initJobs, req, pipe, answered, initFaults>>
REQUIRED_STEPS == {"workspace", "github", "repository", "documentation", "initialization"}
SetupOps       == {"workspace", "github", "repository", "public", "sources", "integrations", "preferences"}

\* The state each route moves to, and the states _TRANSITIONS lets it start in.
StateOf == [workspace |-> "WORKSPACE_CREATED", github |-> "GITHUB_CONNECTED",
            repository |-> "REPOSITORY_SELECTED", public |-> "REPOSITORY_SELECTED",
            sources |-> "DOCUMENTATION_DISCOVERED", integrations |-> "INTEGRATIONS_CONFIGURED",
            preferences |-> "PREFERENCES_CONFIGURED"]
Before  == [workspace |-> "NOT_STARTED", github |-> "WORKSPACE_CREATED",
            repository |-> "GITHUB_CONNECTED", public |-> "GITHUB_CONNECTED",
            sources |-> "REPOSITORY_SELECTED", integrations |-> "DOCUMENTATION_DISCOVERED",
            preferences |-> "INTEGRATIONS_CONFIGURED"]
StepOf(op) == CASE op = "public" -> "repository" [] op = "sources" -> "documentation" [] OTHER -> op

_TRANSITIONS(op) == {Before[op], StateOf[op]}

NoSelection == [installed |-> FALSE, repo |-> FALSE, source |-> "github",
                run |-> NoInitRun, stage |-> 0, docs |-> FALSE]
NoRow       == [state |-> "NOT_STARTED", steps |-> {}, failure |-> FALSE, sel |-> NoSelection]
IdleRequest == [pc |-> "idle", op |-> "none", seen |-> NoRow, run |-> NoInitRun]
NoPipe      == [pc |-> "none", stage |-> 0, source |-> "github", seen |-> NoSelection, docs |-> FALSE]

\* The wizard has been filled in, or not begun.
WizardDone == [NoRow EXCEPT !.state = "PREFERENCES_CONFIGURED",
                            !.steps = REQUIRED_STEPS \ {"initialization"},
                            !.sel = [NoSelection EXCEPT !.installed = TRUE, !.repo = TRUE]]

OnbInitFor(r, rq) ==
    /\ rqEnabled = rq
    /\ row = r
    /\ initLock = NoInitRun
    /\ initJobs = [i \in InitRuns |-> "none"]
    /\ req      = [q \in Requests |-> IdleRequest]
    /\ pipe     = [i \in InitRuns |-> NoPipe]
    /\ answered = {}
    /\ initFaults = 0

OnbInit == \E r \in {NoRow, WizardDone}, rq \in RqModes : OnbInitFor(r, rq)

-----------------------------------------------------------------------------
(* The row.                                                                *)

\* Of the completed steps only the required ones are ever read.  upsert: only the
\* arguments that are not None are written.
upsert(state, sel)     == row' = [row EXCEPT !.state = state, !.sel = sel]
upsert_state(state)    == row' = [row EXCEPT !.state = state]
upsert_selection(sel)  == row' = [row EXCEPT !.sel = sel]
mark_step(step)        == row' = [row EXCEPT !.steps = @ \cup ({step} \cap REQUIRED_STEPS)]
mark_failed            == row' = [row EXCEPT !.state = "FAILED", !.failure = TRUE]
mark_step_and_set_state(step, state, sel) ==
    row' = [row EXCEPT !.steps = @ \cup {step}, !.state = state, !.sel = sel]

-----------------------------------------------------------------------------
(* The wizard.                                                             *)

Goes(q, pc) == req' = [req EXCEPT ![q].pc = pc]
Finish(q)   == req' = [req EXCEPT ![q] = IdleRequest]

\* _require_transition and the routes' own checks on what they read.
Accepts(op) ==
    /\ row.state \in _TRANSITIONS(op)
    /\ op = "repository" => row.sel.installed
    /\ op = "public"     => PublicDocs

SetupReads(q, op) ==
    /\ req[q].pc = "idle" /\ Accepts(op)
    /\ req' = [req EXCEPT ![q] = [IdleRequest EXCEPT !.pc = "write", !.op = op, !.seen = row]]
    /\ UNCHANGED <<row, initLock, initJobs, pipe, answered>>

\* What a route writes over the selection it read.  Choosing a repository of the
\* installation leaves an earlier source_type in place.
create_workspace(s)    == NoSelection
connect_github(s)      == [s EXCEPT !.installed = TRUE]
select_repository(s)   == [s EXCEPT !.repo = TRUE]
_select_public_repository(s) == [s EXCEPT !.repo = TRUE, !.source = "public"]

Selection(op, s) ==
    CASE op = "workspace"  -> create_workspace(s)
      [] op = "github"     -> connect_github(s)
      [] op = "repository" -> select_repository(s)
      [] op = "public"     -> _select_public_repository(s)
      [] OTHER             -> s

\* confirm_sources writes the patterns of a repository first, then the state.
confirm_sources(q) ==
    /\ req[q].pc = "write" /\ req[q].op = "sources" /\ req[q].seen.sel.source = "github"
    /\ upsert_selection(req[q].seen.sel) \/ UNCHANGED row
    /\ Goes(q, "state")
    /\ UNCHANGED <<initLock, initJobs, pipe, answered>>

SourcesState(q) ==
    /\ req[q].pc = "state"
    /\ upsert_state("DOCUMENTATION_DISCOVERED")
    /\ Goes(q, "mark")
    /\ UNCHANGED <<initLock, initJobs, pipe, answered>>

SetupWrites(q) ==
    LET r == req[q] IN
    /\ r.pc = "write"
    /\ r.op = "sources" => r.seen.sel.source = "public"
    /\ upsert(StateOf[r.op], Selection(r.op, r.seen.sel))
    /\ Goes(q, "mark")
    /\ UNCHANGED <<initLock, initJobs, pipe, answered>>

SetupMarks(q) ==
    /\ req[q].pc = "mark"
    /\ mark_step(StepOf(req[q].op))
    /\ Finish(q)
    /\ UNCHANGED <<initLock, initJobs, pipe, answered>>

\* complete_onboarding: nothing is written unless the corpus is indexed.
complete_onboarding(q) ==
    /\ req[q].pc = "idle"
    /\ row.sel.docs /\ row.state # "COMPLETED" /\ REQUIRED_STEPS \subseteq row.steps
    /\ req' = [req EXCEPT ![q] = [IdleRequest EXCEPT !.pc = "complete"]]
    /\ UNCHANGED <<row, initLock, initJobs, pipe, answered>>

CompleteWrites(q) ==
    /\ req[q].pc = "complete"
    /\ upsert_state("COMPLETED")
    /\ Finish(q)
    /\ UNCHANGED <<initLock, initJobs, pipe, answered>>

InitFault == initFaults < MaxInitFaults /\ initFaults' = initFaults + 1

\* A request that fails between two awaits.
RequestDies(q) ==
    /\ InitFault /\ req[q].pc # "idle"
    /\ Finish(q)
    /\ UNCHANGED <<row, initLock, initJobs, pipe, answered>>

-----------------------------------------------------------------------------
(* /initialize and /initialize/retry: _execute_initialization.             *)

Drawn == {i \in InitRuns : pipe[i].pc # "none" \/ initJobs[i] # "none"}
         \cup {req[q].run : q \in Requests} \cup {initLock, row.sel.run}

\* start_initialization from the last wizard state or to resume; retry after FAILED.
start_initialization == row.state \in {"INITIALIZING", "PREFERENCES_CONFIGURED"}
retry_initialize     == row.state = "FAILED"

InitializeReads(q) ==
    /\ req[q].pc = "idle"
    /\ start_initialization \/ retry_initialize
    /\ \E i \in InitRuns \ Drawn :
          req' = [req EXCEPT ![q] = [IdleRequest EXCEPT !.pc = "acquire", !.op = "initialize",
                                                        !.seen = row, !.run = i]]
    /\ UNCHANGED <<row, initLock, initJobs, pipe, answered>>

\* Mutant: the lock is set whether or not somebody holds it.
SetsAnyway(q) == initLock' = req[q].run /\ Goes(q, "preflight")

\* SET NX, in a deployment with Redis: without it every request is let in.
try_acquire_init_lock(q) ==
    IF initLock = NoInitRun
    THEN initLock' = req[q].run /\ Goes(q, "preflight")
    ELSE UNCHANGED initLock /\ Goes(q, IF req[q].pc = "acquire" THEN "held" ELSE "idle")

Acquire(q) ==
    /\ req[q].pc \in {"acquire", "reacquire"}
    /\ try_acquire_init_lock(q)
    /\ UNCHANGED <<row, initJobs, pipe, answered>>

\* Another run holds the lock: the stored run is resumed; without one the lock is
\* taken for a stale one.
LockHeld(q) ==
    /\ req[q].pc = "held"
    /\ IF row.sel.run # NoInitRun
       THEN req' = [req EXCEPT ![q].pc = "reconcile", ![q].run = row.sel.run]
       ELSE Goes(q, "force")
    /\ UNCHANGED <<row, initLock, initJobs, pipe, answered>>

force_release_init_lock(q) ==
    /\ req[q].pc = "force"
    /\ initLock' = NoInitRun
    /\ Goes(q, "reacquire")
    /\ UNCHANGED <<row, initJobs, pipe, answered>>

\* upsert_on_conflict leaves an existing row alone.
InsertJob(i) == initJobs' = [initJobs EXCEPT ![i] = IF @ = "none" THEN "pending" ELSE @]

\* Mutant: a resumed run is handed out as it is.
ResumeUnbacked(q) ==
    /\ req[q].pc = "reconcile"
    /\ answered' = answered \cup {req[q].run}
    /\ Finish(q)
    /\ UNCHANGED <<row, initLock, initJobs, pipe>>

Reconcile(q) ==
    /\ req[q].pc = "reconcile"
    /\ InsertJob(req[q].run)
    /\ answered' = answered \cup {req[q].run}
    /\ Finish(q)
    /\ UNCHANGED <<row, initLock, pipe>>

\* _initialize_selection_error.
SelectionError(sel) == ~sel.repo

Preflight(q) ==
    /\ req[q].pc = "preflight"
    /\ Goes(q, IF SelectionError(req[q].seen.sel) THEN "unlock" ELSE "record")
    /\ UNCHANGED <<row, initLock, initJobs, pipe, answered>>

\* release_init_lock: GET, compare, then DELETE.
ReleaseReads(q) ==
    /\ req[q].pc = "unlock"
    /\ Goes(q, IF initLock = req[q].run THEN "delete" ELSE "idle")
    /\ UNCHANGED <<row, initLock, initJobs, pipe, answered>>

ReleaseDeletes(q) ==
    /\ req[q].pc = "delete"
    /\ initLock' = NoInitRun
    /\ Finish(q)
    /\ UNCHANGED <<row, initJobs, pipe, answered>>

\* failure=None is passed, which upsert does not write.  With RQ the job is
\* enqueued before its jobs row exists.
RecordStart(q) ==
    LET r == req[q] IN
    /\ r.pc = "record"
    /\ upsert("INITIALIZING", [r.seen.sel EXCEPT !.run = r.run])
    /\ Goes(q, IF rqEnabled THEN "enqueue" ELSE "register")
    /\ UNCHANGED <<initLock, initJobs, pipe, answered>>

Begin(q) == pipe' = [pipe EXCEPT ![req[q].run] = [NoPipe EXCEPT !.pc = "begin", !.source = req[q].seen.sel.source]]

EnqueueInit(q) ==
    /\ req[q].pc = "enqueue"
    /\ Begin(q)
    /\ Goes(q, "register")
    /\ UNCHANGED <<row, initLock, initJobs, answered>>

\* The jobs row, then the background task and the answer; a failed insert
\* answers 500 and starts nothing more.
Register(q) ==
    /\ req[q].pc = "register"
    /\ Finish(q)
    /\ \/ /\ InsertJob(req[q].run)
          /\ answered' = answered \cup {req[q].run}
          /\ IF rqEnabled THEN UNCHANGED pipe ELSE Begin(q)
          /\ UNCHANGED initFaults
       \/ InitFault /\ UNCHANGED <<initJobs, answered, pipe>>
    /\ UNCHANGED <<row, initLock>>

-----------------------------------------------------------------------------
(* run_onboarding_initialize.                                              *)

At(i, pc) == pipe' = [pipe EXCEPT ![i].pc = pc]

\* What the stages may do.  The research path, for public sources only, also
\* raises on exhausted credits.
run_sync                        == {"documents", "empty", "raise"}
run_knowledge_construction      == {"ok", "raise"}
run_initial_evaluation          == {"ok", "raise"}
run_health_report               == {"ok"}
run_recommendations(source)     == IF source = "public" THEN {"ok", "raise"} ELSE {"ok"}

StageOutcomes(i) ==
    CASE pipe[i].stage = 1 -> run_sync
      [] pipe[i].stage = 2 -> run_knowledge_construction
      [] pipe[i].stage = 3 -> run_initial_evaluation
      [] pipe[i].stage = 4 -> run_health_report
      [] OTHER             -> run_recommendations(pipe[i].source)

\* The installation is looked up before the first stage of a GitHub source.
PipelineBegins(i) ==
    /\ pipe[i].pc = "begin"
    /\ \/ pipe' = [pipe EXCEPT ![i].pc = "load", ![i].stage = 1]
       \/ At(i, "fail")
    /\ UNCHANGED <<row, initLock, initJobs, req, answered>>

\* _update_stage: get, change init_stage, upsert.
StageLoads(i) ==
    /\ pipe[i].pc = "load"
    /\ pipe' = [pipe EXCEPT ![i].pc = "store", ![i].seen = row.sel]
    /\ UNCHANGED <<row, initLock, initJobs, req, answered>>

_update_stage(i) ==
    /\ pipe[i].pc = "store"
    /\ upsert_selection([pipe[i].seen EXCEPT !.stage = pipe[i].stage])
    /\ pipe' = [pipe EXCEPT ![i].pc = "work", ![i].seen = NoSelection]
    /\ UNCHANGED <<initLock, initJobs, req, answered>>

StageRuns(i) ==
    /\ pipe[i].pc = "work"
    /\ \E o \in StageOutcomes(i) :
          pipe' = [pipe EXCEPT ![i].pc    = IF o = "raise" THEN "fail"
                                            ELSE IF pipe[i].stage = 5 THEN "final" ELSE "load",
                               ![i].stage = IF o = "raise" \/ @ = 5 THEN @ ELSE @ + 1,
                               ![i].docs  = @ \/ o = "documents"]
    /\ UNCHANGED <<row, initLock, initJobs, req, answered>>

FinalLoads(i) ==
    /\ pipe[i].pc = "final"
    /\ pipe' = [pipe EXCEPT ![i].pc = "commit", ![i].seen = row.sel]
    /\ UNCHANGED <<row, initLock, initJobs, req, answered>>

FinalCommits(i) ==
    /\ pipe[i].pc = "commit"
    /\ mark_step_and_set_state("initialization", "COMPLETED", [pipe[i].seen EXCEPT !.docs = pipe[i].docs])
    /\ pipe' = [pipe EXCEPT ![i].pc = "completed", ![i].seen = NoSelection]
    /\ UNCHANGED <<initLock, initJobs, req, answered>>

PipelineFails(i) ==
    /\ pipe[i].pc = "fail"
    /\ mark_failed
    /\ At(i, "failed")
    /\ UNCHANGED <<initLock, initJobs, req, answered>>

\* _set_job_status is best effort, and finds no row that is not there yet.
_set_job_status(i) ==
    /\ pipe[i].pc \in {"completed", "failed"}
    /\ \/ /\ initJobs' = [initJobs EXCEPT ![i] = IF @ = "none" THEN @ ELSE pipe[i].pc]
          /\ UNCHANGED initFaults
       \/ InitFault /\ UNCHANGED initJobs
    /\ At(i, IF pipe[i].pc = "failed" /\ ~rqEnabled THEN "refail" ELSE "unlock")
    /\ UNCHANGED <<row, initLock, req, answered>>

\* _run_background writes the failure a second time.
_run_background(i) ==
    /\ pipe[i].pc = "refail"
    /\ mark_failed
    /\ At(i, "unlock")
    /\ UNCHANGED <<initLock, initJobs, req, answered>>

\* The worker's connection returns bytes, whose str() is not the run id: its
\* guarded release never matches.
Matches(i) == initLock = i /\ ~rqEnabled

release_init_lock(i) ==
    /\ pipe[i].pc = "unlock"
    /\ At(i, IF Matches(i) THEN "delete" ELSE "done")
    /\ UNCHANGED <<row, initLock, initJobs, req, answered>>

PipelineDeletes(i) ==
    /\ pipe[i].pc = "delete"
    /\ initLock' = NoInitRun
    /\ pipe' = [pipe EXCEPT ![i] = [NoPipe EXCEPT !.pc = "done"]]
    /\ UNCHANGED <<row, initJobs, req, answered>>

Active(i) == pipe[i].pc \notin {"none", "done", "dead"}

PipelineDies(i) ==
    /\ InitFault /\ Active(i)
    /\ pipe' = [pipe EXCEPT ![i] = [NoPipe EXCEPT !.pc = "dead"]]
    /\ UNCHANGED <<row, initLock, initJobs, req, answered>>

\* INIT_LOCK_TTL_SECONDS is far above any run: it expires under no live holder.
LockExpires ==
    /\ initLock # NoInitRun
    /\ initLock \in InitRuns => ~Active(initLock)
    /\ \A q \in Requests : req[q].run # initLock
    /\ initLock' = NoInitRun
    /\ UNCHANGED <<row, initJobs, req, pipe, answered>>

-----------------------------------------------------------------------------

OnbRequest(q) ==
    \/ \E op \in SetupOps : SetupReads(q, op)
    \/ confirm_sources(q) \/ SourcesState(q) \/ SetupWrites(q) \/ SetupMarks(q)
    \/ complete_onboarding(q) \/ CompleteWrites(q)
    \/ InitializeReads(q) \/ Acquire(q) \/ LockHeld(q) \/ force_release_init_lock(q)
    \/ Reconcile(q) \/ Preflight(q) \/ ReleaseReads(q) \/ ReleaseDeletes(q)
    \/ RecordStart(q) \/ EnqueueInit(q)

OnbPipeline(i) ==
    \/ PipelineBegins(i) \/ StageLoads(i) \/ _update_stage(i) \/ StageRuns(i)
    \/ FinalLoads(i) \/ FinalCommits(i) \/ PipelineFails(i)
    \/ _run_background(i) \/ release_init_lock(i) \/ PipelineDeletes(i)

\* Between requests; a completed organisation accepts none.
OnboardingRests ==
    /\ \A q \in Requests : req[q].pc = "idle"
    /\ \A i \in InitRuns : ~Active(i)
    /\ UNCHANGED onbVars

OnbNext ==
    /\ UNCHANGED rqEnabled
    /\ \/ \E q \in Requests : OnbRequest(q) /\ UNCHANGED initFaults
       \/ \E i \in InitRuns : OnbPipeline(i) /\ UNCHANGED initFaults
       \/ \E q \in Requests : RequestDies(q) \/ Register(q)
       \/ \E i \in InitRuns : PipelineDies(i) \/ _set_job_status(i)
       \/ (LockExpires \/ OnboardingRests) /\ UNCHANGED initFaults

OnbSpec == OnbInit /\ [][OnbNext]_onbVars

-----------------------------------------------------------------------------
(* Properties.                                                             *)

\* "Never hand out a run_id with no backing jobs row, or the very stream-ticket
\* 404 this task fixes would recur": whichever way an initialisation was answered.
HandedOutRunHasJob == \A i \in answered : initJobs[i] # "none"

\* "The API process holds the lock from enqueue until completion so a mid-run
\* refresh cannot start a duplicate pipeline": no two pipelines of the
\* organisation are ever at work together.
OnePipeline == \A i, j \in InitRuns : Active(i) /\ Active(j) => i = j
=============================================================================
