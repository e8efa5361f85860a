---------------------------- MODULE RunLifecycle ----------------------------
(***************************************************************************)
(* The life of one workflow run: webhook, claim, graph, pause, decision,   *)
(* delivery, recovery (workflows/runner.py, review/resume.py,              *)
(* workflows/documentation, app/api/routes).  Its status is kept four      *)
(* times, in events, jobs, github_workflows and workflow_runs (row), and   *)
(* every one of those writes is a separate, best-effort statement of the   *)
(* process that makes it.  The graph's own progress is a session persisted *)
(* by the agent runtime.  Workers are RQ jobs and API calls, each used     *)
(* once; sweepers run the stale-run sweep again and again.                 *)
(*                                                                         *)
(* Interrupts are numbered: 0 is the review gate, whose id is the same in  *)
(* every process, and i > 0 is the tool interrupt of intervention row i.   *)
(***************************************************************************)
EXTENDS Naturals, Sequences, FiniteSets

CONSTANTS
    Workers,         \* RQ jobs and API calls
    Sweepers,        \* processes that run mark_stale_runs_failed
    Limit,           \* bound: how many calls of each kind arrive
    MaxAsks,         \* bound: how many interventions a run raises
    Keys,            \* idempotency keys responders send: "default", "own"
    NeedsReview,     \* does the review policy stop this change at the gate?
    CanCrash,        \* may a process die?
    CanRaise,        \* may an invoked graph raise?
    CanLose          \* may a best-effort write fail, its exception logged?

Kinds == {"webhook", "retry", "approve", "reject", "request_changes", "respond", "cancel"}

ASSUME CallsAssumption ==
    /\ Workers \cap Sweepers = {}
    /\ IsFiniteSet(Workers)
    /\ Limit \in [Kinds -> Nat] /\ MaxAsks \in Nat
    /\ Keys \subseteq {"default", "own"}

ASSUME FaultsAssumption ==
    /\ NeedsReview \in BOOLEAN /\ CanCrash \in BOOLEAN /\ CanRaise \in BOOLEAN
    /\ CanLose \in BOOLEAN

VARIABLES
    row,        \* the run's status in each of the four tables
    clock,      \* jobs.started_at: "unset", "fresh", or "old" past the cutoff
    envelope,   \* is a terminal workflow_result in the workflow_events log?
    session,    \* the persisted graph session
    reviews,    \* reviews rows, in order of creation
    asks,       \* workflow_interventions rows, in order of creation
    runs,       \* graphs started for the event (history)
    delivered,  \* deliveries carried out (history)
    revisions,  \* revised runs started (history)
    pc,         \* where each process is
    todo,       \* the status writes it still has to make
    after,      \* where it goes once they are made
    me          \* the rest of a worker's memory

tables  == <<row, clock, envelope, session, reviews, asks>>
history == <<runs, delivered, revisions>>
vars    == <<row, clock, envelope, session, reviews, asks,
             runs, delivered, revisions, pc, todo, after, me>>

-----------------------------------------------------------------------------
(* Rows.                                                                   *)

Row    == {"event", "job", "github", "canonical"}
Status == {"absent", "pending", "queued", "running", "pending_review",
           "pending_intervention", "completed", "failed", "needs_changes", "cancelled"}

\* reconciliation.TERMINAL_STATUSES ("skipped" is never written by this path).
TERMINAL_STATUSES == {"completed", "failed", "pending_review"}

Writes == Seq([row : Row, status : Status])

Set(r, s) == <<[row |-> r, status |-> s]>>

\* _persist_lifecycle, _mark, and the writes of reconcile_run.
Lifecycle(s) == Set("job", s) \o Set("github", s) \o Set("canonical", s)
Mark(s)      == Set("event", s)
Align(s)     == Set("job", s) \o Set("github", s)

\* What a best-effort write may leave behind.
Attempt(old, new) == IF CanLose THEN {old, new} ELSE {new}

\* An UPDATE of a row that is not there changes nothing.
Updated(r, s) == IF row[r] = "absent" THEN row ELSE [row EXCEPT ![r] = s]

\* Mutant: started_at is never set.
NeverStarted(r, s) == clock

\* started_at is set by the first "running" and never again.
Started(r, s) == IF r = "job" /\ s = "running" /\ clock = "unset" /\ row.job # "absent"
                 THEN "fresh" ELSE clock

Review == [status : {"pending", "approved", "rejected", "needs_changes"}, on : Nat]
Ask    == [status : {"pending", "approve", "deny"}, resumes : Nat]

Session == [at : {"none", "working", "paused", "ended"}, on : Nat, gate : BOOLEAN]

\* _session_is_resumable: the persisted graph waits for this very interrupt.
Resumable(i) == session.at = "paused" /\ session.on = i

-----------------------------------------------------------------------------
(* Processes.                                                              *)

Procs    == Workers \cup Sweepers
Terminal == {"done", "raised", "crashed"}
Pc == {"off", "register", "job", "claim", "canonical", "write", "graph", "finish",
       "reconcile", "check", "preflight", "decide", "record", "revise",
       "lookup", "replay", "take", "reply", "recheck", "mark", "align"} \cup Terminal
Live(p) == pc[p] \notin Terminal \cup {"off"}

\* delivery_receipt_from_result: no receipt, one that says "blocked" or names
\* no reference (is_blocked_delivery, is_empty_delivery), or a real one.
Receipts == {"none", "hollow", "real"}

Memory == [kind   : Kinds \cup {"none"},
           target : Nat,       \* index of the review or intervention answered
           action : {"none", "approve", "deny"},
           key    : {"none", "default", "own"},
           seen   : BOOLEAN,   \* was the intervention pending when looked up?
           gate   : BOOLEAN,   \* may the deliver node of this graph run?
           sent   : BOOLEAN,   \* has this graph delivered?
           ask    : Nat,       \* the intervention this graph raised, or 0
           receipt: Receipts,  \* what the deliver node of this graph reported
           result : {"none", "gate", "tool", "completed", "failed"},
           answer : {"none", "duplicate", "delivered", "failed", "pending_review",
                     "pending_intervention", "ok", "error"}]

Idle == [kind |-> "none", target |-> 0, action |-> "none", key |-> "none",
         seen |-> FALSE, gate |-> FALSE, sent |-> FALSE, ask |-> 0,
         receipt |-> "none", result |-> "none", answer |-> "none"]

Init ==
    /\ row      = [r \in Row |-> "absent"]
    /\ clock    = "unset"
    /\ envelope = FALSE
    /\ session  = [at |-> "none", on |-> 0, gate |-> FALSE]
    /\ reviews  = <<>>
    /\ asks     = <<>>
    /\ runs = 0 /\ delivered = 0 /\ revisions = 0
    /\ pc    = [p \in Procs |-> "off"]
    /\ todo  = [p \in Procs |-> <<>>]
    /\ after = [p \in Procs |-> "off"]
    /\ me    = [w \in Workers |-> Idle]

Goto(p, label) ==
    /\ pc' = [pc EXCEPT ![p] = label]
    /\ UNCHANGED <<todo, after>>

\* Make these writes one after the other, then go on at label.
Then(p, writes, label) ==
    /\ pc'    = [pc EXCEPT ![p] = "write"]
    /\ todo'  = [todo EXCEPT ![p] = writes]
    /\ after' = [after EXCEPT ![p] = label]

WriteRow(p) ==
    LET next == Head(todo[p])
    IN /\ pc[p] = "write"
       /\ \/ row' = Updated(next.row, next.status) /\ clock' = Started(next.row, next.status)
          \/ CanLose /\ UNCHANGED <<row, clock>>
       /\ todo' = [todo EXCEPT ![p] = Tail(@)]
       /\ pc' = [pc EXCEPT ![p] = IF Len(todo[p]) = 1 THEN after[p] ELSE "write"]
       /\ UNCHANGED <<envelope, session, reviews, asks, history, after, me>>

\* A call of this kind arrives.
Arrives(w, kind) ==
    /\ pc[w] = "off"
    /\ Cardinality({u \in Workers : me[u].kind = kind}) < Limit[kind]

IsRun(w) == me[w].kind \in {"webhook", "retry"}

-----------------------------------------------------------------------------
(* The webhook route and run_pull_request_workflow.                        *)

\* upsert_on_conflict leaves an existing jobs row alone ...
Webhook(w) ==
    /\ Arrives(w, "webhook")
    /\ me'  = [me EXCEPT ![w].kind = "webhook"]
    /\ row' = IF row.job = "absent" THEN [row EXCEPT !.job = "pending"] ELSE row
    /\ Goto(w, "register")
    /\ UNCHANGED <<clock, envelope, session, reviews, asks, history>>

\* ... save_github_workflow does not.  Then the task is enqueued.
SaveGithubWorkflow(w) ==
    /\ pc[w] = "register"
    /\ row' = [row EXCEPT !.github = "pending"]
    /\ Goto(w, "job")
    /\ UNCHANGED <<clock, envelope, session, reviews, asks, history, me>>

\* RQ runs a job that raised or was abandoned again.
RetryJob(w) ==
    /\ Arrives(w, "retry")
    /\ \E u \in Workers : IsRun(u) /\ pc[u] \in {"raised", "crashed"}
    /\ row.github # "absent"
    /\ me' = [me EXCEPT ![w].kind = "retry"]
    /\ Goto(w, "job")
    /\ UNCHANGED <<tables, history>>

\* The jobs row says "running" before anyone knows whose run it is.
StartJob(w) ==
    /\ pc[w] = "job"
    /\ Then(w, Set("job", "running"), "claim")
    /\ UNCHANGED <<tables, history, me>>

Claim(w, owned) ==
    /\ pc[w] = "claim"
    /\ IF owned
       THEN /\ row' = [row EXCEPT !.event = "running"]
            /\ Goto(w, "canonical")
            /\ UNCHANGED me
       ELSE /\ me' = [me EXCEPT ![w].answer = "duplicate"]
            /\ Goto(w, "reconcile")
            /\ UNCHANGED row
    /\ UNCHANGED <<clock, envelope, session, reviews, asks, history>>

\* Mutant: a finished event may be claimed again.
ClaimFinished(w) == Claim(w, row.event # "running")

\* INSERT INTO events ... ON CONFLICT DO NOTHING.
TryClaim(w) == Claim(w, row.event = "absent")

\* _ensure_canonical_run, and the first _persist_lifecycle.
EnsureCanonicalRun(w) ==
    /\ pc[w] = "canonical"
    /\ row' = IF row.canonical = "absent" THEN [row EXCEPT !.canonical = "queued"] ELSE row
    /\ Then(w, Lifecycle("running"), "graph")
    /\ me' = [me EXCEPT ![w].gate = ~NeedsReview]
    /\ runs' = runs + 1
    /\ UNCHANGED <<clock, envelope, session, reviews, asks, delivered, revisions>>

\* reconcile_run for a duplicate: the status is read first, written after.
ReconcileRun(w) ==
    /\ pc[w] = "reconcile"
    /\ IF row.event \in TERMINAL_STATUSES THEN Then(w, Align(row.event), "done")
                                          ELSE Goto(w, "done")
    /\ UNCHANGED <<tables, history, me>>

-----------------------------------------------------------------------------
(* The invoked graph.  What the agents do is a free choice; what matters is *)
(* what is persisted and when.                                             *)

\* The interrupt this worker's call answers.
On(w) == IF me[w].kind = "respond" THEN me[w].target ELSE reviews[me[w].target].on

\* A rejected gate cancels the deliver node, which raises out of the graph.
Cancelled(w) == me[w].kind = "reject" /\ On(w) = 0

InGraph(w) == pc[w] = "graph" /\ ~Cancelled(w)

\* The first finished node persists the session; the old interrupt is gone.
GraphAdvances(w) ==
    /\ InGraph(w)
    /\ session.at # "working"
    /\ session' = [session EXCEPT !.at = "working"]
    /\ UNCHANGED <<row, clock, envelope, reviews, asks, history, pc, todo, after, me>>

\* The deliver node opens its pull request or posts its comment.
GraphDelivers(w) ==
    /\ InGraph(w)
    /\ me[w].gate /\ ~me[w].sent /\ me[w].ask = 0
    /\ delivered' = delivered + 1
    /\ me' = [me EXCEPT ![w].sent = TRUE]
    /\ UNCHANGED <<tables, runs, revisions, pc, todo, after>>

\* A steering handler stores its intervention before the graph is interrupted.
GraphAsks(w) ==
    /\ InGraph(w)
    /\ me[w].ask = 0
    /\ Len(asks) < MaxAsks
    /\ asks' = Append(asks, [status |-> "pending", resumes |-> 0])
    /\ me'   = [me EXCEPT ![w].ask = Len(asks) + 1]
    /\ UNCHANGED <<row, clock, envelope, session, reviews, history, pc, todo, after>>

\* The graph's terminal event is published, also when it only pauses.
GraphReturns(w, result, receipt, persisted) ==
    /\ session'  = persisted
    /\ envelope' \in Attempt(envelope, TRUE)
    /\ me' = [me EXCEPT ![w].result = result, ![w].receipt = receipt]
    /\ Goto(w, "finish")
    /\ UNCHANGED <<row, clock, reviews, asks, history>>

GraphPauses(w) ==
    /\ InGraph(w)
    /\ \/ /\ me[w].ask # 0
          /\ GraphReturns(w, "tool", "none", [at |-> "paused", on |-> me[w].ask, gate |-> me[w].gate])
       \/ /\ me[w].ask = 0 /\ ~me[w].gate
          /\ GraphReturns(w, "gate", "none", [at |-> "paused", on |-> 0, gate |-> FALSE])

\* _finish_result's normalisation: a real receipt means delivered and a hollow
\* one failed, whatever the graph's status says; without a receipt the status
\* stands.
Outcome(status, receipt) ==
    CASE receipt = "real"   -> "completed"
      [] receipt = "hollow" -> "failed"
      [] receipt = "none"   -> status

\* The graph runs to its end.  Only a deliver node that ran leaves a receipt,
\* and the receipt is the agent's word: nothing compares it with what was sent.
GraphEnds(w) ==
    /\ InGraph(w)
    /\ me[w].ask = 0
    /\ \E status \in {"completed", "failed"}, receipt \in Receipts :
         /\ receipt # "none" => me[w].gate
         /\ GraphReturns(w, Outcome(status, receipt), receipt, [session EXCEPT !.at = "ended"])

\* An exception that is no node timeout.  A fresh run lets it through, an
\* approval goes back to the queue, anything else fails the run.
GraphRaises(w) ==
    /\ pc[w] = "graph"
    /\ CanRaise \/ Cancelled(w)
    /\ session' \in {session, [session EXCEPT !.at = "ended"]}
    /\ LET s == IF me[w].kind = "approve" THEN "pending_review" ELSE "failed"
       IN IF IsRun(w)
          THEN Goto(w, "raised") /\ UNCHANGED me
          ELSE /\ Then(w, Mark(s) \o Lifecycle(s), IF me[w].kind = "respond" THEN "reply" ELSE "decide")
               /\ me' = [me EXCEPT ![w].answer = s]
    /\ UNCHANGED <<row, clock, envelope, reviews, asks, history>>

-----------------------------------------------------------------------------
(* _finish_result.                                                         *)

\* A tool interrupt whose intervention is no longer pending is not recognised
\* as one and enters the review inbox.
NeedsReviewRow(w) ==
    \/ me[w].result = "gate"
    \/ me[w].result = "tool" /\ asks[me[w].ask].status # "pending"

FinishResult(w) ==
    LET kind   == me[w].kind
        answer == IF NeedsReviewRow(w) THEN "pending_review"
                  ELSE IF me[w].result = "tool" THEN "pending_intervention"
                  ELSE IF me[w].result = "completed" THEN "delivered" ELSE "failed"
        status == IF answer = "delivered" THEN "completed" ELSE answer
        \* run_pull_request_workflow sets the job's final status once more.
        mirror == IF IsRun(w) /\ status \in {"completed", "failed"}
                  THEN Set("job", status) ELSE <<>>
    IN /\ pc[w] = "finish"
       /\ IF NeedsReviewRow(w)
          THEN reviews' \in Attempt(reviews,
                   Append(reviews, [status |-> "pending",
                                    on |-> IF me[w].result = "gate" THEN 0 ELSE me[w].ask]))
          ELSE reviews' = reviews
       /\ Then(w, Lifecycle(status) \o Mark(status) \o mirror,
               IF IsRun(w) THEN "done" ELSE IF kind = "respond" THEN "reply" ELSE "decide")
       /\ me' = [me EXCEPT ![w].answer = answer]
       /\ UNCHANGED <<row, clock, envelope, session, asks, history>>

-----------------------------------------------------------------------------
(* Review decisions: the route, then resume_review_from_runtime.           *)

StartReview(w, kind) ==
    /\ Arrives(w, kind)
    /\ kind \in {"approve", "reject", "request_changes"}
    /\ \E r \in DOMAIN reviews :
         /\ reviews[r].status = "pending"
         /\ me' = [me EXCEPT ![w].kind = kind, ![w].target = r,
                             ![w].action = IF kind = "approve" THEN "approve" ELSE "deny"]
    /\ Goto(w, "check")
    /\ UNCHANGED <<tables, history>>

\* A review that is no longer pending ends the call without an error.
CheckReview(w) ==
    /\ pc[w] = "check"
    /\ Goto(w, IF reviews[me[w].target].status # "pending" THEN "done"
               ELSE IF me[w].kind = "request_changes" THEN "record" ELSE "preflight")
    /\ UNCHANGED <<tables, history, me>>

\* The common part of resume_review and resume_intervention.
Resume(w, opens) ==
    LET i == On(w)
    IN /\ pc[w] = "preflight"
       /\ IF Resumable(i)
          THEN /\ Goto(w, "graph")
               /\ me' = [me EXCEPT ![w].gate = session.gate \/ opens]
               /\ asks' = IF me[w].kind = "respond" THEN [asks EXCEPT ![i].resumes = @ + 1] ELSE asks
          ELSE /\ IF me[w].kind = "respond"
                  THEN Then(w, Mark("failed") \o Lifecycle("failed"), "reply")
                  ELSE Then(w, Mark("pending_review") \o Lifecycle("pending_review"), "raised")
               /\ me' = IF me[w].kind = "respond" THEN [me EXCEPT ![w].answer = "failed"] ELSE me
               /\ UNCHANGED asks
       /\ UNCHANGED <<row, clock, envelope, session, reviews, history>>

\* Mutant: an approval opens the gate whichever interrupt it answers.
ResumeOpensGate(w) == Resume(w, me[w].action = "approve")

\* An approval reaches the gate only when the gate is the interrupt it answers.
Preflight(w) == Resume(w, me[w].kind = "approve" /\ On(w) = 0)

\* record_decision: UPDATE ... WHERE status = 'pending', else the row as it is.
Decided(r, s) == IF reviews[r].status = "pending" THEN [reviews EXCEPT ![r].status = s] ELSE reviews

\* ReviewService.decide: the status each decision records.
StatusOfKind(kind) ==
    CASE kind = "approve" -> "approved" [] kind = "request_changes" -> "needs_changes" [] OTHER -> "rejected"

DecideIf(w, expected) ==
    /\ pc[w] = "decide"
    /\ IF me[w].answer \in expected
       THEN /\ reviews' = Decided(me[w].target, StatusOfKind(me[w].kind))
            /\ Goto(w, "done")
       ELSE /\ UNCHANGED reviews
            /\ Goto(w, IF me[w].answer = "pending_intervention" THEN "done" ELSE "raised")
    /\ UNCHANGED <<row, clock, envelope, session, asks, history, me>>

\* Mutant: the decision is recorded whatever the resumed run reached.
DecideAnyway(w) == DecideIf(w, {"delivered", "failed", "pending_review", "pending_intervention"})

\* Only "delivered" confirms an approval, only "failed" a rejection.
Decide(w) == DecideIf(w, {IF me[w].kind = "approve" THEN "delivered" ELSE "failed"})

\* request_changes decides first ...
RecordChanges(w) ==
    /\ pc[w] = "record"
    /\ reviews' = Decided(me[w].target, StatusOfKind(me[w].kind))
    /\ Then(w, Mark("needs_changes"), "revise")
    /\ UNCHANGED <<row, clock, envelope, session, asks, history, me>>

\* ... and starts a run for a new event afterwards.
StartRevision(w) ==
    /\ pc[w] = "revise"
    /\ revisions' = revisions + 1
    /\ Goto(w, "done")
    /\ UNCHANGED <<tables, runs, delivered, me>>

-----------------------------------------------------------------------------
(* Interventions: the respond route, resume_intervention, claim_response.  *)

\* The route looks first: an intervention that is already resolved is only
\* replayed, a pending one is handed to the runner, which looks again.
StartRespond(w) ==
    /\ Arrives(w, "respond")
    /\ \E i \in DOMAIN asks, action \in {"approve", "deny"}, key \in Keys :
         /\ me' = [me EXCEPT ![w].kind = "respond", ![w].target = i,
                             ![w].action = action, ![w].key = key]
         /\ Goto(w, IF asks[i].status = "pending" THEN "lookup" ELSE "replay")
    /\ UNCHANGED <<tables, history>>

LookUp(w) ==
    /\ pc[w] = "lookup"
    /\ me' = [me EXCEPT ![w].seen = asks[me[w].target].status = "pending"]
    /\ Goto(w, "replay")
    /\ UNCHANGED <<tables, history>>

\* A resolved row under this key.  Every row is created with the key
\* "<org>:<interrupt>" ("default"), which COALESCE keeps on resolution.
Replayed(w) == asks[me[w].target].status # "pending" /\ me[w].key = "default"

Answered(w, answer) == me' = [me EXCEPT ![w].answer = answer]

\* claim_response, first query.
ReplayLookup(w) ==
    LET same == asks[me[w].target].status = me[w].action
    IN /\ pc[w] = "replay"
       /\ IF ~Replayed(w) THEN Goto(w, "take") /\ UNCHANGED me
          ELSE IF ~same THEN Goto(w, "done") /\ Answered(w, "error")
          ELSE IF me[w].seen THEN Goto(w, "preflight") /\ UNCHANGED me
          ELSE Goto(w, "done") /\ Answered(w, "ok")
       /\ UNCHANGED <<tables, history>>

Take(w, taken) ==
    LET i == me[w].target
    IN /\ pc[w] = "take"
       /\ IF taken
          THEN /\ asks' = [asks EXCEPT ![i].status = me[w].action]
               /\ Goto(w, IF me[w].seen THEN "preflight" ELSE "done")
               /\ UNCHANGED me
          ELSE Goto(w, "done") /\ Answered(w, "error") /\ UNCHANGED asks
       /\ UNCHANGED <<row, clock, envelope, session, reviews, history>>

\* Mutant: the UPDATE does not require a pending row.
TakeAnyway(w) == Take(w, TRUE)

\* claim_response, second query: UPDATE ... WHERE status = 'pending'.
ClaimResponse(w) == Take(w, asks[me[w].target].status = "pending")

\* After the resume the route calls claim_response again to echo the outcome.
Reply(w) ==
    /\ pc[w] = "reply"
    /\ Answered(w, IF Replayed(w) /\ asks[me[w].target].status = me[w].action
                   THEN "ok" ELSE "error")
    /\ Goto(w, "done")
    /\ UNCHANGED <<tables, history>>

-----------------------------------------------------------------------------
(* Cancellation and recovery.                                              *)

\* cancel_run reads the canonical row, then overwrites it, and nothing else.
CancelRun(w) ==
    /\ Arrives(w, "cancel")
    /\ row.canonical \notin {"absent", "completed", "failed", "cancelled"}
    /\ me' = [me EXCEPT ![w].kind = "cancel"]
    /\ Then(w, Set("canonical", "cancelled"), "done")
    /\ UNCHANGED <<tables, history>>

\* mark_stale_runs_failed: jobs rows still running past the cutoff ...
SweepLists(s) ==
    /\ pc[s] = "off"
    /\ row.job = "running" /\ clock = "old"
    /\ Goto(s, "recheck")
    /\ UNCHANGED <<tables, history, me>>

Recheck(s, skip) ==
    /\ pc[s] = "recheck"
    /\ Goto(s, IF skip THEN "off" ELSE "mark")
    /\ UNCHANGED <<tables, history, me>>

\* Mutant: the workflow_events log is not consulted.
SweepSkipsNothing(s) == Recheck(s, FALSE)

\* ... whose log has no terminal envelope ...
SweepRechecks(s) == Recheck(s, envelope)

\* ... have their event marked failed, whatever it says by now ...
SweepMarks(s) ==
    /\ pc[s] = "mark"
    /\ row' \in Attempt(row, Updated("event", "failed"))
    /\ Goto(s, "align")
    /\ UNCHANGED <<clock, envelope, session, reviews, asks, history, me>>

\* ... and then the read models follow (reconcile_run, _set_read_models_failed).
SweepAligns(s) ==
    /\ pc[s] = "align"
    /\ Then(s, Align(IF row.event \in TERMINAL_STATUSES THEN row.event ELSE "failed"), "off")
    /\ UNCHANGED <<tables, history, me>>

\* started_at passes the sweep's cutoff.  The threshold exceeds the graph's
\* execution timeout, so it does not pass while the run it started is alive.
Age ==
    /\ clock = "fresh"
    /\ \A w \in Workers : ~(IsRun(w) /\ Live(w))
    /\ clock' = "old"
    /\ UNCHANGED <<row, envelope, session, reviews, asks, history, pc, todo, after, me>>

Crash(p) ==
    /\ CanCrash
    /\ Live(p)
    /\ pc'   = [pc EXCEPT ![p] = IF p \in Sweepers THEN "off" ELSE "crashed"]
    /\ todo' = [todo EXCEPT ![p] = <<>>]
    /\ UNCHANGED <<tables, history, after, me>>

-----------------------------------------------------------------------------

RunStep(w) ==
    \/ SaveGithubWorkflow(w) \/ StartJob(w) \/ TryClaim(w)
    \/ EnsureCanonicalRun(w) \/ ReconcileRun(w)

GraphStep(w) ==
    \/ GraphAdvances(w) \/ GraphDelivers(w) \/ GraphAsks(w) \/ GraphPauses(w)
    \/ GraphEnds(w) \/ GraphRaises(w) \/ FinishResult(w)

AnswerStep(w) ==
    \/ CheckReview(w) \/ Preflight(w) \/ Decide(w) \/ RecordChanges(w) \/ StartRevision(w)
    \/ LookUp(w) \/ ReplayLookup(w) \/ ClaimResponse(w) \/ Reply(w)

Step(w)  == RunStep(w) \/ GraphStep(w) \/ AnswerStep(w) \/ WriteRow(w)
Sweep(s) == SweepLists(s) \/ SweepRechecks(s) \/ SweepMarks(s) \/ SweepAligns(s) \/ WriteRow(s)
Start(w) ==
    \/ Webhook(w) \/ RetryJob(w) \/ StartRespond(w) \/ CancelRun(w)
    \/ \E kind \in Kinds : StartReview(w, kind)

\* Nobody is working on the run.
Quiet == (\A p \in Procs : ~Live(p)) /\ UNCHANGED vars

Next ==
    \/ \E w \in Workers : Start(w) \/ Step(w)
    \/ \E s \in Sweepers : Sweep(s)
    \/ \E p \in Procs : Crash(p)
    \/ Age
    \/ Quiet

Spec == Init /\ [][Next]_vars

\* Workers keep working, time passes, the sweep is scheduled every ten minutes
\* and is not killed at the same point for ever.
Fairness ==
    /\ \A w \in Workers : WF_vars(Step(w))
    /\ WF_vars(Age)
    /\ \A s \in Sweepers :
         /\ WF_vars(SweepLists(s))
         /\ SF_vars(SweepRechecks(s)) /\ SF_vars(SweepMarks(s)) /\ SF_vars(SweepAligns(s))
         /\ SF_vars(WriteRow(s))

FairSpec == Spec /\ Fairness

-----------------------------------------------------------------------------
(* Properties.                                                             *)

\* Rows, sessions and every process's memory have their declared shape.
TypeOK ==
    /\ row \in [Row -> Status]
    /\ clock \in {"unset", "fresh", "old"}
    /\ envelope \in BOOLEAN
    /\ session \in Session
    /\ reviews \in Seq(Review)
    /\ asks \in Seq(Ask)
    /\ runs \in Nat /\ delivered \in Nat /\ revisions \in Nat
    /\ pc \in [Procs -> Pc]
    /\ todo \in [Procs -> Writes]
    /\ after \in [Procs -> Pc]
    /\ me \in [Workers -> Memory]

\* "duplicate webhook deliveries never cause double execution"
\* (docs/workflows/overview.md): one event starts at most one graph.
OneRunPerEvent == runs <= 1

\* An approval is recorded only behind a graph that one of the calls approving
\* this very review resumed, past the gate when the review is the gate's own,
\* and that ran to its end without a receipt that says "blocked" or is empty: a
\* paused, failed, raised or refused resumption leaves the review to be decided
\* again, whichever calls race for it (runner._finish_result, resume.py).
\* A graph that ends without any receipt counts as delivered.
ApprovalWasConfirmed ==
    \A r \in DOMAIN reviews : reviews[r].status = "approved" =>
        \E w \in Workers :
            /\ me[w].kind = "approve" /\ me[w].target = r
            /\ me[w].result = "completed" /\ me[w].receipt # "hollow"
            /\ reviews[r].on = 0 => me[w].gate

\* "never bypass the review gate": what the policy stops is delivered only
\* after an approval of the gate itself, whatever interventions came first.
GateIsNotBypassed ==
    NeedsReview /\ delivered > 0 =>
        \E w \in Workers : me[w].kind = "approve" /\ On(w) = 0

\* Responders who bring keys of their own resume the graph once between them,
\* however many there are and however they interleave (claim_response).
InterventionResumedOnce ==
    \A i \in DOMAIN asks :
        (\A w \in Workers : me[w].kind = "respond" /\ me[w].target = i => me[w].key = "own")
        => asks[i].resumes <= 1

\* The sweep fails only runs whose event still says "running": no finished and
\* no paused run is overwritten.
SweepSparesFinished ==
    [][\A s \in Sweepers : pc[s] = "mark" /\ pc'[s] = "align" => row.event \in {"absent", "running", "failed"}]_vars

\* A run whose worker died before the graph returned does not stay "running".
DeadRunsAreFailed ==
    (row.event = "running" /\ ~envelope) ~> (row.event # "running" \/ envelope)

\* One delivery per source event (skills/github-delivery/SKILL.md).
OneDelivery == delivered <= 1
=============================================================================
