----------------------------- MODULE Evaluation -----------------------------
(***************************************************************************)
(* Evaluation runs: POST /run with its idempotency key                     *)
(* (app/api/routes/evaluations.py), the evaluation loop                    *)
(* (workflows/evaluation/documentation_evaluation.py), its graph           *)
(* (orchestration/graphs/evaluation_graph.py), the evaluators              *)
(* (evaluation/runner.py) over what the online task observed               *)
(* (evaluation/online.py), and the rows that are left behind.              *)
(***************************************************************************)
EXTENDS Naturals, Sequences, FiniteSets

CONSTANTS
    EvalRequests,  \* POST /run requests; each one draws a run id of its own
    EvalKeys,      \* Idempotency-Key values
    EvalBodies,    \* request payloads; a payload stands for its hash
    LiveBodies,    \* the payloads with live set
    Datasets,      \* sequence of sequences of cases
    Concepts       \* significant tokens

NoKey == "no_key"

ASSUME EvaluationAssumption == LiveBodies \subseteq EvalBodies /\ NoKey \notin EvalKeys \cup EvalRequests

VARIABLES
    idem,     \* evaluation_idempotency
    post,     \* a request
    answers,  \* run ids clients were given for a key
    loop,     \* run_evaluation_loop of a run
    job,      \* the job row of a run
    summary,  \* the evaluations row of a run
    details   \* runs whose case results are stored

evalVars == <<idem, post, answers, loop, job, summary, details>>

NoPost == [pc |-> "idle", key |-> NoKey, body |-> NoKey]
NoLoop == [pc |-> "none", live |-> FALSE, stub |-> FALSE, dataset |-> 0, part |-> <<>>, rows |-> {}, errors |-> FALSE]

EvalInit ==
    /\ idem    = [k \in EvalKeys |-> [hash |-> NoKey, run |-> NoKey]]
    /\ post    = [r \in EvalRequests |-> NoPost]
    /\ answers = {}
    /\ loop    = [r \in EvalRequests |-> NoLoop]
    /\ job     = [r \in EvalRequests |-> "none"]
    /\ summary = [r \in EvalRequests |-> "none"]
    /\ details = {}

-----------------------------------------------------------------------------
(* POST /run.                                                              *)

Answered(k, run) == answers' = answers \cup {<<k, run>>}
Stored(k)        == idem[k].run # NoKey

\* A known key answers with the stored response, or 409 for another payload.
run_evaluations(r, k, b) ==
    /\ post[r] = NoPost
    /\ post' = [post EXCEPT ![r] = [pc |-> IF Stored(k) THEN "done" ELSE "create", key |-> k, body |-> b]]
    /\ IF Stored(k) /\ idem[k].hash = b THEN Answered(k, idem[k].run) ELSE UNCHANGED answers
    /\ UNCHANGED <<idem, loop, job, summary, details>>

\* Mutant: the insert replaces the row of the key.
CreateReplaces(r) ==
    LET k == post[r].key IN
    /\ post[r].pc = "create"
    /\ idem' = [idem EXCEPT ![k] = [hash |-> post[r].body, run |-> r]]
    /\ post' = [post EXCEPT ![r].pc = "start"]
    /\ UNCHANGED <<answers, loop, job, summary, details>>

\* INSERT ... ON CONFLICT DO NOTHING, and the row that won when it did nothing.
create(r) ==
    LET k == post[r].key IN
    /\ post[r].pc = "create"
    /\ idem' = IF Stored(k) THEN idem ELSE [idem EXCEPT ![k] = [hash |-> post[r].body, run |-> r]]
    /\ post' = [post EXCEPT ![r].pc = IF Stored(k) THEN "done" ELSE "start"]
    /\ IF Stored(k) /\ idem[k].hash = post[r].body THEN Answered(k, idem[k].run) ELSE UNCHANGED answers
    /\ UNCHANGED <<loop, job, summary, details>>

\* asyncio.create_task and 202; the loop lives in this process only.
Accept(r) ==
    /\ post[r].pc = "start"
    /\ post' = [post EXCEPT ![r].pc = "done"]
    /\ Answered(post[r].key, r)
    /\ loop' = [loop EXCEPT ![r].pc = "start", ![r].live = post[r].body \in LiveBodies]
    /\ UNCHANGED <<idem, job, summary, details>>

\* The process stops: the request is lost, its key stays.
PostDies(r) ==
    /\ post[r].pc \in {"create", "start"}
    /\ post' = [post EXCEPT ![r].pc = "done"]
    /\ UNCHANGED <<idem, answers, loop, job, summary, details>>

-----------------------------------------------------------------------------
(* What the online task reports of a case, and the evaluators.             *)

\* A case's run: the graph's status, the deliver node, the writers' content, the
\* blocking issues of a content review, the tools called and the gaps found.
Observed == [status : {"COMPLETED", "INTERRUPTED", "FAILED"}, deliver : {"absent", "blank", "receipt"},
             authored : BOOLEAN, issues : BOOLEAN, words : SUBSET Concepts, tools : BOOLEAN, gaps : 0..1]

\* No graph was run, or it raised.
Untouched == [status |-> "FAILED", deliver |-> "absent"]

deliver_ran(o)              == o.deliver # "absent"
extract_delivery_summary(o) == o.deliver = "receipt"

\* The output that is scored: review feedback, else the authored content, else
\* the text of the deliver node.
compose_content_output(o) == o.issues \/ o.authored \/ extract_delivery_summary(o)

\* Six tenths of the concepts expected.
ExpectedContains(c, o) ==
    LET hit == IF compose_content_output(o) THEN c.words \cap o.words ELSE {} IN
    c.words # {} /\ 10 * Cardinality(hit) >= 6 * Cardinality(c.words)

ExpectedToolCalled(c, o) == c.tools => o.tools

Authoring == {"update", "create"}

ExpectedAuthoringAction(c, o) ==
    c.action \in Authoring \cup {"none"} => (compose_content_output(o) <=> c.action # "none")

ExpectedDelivered(c, o) ==
    c.action \in Authoring /\ c.gate # "interrupt" => extract_delivery_summary(o)

\* The interrupts of a graph result are there exactly when it was interrupted.
ExpectedInterrupt(c, o) ==
    c.gate = "interrupt" => o.status = "INTERRUPTED" /\ ~deliver_ran(o)

ExpectedPassthrough(c, o) ==
    c.gate = "passthrough" => o.status = "COMPLETED" /\ deliver_ran(o)

\* The report names the topic of every gap found.
ExpectedGaps(c, o) ==
    /\ c.gaps > 0 => o.gaps >= c.gaps
    /\ c.gap_count # "any" => o.gaps = c.gaps

\* An evaluator is built when some case of the dataset asks for it, and skips
\* the cases that do not.
build_live_evaluators(d, c, o) ==
    /\ ExpectedContains(c, o)
    /\ ExpectedToolCalled(c, o)
    /\ (\E i \in DOMAIN d : d[i].action # "") => ExpectedAuthoringAction(c, o) /\ ExpectedDelivered(c, o)
    /\ (\E i \in DOMAIN d : d[i].gate # "") => ExpectedInterrupt(c, o) /\ ExpectedPassthrough(c, o)
    /\ ExpectedGaps(c, o)

\* The stub answers with the expected output; a case that expects no concept fails.
run_dataset_sync(c) == c.words # {}

-----------------------------------------------------------------------------
(* The loop.                                                               *)

\* The job row and the datasets are best effort; without a judge model a live
\* run is given the stub runner.
run_evaluation_loop(r) ==
    /\ loop[r].pc = "start"
    /\ job' \in {job, [job EXCEPT ![r] = "running"]}
    /\ \E stub \in {~loop[r].live, TRUE}, first \in {1, Len(Datasets) + 1} :
          loop' = [loop EXCEPT ![r].pc = "run", ![r].stub = stub, ![r].dataset = first]
    /\ UNCHANGED <<idem, post, answers, summary, details>>

Current(r) == Datasets[loop[r].dataset]
Running(r) == loop[r].pc = "run" /\ loop[r].dataset <= Len(Datasets)
Row(r, c, o, ok) == [case |-> c, ok |-> ok, halted |-> o.status = "INTERRUPTED" /\ ~deliver_ran(o),
                     receipt |-> extract_delivery_summary(o), real |-> ~loop[r].stub]

\* A case: the graph may raise, and every evaluator of the case then fails.
RunCase(r) ==
    LET l == loop[r]  c == Current(r)[Len(l.part) + 1] IN
    /\ Running(r) /\ Len(l.part) < Len(Current(r))
    /\ \E w \in IF l.stub THEN {Row(r, c, Untouched, run_dataset_sync(c))}
                ELSE {Row(r, c, o, build_live_evaluators(Current(r), c, o)) : o \in Observed} \cup {Row(r, c, Untouched, FALSE)} :
          loop' = [loop EXCEPT ![r].part = Append(@, w)]
    /\ UNCHANGED <<idem, post, answers, job, summary, details>>

NextDataset(r, rows, err) ==
    loop' = [loop EXCEPT ![r].dataset = @ + 1, ![r].part = <<>>, ![r].rows = @ \cup rows, ![r].errors = @ \/ err]

RunExperiments(r) ==
    /\ Running(r) /\ Len(loop[r].part) = Len(Current(r))
    /\ NextDataset(r, {loop[r].part[i] : i \in DOMAIN loop[r].part}, FALSE)
    /\ UNCHANGED <<idem, post, answers, job, summary, details>>

\* A timeout or an error costs the whole dataset its rows.
DatasetFails(r) ==
    /\ Running(r)
    /\ NextDataset(r, {}, TRUE)
    /\ UNCHANGED <<idem, post, answers, job, summary, details>>

passed_all(l) == l.rows # {} /\ ~l.errors /\ \A w \in l.rows : w.ok

save_run_summary(r, ok) ==
    summary' = IF ok THEN [summary EXCEPT ![r] = IF passed_all(loop[r]) THEN "passed" ELSE "failed"] ELSE summary

\* One transaction for all rows of the run.
insert_case_results(r, ok) == details' = IF ok /\ loop[r].rows # {} THEN details \cup {r} ELSE details

\* The summary, the case results, the job: each one may fail and the loop goes on.
_persist_summary(r) ==
    /\ loop[r].pc = "run" /\ loop[r].dataset > Len(Datasets)
    /\ loop' = [loop EXCEPT ![r].pc = "done"]
    /\ \E saved, detailed, closed \in BOOLEAN :
          /\ save_run_summary(r, saved)
          /\ insert_case_results(r, saved /\ detailed)
          /\ job' = IF closed /\ job[r] = "running" THEN [job EXCEPT ![r] = "completed"] ELSE job
    /\ UNCHANGED <<idem, post, answers>>

\* The process stops, or the graph's own timeout raises out of the loop: nobody
\* marks the job.
LoopDies(r) ==
    /\ loop[r].pc \in {"start", "run"}
    /\ loop' = [loop EXCEPT ![r].pc = "dead"]
    /\ UNCHANGED <<idem, post, answers, job, summary, details>>

-----------------------------------------------------------------------------

EvalStep(r) ==
    \/ \E k \in EvalKeys, b \in EvalBodies : run_evaluations(r, k, b)
    \/ create(r) \/ Accept(r) \/ PostDies(r)
    \/ run_evaluation_loop(r) \/ RunCase(r) \/ RunExperiments(r) \/ DatasetFails(r)
    \/ _persist_summary(r) \/ LoopDies(r)

EvalDone == (\A r \in EvalRequests : post[r].pc = "done" /\ loop[r].pc \in {"none", "done", "dead"}) /\ UNCHANGED evalVars

EvalNext == (\E r \in EvalRequests : EvalStep(r)) \/ EvalDone

EvalSpec == EvalInit /\ [][EvalNext]_evalVars

-----------------------------------------------------------------------------
(* Properties.                                                             *)

\* However requests race, one run is started for a key, and every client that
\* sent the key was told that run.
OneRunPerKey == \A k \in EvalKeys :
    /\ Cardinality({r \in EvalRequests : post[r].key = k /\ loop[r].pc # "none"}) <= 1
    /\ \A a, b \in answers : a[1] = k /\ b[1] = k => a[2] = b[2]
=============================================================================
