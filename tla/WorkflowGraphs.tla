--------------------------- MODULE WorkflowGraphs ---------------------------
(***************************************************************************)
(* The agent graphs (orchestration/graphs), their edge conditions          *)
(* (orchestration/routing/conditions.py) and the nodes that decide         *)
(* (orchestration/nodes).  The graph runtime executes a batch of nodes     *)
(* concurrently, then every node with an edge from that batch whose        *)
(* condition holds; a node is given the results of the nodes with an edge  *)
(* into it.                                                                *)
(***************************************************************************)
EXTENDS Naturals, FiniteSets

CONSTANTS
    GraphKinds,         \* which graphs are run
    max_node_executions,
    max_iterations      \* of the evaluators

ASSUME GraphAssumption ==
    /\ GraphKinds \subseteq {"documentation", "unresearched", "issue", "support", "content",
                             "feedback", "evaluation"}
    /\ {max_node_executions, max_iterations} \subseteq Nat

VARIABLES
    kind,      \* the graph
    event,     \* event_type of the task
    results,   \* GraphState.results; "absent" while a node has none
    batch,     \* nodes being executed
    completed, \* nodes of the batch that have completed
    executed,  \* length of the execution order
    iteration, \* the evaluators' own counters
    evidence,  \* what context and research find: "none", "unusable", "usable"
    sealed,    \* the draft store holds a revision of this run
    variants,  \* content: channels with a row in content_variants
    package,   \* content: status of the package
    outcome    \* "running", "completed", "failed" or "limit"

graphVars == <<kind, event, results, batch, completed, executed, iteration,
               evidence, sealed, variants, package, outcome>>

Events == {"pull_request.opened", "pull_request.closed", "issues.opened",
           "slack.message", "release.published", "unknown"}

-----------------------------------------------------------------------------
(* Edges <<from, to, condition>>.                                          *)

DocumentationEdges(researchFails) ==
    { <<"classify", "context", "is_valid_surface">>, <<"context", "research", "always">>,
      <<"impact", "answer", "route_to_answer">>, <<"impact", "document", "route_to_write">>,
      <<"research", "document", "route_to_write">>, <<"context", "document", "route_to_write">>,
      <<"impact", "notify_post", "pull_request_opened">>,
      <<"answer", "answer_evaluate", "always">>,
      <<"research", "answer_evaluate", "route_to_answer">>,
      <<"answer_evaluate", "answer", "answer_needs_revision">>,
      <<"document", "changelog", "documentation_passed">>,
      <<"answer_evaluate", "changelog", "answer_eval_passed">>,
      <<"impact", "changelog", "none_and_release">>,
      <<"changelog", "changelog_evaluate", "generated_changelog">>,
      <<"changelog_evaluate", "changelog", "changelog_needs_revision">>,
      <<"changelog_evaluate", "deliver", "delivery_content_ready">>,
      <<"document", "deliver", "documentation_delivery_ready">>,
      <<"answer", "deliver", "delivery_content_ready">>,
      <<"changelog", "deliver", "delivery_content_ready">> }
    \cup (IF researchFails THEN {} ELSE {<<"research", "impact", "always">>})

Drafters == {"answer", "update", "create"}

\* The part the issue and the support graph share; source is the analyser.
EvaluatedEdges ==
    { <<"classify", "context", "is_valid_surface">>, <<"context", "research", "always">> }
    \cup {<<"impact", d, d>> : d \in Drafters}
    \cup {<<d, "evaluate", "generated">> : d \in Drafters \cup {"context", "research"}}
    \cup {<<"evaluate", d, "needs_revision">> : d \in Drafters}
    \cup {<<"evaluate", "deliver", "eval_passed">>}

IssueEdges   == EvaluatedEdges \cup {<<"research", "impact", "always">>}
SupportEdges == EvaluatedEdges \cup {<<"research", "triage", "always">>, <<"triage", "impact", "always">>}

ContentEdges ==
    { <<"content_brief", "content_blog", "always">>,
      <<"content_blog", "content_linkedin", "always">>, <<"content_blog", "content_x", "always">>,
      <<"content_linkedin", "evaluate", "both_social">>, <<"content_x", "evaluate", "both_social">>,
      <<"evaluate", "persist", "eval_passed">>, <<"persist", "deliver", "eval_passed">> }

FeedbackEdges ==
    { <<"summarize", "detect_gaps", "always">>, <<"detect_gaps", "prioritize", "always">>,
      <<"prioritize", "enqueue", "has_gaps">> }

EvaluationEdges == { <<"load", "run", "always">>, <<"run", "persist", "always">> }

Edges == CASE kind = "documentation" -> DocumentationEdges(FALSE)
           [] kind = "unresearched"  -> DocumentationEdges(TRUE)
           [] kind = "issue"         -> IssueEdges
           [] kind = "support"       -> SupportEdges
           [] kind = "content"       -> ContentEdges
           [] kind = "feedback"      -> FeedbackEdges
           [] kind = "evaluation"    -> EvaluationEdges

EntryPoint == CASE kind = "content"    -> "content_brief"
                [] kind = "feedback"   -> "summarize"
                [] kind = "evaluation" -> "load"
                [] OTHER               -> "classify"

\* The nodes each graph builds, whatever agent, model and tools they are given.
DocumentationNodes == {"classify", "context", "research", "impact", "answer", "document", "notify_post",
                       "answer_evaluate", "changelog", "changelog_evaluate", "deliver"}
IssueNodes      == {"classify", "context", "research", "impact", "evaluate", "deliver"} \cup Drafters
SupportNodes    == IssueNodes \cup {"triage"}
Channels        == {"content_blog", "content_linkedin", "content_x"}
ContentNodes    == Channels \cup {"content_brief", "evaluate", "persist", "deliver"}
FeedbackNodes   == {"summarize", "detect_gaps", "prioritize", "enqueue"}
EvaluationNodes == {"load", "run", "persist"}

Nodes == DocumentationNodes \cup IssueNodes \cup SupportNodes \cup ContentNodes
         \cup FeedbackNodes \cup EvaluationNodes
Evaluators == {"evaluate", "answer_evaluate", "changelog_evaluate"}

-----------------------------------------------------------------------------
(* Conditions.  A node that escalated reports passed.                      *)

Ran(n)      == results[n] # "absent"
Passed(n)   == results[n] \in {"passed", "escalated"}
Analyser    == IF kind = "support" THEN "triage" ELSE "impact"

is_valid_surface     == event # "unknown"
pull_request_opened  == event = "pull_request.opened"
route_to(a)          == results[Analyser] = a
route_to_write       == results["impact"] \in {"update", "create"}
generated            == \E d \in Drafters \cup {"document"} : Ran(d)
needs_revision_of(d) == results["evaluate"] = "failed" /\ Ran(d)
none_and_release     == results["impact"] = "none" /\ event = "release.published"

\* Mutant: a page workflow that ran is taken for one that passed.
DocumentationRan        == Ran("document")

documentation_passed    == results["document"] = "passed"
documentation_escalated == results["document"] = "escalated"

answer_needs_revision    == results["answer_evaluate"] = "failed" /\ Ran("answer")
changelog_needs_revision == results["changelog_evaluate"] = "failed" /\ Ran("changelog")

\* The changelog gate passed, and the page workflow too if it ran.
delivery_content_ready ==
    /\ Passed("changelog_evaluate")
    /\ Ran("document") => documentation_passed

documentation_delivery_ready == documentation_escalated \/ delivery_content_ready

Holds(edge) ==
    LET c == edge[3] IN
    CASE c = "always"                       -> TRUE
      [] c = "is_valid_surface"             -> is_valid_surface
      [] c = "route_to_answer"              -> route_to("answer")
      [] c = "route_to_write"               -> route_to_write
      [] c \in Drafters                     -> route_to(c)
      [] c = "pull_request_opened"          -> pull_request_opened
      [] c = "generated"                    -> generated
      [] c = "needs_revision"               -> needs_revision_of(edge[2])
      [] c = "eval_passed"                  -> Passed("evaluate")
      [] c = "answer_eval_passed"           -> Passed("answer_evaluate")
      [] c = "answer_needs_revision"        -> answer_needs_revision
      [] c = "none_and_release"             -> none_and_release
      [] c = "generated_changelog"          -> Ran("changelog")
      [] c = "changelog_needs_revision"     -> changelog_needs_revision
      [] c = "documentation_passed"         -> documentation_passed
      [] c = "documentation_delivery_ready" -> documentation_delivery_ready
      [] c = "delivery_content_ready"       -> delivery_content_ready
      [] c = "both_social"                  -> Ran("content_linkedin") /\ Ran("content_x")
      [] c = "has_gaps"                     -> results["prioritize"] = "gaps"

\* _build_node_input: the nodes whose results reach a node.
Inputs(n) == {e[1] : e \in {e \in Edges : e[2] = n /\ Ran(e[1]) /\ Holds(e)}}

-----------------------------------------------------------------------------
(* What a node may report.                                                 *)

\* _research_evidence: what the evidence reaching an evaluator is worth.
EvidenceOf(n) == IF Inputs(n) \cap {"context", "research"} = {} THEN "none" ELSE evidence

\* _store_draft: the writers of the run have sealed a revision.
StoreDraft == sealed

\* Citations weigh 40, topics 30 and length 30 points of 100, and 70 pass: a
\* draft without evidence, or whose evidence has no id, url or topic, cannot.
compute_page_metrics(found, draft) ==
    IF draft /\ found = "usable" THEN {TRUE, FALSE} ELSE {FALSE}

\* Mutant: the evaluators give up only when asked to.
NeverEscalates(n, passed) == IF passed THEN "passed" ELSE "failed"

\* At the last iteration a failure is escalated to the reviewer and passes.
Escalate(n, passed) ==
    IF passed THEN "passed"
    ELSE IF iteration[n] + 1 >= max_iterations THEN "escalated" ELSE "failed"

\* EvaluatorNode: sealed files with nothing to measure them by are waived.
EvaluatorVerdicts ==
    LET found  == EvidenceOf("evaluate")
        waived == StoreDraft /\ found # "usable"
        drafts == StoreDraft \/ "answer" \in Inputs("evaluate")
    IN  {Escalate("evaluate", p \/ waived) : p \in compute_page_metrics(found, drafts)}

AnswerVerdicts ==
    {Escalate("answer_evaluate", p) :
        p \in compute_page_metrics(EvidenceOf("answer_evaluate"), "answer" \in Inputs("answer_evaluate"))}

\* compute_changelog_quality looks at the entry's format only.
ChangelogVerdicts == {Escalate("changelog_evaluate", p) : p \in BOOLEAN}

\* ContentEvaluationNode has no iteration; with no variant it fails.
ContentVerdicts == IF Inputs("evaluate") \cap Channels = {} THEN {"failed"} ELSE {"passed", "failed"}

\* NotifyPostNode never fails the run.
NotifyReports == IF results["impact"] = "absent" THEN {"not_posted"} ELSE {"posted", "not_posted"}

Reports(n) ==
    CASE n = "evaluate" /\ kind = "content" -> ContentVerdicts
      [] n = "evaluate" /\ kind # "content" -> EvaluatorVerdicts
      [] n = "answer_evaluate"              -> AnswerVerdicts
      [] n = "changelog_evaluate"           -> ChangelogVerdicts
      [] n \in {"impact", "triage"}         -> Drafters \cup {"none"}
      [] n = "document"                     -> {"passed", "escalated", "failed"}
      [] n = "notify_post"                  -> NotifyReports
      [] n = "prioritize"                   -> {"gaps", "empty"}
      [] OTHER                              -> {"done"}

\* ContentPersistNode saves the variants it finds among its inputs.
SavedBy(n) == IF kind = "content" /\ n = "persist" THEN Inputs(n) \cap Channels ELSE {}

PackageAfter(n) ==
    CASE kind = "content" /\ n = "persist" -> "in_review"
      [] kind = "content" /\ n = "deliver" -> "approved"
      [] OTHER                             -> package

-----------------------------------------------------------------------------

GraphInitFor(k) ==
    /\ kind = k
    /\ event = "unknown"
    /\ results   = [n \in Nodes |-> "absent"]
    /\ batch     = {} /\ completed = {}
    /\ executed  = 0
    /\ iteration = [n \in Evaluators |-> 0]
    /\ evidence  = "none" /\ sealed = FALSE
    /\ variants  = {} /\ package = "none"
    /\ outcome   = "idle"

GraphInit == \E k \in GraphKinds : GraphInitFor(k)

StartGraph ==
    /\ outcome = "idle"
    /\ outcome' = "running"
    /\ event' \in Events
    /\ evidence' \in {"none", "unusable", "usable"}
    /\ kind' \in GraphKinds
    /\ batch' = {EntryPoint'}
    /\ UNCHANGED <<results, completed, executed, iteration, sealed, variants, package>>

NodeCompletes(n) ==
    /\ outcome = "running" /\ n \in batch
    /\ \E r \in Reports(n) : results' = [results EXCEPT ![n] = r]
    /\ batch'     = batch \ {n}
    /\ completed' = completed \cup {n}
    /\ executed'  = executed + 1
    /\ iteration' = IF n \in Evaluators THEN [iteration EXCEPT ![n] = @ + 1] ELSE iteration
    /\ variants'  = variants \cup SavedBy(n)
    /\ package'   = PackageAfter(n)
    /\ IF n \in {"update", "create"} THEN sealed' \in {sealed, TRUE} ELSE UNCHANGED sealed
    /\ UNCHANGED <<kind, event, evidence, outcome>>

\* A node that raises, times out, or is cancelled by the review gate.
NodeFails(n) ==
    /\ outcome = "running" /\ n \in batch
    /\ outcome' = "failed"
    /\ UNCHANGED <<kind, event, results, batch, completed, executed, iteration, evidence, sealed, variants, package>>

\* The feedback and evaluation graphs set limits of their own.
NodeLimit == CASE kind = "feedback"   -> 8
               [] kind = "evaluation" -> 6
               [] OTHER               -> max_node_executions

Ready == {e[2] : e \in {e \in Edges : e[1] \in completed /\ Holds(e)}}

NextBatch ==
    /\ outcome = "running" /\ batch = {}
    /\ completed' = {}
    /\ IF Ready = {} THEN outcome' = "completed" /\ UNCHANGED batch
       ELSE IF executed >= NodeLimit THEN outcome' = "limit" /\ UNCHANGED batch
       ELSE batch' = Ready /\ UNCHANGED outcome
    /\ UNCHANGED <<kind, event, results, executed, iteration, evidence, sealed, variants, package>>

GraphStep == NextBatch \/ \E n \in Nodes : NodeCompletes(n) \/ NodeFails(n)

GraphOver == outcome \in {"completed", "failed", "limit"} /\ UNCHANGED graphVars

GraphNext == StartGraph \/ GraphStep \/ GraphOver

GraphSpec == GraphInit /\ [][GraphNext]_graphVars

-----------------------------------------------------------------------------
(* Properties.                                                             *)

\* The default limit of fifteen executions is enough for the longest path with
\* every revision loop taken: no run is cut off before its delivery.
NodeBudgetSuffices == outcome # "limit"

\* Delivery "fires on ANY freshly-satisfied in-edge", yet whatever completes
\* first, delivered work has passed its gate or was escalated by it, and no
\* failed page workflow is delivered.
DeliveredWasJudged ==
    "deliver" \in batch =>
        CASE kind \in {"issue", "support", "content"} -> Passed("evaluate")
          [] OTHER -> \/ documentation_escalated
                      \/ /\ Passed("changelog_evaluate")
                         /\ results["document"] \in {"absent", "passed"}
                         /\ Ran("answer") => Passed("answer_evaluate")
=============================================================================
