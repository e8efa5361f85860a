----------------------------- MODULE MCServices -----------------------------
(***************************************************************************)
(* What runs beside the documentation workflow: evaluation, memory,        *)
(* support, the review queue and its notices, the event streams, the       *)
(* dashboard, the audit trail, workflow definitions, and the process       *)
(* itself.  As in MCAgents, each behaviour exercises one component.        *)
(***************************************************************************)
EXTENDS Evaluation, Memory, Support, ReviewQueue, ReviewNotices, Streams, Dashboard,
        AgentAudit, WorkflowDefinitions, AppLifecycle, TLC

VARIABLE focus

servicesVars == <<focus, evalVars, memoryVars, supportVars, queueVars, noticeVars, streamVars,
                  dashVars, auditVars, definitionVars, appVars>>

Asked(q)    == IF q = "d" THEN "discord" ELSE "slack"
PlatformsOf == [q \in Questions |-> Asked(q)]
GoldenCase(a, g, n, k) == [action |-> a, gate |-> g, words |-> {"x"}, tools |-> FALSE, gaps |-> n, gap_count |-> k]
Golden      == << <<GoldenCase("update", "interrupt", 0, "any"), GoldenCase("create", "passthrough", 0, "any")>>,
                  <<GoldenCase("", "", 1, "is")>> >>

Init ==
    /\ focus \in {"evaluation", "memory", "support", "queue", "notices", "streams",
                  "dashboard", "audit", "definitions", "app"}
    /\ EvalInit /\ MemoryInit /\ SupportInit /\ QueueInit /\ NoticesInit
    /\ StreamsInit /\ DashInit /\ AuditInit /\ DefinitionsInit
    /\ IF focus = "app" THEN AppInit ELSE AppInitFor("api")

Next ==
    \/ /\ focus = "evaluation" /\ EvalNext
       /\ UNCHANGED <<focus, memoryVars, supportVars, queueVars, noticeVars, streamVars, dashVars,
                      auditVars, definitionVars, appVars>>
    \/ /\ focus = "memory" /\ MemoryNext
       /\ UNCHANGED <<focus, evalVars, supportVars, queueVars, noticeVars, streamVars, dashVars,
                      auditVars, definitionVars, appVars>>
    \/ /\ focus = "support" /\ SupportNext
       /\ UNCHANGED <<focus, evalVars, memoryVars, queueVars, noticeVars, streamVars, dashVars,
                      auditVars, definitionVars, appVars>>
    \/ /\ focus = "queue" /\ QueueNext
       /\ UNCHANGED <<focus, evalVars, memoryVars, supportVars, noticeVars, streamVars, dashVars,
                      auditVars, definitionVars, appVars>>
    \/ /\ focus = "notices" /\ NoticesNext
       /\ UNCHANGED <<focus, evalVars, memoryVars, supportVars, queueVars, streamVars, dashVars,
                      auditVars, definitionVars, appVars>>
    \/ /\ focus = "streams" /\ StreamsNext
       /\ UNCHANGED <<focus, evalVars, memoryVars, supportVars, queueVars, noticeVars, dashVars,
                      auditVars, definitionVars, appVars>>
    \/ /\ focus = "dashboard" /\ DashNext
       /\ UNCHANGED <<focus, evalVars, memoryVars, supportVars, queueVars, noticeVars, streamVars,
                      auditVars, definitionVars, appVars>>
    \/ /\ focus = "audit" /\ AuditNext
       /\ UNCHANGED <<focus, evalVars, memoryVars, supportVars, queueVars, noticeVars, streamVars,
                      dashVars, definitionVars, appVars>>
    \/ /\ focus = "definitions" /\ DefinitionsNext
       /\ UNCHANGED <<focus, evalVars, memoryVars, supportVars, queueVars, noticeVars, streamVars,
                      dashVars, auditVars, appVars>>
    \/ /\ focus = "app" /\ AppNext
       /\ UNCHANGED <<focus, evalVars, memoryVars, supportVars, queueVars, noticeVars, streamVars,
                      dashVars, auditVars, definitionVars>>

Spec == Init /\ [][Next]_servicesVars
=============================================================================
