------------------------ MODULE PageWorkflowProofs ------------------------
(***************************************************************************)
(* Safety of PageWorkflow, for every set of pages and workers and every    *)
(* budget: what the page table says was judged, what leases protect, that  *)
(* no page is left behind, and what the executor tells the node.           *)
(***************************************************************************)
EXTENDS PageWorkflowTypeProofs, FiniteSetTheorems

-----------------------------------------------------------------------------
(* A page stands as passed only on a judgement of its current artifact.    *)

\* A worker that writes approvals was started by an approve decision, and a
\* worker that was not started has no role.
RolesOK ==
    \A w \in Workers : /\ pc[w] = "approve" => role[w] = "approve"
                       /\ pc[w] = "off" => role[w] = "none"

\* A step of w that keeps the roles and goes elsewhere than "approve" and "off".
LEMMA RolesKept ==
    ASSUME ControlOK, RolesOK, NEW w \in Workers, NEW label \in WorkerPc,
           Goto(w, label), label # "off", label = "approve" => role'[w] = "approve",
           \A u \in Workers \ {w} : role'[u] = role[u]
    PROVE  RolesOK'
BY DEF RolesOK, Goto, ControlOK

LEMMA RolesNext == TypeOK /\ RolesOK /\ [Next]_vars => RolesOK'
<1> SUFFICES ASSUME TypeOK, RolesOK, [Next]_vars PROVE RolesOK'  OBVIOUS
<1>0. /\ {"seed", "reset", "claim", "snapshot", "run", "report", "approve", "changes", "cancel",
          "reject", "reported", "failed", "deadlocked", "crashed"} \subseteq WorkerPc
      /\ ControlOK
  BY DEF WorkerPc, Terminal, TypeOK
<1>1. CASE UNCHANGED <<pc, role>>  BY <1>1 DEF RolesOK
<1>2. ASSUME NEW w \in Workers, Start(w) PROVE RolesOK'
  <2>1. CASE StartInvoke(w)  BY <1>0, <2>1, RolesKept DEF StartInvoke, ControlOK
  <2>2. ASSUME NEW d \in {"approve", "request_changes", "reject"},
               NEW label \in {"approve", "changes", "cancel"},
               StartDecision(w, d, label), label = "approve" => d = "approve"
        PROVE  RolesOK'
    <3>1. role' = [role EXCEPT ![w] = d]  BY <2>2 DEF StartDecision
    <3>2. Goto(w, label) \/ Goto(w, "report")  BY <2>2 DEF StartDecision
    <3> QED BY <1>0, <2>2, <3>1, <3>2, RolesKept DEF ControlOK
  <2> QED BY <1>2, <2>1, <2>2 DEF Start, StartApprove, StartRequestChanges, StartReject
<1>3. ASSUME NEW w \in Workers, NEW label \in WorkerPc \ {"off", "approve"}, Goto(w, label),
             UNCHANGED role
      PROVE  RolesOK'
  BY <1>0, <1>3, RolesKept
<1>4. ASSUME NEW w \in Workers, Step(w) PROVE RolesOK'
  <2>1. CASE \E p \in Pages : SeedPage(w, p)
    <3>1. Goto(w, "seed") \/ Goto(w, "reset")  BY <2>1 DEF SeedPage
    <3>2. UNCHANGED role  BY <2>1 DEF SeedPage
    <3> QED BY <1>0, <1>3, <3>1, <3>2
  <2>2. CASE ResetExpiredLeases(w)  BY <1>0, <1>3, <2>2 DEF ResetExpiredLeases, Recycle
  <2>3. CASE ClaimReadyTasks(w)
    <3>1. Goto(w, "snapshot") \/ Goto(w, "run")  BY <2>3 DEF ClaimReadyTasks
    <3>2. UNCHANGED role  BY <2>3 DEF ClaimReadyTasks
    <3> QED BY <1>0, <1>3, <3>1, <3>2
  <2>4. CASE TakeSnapshot(w)
    <3>1. Goto(w, "deadlocked") \/ Goto(w, "report") \/ Goto(w, "reset")
      BY <2>4 DEF TakeSnapshot
    <3>2. UNCHANGED role  BY <2>4 DEF TakeSnapshot
    <3> QED BY <1>0, <1>3, <3>1, <3>2
  <2>5. CASE Report(w)  BY <1>0, <1>3, <2>5 DEF Report
  <2>6. ASSUME NEW t \in DOMAIN batch[w], CompleteTask(w, t) \/ RetryOrFailTask(w, t)
        PROVE  RolesOK'
    <3>1. PICK failed : AfterSettling(w, t, failed)
      BY <2>6 DEF CompleteTask, RetryOrFailTask, RetryOrFail
    <3>2. Goto(w, "run") \/ Goto(w, "reset") \/ Goto(w, "failed") \/ Goto(w, "report")
      BY <3>1 DEF AfterSettling
    <3>3. UNCHANGED role  BY <3>1 DEF AfterSettling
    <3> QED BY <1>0, <1>3, <3>2, <3>3
  <2>7. ASSUME NEW t \in DOMAIN batch[w], HandlerStep(w, t) PROVE RolesOK'
    <3>1. UNCHANGED <<pc, role>>
      BY <2>7 DEF HandlerStep, WriterPrepare, WriterSeals, RecordArtifact, Promote, EvaluatorReads,
         RecordEvaluation, StoreEvaluation, EvaluatorRevises, EvaluatorCounts,
         EvaluatorEnqueuesReview, EnqueueReview, ReviewerReads, ReviewerClean, ReviewerCorrects,
         HandlerFails, control
    <3> QED BY <1>1, <3>1
  <2>8. CASE \E p \in Pages : ApprovePage(w, p)
    <3>1. Goto(w, "report") \/ Goto(w, "approve")  BY <2>8 DEF ApprovePage, Approve
    <3>2. UNCHANGED role /\ pc[w] = "approve"  BY <2>8 DEF ApprovePage, Approve
    <3> QED BY <1>0, <3>1, <3>2, RolesKept DEF RolesOK
  <2>9. CASE ScheduleHumanRevisions(w)  BY <1>0, <1>3, <2>9 DEF ScheduleHumanRevisions
  <2>10. CASE CancelPendingTasks(w)  BY <1>0, <1>3, <2>10 DEF CancelPendingTasks
  <2>11. CASE MarkEscalatedFailed(w)  BY <1>0, <1>3, <2>11 DEF MarkEscalatedFailed
  <2> QED BY <1>4, <2>1, <2>2, <2>3, <2>4, <2>5, <2>6, <2>7, <2>8, <2>9, <2>10, <2>11
          DEF Step, ExecutorStep, DecisionStep
<1>5. ASSUME NEW w \in Workers, Crash(w) PROVE RolesOK'
  BY <1>0, <1>3, <1>5 DEF Crash
<1>6. ASSUME NEW t \in DOMAIN tasks, LeaseExpires(t) PROVE RolesOK'
  BY <1>1, <1>6 DEF LeaseExpires
<1> QED BY <1>1, <1>2, <1>4, <1>5, <1>6 DEF Next, Quiet, vars

\* An approve decision is never forgotten.
LEMMA ApprovalStays ==
    ASSUME TypeOK, RolesOK, [Next]_vars, NEW u \in Workers, role[u] = "approve"
    PROVE  role'[u] = "approve"
<1>1. CASE UNCHANGED role  BY <1>1
<1>2. CASE \E w \in Workers : \E d : role' = [role EXCEPT ![w] = d] /\ pc[w] = "off"
  BY <1>2 DEF RolesOK, TypeOK, ControlOK
<1>3. ASSUME NEW w \in Workers, Start(w)
      PROVE  \E d : role' = [role EXCEPT ![w] = d] /\ pc[w] = "off"
  BY <1>3 DEF Start, StartInvoke, StartApprove, StartRequestChanges, StartReject, StartDecision
<1>4. ASSUME NEW w \in Workers, Step(w) PROVE UNCHANGED role
  <2>1. ASSUME NEW t \in DOMAIN batch[w], HandlerStep(w, t) PROVE UNCHANGED role
    BY <2>1 DEF HandlerStep, WriterPrepare, WriterSeals, RecordArtifact, Promote, EvaluatorReads,
       RecordEvaluation, StoreEvaluation, EvaluatorRevises, EvaluatorCounts,
       EvaluatorEnqueuesReview, EnqueueReview, ReviewerReads, ReviewerClean, ReviewerCorrects,
       HandlerFails, control
  <2>2. CASE \E p \in Pages : SeedPage(w, p)  BY <2>2 DEF SeedPage
  <2>3. CASE ResetExpiredLeases(w) \/ ClaimReadyTasks(w) \/ TakeSnapshot(w) \/ Report(w)
    BY <2>3 DEF ResetExpiredLeases, Recycle, ClaimReadyTasks, TakeSnapshot, Report
  <2>4. ASSUME NEW t \in DOMAIN batch[w], CompleteTask(w, t) \/ RetryOrFailTask(w, t)
        PROVE UNCHANGED role
    BY <2>4 DEF CompleteTask, RetryOrFailTask, RetryOrFail, AfterSettling
  <2>5. CASE DecisionStep(w)
    BY <2>5 DEF DecisionStep, ApprovePage, Approve, ScheduleHumanRevisions, CancelPendingTasks,
       MarkEscalatedFailed
  <2> QED BY <1>4, <2>1, <2>2, <2>3, <2>4, <2>5 DEF Step, ExecutorStep
<1>5. ASSUME NEW w \in Workers, Crash(w) PROVE UNCHANGED role  BY <1>5 DEF Crash
<1>6. ASSUME NEW t \in DOMAIN tasks, LeaseExpires(t) PROVE UNCHANGED role  BY <1>6 DEF LeaseExpires
<1> QED BY <1>1, <1>2, <1>3, <1>4, <1>5, <1>6 DEF Next, Quiet, vars

\* A page is left alone by the judging part of a step: it keeps its status and
\* artifact, or it leaves the judged statuses.
Unjudged(p) ==
    \/ page'[p] = page[p]
    \/ page'[p].status \notin {"passed", "awaiting_human_review"}

\* Only record_evaluation and approve_escalated_pages judge a page.
LEMMA OnlyTheseJudge ==
    ASSUME TypeOK, [Next]_vars, NEW p \in Pages,
           ~\E w \in Workers : \E t \in DOMAIN batch[w] : RecordEvaluation(w, t),
           ~\E w \in Workers : \E q \in Pages : ApprovePage(w, q)
    PROVE  evals' = evals /\ Unjudged(p)
<1>0. page \in [Pages -> PageRow]  BY DEF TypeOK, TablesOK
<1>1. CASE UNCHANGED <<page, evals>>  BY <1>1 DEF Unjudged
<1>2. ASSUME NEW w \in Workers, Start(w) PROVE evals' = evals /\ Unjudged(p)
  <2>1. CASE StartInvoke(w)
    <3>1. page'[p] = IF page[p].status = "absent" THEN [page[p] EXCEPT !.status = "pending"] ELSE page[p]
      BY <2>1 DEF StartInvoke
    <3>2. page[p] \in PageRow  BY <1>0
    <3> QED BY <2>1, <3>1, <3>2 DEF StartInvoke, Unjudged, PageRow
  <2> QED BY <1>1, <1>2, <2>1 DEF Start, StartApprove, StartRequestChanges, StartReject
<1>3. ASSUME NEW P, NEW next, NEW att, NEW source, ScheduleAt(P, next, att, source)
      PROVE  Unjudged(p)
  <2>1. CASE p \in P
    <3>1. page[p] \in PageRow  BY <1>0
    <3>2. page'[p].status = "revising"  BY <1>3, <2>1, <3>1 DEF ScheduleAt, PageRow
    <3> QED BY <3>2 DEF Unjudged
  <2>2. CASE p \notin P  BY <1>3, <2>2 DEF ScheduleAt, Unjudged
  <2> QED BY <2>1, <2>2
<1>4. ASSUME NEW w \in Workers, NEW t \in DOMAIN batch[w], HandlerStep(w, t)
      PROVE  evals' = evals /\ Unjudged(p)
  <2>1. CASE RecordArtifact(w, t)
    <3>1. t.page \in Pages  BY <2>1, HeldTask DEF RecordArtifact, Promote
    <3>2. page' = page \/ page' = [page EXCEPT ![t.page].latest = t.version, ![t.page].status = "evaluating"]
      BY <2>1 DEF RecordArtifact, Promote
    <3>3. CASE page' = page  BY <2>1, <3>3 DEF RecordArtifact, Promote, Unjudged
    <3>4. CASE page' = [page EXCEPT ![t.page].latest = t.version, ![t.page].status = "evaluating"]
      <4>1. page[p] \in PageRow  BY <1>0
      <4>2. p = t.page => page'[p].status = "evaluating"  BY <1>0, <3>1, <3>4, <4>1 DEF PageRow
      <4>3. p # t.page => page'[p] = page[p]  BY <1>0, <3>4
      <4> QED BY <2>1, <4>2, <4>3 DEF RecordArtifact, Promote, Unjudged
    <3> QED BY <3>2, <3>3, <3>4
  <2>2. CASE EvaluatorRevises(w, t)
    BY <1>1, <1>3, <2>2 DEF EvaluatorRevises, ScheduleRevisions
  <2>3. CASE ReviewerCorrects(w, t)
    <3>1. evals' = evals  BY <2>3 DEF ReviewerCorrects
    <3>2. UNCHANGED page \/ \E P, next, att, source : ScheduleAt(P, next, att, source)
      BY <2>3 DEF ReviewerCorrects, ScheduleRevisions
    <3> QED BY <1>1, <1>3, <3>1, <3>2
  <2>4. CASE ~RecordArtifact(w, t) /\ ~EvaluatorRevises(w, t) /\ ~ReviewerCorrects(w, t)
    <3>1. UNCHANGED <<page, evals>>
      BY <1>4, <2>4 DEF HandlerStep, WriterPrepare, WriterSeals, EvaluatorReads, EvaluatorCounts,
         EvaluatorEnqueuesReview, EnqueueReview, ReviewerReads, ReviewerClean, HandlerFails, tables
    <3> QED BY <1>1, <3>1
  <2> QED BY <2>1, <2>2, <2>3, <2>4
<1>5. ASSUME NEW w \in Workers, NEW t \in DOMAIN batch[w], CompleteTask(w, t) \/ RetryOrFailTask(w, t)
      PROVE  UNCHANGED <<page, evals>>
  BY <1>5 DEF CompleteTask, RetryOrFailTask, RetryOrFail, AfterSettling
<1>6. ASSUME NEW w \in Workers, DecisionStep(w) PROVE evals' = evals /\ Unjudged(p)
  <2>1. CASE ScheduleHumanRevisions(w)
    <3>1. p \in Escalated => page'[p].status = "revising"
      <4>1. page[p] \in PageRow  BY <1>0
      <4> QED BY <2>1, <4>1 DEF ScheduleHumanRevisions, PageRow
    <3>2. p \notin Escalated => page'[p] = page[p]  BY <2>1 DEF ScheduleHumanRevisions
    <3> QED BY <2>1, <3>1, <3>2 DEF ScheduleHumanRevisions, Unjudged
  <2>2. CASE MarkEscalatedFailed(w)
    <3>1. p \in Escalated => page'[p].status = "failed"
      <4>1. page[p] \in PageRow  BY <1>0
      <4> QED BY <2>2, <4>1 DEF MarkEscalatedFailed, PageRow
    <3>2. p \notin Escalated => page'[p] = page[p]  BY <2>2 DEF MarkEscalatedFailed
    <3> QED BY <2>2, <3>1, <3>2 DEF MarkEscalatedFailed, Unjudged
  <2>3. CASE CancelPendingTasks(w)  BY <1>1, <2>3 DEF CancelPendingTasks
  <2> QED BY <1>6, <2>1, <2>2, <2>3 DEF DecisionStep
<1>7. ASSUME NEW w \in Workers, Step(w) PROVE evals' = evals /\ Unjudged(p)
  <2>1. CASE \E q \in Pages : SeedPage(w, q)  BY <1>1, <2>1 DEF SeedPage
  <2>2. CASE ResetExpiredLeases(w) \/ ClaimReadyTasks(w) \/ TakeSnapshot(w) \/ Report(w)
    BY <1>1, <2>2 DEF ResetExpiredLeases, Recycle, ClaimReadyTasks, TakeSnapshot, Report
  <2> QED BY <1>1, <1>4, <1>5, <1>6, <1>7, <2>1, <2>2 DEF Step, ExecutorStep
<1>8. ASSUME NEW w \in Workers, Crash(w) PROVE UNCHANGED <<page, evals>>  BY <1>8 DEF Crash, tables
<1>9. ASSUME NEW t \in DOMAIN tasks, LeaseExpires(t) PROVE UNCHANGED <<page, evals>>
  BY <1>9 DEF LeaseExpires
<1> QED BY <1>1, <1>2, <1>7, <1>8, <1>9 DEF Next, Quiet, vars

JudgedInv == TypeOK /\ RolesOK /\ PassedWasJudged

\* What PassedWasJudged says of one page.
Judged(p) ==
    /\ page[p].status = "passed" =>
         \E e \in Stored(p, page[p].latest) :
            \/ e.status = "passed"
            \/ e.status = "awaiting_human_review" /\ \E w \in Workers : role[w] = "approve"
    /\ page[p].status = "awaiting_human_review" =>
         \E e \in Stored(p, page[p].latest) : e.status = "awaiting_human_review"

\* A page that the step does not judge stays judged, whatever else is stored.
LEMMA UnjudgedKeeps ==
    ASSUME NEW p \in Pages, Judged(p), Unjudged(p), evals \subseteq evals',
           \A w \in Workers : role[w] = "approve" => role'[w] = "approve"
    PROVE  Judged(p)'
BY DEF Judged, Unjudged, Stored

LEMMA JudgedNext == JudgedInv /\ [Next]_vars => JudgedInv'
<1> SUFFICES ASSUME JudgedInv, [Next]_vars PROVE JudgedInv'  OBVIOUS
<1>1. TypeOK /\ RolesOK /\ TypeOK' /\ RolesOK'  BY TypeNext, RolesNext DEF JudgedInv
<1>2. \A w \in Workers : role[w] = "approve" => role'[w] = "approve"  BY <1>1, ApprovalStays
<1>3. \A p \in Pages : Judged(p)  BY DEF JudgedInv, PassedWasJudged, Judged
<1>4. page \in [Pages -> PageRow] /\ evals \subseteq EvalRow  BY <1>1 DEF TypeOK, TablesOK
<1>5. ASSUME NEW p \in Pages PROVE Judged(p)'
  <2>1. CASE \E w \in Workers : \E t \in DOMAIN batch[w] : RecordEvaluation(w, t)
    <3>1. PICK w \in Workers : \E t \in DOMAIN batch[w] : RecordEvaluation(w, t)  BY <2>1
    <3>2. PICK t \in DOMAIN batch[w] : RecordEvaluation(w, t)  BY <3>1
    <3>3. t.page \in Pages /\ t.version \in Version
      BY <1>1, <3>2, HeldTask DEF RecordEvaluation, StoreEvaluation
    <3> DEFINE row == [page |-> t.page, version |-> t.version,
                       attempt |-> tasks[t].attempt, status |-> Verdict(t)]
    <3>4. CASE UNCHANGED <<evals, page>>
      BY <1>2, <1>3, <3>4, UnjudgedKeeps DEF Unjudged
    <3>5. CASE page[t.page].latest = t.version
      <4>1. PICK e \in (IF Stored(t.page, t.version) = {} THEN {row} ELSE Stored(t.page, t.version)) :
              /\ evals' = evals \cup {e}
              /\ page' = [page EXCEPT
                   ![t.page].attempt = IF e.status \in EvalStatus THEN e.attempt ELSE @,
                   ![t.page].status = IF e.status = "revision_required" THEN "revising" ELSE e.status]
        BY <3>2, <3>5 DEF RecordEvaluation, StoreEvaluation
      <4>2. e.page = t.page /\ e.version = t.version  BY DEF Stored
      <4>3. CASE p # t.page
        <5>1. page'[p] = page[p]  BY <1>4, <4>1, <4>3
        <5> QED BY <1>2, <1>3, <4>1, <5>1, UnjudgedKeeps DEF Unjudged
      <4>4. CASE p = t.page
        <5>1. page[p] \in PageRow  BY <1>4
        <5>2. /\ page'[p].latest = t.version
              /\ page'[p].status = IF e.status = "revision_required" THEN "revising" ELSE e.status
          BY <1>4, <3>5, <4>1, <4>4, <5>1 DEF PageRow
        <5>3. e \in Stored(p, page[p].latest)'  BY <4>1, <4>2, <4>4, <5>2 DEF Stored
        <5> QED BY <5>2, <5>3 DEF Judged
      <4> QED BY <4>3, <4>4
    <3> QED BY <3>2, <3>4, <3>5 DEF RecordEvaluation, StoreEvaluation
  <2>2. CASE \E w \in Workers : \E q \in Pages : ApprovePage(w, q)
    <3>1. PICK w \in Workers : \E q \in Pages : ApprovePage(w, q)  BY <2>2
    <3>2. PICK q \in Pages : ApprovePage(w, q)  BY <3>1
    <3>3. evals' = evals  BY <3>2 DEF ApprovePage, Approve
    <3>4. role'[w] = "approve"  BY <1>1, <1>2, <3>2 DEF ApprovePage, Approve, RolesOK
    <3>5. CASE page'[p] = page[p]  BY <1>2, <1>3, <3>3, <3>5, UnjudgedKeeps DEF Unjudged
    <3>6. CASE page'[p] # page[p]
      <4>1. page[p] \in PageRow  BY <1>4
      <4>2. /\ page[p].status = "awaiting_human_review"
            /\ page'[p].status = "passed" /\ page'[p].latest = page[p].latest
        BY <1>4, <3>2, <3>6, <4>1 DEF ApprovePage, Approve, PageRow
      <4>3. \E e \in Stored(p, page[p].latest) : e.status = "awaiting_human_review"
        BY <1>3, <4>2 DEF Judged
      <4> QED BY <3>3, <3>4, <4>2, <4>3 DEF Judged, Stored
    <3> QED BY <3>5, <3>6
  <2>3. CASE /\ ~\E w \in Workers : \E t \in DOMAIN batch[w] : RecordEvaluation(w, t)
             /\ ~\E w \in Workers : \E q \in Pages : ApprovePage(w, q)
    <3>1. evals' = evals /\ Unjudged(p)  BY <1>1, <2>3, OnlyTheseJudge
    <3> QED BY <1>2, <1>3, <3>1, UnjudgedKeeps
  <2> QED BY <2>1, <2>2, <2>3
<1>6. PassedWasJudged'  BY <1>5 DEF PassedWasJudged, Judged
<1> QED BY <1>1, <1>6 DEF JudgedInv

\* However writers, evaluators, reviewers, restarts and human decisions are
\* interleaved, a page stands as passed only on an evaluation of its current
\* artifact: one that passed it, or one that escalated it before an approval.
THEOREM PassedIsJudged == Spec => []PassedWasJudged
<1>1. Init => JudgedInv
  <2> SUFFICES ASSUME Init PROVE JudgedInv  OBVIOUS
  <2>1. \A p \in Pages : page[p].status = "absent"  BY DEF Init
  <2> QED BY <2>1, TypeInit DEF Init, JudgedInv, RolesOK, PassedWasJudged
<1>2. JudgedInv => PassedWasJudged  BY DEF JudgedInv
<1> QED BY <1>1, <1>2, JudgedNext, PTL DEF Spec

-----------------------------------------------------------------------------
(* Leases that outlast their batches give mutual exclusion.                *)

\* A task in a live worker's batch is leased or was cancelled, and a worker
\* that was not started holds nothing.
HeldIsLeased ==
    \A w \in Workers :
        /\ pc[w] = "off" => DOMAIN batch[w] = {}
        /\ Live(w) => \A t \in DOMAIN batch[w] :
                         \/ tasks[t].status = "cancelled"
                         \/ tasks[t].status = "running" /\ tasks[t].lease = "live"

LeaseInv == TypeOK /\ HeldIsLeased /\ NoDoubleRun

\* What a step leaves of worker u: it is not brought back from its end, it holds
\* nothing new, and the rows of what it holds are untouched or cancelled.
Undisturbed(u) ==
    /\ pc'[u] = "off" => pc[u] = "off"
    /\ Live(u)' => Live(u) \/ pc[u] = "off"
    /\ \A t \in DOMAIN batch'[u] :
         /\ t \in DOMAIN batch[u]
         /\ Live(u) => tasks'[t] = tasks[t] \/ tasks'[t].status = "cancelled"

LEMMA UndisturbedKeeps ==
    ASSUME LeaseInv, TypeOK', \A u \in Workers : Undisturbed(u)
    PROVE  LeaseInv'
<1>1. HeldIsLeased'  BY DEF LeaseInv, HeldIsLeased, Undisturbed
<1>2. NoDoubleRun'
  <2> SUFFICES ASSUME NEW w \in Workers, NEW u \in Workers, w # u, Live(w)', Live(u)',
                      NEW t \in DOMAIN batch'[w], t \in DOMAIN batch'[u]
               PROVE  FALSE
    BY DEF NoDoubleRun
  <2>1. t \in DOMAIN batch[w] /\ t \in DOMAIN batch[u]  BY DEF Undisturbed
  <2>2. Live(w) /\ Live(u)  BY <2>1 DEF Undisturbed, LeaseInv, HeldIsLeased
  <2> QED BY <2>1, <2>2 DEF LeaseInv, NoDoubleRun
<1> QED BY <1>1, <1>2 DEF LeaseInv

\* A handler step moves no worker, changes no batch's tasks and no existing row.
LEMMA HandlerDisturbsNobody ==
    ASSUME TypeOK, NEW w \in Workers, NEW t \in DOMAIN batch[w], HandlerStep(w, t),
           NEW u \in Workers
    PROVE  Undisturbed(u)
<1>1. pc' = pc
  BY DEF HandlerStep, WriterPrepare, WriterSeals, RecordArtifact, Promote, EvaluatorReads,
     RecordEvaluation, StoreEvaluation, EvaluatorRevises, EvaluatorCounts,
     EvaluatorEnqueuesReview, EnqueueReview, ReviewerReads, ReviewerClean, ReviewerCorrects,
     HandlerFails, control
<1>2. DOMAIN batch'[u] = DOMAIN batch[u]
  <2>0. batch = [x \in Workers |-> batch[x]] /\ batch[w] = [x \in DOMAIN batch[w] |-> batch[w][x]]
    BY DEF TypeOK, BatchOK, TableOf
  <2>1. ASSUME NEW h, batch' = [batch EXCEPT ![w][t] = h] PROVE DOMAIN batch'[u] = DOMAIN batch[u]
    BY <2>0, <2>1
  <2>2. ASSUME NEW label, Advance(w, t, label) PROVE DOMAIN batch'[u] = DOMAIN batch[u]
    BY <2>0, <2>2 DEF Advance
  <2>3. CASE EvaluatorCounts(w, t)
    <3>1. \E h : batch' = [batch EXCEPT ![w][t] = h]  BY <2>3 DEF EvaluatorCounts
    <3> QED BY <2>1, <3>1
  <2>4. CASE ReviewerReads(w, t)
    <3>1. \E h : batch' = [batch EXCEPT ![w][t] = h]  BY <2>4 DEF ReviewerReads
    <3> QED BY <2>1, <3>1
  <2>5. CASE ~EvaluatorCounts(w, t) /\ ~ReviewerReads(w, t)
    <3>1. \E label : Advance(w, t, label)
      BY <2>5 DEF HandlerStep, WriterPrepare, WriterSeals, RecordArtifact, Promote, EvaluatorReads,
         RecordEvaluation, StoreEvaluation, EvaluatorRevises, EvaluatorEnqueuesReview,
         EnqueueReview, ReviewerClean, ReviewerCorrects, HandlerFails
    <3> QED BY <2>2, <3>1
  <2> QED BY <2>3, <2>4, <2>5
<1>3. ASSUME NEW s \in DOMAIN tasks PROVE tasks'[s] = tasks[s]
  <2>1. tasks' = tasks \/ \E rows : tasks' = Enqueue(rows)
    <3>1. CASE EvaluatorRevises(w, t)
      BY <3>1 DEF EvaluatorRevises, ScheduleRevisions, ScheduleAt
    <3>2. CASE ReviewerCorrects(w, t)
      BY <3>2 DEF ReviewerCorrects, ScheduleRevisions, ScheduleAt
    <3>3. CASE EvaluatorEnqueuesReview(w, t)
      BY <3>3 DEF EvaluatorEnqueuesReview, EnqueueReview
    <3>4. CASE ~EvaluatorRevises(w, t) /\ ~ReviewerCorrects(w, t) /\ ~EvaluatorEnqueuesReview(w, t)
      BY <3>4 DEF HandlerStep, WriterPrepare, WriterSeals, RecordArtifact, Promote, EvaluatorReads,
         RecordEvaluation, StoreEvaluation, EvaluatorCounts, ReviewerReads, ReviewerClean,
         HandlerFails, tables
    <3> QED BY <3>1, <3>2, <3>3, <3>4
  <2> QED BY <2>1 DEF Enqueue
<1>4. DOMAIN batch[u] \subseteq DOMAIN tasks  BY DEF TypeOK, BatchOK, TableOf
<1> QED BY <1>1, <1>2, <1>3, <1>4 DEF Undisturbed, Live

\* A worker that moves on from a label of a live or fresh worker, without
\* touching batches, disturbs nobody as long as the rows in use stay.
LEMMA MoveDisturbsNobody ==
    ASSUME TypeOK, NEW w \in Workers, NEW label, Goto(w, label), label # "off",
           pc[w] \notin Terminal, UNCHANGED batch,
           \A u \in Workers : Live(u) => \A t \in DOMAIN batch[u] :
               tasks'[t] = tasks[t] \/ tasks'[t].status = "cancelled"
    PROVE  \A u \in Workers : Undisturbed(u)
<1>1. \A u \in Workers \ {w} : pc'[u] = pc[u]  BY DEF Goto, TypeOK, ControlOK
<1>2. pc'[w] = label  BY DEF Goto, TypeOK, ControlOK
<1> QED BY <1>1, <1>2 DEF Undisturbed, Live

\* The claim takes tasks that no live worker holds.
LEMMA ClaimExcludes ==
    ASSUME LeaseInv, TypeOK', NEW w \in Workers, ClaimReadyTasks(w)
    PROVE  LeaseInv'
<1>1. PICK claimed \in SUBSET {t \in DOMAIN tasks : Ready(t)} :
        /\ tasks' = [t \in DOMAIN tasks |->
                       IF t \in claimed
                       THEN [tasks[t] EXCEPT !.status = "running",
                                             !.owner = LeaseOwner(w), !.lease = "live"]
                       ELSE tasks[t]]
        /\ batch' = [batch EXCEPT ![w] = [t \in claimed |-> Fresh]]
        /\ Goto(w, IF claimed = {} THEN "snapshot" ELSE "run")
  BY DEF ClaimReadyTasks
<1>2. TypeOK /\ HeldIsLeased /\ NoDoubleRun  BY DEF LeaseInv
<1>3. DOMAIN batch'[w] = claimed /\ pc'[w] \in {"snapshot", "run"}
  BY <1>1, <1>2 DEF TypeOK, BatchOK, ControlOK, Goto
<1>4. ASSUME NEW u \in Workers \ {w} PROVE batch'[u] = batch[u] /\ pc'[u] = pc[u]
  BY <1>1, <1>2, <1>4 DEF TypeOK, BatchOK, ControlOK, Goto
<1>5. ASSUME NEW u \in Workers \ {w}, Live(u), NEW t \in DOMAIN batch[u]
      PROVE  t \notin claimed /\ tasks'[t] = tasks[t]
  <2>1. t \in DOMAIN tasks  BY <1>2 DEF TypeOK, BatchOK, TableOf
  <2>2. tasks[t].status # "pending"  BY <1>2, <1>5 DEF HeldIsLeased
  <2> QED BY <1>1, <2>1, <2>2 DEF Ready
<1>6. ASSUME NEW t \in claimed PROVE tasks'[t].status = "running" /\ tasks'[t].lease = "live"
  <2>1. t \in DOMAIN tasks /\ tasks[t] \in TaskRow  BY <1>2 DEF TypeOK, TablesOK, TableOf
  <2> QED BY <1>1, <2>1 DEF TaskRow
<1>7. HeldIsLeased'
  <2> SUFFICES ASSUME NEW u \in Workers
               PROVE  /\ pc'[u] = "off" => DOMAIN batch'[u] = {}
                      /\ Live(u)' => \A t \in DOMAIN batch'[u] :
                            \/ tasks'[t].status = "cancelled"
                            \/ tasks'[t].status = "running" /\ tasks'[t].lease = "live"
    BY DEF HeldIsLeased
  <2>1. CASE u = w  BY <1>3, <1>6, <2>1
  <2>2. CASE u # w  BY <1>2, <1>4, <1>5, <2>2 DEF HeldIsLeased, Live
  <2> QED BY <2>1, <2>2
<1>8. NoDoubleRun'
  <2>1. ASSUME NEW u \in Workers \ {w}, Live(u)' PROVE DOMAIN batch'[u] \cap DOMAIN batch'[w] = {}
    <3>1. Live(u)  BY <1>4, <2>1 DEF Live
    <3> QED BY <1>3, <1>4, <1>5, <3>1
  <2>2. ASSUME NEW u \in Workers \ {w}, NEW v \in Workers \ {w}, u # v, Live(u)', Live(v)'
        PROVE  DOMAIN batch'[u] \cap DOMAIN batch'[v] = {}
    <3>1. Live(u) /\ Live(v)  BY <1>4, <2>2 DEF Live
    <3> QED BY <1>2, <1>4, <2>2, <3>1 DEF NoDoubleRun
  <2> QED BY <2>1, <2>2 DEF NoDoubleRun
<1> QED BY <1>7, <1>8 DEF LeaseInv

\* An outcome is persisted by the only live worker that holds the task.
LEMMA SettlingDisturbsNobody ==
    ASSUME LeaseInv, NEW w \in Workers, NEW t \in DOMAIN batch[w], pc[w] = "run",
           NEW failed, AfterSettling(w, t, failed),
           \A s \in DOMAIN tasks \ {t} : tasks'[s] = tasks[s]
    PROVE  \A u \in Workers : Undisturbed(u)
<1>1. TypeOK /\ NoDoubleRun  BY DEF LeaseInv
<1>2. Live(w)  BY DEF Live, Terminal
<1>3. DOMAIN batch'[w] = DOMAIN batch[w] \ {t}
  BY <1>1 DEF AfterSettling, Without, TypeOK, BatchOK
<1>4. \A u \in Workers \ {w} : batch'[u] = batch[u] /\ pc'[u] = pc[u]
  BY <1>1 DEF AfterSettling, Goto, TypeOK, BatchOK, ControlOK
<1>5. pc'[w] # "off"  BY <1>1 DEF AfterSettling, Goto, TypeOK, ControlOK
<1>6. \A u \in Workers : DOMAIN batch[u] \subseteq DOMAIN tasks
  BY <1>1 DEF TypeOK, BatchOK, TableOf
<1>7. \A u \in Workers \ {w} : Live(u) => t \notin DOMAIN batch[u]
  BY <1>1, <1>2 DEF NoDoubleRun
<1>8. Undisturbed(w)  BY <1>2, <1>3, <1>5, <1>6 DEF Undisturbed
<1>9. \A u \in Workers \ {w} : Undisturbed(u)  BY <1>4, <1>6, <1>7 DEF Undisturbed, Live
<1> QED BY <1>8, <1>9

LEMMA LeaseNext ==
    ASSUME MaxOverruns = 0 PROVE LeaseInv /\ [Next]_vars => LeaseInv'
<1> SUFFICES ASSUME LeaseInv, [Next]_vars PROVE LeaseInv'  OBVIOUS
<1>0. TypeOK /\ HeldIsLeased /\ NoDoubleRun /\ TypeOK'  BY TypeNext DEF LeaseInv
<1>1. ASSUME \A u \in Workers : Undisturbed(u) PROVE LeaseInv'  BY <1>0, <1>1, UndisturbedKeeps
<1>2. \A u \in Workers : DOMAIN batch[u] \subseteq DOMAIN tasks  BY <1>0 DEF TypeOK, BatchOK, TableOf
<1>3. ASSUME NEW w \in Workers, NEW label, Goto(w, label), label # "off",
             pc[w] \notin Terminal, UNCHANGED <<batch, tasks>>
      PROVE  LeaseInv'
  BY <1>0, <1>1, <1>3, MoveDisturbsNobody
<1>4. ASSUME NEW w \in Workers, NEW label, Goto(w, label), label # "off",
             pc[w] \notin Terminal, UNCHANGED batch, NEW rows, tasks' = Enqueue(rows)
      PROVE  LeaseInv'
  <2>1. \A t \in DOMAIN tasks : tasks'[t] = tasks[t]  BY <1>4 DEF Enqueue
  <2> QED BY <1>0, <1>1, <1>2, <1>4, <2>1, MoveDisturbsNobody
<1>5. CASE UNCHANGED vars  BY <1>1, <1>5 DEF vars, Undisturbed, Live
<1>6. ASSUME NEW w \in Workers, Start(w) PROVE LeaseInv'
  <2>1. UNCHANGED <<batch, tasks>> /\ pc[w] = "off"
    BY <1>6 DEF Start, StartInvoke, StartApprove, StartRequestChanges, StartReject, StartDecision
  <2>2. \E label : Goto(w, label) /\ label # "off"
    BY <1>6 DEF Start, StartInvoke, StartApprove, StartRequestChanges, StartReject, StartDecision
  <2> QED BY <1>3, <2>1, <2>2 DEF Terminal
<1>7. ASSUME NEW w \in Workers, Step(w) PROVE LeaseInv'
  <2>1. CASE \E p \in Pages : SeedPage(w, p)
    <3>1. \E label : Goto(w, label) /\ label # "off"  BY <2>1 DEF SeedPage
    <3>2. \E rows : tasks' = Enqueue(rows)  BY <2>1 DEF SeedPage
    <3>3. UNCHANGED batch /\ pc[w] \notin Terminal  BY <2>1 DEF SeedPage, Terminal
    <3> QED BY <1>4, <3>1, <3>2, <3>3
  <2>2. CASE ResetExpiredLeases(w)
    <3>1. ASSUME NEW u \in Workers, Live(u), NEW t \in DOMAIN batch[u] PROVE tasks'[t] = tasks[t]
      <4>1. t \in DOMAIN tasks  BY <1>2
      <4>2. ~(tasks[t].status = "running" /\ tasks[t].lease = "expired")
        BY <1>0, <3>1 DEF HeldIsLeased
      <4> QED BY <2>2, <4>1, <4>2 DEF ResetExpiredLeases, Recycle
    <3>2. Goto(w, "claim") /\ pc[w] \notin Terminal /\ UNCHANGED batch
      BY <2>2 DEF ResetExpiredLeases, Recycle, Terminal
    <3> QED BY <1>0, <1>1, <3>1, <3>2, MoveDisturbsNobody
  <2>3. CASE ClaimReadyTasks(w)  BY <1>0, <2>3, ClaimExcludes
  <2>4. CASE TakeSnapshot(w)
    <3>1. \E label : Goto(w, label) /\ label # "off"  BY <2>4 DEF TakeSnapshot
    <3> QED BY <1>3, <2>4, <3>1 DEF TakeSnapshot, Terminal
  <2>5. CASE Report(w)  BY <1>3, <2>5 DEF Report, Terminal
  <2>6. ASSUME NEW t \in DOMAIN batch[w], CompleteTask(w, t) \/ RetryOrFailTask(w, t) PROVE LeaseInv'
    <3>1. \E failed : AfterSettling(w, t, failed)
      BY <2>6 DEF CompleteTask, RetryOrFailTask, RetryOrFail
    <3>2. pc[w] = "run"  BY <2>6 DEF CompleteTask, RetryOrFailTask, RetryOrFail, Gathered
    <3>3. \A s \in DOMAIN tasks \ {t} : tasks'[s] = tasks[s]
      BY <2>6 DEF CompleteTask, RetryOrFailTask, RetryOrFail
    <3> QED BY <1>1, <3>1, <3>2, <3>3, SettlingDisturbsNobody
  <2>7. ASSUME NEW t \in DOMAIN batch[w], HandlerStep(w, t) PROVE LeaseInv'
    BY <1>0, <1>1, <2>7, HandlerDisturbsNobody
  <2>8. CASE \E p \in Pages : ApprovePage(w, p)
    <3>1. \E label : Goto(w, label) /\ label # "off"  BY <2>8 DEF ApprovePage, Approve
    <3> QED BY <1>3, <2>8, <3>1 DEF ApprovePage, Approve, Terminal
  <2>9. CASE ScheduleHumanRevisions(w)
    <3>1. \E rows : tasks' = Enqueue(rows)  BY <2>9 DEF ScheduleHumanRevisions
    <3> QED BY <1>4, <2>9, <3>1 DEF ScheduleHumanRevisions, Terminal
  <2>10. CASE CancelPendingTasks(w)
    <3>1. ASSUME NEW t \in DOMAIN tasks PROVE tasks'[t] = tasks[t] \/ tasks'[t].status = "cancelled"
      <4>1. tasks[t] \in TaskRow  BY <1>0 DEF TypeOK, TablesOK, TableOf
      <4> QED BY <2>10, <4>1 DEF CancelPendingTasks, TaskRow
    <3>2. Goto(w, "reject") /\ pc[w] \notin Terminal /\ UNCHANGED batch
      BY <2>10 DEF CancelPendingTasks, Terminal
    <3> QED BY <1>0, <1>1, <1>2, <3>1, <3>2, MoveDisturbsNobody
  <2>11. CASE MarkEscalatedFailed(w)  BY <1>3, <2>11 DEF MarkEscalatedFailed, Terminal
  <2> QED BY <1>7, <2>1, <2>2, <2>3, <2>4, <2>5, <2>6, <2>7, <2>8, <2>9, <2>10, <2>11
          DEF Step, ExecutorStep, DecisionStep
<1>8. ASSUME NEW w \in Workers, Crash(w) PROVE LeaseInv'
  <2>1. DOMAIN batch'[w] = {} /\ pc'[w] = "crashed"
    BY <1>0, <1>8 DEF Crash, NoBatch, Goto, TypeOK, BatchOK, ControlOK
  <2>2. \A u \in Workers \ {w} : batch'[u] = batch[u] /\ pc'[u] = pc[u]
    BY <1>0, <1>8 DEF Crash, Goto, TypeOK, BatchOK, ControlOK
  <2>3. tasks' = tasks  BY <1>8 DEF Crash, tables
  <2>4. Undisturbed(w)  BY <1>8, <2>1 DEF Crash, Undisturbed
  <2>5. \A u \in Workers \ {w} : Undisturbed(u)  BY <2>2, <2>3 DEF Undisturbed, Live
  <2> QED BY <1>1, <2>4, <2>5
<1>9. ASSUME NEW t \in DOMAIN tasks, LeaseExpires(t) PROVE LeaseInv'
  <2>1. overruns \in 0..0  BY <1>0 DEF TypeOK, ControlOK
  <2>2. ~\E w \in Workers : Live(w) /\ t \in DOMAIN batch[w]
    BY <1>9, <2>1 DEF LeaseExpires
  <2>3. \A s \in DOMAIN tasks \ {t} : tasks'[s] = tasks[s]  BY <1>9 DEF LeaseExpires
  <2>4. UNCHANGED <<pc, batch>>  BY <1>9 DEF LeaseExpires
  <2>5. \A u \in Workers : Undisturbed(u)  BY <1>2, <2>2, <2>3, <2>4 DEF Undisturbed, Live
  <2> QED BY <1>1, <2>5
<1> QED BY <1>5, <1>6, <1>7, <1>8, <1>9 DEF Next, Quiet

\* As long as no batch outlasts lease_seconds, two live workers never run the
\* same task, although all of them claim under one lease owner: claims, lease
\* resets, crashes, cancellations and recycled failures included.
THEOREM LeasesExclude ==
    ASSUME MaxOverruns = 0 PROVE Spec => []NoDoubleRun
<1>1. Init => LeaseInv
  <2> SUFFICES ASSUME Init PROVE LeaseInv  OBVIOUS
  <2>1. \A w \in Workers : pc[w] = "off" /\ batch[w] = NoBatch  BY DEF Init
  <2>2. DOMAIN NoBatch = {}  BY DEF NoBatch
  <2>3. \A w \in Workers : ~Live(w)  BY <2>1 DEF Live
  <2> QED BY <2>1, <2>2, <2>3, TypeInit DEF LeaseInv, HeldIsLeased, NoDoubleRun
<1>2. LeaseInv => NoDoubleRun  BY DEF LeaseInv
<1>3. LeaseInv /\ [Next]_vars => LeaseInv'  BY LeaseNext
<1> QED BY <1>1, <1>2, <1>3, PTL DEF Spec

-----------------------------------------------------------------------------
(* Late completions lose, even when leases do not exclude.                 *)

\* What a step may do to the latest artifact of each page and to the stored
\* evaluations: the body of LateCompletionsLose.
LateLoses ==
    /\ \A p \in Pages : page[p].latest <= page'[p].latest
    /\ evals \subseteq evals'
    /\ \A e \in evals' \ evals : Stored(e.page, e.version) = {}

LEMMA SameLatest ==
    ASSUME TypeOK, evals' = evals, \A p \in Pages : page'[p].latest = page[p].latest
    PROVE  LateLoses
BY DEF LateLoses, TypeOK, TablesOK, PageRow

LEMMA LateNext == TypeOK /\ [Next]_vars => LateLoses
<1> SUFFICES ASSUME TypeOK, [Next]_vars PROVE LateLoses  OBVIOUS
<1>0. page \in [Pages -> PageRow] /\ evals \subseteq EvalRow  BY DEF TypeOK, TablesOK
<1>1. CASE UNCHANGED <<page, evals>>  BY <1>1, SameLatest
<1>2. ASSUME NEW w \in Workers, Start(w) PROVE LateLoses
  <2>1. CASE StartInvoke(w)
    <3>1. \A p \in Pages : page'[p].latest = page[p].latest
      BY <1>0, <2>1 DEF StartInvoke, PageRow
    <3> QED BY <2>1, <3>1, SameLatest DEF StartInvoke
  <2> QED BY <1>1, <1>2, <2>1 DEF Start, StartApprove, StartRequestChanges, StartReject
<1>3. ASSUME NEW P, NEW next, NEW att, NEW source, ScheduleAt(P, next, att, source), evals' = evals
      PROVE  LateLoses
  <2>1. ASSUME NEW p \in Pages PROVE page'[p].latest = page[p].latest
    <3>1. page[p] \in PageRow  BY <1>0
    <3> QED BY <1>3, <3>1 DEF ScheduleAt, PageRow
  <2> QED BY <1>3, <2>1, SameLatest
<1>4. ASSUME NEW w \in Workers, NEW t \in DOMAIN batch[w], HandlerStep(w, t) PROVE LateLoses
  <2>1. CASE RecordArtifact(w, t)
    <3>1. t.page \in Pages /\ t.version \in Version
      BY <2>1, HeldTask DEF RecordArtifact, Promote
    <3>2. CASE page' = page  BY <1>1, <2>1, <3>2 DEF RecordArtifact, Promote
    <3>3. CASE page' # page
      <4>1. /\ page' = [page EXCEPT ![t.page].latest = t.version, ![t.page].status = "evaluating"]
            /\ page[t.page].latest <= t.version
        BY <2>1, <3>3 DEF RecordArtifact, Promote
      <4>2. ASSUME NEW p \in Pages PROVE page[p].latest <= page'[p].latest
        <5>1. page[p] \in PageRow  BY <1>0
        <5>2. p = t.page => page'[p].latest = t.version  BY <1>0, <3>1, <4>1, <5>1 DEF PageRow
        <5>3. p # t.page => page'[p] = page[p]  BY <1>0, <4>1
        <5> QED BY <4>1, <5>1, <5>2, <5>3 DEF PageRow
      <4>3. evals' = evals  BY <2>1 DEF RecordArtifact, Promote
      <4> QED BY <4>2, <4>3 DEF LateLoses
    <3> QED BY <3>2, <3>3
  <2>2. CASE RecordEvaluation(w, t)
    <3>1. t.page \in Pages  BY <2>2, HeldTask DEF RecordEvaluation, StoreEvaluation
    <3> DEFINE row == [page |-> t.page, version |-> t.version,
                       attempt |-> tasks[t].attempt, status |-> Verdict(t)]
    <3>2. CASE UNCHANGED <<evals, page>>  BY <1>1, <3>2
    <3>3. CASE page[t.page].latest = t.version
      <4>1. PICK e \in (IF Stored(t.page, t.version) = {} THEN {row} ELSE Stored(t.page, t.version)) :
              /\ evals' = evals \cup {e}
              /\ page' = [page EXCEPT
                   ![t.page].attempt = IF e.status \in EvalStatus THEN e.attempt ELSE @,
                   ![t.page].status = IF e.status = "revision_required" THEN "revising" ELSE e.status]
        BY <2>2, <3>3 DEF RecordEvaluation, StoreEvaluation
      <4>2. ASSUME NEW p \in Pages PROVE page[p].latest <= page'[p].latest
        <5>1. page[p] \in PageRow  BY <1>0
        <5>2. page'[p].latest = page[p].latest  BY <1>0, <3>1, <4>1, <5>1 DEF PageRow
        <5> QED BY <5>1, <5>2 DEF PageRow
      <4>3. e \in evals \/ (Stored(e.page, e.version) = {})
        BY DEF Stored
      <4> QED BY <4>1, <4>2, <4>3 DEF LateLoses
    <3> QED BY <2>2, <3>2, <3>3 DEF RecordEvaluation, StoreEvaluation
  <2>3. CASE EvaluatorRevises(w, t)
    BY <1>1, <1>3, <2>3 DEF EvaluatorRevises, ScheduleRevisions
  <2>4. CASE ReviewerCorrects(w, t)
    <3>1. evals' = evals  BY <2>4 DEF ReviewerCorrects
    <3>2. UNCHANGED page \/ \E P, next, att, source : ScheduleAt(P, next, att, source)
      BY <2>4 DEF ReviewerCorrects, ScheduleRevisions
    <3> QED BY <1>1, <1>3, <3>1, <3>2
  <2>5. CASE /\ ~RecordArtifact(w, t) /\ ~RecordEvaluation(w, t)
             /\ ~EvaluatorRevises(w, t) /\ ~ReviewerCorrects(w, t)
    <3>1. UNCHANGED <<page, evals>>
      BY <1>4, <2>5 DEF HandlerStep, WriterPrepare, WriterSeals, EvaluatorReads, EvaluatorCounts,
         EvaluatorEnqueuesReview, EnqueueReview, ReviewerReads, ReviewerClean, HandlerFails, tables
    <3> QED BY <1>1, <3>1
  <2> QED BY <2>1, <2>2, <2>3, <2>4, <2>5
<1>5. ASSUME NEW w \in Workers, NEW t \in DOMAIN batch[w], CompleteTask(w, t) \/ RetryOrFailTask(w, t)
      PROVE  UNCHANGED <<page, evals>>
  BY <1>5 DEF CompleteTask, RetryOrFailTask, RetryOrFail, AfterSettling
<1>6. ASSUME NEW w \in Workers, DecisionStep(w) PROVE LateLoses
  <2>1. evals' = evals
    BY <1>6 DEF DecisionStep, ApprovePage, Approve, ScheduleHumanRevisions, CancelPendingTasks,
       MarkEscalatedFailed
  <2>2. ASSUME NEW p \in Pages PROVE page'[p].latest = page[p].latest
    <3>1. page[p] \in PageRow  BY <1>0
    <3>2. CASE \E q \in Pages : ApprovePage(w, q)
      BY <1>0, <3>1, <3>2 DEF ApprovePage, Approve, PageRow
    <3>3. CASE ScheduleHumanRevisions(w)
      BY <3>1, <3>3 DEF ScheduleHumanRevisions, PageRow
    <3>4. CASE MarkEscalatedFailed(w)  BY <3>1, <3>4 DEF MarkEscalatedFailed, PageRow
    <3>5. CASE CancelPendingTasks(w)  BY <3>5 DEF CancelPendingTasks
    <3> QED BY <1>6, <3>2, <3>3, <3>4, <3>5 DEF DecisionStep
  <2> QED BY <2>1, <2>2, SameLatest
<1>7. ASSUME NEW w \in Workers, Step(w) PROVE LateLoses
  <2>1. CASE \E q \in Pages : SeedPage(w, q)  BY <1>1, <2>1 DEF SeedPage
  <2>2. CASE ResetExpiredLeases(w) \/ ClaimReadyTasks(w) \/ TakeSnapshot(w) \/ Report(w)
    BY <1>1, <2>2 DEF ResetExpiredLeases, Recycle, ClaimReadyTasks, TakeSnapshot, Report
  <2> QED BY <1>1, <1>4, <1>5, <1>6, <1>7, <2>1, <2>2 DEF Step, ExecutorStep
<1>8. ASSUME NEW w \in Workers, Crash(w) PROVE UNCHANGED <<page, evals>>  BY <1>8 DEF Crash, tables
<1>9. ASSUME NEW t \in DOMAIN tasks, LeaseExpires(t) PROVE UNCHANGED <<page, evals>>
  BY <1>9 DEF LeaseExpires
<1> QED BY <1>1, <1>2, <1>7, <1>8, <1>9 DEF Next, Quiet, vars

\* A late completion never replaces a newer artifact of its page and never
\* rewrites a stored evaluation, however often leases expire under live workers.
THEOREM LateNeverWins == Spec => LateCompletionsLose
<1>1. TypeOK /\ [Next]_vars
        => [/\ \A p \in Pages : page[p].latest <= page'[p].latest
            /\ evals \subseteq evals'
            /\ \A e \in evals' \ evals : Stored(e.page, e.version) = {}]_vars
  BY LateNext DEF LateLoses
<1> QED BY <1>1, TypeCorrect, PTL DEF Spec, LateCompletionsLose
-----------------------------------------------------------------------------
(* No page is left behind, if no batch outlasts its lease.                 *)

Completed(t) == t \in DOMAIN tasks /\ tasks[t].status = "completed"

\* A worker executes t, and its handler has come to one of the labels.
HeldAt(t, labels) ==
    \E w \in Workers : Live(w) /\ t \in DOMAIN batch[w] /\ batch[w][t].at \in labels

Taken(t) == Completed(t) \/ HeldAt(t, HandlerAt)

\* Where the handler of a write and of an evaluation has done its duty.
WriteEnd == {"ok"}
EvalEnd  == {"ok", "count", "enqueue"}

Written(t) == t.kind = "write" /\ (Completed(t) \/ HeldAt(t, WriteEnd))
Closed(t)  == t.kind = "evaluate" /\ (Completed(t) \/ HeldAt(t, EvalEnd))

\* Both tasks of a pair are in the table, and the second waits for the first.
PairsOK ==
    \A p \in Pages, v \in Version :
        /\ WriteTask(p, v) \in DOMAIN tasks <=> EvaluateTask(p, v) \in DOMAIN tasks
        /\ EvaluateTask(p, v) \in DOMAIN tasks =>
             tasks[EvaluateTask(p, v)].deps = {WriteTask(p, v)}

DepsDone == \A t \in DOMAIN tasks : Taken(t) => \A d \in tasks[t].deps : Completed(d)

WritesDone == \A t \in DOMAIN tasks : Written(t) => t.version <= page[t.page].latest

\* A page that rests on t is judged, and if it is to be revised the task is there.
JudgedAt(t) ==
    page[t.page].latest = t.version =>
        /\ page[t.page].status # "evaluating"
        /\ page[t.page].status = "revising" => WriteTask(t.page, t.version + 1) \in DOMAIN tasks

EvalsDone == \A t \in DOMAIN tasks : Closed(t) => JudgedAt(t)

\* A page has an artifact unless it is new, and that artifact has its pair.
CurrentOK ==
    \A p \in Pages : /\ page[p].latest = 0 <=> page[p].status \in {"absent", "pending"}
                     /\ page[p].latest # 0 => EvaluateTask(p, page[p].latest) \in DOMAIN tasks

\* A replayed evaluation comes to the verdict that was stored.
EvalsTrue ==
    \A e \in evals : /\ EvaluateTask(e.page, e.version) \in DOMAIN tasks
                     /\ Completed(WriteTask(e.page, e.version))
                     /\ e.status = Verdict(EvaluateTask(e.page, e.version))

\* A reviewer saw an artifact of every page.
HandlersSaw ==
    \A w \in Workers : \A t \in DOMAIN batch[w] :
        batch[w][t].at = "verdict" => \A p \in Pages : page[p].latest # 0

Seeding(w) == role[w] = "invoke" /\ pc[w] \in {"seed", "crashed"}

SeedOK ==
    /\ \A w \in Workers : pc[w] = "off" => held[w] = {}
    /\ \A w \in Workers : pc[w] = "seed" =>
          role[w] = "invoke" /\ \A p \in held[w] : WriteTask(p, 1) \in DOMAIN tasks
    /\ \A p \in Pages : page[p].status = "pending" =>
          WriteTask(p, 1) \in DOMAIN tasks \/ \E w \in Workers : Seeding(w)

CareInv ==
    /\ LeaseInv /\ PairsOK /\ DepsDone /\ WritesDone /\ EvalsDone
    /\ CurrentOK /\ EvalsTrue /\ HandlersSaw /\ SeedOK

\* Rows keep what they wait for and how they count; a completed task stays so.
RowsGrow ==
    /\ DOMAIN tasks \subseteq DOMAIN tasks'
    /\ \A t \in DOMAIN tasks : /\ tasks'[t].deps = tasks[t].deps
                               /\ tasks'[t].attempt = tasks[t].attempt
                               /\ tasks'[t].human = tasks[t].human
                               /\ tasks[t].status = "completed" => tasks'[t].status = "completed"

NoneFalls == \A p \in Pages : page[p].latest <= page'[p].latest

\* The quality gate's verdict on a draft whose write is completed stands.
GateStays ==
    \A p \in Pages, v \in Version :
        Completed(WriteTask(p, v)) => (v \in good'[p] <=> v \in good[p])

\* A page that keeps its artifact and is not sent back to an evaluator or writer.
Calm(p) ==
    /\ page'[p].latest = page[p].latest
    /\ page'[p].status = page[p].status \/ page'[p].status \notin {"evaluating", "revising"}

LEMMA TakenRow ==
    ASSUME TypeOK, NEW t, Taken(t) \/ Written(t) \/ Closed(t)
    PROVE  t \in DOMAIN tasks
BY DEF Taken, Written, Closed, Completed, HeldAt, TypeOK, BatchOK, TableOf

LEMMA PageTaskShape ==
    ASSUME TypeOK, NEW t \in DOMAIN tasks, t.kind \in {"write", "evaluate"}
    PROVE  /\ t.page \in Pages /\ t.version \in Version /\ t.version \in Nat
           /\ t.kind = "write" => t = WriteTask(t.page, t.version)
           /\ t.kind = "evaluate" => t = EvaluateTask(t.page, t.version)
<1>1. t \in Task  BY DEF TypeOK, TablesOK, TableOf
<1>2. t \in PageTask  BY <1>1 DEF Task
<1> QED BY <1>2 DEF PageTask, WriteTask, EvaluateTask, Version

LEMMA PageShape ==
    ASSUME TypeOK
    PROVE  \A p \in Pages : page[p] \in PageRow /\ page[p].latest \in Nat
BY DEF TypeOK, TablesOK, PageRow

LEMMA KeepDeps ==
    ASSUME CareInv, RowsGrow,
           \A t \in DOMAIN tasks' : Taken(t)' =>
               Taken(t) \/ (t \in DOMAIN tasks /\ \A d \in tasks[t].deps : Completed(d))
    PROVE  DepsDone'
<1> SUFFICES ASSUME NEW t \in DOMAIN tasks', Taken(t)', NEW d \in tasks'[t].deps
             PROVE  Completed(d)'
  BY DEF DepsDone
<1>1. t \in DOMAIN tasks  BY TakenRow DEF CareInv, LeaseInv
<1>2. d \in tasks[t].deps  BY <1>1 DEF RowsGrow
<1>3. Completed(d)  BY <1>1, <1>2 DEF CareInv, DepsDone
<1> QED BY <1>3 DEF Completed, RowsGrow

LEMMA KeepWrites ==
    ASSUME CareInv, TypeOK', NoneFalls,
           \A t \in DOMAIN tasks' : Written(t)' => Written(t) \/ t.version <= page'[t.page].latest
    PROVE  WritesDone'
<1> SUFFICES ASSUME NEW t \in DOMAIN tasks', Written(t)' PROVE t.version <= page'[t.page].latest
  BY DEF WritesDone
<1>0. TypeOK  BY DEF CareInv, LeaseInv
<1>1. CASE Written(t)
  <2>1. t \in DOMAIN tasks /\ t.kind = "write"  BY <1>0, <1>1, TakenRow DEF Written
  <2>2. t.page \in Pages /\ t.version \in Nat  BY <1>0, <2>1, PageTaskShape
  <2>3. t.version <= page[t.page].latest  BY <1>1, <2>1 DEF CareInv, WritesDone
  <2>4. page[t.page].latest <= page'[t.page].latest /\ page[t.page].latest \in Nat
        /\ page'[t.page].latest \in Nat
    BY <1>0, <2>2 DEF NoneFalls, TypeOK, TablesOK, PageRow
  <2> QED BY <2>2, <2>3, <2>4
<1> QED BY <1>1

LEMMA KeepEvals ==
    ASSUME CareInv, RowsGrow,
           \A t \in DOMAIN tasks' : Closed(t)' => JudgedAt(t)' \/ (Closed(t) /\ Calm(t.page))
    PROVE  EvalsDone'
<1> SUFFICES ASSUME NEW t \in DOMAIN tasks', Closed(t), Calm(t.page) PROVE JudgedAt(t)'
  BY DEF EvalsDone
<1>1. t \in DOMAIN tasks  BY TakenRow DEF CareInv, LeaseInv
<1>2. JudgedAt(t)  BY <1>1 DEF CareInv, EvalsDone
<1> QED BY <1>2 DEF JudgedAt, Calm, RowsGrow

LEMMA KeepEvalsTrue ==
    ASSUME CareInv, RowsGrow, evals' = evals, GateStays
    PROVE  EvalsTrue'
<1> SUFFICES ASSUME NEW e \in evals
             PROVE  /\ EvaluateTask(e.page, e.version) \in DOMAIN tasks'
                    /\ Completed(WriteTask(e.page, e.version))'
                    /\ e.status = Verdict(EvaluateTask(e.page, e.version))'
  BY DEF EvalsTrue
<1> DEFINE t == EvaluateTask(e.page, e.version)
<1>1. /\ t \in DOMAIN tasks /\ Completed(WriteTask(e.page, e.version)) /\ e.status = Verdict(t)
      /\ e.page \in Pages /\ e.version \in Version
  BY DEF CareInv, LeaseInv, TypeOK, TablesOK, EvalRow, EvalsTrue
<1>2. t.page = e.page /\ t.version = e.version  BY DEF EvaluateTask
<1>3. /\ tasks'[t].human = tasks[t].human /\ tasks'[t].attempt = tasks[t].attempt
      /\ t.version \in good'[t.page] <=> t.version \in good[t.page]
  BY <1>1, <1>2 DEF RowsGrow, GateStays
<1>4. Verdict(t)' = Verdict(t)
  <2> HIDE DEF t
  <2> QED BY <1>3 DEF Verdict
<1>5. Completed(WriteTask(e.page, e.version))'  BY <1>1 DEF Completed, RowsGrow
<1> QED BY <1>1, <1>4, <1>5 DEF RowsGrow

LEMMA KeepSaw ==
    ASSUME CareInv, TypeOK', NoneFalls,
           \A w \in Workers : \A t \in DOMAIN batch'[w] :
              batch'[w][t].at = "verdict" =>
                 \/ \A p \in Pages : page[p].latest # 0
                 \/ t \in DOMAIN batch[w] /\ batch'[w][t].at = batch[w][t].at
    PROVE  HandlersSaw'
<1>0. TypeOK  BY DEF CareInv, LeaseInv
<1>1. \A p \in Pages : page[p].latest # 0 => page'[p].latest # 0
  <2> SUFFICES ASSUME NEW p \in Pages, page[p].latest # 0 PROVE page'[p].latest # 0  OBVIOUS
  <2>1. page[p].latest \in Nat /\ page'[p].latest \in Nat  BY <1>0 DEF TypeOK, TablesOK, PageRow
  <2>2. page[p].latest <= page'[p].latest  BY DEF NoneFalls
  <2> QED BY <2>1, <2>2
<1> QED BY <1>1 DEF CareInv, HandlersSaw

\* Pages that keep their artifact, and the artifact its pair.
LEMMA KeepCurrent ==
    ASSUME CareInv, RowsGrow, NEW p \in Pages,
           \/ page'[p] = page[p]
           \/ /\ page'[p].latest = page[p].latest
              /\ page'[p].status \in {"absent", "pending"} <=> page[p].status \in {"absent", "pending"}
    PROVE  /\ page'[p].latest = 0 <=> page'[p].status \in {"absent", "pending"}
           /\ page'[p].latest # 0 => EvaluateTask(p, page'[p].latest) \in DOMAIN tasks'
<1>1. /\ page[p].latest = 0 <=> page[p].status \in {"absent", "pending"}
      /\ page[p].latest # 0 => EvaluateTask(p, page[p].latest) \in DOMAIN tasks
  BY DEF CareInv, CurrentOK
<1>2. page'[p].latest = page[p].latest  OBVIOUS
<1>3. page'[p].status \in {"absent", "pending"} <=> page[p].status \in {"absent", "pending"}  OBVIOUS
<1> QED BY <1>1, <1>2, <1>3 DEF RowsGrow

LEMMA SamePages ==
    ASSUME CareInv, RowsGrow, page' = page
    PROVE  NoneFalls /\ CurrentOK' /\ \A p : Calm(p)
<1>1. NoneFalls
  <2> SUFFICES ASSUME NEW p \in Pages PROVE page[p].latest <= page'[p].latest  BY DEF NoneFalls
  <2>1. page[p].latest \in Nat  BY PageShape DEF CareInv, LeaseInv
  <2> QED BY <2>1
<1>2. CurrentOK'  BY KeepCurrent DEF CurrentOK
<1> QED BY <1>1, <1>2 DEF Calm

\* The same task ids: pairs stay pairs.
LEMMA SamePairs ==
    ASSUME CareInv, RowsGrow, \A t \in DOMAIN tasks' \ DOMAIN tasks : t.kind = "cross_page_review"
    PROVE  PairsOK'
<1> SUFFICES ASSUME NEW p \in Pages, NEW v \in Version
             PROVE  /\ WriteTask(p, v) \in DOMAIN tasks' <=> EvaluateTask(p, v) \in DOMAIN tasks'
                    /\ EvaluateTask(p, v) \in DOMAIN tasks' =>
                         tasks'[EvaluateTask(p, v)].deps = {WriteTask(p, v)}
  BY DEF PairsOK
<1>1. WriteTask(p, v).kind # "cross_page_review" /\ EvaluateTask(p, v).kind # "cross_page_review"
  BY DEF WriteTask, EvaluateTask
<1>2. /\ WriteTask(p, v) \in DOMAIN tasks' <=> WriteTask(p, v) \in DOMAIN tasks
      /\ EvaluateTask(p, v) \in DOMAIN tasks' <=> EvaluateTask(p, v) \in DOMAIN tasks
  BY <1>1 DEF RowsGrow
<1> QED BY <1>2 DEF CareInv, PairsOK, RowsGrow

\* No worker starts or ends seeding, and no page becomes pending.
LEMMA KeepSeed ==
    ASSUME CareInv, RowsGrow,
           \A w \in Workers : pc'[w] \in {"seed", "off"} =>
               pc'[w] = pc[w] /\ role'[w] = role[w] /\ held'[w] = held[w],
           \A w \in Workers : Seeding(w) => Seeding(w)',
           \A p \in Pages : page'[p].status = "pending" => page[p].status = "pending"
    PROVE  SeedOK'
<1>1. SeedOK  BY DEF CareInv
<1>2. ASSUME NEW w \in Workers, pc'[w] = "seed"
      PROVE  role'[w] = "invoke" /\ \A p \in held'[w] : WriteTask(p, 1) \in DOMAIN tasks'
  BY <1>1, <1>2 DEF SeedOK, RowsGrow
<1>3. ASSUME NEW p \in Pages, page'[p].status = "pending"
      PROVE  WriteTask(p, 1) \in DOMAIN tasks' \/ \E w \in Workers : Seeding(w)'
  BY <1>1, <1>3 DEF SeedOK, RowsGrow
<1>4. ASSUME NEW w \in Workers, pc'[w] = "off" PROVE held'[w] = {}
  BY <1>1, <1>4 DEF SeedOK
<1> QED BY <1>2, <1>3, <1>4 DEF SeedOK

\* Of all handlers that of t moves, to label.
OneMoves(w, t, label) ==
    \A u \in Workers : \A s \in DOMAIN batch'[u] :
       /\ s \in DOMAIN batch[u]
       /\ \/ ~(u = w /\ s = t) /\ batch'[u][s] = batch[u][s]
          \/ u = w /\ s = t /\ batch'[u][s].at = label

LEMMA AdvanceMoves ==
    ASSUME BatchOK, NEW w \in Workers, NEW t \in DOMAIN batch[w], NEW label, Advance(w, t, label)
    PROVE  OneMoves(w, t, label)
<1>1. batch'[w] = [batch[w] EXCEPT ![t].at = label] /\ \A u \in Workers \ {w} : batch'[u] = batch[u]
  BY DEF BatchOK, Advance
<1>2. batch[w][t] \in Handler /\ DOMAIN batch'[w] = DOMAIN batch[w]
  BY <1>1 DEF BatchOK, TableOf
<1>3. batch'[w][t].at = label /\ \A s \in DOMAIN batch[w] \ {t} : batch'[w][s] = batch[w][s]
  BY <1>1, <1>2 DEF Handler
<1> QED BY <1>1, <1>2, <1>3 DEF OneMoves

LEMMA RememberMoves ==
    ASSUME BatchOK, NEW w \in Workers, NEW t \in DOMAIN batch[w], NEW h,
           batch' = [batch EXCEPT ![w][t] = h]
    PROVE  OneMoves(w, t, h.at)
<1>1. batch'[w] = [batch[w] EXCEPT ![t] = h] /\ \A u \in Workers \ {w} : batch'[u] = batch[u]
  BY DEF BatchOK
<1>2. DOMAIN batch'[w] = DOMAIN batch[w] /\ batch'[w][t] = h
      /\ \A s \in DOMAIN batch[w] \ {t} : batch'[w][s] = batch[w][s]
  BY <1>1
<1> QED BY <1>1, <1>2 DEF OneMoves

LEMMA MovedHeld ==
    ASSUME NEW w \in Workers, NEW t, NEW label, OneMoves(w, t, label), pc' = pc,
           NEW s, NEW L, HeldAt(s, L)'
    PROVE  HeldAt(s, L) \/ (s = t /\ label \in L /\ Live(w) /\ t \in DOMAIN batch[w])
<1>1. PICK u \in Workers : Live(u)' /\ s \in DOMAIN batch'[u] /\ batch'[u][s].at \in L
  BY DEF HeldAt
<1>2. Live(u)  BY <1>1 DEF Live
<1>3. s \in DOMAIN batch[u] /\ (batch'[u][s] = batch[u][s] \/ (u = w /\ s = t /\ batch'[u][s].at = label))
  BY <1>1 DEF OneMoves
<1> QED BY <1>1, <1>2, <1>3 DEF HeldAt

\* A handler step: it owes what its new label claims.
LEMMA CareHandler ==
    ASSUME CareInv, LeaseInv', NEW w \in Workers, NEW t \in DOMAIN batch[w], NEW label,
           pc[w] = "run", OneMoves(w, t, label), UNCHANGED <<pc, role, held>>,
           RowsGrow, PairsOK', NoneFalls, CurrentOK', EvalsTrue',
           \A s \in DOMAIN tasks' : Completed(s)' => Completed(s),
           \A p \in Pages : page'[p].status = "pending" => page[p].status = "pending",
           \A s \in DOMAIN tasks : Closed(s) /\ s # t => JudgedAt(s)' \/ Calm(s.page),
           t.kind = "write" /\ label \in WriteEnd => t.version <= page'[t.page].latest,
           t.kind = "evaluate" /\ label \in EvalEnd =>
               JudgedAt(t)' \/ (batch[w][t].at \in EvalEnd /\ Calm(t.page)),
           label = "verdict" => \A p \in Pages : page[p].latest # 0
    PROVE  CareInv'
<1>0. TypeOK /\ TypeOK' /\ Live(w) /\ batch[w][t] \in Handler /\ t \in DOMAIN tasks
  BY HeldTask DEF CareInv, LeaseInv, Live, Terminal
<1>1. DepsDone'
  <2>1. ASSUME NEW s \in DOMAIN tasks', Taken(s)' PROVE Taken(s)
    <3>1. CASE Completed(s)'  BY <3>1 DEF Taken
    <3>2. CASE HeldAt(s, HandlerAt)'
      <4>1. HeldAt(s, HandlerAt) \/ s = t  BY <3>2, MovedHeld
      <4>2. HeldAt(t, HandlerAt)  BY <1>0 DEF HeldAt, Handler
      <4> QED BY <4>1, <4>2 DEF Taken
    <3> QED BY <2>1, <3>1, <3>2 DEF Taken, HandlerAt
  <2> QED BY <2>1, KeepDeps
<1>2. WritesDone'
  <2>1. ASSUME NEW s \in DOMAIN tasks', Written(s)'
        PROVE  Written(s) \/ s.version <= page'[s.page].latest
    <3>1. s.kind = "write" /\ (Completed(s)' \/ HeldAt(s, WriteEnd)')  BY <2>1 DEF Written, WriteEnd
    <3>2. CASE HeldAt(s, WriteEnd)'
      <4>1. HeldAt(s, WriteEnd) \/ (s = t /\ label \in WriteEnd)  BY <3>2, MovedHeld
      <4> QED BY <3>1, <4>1 DEF Written
    <3> QED BY <3>1, <3>2 DEF Written
  <2> QED BY <1>0, <2>1, KeepWrites
<1>3. EvalsDone'
  <2>1. ASSUME NEW s \in DOMAIN tasks', Closed(s)' PROVE JudgedAt(s)' \/ (Closed(s) /\ Calm(s.page))
    <3>1. s.kind = "evaluate" /\ (Completed(s)' \/ HeldAt(s, EvalEnd)')  BY <2>1 DEF Closed, EvalEnd
    <3>2. Closed(s) \/ (s = t /\ label \in EvalEnd)
      <4>1. CASE HeldAt(s, EvalEnd)'
        <5>1. HeldAt(s, EvalEnd) \/ (s = t /\ label \in EvalEnd)  BY <4>1, MovedHeld
        <5> QED BY <3>1, <5>1 DEF Closed
      <4> QED BY <3>1, <4>1 DEF Closed
    <3>3. CASE s # t
      <4>1. Closed(s)  BY <3>2, <3>3
      <4>2. s \in DOMAIN tasks  BY <1>0, <4>1, TakenRow
      <4> QED BY <3>3, <4>1, <4>2
    <3>4. CASE s = t
      <4>1. ~Completed(t)  BY <1>0 DEF Completed, CareInv, LeaseInv, HeldIsLeased
      <4>2. HeldAt(t, EvalEnd)'  BY <3>1, <3>4, <4>1
      <4>3. label \in EvalEnd
        <5>1. PICK u \in Workers : Live(u)' /\ t \in DOMAIN batch'[u] /\ batch'[u][t].at \in EvalEnd
          BY <4>2 DEF HeldAt, EvalEnd
        <5>2. Live(u) /\ t \in DOMAIN batch[u]  BY <5>1 DEF Live, OneMoves
        <5>3. u = w  BY <1>0, <5>2 DEF CareInv, LeaseInv, NoDoubleRun
        <5> QED BY <5>1, <5>3 DEF OneMoves
      <4>4. batch[w][t].at \in EvalEnd => Closed(t)  BY <1>0, <3>1, <3>4 DEF Closed, HeldAt
      <4> QED BY <3>1, <3>4, <4>3, <4>4
    <3> QED BY <3>3, <3>4
  <2> QED BY <2>1, KeepEvals
<1>4. HandlersSaw'
  <2>1. ASSUME NEW u \in Workers, NEW s \in DOMAIN batch'[u], batch'[u][s].at = "verdict"
        PROVE  \/ \A p \in Pages : page[p].latest # 0
               \/ s \in DOMAIN batch[u] /\ batch'[u][s].at = batch[u][s].at
    BY <2>1 DEF OneMoves
  <2> QED BY <1>0, <2>1, KeepSaw
<1>5. SeedOK'
  BY KeepSeed DEF Seeding
<1> QED BY <1>1, <1>2, <1>3, <1>4, <1>5 DEF CareInv

\* Handler steps that leave the page and evaluation tables alone.
LEMMA CareQuietHandler ==
    ASSUME CareInv, LeaseInv', NEW w \in Workers, NEW t \in DOMAIN batch[w],
           \/ WriterPrepare(w, t) \/ WriterSeals(w, t) \/ EvaluatorReads(w, t) \/ EvaluatorCounts(w, t)
           \/ EvaluatorEnqueuesReview(w, t) \/ ReviewerReads(w, t) \/ ReviewerClean(w, t)
           \/ HandlerFails(w, t)
    PROVE  CareInv'
<1>0. /\ TypeOK /\ BatchOK /\ batch[w][t] \in Handler /\ t \in DOMAIN tasks /\ t \in Task
      /\ \A s \in DOMAIN tasks : tasks[s] \in TaskRow
  BY HeldTask DEF CareInv, LeaseInv, TypeOK, TablesOK, TableOf
<1>1. pc[w] = "run"
  BY DEF WriterPrepare, WriterSeals, EvaluatorReads, EvaluatorCounts, EvaluatorEnqueuesReview,
     EnqueueReview, ReviewerReads, ReviewerClean, HandlerFails, At
<1>2. UNCHANGED <<page, evals, pc, role, held>>
  BY DEF WriterPrepare, WriterSeals, EvaluatorReads, EvaluatorCounts, EvaluatorEnqueuesReview,
     EnqueueReview, ReviewerReads, ReviewerClean, HandlerFails, tables, control
<1>3. RowsGrow
      /\ (\A s \in DOMAIN tasks' \ DOMAIN tasks : s.kind = "cross_page_review")
      /\ (\A s \in DOMAIN tasks' : Completed(s)' => Completed(s))
  <2>1. CASE tasks' = tasks  BY <2>1 DEF RowsGrow, Completed
  <2>2. CASE tasks' # tasks
    <3>0. EvaluatorEnqueuesReview(w, t)
      BY <2>2 DEF WriterPrepare, WriterSeals, EvaluatorReads, EvaluatorCounts,
         ReviewerReads, ReviewerClean, HandlerFails, tables
    <3> DEFINE id == ReviewTask(batch[w][t].ver)
    <3> DEFINE new == NewRow({t}, 0, FALSE, 0)
    <3> DEFINE rows == [r \in {id} |-> new]
    <3>1. tasks' = Enqueue(rows)  BY <2>2, <3>0 DEF EvaluatorEnqueuesReview, EnqueueReview
    <3>2. id.kind = "cross_page_review" /\ new.status = "pending"  BY DEF ReviewTask, NewRow
    <3> HIDE DEF id, new
    <3>3. DOMAIN tasks' = DOMAIN tasks \cup {id}  BY <3>1 DEF Enqueue
    <3>4. \A s \in DOMAIN tasks : tasks'[s] = tasks[s]  BY <3>1 DEF Enqueue
    <3>5. id \notin DOMAIN tasks => tasks'[id] = new  BY <3>1 DEF Enqueue
    <3> HIDE DEF rows
    <3>6. RowsGrow  BY <3>3, <3>4 DEF RowsGrow
    <3>7. \A s \in DOMAIN tasks' : Completed(s)' => Completed(s)
      BY <3>2, <3>3, <3>4, <3>5 DEF Completed
    <3> QED BY <3>2, <3>3, <3>6, <3>7
  <2> QED BY <2>1, <2>2
<1>4. GateStays
  <2>1. CASE good' = good  BY <2>1 DEF GateStays
  <2>2. CASE WriterSeals(w, t)
    <3>1. t.kind = "write"  BY <2>2 DEF WriterSeals
    <3>2. t.page \in Pages /\ t.version \in Version /\ t = WriteTask(t.page, t.version)
      BY <1>0, <3>1, PageTaskShape
    <3>3. ~Completed(t)  BY <1>1 DEF Completed, CareInv, LeaseInv, HeldIsLeased, Live, Terminal
    <3>4. good' = good \/ \E a \in SUBSET {t.version} : good' = [good EXCEPT ![t.page] = @ \cup a]
      BY <2>2 DEF WriterSeals
    <3>5. good \in [Pages -> SUBSET Version]  BY <1>0 DEF TypeOK, TablesOK
    <3> SUFFICES ASSUME NEW p \in Pages, NEW v \in Version, Completed(WriteTask(p, v))
                 PROVE  v \in good'[p] <=> v \in good[p]
      BY DEF GateStays
    <3>6. p # t.page \/ v # t.version  BY <3>2, <3>3
    <3> QED BY <3>2, <3>4, <3>5, <3>6
  <2> QED BY <2>1, <2>2 DEF WriterPrepare, EvaluatorReads, EvaluatorCounts, EvaluatorEnqueuesReview,
          EnqueueReview, ReviewerReads, ReviewerClean, HandlerFails, tables
<1>5. NoneFalls /\ CurrentOK' /\ (\A p : Calm(p)) /\ PairsOK' /\ EvalsTrue'
  BY <1>2, <1>3, <1>4, SamePages, SamePairs, KeepEvalsTrue
<1>6. ASSUME NEW label, OneMoves(w, t, label),
             t.kind = "write" => label \notin WriteEnd,
             t.kind = "evaluate" /\ label \in EvalEnd => batch[w][t].at \in EvalEnd,
             label = "verdict" => \A p \in Pages : page[p].latest # 0
      PROVE  CareInv'
  BY <1>1, <1>2, <1>3, <1>5, <1>6, CareHandler
<1>7. CASE WriterPrepare(w, t) \/ WriterSeals(w, t)
  <2>1. \E label \in {"replay", "error", "writing", "promote"} : Advance(w, t, label)
    BY <1>7 DEF WriterPrepare, WriterSeals
  <2>2. t.kind = "write"  BY <1>7 DEF WriterPrepare, WriterSeals
  <2> QED BY <1>0, <1>6, <2>1, <2>2, AdvanceMoves DEF WriteEnd
<1>8. CASE EvaluatorReads(w, t) \/ HandlerFails(w, t)
  <2>1. \E label \in {"record", "error"} : Advance(w, t, label)
    BY <1>8 DEF EvaluatorReads, HandlerFails
  <2> QED BY <1>0, <1>6, <2>1, AdvanceMoves DEF WriteEnd, EvalEnd
<1>9. CASE EvaluatorCounts(w, t)
  <2>1. PICK h : /\ h = (IF AllPassed THEN [batch[w][t] EXCEPT !.at = "enqueue", !.ver = Latest]
                                      ELSE [batch[w][t] EXCEPT !.at = "ok"])
    OBVIOUS
  <2>2. batch' = [batch EXCEPT ![w][t] = h]  BY <1>9, <2>1 DEF EvaluatorCounts
  <2>3. h.at \in {"enqueue", "ok"}  BY <1>0, <2>1 DEF Handler
  <2>4. t.kind = "evaluate" /\ batch[w][t].at = "count"  BY <1>9 DEF EvaluatorCounts, At
  <2>5. OneMoves(w, t, h.at)  BY <1>0, <2>2, RememberMoves
  <2> QED BY <1>6, <2>3, <2>4, <2>5 DEF EvalEnd
<1>10. CASE EvaluatorEnqueuesReview(w, t)
  <2>1. \E label \in {"ok", "error"} : Advance(w, t, label)
    BY <1>10 DEF EvaluatorEnqueuesReview, EnqueueReview
  <2>2. t.kind = "evaluate" /\ batch[w][t].at = "enqueue"
    BY <1>10 DEF EvaluatorEnqueuesReview, EnqueueReview, At
  <2> QED BY <1>0, <1>6, <2>1, <2>2, AdvanceMoves DEF EvalEnd
<1>11. CASE ReviewerReads(w, t)
  <2>1. PICK h : h = (IF Reviewable(t)
                      THEN [at |-> "verdict", ver |-> Latest, att |-> [p \in Pages |-> page[p].attempt]]
                      ELSE [batch[w][t] EXCEPT !.at = "error"])
    OBVIOUS
  <2>2. batch' = [batch EXCEPT ![w][t] = h]  BY <1>11, <2>1 DEF ReviewerReads
  <2>3. h.at = "error" \/ (h.at = "verdict" /\ Reviewable(t))
    <3>1. CASE Reviewable(t)  BY <2>1, <3>1
    <3>2. CASE ~Reviewable(t)  BY <1>0, <2>1, <3>2 DEF Handler
    <3> QED BY <3>1, <3>2
  <2>4. t.kind = "cross_page_review"  BY <1>11 DEF ReviewerReads
  <2>5. OneMoves(w, t, h.at)  BY <1>0, <2>2, RememberMoves
  <2>6. Reviewable(t) => \A p \in Pages : page[p].latest # 0
    <3> SUFFICES ASSUME Reviewable(t), NEW p \in Pages PROVE page[p].latest # 0  OBVIOUS
    <3>1. page[p].latest >= 1 /\ page[p].latest \in Nat  BY <1>0, PageShape DEF Reviewable
    <3> QED BY <3>1
  <2> QED BY <1>6, <2>3, <2>4, <2>5, <2>6
<1>12. CASE ReviewerClean(w, t)
  <2>1. t.kind = "cross_page_review" /\ Advance(w, t, "ok")  BY <1>12 DEF ReviewerClean
  <2> QED BY <1>0, <1>6, <2>1, AdvanceMoves
<1> QED BY <1>7, <1>8, <1>9, <1>10, <1>11, <1>12

\* record_artifact: nobody can have evaluated what is still being written.
LEMMA CareRecordArtifact ==
    ASSUME CareInv, LeaseInv', NEW w \in Workers, NEW t \in DOMAIN batch[w], RecordArtifact(w, t)
    PROVE  CareInv'
<1>0. /\ TypeOK /\ BatchOK /\ t \in DOMAIN tasks /\ page = [p \in Pages |-> page[p]]
      /\ \A p \in Pages : page[p] \in PageRow
  BY HeldTask DEF CareInv, LeaseInv, TypeOK, TablesOK
<1>1. t.kind = "write" /\ pc[w] = "run"  BY DEF RecordArtifact, Promote, At
<1>2. /\ t.page \in Pages /\ t.version \in Version /\ t.version \in Nat
      /\ t = WriteTask(t.page, t.version)
  BY <1>0, <1>1, PageTaskShape
<1>3. UNCHANGED <<good, evals, tasks, pc, role, held>>  BY DEF RecordArtifact, Promote, control
<1>4. /\ RowsGrow /\ GateStays /\ \A s \in DOMAIN tasks' : Completed(s)' => Completed(s)
  BY <1>3 DEF RowsGrow, GateStays, Completed
<1>5. PairsOK' /\ EvalsTrue'  BY <1>3, <1>4, SamePairs, KeepEvalsTrue
<1>6. ~Completed(t)  BY <1>1 DEF Completed, CareInv, LeaseInv, HeldIsLeased, Live, Terminal
<1>7. CASE page' = page /\ Advance(w, t, "error")
  <2>1. OneMoves(w, t, "error")  BY <1>0, <1>7, AdvanceMoves
  <2>2. NoneFalls /\ CurrentOK' /\ \A p : Calm(p)  BY <1>4, <1>7, SamePages
  <2> QED BY <1>1, <1>3, <1>4, <1>5, <1>7, <2>1, <2>2, CareHandler DEF WriteEnd
<1>8. CASE /\ page' = [page EXCEPT ![t.page].latest = t.version, ![t.page].status = "evaluating"]
           /\ Advance(w, t, "ok") /\ page[t.page].latest <= t.version
  <2>1. OneMoves(w, t, "ok")  BY <1>0, <1>8, AdvanceMoves
  <2>2. page'[t.page].latest = t.version /\ page'[t.page].status = "evaluating"
    BY <1>0, <1>2, <1>8 DEF PageRow
  <2>3. \A q \in Pages \ {t.page} : page'[q] = page[q]  BY <1>0, <1>2, <1>8
  <2>4. NoneFalls
    <3> SUFFICES ASSUME NEW q \in Pages PROVE page[q].latest <= page'[q].latest  BY DEF NoneFalls
    <3>1. page[q].latest \in Nat  BY <1>0 DEF PageRow
    <3>2. CASE q = t.page  BY <1>8, <2>2, <3>2
    <3>3. CASE q # t.page
      <4>1. page'[q] = page[q]  BY <2>3, <3>3
      <4> QED BY <3>1, <4>1
    <3> QED BY <3>2, <3>3
  <2>5. EvaluateTask(t.page, t.version) \in DOMAIN tasks
        /\ tasks[EvaluateTask(t.page, t.version)].deps = {t}
    BY <1>0, <1>2 DEF CareInv, PairsOK
  <2>6. CurrentOK'
    <3> SUFFICES ASSUME NEW p \in Pages
                 PROVE  /\ page'[p].latest = 0 <=> page'[p].status \in {"absent", "pending"}
                        /\ page'[p].latest # 0 => EvaluateTask(p, page'[p].latest) \in DOMAIN tasks'
      BY DEF CurrentOK
    <3>1. CASE p = t.page
      <4>1. t.version # 0  BY <1>2 DEF Version
      <4> QED BY <1>3, <2>2, <2>5, <3>1, <4>1
    <3>2. CASE p # t.page  BY <1>4, <2>3, <3>2, KeepCurrent
    <3> QED BY <3>1, <3>2
  <2>7. ASSUME NEW s \in DOMAIN tasks, Closed(s) PROVE JudgedAt(s)' \/ Calm(s.page)
    <3>1. s.kind = "evaluate" /\ Taken(s)
      BY <2>7 DEF Closed, Taken, HeldAt, EvalEnd, HandlerAt
    <3>2. s.page \in Pages /\ s = EvaluateTask(s.page, s.version)  BY <1>0, <3>1, PageTaskShape
    <3>3. CASE s.page # t.page  BY <2>3, <3>2, <3>3 DEF Calm
    <3>4. CASE s.page = t.page /\ s.version = t.version
      <4>1. t \in tasks[s].deps  BY <2>5, <3>2, <3>4
      <4> QED BY <1>6, <3>1, <4>1 DEF CareInv, DepsDone
    <3>5. CASE s.page = t.page /\ s.version # t.version  BY <2>2, <3>5 DEF JudgedAt
    <3> QED BY <3>3, <3>4, <3>5
  <2>8. \A p \in Pages : page'[p].status = "pending" => page[p].status = "pending"
    BY <2>2, <2>3
  <2>9. t.version <= page'[t.page].latest  BY <1>2, <2>2
  <2> QED BY <1>1, <1>3, <1>4, <1>5, <2>1, <2>4, <2>6, <2>7, <2>8, <2>9, CareHandler
<1> QED BY <1>7, <1>8 DEF RecordArtifact, Promote

\* record_evaluation: a replay comes to the stored verdict, so only a handler
\* that goes on to schedule the revision leaves the page revising.
LEMMA CareRecordEvaluation ==
    ASSUME CareInv, LeaseInv', NEW w \in Workers, NEW t \in DOMAIN batch[w], RecordEvaluation(w, t)
    PROVE  CareInv'
<1>0. /\ TypeOK /\ BatchOK /\ t \in DOMAIN tasks /\ page = [p \in Pages |-> page[p]]
      /\ \A p \in Pages : page[p] \in PageRow
      /\ evals \subseteq EvalRow
  BY HeldTask DEF CareInv, LeaseInv, TypeOK, TablesOK
<1>1. t.kind = "evaluate" /\ pc[w] = "run"  BY DEF RecordEvaluation, StoreEvaluation, At
<1>2. /\ t.page \in Pages /\ t.version \in Version /\ t = EvaluateTask(t.page, t.version)
  BY <1>0, <1>1, PageTaskShape
<1>3. UNCHANGED <<good, tasks, pc, role, held>>  BY DEF RecordEvaluation, StoreEvaluation, control
<1>4. /\ RowsGrow /\ GateStays /\ \A s \in DOMAIN tasks' : Completed(s)' => Completed(s)
  BY <1>3 DEF RowsGrow, GateStays, Completed
<1>5. PairsOK'  BY <1>3, <1>4, SamePairs
<1>6. CASE UNCHANGED <<evals, page>> /\ Advance(w, t, "error")
  <2>1. OneMoves(w, t, "error")  BY <1>0, <1>6, AdvanceMoves
  <2>2. NoneFalls /\ CurrentOK' /\ \A p : Calm(p)  BY <1>4, <1>6, SamePages
  <2>3. EvalsTrue'  BY <1>4, <1>6, KeepEvalsTrue
  <2> QED BY <1>1, <1>3, <1>4, <1>5, <1>6, <2>1, <2>2, <2>3, CareHandler DEF EvalEnd
<1>7. CASE page[t.page].latest = t.version
  <2> DEFINE row == [page |-> t.page, version |-> t.version, attempt |-> tasks[t].attempt,
                     status |-> Verdict(t)]
  <2>1. PICK e \in (IF Stored(t.page, t.version) = {} THEN {row} ELSE Stored(t.page, t.version)) :
          /\ evals' = evals \cup {e}
          /\ page' = [page EXCEPT
               ![t.page].attempt = IF e.status \in EvalStatus THEN e.attempt ELSE @,
               ![t.page].status = IF e.status = "revision_required" THEN "revising" ELSE e.status]
          /\ Advance(w, t, IF row.status = "revision_required" THEN "revise"
                           ELSE IF row.status = "passed" THEN "count" ELSE "ok")
    BY <1>7 DEF RecordEvaluation, StoreEvaluation
  <2>2. e.page = t.page /\ e.version = t.version /\ e.status = Verdict(t)
    <3>1. CASE e = row  BY <3>1
    <3>2. CASE e \in Stored(t.page, t.version)
      BY <1>2, <3>2 DEF Stored, CareInv, EvalsTrue
    <3> QED BY <2>1, <3>1, <3>2
  <2>3. row.status = Verdict(t)  OBVIOUS
  <2>4. Verdict(t) \in EvalStatus  BY DEF Verdict, EvalStatus
  <2>5. PICK label : label = (IF row.status = "revision_required" THEN "revise"
                              ELSE IF row.status = "passed" THEN "count" ELSE "ok")
    OBVIOUS
  <2>6. Advance(w, t, label)  BY <2>1, <2>5
  <2>7. \/ Verdict(t) = "revision_required" /\ label = "revise"
        \/ Verdict(t) \in {"passed", "awaiting_human_review"} /\ label \in {"count", "ok"}
    BY <2>3, <2>4, <2>5 DEF EvalStatus
  <2> HIDE DEF row
  <2>8. OneMoves(w, t, label)  BY <1>0, <2>6, AdvanceMoves
  <2>9. /\ page'[t.page].latest = t.version
        /\ page'[t.page].status = (IF Verdict(t) = "revision_required" THEN "revising" ELSE Verdict(t))
    BY <1>0, <1>2, <1>7, <2>1, <2>2 DEF PageRow
  <2>10. \A q \in Pages \ {t.page} : page'[q] = page[q]  BY <1>0, <1>2, <2>1
  <2>11. page'[t.page].status \in {"revising", "passed", "awaiting_human_review"}
         /\ (label # "revise" => page'[t.page].status \in {"passed", "awaiting_human_review"})
    BY <2>7, <2>9
  <2>12. NoneFalls
    <3> SUFFICES ASSUME NEW q \in Pages PROVE page[q].latest <= page'[q].latest  BY DEF NoneFalls
    <3>1. page[q].latest \in Nat  BY <1>0 DEF PageRow
    <3>2. page'[q].latest = page[q].latest  BY <1>7, <2>9, <2>10
    <3> QED BY <3>1, <3>2
  <2>13. t.version # 0  BY <1>2 DEF Version
  <2>14. CurrentOK'
    <3> SUFFICES ASSUME NEW p \in Pages
                 PROVE  /\ page'[p].latest = 0 <=> page'[p].status \in {"absent", "pending"}
                        /\ page'[p].latest # 0 => EvaluateTask(p, page'[p].latest) \in DOMAIN tasks'
      BY DEF CurrentOK
    <3>1. CASE p = t.page  BY <1>0, <1>2, <1>3, <2>9, <2>11, <2>13, <3>1
    <3>2. CASE p # t.page  BY <1>4, <2>10, <3>2, KeepCurrent
    <3> QED BY <3>1, <3>2
  <2>15. Completed(WriteTask(t.page, t.version))
    <3>1. tasks[t].deps = {WriteTask(t.page, t.version)}  BY <1>0, <1>2 DEF CareInv, PairsOK
    <3>2. Taken(t)
      <4>1. Live(w) /\ batch[w][t] \in Handler  BY <1>0, <1>1, HeldTask DEF Live, Terminal
      <4> QED BY <4>1 DEF Taken, HeldAt, Handler
    <3> QED BY <1>0, <3>1, <3>2 DEF CareInv, DepsDone
  <2>16. EvalsTrue'
    <3>1. \A s : Verdict(s)' = Verdict(s)  BY <1>3 DEF Verdict
    <3>2. \A s : Completed(s)' <=> Completed(s)  BY <1>3 DEF Completed
    <3> SUFFICES ASSUME NEW f \in evals'
                 PROVE  /\ EvaluateTask(f.page, f.version) \in DOMAIN tasks'
                        /\ Completed(WriteTask(f.page, f.version))'
                        /\ f.status = Verdict(EvaluateTask(f.page, f.version))'
      BY DEF EvalsTrue
    <3>3. CASE f \in evals  BY <1>3, <3>1, <3>2, <3>3 DEF CareInv, EvalsTrue
    <3>4. CASE f = e  BY <1>0, <1>2, <1>3, <2>2, <2>15, <3>1, <3>2, <3>4
    <3> QED BY <2>1, <3>3, <3>4
  <2>17. ASSUME NEW s \in DOMAIN tasks, Closed(s), s # t PROVE JudgedAt(s)' \/ Calm(s.page)
    <3>1. s.kind = "evaluate"  BY <2>17 DEF Closed
    <3>2. s.page \in Pages /\ s = EvaluateTask(s.page, s.version)  BY <1>0, <3>1, PageTaskShape
    <3>3. CASE s.page # t.page  BY <2>10, <3>2, <3>3 DEF Calm
    <3>4. CASE s.page = t.page
      <4>1. s.version # t.version  BY <1>2, <2>17, <3>2, <3>4
      <4> QED BY <2>9, <3>4, <4>1 DEF JudgedAt
    <3> QED BY <3>3, <3>4
  <2>18. label \in EvalEnd => JudgedAt(t)'  BY <2>11 DEF JudgedAt, EvalEnd
  <2>19. \A p \in Pages : page'[p].status = "pending" => page[p].status = "pending"
    BY <2>10, <2>11
  <2>20. label # "verdict"  BY <2>7
  <2> QED BY <1>1, <1>3, <1>4, <1>5, <2>8, <2>12, <2>14, <2>16, <2>17, <2>18, <2>19, <2>20, CareHandler
<1> QED BY <1>6, <1>7 DEF RecordEvaluation, StoreEvaluation

\* Enqueueing pairs: nothing that is there changes, and what is new is a whole,
\* pending pair.
LEMMA PairsGrow ==
    ASSUME CareInv, NEW P \in SUBSET Pages, NEW ver \in [Pages -> Version], NEW att, NEW human,
           NEW source, tasks' = Enqueue(Pairs(P, ver, att, human, source))
    PROVE  /\ RowsGrow /\ PairsOK'
           /\ \A s \in DOMAIN tasks' : Completed(s)' => Completed(s)
           /\ \A p \in P : WriteTask(p, ver[p]) \in DOMAIN tasks'
<1> DEFINE rows == Pairs(P, ver, att, human, source)
<1>1. DOMAIN rows = {WriteTask(p, ver[p]) : p \in P} \cup {EvaluateTask(p, ver[p]) : p \in P}
  BY DEF Pairs, PairsAt
<1>2. ASSUME NEW p \in P PROVE /\ rows[WriteTask(p, ver[p])].status = "pending"
                               /\ rows[EvaluateTask(p, ver[p])].status = "pending"
                               /\ rows[EvaluateTask(p, ver[p])].deps = {WriteTask(p, ver[p])}
  <2>1. PICK t : t = WriteTask(p, ver[p])  OBVIOUS
  <2>2. PICK s : s = EvaluateTask(p, ver[p])  OBVIOUS
  <2>3. t.kind = "write" /\ s.kind = "evaluate" /\ s.page = p /\ s.version = ver[p]
    BY <2>1, <2>2 DEF WriteTask, EvaluateTask
  <2>4. t \in DOMAIN rows /\ s \in DOMAIN rows  BY <1>1, <2>1, <2>2
  <2>5. ver[p] \in Version  OBVIOUS
  <2>6. ver[p] + 0 = ver[p]  BY <2>5 DEF Version
  <2>7. rows[t] = NewRow({}, 0, human, source[t.page])  BY <1>1, <2>3, <2>4 DEF Pairs, PairsAt
  <2>8. rows[s] = NewRow({WriteTask(p, ver[p])}, att[p], human, 0)
    BY <1>1, <2>3, <2>4, <2>6 DEF Pairs, PairsAt
  <2> QED BY <2>1, <2>2, <2>7, <2>8 DEF NewRow
<1> HIDE DEF rows
<1>3. DOMAIN tasks' = DOMAIN tasks \cup DOMAIN rows  BY DEF Enqueue, rows
<1>4. \A s \in DOMAIN tasks : tasks'[s] = tasks[s]  BY DEF Enqueue
<1>5. \A s \in DOMAIN rows \ DOMAIN tasks : tasks'[s] = rows[s]  BY DEF Enqueue, rows
<1>6. RowsGrow  BY <1>3, <1>4 DEF RowsGrow
<1>7. ASSUME NEW s \in DOMAIN tasks', Completed(s)' PROVE Completed(s)
  <2>1. CASE s \in DOMAIN tasks  BY <1>4, <1>7, <2>1 DEF Completed
  <2>2. CASE s \notin DOMAIN tasks
    <3>1. s \in DOMAIN rows /\ tasks'[s] = rows[s]  BY <1>3, <1>5, <2>2
    <3>2. rows[s].status = "pending"  BY <1>1, <1>2, <3>1
    <3> QED BY <1>7, <3>1, <3>2 DEF Completed
  <2> QED BY <2>1, <2>2
<1>8. PairsOK'
  <2> SUFFICES ASSUME NEW p \in Pages, NEW v \in Version
               PROVE  /\ WriteTask(p, v) \in DOMAIN tasks' <=> EvaluateTask(p, v) \in DOMAIN tasks'
                      /\ EvaluateTask(p, v) \in DOMAIN tasks' =>
                           tasks'[EvaluateTask(p, v)].deps = {WriteTask(p, v)}
    BY DEF PairsOK
  <2>1. /\ WriteTask(p, v) \in DOMAIN tasks <=> EvaluateTask(p, v) \in DOMAIN tasks
        /\ EvaluateTask(p, v) \in DOMAIN tasks =>
              tasks[EvaluateTask(p, v)].deps = {WriteTask(p, v)}
    BY DEF CareInv, PairsOK
  <2>2. WriteTask(p, v) \in DOMAIN rows <=> p \in P /\ v = ver[p]
    BY <1>1 DEF WriteTask, EvaluateTask
  <2>3. EvaluateTask(p, v) \in DOMAIN rows <=> p \in P /\ v = ver[p]
    BY <1>1 DEF WriteTask, EvaluateTask
  <2>4. CASE EvaluateTask(p, v) \in DOMAIN tasks  BY <1>3, <1>4, <2>1, <2>4
  <2>5. CASE EvaluateTask(p, v) \notin DOMAIN tasks /\ EvaluateTask(p, v) \in DOMAIN rows
    BY <1>2, <1>3, <1>5, <2>2, <2>3, <2>5
  <2>6. CASE EvaluateTask(p, v) \notin DOMAIN tasks /\ EvaluateTask(p, v) \notin DOMAIN rows
    BY <1>3, <2>1, <2>2, <2>3, <2>6
  <2> QED BY <2>4, <2>5, <2>6
<1>9. \A p \in P : WriteTask(p, ver[p]) \in DOMAIN tasks'  BY <1>1, <1>3
<1> QED BY <1>6, <1>7, <1>8, <1>9

\* The pages of P are sent back to the writer, with a task for it.
SentBack(P) ==
    \A p \in Pages :
       \/ p \notin P /\ page'[p] = page[p]
       \/ /\ p \in P /\ page[p].latest # 0 /\ page'[p].latest = page[p].latest
          /\ page'[p].status = "revising"
          /\ WriteTask(p, page[p].latest + 1) \in DOMAIN tasks'

LEMMA SentBackKeeps ==
    ASSUME CareInv, TypeOK', RowsGrow, NEW P \in SUBSET Pages, SentBack(P)
    PROVE  /\ NoneFalls /\ CurrentOK'
           /\ \A p \in Pages : page'[p].status = "pending" => page[p].status = "pending"
           /\ \A s \in DOMAIN tasks : s.kind = "evaluate" => JudgedAt(s)' \/ Calm(s.page)
<1>0. TypeOK  BY DEF CareInv, LeaseInv
<1>1. NoneFalls
  <2> SUFFICES ASSUME NEW q \in Pages PROVE page[q].latest <= page'[q].latest  BY DEF NoneFalls
  <2>1. page[q].latest \in Nat  BY <1>0, PageShape
  <2>2. page'[q].latest = page[q].latest  BY DEF SentBack
  <2> QED BY <2>1, <2>2
<1>2. CurrentOK'
  <2> SUFFICES ASSUME NEW p \in Pages
               PROVE  /\ page'[p].latest = 0 <=> page'[p].status \in {"absent", "pending"}
                      /\ page'[p].latest # 0 => EvaluateTask(p, page'[p].latest) \in DOMAIN tasks'
    BY DEF CurrentOK
  <2>1. CASE page'[p] = page[p]  BY <2>1, KeepCurrent
  <2>2. CASE page'[p] # page[p]
    <3>1. /\ page[p].latest # 0 /\ page'[p].latest = page[p].latest
          /\ page'[p].status = "revising"
      BY <2>2 DEF SentBack
    <3>2. page[p].status \notin {"absent", "pending"}  BY <3>1 DEF CareInv, CurrentOK
    <3> QED BY <3>1, <3>2, KeepCurrent
  <2> QED BY <2>1, <2>2
<1>3. \A p \in Pages : page'[p].status = "pending" => page[p].status = "pending"
  BY DEF SentBack
<1>4. ASSUME NEW s \in DOMAIN tasks, s.kind = "evaluate" PROVE JudgedAt(s)' \/ Calm(s.page)
  <2>1. s.page \in Pages  BY <1>0, <1>4, PageTaskShape
  <2>2. CASE page'[s.page] = page[s.page]  BY <2>2 DEF Calm
  <2>3. CASE page'[s.page] # page[s.page]
    <3>1. /\ page'[s.page].latest = page[s.page].latest
          /\ page'[s.page].status = "revising"
          /\ WriteTask(s.page, page[s.page].latest + 1) \in DOMAIN tasks'
      BY <2>1, <2>3 DEF SentBack
    <3> QED BY <3>1 DEF JudgedAt
  <2> QED BY <2>2, <2>3
<1> QED BY <1>1, <1>2, <1>3, <1>4

\* What scheduling does to the pages and the task table.
RowsBack(P, next) ==
    page' = [p \in Pages |->
               IF p \in P
               THEN [page[p] EXCEPT !.status = "revising",
                       !.next = IF @ < next[p] + 1 THEN next[p] + 1 ELSE @]
               ELSE page[p]]

LEMMA SchedulesBack ==
    ASSUME CareInv, NEW P \in SUBSET Pages, NEW ver \in [Pages -> Nat], NEW att, NEW human, NEW source,
           \A p \in P : page[p].latest = ver[p] /\ ver[p] # 0,
           NEW next, next = [p \in Pages |-> ver[p] + 1],
           RowsBack(P, next),
           tasks' = Enqueue(Pairs(P, next, att, human, source))
    PROVE  /\ SentBack(P) /\ RowsGrow /\ PairsOK'
           /\ \A s \in DOMAIN tasks' : Completed(s)' => Completed(s)
<1>1. next \in [Pages -> Version]
  <2>1. ASSUME NEW p \in Pages PROVE ver[p] + 1 \in Version
    <3>1. ver[p] \in Nat  OBVIOUS
    <3> QED BY <3>1 DEF Version
  <2> QED BY <2>1
<1>2. /\ RowsGrow /\ PairsOK'
      /\ \A s \in DOMAIN tasks' : Completed(s)' => Completed(s)
      /\ \A p \in P : WriteTask(p, next[p]) \in DOMAIN tasks'
  BY <1>1, PairsGrow
<1>3. SentBack(P)
  <2> SUFFICES ASSUME NEW p \in Pages
               PROVE  \/ p \notin P /\ page'[p] = page[p]
                      \/ /\ p \in P /\ page[p].latest # 0 /\ page'[p].latest = page[p].latest
                         /\ page'[p].status = "revising"
                         /\ WriteTask(p, page[p].latest + 1) \in DOMAIN tasks'
    BY DEF SentBack
  <2>1. CASE p \notin P  BY <2>1 DEF RowsBack
  <2>2. CASE p \in P
    <3>1. page[p] \in PageRow  BY DEF CareInv, LeaseInv, TypeOK, TablesOK
    <3>2. \E n : page'[p] = [page[p] EXCEPT !.status = "revising", !.next = n]  BY <2>2 DEF RowsBack
    <3>3. page'[p].latest = page[p].latest /\ page'[p].status = "revising"  BY <3>1, <3>2 DEF PageRow
    <3>4. next[p] = page[p].latest + 1  BY <2>2
    <3> QED BY <1>2, <2>2, <3>3, <3>4
  <2> QED BY <2>1, <2>2
<1> QED BY <1>2, <1>3

\* A handler that schedules revisions has settled its own page among them.
LEMMA CareSchedule ==
    ASSUME CareInv, LeaseInv', NEW w \in Workers, NEW t \in DOMAIN batch[w], pc[w] = "run",
           NEW P \in SUBSET Pages, NEW ver \in [Pages -> Nat], NEW att, NEW source,
           Schedulable(P, ver, att), \A p \in P : ver[p] # 0,
           ScheduleRevisions(P, ver, att, source), Advance(w, t, "ok"),
           UNCHANGED <<good, evals, pc, role, held>>,
           t.kind = "cross_page_review" \/ (t.kind = "evaluate" /\ t.page \in P)
    PROVE  CareInv'
<1>0. TypeOK /\ BatchOK /\ TypeOK' /\ t \in DOMAIN tasks  BY HeldTask DEF CareInv, LeaseInv, TypeOK
<1>1. \A p \in P : page[p].latest = ver[p] /\ ver[p] # 0  BY DEF Schedulable
<1>2. /\ SentBack(P) /\ RowsGrow /\ PairsOK'
      /\ \A s \in DOMAIN tasks' : Completed(s)' => Completed(s)
  <2>1. PICK next : next = [p \in Pages |-> ver[p] + 1]  OBVIOUS
  <2>2. ScheduleAt(P, next, att, source)  BY <2>1 DEF ScheduleRevisions
  <2>3. RowsBack(P, next) /\ tasks' = Enqueue(Pairs(P, next, att, FALSE, source))
    BY <2>2 DEF ScheduleAt, RowsBack
  <2> QED BY <1>1, <2>1, <2>3, SchedulesBack
<1>3. /\ NoneFalls /\ CurrentOK'
      /\ \A p \in Pages : page'[p].status = "pending" => page[p].status = "pending"
      /\ \A s \in DOMAIN tasks : s.kind = "evaluate" => JudgedAt(s)' \/ Calm(s.page)
  BY <1>0, <1>2, SentBackKeeps
<1>4. EvalsTrue'
  <2>1. GateStays  BY DEF GateStays
  <2> QED BY <1>2, <2>1, KeepEvalsTrue
<1>5. OneMoves(w, t, "ok")  BY <1>0, AdvanceMoves
<1>6. t.kind = "evaluate" => JudgedAt(t)'
  <2> SUFFICES ASSUME t.kind = "evaluate" PROVE JudgedAt(t)'  OBVIOUS
  <2>1. /\ page'[t.page].latest = page[t.page].latest /\ page'[t.page].status = "revising"
        /\ WriteTask(t.page, page[t.page].latest + 1) \in DOMAIN tasks'
    BY <1>2 DEF SentBack
  <2> QED BY <2>1 DEF JudgedAt
<1>7. \A s \in DOMAIN tasks : Closed(s) => JudgedAt(s)' \/ Calm(s.page)  BY <1>3 DEF Closed
<1>8. t.kind # "write"  OBVIOUS
<1> QED BY <1>2, <1>3, <1>4, <1>5, <1>6, <1>7, <1>8, CareHandler

LEMMA CareHandlerSchedules ==
    ASSUME CareInv, LeaseInv', NEW w \in Workers, NEW t \in DOMAIN batch[w],
           EvaluatorRevises(w, t) \/ ReviewerCorrects(w, t)
    PROVE  CareInv'
<1>0. TypeOK /\ BatchOK /\ t \in DOMAIN tasks /\ batch[w][t] \in Handler
  BY HeldTask DEF CareInv, LeaseInv, TypeOK
<1>1. pc[w] = "run"  BY DEF EvaluatorRevises, ReviewerCorrects, At
<1>2. UNCHANGED <<good, evals, pc, role, held>>  BY DEF EvaluatorRevises, ReviewerCorrects, control
<1>3. t.kind \in {"evaluate", "cross_page_review"}  BY DEF EvaluatorRevises, ReviewerCorrects
<1>4. CASE UNCHANGED <<page, tasks>> /\ Advance(w, t, "error")
  <2>1. OneMoves(w, t, "error")  BY <1>0, <1>4, AdvanceMoves
  <2>2. /\ RowsGrow /\ GateStays /\ \A s \in DOMAIN tasks' : Completed(s)' => Completed(s)
    BY <1>2, <1>4 DEF RowsGrow, GateStays, Completed
  <2>3. NoneFalls /\ CurrentOK' /\ (\A p : Calm(p)) /\ PairsOK' /\ EvalsTrue'
    BY <1>2, <1>4, <2>2, SamePages, SamePairs, KeepEvalsTrue
  <2> QED BY <1>1, <1>2, <1>3, <1>4, <2>1, <2>2, <2>3, CareHandler DEF EvalEnd
<1>5. CASE EvaluatorRevises(w, t) /\ ~(UNCHANGED <<page, tasks>> /\ Advance(w, t, "error"))
  <2>1. t.kind = "evaluate"  BY <1>5 DEF EvaluatorRevises
  <2>2. t.page \in Pages /\ t.version \in Nat /\ t.version # 0
    BY <1>0, <2>1, PageTaskShape DEF Version
  <2>3. PICK ver : ver = [p \in Pages |-> t.version]  OBVIOUS
  <2>4. PICK att : att = [p \in Pages |-> tasks[t].attempt + 1]  OBVIOUS
  <2>5. Schedulable({t.page}, ver, att) /\ ScheduleRevisions({t.page}, ver, att, ver) /\ Advance(w, t, "ok")
    BY <1>5, <2>3, <2>4 DEF EvaluatorRevises
  <2>6. ver \in [Pages -> Nat] /\ {t.page} \in SUBSET Pages /\ \A p \in {t.page} : ver[p] # 0
    BY <2>2, <2>3
  <2> QED BY <1>1, <1>2, <2>1, <2>5, <2>6, CareSchedule
<1>6. CASE ReviewerCorrects(w, t) /\ ~(UNCHANGED <<page, tasks>> /\ Advance(w, t, "error"))
  <2>1. t.kind = "cross_page_review" /\ batch[w][t].at = "verdict"  BY <1>6 DEF ReviewerCorrects, At
  <2>2. PICK ver : ver = batch[w][t].ver  OBVIOUS
  <2>3. PICK att : att = [p \in Pages |-> batch[w][t].att[p] + 1]  OBVIOUS
  <2>4. PICK P \in SUBSET Pages :
          Schedulable(P, ver, att) /\ ScheduleRevisions(P, ver, att, NoPages) /\ Advance(w, t, "ok")
    BY <1>6, <2>2, <2>3 DEF ReviewerCorrects
  <2>5. ver \in [Pages -> Nat]  BY <1>0, <2>2 DEF Handler
  <2>6. \A p \in Pages : page[p].latest # 0  BY <2>1 DEF CareInv, HandlersSaw
  <2>7. \A p \in P : ver[p] # 0  BY <2>4, <2>6 DEF Schedulable
  <2> QED BY <1>1, <1>2, <2>1, <2>4, <2>5, <2>7, CareSchedule
<1> QED BY <1>4, <1>5, <1>6

LEMMA CareHandlers ==
    ASSUME CareInv, LeaseInv', NEW w \in Workers, NEW t \in DOMAIN batch[w], HandlerStep(w, t)
    PROVE  CareInv'
BY CareQuietHandler, CareRecordArtifact, CareRecordEvaluation, CareHandlerSchedules DEF HandlerStep

-----------------------------------------------------------------------------

\* Batches only shrink, but for tasks that were just claimed.
HoldsOn ==
    \A u \in Workers : \A s \in DOMAIN batch'[u] :
       \/ s \in DOMAIN batch[u] /\ batch'[u][s] = batch[u][s] /\ (Live(u)' => Live(u))
       \/ s \in DOMAIN tasks /\ batch'[u][s].at = "ready" /\ \A d \in tasks[s].deps : Completed(d)

LEMMA HeldOn ==
    ASSUME HoldsOn, NEW s, NEW L, HeldAt(s, L)'
    PROVE  \/ HeldAt(s, L)
           \/ "ready" \in L /\ s \in DOMAIN tasks /\ \A d \in tasks[s].deps : Completed(d)
<1>1. PICK u \in Workers : Live(u)' /\ s \in DOMAIN batch'[u] /\ batch'[u][s].at \in L
  BY DEF HeldAt
<1>2. CASE s \in DOMAIN batch[u] /\ batch'[u][s] = batch[u][s] /\ (Live(u)' => Live(u))
  BY <1>1, <1>2 DEF HeldAt
<1>3. CASE s \in DOMAIN tasks /\ batch'[u][s].at = "ready" /\ \A d \in tasks[s].deps : Completed(d)
  BY <1>1, <1>3
<1> QED BY <1>1, <1>2, <1>3 DEF HoldsOn

\* A step that moves no handler: only a handler that ended well completes.
LEMMA CareFrame ==
    ASSUME CareInv, LeaseInv', RowsGrow, PairsOK', NoneFalls, CurrentOK', SeedOK',
           evals' = evals, good' = good, HoldsOn,
           \A s \in DOMAIN tasks' : Completed(s)' => Completed(s) \/ HeldAt(s, {"ok"}),
           \A s \in DOMAIN tasks : s.kind = "evaluate" => JudgedAt(s)' \/ Calm(s.page)
    PROVE  CareInv'
<1>0. TypeOK /\ TypeOK'  BY DEF CareInv, LeaseInv
<1>1. DepsDone'
  <2>1. ASSUME NEW s \in DOMAIN tasks', Taken(s)'
        PROVE  Taken(s) \/ (s \in DOMAIN tasks /\ \A d \in tasks[s].deps : Completed(d))
    <3>1. CASE Completed(s)'
      <4>1. HeldAt(s, {"ok"}) => HeldAt(s, HandlerAt)  BY DEF HeldAt, HandlerAt
      <4> QED BY <3>1, <4>1 DEF Taken
    <3>2. CASE HeldAt(s, HandlerAt)'  BY <3>2, HeldOn DEF Taken
    <3> QED BY <2>1, <3>1, <3>2 DEF Taken, HandlerAt
  <2> QED BY <2>1, KeepDeps
<1>2. WritesDone'
  <2>1. ASSUME NEW s \in DOMAIN tasks', Written(s)' PROVE Written(s)
    <3>1. s.kind = "write" /\ (Completed(s)' \/ HeldAt(s, WriteEnd)')  BY <2>1 DEF Written, WriteEnd
    <3>2. HeldAt(s, WriteEnd)' => HeldAt(s, WriteEnd)  BY HeldOn DEF WriteEnd
    <3>3. HeldAt(s, {"ok"}) => HeldAt(s, WriteEnd)  BY DEF WriteEnd
    <3> QED BY <3>1, <3>2, <3>3 DEF Written
  <2> QED BY <1>0, <2>1, KeepWrites
<1>3. EvalsDone'
  <2>1. ASSUME NEW s \in DOMAIN tasks', Closed(s)' PROVE JudgedAt(s)' \/ (Closed(s) /\ Calm(s.page))
    <3>1. s.kind = "evaluate" /\ (Completed(s)' \/ HeldAt(s, EvalEnd)')  BY <2>1 DEF Closed, EvalEnd
    <3>2. HeldAt(s, EvalEnd)' => HeldAt(s, EvalEnd)  BY HeldOn DEF EvalEnd
    <3>3. HeldAt(s, {"ok"}) => HeldAt(s, EvalEnd)  BY DEF EvalEnd, HeldAt
    <3>4. Closed(s)  BY <3>1, <3>2, <3>3 DEF Closed
    <3>5. s \in DOMAIN tasks  BY <1>0, <3>4, TakenRow
    <3> QED BY <3>1, <3>4, <3>5
  <2> QED BY <2>1, KeepEvals
<1>4. EvalsTrue'
  <2>1. GateStays  BY DEF GateStays
  <2> QED BY <2>1, KeepEvalsTrue
<1>5. HandlersSaw'
  <2>1. ASSUME NEW u \in Workers, NEW s \in DOMAIN batch'[u], batch'[u][s].at = "verdict"
        PROVE  s \in DOMAIN batch[u] /\ batch'[u][s].at = batch[u][s].at
    BY <2>1 DEF HoldsOn
  <2> QED BY <1>0, <2>1, KeepSaw
<1> QED BY <1>1, <1>2, <1>3, <1>4, <1>5 DEF CareInv

\* A worker that neither begins nor ends seeding moves on.
LEMMA MovesOn ==
    ASSUME CareInv, RowsGrow, NEW w \in Workers, NEW label, Goto(w, label),
           label \notin {"seed", "off"},
           pc[w] \notin {"seed", "crashed"} \/ (label = "crashed" /\ role'[w] = role[w]),
           \A u \in Workers \ {w} : role'[u] = role[u] /\ held'[u] = held[u],
           \A p \in Pages : page'[p].status = "pending" => page[p].status = "pending"
    PROVE  SeedOK'
<1>1. pc'[w] = label /\ \A u \in Workers \ {w} : pc'[u] = pc[u]
  BY DEF Goto, CareInv, LeaseInv, TypeOK, ControlOK
<1>2. \A u \in Workers : pc'[u] \in {"seed", "off"} =>
          pc'[u] = pc[u] /\ role'[u] = role[u] /\ held'[u] = held[u]
  BY <1>1
<1>3. \A u \in Workers : Seeding(u) => Seeding(u)'  BY <1>1 DEF Seeding
<1> QED BY <1>2, <1>3, KeepSeed

\* The same tables but for the task rows, which keep what matters.
LEMMA CareRows ==
    ASSUME CareInv, LeaseInv', RowsGrow, DOMAIN tasks' = DOMAIN tasks, SeedOK',
           UNCHANGED <<page, good, evals>>, HoldsOn,
           \A s \in DOMAIN tasks' : Completed(s)' => Completed(s) \/ HeldAt(s, {"ok"})
    PROVE  CareInv'
<1>1. NoneFalls /\ CurrentOK' /\ (\A p : Calm(p)) /\ PairsOK'  BY SamePages, SamePairs
<1> QED BY <1>1, CareFrame

\* A worker that keeps its batch, or has none yet.
LEMMA SameHolds ==
    ASSUME CareInv, NEW w \in Workers, NEW label, Goto(w, label), UNCHANGED batch,
           Live(w) \/ pc[w] = "off"
    PROVE  HoldsOn
<1>1. \A u \in Workers \ {w} : pc'[u] = pc[u]
  BY DEF Goto, CareInv, LeaseInv, TypeOK, ControlOK
<1>2. pc[w] = "off" => DOMAIN batch[w] = {}  BY DEF CareInv, LeaseInv, HeldIsLeased
<1> QED BY <1>1, <1>2 DEF HoldsOn, Live

\* The scheduling loop, and a process that dies or whose lease runs out.
LEMMA CareExecutor ==
    ASSUME CareInv, LeaseInv', NEW w \in Workers,
           \/ ResetExpiredLeases(w) \/ TakeSnapshot(w) \/ Report(w) \/ CancelPendingTasks(w)
           \/ StartApprove(w) \/ StartRequestChanges(w) \/ StartReject(w)
    PROVE  CareInv'
<1>0. /\ TypeOK /\ \A s \in DOMAIN tasks : tasks[s] \in TaskRow
  BY DEF CareInv, LeaseInv, TypeOK, TablesOK, TableOf
<1>1. UNCHANGED <<page, good, evals, batch>>
  BY DEF ResetExpiredLeases, Recycle, TakeSnapshot, Report, CancelPendingTasks, StartApprove,
     StartRequestChanges, StartReject
<1>2. \E label : Goto(w, label) /\ label \notin {"seed", "off"}
  <2>1. CASE ResetExpiredLeases(w)
    <3>1. Goto(w, "claim")  BY <2>1 DEF ResetExpiredLeases, Recycle
    <3> QED BY <3>1
  <2>2. CASE TakeSnapshot(w)  BY <2>2 DEF TakeSnapshot
  <2>3. CASE Report(w)  BY <2>3 DEF Report
  <2>4. CASE CancelPendingTasks(w)  BY <2>4 DEF CancelPendingTasks
  <2>5. CASE StartApprove(w)  BY <2>5 DEF StartApprove, StartDecision
  <2>6. CASE StartRequestChanges(w)  BY <2>6 DEF StartRequestChanges, StartDecision
  <2>7. CASE StartReject(w)  BY <2>7 DEF StartReject, StartDecision
  <2> QED BY <2>1, <2>2, <2>3, <2>4, <2>5, <2>6, <2>7
<1>3. pc[w] \in {"off", "reset", "snapshot", "report", "cancel"}
  BY DEF ResetExpiredLeases, Recycle, TakeSnapshot, Report, CancelPendingTasks, StartApprove,
     StartRequestChanges, StartReject, StartDecision
<1>4. \A u \in Workers \ {w} : role'[u] = role[u] /\ held'[u] = held[u]
  <2>1. role \in [Workers -> {"none", "invoke", "approve", "request_changes", "reject"}]
        /\ held \in [Workers -> SUBSET Pages]
    BY <1>0 DEF TypeOK, ControlOK
  <2> QED BY <2>1 DEF ResetExpiredLeases, Recycle, TakeSnapshot, Report, CancelPendingTasks, StartApprove,
     StartRequestChanges, StartReject, StartDecision
<1>5. DOMAIN tasks' = DOMAIN tasks
      /\ \A s \in DOMAIN tasks :
            \/ tasks'[s] = tasks[s]
            \/ tasks[s].status \in {"pending", "running"} /\
                 \/ tasks'[s] = [tasks[s] EXCEPT !.status = "pending", !.owner = "none", !.lease = "none"]
                 \/ tasks'[s] = [tasks[s] EXCEPT !.status = "cancelled"]
  <2>1. CASE tasks' = tasks  BY <2>1
  <2>2. CASE ResetExpiredLeases(w)  BY <2>2 DEF ResetExpiredLeases, Recycle
  <2>3. CASE CancelPendingTasks(w)  BY <2>3 DEF CancelPendingTasks
  <2> QED BY <2>1, <2>2, <2>3 DEF TakeSnapshot, Report, StartApprove, StartRequestChanges, StartReject
<1>6. RowsGrow /\ \A s \in DOMAIN tasks' : Completed(s)' => Completed(s)
  <2>1. ASSUME NEW s \in DOMAIN tasks
        PROVE  /\ tasks'[s].deps = tasks[s].deps /\ tasks'[s].attempt = tasks[s].attempt
               /\ tasks'[s].human = tasks[s].human
               /\ tasks[s].status = "completed" <=> tasks'[s].status = "completed"
    BY <1>0, <1>5 DEF TaskRow
  <2> QED BY <1>5, <2>1 DEF RowsGrow, Completed
<1>7. HoldsOn  BY <1>1, <1>2, <1>3, SameHolds DEF Live, Terminal
<1>8. SeedOK'  BY <1>1, <1>2, <1>3, <1>4, <1>6, MovesOn
<1> QED BY <1>1, <1>5, <1>6, <1>7, <1>8, CareRows

LEMMA CareCrash ==
    ASSUME CareInv, LeaseInv', NEW w \in Workers, Crash(w)
    PROVE  CareInv'
<1>1. UNCHANGED <<page, good, evals, tasks, role>>  BY DEF Crash, tables
<1>2. RowsGrow /\ \A s \in DOMAIN tasks' : Completed(s)' => Completed(s)
  BY <1>1 DEF RowsGrow, Completed
<1>3. DOMAIN batch'[w] = {}
  BY DEF Crash, NoBatch, CareInv, LeaseInv, TypeOK, BatchOK
<1>4. \A u \in Workers \ {w} : batch'[u] = batch[u] /\ pc'[u] = pc[u] /\ held'[u] = held[u]
  BY DEF Crash, Goto, CareInv, LeaseInv, TypeOK, BatchOK, ControlOK
<1>5. HoldsOn  BY <1>3, <1>4 DEF HoldsOn, Live
<1>6. Goto(w, "crashed")  BY DEF Crash
<1>7. SeedOK'  BY <1>1, <1>2, <1>4, <1>6, MovesOn
<1> QED BY <1>1, <1>2, <1>5, <1>7, CareRows

LEMMA CareExpiry ==
    ASSUME CareInv, LeaseInv', NEW t \in DOMAIN tasks, LeaseExpires(t)
    PROVE  CareInv'
<1>0. tasks[t] \in TaskRow  BY DEF CareInv, LeaseInv, TypeOK, TablesOK, TableOf
<1>1. UNCHANGED <<page, good, evals, pc, role, batch, held>>  BY DEF LeaseExpires
<1>2. /\ DOMAIN tasks' = DOMAIN tasks /\ tasks'[t] = [tasks[t] EXCEPT !.lease = "expired"]
      /\ \A s \in DOMAIN tasks \ {t} : tasks'[s] = tasks[s]
  BY DEF LeaseExpires
<1>3. RowsGrow /\ \A s \in DOMAIN tasks' : Completed(s)' => Completed(s)
  <2>1. ASSUME NEW s \in DOMAIN tasks
        PROVE  /\ tasks'[s].deps = tasks[s].deps /\ tasks'[s].attempt = tasks[s].attempt
               /\ tasks'[s].human = tasks[s].human
               /\ tasks[s].status = tasks'[s].status
    BY <1>0, <1>2 DEF TaskRow
  <2> QED BY <1>2, <2>1 DEF RowsGrow, Completed
<1>4. HoldsOn  BY <1>1 DEF HoldsOn, Live
<1>5. SeedOK'  BY <1>1, <1>3, KeepSeed DEF Seeding
<1> QED BY <1>1, <1>2, <1>3, <1>4, <1>5, CareRows

LEMMA CareClaim ==
    ASSUME CareInv, LeaseInv', NEW w \in Workers, ClaimReadyTasks(w)
    PROVE  CareInv'
<1>0. /\ TypeOK /\ \A s \in DOMAIN tasks : tasks[s] \in TaskRow
  BY DEF CareInv, LeaseInv, TypeOK, TablesOK, TableOf
<1>1. UNCHANGED <<page, good, evals, role, held>> /\ pc[w] = "claim"  BY DEF ClaimReadyTasks
<1>2. PICK claimed \in SUBSET {t \in DOMAIN tasks : Ready(t)} :
        /\ tasks' = [t \in DOMAIN tasks |->
                       IF t \in claimed
                       THEN [tasks[t] EXCEPT !.status = "running",
                                             !.owner = LeaseOwner(w), !.lease = "live"]
                       ELSE tasks[t]]
        /\ batch' = [batch EXCEPT ![w] = [t \in claimed |-> Fresh]]
        /\ Goto(w, IF claimed = {} THEN "snapshot" ELSE "run")
  BY DEF ClaimReadyTasks
<1>3. DOMAIN tasks' = DOMAIN tasks
      /\ \A s \in DOMAIN tasks :
            \/ tasks'[s] = tasks[s]
            \/ tasks[s].status = "pending" /\ \E o, l :
                 tasks'[s] = [tasks[s] EXCEPT !.status = "running", !.owner = o, !.lease = l]
  BY <1>2 DEF Ready
<1>4. RowsGrow /\ \A s \in DOMAIN tasks' : Completed(s)' => Completed(s)
  <2>1. ASSUME NEW s \in DOMAIN tasks
        PROVE  /\ tasks'[s].deps = tasks[s].deps /\ tasks'[s].attempt = tasks[s].attempt
               /\ tasks'[s].human = tasks[s].human
               /\ tasks[s].status = "completed" <=> tasks'[s].status = "completed"
    BY <1>0, <1>3 DEF TaskRow
  <2> QED BY <1>3, <2>1 DEF RowsGrow, Completed
<1>5. HoldsOn
  <2>1. /\ batch'[w] = [t \in claimed |-> Fresh]
        /\ \A u \in Workers \ {w} : batch'[u] = batch[u] /\ pc'[u] = pc[u]
    BY <1>0, <1>2 DEF TypeOK, BatchOK, ControlOK, Goto
  <2>2. Fresh.at = "ready"  BY DEF Fresh
  <2>3. \A s \in claimed : s \in DOMAIN tasks /\ \A d \in tasks[s].deps : Completed(d)
    BY <1>2 DEF Ready, Completed
  <2>4. ASSUME NEW s \in DOMAIN batch'[w]
        PROVE s \in DOMAIN tasks /\ batch'[w][s].at = "ready" /\ \A d \in tasks[s].deps : Completed(d)
    <3>1. s \in claimed /\ batch'[w][s] = Fresh  BY <2>1
    <3> QED BY <2>2, <2>3, <3>1
  <2> QED BY <2>1, <2>4 DEF HoldsOn, Live
<1>6. SeedOK'
  <2>1. Goto(w, "snapshot") \/ Goto(w, "run")  BY <1>2
  <2> QED BY <1>1, <1>4, <2>1, MovesOn
<1> QED BY <1>1, <1>3, <1>4, <1>5, <1>6, CareRows

\* Only a handler that ended well completes its task.
LEMMA CareSettle ==
    ASSUME CareInv, LeaseInv', NEW w \in Workers, NEW t \in DOMAIN batch[w],
           CompleteTask(w, t) \/ RetryOrFailTask(w, t)
    PROVE  CareInv'
<1>0. TypeOK /\ t \in DOMAIN tasks /\ tasks[t] \in TaskRow  BY HeldTask DEF CareInv, LeaseInv
<1>1. \E failed : AfterSettling(w, t, failed)
  BY DEF CompleteTask, RetryOrFailTask, RetryOrFail
<1>2. UNCHANGED <<page, good, evals, role, held>>  BY <1>1 DEF AfterSettling
<1>3. pc[w] = "run"  BY DEF CompleteTask, RetryOrFailTask, RetryOrFail, Gathered
<1>4. Live(w)  BY <1>3 DEF Live, Terminal
<1>5. \/ tasks' = tasks
      \/ /\ tasks' = [tasks EXCEPT ![t].status = "completed"] /\ batch[w][t].at = "ok"
      \/ /\ tasks[t].status = "running"
         /\ \E s \in {"pending", "failed"} :
               tasks' = [tasks EXCEPT ![t].status = s, ![t].retries = 1,
                                      ![t].owner = "none", ![t].lease = "none"]
  BY DEF CompleteTask, RetryOrFailTask, RetryOrFail, Owned
<1>6. DOMAIN tasks' = DOMAIN tasks /\ \A s \in DOMAIN tasks \ {t} : tasks'[s] = tasks[s]
  BY <1>5
<1>7. /\ tasks'[t].deps = tasks[t].deps /\ tasks'[t].attempt = tasks[t].attempt
      /\ tasks'[t].human = tasks[t].human
      /\ tasks[t].status = "completed" => tasks'[t].status = "completed"
      /\ tasks'[t].status = "completed" => tasks[t].status = "completed" \/ batch[w][t].at = "ok"
  <2>1. CASE tasks' = tasks  BY <2>1
  <2>2. CASE tasks' = [tasks EXCEPT ![t].status = "completed"] /\ batch[w][t].at = "ok"
    <3>1. tasks'[t] = [tasks[t] EXCEPT !.status = "completed"]  BY <1>0, <2>2
    <3> QED BY <1>0, <2>2, <3>1 DEF TaskRow
  <2>3. CASE tasks[t].status = "running" /\ \E s \in {"pending", "failed"} :
               tasks' = [tasks EXCEPT ![t].status = s, ![t].retries = 1,
                                      ![t].owner = "none", ![t].lease = "none"]
    <3>1. PICK s \in {"pending", "failed"} :
               tasks' = [tasks EXCEPT ![t].status = s, ![t].retries = 1,
                                      ![t].owner = "none", ![t].lease = "none"]
      BY <2>3
    <3>2. tasks'[t] = [tasks[t] EXCEPT !.status = s, !.retries = 1, !.owner = "none", !.lease = "none"]
      BY <1>0, <3>1
    <3> QED BY <1>0, <2>3, <3>2 DEF TaskRow
  <2> QED BY <1>5, <2>1, <2>2, <2>3
<1>8. RowsGrow  BY <1>6, <1>7 DEF RowsGrow
<1>9. \A s \in DOMAIN tasks' : Completed(s)' => Completed(s) \/ HeldAt(s, {"ok"})
  BY <1>0, <1>4, <1>6, <1>7 DEF Completed, HeldAt
<1>10. HoldsOn
  <2>1. batch'[w] = Without(batch[w], t) /\ \A u \in Workers \ {w} : batch'[u] = batch[u] /\ pc'[u] = pc[u]
    BY <1>0, <1>1 DEF AfterSettling, Goto, TypeOK, BatchOK, ControlOK
  <2>2. \A s \in DOMAIN batch'[w] : s \in DOMAIN batch[w] /\ batch'[w][s] = batch[w][s]
    BY <2>1 DEF Without
  <2> QED BY <1>4, <2>1, <2>2 DEF HoldsOn, Live
<1>11. SeedOK'
  <2>1. \E label : Goto(w, label) /\ label \notin {"seed", "off"}  BY <1>1 DEF AfterSettling
  <2> QED BY <1>2, <1>3, <1>8, <2>1, MovesOn
<1> QED BY <1>2, <1>6, <1>8, <1>9, <1>10, <1>11, CareRows

\* approve and reject decisions move escalated pages only.
LEMMA CareDecision ==
    ASSUME CareInv, LeaseInv', NEW w \in Workers,
           (\E p \in Pages : ApprovePage(w, p)) \/ MarkEscalatedFailed(w)
    PROVE  CareInv'
<1>0. TypeOK /\ \A p \in Pages : page[p] \in PageRow  BY DEF CareInv, LeaseInv, TypeOK, TablesOK
<1>1. UNCHANGED <<good, evals, tasks, role, batch>> /\ pc[w] \in {"approve", "reject"}
  BY DEF ApprovePage, Approve, MarkEscalatedFailed
<1>2. RowsGrow /\ \A s \in DOMAIN tasks' : Completed(s)' => Completed(s)
  BY <1>1 DEF RowsGrow, Completed
<1>3. ASSUME NEW q \in Pages
      PROVE  \/ page'[q] = page[q]
             \/ /\ page[q].status = "awaiting_human_review" /\ page'[q].latest = page[q].latest
                /\ page'[q].status \in {"passed", "failed"}
  <2>1. CASE \E p \in Pages : ApprovePage(w, p)
    <3>1. PICK p \in Pages : ApprovePage(w, p)  BY <2>1
    <3>2. page' = page \/ (page[p].status = "awaiting_human_review"
                           /\ page' = [page EXCEPT ![p].status = "passed"])
      BY <3>1 DEF ApprovePage, Approve
    <3>3. page = [r \in Pages |-> page[r]]  BY <1>0 DEF TypeOK, TablesOK
    <3> QED BY <1>0, <3>2, <3>3 DEF PageRow
  <2>2. CASE MarkEscalatedFailed(w)
    <3>1. page'[q] = page[q] \/ (page[q].status = "awaiting_human_review"
                                 /\ page'[q] = [page[q] EXCEPT !.status = "failed"])
      BY <2>2 DEF MarkEscalatedFailed, Escalated
    <3> QED BY <1>0, <3>1 DEF PageRow
  <2> QED BY <2>1, <2>2
<1>4. \A q \in Pages : Calm(q) /\ (page'[q].status = "pending" => page[q].status = "pending")
  BY <1>3 DEF Calm
<1>5. NoneFalls
  <2> SUFFICES ASSUME NEW q \in Pages PROVE page[q].latest <= page'[q].latest  BY DEF NoneFalls
  <2>1. page[q].latest \in Nat /\ page'[q].latest = page[q].latest  BY <1>0, <1>3 DEF PageRow
  <2> QED BY <2>1
<1>6. CurrentOK'
  <2> SUFFICES ASSUME NEW q \in Pages
               PROVE  /\ page'[q].latest = 0 <=> page'[q].status \in {"absent", "pending"}
                      /\ page'[q].latest # 0 => EvaluateTask(q, page'[q].latest) \in DOMAIN tasks'
    BY DEF CurrentOK
  <2>1. page'[q] = page[q] \/ (/\ page'[q].latest = page[q].latest
                               /\ page'[q].status \in {"absent", "pending"}
                                    <=> page[q].status \in {"absent", "pending"})
    BY <1>3
  <2> QED BY <1>2, <2>1, KeepCurrent
<1>7. PairsOK'  BY <1>1, <1>2, SamePairs
<1>8. \E label : Goto(w, label) /\ label \notin {"seed", "off"}
  <2>1. CASE \E p \in Pages : ApprovePage(w, p)  BY <2>1 DEF ApprovePage, Approve
  <2>2. CASE MarkEscalatedFailed(w)  BY <2>2 DEF MarkEscalatedFailed
  <2> QED BY <2>1, <2>2
<1>9. \A u \in Workers \ {w} : role'[u] = role[u] /\ held'[u] = held[u]
  <2>1. held \in [Workers -> SUBSET Pages]  BY <1>0 DEF TypeOK, ControlOK
  <2> QED BY <1>1, <2>1 DEF ApprovePage, Approve, MarkEscalatedFailed
<1>10. HoldsOn  BY <1>1, <1>8, SameHolds DEF Live, Terminal
<1>11. SeedOK'  BY <1>1, <1>2, <1>4, <1>8, <1>9, MovesOn
<1>12. ASSUME NEW s \in DOMAIN tasks, s.kind = "evaluate" PROVE Calm(s.page)
  <2>1. s.page \in Pages  BY <1>0, <1>12, PageTaskShape
  <2> QED BY <1>4, <2>1
<1> QED BY <1>1, <1>2, <1>5, <1>6, <1>7, <1>10, <1>11, <1>12, CareFrame

\* request_changes sends the escalated pages back, each with its pair.
LEMMA CareHumanRevisions ==
    ASSUME CareInv, LeaseInv', NEW w \in Workers, ScheduleHumanRevisions(w)
    PROVE  CareInv'
<1>0. TypeOK /\ TypeOK' /\ TablesOK  BY DEF CareInv, LeaseInv, TypeOK
<1>1. UNCHANGED <<good, evals, role, batch>> /\ pc[w] = "changes" /\ Goto(w, "reset")
  BY DEF ScheduleHumanRevisions
<1>2. PICK P \in SUBSET Pages : P = Escalated  BY DEF Escalated
<1>3. PICK ver : ver = Latest  OBVIOUS
<1>4. PICK next : next = [p \in Pages |-> ver[p] + 1]  OBVIOUS
<1>5. PICK att : att = [p \in Pages |-> page[p].attempt]  OBVIOUS
<1>6. next = [p \in Pages |-> page[p].latest + 1]  BY <1>3, <1>4 DEF Latest
<1>7. RowsBack(P, next) /\ tasks' = Enqueue(Pairs(P, next, att, TRUE, NoPages))
  BY <1>2, <1>5, <1>6 DEF ScheduleHumanRevisions, RowsBack
<1>8. ver \in [Pages -> Nat]  BY <1>0, <1>3, LatestType
<1>9. \A p \in P : page[p].latest = ver[p] /\ ver[p] # 0
  <2> SUFFICES ASSUME NEW p \in P PROVE page[p].latest = ver[p] /\ ver[p] # 0  OBVIOUS
  <2>1. p \in Pages /\ page[p].status = "awaiting_human_review"  BY <1>2 DEF Escalated
  <2>2. page[p].latest # 0  BY <2>1 DEF CareInv, CurrentOK
  <2> QED BY <1>3, <2>1, <2>2 DEF Latest
<1>10. /\ SentBack(P) /\ RowsGrow /\ PairsOK'
       /\ \A s \in DOMAIN tasks' : Completed(s)' => Completed(s)
  BY <1>4, <1>7, <1>8, <1>9, SchedulesBack
<1>11. /\ NoneFalls /\ CurrentOK'
       /\ \A p \in Pages : page'[p].status = "pending" => page[p].status = "pending"
       /\ \A s \in DOMAIN tasks : s.kind = "evaluate" => JudgedAt(s)' \/ Calm(s.page)
  BY <1>0, <1>10, SentBackKeeps
<1>12. \A u \in Workers \ {w} : role'[u] = role[u] /\ held'[u] = held[u]
  <2>1. held \in [Workers -> SUBSET Pages]  BY <1>0 DEF TypeOK, ControlOK
  <2> QED BY <1>1, <2>1 DEF ScheduleHumanRevisions
<1>13. HoldsOn  BY <1>1, SameHolds DEF Live, Terminal
<1>14. SeedOK'  BY <1>1, <1>10, <1>11, <1>12, MovesOn
<1> QED BY <1>1, <1>10, <1>11, <1>13, <1>14, CareFrame

\* The node inserts the pending pages, then their pairs one page at a time.
LEMMA CareStart ==
    ASSUME CareInv, LeaseInv', NEW w \in Workers, StartInvoke(w)
    PROVE  CareInv'
<1>0. TypeOK /\ \A p \in Pages : page[p] \in PageRow  BY DEF CareInv, LeaseInv, TypeOK, TablesOK
<1>1. UNCHANGED <<good, evals, tasks, batch, held>> /\ pc[w] = "off" /\ Goto(w, "seed")
  BY DEF StartInvoke
<1>2. RowsGrow /\ \A s \in DOMAIN tasks' : Completed(s)' => Completed(s)
  BY <1>1 DEF RowsGrow, Completed
<1>3. ASSUME NEW q \in Pages
      PROVE  \/ page'[q] = page[q]
             \/ /\ page[q].status = "absent" /\ page'[q].latest = page[q].latest
                /\ page'[q].status = "pending"
  <2>1. page'[q] = page[q] \/ (page[q].status = "absent" /\ page'[q] = [page[q] EXCEPT !.status = "pending"])
    BY DEF StartInvoke
  <2> QED BY <1>0, <2>1 DEF PageRow
<1>4. \A q \in Pages : Calm(q)  BY <1>3 DEF Calm
<1>5. NoneFalls
  <2> SUFFICES ASSUME NEW q \in Pages PROVE page[q].latest <= page'[q].latest  BY DEF NoneFalls
  <2>1. page[q].latest \in Nat /\ page'[q].latest = page[q].latest  BY <1>0, <1>3 DEF PageRow
  <2> QED BY <2>1
<1>6. CurrentOK'
  <2> SUFFICES ASSUME NEW q \in Pages
               PROVE  /\ page'[q].latest = 0 <=> page'[q].status \in {"absent", "pending"}
                      /\ page'[q].latest # 0 => EvaluateTask(q, page'[q].latest) \in DOMAIN tasks'
    BY DEF CurrentOK
  <2>1. page'[q] = page[q] \/ (/\ page'[q].latest = page[q].latest
                               /\ page'[q].status \in {"absent", "pending"}
                                    <=> page[q].status \in {"absent", "pending"})
    BY <1>3
  <2> QED BY <1>2, <2>1, KeepCurrent
<1>7. PairsOK'  BY <1>1, <1>2, SamePairs
<1>8. HoldsOn  BY <1>1, SameHolds
<1>9. SeedOK'
  <2>1. /\ pc'[w] = "seed" /\ role'[w] = "invoke"
        /\ \A u \in Workers \ {w} : pc'[u] = pc[u] /\ role'[u] = role[u]
    BY <1>0, <1>1 DEF StartInvoke, Goto, TypeOK, ControlOK
  <2>2. held[w] = {}  BY <1>1 DEF CareInv, SeedOK
  <2>3. Seeding(w)'  BY <2>1 DEF Seeding
  <2>4. \A u \in Workers : pc'[u] = "off" => held'[u] = {}
    BY <1>1, <2>1 DEF CareInv, SeedOK
  <2>5. \A u \in Workers : pc'[u] = "seed" =>
           role'[u] = "invoke" /\ \A p \in held'[u] : WriteTask(p, 1) \in DOMAIN tasks'
    BY <1>1, <2>1, <2>2 DEF CareInv, SeedOK
  <2> QED BY <2>3, <2>4, <2>5 DEF SeedOK
<1>10. ASSUME NEW s \in DOMAIN tasks, s.kind = "evaluate" PROVE Calm(s.page)
  <2>1. s.page \in Pages  BY <1>0, <1>10, PageTaskShape
  <2> QED BY <1>4, <2>1
<1> QED BY <1>1, <1>2, <1>5, <1>6, <1>7, <1>8, <1>9, <1>10, CareFrame

LEMMA CareSeed ==
    ASSUME CareInv, LeaseInv', NEW w \in Workers, NEW p \in Pages, SeedPage(w, p)
    PROVE  CareInv'
<1>0. TypeOK  BY DEF CareInv, LeaseInv
<1>1. UNCHANGED <<page, good, evals, role, batch>> /\ pc[w] = "seed"  BY DEF SeedPage
<1>2. PICK one : one = [q \in Pages |-> 1]  OBVIOUS
<1>3. one \in [Pages -> Version] /\ {p} \in SUBSET Pages  BY <1>2 DEF Version
<1>4. tasks' = Enqueue(Pairs({p}, one, one, FALSE, NoPages))  BY <1>2 DEF SeedPage
<1>5. /\ RowsGrow /\ PairsOK'
      /\ \A s \in DOMAIN tasks' : Completed(s)' => Completed(s)
      /\ \A q \in {p} : WriteTask(q, one[q]) \in DOMAIN tasks'
  BY <1>3, <1>4, PairsGrow
<1>6. WriteTask(p, 1) \in DOMAIN tasks'  BY <1>2, <1>5
<1>7. NoneFalls /\ CurrentOK' /\ \A q : Calm(q)  BY <1>1, <1>5, SamePages
<1>8. PICK label \in {"seed", "reset"} :
        /\ Goto(w, label)
        /\ label = "reset" => held[w] \cup {p} = Pages /\ held' = [held EXCEPT ![w] = {}]
        /\ label = "seed" => held' = [held EXCEPT ![w] = held[w] \cup {p}]
  <2>1. CASE held[w] \cup {p} = Pages  BY <2>1 DEF SeedPage
  <2>2. CASE held[w] \cup {p} # Pages  BY <2>2 DEF SeedPage
  <2> QED BY <2>1, <2>2
<1>9. HoldsOn  BY <1>1, <1>8, SameHolds DEF Live, Terminal
<1>10. SeedOK'
  <2>1. pc'[w] = label /\ \A u \in Workers \ {w} : pc'[u] = pc[u] /\ held'[u] = held[u]
    BY <1>0, <1>8 DEF Goto, TypeOK, ControlOK
  <2>2. \A q \in held[w] \cup {p} : WriteTask(q, 1) \in DOMAIN tasks'
    BY <1>1, <1>5, <1>6 DEF CareInv, SeedOK, RowsGrow
  <2>3. label = "seed" => held'[w] = held[w] \cup {p}  BY <1>0, <1>8 DEF TypeOK, ControlOK
  <2>4. role[w] = "invoke"  BY <1>1 DEF CareInv, SeedOK
  <2>5. \A u \in Workers : pc'[u] = "off" => held'[u] = {}
    BY <1>8, <2>1 DEF CareInv, SeedOK
  <2>6. ASSUME NEW u \in Workers, pc'[u] = "seed"
        PROVE  role'[u] = "invoke" /\ \A q \in held'[u] : WriteTask(q, 1) \in DOMAIN tasks'
    <3>1. CASE u = w  BY <1>1, <2>1, <2>2, <2>3, <2>4, <2>6, <3>1
    <3>2. CASE u # w  BY <1>1, <1>5, <2>1, <2>6, <3>2 DEF CareInv, SeedOK, RowsGrow
    <3> QED BY <3>1, <3>2
  <2>7. ASSUME NEW q \in Pages, page'[q].status = "pending"
        PROVE  WriteTask(q, 1) \in DOMAIN tasks' \/ \E u \in Workers : Seeding(u)'
    <3>1. CASE label = "reset"  BY <1>8, <2>2, <3>1
    <3>2. CASE label = "seed"
      <4>1. Seeding(w)'  BY <1>1, <2>1, <2>4, <3>2 DEF Seeding
      <4> QED BY <4>1
    <3> QED BY <1>8, <3>1, <3>2
  <2> QED BY <2>5, <2>6, <2>7 DEF SeedOK
<1> QED BY <1>1, <1>5, <1>7, <1>9, <1>10, CareFrame

-----------------------------------------------------------------------------

LEMMA CareNext == ASSUME MaxOverruns = 0 PROVE CareInv /\ [Next]_vars => CareInv'
<1> SUFFICES ASSUME CareInv, [Next]_vars PROVE CareInv'  OBVIOUS
<1>1. LeaseInv'  BY LeaseNext DEF CareInv
<1>2. CASE UNCHANGED vars
  <2>1. UNCHANGED <<page, good, evals, tasks, pc, role, batch, held>>  BY <1>2 DEF vars
  <2>2. RowsGrow /\ \A s \in DOMAIN tasks' : Completed(s)' => Completed(s)
    BY <2>1 DEF RowsGrow, Completed
  <2>3. HoldsOn  BY <2>1 DEF HoldsOn, Live
  <2>4. SeedOK'  BY <2>1, <2>2, KeepSeed DEF Seeding
  <2> QED BY <1>1, <2>1, <2>2, <2>3, <2>4, CareRows
<1>3. ASSUME NEW w \in Workers, Start(w) PROVE CareInv'
  BY <1>1, <1>3, CareStart, CareExecutor DEF Start
<1>4. ASSUME NEW w \in Workers, Step(w) PROVE CareInv'
  <2>1. CASE \E p \in Pages : SeedPage(w, p)  BY <1>1, <2>1, CareSeed
  <2>2. CASE ResetExpiredLeases(w) \/ TakeSnapshot(w) \/ Report(w) \/ CancelPendingTasks(w)
    BY <1>1, <2>2, CareExecutor
  <2>3. CASE ClaimReadyTasks(w)  BY <1>1, <2>3, CareClaim
  <2>4. CASE \E t \in DOMAIN batch[w] : CompleteTask(w, t) \/ RetryOrFailTask(w, t) \/ HandlerStep(w, t)
    BY <1>1, <2>4, CareSettle, CareHandlers
  <2>5. CASE (\E p \in Pages : ApprovePage(w, p)) \/ MarkEscalatedFailed(w)
    BY <1>1, <2>5, CareDecision
  <2>6. CASE ScheduleHumanRevisions(w)  BY <1>1, <2>6, CareHumanRevisions
  <2> QED BY <1>4, <2>1, <2>2, <2>3, <2>4, <2>5, <2>6 DEF Step, ExecutorStep, DecisionStep
<1>5. ASSUME NEW w \in Workers, Crash(w) PROVE CareInv'  BY <1>1, <1>5, CareCrash
<1>6. ASSUME NEW t \in DOMAIN tasks, LeaseExpires(t) PROVE CareInv'  BY <1>1, <1>6, CareExpiry
<1> QED BY <1>2, <1>3, <1>4, <1>5, <1>6 DEF Next, Quiet

LEMMA CareInit == Init => CareInv
<1> SUFFICES ASSUME Init PROVE CareInv  OBVIOUS
<1>1. TypeOK  BY TypeInit
<1>2. DOMAIN tasks = {} /\ evals = {}  BY DEF Init, NoBatch
<1>3. \A w \in Workers : DOMAIN batch[w] = {} /\ pc[w] = "off" /\ held[w] = {}  BY DEF Init, NoBatch
<1>4. \A p \in Pages : page[p].latest = 0 /\ page[p].status = "absent"  BY DEF Init
<1>5. LeaseInv  BY <1>1, <1>3 DEF LeaseInv, HeldIsLeased, NoDoubleRun
<1>6. PairsOK /\ DepsDone /\ WritesDone /\ EvalsDone /\ EvalsTrue /\ HandlersSaw
  BY <1>2, <1>3 DEF PairsOK, DepsDone, WritesDone, EvalsDone, EvalsTrue, HandlersSaw
<1>7. CurrentOK /\ SeedOK  BY <1>3, <1>4 DEF CurrentOK, SeedOK
<1> QED BY <1>5, <1>6, <1>7 DEF CareInv

LEMMA CareImplies == CareInv => NoAbandonedPage
<1> SUFFICES ASSUME CareInv, NEW p \in Pages
             PROVE  /\ page[p].status = "pending" =>
                         \/ Unfinished(WriteTask(p, 1))
                         \/ \E w \in Workers : role[w] = "invoke" /\ pc[w] \in {"seed", "crashed"}
                    /\ page[p].status = "evaluating" => Unfinished(EvaluateTask(p, page[p].latest))
                    /\ page[p].status = "revising" =>
                         \/ Unfinished(EvaluateTask(p, page[p].latest))
                         \/ Unfinished(WriteTask(p, page[p].latest + 1))
  BY DEF NoAbandonedPage
<1>0. TypeOK /\ page[p].latest \in Nat  BY PageShape DEF CareInv, LeaseInv
<1>1. ASSUME NEW v \in Version, page[p].latest < v, WriteTask(p, v) \in DOMAIN tasks
      PROVE  Unfinished(WriteTask(p, v))
  <2>1. PICK t : t = WriteTask(p, v)  OBVIOUS
  <2>2. t.kind = "write" /\ t.page = p /\ t.version = v  BY <2>1 DEF WriteTask
  <2>3. ~(v <= page[p].latest)  BY <1>0, <1>1 DEF Version
  <2>4. ~Completed(t)  BY <1>1, <2>1, <2>2, <2>3 DEF CareInv, WritesDone, Written
  <2> QED BY <1>1, <2>1, <2>4 DEF Unfinished, Completed
<1>2. CASE page[p].status = "pending"
  <2>1. page[p].latest = 0  BY <1>2 DEF CareInv, CurrentOK
  <2>2. WriteTask(p, 1) \in DOMAIN tasks \/ \E w \in Workers : Seeding(w)
    BY <1>2 DEF CareInv, SeedOK
  <2>3. 1 \in Version /\ page[p].latest < 1  BY <2>1 DEF Version
  <2>4. WriteTask(p, 1) \in DOMAIN tasks => Unfinished(WriteTask(p, 1))  BY <1>1, <2>3
  <2> QED BY <1>2, <2>2, <2>4 DEF Seeding
<1>3. CASE page[p].status \in {"evaluating", "revising"}
  <2>1. PICK t : t = EvaluateTask(p, page[p].latest)  OBVIOUS
  <2>2. t.kind = "evaluate" /\ t.page = p /\ t.version = page[p].latest  BY <2>1 DEF EvaluateTask
  <2>3. t \in DOMAIN tasks  BY <1>3, <2>1 DEF CareInv, CurrentOK
  <2>4. CASE ~Completed(t)  BY <1>3, <2>1, <2>3, <2>4 DEF Unfinished, Completed
  <2>5. CASE Completed(t)
    <3>1. JudgedAt(t)  BY <2>2, <2>3, <2>5 DEF CareInv, EvalsDone, Closed
    <3>2. page[p].status = "revising" /\ WriteTask(p, page[p].latest + 1) \in DOMAIN tasks
      BY <1>3, <2>2, <3>1 DEF JudgedAt
    <3>3. page[p].latest + 1 \in Version /\ page[p].latest < page[p].latest + 1
      BY <1>0 DEF Version
    <3> QED BY <1>1, <3>2, <3>3
  <2> QED BY <2>4, <2>5
<1> QED BY <1>2, <1>3

\* As long as no batch outlasts its lease, no page is ever left behind: whatever
\* a page waits for, the task that brings it is in the table and not completed,
\* through crashes, retries, replays, reviewer corrections and human decisions.
THEOREM NoPageLeftBehind ==
    ASSUME MaxOverruns = 0 PROVE Spec => []NoAbandonedPage
<1>1. CareInv /\ [Next]_vars => CareInv'  BY CareNext
<1> QED BY <1>1, CareInit, CareImplies, PTL DEF Spec
-----------------------------------------------------------------------------
(* What the executor tells the node, while one call at a time drives the   *)
(* run.                                                                    *)

Deciders == {"approve", "request_changes", "reject"}

\* The node's call is under way.
Drives(w) == role[w] = "invoke" /\ Live(w)

\* Where only the calls that execute tasks come.
Executing == {"seed", "reset", "claim", "snapshot", "run"}

\* The node is entered again only after a crash, decisions come after its report,
\* and nobody reports twice.
CallsOK ==
    /\ \A w \in Workers : role[w] = "none" => pc[w] = "off"
    /\ \A w \in Workers : result[w] # "none" => pc[w] = "reported"
    /\ \A w \in Workers : role[w] \in Deciders => role[w] \in Decisions /\ GateOpen
    /\ \A w \in Workers : pc[w] \in Executing => role[w] \in {"invoke", "request_changes"}
    /\ \A w \in Workers : pc[w] = "changes" => role[w] = "request_changes"
    /\ \A w \in Workers : pc[w] \in {"approve", "cancel", "reject"} => role[w] \in Deciders
    /\ \A w, u \in Workers :
          role[w] = "invoke" /\ role[u] = "invoke" /\ pc[w] # "crashed" /\ pc[u] # "crashed" => w = u

\* A write waits for nothing, a review for evaluations.
WaitsOK ==
    \A t \in DOMAIN tasks :
        /\ t.kind = "write" => tasks[t].deps = {}
        /\ t.kind = "cross_page_review" =>
             \A d \in tasks[t].deps : d \in DOMAIN tasks /\ d.kind = "evaluate"

\* What the claim found is still so when the node's executor looks again.
NothingReady ==
    \A w \in Workers : Drives(w) /\ pc[w] = "snapshot" => ~\E t \in DOMAIN tasks : Ready(t)

DeadlockIsTrue ==
    \A w \in Workers : outcome[w] = "deadlocked" =>
        \E t \in DOMAIN tasks : tasks[t].status \in {"failed", "cancelled"}

CallInv == CareInv /\ RolesOK /\ CallsOK /\ WaitsOK /\ NothingReady

\* Of all calls that execute tasks only the node's can come about.
OneExecutor == "request_changes" \notin Decisions \/ \A u, w \in Workers : u = w

\* Without a crash the node's call is the first to touch the tables.
FirstCall ==
    /\ \A w \in Workers : pc[w] # "crashed" /\ (pc[w] = "off" => outcome[w] = "none")
    /\ (\A w \in Workers : role[w] # "invoke") =>
          DOMAIN tasks = {} /\ \A p \in Pages : page[p].status = "absent"

\* While the node drives, nothing is cancelled and no page is given up, and a task
\* that failed ends the round it failed in.
UnharmedBy(w) ==
    /\ \A t \in DOMAIN tasks : tasks[t].status # "cancelled"
    /\ \A p \in Pages : page[p].status \notin {"absent", "failed"}
    /\ outcome[w] \in {"none", "failed"}
    /\ outcome[w] = "none" => \A t \in DOMAIN tasks : tasks[t].status # "failed"
    /\ pc[w] # "run" => outcome[w] = "none"
    /\ pc[w] = "report" => \A t \in DOMAIN tasks : tasks[t].status = "completed"

Unharmed == \A w \in Workers : Drives(w) => UnharmedBy(w)

\* The evaluation of p's artifact will still see to the review.
Owes(w, p) ==
    LET t == EvaluateTask(p, page[p].latest)
    IN /\ t \in DOMAIN tasks /\ tasks[t].status # "completed"
       /\ t \in DOMAIN batch[w] => /\ batch[w][t].at # "ok"
                                   /\ batch[w][t].at = "enqueue" => batch[w][t].ver = Latest

\* Once all pages passed, their review is there, or an evaluation owes it.
OwedBy(w) == AllPassed => ReviewTask(Latest) \in DOMAIN tasks \/ \E p \in Pages : Owes(w, p)

ReviewOwed == \A w \in Workers : Drives(w) => OwedBy(w)

SoundInv == CallInv /\ FirstCall /\ Unharmed /\ ReviewOwed

\* A live worker that moves on keeps the order of the calls.
LEMMA CallsKept ==
    ASSUME TypeOK, CallsOK, NEW w \in Workers, NEW label, Live(w), Goto(w, label), label # "off",
           label \in Executing => role[w] \in {"invoke", "request_changes"},
           label = "changes" => role[w] = "request_changes",
           label \in {"approve", "cancel", "reject"} => role[w] \in Deciders,
           UNCHANGED role,
           \A u \in Workers \ {w} : result'[u] = result[u],
           result'[w] = result[w] \/ label = "reported"
    PROVE  CallsOK'
<1>1. pc'[w] = label /\ \A u \in Workers \ {w} : pc'[u] = pc[u]
  BY DEF Goto, TypeOK, ControlOK
<1>2. pc[w] \notin {"off", "reported", "crashed"}
  BY DEF Live, Terminal
<1>3. result[w] = "none"
  BY <1>2 DEF CallsOK
<1>4. GateOpen => GateOpen'
  <2> SUFFICES ASSUME GateOpen PROVE GateOpen'
    OBVIOUS
  <2>1. PICK x \in Workers : role[x] = "invoke" /\ result[x] \in {"passed", "ready_for_review"}
    BY DEF GateOpen
  <2>2. x # w
    BY <1>3, <2>1
  <2> QED BY <2>1, <2>2 DEF GateOpen
<1>5. \A u \in Workers : role'[u] = "none" => pc'[u] = "off"
  BY <1>1, <1>2 DEF CallsOK
<1>6. \A u \in Workers : result'[u] # "none" => pc'[u] = "reported"
  BY <1>1, <1>3 DEF CallsOK
<1>7. \A u \in Workers : role'[u] \in Deciders => role'[u] \in Decisions /\ GateOpen'
  BY <1>4 DEF CallsOK
<1>8. \A u \in Workers : /\ pc'[u] \in Executing => role'[u] \in {"invoke", "request_changes"}
                         /\ pc'[u] = "changes" => role'[u] = "request_changes"
                         /\ pc'[u] \in {"approve", "cancel", "reject"} => role'[u] \in Deciders
  BY <1>1 DEF CallsOK
<1>9. \A x, u \in Workers :
         role'[x] = "invoke" /\ role'[u] = "invoke" /\ pc'[x] # "crashed" /\ pc'[u] # "crashed" => x = u
  BY <1>1, <1>2 DEF CallsOK
<1> QED BY <1>5, <1>6, <1>7, <1>8, <1>9 DEF CallsOK

LEMMA CallsStart ==
    ASSUME TypeOK, RolesOK, CallsOK, NEW w \in Workers, Start(w)
    PROVE  CallsOK'
<1>1. pc[w] = "off" /\ role[w] = "none" /\ UNCHANGED result
  BY DEF Start, StartInvoke, StartApprove, StartRequestChanges, StartReject, StartDecision, RolesOK
<1>2. result[w] = "none"
  BY <1>1 DEF CallsOK
<1>3. ASSUME NEW r \in Deciders \cup {"invoke"}, role' = [role EXCEPT ![w] = r],
             NEW label \in {"seed", "report", "approve", "changes", "cancel"}, Goto(w, label),
             r = "invoke" => label = "seed" /\ \A u \in Workers : role[u] = "invoke" => pc[u] = "crashed",
             r \in Deciders => r \in Decisions /\ GateOpen /\ label # "seed",
             label = "changes" => r = "request_changes"
      PROVE  CallsOK'
  <2>1. pc'[w] = label /\ \A u \in Workers \ {w} : pc'[u] = pc[u]
    BY <1>3 DEF Goto, TypeOK, ControlOK
  <2>2. role'[w] = r /\ \A u \in Workers \ {w} : role'[u] = role[u]
    BY <1>3 DEF TypeOK, ControlOK
  <2>3. r # "none"
    BY <1>3 DEF Deciders
  <2>4. GateOpen => GateOpen'
    <3> SUFFICES ASSUME GateOpen PROVE GateOpen'
      OBVIOUS
    <3>1. PICK x \in Workers : role[x] = "invoke" /\ result[x] \in {"passed", "ready_for_review"}
      BY DEF GateOpen
    <3>2. x # w
      BY <1>1, <3>1
    <3> QED BY <1>1, <2>2, <3>1, <3>2 DEF GateOpen
  <2>5. \A u \in Workers : role'[u] = "none" => pc'[u] = "off"
    BY <2>1, <2>2, <2>3 DEF CallsOK
  <2>6. \A u \in Workers : result'[u] # "none" => pc'[u] = "reported"
    BY <1>1, <1>2, <2>1 DEF CallsOK
  <2>7. \A u \in Workers : role'[u] \in Deciders => role'[u] \in Decisions /\ GateOpen'
    BY <1>3, <2>2, <2>4 DEF CallsOK
  <2>8. \A u \in Workers : /\ pc'[u] \in Executing => role'[u] \in {"invoke", "request_changes"}
                           /\ pc'[u] = "changes" => role'[u] = "request_changes"
                           /\ pc'[u] \in {"approve", "cancel", "reject"} => role'[u] \in Deciders
    BY <1>3, <2>1, <2>2 DEF CallsOK, Executing
  <2>9. \A x, u \in Workers :
           role'[x] = "invoke" /\ role'[u] = "invoke" /\ pc'[x] # "crashed" /\ pc'[u] # "crashed" => x = u
    <3>1. CASE r = "invoke"
      BY <1>3, <2>1, <2>2, <3>1
    <3>2. CASE r # "invoke"
      BY <2>1, <2>2, <3>2 DEF CallsOK
    <3> QED BY <3>1, <3>2
  <2> QED BY <2>5, <2>6, <2>7, <2>8, <2>9 DEF CallsOK
<1>4. CASE StartInvoke(w)
  BY <1>3, <1>4 DEF StartInvoke, Deciders
<1>5. ASSUME NEW d \in Deciders, NEW label \in {"approve", "changes", "cancel"}, StartDecision(w, d, label),
             label = "changes" => d = "request_changes"
      PROVE  CallsOK'
  <2>1. role' = [role EXCEPT ![w] = d] /\ d \in Decisions /\ GateOpen
    BY <1>5 DEF StartDecision
  <2>2. Goto(w, label) \/ Goto(w, "report")
    BY <1>5 DEF StartDecision
  <2>3. d # "invoke"
    BY DEF Deciders
  <2> QED BY <1>3, <1>5, <2>1, <2>2, <2>3
<1> QED BY <1>4, <1>5 DEF Start, StartApprove, StartRequestChanges, StartReject, Deciders

LEMMA CallsNext == TypeOK /\ RolesOK /\ CallsOK /\ [Next]_vars => CallsOK'
<1> SUFFICES ASSUME TypeOK, RolesOK, CallsOK, [Next]_vars PROVE CallsOK'
  OBVIOUS
<1>1. CASE UNCHANGED <<pc, role, result>>
  BY <1>1 DEF CallsOK, GateOpen
<1>2. ASSUME NEW w \in Workers, Start(w) PROVE CallsOK'
  BY <1>2, CallsStart
<1>3. ASSUME NEW w \in Workers, NEW label, Live(w), Goto(w, label), UNCHANGED <<role, result>>,
             label \in {"deadlocked", "failed", "crashed", "report"} \cup Executing,
             label \in Executing => role[w] \in {"invoke", "request_changes"}
      PROVE  CallsOK'
  <2>1. label \notin {"off", "changes", "approve", "cancel", "reject"}
    BY <1>3 DEF Executing
  <2> QED BY <1>3, <2>1, CallsKept
<1>4. ASSUME NEW w \in Workers, Step(w) PROVE CallsOK'
  <2>0. pc[w] \in Executing => role[w] \in {"invoke", "request_changes"}
    BY DEF CallsOK
  <2>1. CASE \E p \in Pages : SeedPage(w, p)
    <3>1. Goto(w, "seed") \/ Goto(w, "reset")
      BY <2>1 DEF SeedPage
    <3>2. UNCHANGED <<role, result>> /\ pc[w] = "seed"
      BY <2>1 DEF SeedPage
    <3> QED BY <1>3, <2>0, <3>1, <3>2 DEF Live, Terminal, Executing
  <2>2. CASE ResetExpiredLeases(w)
    <3>1. Goto(w, "claim") /\ UNCHANGED <<role, result>> /\ pc[w] = "reset"
      BY <2>2 DEF ResetExpiredLeases, Recycle
    <3> QED BY <1>3, <2>0, <3>1 DEF Live, Terminal, Executing
  <2>3. CASE ClaimReadyTasks(w)
    <3>1. Goto(w, "snapshot") \/ Goto(w, "run")
      BY <2>3 DEF ClaimReadyTasks
    <3>2. UNCHANGED <<role, result>> /\ pc[w] = "claim"
      BY <2>3 DEF ClaimReadyTasks
    <3> QED BY <1>3, <2>0, <3>1, <3>2 DEF Live, Terminal, Executing
  <2>4. CASE TakeSnapshot(w)
    <3>1. Goto(w, "deadlocked") \/ Goto(w, "report") \/ Goto(w, "reset")
      BY <2>4 DEF TakeSnapshot
    <3>2. UNCHANGED <<role, result>> /\ pc[w] = "snapshot"
      BY <2>4 DEF TakeSnapshot
    <3> QED BY <1>3, <2>0, <3>1, <3>2 DEF Live, Terminal, Executing
  <2>5. CASE Report(w)
    <3>1. Goto(w, "reported") /\ UNCHANGED role /\ pc[w] = "report"
      BY <2>5 DEF Report
    <3>2. \A u \in Workers \ {w} : result'[u] = result[u]
      BY <2>5 DEF Report, TypeOK, ControlOK
    <3> QED BY <3>1, <3>2, CallsKept DEF Live, Terminal, Executing
  <2>6. ASSUME NEW t \in DOMAIN batch[w], CompleteTask(w, t) \/ RetryOrFailTask(w, t)
        PROVE  CallsOK'
    <3>1. PICK failed : AfterSettling(w, t, failed)
      BY <2>6 DEF CompleteTask, RetryOrFailTask, RetryOrFail
    <3>2. Goto(w, "run") \/ Goto(w, "reset") \/ Goto(w, "failed") \/ Goto(w, "report")
      BY <3>1 DEF AfterSettling
    <3>3. UNCHANGED <<role, result>>
      BY <3>1 DEF AfterSettling
    <3>4. pc[w] = "run"
      BY <2>6 DEF CompleteTask, RetryOrFailTask, RetryOrFail, Gathered
    <3> QED BY <1>3, <2>0, <3>2, <3>3, <3>4 DEF Live, Terminal, Executing
  <2>7. ASSUME NEW t \in DOMAIN batch[w], HandlerStep(w, t) PROVE CallsOK'
    <3>1. UNCHANGED <<pc, role, result>>
      BY <2>7 DEF HandlerStep, WriterPrepare, WriterSeals, RecordArtifact, Promote, EvaluatorReads,
         RecordEvaluation, StoreEvaluation, EvaluatorRevises, EvaluatorCounts,
         EvaluatorEnqueuesReview, EnqueueReview, ReviewerReads, ReviewerClean, ReviewerCorrects,
         HandlerFails, control
    <3> QED BY <1>1, <3>1
  <2>8. CASE \E p \in Pages : ApprovePage(w, p)
    <3>1. Goto(w, "report") \/ Goto(w, "approve")
      BY <2>8 DEF ApprovePage, Approve
    <3>2. UNCHANGED <<role, result>> /\ pc[w] = "approve"
      BY <2>8 DEF ApprovePage, Approve
    <3>3. role[w] \in Deciders
      BY <3>2 DEF CallsOK
    <3> QED BY <3>1, <3>2, <3>3, CallsKept DEF Live, Terminal, Executing
  <2>9. CASE ScheduleHumanRevisions(w)
    <3>1. Goto(w, "reset") /\ UNCHANGED <<role, result>> /\ pc[w] = "changes"
      BY <2>9 DEF ScheduleHumanRevisions
    <3>2. role[w] = "request_changes"
      BY <3>1 DEF CallsOK
    <3> QED BY <1>3, <3>1, <3>2 DEF Live, Terminal, Executing
  <2>10. CASE CancelPendingTasks(w)
    <3>1. Goto(w, "reject") /\ UNCHANGED <<role, result>> /\ pc[w] = "cancel"
      BY <2>10 DEF CancelPendingTasks
    <3>2. role[w] \in Deciders
      BY <3>1 DEF CallsOK
    <3> QED BY <3>1, <3>2, CallsKept DEF Live, Terminal, Executing
  <2>11. CASE MarkEscalatedFailed(w)
    <3>1. Goto(w, "report") /\ UNCHANGED <<role, result>> /\ pc[w] = "reject"
      BY <2>11 DEF MarkEscalatedFailed
    <3> QED BY <1>3, <3>1 DEF Live, Terminal, Executing
  <2> QED BY <1>4, <2>1, <2>2, <2>3, <2>4, <2>5, <2>6, <2>7, <2>8, <2>9, <2>10, <2>11
          DEF Step, ExecutorStep, DecisionStep
<1>5. ASSUME NEW w \in Workers, Crash(w) PROVE CallsOK'
  BY <1>3, <1>5 DEF Crash, Executing
<1>6. ASSUME NEW t \in DOMAIN tasks, LeaseExpires(t) PROVE CallsOK'
  BY <1>1, <1>6 DEF LeaseExpires
<1> QED BY <1>1, <1>2, <1>4, <1>5, <1>6 DEF Next, Quiet, vars

\* While the node drives, whoever takes a step is the node.
LEMMA OnlyDriver ==
    ASSUME TypeOK, CallsOK, NEW w \in Workers, Drives(w)
    PROVE  /\ ~GateOpen
           /\ \A u \in Workers : Live(u) => u = w
           /\ \A u \in Workers : ~Start(u)
           /\ \A u \in Workers : Step(u) => u = w
           /\ \A u \in Workers : ~DecisionStep(u)
<1>1. pc[w] \notin {"off", "reported", "crashed"} /\ role[w] = "invoke"
  BY DEF Drives, Live, Terminal
<1>2. ~GateOpen
  <2> SUFFICES ASSUME NEW x \in Workers, role[x] = "invoke", result[x] \in {"passed", "ready_for_review"}
               PROVE  FALSE
    BY DEF GateOpen
  <2>1. pc[x] = "reported"
    BY DEF CallsOK
  <2> QED BY <1>1, <2>1 DEF CallsOK
<1>3. ASSUME NEW u \in Workers, Live(u) PROVE u = w
  <2>1. pc[u] \notin {"off", "crashed"}
    BY <1>3 DEF Live, Terminal
  <2>2. role[u] # "none" /\ role[u] \notin Deciders
    BY <1>2, <2>1 DEF CallsOK
  <2>3. role[u] = "invoke"
    BY <2>2 DEF TypeOK, ControlOK, Deciders
  <2> QED BY <1>1, <2>1, <2>3 DEF CallsOK
<1>4. ASSUME NEW u \in Workers, Start(u) PROVE FALSE
  <2>1. CASE StartInvoke(u)
    BY <1>1, <2>1 DEF StartInvoke
  <2> QED BY <1>2, <1>4, <2>1 DEF Start, StartApprove, StartRequestChanges, StartReject, StartDecision
<1>5. ASSUME NEW u \in Workers, DecisionStep(u) PROVE FALSE
  <2>1. pc[u] \in {"approve", "changes", "cancel", "reject"}
    BY <1>5 DEF DecisionStep, ApprovePage, Approve, ScheduleHumanRevisions, CancelPendingTasks, MarkEscalatedFailed
  <2>2. Live(u)
    BY <2>1 DEF Live, Terminal
  <2>3. role[u] \in Deciders
    BY <2>1 DEF CallsOK, Deciders
  <2> QED BY <1>1, <1>3, <2>2, <2>3 DEF Deciders
<1>6. ASSUME NEW u \in Workers, Step(u) PROVE u = w
  <2>1. CASE \E t \in DOMAIN batch[u] : CompleteTask(u, t) \/ RetryOrFailTask(u, t) \/ HandlerStep(u, t)
    <3>1. pc[u] = "run"
      BY <2>1 DEF CompleteTask, RetryOrFailTask, RetryOrFail, Gathered, HandlerStep, WriterPrepare, WriterSeals,
         RecordArtifact, Promote, EvaluatorReads, RecordEvaluation, StoreEvaluation, EvaluatorRevises,
         EvaluatorCounts, EvaluatorEnqueuesReview, EnqueueReview, ReviewerReads, ReviewerClean,
         ReviewerCorrects, HandlerFails, At
    <3> QED BY <1>3, <3>1 DEF Live, Terminal
  <2>2. CASE (\E p \in Pages : SeedPage(u, p)) \/ ResetExpiredLeases(u) \/ ClaimReadyTasks(u)
             \/ TakeSnapshot(u) \/ Report(u)
    <3>1. pc[u] \in {"seed", "reset", "claim", "snapshot", "report"}
      BY <2>2 DEF SeedPage, ResetExpiredLeases, Recycle, ClaimReadyTasks, TakeSnapshot, Report
    <3> QED BY <1>3, <3>1 DEF Live, Terminal
  <2> QED BY <1>5, <1>6, <2>1, <2>2 DEF Step, ExecutorStep
<1> QED BY <1>2, <1>3, <1>4, <1>5, <1>6

\* What a step may do to the task table: rows keep what they wait for, an ended
\* task stays so, and what is new is pending and waits as it should.
RowsLast ==
    /\ DOMAIN tasks \subseteq DOMAIN tasks'
    /\ \A t \in DOMAIN tasks :
          /\ tasks'[t].deps = tasks[t].deps
          /\ tasks[t].status \in {"completed", "failed", "cancelled"} => tasks'[t].status = tasks[t].status
    /\ \A t \in DOMAIN tasks' \ DOMAIN tasks :
          /\ tasks'[t].status = "pending"
          /\ t.kind = "write" => tasks'[t].deps = {}
          /\ t.kind = "cross_page_review" => \E s \in DOMAIN tasks : s.kind = "evaluate" /\ tasks'[t].deps = {s}

LEMMA PairsLast ==
    ASSUME NEW P, NEW ver, NEW att, NEW human, NEW source,
           tasks' = Enqueue(Pairs(P, ver, att, human, source))
    PROVE  /\ RowsLast
           /\ \A t \in DOMAIN tasks : tasks'[t] = tasks[t]
<1> DEFINE rows == Pairs(P, ver, att, human, source)
<1>1. DOMAIN rows = {WriteTask(p, ver[p]) : p \in P} \cup {EvaluateTask(p, ver[p]) : p \in P}
  BY DEF Pairs, PairsAt
<1>2. ASSUME NEW t \in DOMAIN rows
      PROVE  /\ rows[t].status = "pending" /\ t.kind \in {"write", "evaluate"}
             /\ t.kind = "write" => rows[t].deps = {}
  <2>1. t.kind \in {"write", "evaluate"}
    BY <1>1 DEF WriteTask, EvaluateTask
  <2>2. rows[t] = IF t.kind = "write"
                  THEN NewRow({}, 0, human, source[t.page])
                  ELSE NewRow({WriteTask(t.page, t.version + 0)}, att[t.page], human, 0)
    BY <1>1 DEF Pairs, PairsAt
  <2>3. CASE t.kind = "write"
    BY <2>2, <2>3 DEF NewRow
  <2>4. CASE t.kind # "write"
    BY <2>1, <2>2, <2>4 DEF NewRow
  <2> QED BY <2>1, <2>3, <2>4
<1> HIDE DEF rows
<1>3. DOMAIN tasks' = DOMAIN tasks \cup DOMAIN rows
  BY DEF Enqueue, rows
<1>4. \A s \in DOMAIN tasks : tasks'[s] = tasks[s]
  BY DEF Enqueue
<1>5. \A s \in DOMAIN rows \ DOMAIN tasks : tasks'[s] = rows[s]
  BY DEF Enqueue, rows
<1>6. ASSUME NEW t \in DOMAIN tasks' \ DOMAIN tasks
      PROVE  /\ tasks'[t].status = "pending" /\ t.kind # "cross_page_review"
             /\ t.kind = "write" => tasks'[t].deps = {}
  BY <1>2, <1>3, <1>5
<1> QED BY <1>3, <1>4, <1>6 DEF RowsLast

LEMMA HandlerRowsLast ==
    ASSUME TypeOK, NEW w \in Workers, NEW t \in DOMAIN batch[w], HandlerStep(w, t)
    PROVE  /\ RowsLast
           /\ \A s \in DOMAIN tasks : tasks'[s] = tasks[s]
<1>0. t \in DOMAIN tasks
  BY HeldTask
<1>1. CASE tasks' = tasks
  BY <1>1 DEF RowsLast
<1>2. CASE EvaluatorRevises(w, t) /\ tasks' # tasks
  <2>1. \E P, ver, att, source : ScheduleAt(P, ver, att, source)
    BY <1>2 DEF EvaluatorRevises, ScheduleRevisions
  <2> QED BY <2>1, PairsLast DEF ScheduleAt
<1>3. CASE ReviewerCorrects(w, t) /\ tasks' # tasks
  <2>1. \E P, ver, att, source : ScheduleAt(P, ver, att, source)
    BY <1>3 DEF ReviewerCorrects, ScheduleRevisions
  <2> QED BY <2>1, PairsLast DEF ScheduleAt
<1>4. CASE EvaluatorEnqueuesReview(w, t) /\ tasks' # tasks
  <2> DEFINE id == ReviewTask(batch[w][t].ver)
  <2> DEFINE new == NewRow({t}, 0, FALSE, 0)
  <2> DEFINE rows == [r \in {id} |-> new]
  <2>1. tasks' = Enqueue(rows) /\ t.kind = "evaluate"
    BY <1>4 DEF EvaluatorEnqueuesReview, EnqueueReview
  <2>2. id.kind = "cross_page_review" /\ new.status = "pending" /\ new.deps = {t}
    BY DEF ReviewTask, NewRow
  <2> HIDE DEF id, new
  <2>3. DOMAIN tasks' = DOMAIN tasks \cup {id}
    BY <2>1 DEF Enqueue
  <2>4. \A s \in DOMAIN tasks : tasks'[s] = tasks[s]
    BY <2>1 DEF Enqueue
  <2>5. id \notin DOMAIN tasks => tasks'[id] = new
    BY <2>1 DEF Enqueue
  <2> HIDE DEF rows
  <2> QED BY <1>0, <2>1, <2>2, <2>3, <2>4, <2>5 DEF RowsLast
<1>5. CASE ~EvaluatorRevises(w, t) /\ ~ReviewerCorrects(w, t) /\ ~EvaluatorEnqueuesReview(w, t)
  <2>1. tasks' = tasks
    BY <1>5 DEF HandlerStep, WriterPrepare, WriterSeals, RecordArtifact, Promote, EvaluatorReads,
       RecordEvaluation, StoreEvaluation, EvaluatorCounts, ReviewerReads, ReviewerClean, HandlerFails, tables
  <2> QED BY <1>1, <2>1
<1> QED BY <1>1, <1>2, <1>3, <1>4, <1>5

\* Persisting an outcome changes the row of that task alone.
LEMMA SettleRows ==
    ASSUME TypeOK, NEW w \in Workers, NEW t \in DOMAIN batch[w],
           CompleteTask(w, t) \/ RetryOrFailTask(w, t)
    PROVE  /\ DOMAIN tasks' = DOMAIN tasks /\ t \in DOMAIN tasks
           /\ \A s \in DOMAIN tasks \ {t} : tasks'[s] = tasks[s]
           /\ tasks'[t].deps = tasks[t].deps
           /\ \/ tasks'[t] = tasks[t]
              \/ tasks[t].status = "running" /\ tasks'[t].status \in {"completed", "pending", "failed"}
           /\ tasks'[t].status # tasks[t].status =>
                 \/ tasks'[t].status = "completed" /\ batch[w][t].at = "ok"
                 \/ tasks'[t].status \in {"pending", "failed"} /\ batch[w][t].at = "error"
<1>0. t \in DOMAIN tasks /\ tasks[t] \in TaskRow
  BY HeldTask
<1>1. \/ tasks' = tasks
      \/ /\ tasks[t].status = "running" /\ batch[w][t].at = "ok"
         /\ tasks' = [tasks EXCEPT ![t].status = "completed"]
      \/ /\ tasks[t].status = "running" /\ batch[w][t].at = "error"
         /\ \E s \in {"pending", "failed"} :
               tasks' = [tasks EXCEPT ![t].status = s, ![t].retries = 1,
                                      ![t].owner = "none", ![t].lease = "none"]
  BY DEF CompleteTask, RetryOrFailTask, RetryOrFail, Owned
<1>2. CASE tasks' = tasks
  BY <1>0, <1>2
<1>3. CASE /\ tasks[t].status = "running" /\ batch[w][t].at = "ok"
           /\ tasks' = [tasks EXCEPT ![t].status = "completed"]
  <2>1. tasks'[t] = [tasks[t] EXCEPT !.status = "completed"]
    BY <1>0, <1>3
  <2> QED BY <1>0, <1>3, <2>1 DEF TaskRow
<1>4. CASE /\ tasks[t].status = "running" /\ batch[w][t].at = "error"
           /\ \E s \in {"pending", "failed"} :
               tasks' = [tasks EXCEPT ![t].status = s, ![t].retries = 1,
                                      ![t].owner = "none", ![t].lease = "none"]
  <2>1. PICK s \in {"pending", "failed"} :
           tasks' = [tasks EXCEPT ![t].status = s, ![t].retries = 1, ![t].owner = "none", ![t].lease = "none"]
    BY <1>4
  <2>2. tasks'[t] = [tasks[t] EXCEPT !.status = s, !.retries = 1, !.owner = "none", !.lease = "none"]
    BY <1>0, <2>1
  <2> QED BY <1>0, <1>4, <2>1, <2>2 DEF TaskRow
<1> QED BY <1>1, <1>2, <1>3, <1>4

LEMMA AllRowsLast == TypeOK /\ [Next]_vars => RowsLast
<1> SUFFICES ASSUME TypeOK, [Next]_vars PROVE RowsLast
  OBVIOUS
<1>0. \A s \in DOMAIN tasks : tasks[s] \in TaskRow
  BY DEF TypeOK, TablesOK, TableOf
<1>1. CASE tasks' = tasks
  BY <1>1 DEF RowsLast
<1>2. ASSUME DOMAIN tasks' = DOMAIN tasks,
             \A s \in DOMAIN tasks : /\ tasks'[s].deps = tasks[s].deps
                                     /\ tasks[s].status \in {"completed", "failed", "cancelled"} =>
                                           tasks'[s].status = tasks[s].status
      PROVE  RowsLast
  BY <1>2 DEF RowsLast
<1>3. ASSUME NEW w \in Workers, Step(w) PROVE RowsLast
  <2>1. CASE \E p \in Pages : SeedPage(w, p)
    <3> DEFINE one == [q \in Pages |-> 1]
    <3>1. PICK p \in Pages : tasks' = Enqueue(Pairs({p}, one, one, FALSE, NoPages))
      BY <2>1 DEF SeedPage
    <3> HIDE DEF one
    <3> QED BY <3>1, PairsLast
  <2>2. CASE ResetExpiredLeases(w)
    <3>1. ASSUME NEW s \in DOMAIN tasks
          PROVE  /\ tasks'[s].deps = tasks[s].deps
                 /\ tasks[s].status \in {"completed", "failed", "cancelled"} =>
                       tasks'[s].status = tasks[s].status
      <4>1. \/ tasks'[s] = tasks[s]
            \/ /\ tasks[s].status = "running"
               /\ tasks'[s] = [tasks[s] EXCEPT !.status = "pending", !.owner = "none", !.lease = "none"]
        BY <2>2 DEF ResetExpiredLeases, Recycle
      <4> QED BY <1>0, <4>1 DEF TaskRow
    <3>2. DOMAIN tasks' = DOMAIN tasks
      BY <2>2 DEF ResetExpiredLeases, Recycle
    <3> QED BY <1>2, <3>1, <3>2
  <2>3. CASE ClaimReadyTasks(w)
    <3>1. ASSUME NEW s \in DOMAIN tasks
          PROVE  /\ tasks'[s].deps = tasks[s].deps
                 /\ tasks[s].status \in {"completed", "failed", "cancelled"} =>
                       tasks'[s].status = tasks[s].status
      <4>1. \/ tasks'[s] = tasks[s]
            \/ /\ tasks[s].status = "pending"
               /\ tasks'[s] = [tasks[s] EXCEPT !.status = "running", !.owner = LeaseOwner(w), !.lease = "live"]
        BY <2>3 DEF ClaimReadyTasks, Ready
      <4> QED BY <1>0, <4>1 DEF TaskRow
    <3>2. DOMAIN tasks' = DOMAIN tasks
      BY <2>3 DEF ClaimReadyTasks
    <3> QED BY <1>2, <3>1, <3>2
  <2>4. CASE TakeSnapshot(w) \/ Report(w)
    BY <1>1, <2>4 DEF TakeSnapshot, Report
  <2>5. CASE \E t \in DOMAIN batch[w] : CompleteTask(w, t) \/ RetryOrFailTask(w, t)
    <3>1. PICK t \in DOMAIN batch[w] : CompleteTask(w, t) \/ RetryOrFailTask(w, t)
      BY <2>5
    <3> QED BY <1>2, <3>1, SettleRows
  <2>6. CASE \E t \in DOMAIN batch[w] : HandlerStep(w, t)
    BY <2>6, HandlerRowsLast
  <2>7. CASE ScheduleHumanRevisions(w)
    <3>1. \E P, ver, att, human, source : tasks' = Enqueue(Pairs(P, ver, att, human, source))
      BY <2>7 DEF ScheduleHumanRevisions
    <3> QED BY <3>1, PairsLast
  <2>8. CASE CancelPendingTasks(w)
    <3>1. ASSUME NEW s \in DOMAIN tasks
          PROVE  /\ tasks'[s].deps = tasks[s].deps
                 /\ tasks[s].status \in {"completed", "failed", "cancelled"} =>
                       tasks'[s].status = tasks[s].status
      <4>1. \/ tasks'[s] = tasks[s]
            \/ /\ tasks[s].status \in {"pending", "running"}
               /\ tasks'[s] = [tasks[s] EXCEPT !.status = "cancelled"]
        BY <2>8 DEF CancelPendingTasks
      <4> QED BY <1>0, <4>1 DEF TaskRow
    <3>2. DOMAIN tasks' = DOMAIN tasks
      BY <2>8 DEF CancelPendingTasks
    <3> QED BY <1>2, <3>1, <3>2
  <2>9. CASE (\E p \in Pages : ApprovePage(w, p)) \/ MarkEscalatedFailed(w)
    BY <1>1, <2>9 DEF ApprovePage, Approve, MarkEscalatedFailed
  <2> QED BY <1>3, <2>1, <2>2, <2>3, <2>4, <2>5, <2>6, <2>7, <2>8, <2>9 DEF Step, ExecutorStep, DecisionStep
<1>4. ASSUME NEW w \in Workers, Start(w) \/ Crash(w) PROVE RowsLast
  BY <1>1, <1>4 DEF Start, StartInvoke, StartApprove, StartRequestChanges, StartReject, Crash, tables
<1>5. ASSUME NEW t \in DOMAIN tasks, LeaseExpires(t) PROVE RowsLast
  <2>1. /\ DOMAIN tasks' = DOMAIN tasks /\ tasks'[t] = [tasks[t] EXCEPT !.lease = "expired"]
        /\ \A s \in DOMAIN tasks \ {t} : tasks'[s] = tasks[s]
    BY <1>5 DEF LeaseExpires
  <2>2. tasks'[t].deps = tasks[t].deps /\ tasks'[t].status = tasks[t].status
    BY <1>0, <2>1 DEF TaskRow
  <2> QED BY <1>2, <2>1, <2>2
<1> QED BY <1>1, <1>3, <1>4, <1>5 DEF Next, Quiet, vars

\* A step of w is a step of a live worker, which moves that worker alone.
LEMMA StepIsLive == ASSUME NEW w \in Workers, Step(w) PROVE Live(w)
<1>1. CASE \E t \in DOMAIN batch[w] : CompleteTask(w, t) \/ RetryOrFailTask(w, t) \/ HandlerStep(w, t)
  <2>1. pc[w] = "run"
    BY <1>1 DEF CompleteTask, RetryOrFailTask, RetryOrFail, Gathered, HandlerStep, WriterPrepare, WriterSeals,
       RecordArtifact, Promote, EvaluatorReads, RecordEvaluation, StoreEvaluation, EvaluatorRevises,
       EvaluatorCounts, EvaluatorEnqueuesReview, EnqueueReview, ReviewerReads, ReviewerClean,
       ReviewerCorrects, HandlerFails, At
  <2> QED BY <2>1 DEF Live, Terminal
<1>2. CASE (\E p \in Pages : SeedPage(w, p)) \/ ResetExpiredLeases(w) \/ ClaimReadyTasks(w)
           \/ TakeSnapshot(w) \/ Report(w)
  <2>1. pc[w] \in {"seed", "reset", "claim", "snapshot", "report"}
    BY <1>2 DEF SeedPage, ResetExpiredLeases, Recycle, ClaimReadyTasks, TakeSnapshot, Report
  <2> QED BY <2>1 DEF Live, Terminal
<1>3. CASE DecisionStep(w)
  <2>1. pc[w] \in {"approve", "changes", "cancel", "reject"}
    BY <1>3 DEF DecisionStep, ApprovePage, Approve, ScheduleHumanRevisions, CancelPendingTasks, MarkEscalatedFailed
  <2> QED BY <2>1 DEF Live, Terminal
<1> QED BY <1>1, <1>2, <1>3 DEF Step, ExecutorStep

LEMMA StepMovesOne ==
    ASSUME TypeOK, NEW w \in Workers, Step(w)
    PROVE  /\ role' = role /\ pc'[w] \notin {"off", "crashed"}
           /\ \A u \in Workers \ {w} : pc'[u] = pc[u] /\ outcome'[u] = outcome[u]
<1>0. pc \in [Workers -> WorkerPc] /\ outcome \in [Workers -> {"none", "failed", "deadlocked"}]
  BY DEF TypeOK, ControlOK
<1> DEFINE Labels == {"seed", "reset", "claim", "snapshot", "run", "report", "approve", "changes",
                      "cancel", "reject", "reported", "failed", "deadlocked"}
<1>1. ASSUME NEW label \in Labels, Goto(w, label), outcome' = outcome, role' = role
      PROVE  /\ role' = role /\ pc'[w] \notin {"off", "crashed"}
             /\ \A u \in Workers \ {w} : pc'[u] = pc[u] /\ outcome'[u] = outcome[u]
  BY <1>0, <1>1 DEF Goto
<1>2. CASE \E t \in DOMAIN batch[w] : HandlerStep(w, t)
  <2>1. UNCHANGED <<role, pc, outcome>> /\ pc[w] = "run"
    BY <1>2 DEF HandlerStep, WriterPrepare, WriterSeals, RecordArtifact, Promote, EvaluatorReads,
       RecordEvaluation, StoreEvaluation, EvaluatorRevises, EvaluatorCounts,
       EvaluatorEnqueuesReview, EnqueueReview, ReviewerReads, ReviewerClean, ReviewerCorrects,
       HandlerFails, control, At
  <2> QED BY <2>1
<1>3. CASE \E t \in DOMAIN batch[w] : CompleteTask(w, t) \/ RetryOrFailTask(w, t)
  <2>1. PICK t, failed : AfterSettling(w, t, failed)
    BY <1>3 DEF CompleteTask, RetryOrFailTask, RetryOrFail
  <2>2. role' = role /\ \E o : outcome' = [outcome EXCEPT ![w] = o]
    BY <2>1 DEF AfterSettling
  <2>3. Goto(w, "run") \/ Goto(w, "reset") \/ Goto(w, "failed") \/ Goto(w, "report")
    BY <2>1 DEF AfterSettling
  <2> QED BY <1>0, <2>2, <2>3 DEF Goto
<1>4. CASE (\E p \in Pages : SeedPage(w, p)) \/ ResetExpiredLeases(w) \/ ClaimReadyTasks(w) \/ Report(w)
  <2>1. role' = role /\ outcome' = outcome /\ \E label \in Labels : Goto(w, label)
    BY <1>4 DEF SeedPage, ResetExpiredLeases, Recycle, ClaimReadyTasks, Report
  <2> QED BY <1>1, <2>1
<1>5. CASE TakeSnapshot(w)
  <2>1. role' = role /\ \E o : outcome' = [outcome EXCEPT ![w] = o]
    BY <1>5 DEF TakeSnapshot
  <2>2. Goto(w, "deadlocked") \/ Goto(w, "report") \/ Goto(w, "reset")
    BY <1>5 DEF TakeSnapshot
  <2> QED BY <1>0, <2>1, <2>2 DEF Goto
<1>6. CASE DecisionStep(w)
  <2>1. role' = role /\ outcome' = outcome /\ \E label \in Labels : Goto(w, label)
    BY <1>6 DEF DecisionStep, ApprovePage, Approve, ScheduleHumanRevisions, CancelPendingTasks, MarkEscalatedFailed
  <2> QED BY <1>1, <2>1
<1> QED BY <1>2, <1>3, <1>4, <1>5, <1>6 DEF Step, ExecutorStep

LEMMA WaitsNext == TypeOK /\ WaitsOK /\ [Next]_vars => WaitsOK'
<1> SUFFICES ASSUME TypeOK, WaitsOK, [Next]_vars, NEW t \in DOMAIN tasks'
             PROVE  /\ t.kind = "write" => tasks'[t].deps = {}
                    /\ t.kind = "cross_page_review" =>
                          \A d \in tasks'[t].deps : d \in DOMAIN tasks' /\ d.kind = "evaluate"
  BY DEF WaitsOK
<1>1. RowsLast
  BY AllRowsLast
<1>2. CASE t \in DOMAIN tasks
  BY <1>1, <1>2 DEF RowsLast, WaitsOK
<1>3. CASE t \notin DOMAIN tasks
  BY <1>1, <1>3 DEF RowsLast
<1> QED BY <1>2, <1>3

\* A claim that takes nothing found nothing.
LEMMA EmptyClaim ==
    ASSUME TypeOK, NEW w \in Workers, ClaimReadyTasks(w), pc'[w] = "snapshot"
    PROVE  tasks' = tasks /\ ~\E t \in DOMAIN tasks : Ready(t)
<1>1. PICK claimed \in SUBSET {t \in DOMAIN tasks : Ready(t)} :
        /\ claimed # {t \in DOMAIN tasks : Ready(t)} => Cardinality(claimed) = BatchLimit
        /\ tasks' = [t \in DOMAIN tasks |->
                       IF t \in claimed
                       THEN [tasks[t] EXCEPT !.status = "running", !.owner = LeaseOwner(w), !.lease = "live"]
                       ELSE tasks[t]]
        /\ Goto(w, IF claimed = {} THEN "snapshot" ELSE "run")
  BY DEF ClaimReadyTasks
<1>2. pc'[w] = IF claimed = {} THEN "snapshot" ELSE "run"
  BY <1>1 DEF Goto, TypeOK, ControlOK
<1>3. claimed = {}
  BY <1>2
<1>4. Cardinality(claimed) # BatchLimit
  BY <1>3, FS_EmptySet, PoolAssumption
<1>5. tasks' = tasks
  BY <1>1, <1>3 DEF TypeOK, TablesOK, TableOf
<1> QED BY <1>1, <1>3, <1>4, <1>5

LEMMA ReadyNext ==
    TypeOK /\ RolesOK /\ CallsOK /\ NothingReady /\ [Next]_vars => NothingReady'
<1> SUFFICES ASSUME TypeOK, RolesOK, CallsOK, NothingReady, [Next]_vars,
                    NEW w \in Workers, Drives(w)', pc'[w] = "snapshot"
             PROVE  ~\E t \in DOMAIN tasks' : Ready(t)'
  BY DEF NothingReady
<1>1. CASE UNCHANGED <<tasks, pc, role>>
  BY <1>1 DEF NothingReady, Ready, Drives, Live
<1>2. CASE \E u \in Workers : Start(u)
  <2>1. PICK u \in Workers : Start(u)
    BY <1>2
  <2>2. pc[u] = "off"
    BY <2>1 DEF Start, StartInvoke, StartApprove, StartRequestChanges, StartReject, StartDecision
  <2>3. u # w
    <3>1. pc'[u] \in {"seed", "report", "approve", "changes", "cancel"}
      BY <2>1 DEF Start, StartInvoke, StartApprove, StartRequestChanges, StartReject, StartDecision, Goto, TypeOK, ControlOK
    <3> QED BY <3>1
  <2>4. role'[w] = role[w] /\ pc'[w] = pc[w] /\ tasks' = tasks
    BY <2>1, <2>3 DEF Start, StartInvoke, StartApprove, StartRequestChanges, StartReject, StartDecision, Goto, TypeOK, ControlOK
  <2> QED BY <2>4 DEF NothingReady, Ready, Drives, Live
<1>3. CASE \E u \in Workers : Step(u)
  <2>1. PICK u \in Workers : Step(u)
    BY <1>3
  <2>2. role' = role
    BY <2>1, StepMovesOne
  <2>3. CASE Drives(w)
    <3>1. u = w /\ ~DecisionStep(u)
      BY <2>1, <2>3, OnlyDriver
    <3>2. CASE ClaimReadyTasks(w)
      <4>1. tasks' = tasks /\ ~\E t \in DOMAIN tasks : Ready(t)
        BY <3>2, EmptyClaim
      <4> QED BY <4>1 DEF Ready
    <3>3. CASE \E t \in DOMAIN batch[w] : HandlerStep(w, t)
      <4>1. pc' = pc /\ pc[w] = "run"
        BY <3>3 DEF HandlerStep, WriterPrepare, WriterSeals, RecordArtifact, Promote, EvaluatorReads,
           RecordEvaluation, StoreEvaluation, EvaluatorRevises, EvaluatorCounts,
           EvaluatorEnqueuesReview, EnqueueReview, ReviewerReads, ReviewerClean, ReviewerCorrects,
           HandlerFails, control, At
      <4> QED BY <4>1
    <3>4. CASE \E t \in DOMAIN batch[w] : CompleteTask(w, t) \/ RetryOrFailTask(w, t)
      <4>1. \E t, failed : AfterSettling(w, t, failed)
        BY <3>4 DEF CompleteTask, RetryOrFailTask, RetryOrFail
      <4>2. Goto(w, "run") \/ Goto(w, "reset") \/ Goto(w, "failed") \/ Goto(w, "report")
        BY <4>1 DEF AfterSettling
      <4> QED BY <4>2 DEF Goto, TypeOK, ControlOK
    <3>5. CASE (\E p \in Pages : SeedPage(w, p)) \/ ResetExpiredLeases(w) \/ TakeSnapshot(w) \/ Report(w)
      <4>1. \E label \in {"seed", "reset", "claim", "deadlocked", "report", "reported"} : Goto(w, label)
        BY <3>5 DEF SeedPage, ResetExpiredLeases, Recycle, TakeSnapshot, Report
      <4> QED BY <4>1 DEF Goto, TypeOK, ControlOK
    <3> QED BY <2>1, <3>1, <3>2, <3>3, <3>4, <3>5 DEF Step, ExecutorStep
  <2>4. CASE ~Drives(w)
    <3>1. ~Live(w) /\ Live(w)'
      BY <2>2, <2>4 DEF Drives
    <3>2. u # w
      <4>1. Live(u)
        BY <2>1, StepIsLive
      <4> QED BY <3>1, <4>1
    <3>3. pc'[w] = pc[w]
      BY <2>1, <3>2, StepMovesOne
    <3> QED BY <3>1, <3>3 DEF Live
  <2> QED BY <2>3, <2>4
<1>4. CASE \E u \in Workers : Crash(u)
  <2>1. PICK u \in Workers : Crash(u)
    BY <1>4
  <2>2. tasks' = tasks /\ role' = role
    BY <2>1 DEF Crash, tables
  <2>3. u # w /\ pc'[w] = pc[w]
    BY <2>1 DEF Crash, Goto, TypeOK, ControlOK
  <2> QED BY <2>2, <2>3 DEF NothingReady, Ready, Drives, Live
<1>5. CASE \E t \in DOMAIN tasks : LeaseExpires(t)
  <2>1. PICK t \in DOMAIN tasks : LeaseExpires(t)
    BY <1>5
  <2>2. /\ DOMAIN tasks' = DOMAIN tasks /\ tasks'[t] = [tasks[t] EXCEPT !.lease = "expired"]
        /\ \A s \in DOMAIN tasks \ {t} : tasks'[s] = tasks[s]
    BY <2>1 DEF LeaseExpires
  <2>3. tasks[t] \in TaskRow
    BY DEF TypeOK, TablesOK, TableOf
  <2>4. \A s \in DOMAIN tasks : tasks'[s].deps = tasks[s].deps /\ tasks'[s].status = tasks[s].status
    BY <2>2, <2>3 DEF TaskRow
  <2>5. UNCHANGED <<pc, role>>
    BY <2>1 DEF LeaseExpires
  <2>6. ~\E s \in DOMAIN tasks : Ready(s)
    BY <2>5 DEF NothingReady, Drives, Live
  <2> QED BY <2>2, <2>4, <2>6 DEF Ready
<1> QED BY <1>1, <1>2, <1>3, <1>4, <1>5 DEF Next, Quiet, vars

LEMMA CallNext == ASSUME MaxOverruns = 0 PROVE CallInv /\ [Next]_vars => CallInv'
<1> SUFFICES ASSUME CallInv, [Next]_vars PROVE CallInv'
  OBVIOUS
<1>1. TypeOK
  BY DEF CallInv, CareInv, LeaseInv
<1> QED BY <1>1, CareNext, RolesNext, CallsNext, WaitsNext, ReadyNext DEF CallInv

LEMMA CallInit == Init => CallInv /\ DeadlockIsTrue
<1> SUFFICES ASSUME Init PROVE CallInv /\ DeadlockIsTrue
  OBVIOUS
<1>1. DOMAIN tasks = {} /\ \A w \in Workers : pc[w] = "off" /\ role[w] = "none" /\ result[w] = "none"
                                              /\ outcome[w] = "none"
  BY DEF Init, NoBatch
<1>2. RolesOK
  BY <1>1 DEF RolesOK
<1>3. CallsOK
  BY <1>1 DEF CallsOK, Deciders, Executing
<1>4. WaitsOK /\ NothingReady /\ DeadlockIsTrue
  BY <1>1 DEF WaitsOK, NothingReady, DeadlockIsTrue, Drives
<1> QED BY <1>2, <1>3, <1>4, CareInit DEF CallInv

\* With one executor at most, who looks for a deadlock is the node.
LEMMA SnapshotDrives ==
    ASSUME TypeOK, CallsOK, OneExecutor, NEW w \in Workers, pc[w] \in Executing
    PROVE  Drives(w)
<1>1. role[w] # "request_changes"
  <2> SUFFICES ASSUME role[w] = "request_changes" PROVE FALSE
    OBVIOUS
  <2>1. "request_changes" \in Decisions /\ GateOpen
    BY DEF CallsOK, Deciders
  <2>2. PICK x \in Workers : role[x] = "invoke"
    BY <2>1 DEF GateOpen
  <2>3. x = w
    BY <2>1 DEF OneExecutor
  <2> QED BY <2>2, <2>3
<1>2. role[w] = "invoke"
  BY <1>1 DEF CallsOK
<1> QED BY <1>2 DEF Drives, Live, Terminal, Executing

\* A table whose pending tasks all wait holds a task that failed or was cancelled:
\* reviews wait for evaluations, evaluations for writes, and writes for nothing.
LEMMA StuckOnFailure ==
    ASSUME CallInv, NEW t \in DOMAIN tasks, tasks[t].status = "pending",
           \A s \in DOMAIN tasks : ~Ready(s),
           \A s \in DOMAIN tasks : tasks[s].status # "running"
    PROVE  \E s \in DOMAIN tasks : tasks[s].status \in {"failed", "cancelled"}
<1> SUFFICES ASSUME \A s \in DOMAIN tasks : tasks[s].status \notin {"failed", "cancelled"} PROVE FALSE
  OBVIOUS
<1>0. TypeOK
  BY DEF CallInv, CareInv, LeaseInv
<1>1. \A s \in DOMAIN tasks : tasks[s].status \in {"pending", "completed"}
  BY <1>0 DEF TypeOK, TablesOK, TableOf, TaskRow, TaskStatus
<1>2. \A s \in DOMAIN tasks : s.kind \in {"write", "evaluate", "cross_page_review"}
  BY <1>0 DEF TypeOK, TablesOK, TableOf, Task, PageTask
<1>3. ASSUME NEW s \in DOMAIN tasks, s.kind = "write" PROVE tasks[s].status = "completed"
  <2>1. tasks[s].deps = {}
    BY <1>3 DEF CallInv, WaitsOK
  <2> QED BY <1>1, <2>1 DEF Ready
<1>4. ASSUME NEW s \in DOMAIN tasks, s.kind = "evaluate" PROVE tasks[s].status = "completed"
  <2> DEFINE d == WriteTask(s.page, s.version)
  <2>1. s = EvaluateTask(s.page, s.version) /\ s.page \in Pages /\ s.version \in Version
    BY <1>0, <1>4, PageTaskShape
  <2>2. d \in DOMAIN tasks /\ tasks[s].deps = {d}
    BY <2>1 DEF CallInv, CareInv, PairsOK
  <2>3. d.kind = "write"
    BY DEF WriteTask
  <2> HIDE DEF d
  <2>4. tasks[d].status = "completed"
    BY <1>3, <2>2, <2>3
  <2> QED BY <1>1, <2>2, <2>4 DEF Ready
<1>5. ASSUME NEW s \in DOMAIN tasks, s.kind = "cross_page_review" PROVE tasks[s].status = "completed"
  <2>1. \A d \in tasks[s].deps : d \in DOMAIN tasks /\ d.kind = "evaluate"
    BY <1>5 DEF CallInv, WaitsOK
  <2>2. \A d \in tasks[s].deps : d \in DOMAIN tasks /\ tasks[d].status = "completed"
    BY <1>4, <2>1
  <2> QED BY <1>1, <2>2 DEF Ready
<1> QED BY <1>2, <1>3, <1>4, <1>5

\* Only the look at the table sets "deadlocked".
LEMMA DeadlockedBy ==
    ASSUME TypeOK, [Next]_vars, NEW w \in Workers, outcome'[w] = "deadlocked", outcome[w] # "deadlocked"
    PROVE  /\ TakeSnapshot(w)
           /\ \E t \in DOMAIN tasks : tasks[t].status = "pending"
           /\ \A t \in DOMAIN tasks : tasks[t].status # "running"
<1>0. outcome' # outcome
  OBVIOUS
<1>1. PICK u \in Workers : Step(u)
  <2>1. ASSUME NEW u \in Workers, Start(u) \/ Crash(u) PROVE outcome' = outcome
    BY <2>1 DEF Start, StartInvoke, StartApprove, StartRequestChanges, StartReject, Crash
  <2>2. ASSUME NEW t \in DOMAIN tasks, LeaseExpires(t) PROVE outcome' = outcome
    BY <2>2 DEF LeaseExpires
  <2> QED BY <1>0, <2>1, <2>2 DEF Next, Quiet, vars
<1>2. \A t \in DOMAIN batch[u] : ~HandlerStep(u, t)
  <2> SUFFICES ASSUME NEW t \in DOMAIN batch[u], HandlerStep(u, t) PROVE outcome' = outcome
    BY <1>0
  <2> QED BY DEF HandlerStep, WriterPrepare, WriterSeals, RecordArtifact, Promote, EvaluatorReads,
         RecordEvaluation, StoreEvaluation, EvaluatorRevises, EvaluatorCounts,
         EvaluatorEnqueuesReview, EnqueueReview, ReviewerReads, ReviewerClean, ReviewerCorrects,
         HandlerFails, control
<1>3. \A t \in DOMAIN batch[u] : ~(CompleteTask(u, t) \/ RetryOrFailTask(u, t))
  <2> SUFFICES ASSUME NEW t \in DOMAIN batch[u], CompleteTask(u, t) \/ RetryOrFailTask(u, t) PROVE FALSE
    OBVIOUS
  <2>1. PICK failed : AfterSettling(u, t, failed)
    BY DEF CompleteTask, RetryOrFailTask, RetryOrFail
  <2>2. outcome' = [outcome EXCEPT ![u] = "failed"] \/ outcome' = [outcome EXCEPT ![u] = outcome[u]]
    BY <2>1 DEF AfterSettling
  <2> QED BY <2>2 DEF TypeOK, ControlOK
<1>4. ~((\E p \in Pages : SeedPage(u, p)) \/ ResetExpiredLeases(u) \/ ClaimReadyTasks(u) \/ Report(u) \/ DecisionStep(u))
  BY <1>0 DEF SeedPage, ResetExpiredLeases, Recycle, ClaimReadyTasks, Report, DecisionStep, ApprovePage, Approve,
     ScheduleHumanRevisions, CancelPendingTasks, MarkEscalatedFailed
<1>5. TakeSnapshot(u)
  BY <1>1, <1>2, <1>3, <1>4 DEF Step, ExecutorStep
<1> DEFINE with(s) == {t \in DOMAIN tasks : tasks[t].status = s}
<1>6. outcome' = [outcome EXCEPT ![u] = IF with("pending") # {} /\ with("running") = {}
                                        THEN "deadlocked" ELSE outcome[u]]
  BY <1>5 DEF TakeSnapshot
<1>7. u = w /\ with("pending") # {} /\ with("running") = {}
  BY <1>6 DEF TypeOK, ControlOK
<1> QED BY <1>5, <1>7

LEMMA DeadlockNext ==
    ASSUME OneExecutor
    PROVE  CallInv /\ DeadlockIsTrue /\ [Next]_vars => DeadlockIsTrue'
<1> SUFFICES ASSUME CallInv, DeadlockIsTrue, [Next]_vars, NEW w \in Workers, outcome'[w] = "deadlocked"
             PROVE  \E t \in DOMAIN tasks' : tasks'[t].status \in {"failed", "cancelled"}
  BY DEF DeadlockIsTrue
<1>0. TypeOK /\ CallsOK /\ NothingReady
  BY DEF CallInv, CareInv, LeaseInv
<1>1. RowsLast
  BY <1>0, AllRowsLast
<1>2. \E t \in DOMAIN tasks : tasks[t].status \in {"failed", "cancelled"}
  <2>1. CASE outcome[w] = "deadlocked"
    BY <2>1 DEF DeadlockIsTrue
  <2>2. CASE outcome[w] # "deadlocked"
    <3>1. /\ TakeSnapshot(w)
          /\ \E t \in DOMAIN tasks : tasks[t].status = "pending"
          /\ \A t \in DOMAIN tasks : tasks[t].status # "running"
      BY <1>0, <2>2, DeadlockedBy
    <3>2. pc[w] = "snapshot"
      BY <3>1 DEF TakeSnapshot
    <3>3. Drives(w)
      BY <1>0, <3>2, SnapshotDrives DEF Executing
    <3>4. \A s \in DOMAIN tasks : ~Ready(s)
      BY <1>0, <3>2, <3>3 DEF NothingReady
    <3> QED BY <3>1, <3>4, StuckOnFailure
  <2> QED BY <2>1, <2>2
<1> QED BY <1>1, <1>2 DEF RowsLast

\* With one executor at most and no batch that outlasts its lease, the node ends
\* with DeadlockedWorkflowError only over a task that failed or was cancelled
\* (executor.py run), whatever crashes and re-entries went before: what its claim
\* found is still so when it looks at the table again.
THEOREM DeadlocksAreTrue ==
    ASSUME MaxOverruns = 0, OneExecutor
    PROVE  Spec => []DeadlockIsTrue
<1>1. CallInv /\ DeadlockIsTrue /\ [Next]_vars => (CallInv /\ DeadlockIsTrue)'
  BY CallNext, DeadlockNext
<1> QED BY <1>1, CallInit, PTL DEF Spec

\* A start leaves the tables to a worker that was off before.
LEMMA StartMovesOne ==
    ASSUME TypeOK, NEW w \in Workers, Start(w)
    PROVE  /\ pc[w] = "off" /\ UNCHANGED <<tasks, evals, batch, outcome, result>>
           /\ pc'[w] \in {"seed", "report", "approve", "changes", "cancel"} /\ role'[w] # "none"
           /\ \A u \in Workers \ {w} : pc'[u] = pc[u] /\ role'[u] = role[u]
           /\ StartInvoke(w) \/ GateOpen
<1>1. CASE StartInvoke(w)
  BY <1>1 DEF StartInvoke, Goto, TypeOK, ControlOK
<1>2. CASE StartApprove(w)
  BY <1>2 DEF StartApprove, StartDecision, Goto, TypeOK, ControlOK
<1>3. CASE StartRequestChanges(w)
  BY <1>3 DEF StartRequestChanges, StartDecision, Goto, TypeOK, ControlOK
<1>4. CASE StartReject(w)
  BY <1>4 DEF StartReject, StartDecision, Goto, TypeOK, ControlOK
<1> QED BY <1>1, <1>2, <1>3, <1>4 DEF Start

\* Before the node is entered nobody works on the run.
LEMMA NobodyBefore ==
    ASSUME TypeOK, CallsOK, \A w \in Workers : role[w] # "invoke"
    PROVE  ~GateOpen /\ \A w \in Workers : pc[w] = "off"
<1>1. ~GateOpen
  BY DEF GateOpen
<1>2. \A w \in Workers : role[w] = "none"
  BY <1>1 DEF CallsOK, TypeOK, ControlOK, Deciders
<1> QED BY <1>1, <1>2 DEF CallsOK

LEMMA FirstNext ==
    ASSUME ~CanCrash
    PROVE  CallInv /\ FirstCall /\ [Next]_vars => FirstCall'
<1> SUFFICES ASSUME CallInv, FirstCall, [Next]_vars PROVE FirstCall'
  OBVIOUS
<1>0. TypeOK /\ CallsOK /\ RolesOK
  BY DEF CallInv, CareInv, LeaseInv
<1>1. ASSUME UNCHANGED vars PROVE FirstCall'
  BY <1>1 DEF FirstCall, vars
<1>2. ASSUME NEW u \in Workers, Start(u) PROVE FirstCall'
  <2>1. /\ pc[u] = "off" /\ UNCHANGED <<tasks, outcome>>
        /\ pc'[u] \in {"seed", "report", "approve", "changes", "cancel"}
        /\ \A w \in Workers \ {u} : pc'[w] = pc[w] /\ role'[w] = role[w]
        /\ StartInvoke(u) \/ GateOpen
    BY <1>0, <1>2, StartMovesOne
  <2>2. \A w \in Workers : pc'[w] # "crashed" /\ (pc'[w] = "off" => outcome'[w] = "none")
    BY <2>1 DEF FirstCall
  <2>3. \E w \in Workers : role'[w] = "invoke"
    <3>1. CASE StartInvoke(u)
      BY <1>0, <3>1 DEF StartInvoke, TypeOK, ControlOK
    <3>2. CASE GateOpen
      <4>1. PICK x \in Workers : role[x] = "invoke"
        BY <3>2 DEF GateOpen
      <4>2. x # u
        BY <1>0, <2>1, <4>1 DEF RolesOK
      <4> QED BY <2>1, <4>1, <4>2
    <3> QED BY <2>1, <3>1, <3>2
  <2> QED BY <2>2, <2>3 DEF FirstCall
<1>3. ASSUME NEW u \in Workers, Step(u) PROVE FirstCall'
  <2>1. /\ role' = role /\ pc'[u] \notin {"off", "crashed"}
        /\ \A w \in Workers \ {u} : pc'[w] = pc[w] /\ outcome'[w] = outcome[w]
    BY <1>0, <1>3, StepMovesOne
  <2>2. Live(u)
    BY <1>3, StepIsLive
  <2>3. \E w \in Workers : role[w] = "invoke"
    BY <1>0, <2>2, NobodyBefore DEF Live
  <2> QED BY <2>1, <2>3 DEF FirstCall
<1>4. ASSUME NEW t \in DOMAIN tasks, LeaseExpires(t) PROVE FirstCall'
  <2>1. UNCHANGED <<pc, role, outcome>>
    BY <1>4 DEF LeaseExpires
  <2>2. \E w \in Workers : role[w] = "invoke"
    BY <1>4 DEF FirstCall
  <2> QED BY <2>1, <2>2 DEF FirstCall
<1>5. ASSUME NEW u \in Workers, Crash(u) PROVE FALSE
  BY <1>5 DEF Crash
<1> QED BY <1>1, <1>2, <1>3, <1>4, <1>5 DEF Next, Quiet

\* Without a crash the node takes over empty tables, and then works alone.
LEMMA DriverSteps ==
    ASSUME ~CanCrash, CallInv, FirstCall, [Next]_vars, NEW w \in Workers, Drives(w)'
    PROVE  \/ /\ Drives(w)
              /\ UNCHANGED vars \/ (Step(w) /\ ~DecisionStep(w)) \/ \E t \in DOMAIN tasks : LeaseExpires(t)
           \/ /\ StartInvoke(w) /\ pc[w] = "off" /\ pc'[w] = "seed" /\ outcome'[w] = "none"
              /\ DOMAIN tasks' = {} /\ \A p \in Pages : page'[p].status = "pending"
<1>0. TypeOK /\ CallsOK /\ RolesOK
  BY DEF CallInv, CareInv, LeaseInv
<1>1. CASE Drives(w)
  <2>1. /\ \A u \in Workers : ~Start(u)
        /\ \A u \in Workers : Step(u) => u = w
        /\ \A u \in Workers : ~DecisionStep(u)
    BY <1>0, <1>1, OnlyDriver
  <2>2. \A u \in Workers : ~Crash(u)
    BY DEF Crash
  <2> QED BY <1>1, <2>1, <2>2 DEF Next, Quiet
<1>2. CASE ~Drives(w)
  <2>1. ~UNCHANGED vars
    BY <1>2 DEF Drives, Live, vars
  <2>2. \A t \in DOMAIN tasks : ~LeaseExpires(t)
    BY <1>2 DEF LeaseExpires, Drives, Live
  <2>3. \A u \in Workers : ~Step(u)
    <3> SUFFICES ASSUME NEW u \in Workers, Step(u) PROVE FALSE
      OBVIOUS
    <3>1. /\ role' = role /\ \A x \in Workers \ {u} : pc'[x] = pc[x]
      BY <1>0, StepMovesOne
    <3>2. Live(u)
      BY StepIsLive
    <3>3. ~Live(w)
      BY <1>2, <3>1 DEF Drives
    <3> QED BY <3>1, <3>2, <3>3 DEF Drives, Live
  <2>4. PICK u \in Workers : Start(u)
    BY <2>1, <2>2, <2>3 DEF Next, Quiet, Crash
  <2>5. /\ pc[u] = "off" /\ UNCHANGED <<tasks, outcome>>
        /\ \A x \in Workers \ {u} : pc'[x] = pc[x] /\ role'[x] = role[x]
        /\ StartInvoke(u) \/ GateOpen
    BY <1>0, <2>4, StartMovesOne
  <2>6. u = w
    BY <1>2, <2>5 DEF Drives, Live
  <2>7. StartInvoke(w)
    <3>1. role'[w] = "invoke"
      BY DEF Drives
    <3> QED BY <1>0, <2>4, <2>6, <3>1 DEF Start, StartApprove, StartRequestChanges, StartReject, StartDecision,
          TypeOK, ControlOK
  <2>8. \A x \in Workers : role[x] # "invoke"
    BY <2>7 DEF StartInvoke, FirstCall
  <2>9. DOMAIN tasks = {} /\ \A p \in Pages : page[p].status = "absent"
    BY <2>8 DEF FirstCall
  <2>10. \A p \in Pages : page'[p].status = "pending"
    <3>1. \A p \in Pages : page[p] \in PageRow
      BY <1>0, PageShape
    <3>2. \A p \in Pages : page'[p] = [page[p] EXCEPT !.status = "pending"]
      BY <2>7, <2>9 DEF StartInvoke
    <3> QED BY <3>1, <3>2 DEF PageRow
  <2>11. pc[w] = "off" /\ pc'[w] = "seed" /\ outcome'[w] = "none"
    <3>1. pc[w] = "off" /\ pc' = [pc EXCEPT ![w] = "seed"]
      BY <2>7 DEF StartInvoke, Goto
    <3> QED BY <1>0, <2>5, <3>1 DEF FirstCall, TypeOK, ControlOK
  <2> QED BY <2>5, <2>7, <2>9, <2>10, <2>11
<1> QED BY <1>1, <1>2

\* Steps that leave the pages alone, complete no evaluation that still owes the
\* review, and let no other evaluation end or choose its review.
LEMMA OwedKeeps ==
    ASSUME NEW w \in Workers, OwedBy(w), page' = page, DOMAIN tasks \subseteq DOMAIN tasks',
           \A s \in DOMAIN tasks :
              tasks[s].status # "completed" /\ (s \in DOMAIN batch[w] => batch[w][s].at # "ok")
                 => tasks'[s].status # "completed",
           \A s \in DOMAIN batch'[w] : s.kind = "evaluate" =>
              \/ s \in DOMAIN batch[w] /\ batch'[w][s] = batch[w][s]
              \/ batch'[w][s].at \notin {"ok", "enqueue"}
    PROVE  OwedBy(w)'
<1> SUFFICES ASSUME AllPassed'
             PROVE  ReviewTask(Latest)' \in DOMAIN tasks' \/ \E p \in Pages : Owes(w, p)'
  BY DEF OwedBy
<1>1. AllPassed /\ Latest' = Latest /\ ReviewTask(Latest)' = ReviewTask(Latest)
  BY DEF AllPassed, Latest, ReviewTask
<1>2. CASE ReviewTask(Latest) \in DOMAIN tasks
  BY <1>1, <1>2
<1>3. CASE ReviewTask(Latest) \notin DOMAIN tasks
  <2>1. PICK p \in Pages : Owes(w, p)
    BY <1>1, <1>3 DEF OwedBy
  <2>2. PICK t : t = EvaluateTask(p, page[p].latest)
    OBVIOUS
  <2>3. /\ t \in DOMAIN tasks /\ tasks[t].status # "completed"
        /\ t \in DOMAIN batch[w] => /\ batch[w][t].at # "ok"
                                    /\ batch[w][t].at = "enqueue" => batch[w][t].ver = Latest
    BY <2>1, <2>2 DEF Owes
  <2>4. t.kind = "evaluate"
    BY <2>2 DEF EvaluateTask
  <2>5. t \in DOMAIN tasks' /\ tasks'[t].status # "completed"
    BY <2>3
  <2>6. t \in DOMAIN batch'[w] => /\ batch'[w][t].at # "ok"
                                  /\ batch'[w][t].at = "enqueue" => batch'[w][t].ver = Latest
    BY <2>3, <2>4
  <2>7. t = EvaluateTask(p, page'[p].latest)
    BY <2>2
  <2>8. Owes(w, p)'
    BY <1>1, <2>5, <2>6, <2>7 DEF Owes
  <2> QED BY <2>8
<1> QED BY <1>2, <1>3

LEMMA NotAllPassed ==
    ASSUME NEW w \in Workers, NEW p \in Pages, page'[p].status # "passed"
    PROVE  OwedBy(w)'
BY DEF OwedBy, AllPassed

\* The evaluation that lets the last page pass goes on to count the pages.
LEMMA OwedRecordEvaluation ==
    ASSUME CallInv, NEW w \in Workers, NEW t \in DOMAIN batch[w], RecordEvaluation(w, t), OwedBy(w)
    PROVE  OwedBy(w)' /\ \A p \in Pages : page'[p].status = page[p].status
                                          \/ page'[p].status \in {"revising", "passed", "awaiting_human_review"}
<1>0. /\ TypeOK /\ BatchOK /\ t \in DOMAIN tasks /\ page = [p \in Pages |-> page[p]]
      /\ \A p \in Pages : page[p] \in PageRow
      /\ evals \subseteq EvalRow
  BY HeldTask DEF CallInv, CareInv, LeaseInv, TypeOK, TablesOK
<1>1. t.kind = "evaluate" /\ pc[w] = "run" /\ tasks' = tasks
  BY DEF RecordEvaluation, StoreEvaluation, At
<1>2. /\ t.page \in Pages /\ t.version \in Version /\ t = EvaluateTask(t.page, t.version)
  BY <1>0, <1>1, PageTaskShape
<1>3. CASE UNCHANGED <<evals, page>> /\ Advance(w, t, "error")
  <2>1. OneMoves(w, t, "error")
    BY <1>0, <1>3, AdvanceMoves
  <2>2. \A s \in DOMAIN batch'[w] : \/ s \in DOMAIN batch[w] /\ batch'[w][s] = batch[w][s]
                                    \/ batch'[w][s].at \notin {"ok", "enqueue"}
    BY <2>1 DEF OneMoves
  <2>3. OwedBy(w)'
    BY <1>1, <1>3, <2>2, OwedKeeps
  <2> QED BY <1>3, <2>3
<1>4. CASE page[t.page].latest = t.version
  <2> DEFINE row == [page |-> t.page, version |-> t.version, attempt |-> tasks[t].attempt,
                     status |-> Verdict(t)]
  <2>1. PICK e \in (IF Stored(t.page, t.version) = {} THEN {row} ELSE Stored(t.page, t.version)) :
          /\ page' = [page EXCEPT
               ![t.page].attempt = IF e.status \in EvalStatus THEN e.attempt ELSE @,
               ![t.page].status = IF e.status = "revision_required" THEN "revising" ELSE e.status]
          /\ Advance(w, t, IF row.status = "revision_required" THEN "revise"
                           ELSE IF row.status = "passed" THEN "count" ELSE "ok")
    BY <1>4 DEF RecordEvaluation, StoreEvaluation
  <2>2. e.status = Verdict(t)
    <3>1. CASE e = row
      BY <3>1
    <3>2. CASE e \in Stored(t.page, t.version)
      BY <1>2, <3>2 DEF Stored, CallInv, CareInv, EvalsTrue
    <3> QED BY <2>1, <3>1, <3>2
  <2>3. row.status = Verdict(t)
    OBVIOUS
  <2> HIDE DEF row
  <2>4. Verdict(t) \in EvalStatus
    BY DEF Verdict, EvalStatus
  <2>5. /\ page'[t.page].latest = t.version
        /\ page'[t.page].status = (IF Verdict(t) = "revision_required" THEN "revising" ELSE Verdict(t))
        /\ \A q \in Pages \ {t.page} : page'[q] = page[q]
    BY <1>0, <1>2, <1>4, <2>1, <2>2 DEF PageRow
  <2>6. page'[t.page].status \in {"revising", "passed", "awaiting_human_review"}
        /\ (page'[t.page].status = "passed" => Verdict(t) = "passed")
    BY <2>4, <2>5 DEF EvalStatus
  <2>7. OwedBy(w)'
    <3>1. CASE page'[t.page].status # "passed"
      BY <1>2, <3>1, NotAllPassed
    <3>2. CASE page'[t.page].status = "passed"
      <4>1. Advance(w, t, "count")
        BY <2>1, <2>3, <2>6, <3>2
      <4>2. batch'[w][t].at = "count" \/ t \notin DOMAIN batch'[w]
        BY <1>0, <4>1, AdvanceMoves DEF OneMoves
      <4>3. tasks[t].status # "completed"
        BY <1>1 DEF CallInv, CareInv, LeaseInv, HeldIsLeased, Live, Terminal
      <4>4. t = EvaluateTask(t.page, page'[t.page].latest)
        BY <1>2, <2>5
      <4>5. Owes(w, t.page)'
        BY <1>0, <1>1, <4>2, <4>3, <4>4 DEF Owes
      <4> QED BY <1>2, <4>5 DEF OwedBy
    <3> QED BY <3>1, <3>2
  <2> QED BY <2>5, <2>6, <2>7
<1> QED BY <1>3, <1>4 DEF RecordEvaluation, StoreEvaluation

\* A handler step leaves the review owed, and gives up no page.
LEMMA OwedHandlers ==
    ASSUME CallInv, NEW w \in Workers, NEW t \in DOMAIN batch[w], HandlerStep(w, t), OwedBy(w)
    PROVE  OwedBy(w)' /\ \A p \in Pages : page'[p].status = page[p].status
                                          \/ page'[p].status \notin {"absent", "failed"}
<1>0. TypeOK /\ BatchOK /\ t \in DOMAIN tasks /\ page \in [Pages -> PageRow]
  BY HeldTask DEF CallInv, CareInv, LeaseInv, TypeOK, TablesOK
<1>1. RowsLast /\ \A s \in DOMAIN tasks : tasks'[s] = tasks[s]
  BY <1>0, HandlerRowsLast
<1>2. DOMAIN tasks \subseteq DOMAIN tasks'
  BY <1>1 DEF RowsLast
<1>3. ASSUME page' = page, NEW label, OneMoves(w, t, label), label \notin {"ok", "enqueue"} \/ t.kind # "evaluate"
      PROVE  OwedBy(w)' /\ \A p \in Pages : page'[p].status = page[p].status
  <2>1. \A s \in DOMAIN batch'[w] : s.kind = "evaluate" =>
              \/ s \in DOMAIN batch[w] /\ batch'[w][s] = batch[w][s]
              \/ batch'[w][s].at \notin {"ok", "enqueue"}
    BY <1>3 DEF OneMoves
  <2> QED BY <1>1, <1>2, <1>3, <2>1, OwedKeeps
<1>4. ASSUME NEW P \in (SUBSET Pages) \ {{}}, NEW next, NEW att, NEW source, ScheduleAt(P, next, att, source)
      PROVE  OwedBy(w)' /\ \A p \in Pages : page'[p].status = page[p].status
                                            \/ page'[p].status \notin {"absent", "failed"}
  <2>1. ASSUME NEW p \in P PROVE page'[p].status = "revising"
    <3>1. page[p] \in PageRow
      BY <1>0
    <3>2. page'[p] = [page[p] EXCEPT !.status = "revising",
                        !.next = IF @ < next[p] + 1 THEN next[p] + 1 ELSE @]
      BY <1>4 DEF ScheduleAt
    <3> QED BY <3>1, <3>2 DEF PageRow
  <2>2. \A p \in Pages \ P : page'[p] = page[p]
    BY <1>4 DEF ScheduleAt
  <2>3. OwedBy(w)'
    BY <2>1, NotAllPassed
  <2> QED BY <2>1, <2>2, <2>3
<1>5. CASE WriterPrepare(w, t) \/ WriterSeals(w, t) \/ ReviewerClean(w, t)
  <2>1. page' = page /\ t.kind # "evaluate" /\ \E label : Advance(w, t, label)
    BY <1>5 DEF WriterPrepare, WriterSeals, ReviewerClean, tables
  <2> QED BY <1>0, <1>3, <2>1, AdvanceMoves
<1>6. CASE ReviewerReads(w, t)
  <2>1. page' = page /\ t.kind # "evaluate" /\ \E h : batch' = [batch EXCEPT ![w][t] = h]
    BY <1>6 DEF ReviewerReads, tables
  <2> QED BY <1>0, <1>3, <2>1, RememberMoves
<1>7. CASE EvaluatorReads(w, t) \/ HandlerFails(w, t)
  <2>1. page' = page /\ (Advance(w, t, "record") \/ Advance(w, t, "error"))
    BY <1>7 DEF EvaluatorReads, HandlerFails, tables
  <2>2. OneMoves(w, t, "record") \/ OneMoves(w, t, "error")
    BY <1>0, <2>1, AdvanceMoves
  <2> QED BY <1>3, <2>1, <2>2
<1>8. CASE RecordArtifact(w, t)
  <2>1. t.kind = "write" /\ t.page \in Pages
    BY <1>0, <1>8, PageTaskShape DEF RecordArtifact, Promote
  <2>2. \/ page' = page /\ Advance(w, t, "error")
        \/ page' = [page EXCEPT ![t.page].latest = t.version, ![t.page].status = "evaluating"]
    BY <1>8 DEF RecordArtifact, Promote
  <2>3. CASE page' = page /\ Advance(w, t, "error")
    <3>1. OneMoves(w, t, "error")
      BY <1>0, <2>3, AdvanceMoves
    <3> QED BY <1>3, <2>3, <3>1
  <2>4. CASE page' = [page EXCEPT ![t.page].latest = t.version, ![t.page].status = "evaluating"]
    <3>1. page'[t.page].status = "evaluating" /\ \A p \in Pages \ {t.page} : page'[p] = page[p]
      BY <1>0, <2>1, <2>4 DEF PageRow
    <3>2. OwedBy(w)'
      BY <2>1, <3>1, NotAllPassed
    <3> QED BY <3>1, <3>2
  <2> QED BY <2>2, <2>3, <2>4
<1>9. CASE RecordEvaluation(w, t)
  BY <1>9, OwedRecordEvaluation
<1>10. CASE EvaluatorRevises(w, t)
  <2>1. t.kind = "evaluate" /\ t.page \in Pages
    BY <1>0, <1>10, PageTaskShape DEF EvaluatorRevises
  <2>2. \/ page' = page /\ Advance(w, t, "error")
        \/ \E ver, att, source : ScheduleAt({t.page}, ver, att, source)
    BY <1>10 DEF EvaluatorRevises, ScheduleRevisions
  <2>3. CASE page' = page /\ Advance(w, t, "error")
    <3>1. OneMoves(w, t, "error")
      BY <1>0, <2>3, AdvanceMoves
    <3> QED BY <1>3, <2>3, <3>1
  <2>4. {t.page} \in (SUBSET Pages) \ {{}}
    BY <2>1
  <2> QED BY <1>4, <2>2, <2>3, <2>4
<1>11. CASE ReviewerCorrects(w, t)
  <2>1. \/ page' = page /\ Advance(w, t, "error")
        \/ \E P \in (SUBSET Pages) \ {{}} : \E ver, att, source : ScheduleAt(P, ver, att, source)
    BY <1>11 DEF ReviewerCorrects, ScheduleRevisions
  <2>2. CASE page' = page /\ Advance(w, t, "error")
    <3>1. OneMoves(w, t, "error")
      BY <1>0, <2>2, AdvanceMoves
    <3> QED BY <1>3, <2>2, <3>1
  <2> QED BY <1>4, <2>1, <2>2
<1>12. CASE EvaluatorCounts(w, t)
  <2> DEFINE h == IF AllPassed THEN [batch[w][t] EXCEPT !.at = "enqueue", !.ver = Latest]
                               ELSE [batch[w][t] EXCEPT !.at = "ok"]
  <2>1. page' = page /\ tasks' = tasks /\ t.kind = "evaluate" /\ batch' = [batch EXCEPT ![w][t] = h]
    BY <1>12 DEF EvaluatorCounts, tables
  <2>2. AllPassed => h.at = "enqueue" /\ h.ver = Latest
    <3>1. batch[w][t] \in Handler
      BY <1>0 DEF BatchOK, TableOf
    <3> QED BY <3>1 DEF Handler
  <2> HIDE DEF h
  <2>3. batch'[w] = [batch[w] EXCEPT ![t] = h]
    BY <1>0, <2>1 DEF BatchOK
  <2>4. OwedBy(w)'
    <3> SUFFICES ASSUME AllPassed'
                 PROVE  ReviewTask(Latest)' \in DOMAIN tasks' \/ \E p \in Pages : Owes(w, p)'
      BY DEF OwedBy
    <3>1. AllPassed /\ Latest' = Latest /\ ReviewTask(Latest)' = ReviewTask(Latest)
      BY <2>1 DEF AllPassed, Latest, ReviewTask
    <3>2. CASE ReviewTask(Latest) \in DOMAIN tasks
      BY <2>1, <3>1, <3>2
    <3>3. CASE ReviewTask(Latest) \notin DOMAIN tasks
      <4>1. PICK p \in Pages : Owes(w, p)
        BY <3>1, <3>3 DEF OwedBy
      <4>2. PICK s : s = EvaluateTask(p, page[p].latest)
        OBVIOUS
      <4>3. /\ s \in DOMAIN tasks /\ tasks[s].status # "completed"
            /\ s \in DOMAIN batch[w] => /\ batch[w][s].at # "ok"
                                        /\ batch[w][s].at = "enqueue" => batch[w][s].ver = Latest
        BY <4>1, <4>2 DEF Owes
      <4>4. s \in DOMAIN batch'[w] => /\ batch'[w][s].at # "ok"
                                      /\ batch'[w][s].at = "enqueue" => batch'[w][s].ver = Latest
        BY <2>2, <2>3, <3>1, <4>3
      <4>5. s = EvaluateTask(p, page'[p].latest)
        BY <2>1, <4>2
      <4>6. Owes(w, p)'
        BY <2>1, <3>1, <4>3, <4>4, <4>5 DEF Owes
      <4> QED BY <4>6
    <3> QED BY <3>2, <3>3
  <2> QED BY <2>1, <2>4
<1>13. CASE EvaluatorEnqueuesReview(w, t)
  <2>1. page' = page /\ t.kind = "evaluate" /\ batch[w][t].at = "enqueue"
    BY <1>13 DEF EvaluatorEnqueuesReview, EnqueueReview, At
  <2>2. CASE Advance(w, t, "error")
    <3>1. OneMoves(w, t, "error")
      BY <1>0, <2>2, AdvanceMoves
    <3> QED BY <1>3, <2>1, <3>1
  <2>3. CASE /\ tasks' = Enqueue([r \in {ReviewTask(batch[w][t].ver)} |-> NewRow({t}, 0, FALSE, 0)])
             /\ Advance(w, t, "ok")
    <3>1. ReviewTask(batch[w][t].ver) \in DOMAIN tasks'
      BY <2>3 DEF Enqueue
    <3>2. OneMoves(w, t, "ok")
      BY <1>0, <2>3, AdvanceMoves
    <3>3. OwedBy(w)'
      <4> SUFFICES ASSUME AllPassed'
                   PROVE  ReviewTask(Latest)' \in DOMAIN tasks' \/ \E p \in Pages : Owes(w, p)'
        BY DEF OwedBy
      <4>1. AllPassed /\ Latest' = Latest /\ ReviewTask(Latest)' = ReviewTask(Latest)
        BY <2>1 DEF AllPassed, Latest, ReviewTask
      <4>2. CASE ReviewTask(Latest) \in DOMAIN tasks
        BY <1>2, <4>1, <4>2
      <4>3. CASE ReviewTask(Latest) \notin DOMAIN tasks
        <5>1. PICK p \in Pages : Owes(w, p)
          BY <4>1, <4>3 DEF OwedBy
        <5>2. PICK s : s = EvaluateTask(p, page[p].latest)
          OBVIOUS
        <5>3. /\ s \in DOMAIN tasks /\ tasks[s].status # "completed"
              /\ s \in DOMAIN batch[w] => /\ batch[w][s].at # "ok"
                                          /\ batch[w][s].at = "enqueue" => batch[w][s].ver = Latest
          BY <5>1, <5>2 DEF Owes
        <5>4. CASE s = t
          <6>1. batch[w][t].ver = Latest
            BY <2>1, <5>3, <5>4
          <6> QED BY <3>1, <4>1, <6>1
        <5>5. CASE s # t
          <6>1. s \in DOMAIN batch'[w] => s \in DOMAIN batch[w] /\ batch'[w][s] = batch[w][s]
            BY <3>2, <5>5 DEF OneMoves
          <6>2. s = EvaluateTask(p, page'[p].latest)
            BY <2>1, <5>2
          <6>3. s \in DOMAIN tasks' /\ tasks'[s].status # "completed"
            BY <1>1, <1>2, <5>3
          <6>4. Owes(w, p)'
            BY <4>1, <5>3, <6>1, <6>2, <6>3 DEF Owes
          <6> QED BY <6>4
        <5> QED BY <5>4, <5>5
      <4> QED BY <4>2, <4>3
    <3> QED BY <2>1, <3>3
  <2> QED BY <1>13, <2>2, <2>3 DEF EvaluatorEnqueuesReview, EnqueueReview
<1> QED BY <1>5, <1>6, <1>7, <1>8, <1>9, <1>10, <1>11, <1>12, <1>13 DEF HandlerStep

\* A round in which a task fails ends with that outcome, and the loop goes on only
\* when none did.
LEMMA SettleMoves ==
    ASSUME TypeOK, NEW w \in Workers, NEW t \in DOMAIN batch[w], role[w] = "invoke",
           CompleteTask(w, t) \/ RetryOrFailTask(w, t)
    PROVE  /\ page' = page /\ pc'[w] # "report"
           /\ outcome'[w] \in {outcome[w], "failed"}
           /\ tasks'[t].status = "failed" => outcome'[w] = "failed" \/ tasks[t].status = "failed"
           /\ pc'[w] \in {"run", "failed"} \/ outcome'[w] = "none"
           /\ DOMAIN batch'[w] = DOMAIN batch[w] \ {t}
           /\ \A s \in DOMAIN batch[w] \ {t} : batch'[w][s] = batch[w][s]
<1>0. /\ pc \in [Workers -> WorkerPc] /\ outcome \in [Workers -> {"none", "failed", "deadlocked"}]
      /\ t \in DOMAIN tasks /\ tasks[t] \in TaskRow /\ BatchOK
  BY HeldTask DEF TypeOK, ControlOK
<1>1. ASSUME NEW failed \in BOOLEAN, AfterSettling(w, t, failed)
      PROVE  /\ page' = page /\ pc'[w] # "report"
             /\ outcome'[w] = IF failed THEN "failed" ELSE outcome[w]
             /\ pc'[w] \in {"run", "failed"} \/ outcome'[w] = "none"
             /\ DOMAIN batch'[w] = DOMAIN batch[w] \ {t}
             /\ \A s \in DOMAIN batch[w] \ {t} : batch'[w][s] = batch[w][s]
  <2>1. outcome'[w] = IF failed THEN "failed" ELSE outcome[w]
    BY <1>0, <1>1 DEF AfterSettling
  <2>2. \/ pc'[w] = "run" \/ pc'[w] = "failed"
        \/ pc'[w] = "reset" /\ outcome[w] = "none" /\ ~failed
    BY <1>0, <1>1 DEF AfterSettling, Goto
  <2>3. batch'[w] = Without(batch[w], t)
    BY <1>0, <1>1 DEF AfterSettling, BatchOK
  <2>4. DOMAIN batch'[w] = DOMAIN batch[w] \ {t} /\ \A s \in DOMAIN batch[w] \ {t} : batch'[w][s] = batch[w][s]
    BY <2>3 DEF Without
  <2>5. page' = page
    BY <1>1 DEF AfterSettling
  <2> QED BY <2>1, <2>2, <2>4, <2>5
<1>2. CASE CompleteTask(w, t)
  <2>1. AfterSettling(w, t, FALSE)
    BY <1>2 DEF CompleteTask
  <2>2. tasks' = tasks \/ tasks' = [tasks EXCEPT ![t].status = "completed"]
    BY <1>2 DEF CompleteTask
  <2>3. tasks'[t].status = "failed" => tasks[t].status = "failed"
    BY <1>0, <2>2 DEF TaskRow
  <2> QED BY <1>1, <2>1, <2>3
<1>3. CASE RetryOrFailTask(w, t)
  <2> DEFINE again == tasks[t].retries < 1
  <2>1. /\ AfterSettling(w, t, Owned(w, t) /\ ~again)
        /\ \/ tasks' = tasks
           \/ /\ Owned(w, t)
              /\ tasks' = [tasks EXCEPT ![t].status = IF again THEN "pending" ELSE "failed",
                                        ![t].retries = 1, ![t].owner = "none", ![t].lease = "none"]
    BY <1>3 DEF RetryOrFailTask, RetryOrFail
  <2>2. PICK failed \in BOOLEAN : failed = (Owned(w, t) /\ ~again)
    OBVIOUS
  <2>3. AfterSettling(w, t, failed)
    BY <2>1, <2>2
  <2>4. tasks'[t].status = "failed" => failed \/ tasks[t].status = "failed"
    <3>1. CASE tasks' = tasks
      BY <3>1
    <3>2. CASE Owned(w, t) /\ again
      <4>1. tasks' = tasks \/ tasks'[t] = [tasks[t] EXCEPT !.status = "pending", !.retries = 1,
                                                           !.owner = "none", !.lease = "none"]
        BY <1>0, <2>1, <3>2
      <4> QED BY <1>0, <3>1, <4>1 DEF TaskRow
    <3>3. CASE Owned(w, t) /\ ~again
      BY <2>2, <3>3
    <3> HIDE DEF again
    <3> QED BY <2>1, <3>1, <3>2, <3>3
  <2> HIDE DEF again
  <2> QED BY <1>1, <2>3, <2>4
<1> QED BY <1>2, <1>3

\* What the node's call keeps up in its own steps.
LEMMA SoundStep ==
    ASSUME CallInv, NEW w \in Workers, Drives(w), UnharmedBy(w), OwedBy(w),
           Step(w), ~DecisionStep(w), Drives(w)'
    PROVE  UnharmedBy(w)' /\ OwedBy(w)'
<1>0. /\ TypeOK /\ CallsOK /\ NothingReady /\ role[w] = "invoke"
      /\ pc \in [Workers -> WorkerPc] /\ outcome \in [Workers -> {"none", "failed", "deadlocked"}]
      /\ \A s \in DOMAIN tasks : tasks[s] \in TaskRow
  BY DEF CallInv, CareInv, LeaseInv, Drives, TypeOK, ControlOK, TablesOK, TableOf
<1>1. ASSUME page' = page, outcome'[w] = outcome[w], pc'[w] # "run" => outcome[w] = "none", pc'[w] # "report",
             DOMAIN tasks \subseteq DOMAIN tasks',
             \A s \in DOMAIN tasks' : \/ tasks'[s].status \in {"pending", "running"}
                                      \/ s \in DOMAIN tasks /\ tasks'[s].status = tasks[s].status,
             \A s \in DOMAIN batch'[w] : \/ s \in DOMAIN batch[w] /\ batch'[w][s] = batch[w][s]
                                         \/ batch'[w][s].at \notin {"ok", "enqueue"}
      PROVE  UnharmedBy(w)' /\ OwedBy(w)'
  <2>1. UnharmedBy(w)'
    BY <1>1 DEF UnharmedBy
  <2>2. \A s \in DOMAIN tasks : tasks[s].status # "completed" => tasks'[s].status # "completed"
    BY <1>1
  <2>3. OwedBy(w)'
    BY <1>1, <2>2, OwedKeeps
  <2> QED BY <2>1, <2>3
<1>2. CASE \E p \in Pages : SeedPage(w, p)
  <2> DEFINE one == [q \in Pages |-> 1]
  <2>1. PICK p \in Pages : SeedPage(w, p)
    BY <1>2
  <2>2. tasks' = Enqueue(Pairs({p}, one, one, FALSE, NoPages))
    BY <2>1 DEF SeedPage
  <2> HIDE DEF one
  <2>3. RowsLast /\ \A s \in DOMAIN tasks : tasks'[s] = tasks[s]
    BY <2>2, PairsLast
  <2>4. page' = page /\ batch' = batch /\ outcome' = outcome /\ pc[w] = "seed"
    BY <2>1 DEF SeedPage
  <2>5. pc'[w] \in {"seed", "reset"}
    BY <1>0, <2>1 DEF SeedPage, Goto
  <2>6. outcome[w] = "none"
    BY <2>4 DEF UnharmedBy
  <2>7. \A s \in DOMAIN tasks' : \/ tasks'[s].status \in {"pending", "running"}
                                 \/ s \in DOMAIN tasks /\ tasks'[s].status = tasks[s].status
    BY <2>3 DEF RowsLast
  <2>8. DOMAIN tasks \subseteq DOMAIN tasks'
    BY <2>3 DEF RowsLast
  <2> QED BY <1>1, <2>4, <2>5, <2>6, <2>7, <2>8
<1>3. CASE ResetExpiredLeases(w)
  <2>1. page' = page /\ batch' = batch /\ outcome' = outcome /\ pc[w] = "reset" /\ DOMAIN tasks' = DOMAIN tasks
    BY <1>3 DEF ResetExpiredLeases, Recycle
  <2>2. pc'[w] = "claim"
    BY <1>0, <1>3 DEF ResetExpiredLeases, Recycle, Goto
  <2>3. outcome[w] = "none"
    BY <2>1 DEF UnharmedBy
  <2>4. ASSUME NEW s \in DOMAIN tasks
        PROVE  tasks'[s].status = "pending" \/ tasks'[s].status = tasks[s].status
    <3>1. \/ tasks'[s] = tasks[s]
          \/ tasks'[s] = [tasks[s] EXCEPT !.status = "pending", !.owner = "none", !.lease = "none"]
      BY <1>3 DEF ResetExpiredLeases, Recycle
    <3> QED BY <1>0, <3>1 DEF TaskRow
  <2> QED BY <1>1, <2>1, <2>2, <2>3, <2>4
<1>4. CASE ClaimReadyTasks(w)
  <2>1. page' = page /\ outcome' = outcome /\ pc[w] = "claim" /\ DOMAIN tasks' = DOMAIN tasks
    BY <1>4 DEF ClaimReadyTasks
  <2>2. pc'[w] \in {"snapshot", "run"}
    BY <1>0, <1>4 DEF ClaimReadyTasks, Goto
  <2>3. outcome[w] = "none"
    BY <2>1 DEF UnharmedBy
  <2>4. ASSUME NEW s \in DOMAIN tasks
        PROVE  tasks'[s].status = "running" \/ tasks'[s].status = tasks[s].status
    <3>1. \/ tasks'[s] = tasks[s]
          \/ tasks'[s] = [tasks[s] EXCEPT !.status = "running", !.owner = LeaseOwner(w), !.lease = "live"]
      BY <1>4 DEF ClaimReadyTasks
    <3> QED BY <1>0, <3>1 DEF TaskRow
  <2>5. \A s \in DOMAIN batch'[w] : batch'[w][s].at = "ready"
    <3>1. PICK claimed : batch' = [batch EXCEPT ![w] = [t \in claimed |-> Fresh]]
      BY <1>4 DEF ClaimReadyTasks
    <3>2. batch'[w] = [t \in claimed |-> Fresh]
      BY <1>0, <3>1 DEF TypeOK, BatchOK
    <3> QED BY <3>2 DEF Fresh
  <2> QED BY <1>1, <2>1, <2>2, <2>3, <2>4, <2>5
<1>5. CASE TakeSnapshot(w)
  <2> DEFINE with(s) == {t \in DOMAIN tasks : tasks[t].status = s}
  <2>1. page' = page /\ batch' = batch /\ tasks' = tasks /\ pc[w] = "snapshot"
    BY <1>5 DEF TakeSnapshot
  <2>2. outcome[w] = "none"
    BY <2>1 DEF UnharmedBy
  <2>3. \A s \in DOMAIN tasks : tasks[s].status \notin {"failed", "cancelled"} /\ ~Ready(s)
    BY <1>0, <2>1, <2>2 DEF UnharmedBy, NothingReady
  <2>4. ~(with("pending") # {} /\ with("running") = {})
    BY <2>3, StuckOnFailure
  <2>5. outcome'[w] = outcome[w]
    BY <1>0, <1>5, <2>4 DEF TakeSnapshot
  <2>6. pc'[w] = "reset" \/ (pc'[w] = "report" /\ with("pending") \cup with("running") = {})
    BY <1>0, <1>5, <2>4 DEF TakeSnapshot, Goto
  <2>7. pc'[w] = "report" => \A s \in DOMAIN tasks : tasks[s].status = "completed"
    <3>1. pc'[w] = "report" => \A s \in DOMAIN tasks : tasks[s].status \notin {"pending", "running"}
      BY <2>6
    <3> QED BY <1>0, <2>3, <3>1 DEF TaskRow, TaskStatus
  <2>8. UnharmedBy(w)'
    BY <2>1, <2>2, <2>5, <2>7 DEF UnharmedBy
  <2>9. OwedBy(w)'
    BY <2>1, OwedKeeps
  <2> QED BY <2>8, <2>9
<1>6. CASE Report(w)
  <2>1. pc'[w] = "reported"
    BY <1>0, <1>6 DEF Report, Goto
  <2> QED BY <2>1 DEF Drives, Live, Terminal
<1>7. ASSUME NEW t \in DOMAIN batch[w], CompleteTask(w, t) \/ RetryOrFailTask(w, t)
      PROVE  UnharmedBy(w)' /\ OwedBy(w)'
  <2>1. /\ DOMAIN tasks' = DOMAIN tasks /\ t \in DOMAIN tasks
        /\ \A s \in DOMAIN tasks \ {t} : tasks'[s] = tasks[s]
        /\ \/ tasks'[t] = tasks[t]
           \/ tasks[t].status = "running" /\ tasks'[t].status \in {"completed", "pending", "failed"}
        /\ tasks'[t].status # tasks[t].status =>
              \/ tasks'[t].status = "completed" /\ batch[w][t].at = "ok"
              \/ tasks'[t].status \in {"pending", "failed"} /\ batch[w][t].at = "error"
    BY <1>0, <1>7, SettleRows
  <2>2. /\ page' = page /\ pc'[w] # "report"
        /\ outcome'[w] \in {outcome[w], "failed"}
        /\ tasks'[t].status = "failed" => outcome'[w] = "failed" \/ tasks[t].status = "failed"
        /\ pc'[w] \in {"run", "failed"} \/ outcome'[w] = "none"
        /\ DOMAIN batch'[w] = DOMAIN batch[w] \ {t}
        /\ \A s \in DOMAIN batch[w] \ {t} : batch'[w][s] = batch[w][s]
    BY <1>0, <1>7, SettleMoves
  <2>3. pc'[w] # "failed"
    BY DEF Drives, Live, Terminal
  <2>4. UnharmedBy(w)'
    <3>1. \A s \in DOMAIN tasks' : tasks'[s].status # "cancelled"
      BY <2>1 DEF UnharmedBy
    <3>2. outcome'[w] \in {"none", "failed"}
      BY <2>2 DEF UnharmedBy
    <3>3. outcome'[w] = "none" => \A s \in DOMAIN tasks' : tasks'[s].status # "failed"
      BY <2>1, <2>2 DEF UnharmedBy
    <3> QED BY <2>2, <2>3, <3>1, <3>2, <3>3 DEF UnharmedBy
  <2>5. \A s \in DOMAIN tasks :
           tasks[s].status # "completed" /\ (s \in DOMAIN batch[w] => batch[w][s].at # "ok")
              => tasks'[s].status # "completed"
    BY <2>1
  <2>6. OwedBy(w)'
    BY <2>1, <2>2, <2>5, OwedKeeps
  <2> QED BY <2>4, <2>6
<1>8. ASSUME NEW t \in DOMAIN batch[w], HandlerStep(w, t)
      PROVE  UnharmedBy(w)' /\ OwedBy(w)'
  <2>1. OwedBy(w)' /\ \A p \in Pages : page'[p].status = page[p].status
                                       \/ page'[p].status \notin {"absent", "failed"}
    BY <1>8, OwedHandlers
  <2>2. RowsLast /\ \A s \in DOMAIN tasks : tasks'[s] = tasks[s]
    BY <1>0, <1>8, HandlerRowsLast
  <2>3. pc' = pc /\ outcome' = outcome /\ pc[w] = "run"
    BY <1>8 DEF HandlerStep, WriterPrepare, WriterSeals, RecordArtifact, Promote, EvaluatorReads,
       RecordEvaluation, StoreEvaluation, EvaluatorRevises, EvaluatorCounts,
       EvaluatorEnqueuesReview, EnqueueReview, ReviewerReads, ReviewerClean, ReviewerCorrects,
       HandlerFails, control, At
  <2>4. \A s \in DOMAIN tasks' : \/ tasks'[s].status = "pending"
                                 \/ s \in DOMAIN tasks /\ tasks'[s].status = tasks[s].status
    BY <2>2 DEF RowsLast
  <2>5. \A p \in Pages : page'[p].status \notin {"absent", "failed"}
    BY <2>1 DEF UnharmedBy
  <2>6. UnharmedBy(w)'
    BY <2>3, <2>4, <2>5 DEF UnharmedBy
  <2> QED BY <2>1, <2>6
<1> QED BY <1>2, <1>3, <1>4, <1>5, <1>6, <1>7, <1>8 DEF Step, ExecutorStep

LEMMA SoundNext ==
    ASSUME MaxOverruns = 0, ~CanCrash
    PROVE  SoundInv /\ [Next]_vars => SoundInv'
<1> SUFFICES ASSUME SoundInv, [Next]_vars PROVE SoundInv'
  OBVIOUS
<1>0. CallInv /\ FirstCall /\ Unharmed /\ ReviewOwed
  BY DEF SoundInv
<1>1. CallInv' /\ FirstCall'
  BY <1>0, CallNext, FirstNext
<1>2. ASSUME NEW w \in Workers, Drives(w)' PROVE UnharmedBy(w)' /\ OwedBy(w)'
  <2>1. CASE Drives(w) /\ UNCHANGED vars
    <3>1. UnharmedBy(w) /\ OwedBy(w)
      BY <1>0, <2>1 DEF Unharmed, ReviewOwed
    <3>2. UnharmedBy(w)'
      BY <2>1, <3>1 DEF UnharmedBy, vars
    <3>3. OwedBy(w)'
      BY <2>1, <3>1, OwedKeeps DEF vars
    <3> QED BY <3>2, <3>3
  <2>2. CASE Drives(w) /\ Step(w) /\ ~DecisionStep(w)
    <3>1. UnharmedBy(w) /\ OwedBy(w)
      BY <1>0, <2>2 DEF Unharmed, ReviewOwed
    <3> QED BY <1>0, <1>2, <2>2, <3>1, SoundStep
  <2>3. CASE Drives(w) /\ \E t \in DOMAIN tasks : LeaseExpires(t)
    <3>0. UnharmedBy(w) /\ OwedBy(w)
      BY <1>0, <2>3 DEF Unharmed, ReviewOwed
    <3>1. PICK t \in DOMAIN tasks : LeaseExpires(t)
      BY <2>3
    <3>2. /\ DOMAIN tasks' = DOMAIN tasks /\ tasks'[t] = [tasks[t] EXCEPT !.lease = "expired"]
          /\ \A s \in DOMAIN tasks \ {t} : tasks'[s] = tasks[s]
          /\ UNCHANGED <<page, pc, outcome, batch>>
      BY <3>1 DEF LeaseExpires
    <3>3. tasks[t] \in TaskRow
      BY <1>0 DEF CallInv, CareInv, LeaseInv, TypeOK, TablesOK, TableOf
    <3>4. \A s \in DOMAIN tasks : tasks'[s].status = tasks[s].status
      BY <3>2, <3>3 DEF TaskRow
    <3>5. UnharmedBy(w)'
      BY <3>0, <3>2, <3>4 DEF UnharmedBy
    <3>6. OwedBy(w)'
      BY <3>0, <3>2, <3>4, OwedKeeps
    <3> QED BY <3>5, <3>6
  <2>4. CASE /\ pc'[w] = "seed" /\ outcome'[w] = "none"
             /\ DOMAIN tasks' = {} /\ \A p \in Pages : page'[p].status = "pending"
    <3>1. UnharmedBy(w)'
      BY <2>4 DEF UnharmedBy
    <3>2. PICK p \in Pages : TRUE
      BY PagesAssumption
    <3>3. OwedBy(w)'
      BY <2>4, <3>2, NotAllPassed
    <3> QED BY <3>1, <3>3
  <2> QED BY <1>0, <1>2, <2>1, <2>2, <2>3, <2>4, DriverSteps
<1> QED BY <1>1, <1>2 DEF SoundInv, Unharmed, ReviewOwed

LEMMA SoundInit == Init => SoundInv
<1> SUFFICES ASSUME Init PROVE SoundInv
  OBVIOUS
<1>1. DOMAIN tasks = {} /\ \A w \in Workers : pc[w] = "off" /\ role[w] = "none" /\ outcome[w] = "none"
  BY DEF Init, NoBatch
<1>2. \A p \in Pages : page[p].status = "absent"
  BY DEF Init
<1>3. FirstCall
  BY <1>1, <1>2 DEF FirstCall
<1>4. Unharmed /\ ReviewOwed
  BY <1>1 DEF Unharmed, ReviewOwed, Drives
<1> QED BY <1>3, <1>4, CallInit DEF SoundInv

\* When the node comes to its report everything in the table is completed.
LEMMA SettledAtReport ==
    ASSUME SoundInv, NEW w \in Workers, role[w] = "invoke", pc[w] = "report"
    PROVE  Settled
<1>0. TypeOK /\ CallsOK /\ NoAbandonedPage /\ FirstCall /\ UnharmedBy(w)
  BY CareImplies DEF SoundInv, CallInv, CareInv, LeaseInv, Unharmed, Drives, Live, Terminal
<1>1. \A t : ~Unfinished(t)
  BY <1>0 DEF UnharmedBy, Unfinished
<1>2. ~\E u \in Workers : role[u] = "invoke" /\ pc[u] \in {"seed", "crashed"}
  BY <1>0 DEF CallsOK, FirstCall
<1> SUFFICES ASSUME NEW p \in Pages PROVE page[p].status \in {"passed", "awaiting_human_review"}
  BY DEF Settled
<1>3. page[p].status \notin {"pending", "evaluating", "revising"}
  BY <1>0, <1>1, <1>2 DEF NoAbandonedPage
<1>4. page[p].status \notin {"absent", "failed"}
  BY <1>0 DEF UnharmedBy
<1>5. page[p].status \in PageStatus
  BY <1>0, PageShape DEF PageRow
<1> QED BY <1>3, <1>4, <1>5 DEF PageStatus

\* What the executor tells the node is so (executor.py run), if one call at a time
\* executes tasks, none of them dies and no batch outlasts its lease: the loop ends
\* normally only with every page passed or escalated, and with a deadlock only over
\* a task that failed or was cancelled.
THEOREM OutcomesAreTrue ==
    ASSUME MaxOverruns = 0, OneExecutor, ~CanCrash
    PROVE  Spec => []OutcomeIsTrue
<1>1. SoundInv /\ DeadlockIsTrue /\ [Next]_vars => (SoundInv /\ DeadlockIsTrue)'
  BY SoundNext, DeadlockNext DEF SoundInv
<1>2. Init => SoundInv /\ DeadlockIsTrue
  BY SoundInit, CallInit
<1>3. SoundInv /\ DeadlockIsTrue => OutcomeIsTrue
  BY SettledAtReport DEF OutcomeIsTrue, DeadlockIsTrue
<1> QED BY <1>1, <1>2, <1>3, PTL DEF Spec

\* The step in which the node reports "passed" finds the review completed.
ReviewedStep ==
    \A w \in Workers :
        /\ role[w] = "invoke"
        /\ result[w] = "none"
        /\ result'[w] = "passed"
        => ReviewTask(Latest) \in DOMAIN tasks /\ tasks[ReviewTask(Latest)].status = "completed"

LEMMA ReviewedNext == SoundInv /\ [Next]_vars => ReviewedStep
<1> SUFFICES ASSUME SoundInv, [Next]_vars, NEW w \in Workers, role[w] = "invoke", result[w] = "none",
                    result'[w] = "passed"
             PROVE  ReviewTask(Latest) \in DOMAIN tasks /\ tasks[ReviewTask(Latest)].status = "completed"
  BY DEF ReviewedStep
<1>0. TypeOK
  BY DEF SoundInv, CallInv, CareInv, LeaseInv
<1>1. result' # result
  OBVIOUS
<1>2. PICK u \in Workers : Report(u)
  <2>1. ASSUME NEW u \in Workers, Start(u) \/ Crash(u) PROVE result' = result
    BY <2>1 DEF Start, StartInvoke, StartApprove, StartRequestChanges, StartReject, Crash
  <2>2. ASSUME NEW t \in DOMAIN tasks, LeaseExpires(t) PROVE result' = result
    BY <2>2 DEF LeaseExpires
  <2>3. ASSUME NEW u \in Workers, Step(u), ~Report(u) PROVE result' = result
    <3>1. ASSUME NEW t \in DOMAIN batch[u], HandlerStep(u, t) PROVE result' = result
      BY <3>1 DEF HandlerStep, WriterPrepare, WriterSeals, RecordArtifact, Promote, EvaluatorReads,
         RecordEvaluation, StoreEvaluation, EvaluatorRevises, EvaluatorCounts,
         EvaluatorEnqueuesReview, EnqueueReview, ReviewerReads, ReviewerClean, ReviewerCorrects,
         HandlerFails, control
    <3>2. ASSUME NEW t \in DOMAIN batch[u], CompleteTask(u, t) \/ RetryOrFailTask(u, t) PROVE result' = result
      BY <3>2 DEF CompleteTask, RetryOrFailTask, RetryOrFail, AfterSettling
    <3>3. CASE (\E p \in Pages : SeedPage(u, p)) \/ ResetExpiredLeases(u) \/ ClaimReadyTasks(u)
               \/ TakeSnapshot(u) \/ DecisionStep(u)
      BY <3>3 DEF SeedPage, ResetExpiredLeases, Recycle, ClaimReadyTasks, TakeSnapshot, DecisionStep,
         ApprovePage, Approve, ScheduleHumanRevisions, CancelPendingTasks, MarkEscalatedFailed
    <3> QED BY <2>3, <3>1, <3>2, <3>3 DEF Step, ExecutorStep
  <2> QED BY <1>1, <2>1, <2>2, <2>3 DEF Next, Quiet, vars
<1>3. u = w /\ pc[w] = "report" /\ AllPassed
  <2>1. pc[u] = "report" /\ \E r : result' = [result EXCEPT ![u] = r]
    BY <1>2 DEF Report
  <2>2. u = w
    BY <1>0, <2>1 DEF TypeOK, ControlOK
  <2>3. result'[w] = IF AllPassed THEN "passed" ELSE IF Settled THEN "ready_for_review" ELSE "not_ready"
    BY <1>0, <1>2, <2>2 DEF Report, TypeOK, ControlOK
  <2> QED BY <2>1, <2>2, <2>3
<1>4. UnharmedBy(w) /\ OwedBy(w)
  BY <1>3 DEF SoundInv, Unharmed, ReviewOwed, Drives, Live, Terminal
<1>5. \A t \in DOMAIN tasks : tasks[t].status = "completed"
  BY <1>3, <1>4 DEF UnharmedBy
<1>6. \A p \in Pages : ~Owes(w, p)
  BY <1>5 DEF Owes
<1> QED BY <1>3, <1>4, <1>5, <1>6 DEF OwedBy

\* The node reports "passed" only after a cross-page review of exactly the artifacts
\* it reports was completed (handlers.py _schedule_review_if_ready), if no call dies
\* and no batch outlasts its lease: the evaluation that lets the last page pass
\* enqueues that review itself, and the loop does not end before it.
THEOREM PassesReviewed ==
    ASSUME MaxOverruns = 0, ~CanCrash
    PROVE  Spec => PassedWasReviewed
<1>1. SoundInv /\ [Next]_vars => [ReviewedStep]_vars
  BY ReviewedNext
<1> QED BY <1>1, SoundInit, SoundNext, PTL DEF Spec, PassedWasReviewed, ReviewedStep
=============================================================================
