-------------------------- MODULE PageBudgetProofs --------------------------
(***************************************************************************)
(* The budget of automatic evaluations of PageWorkflow, for every set of   *)
(* pages and workers, whatever crashes and however many leases expire.     *)
(*                                                                         *)
(* A version's attempt number is fixed when its evaluate task is inserted. *)
(* BudgetInv says that these numbers never fall along a page's versions,   *)
(* grow strictly at every automatic one and stay in 1..MaxAttempts, that   *)
(* an artifact has one evaluation, and that the page row counts what the   *)
(* evaluation of its current artifact counted: the next number is computed *)
(* from that row.                                                          *)
(***************************************************************************)
EXTENDS PageWorkflowTypeProofs, FiniteSetTheorems

EvalTasks == {t \in DOMAIN tasks : t.kind = "evaluate"}

\* An artifact has one evaluation, which counts as its task says.
EvalsOK ==
    \A e \in evals :
        /\ EvaluateTask(e.page, e.version) \in DOMAIN tasks
        /\ e.attempt = tasks[EvaluateTask(e.page, e.version)].attempt
        /\ e.version <= page[e.page].latest
        /\ \A f \in evals : f.page = e.page /\ f.version = e.version => f = e

\* A page's attempts never fall from version to version, and an automatic
\* version has an attempt of its own.
AttemptsGrow ==
    \A t \in EvalTasks :
        /\ t.version <= page[t.page].latest + 1
        /\ tasks[t].attempt \in 1..MaxAttempts
        /\ EvaluateTask(t.page, 1) \in DOMAIN tasks
        /\ \A s \in EvalTasks : s.page = t.page /\ s.version < t.version =>
              /\ tasks[s].attempt <= tasks[t].attempt
              /\ ~tasks[t].human => tasks[s].attempt < tasks[t].attempt

\* What is revised was evaluated.
Evaluated == {"passed", "awaiting_human_review", "revising"}

PageCounts(p) ==
    LET v == page[p].latest
    IN /\ Stored(p, v) # {} => page[p].attempt = tasks[EvaluateTask(p, v)].attempt
       /\ page[p].status \in Evaluated => Stored(p, v) # {}

\* A reviewer decides on evaluated artifacts, an evaluator revises within the budget.
HandlerKnows(w, t) ==
    /\ batch[w][t].at = "verdict" => \A p \in Pages : Stored(p, batch[w][t].ver[p]) # {}
    /\ batch[w][t].at = "revise" => tasks[t].attempt < MaxAttempts /\ Stored(t.page, t.version) # {}

BudgetInv ==
    /\ TypeOK /\ EvalsOK /\ AttemptsGrow
    /\ \A p \in Pages : PageCounts(p)
    /\ \A w \in Workers : \A t \in DOMAIN batch[w] : HandlerKnows(w, t)

\* A step keeps what an existing row says of its attempt.
RowsKept ==
    /\ DOMAIN tasks \subseteq DOMAIN tasks'
    /\ \A t \in DOMAIN tasks : tasks'[t].attempt = tasks[t].attempt /\ tasks'[t].human = tasks[t].human

LatestGrows == \A p \in Pages : page[p].latest <= page'[p].latest

PageKept(p) ==
    /\ page'[p].latest = page[p].latest /\ page'[p].attempt = page[p].attempt
    /\ page'[p].status \in Evaluated => page[p].status \in Evaluated

\* No handler comes to a verdict or a revision.
HandlersQuiet ==
    \A w \in Workers : \A t \in DOMAIN batch'[w] :
        batch'[w][t].at \in {"verdict", "revise"} => t \in DOMAIN batch[w] /\ batch'[w][t] = batch[w][t]

LEMMA EvalTaskShape ==
    ASSUME TypeOK, NEW t \in EvalTasks
    PROVE  /\ t.page \in Pages /\ t.version \in Version /\ t = EvaluateTask(t.page, t.version)
           /\ t \in DOMAIN tasks /\ tasks[t] \in TaskRow /\ tasks[t].attempt \in Nat
<1>1. t \in DOMAIN tasks /\ t \in Task /\ t.kind = "evaluate" /\ tasks[t] \in TaskRow
  BY DEF TypeOK, TablesOK, TableOf, EvalTasks
<1>2. t \in PageTask  BY <1>1 DEF Task
<1> QED BY <1>1, <1>2 DEF PageTask, EvaluateTask, TaskRow

LEMMA EvaluateIsEval ==
    ASSUME NEW p, NEW v, EvaluateTask(p, v) \in DOMAIN tasks
    PROVE  EvaluateTask(p, v) \in EvalTasks
BY DEF EvalTasks, EvaluateTask

LEMMA NatOfPage ==
    ASSUME TypeOK, NEW p \in Pages
    PROVE  page[p] \in PageRow /\ page[p].latest \in Nat /\ page[p].attempt \in Nat
BY DEF TypeOK, TablesOK, PageRow

LEMMA EvalsKept ==
    ASSUME BudgetInv, TypeOK', RowsKept, evals' = evals, LatestGrows
    PROVE  EvalsOK'
<1> SUFFICES ASSUME NEW e \in evals
             PROVE  /\ EvaluateTask(e.page, e.version) \in DOMAIN tasks'
                    /\ e.attempt = tasks'[EvaluateTask(e.page, e.version)].attempt
                    /\ e.version <= page'[e.page].latest
                    /\ \A f \in evals : f.page = e.page /\ f.version = e.version => f = e
  BY DEF EvalsOK
<1>1. e.page \in Pages /\ e.version \in Nat  BY DEF BudgetInv, TypeOK, TablesOK, EvalRow, Version
<1>2. page[e.page].latest \in Nat /\ page'[e.page].latest \in Nat
  BY <1>1 DEF BudgetInv, TypeOK, TablesOK, PageRow
<1>3. e.version <= page[e.page].latest  BY DEF BudgetInv, EvalsOK
<1>4. page[e.page].latest <= page'[e.page].latest  BY <1>1 DEF LatestGrows
<1>5. e.version <= page'[e.page].latest  BY <1>1, <1>2, <1>3, <1>4
<1> QED BY <1>5 DEF BudgetInv, EvalsOK, RowsKept

LEMMA AttemptsKept ==
    ASSUME BudgetInv, TypeOK', RowsKept, EvalTasks' = EvalTasks, LatestGrows
    PROVE  AttemptsGrow'
<1> SUFFICES ASSUME NEW t \in EvalTasks
             PROVE  /\ t.version <= page'[t.page].latest + 1
                    /\ tasks'[t].attempt \in 1..MaxAttempts
                    /\ EvaluateTask(t.page, 1) \in DOMAIN tasks'
                    /\ \A s \in EvalTasks : s.page = t.page /\ s.version < t.version =>
                          /\ tasks'[s].attempt <= tasks'[t].attempt
                          /\ ~tasks'[t].human => tasks'[s].attempt < tasks'[t].attempt
  BY DEF AttemptsGrow
<1>0. AttemptsGrow /\ TypeOK  BY DEF BudgetInv
<1>1. t.page \in Pages /\ t.version \in Nat  BY <1>0, EvalTaskShape DEF Version
<1>2. page[t.page].latest \in Nat /\ page'[t.page].latest \in Nat
  BY <1>0, <1>1 DEF TypeOK, TablesOK, PageRow
<1>3. t.version <= page[t.page].latest + 1  BY <1>0 DEF AttemptsGrow
<1>4. page[t.page].latest <= page'[t.page].latest  BY <1>1 DEF LatestGrows
<1>5. t.version <= page'[t.page].latest + 1  BY <1>1, <1>2, <1>3, <1>4
<1>6. \A s \in EvalTasks : tasks'[s].attempt = tasks[s].attempt /\ tasks'[s].human = tasks[s].human
  BY DEF RowsKept, EvalTasks
<1> QED BY <1>0, <1>5, <1>6 DEF AttemptsGrow, RowsKept

LEMMA PageCountsKept ==
    ASSUME BudgetInv, RowsKept, evals' = evals, NEW p \in Pages, PageKept(p)
    PROVE  PageCounts(p)'
<1> DEFINE v == page[p].latest
<1>1. PageCounts(p) /\ EvalsOK  BY DEF BudgetInv
<1>2. page'[p].latest = v /\ Stored(p, v)' = Stored(p, v)  BY DEF PageKept, Stored
<1>3. Stored(p, v) # {} => EvaluateTask(p, v) \in DOMAIN tasks  BY <1>1 DEF EvalsOK, Stored
<1>4. Stored(p, v) # {} => tasks'[EvaluateTask(p, v)].attempt = tasks[EvaluateTask(p, v)].attempt
  BY <1>3 DEF RowsKept
<1> QED BY <1>1, <1>2, <1>4 DEF PageCounts, PageKept, Stored

LEMMA HandlerKept ==
    ASSUME BudgetInv, RowsKept, evals \subseteq evals', NEW w \in Workers, NEW t \in DOMAIN batch'[w],
           batch'[w][t].at \in {"verdict", "revise"} => t \in DOMAIN batch[w] /\ batch'[w][t] = batch[w][t]
    PROVE  HandlerKnows(w, t)'
<1>1. CASE batch'[w][t].at \notin {"verdict", "revise"}  BY <1>1 DEF HandlerKnows
<1>2. CASE t \in DOMAIN batch[w] /\ batch'[w][t] = batch[w][t]
  <2>1. HandlerKnows(w, t) /\ t \in DOMAIN tasks
    BY <1>2 DEF BudgetInv, TypeOK, BatchOK, TableOf
  <2>2. tasks'[t].attempt = tasks[t].attempt  BY <2>1 DEF RowsKept
  <2>3. \A p, v : Stored(p, v) # {} => Stored(p, v)' # {}  BY DEF Stored
  <2> QED BY <1>2, <2>1, <2>2, <2>3 DEF HandlerKnows
<1> QED BY <1>1, <1>2

\* A step that evaluates, promotes and schedules nothing.
LEMMA BudgetUntouched ==
    ASSUME BudgetInv, TypeOK', RowsKept, EvalTasks' = EvalTasks, evals' = evals,
           \A p \in Pages : PageKept(p), HandlersQuiet
    PROVE  BudgetInv'
<1>1. LatestGrows
  <2> SUFFICES ASSUME NEW p \in Pages PROVE page[p].latest <= page'[p].latest  BY DEF LatestGrows
  <2>1. page[p].latest \in Nat /\ page'[p].latest = page[p].latest
    BY NatOfPage DEF BudgetInv, PageKept
  <2> QED BY <2>1
<1>2. EvalsOK' /\ AttemptsGrow'  BY <1>1, EvalsKept, AttemptsKept
<1>3. \A p \in Pages : PageCounts(p)'  BY PageCountsKept
<1>4. ASSUME NEW w \in Workers, NEW t \in DOMAIN batch'[w] PROVE HandlerKnows(w, t)'
  BY HandlerKept DEF HandlersQuiet
<1> QED BY <1>2, <1>3, <1>4 DEF BudgetInv

LEMMA RowsUpdated ==
    ASSUME DOMAIN tasks' = DOMAIN tasks,
           \A t \in DOMAIN tasks : tasks'[t].attempt = tasks[t].attempt /\ tasks'[t].human = tasks[t].human
    PROVE  RowsKept /\ EvalTasks' = EvalTasks
BY DEF RowsKept, EvalTasks

LEMMA BudgetKept ==
    ASSUME BudgetInv, TypeOK', RowsKept, EvalTasks' = EvalTasks, UNCHANGED <<page, evals>>, HandlersQuiet
    PROVE  BudgetInv'
<1>1. \A p \in Pages : PageKept(p)  BY DEF PageKept
<1> QED BY <1>1, BudgetUntouched

LEMMA AdvanceQuiet ==
    ASSUME BatchOK, NEW w \in Workers, NEW t \in DOMAIN batch[w],
           NEW label \in HandlerAt \ {"verdict", "revise"}, Advance(w, t, label)
    PROVE  HandlersQuiet
<1>1. batch'[w] = [batch[w] EXCEPT ![t].at = label] /\ \A u \in Workers \ {w} : batch'[u] = batch[u]
  BY DEF BatchOK, Advance
<1>2. batch[w][t] \in Handler /\ DOMAIN batch'[w] = DOMAIN batch[w]
  BY <1>1 DEF BatchOK, TableOf
<1>3. batch'[w][t].at = label /\ \A s \in DOMAIN batch[w] \ {t} : batch'[w][s] = batch[w][s]
  BY <1>1, <1>2 DEF Handler
<1> QED BY <1>1, <1>2, <1>3 DEF HandlersQuiet

\* The scheduling loop evaluates nothing and schedules nothing.
LEMMA BudgetExecutor ==
    ASSUME BudgetInv, TypeOK', NEW w \in Workers,
           Report(w) \/ ResetExpiredLeases(w) \/ ClaimReadyTasks(w) \/ TakeSnapshot(w)
    PROVE  BudgetInv'
<1>0. TypeOK /\ BatchOK /\ \A t \in DOMAIN tasks : tasks[t] \in TaskRow
  BY DEF BudgetInv, TypeOK, TablesOK, TableOf
<1>1. CASE Report(w) \/ TakeSnapshot(w)
  <2>1. UNCHANGED <<page, evals, tasks, batch>>  BY <1>1 DEF Report, TakeSnapshot
  <2> QED BY <2>1, RowsUpdated, BudgetKept DEF HandlersQuiet
<1>2. CASE ResetExpiredLeases(w)
  <2>1. UNCHANGED <<page, evals, batch>>  BY <1>2 DEF ResetExpiredLeases, Recycle
  <2>2. DOMAIN tasks' = DOMAIN tasks  BY <1>2 DEF ResetExpiredLeases, Recycle
  <2>3. ASSUME NEW t \in DOMAIN tasks
        PROVE  tasks'[t].attempt = tasks[t].attempt /\ tasks'[t].human = tasks[t].human
    <3>1. \/ tasks'[t] = tasks[t]
          \/ tasks'[t] = [tasks[t] EXCEPT !.status = "pending", !.owner = "none", !.lease = "none"]
      BY <1>2 DEF ResetExpiredLeases, Recycle
    <3> QED BY <1>0, <3>1 DEF TaskRow
  <2> QED BY <2>1, <2>2, <2>3, RowsUpdated, BudgetKept DEF HandlersQuiet
<1>3. CASE ClaimReadyTasks(w)
  <2>1. UNCHANGED <<page, evals>>  BY <1>3 DEF ClaimReadyTasks
  <2>2. PICK claimed \in SUBSET DOMAIN tasks :
          /\ tasks' = [t \in DOMAIN tasks |->
                         IF t \in claimed
                         THEN [tasks[t] EXCEPT !.status = "running",
                                               !.owner = LeaseOwner(w), !.lease = "live"]
                         ELSE tasks[t]]
          /\ batch' = [batch EXCEPT ![w] = [t \in claimed |-> Fresh]]
    BY <1>3 DEF ClaimReadyTasks
  <2>3. DOMAIN tasks' = DOMAIN tasks  BY <2>2
  <2>4. ASSUME NEW t \in DOMAIN tasks
        PROVE  tasks'[t].attempt = tasks[t].attempt /\ tasks'[t].human = tasks[t].human
    <3>1. \/ tasks'[t] = tasks[t]
          \/ tasks'[t] = [tasks[t] EXCEPT !.status = "running", !.owner = LeaseOwner(w), !.lease = "live"]
      BY <2>2
    <3> QED BY <1>0, <3>1 DEF TaskRow
  <2>5. HandlersQuiet
    <3>1. batch'[w] = [t \in claimed |-> Fresh] /\ \A u \in Workers \ {w} : batch'[u] = batch[u]
      BY <1>0, <2>2 DEF BatchOK
    <3>2. \A t \in DOMAIN batch'[w] : batch'[w][t].at = "ready"  BY <3>1 DEF Fresh
    <3> QED BY <3>1, <3>2 DEF HandlersQuiet
  <2> QED BY <2>1, <2>3, <2>4, <2>5, RowsUpdated, BudgetKept
<1> QED BY <1>1, <1>2, <1>3

\* A task's outcome says nothing of its attempt.
LEMMA BudgetSettle ==
    ASSUME BudgetInv, TypeOK', NEW w \in Workers, NEW t \in DOMAIN batch[w],
           CompleteTask(w, t) \/ RetryOrFailTask(w, t)
    PROVE  BudgetInv'
<1>0. TypeOK /\ BatchOK  BY DEF BudgetInv, TypeOK
<1>1. t \in DOMAIN tasks /\ tasks[t] \in TaskRow  BY <1>0, HeldTask
<1>2. PICK failed : AfterSettling(w, t, failed)
  BY DEF CompleteTask, RetryOrFailTask, RetryOrFail
<1>3. UNCHANGED <<page, evals>> /\ batch' = [batch EXCEPT ![w] = Without(batch[w], t)]
  BY <1>2 DEF AfterSettling
<1>4. HandlersQuiet
  <2>1. batch'[w] = Without(batch[w], t) /\ \A u \in Workers \ {w} : batch'[u] = batch[u]
    BY <1>0, <1>3 DEF BatchOK
  <2>2. \A s \in DOMAIN batch'[w] : s \in DOMAIN batch[w] /\ batch'[w][s] = batch[w][s]
    BY <2>1 DEF Without
  <2> QED BY <2>1, <2>2 DEF HandlersQuiet
<1>5. PICK row :
        /\ row.attempt = tasks[t].attempt /\ row.human = tasks[t].human
        /\ tasks' = tasks \/ tasks' = [tasks EXCEPT ![t] = row]
  <2>1. CASE CompleteTask(w, t)
    <3> DEFINE row == [tasks[t] EXCEPT !.status = "completed"]
    <3>1. row.attempt = tasks[t].attempt /\ row.human = tasks[t].human  BY <1>1 DEF TaskRow
    <3>2. tasks' = tasks \/ tasks' = [tasks EXCEPT ![t] = row]  BY <1>1, <2>1 DEF CompleteTask
    <3> QED BY <3>1, <3>2
  <2>2. CASE RetryOrFailTask(w, t)
    <3> DEFINE s == IF tasks[t].retries < 1 THEN "pending" ELSE "failed"
    <3> DEFINE row == [tasks[t] EXCEPT !.status = s, !.retries = 1, !.owner = "none", !.lease = "none"]
    <3>1. row.attempt = tasks[t].attempt /\ row.human = tasks[t].human  BY <1>1 DEF TaskRow
    <3>2. tasks' = tasks \/ tasks' = [tasks EXCEPT ![t] = row]
      BY <1>1, <2>2 DEF RetryOrFailTask, RetryOrFail
    <3> QED BY <3>1, <3>2
  <2> QED BY <2>1, <2>2
<1>6. DOMAIN tasks' = DOMAIN tasks  BY <1>5
<1>7. \A s \in DOMAIN tasks : tasks'[s].attempt = tasks[s].attempt /\ tasks'[s].human = tasks[s].human
  BY <1>1, <1>5
<1> QED BY <1>3, <1>4, <1>6, <1>7, RowsUpdated, BudgetKept

\* Decisions change the status of pages, a rejection that of tasks.
LEMMA BudgetDecision ==
    ASSUME BudgetInv, TypeOK', NEW w \in Workers,
           \/ Start(w) \/ (\E p \in Pages : ApprovePage(w, p))
           \/ CancelPendingTasks(w) \/ MarkEscalatedFailed(w)
    PROVE  BudgetInv'
<1>0. /\ TypeOK /\ BatchOK /\ page = [p \in Pages |-> page[p]]
      /\ \A t \in DOMAIN tasks : tasks[t] \in TaskRow
      /\ \A p \in Pages : page[p] \in PageRow
  BY DEF BudgetInv, TypeOK, TablesOK, TableOf
<1>1. CASE StartApprove(w) \/ StartRequestChanges(w) \/ StartReject(w)
  <2>1. UNCHANGED <<page, evals, tasks, batch>>
    BY <1>1 DEF StartApprove, StartRequestChanges, StartReject
  <2> QED BY <2>1, RowsUpdated, BudgetKept DEF HandlersQuiet
<1>2. ASSUME UNCHANGED <<evals, tasks, batch>>,
             \A p \in Pages : \/ page'[p] = page[p]
                              \/ page[p].status \in Evaluated /\ page'[p] = [page[p] EXCEPT !.status = "passed"]
                              \/ page'[p] = [page[p] EXCEPT !.status = "pending"]
                              \/ page'[p] = [page[p] EXCEPT !.status = "failed"]
      PROVE  BudgetInv'
  <2>1. ASSUME NEW p \in Pages PROVE PageKept(p)
    BY <1>0, <1>2 DEF PageKept, PageRow, Evaluated
  <2> QED BY <1>2, <2>1, RowsUpdated, BudgetUntouched DEF HandlersQuiet
<1>3. CASE StartInvoke(w)
  <2>1. UNCHANGED <<evals, tasks, batch>>  BY <1>3 DEF StartInvoke
  <2>2. \A p \in Pages : page'[p] = page[p] \/ page'[p] = [page[p] EXCEPT !.status = "pending"]
    BY <1>3 DEF StartInvoke
  <2> QED BY <1>2, <2>1, <2>2
<1>4. CASE \E p \in Pages : ApprovePage(w, p)
  <2> PICK p \in Pages : ApprovePage(w, p)  BY <1>4
  <2>1. UNCHANGED <<evals, tasks, batch>>  BY DEF ApprovePage, Approve
  <2>2. \/ page' = page
        \/ page[p].status = "awaiting_human_review" /\ page' = [page EXCEPT ![p].status = "passed"]
    BY DEF ApprovePage, Approve
  <2>3. \A q \in Pages : \/ page'[q] = page[q]
                         \/ page[q].status \in Evaluated /\ page'[q] = [page[q] EXCEPT !.status = "passed"]
    BY <1>0, <2>2 DEF Evaluated
  <2> QED BY <1>2, <2>1, <2>3
<1>5. CASE MarkEscalatedFailed(w)
  <2>1. UNCHANGED <<evals, tasks, batch>>  BY <1>5 DEF MarkEscalatedFailed
  <2>2. \A p \in Pages : page'[p] = page[p] \/ page'[p] = [page[p] EXCEPT !.status = "failed"]
    BY <1>5 DEF MarkEscalatedFailed
  <2> QED BY <1>2, <2>1, <2>2
<1>6. CASE CancelPendingTasks(w)
  <2>1. UNCHANGED <<page, evals, batch>>  BY <1>6 DEF CancelPendingTasks
  <2>2. DOMAIN tasks' = DOMAIN tasks  BY <1>6 DEF CancelPendingTasks
  <2>3. ASSUME NEW t \in DOMAIN tasks
        PROVE  tasks'[t].attempt = tasks[t].attempt /\ tasks'[t].human = tasks[t].human
    <3>1. tasks'[t] = tasks[t] \/ tasks'[t] = [tasks[t] EXCEPT !.status = "cancelled"]
      BY <1>6 DEF CancelPendingTasks
    <3> QED BY <1>0, <3>1 DEF TaskRow
  <2> QED BY <2>1, <2>2, <2>3, RowsUpdated, BudgetKept DEF HandlersQuiet
<1> QED BY <1>1, <1>3, <1>4, <1>5, <1>6 DEF Start

\* Time and death.
LEMMA BudgetEnvironment ==
    ASSUME BudgetInv, TypeOK',
           (\E w \in Workers : Crash(w)) \/ (\E t \in DOMAIN tasks : LeaseExpires(t))
    PROVE  BudgetInv'
<1>0. TypeOK /\ BatchOK /\ \A t \in DOMAIN tasks : tasks[t] \in TaskRow
  BY DEF BudgetInv, TypeOK, TablesOK, TableOf
<1>1. ASSUME NEW w \in Workers, Crash(w) PROVE BudgetInv'
  <2>1. UNCHANGED <<page, evals, tasks>> /\ batch' = [batch EXCEPT ![w] = NoBatch]
    BY <1>1 DEF Crash, tables
  <2>2. DOMAIN batch'[w] = {} /\ \A u \in Workers \ {w} : batch'[u] = batch[u]
    BY <1>0, <2>1 DEF BatchOK, NoBatch
  <2> QED BY <2>1, <2>2, RowsUpdated, BudgetKept DEF HandlersQuiet
<1>2. ASSUME NEW t \in DOMAIN tasks, LeaseExpires(t) PROVE BudgetInv'
  <2>1. UNCHANGED <<page, evals, batch>> /\ tasks' = [tasks EXCEPT ![t].lease = "expired"]
    BY <1>2 DEF LeaseExpires
  <2>2. DOMAIN tasks' = DOMAIN tasks  BY <2>1
  <2>3. \A s \in DOMAIN tasks : tasks'[s].attempt = tasks[s].attempt /\ tasks'[s].human = tasks[s].human
    BY <1>0, <2>1 DEF TaskRow
  <2> QED BY <2>1, <2>2, <2>3, RowsUpdated, BudgetKept DEF HandlersQuiet
<1> QED BY <1>1, <1>2

LEMMA RememberQuiet ==
    ASSUME BatchOK, NEW w \in Workers, NEW t \in DOMAIN batch[w], NEW h,
           h.at \notin {"verdict", "revise"}, batch' = [batch EXCEPT ![w][t] = h]
    PROVE  HandlersQuiet
<1>1. batch'[w] = [batch[w] EXCEPT ![t] = h] /\ \A u \in Workers \ {w} : batch'[u] = batch[u]
  BY DEF BatchOK
<1>2. DOMAIN batch'[w] = DOMAIN batch[w] /\ batch'[w][t] = h
      /\ \A s \in DOMAIN batch[w] \ {t} : batch'[w][s] = batch[w][s]
  BY <1>1
<1> QED BY <1>1, <1>2 DEF HandlersQuiet

\* Handler steps that neither evaluate, promote nor schedule a page.
LEMMA BudgetQuietHandler ==
    ASSUME BudgetInv, TypeOK', NEW w \in Workers, NEW t \in DOMAIN batch[w],
           \/ WriterPrepare(w, t) \/ WriterSeals(w, t) \/ EvaluatorReads(w, t) \/ EvaluatorCounts(w, t)
           \/ EvaluatorEnqueuesReview(w, t) \/ ReviewerClean(w, t) \/ HandlerFails(w, t)
    PROVE  BudgetInv'
<1>0. TypeOK /\ BatchOK /\ batch[w][t] \in Handler
  BY HeldTask DEF BudgetInv, TypeOK
<1>a. {"writing", "promote", "replay", "record", "count", "enqueue", "ok", "error"}
        \subseteq HandlerAt \ {"verdict", "revise"}
  BY DEF HandlerAt
<1>b. ASSUME NEW label \in HandlerAt \ {"verdict", "revise"}, Advance(w, t, label),
             UNCHANGED <<page, evals, tasks>>
      PROVE  BudgetInv'
  BY <1>0, <1>b, AdvanceQuiet, RowsUpdated, BudgetKept
<1>1. CASE WriterPrepare(w, t)
  <2>1. \E label \in HandlerAt \ {"verdict", "revise"} : Advance(w, t, label)
    BY <1>1, <1>a DEF WriterPrepare
  <2> QED BY <1>1, <1>b, <2>1 DEF WriterPrepare, tables
<1>2. CASE WriterSeals(w, t)  BY <1>2, <1>a, <1>b DEF WriterSeals
<1>3. CASE EvaluatorReads(w, t)
  <2>1. \E label \in HandlerAt \ {"verdict", "revise"} : Advance(w, t, label)
    BY <1>3, <1>a DEF EvaluatorReads
  <2> QED BY <1>3, <1>b, <2>1 DEF EvaluatorReads, tables
<1>4. CASE EvaluatorCounts(w, t)
  <2>1. UNCHANGED <<page, evals, tasks>>  BY <1>4 DEF EvaluatorCounts, tables
  <2> DEFINE h == IF AllPassed THEN [batch[w][t] EXCEPT !.at = "enqueue", !.ver = Latest]
                               ELSE [batch[w][t] EXCEPT !.at = "ok"]
  <2>2. batch' = [batch EXCEPT ![w][t] = h]  BY <1>4 DEF EvaluatorCounts
  <2>3. h.at \in {"enqueue", "ok"}  BY <1>0 DEF Handler
  <2>4. h.at \notin {"verdict", "revise"}  BY <2>3
  <2> HIDE DEF h
  <2> QED BY <1>0, <2>1, <2>2, <2>4, RememberQuiet, RowsUpdated, BudgetKept
<1>5. CASE EvaluatorEnqueuesReview(w, t)
  <2>1. UNCHANGED <<page, evals>>  BY <1>5 DEF EvaluatorEnqueuesReview, EnqueueReview
  <2>2. Advance(w, t, "ok") \/ Advance(w, t, "error")  BY <1>5 DEF EvaluatorEnqueuesReview, EnqueueReview
  <2>3. HandlersQuiet  BY <1>0, <1>a, <2>2, AdvanceQuiet
  <2>4. CASE tasks' = tasks  BY <2>1, <2>3, <2>4, RowsUpdated, BudgetKept
  <2>5. CASE tasks' # tasks
    <3> DEFINE id == ReviewTask(batch[w][t].ver)
    <3> DEFINE rows == [r \in {id} |-> NewRow({t}, 0, FALSE, 0)]
    <3>1. tasks' = Enqueue(rows)  BY <1>5, <2>5 DEF EvaluatorEnqueuesReview, EnqueueReview
    <3>2. id.kind = "cross_page_review"  BY DEF ReviewTask
    <3>3. DOMAIN tasks' = DOMAIN tasks \cup {id}  BY <3>1 DEF Enqueue
    <3>4. \A s \in DOMAIN tasks : tasks'[s] = tasks[s]  BY <3>1 DEF Enqueue
    <3> HIDE DEF id, rows
    <3>5. RowsKept  BY <3>3, <3>4 DEF RowsKept
    <3>6. EvalTasks' = EvalTasks  BY <3>2, <3>3 DEF EvalTasks
    <3> QED BY <2>1, <2>3, <3>5, <3>6, BudgetKept
  <2> QED BY <2>4, <2>5
<1>6. CASE ReviewerClean(w, t)  BY <1>6, <1>a, <1>b DEF ReviewerClean, tables
<1>7. CASE HandlerFails(w, t)  BY <1>7, <1>a, <1>b DEF HandlerFails, tables
<1> QED BY <1>1, <1>2, <1>3, <1>4, <1>5, <1>6, <1>7

\* record_artifact: the version that becomes current is the evaluated one, or
\* one nobody evaluated yet.
LEMMA BudgetRecordArtifact ==
    ASSUME BudgetInv, TypeOK', NEW w \in Workers, NEW t \in DOMAIN batch[w], RecordArtifact(w, t)
    PROVE  BudgetInv'
<1>0. /\ TypeOK /\ BatchOK /\ page = [p \in Pages |-> page[p]] /\ EvalsOK
      /\ \A p \in Pages : PageCounts(p) /\ page[p] \in PageRow
  BY DEF BudgetInv, TypeOK, TablesOK
<1>1. t.page \in Pages /\ t.version \in Version
  BY <1>0, HeldTask DEF RecordArtifact, Promote
<1>2. UNCHANGED <<evals, tasks>> /\ (Advance(w, t, "ok") \/ Advance(w, t, "error"))
  BY DEF RecordArtifact, Promote
<1>3. HandlersQuiet
  <2>1. {"ok", "error"} \subseteq HandlerAt \ {"verdict", "revise"}  BY DEF HandlerAt
  <2> QED BY <1>0, <1>2, <2>1, AdvanceQuiet
<1>4. RowsKept /\ EvalTasks' = EvalTasks  BY <1>2, RowsUpdated
<1>5. CASE page' = page  BY <1>2, <1>3, <1>4, <1>5, BudgetKept
<1>6. CASE page' # page
  <2> DEFINE p == t.page
  <2>1. /\ page' = [page EXCEPT ![p].latest = t.version, ![p].status = "evaluating"]
        /\ page[p].latest <= t.version
    BY <1>6 DEF RecordArtifact, Promote
  <2>2. page'[p].latest = t.version /\ page'[p].status = "evaluating" /\ page'[p].attempt = page[p].attempt
    BY <1>0, <1>1, <2>1 DEF PageRow
  <2>3. \A q \in Pages \ {p} : page'[q] = page[q]  BY <1>0, <1>1, <2>1
  <2>4. page[p].latest \in Nat /\ t.version \in Nat  BY <1>0, <1>1 DEF PageRow, Version
  <2>5. LatestGrows
    <3> SUFFICES ASSUME NEW q \in Pages PROVE page[q].latest <= page'[q].latest  BY DEF LatestGrows
    <3>1. page[q].latest \in Nat  BY <1>0 DEF PageRow
    <3>2. CASE q = p  BY <2>1, <2>2, <3>2
    <3>3. CASE q # p
      <4>1. page'[q] = page[q]  BY <2>3, <3>3
      <4> HIDE DEF p
      <4> QED BY <3>1, <4>1
    <3> QED BY <3>2, <3>3
  <2>6. EvalsOK' /\ AttemptsGrow'  BY <1>2, <1>4, <2>5, EvalsKept, AttemptsKept
  <2>7. PageCounts(p)'
    <3>1. \A v : Stored(p, v)' = Stored(p, v)  BY <1>2 DEF Stored
    <3>2. CASE page[p].latest = t.version
      BY <1>0, <1>1, <1>2, <2>2, <3>1, <3>2 DEF PageCounts, Evaluated
    <3>3. CASE page[p].latest # t.version
      <4>1. Stored(p, t.version) = {}
        <5> SUFFICES ASSUME NEW e \in evals, e.page = p, e.version = t.version PROVE FALSE  BY DEF Stored
        <5>1. t.version <= page[p].latest  BY <1>0 DEF EvalsOK
        <5> QED BY <2>1, <2>4, <3>3, <5>1
      <4> QED BY <1>2, <2>2, <3>1, <4>1 DEF PageCounts, Evaluated
    <3> QED BY <3>2, <3>3
  <2>8. ASSUME NEW q \in Pages \ {p} PROVE PageCounts(q)'
    <3>1. PageKept(q)  BY <2>3 DEF PageKept
    <3> QED BY <1>2, <1>4, <3>1, PageCountsKept
  <2>9. ASSUME NEW u \in Workers, NEW s \in DOMAIN batch'[u] PROVE HandlerKnows(u, s)'
    BY <1>2, <1>3, <1>4, HandlerKept DEF HandlersQuiet
  <2> QED BY <2>6, <2>7, <2>8, <2>9 DEF BudgetInv
<1> QED BY <1>5, <1>6

\* record_evaluation: an artifact that is evaluated again keeps its first
\* evaluation, and the page counts what that one counted.
LEMMA BudgetRecordEvaluation ==
    ASSUME BudgetInv, TypeOK', NEW w \in Workers, NEW t \in DOMAIN batch[w], RecordEvaluation(w, t)
    PROVE  BudgetInv'
<1>0. /\ TypeOK /\ BatchOK /\ page = [p \in Pages |-> page[p]] /\ EvalsOK
      /\ \A p \in Pages : PageCounts(p) /\ page[p] \in PageRow
      /\ evals \subseteq EvalRow /\ batch[w][t] \in Handler
  BY HeldTask DEF BudgetInv, TypeOK, TablesOK
<1>1. t \in DOMAIN tasks /\ t.kind = "evaluate" /\ tasks[t] \in TaskRow
  BY <1>0, HeldTask DEF RecordEvaluation, StoreEvaluation
<1>2. t \in EvalTasks  BY <1>1 DEF EvalTasks
<1>3. t.page \in Pages /\ t.version \in Version /\ t = EvaluateTask(t.page, t.version)
      /\ tasks[t].attempt \in Nat
  BY <1>0, <1>2, EvalTaskShape
<1>4. UNCHANGED tasks  BY DEF RecordEvaluation, StoreEvaluation
<1>5. RowsKept /\ EvalTasks' = EvalTasks  BY <1>4, RowsUpdated
<1>6. CASE page[t.page].latest # t.version
  <2>1. UNCHANGED <<page, evals>> /\ Advance(w, t, "error")
    BY <1>6 DEF RecordEvaluation, StoreEvaluation
  <2>2. "error" \in HandlerAt \ {"verdict", "revise"}  BY DEF HandlerAt
  <2> QED BY <1>0, <1>5, <2>1, <2>2, AdvanceQuiet, BudgetKept
<1>7. CASE page[t.page].latest = t.version
  <2> DEFINE p == t.page
  <2> DEFINE v == t.version
  <2> DEFINE row == [page |-> p, version |-> v, attempt |-> tasks[t].attempt, status |-> Verdict(t)]
  <2>1. PICK e \in (IF Stored(p, v) = {} THEN {row} ELSE Stored(p, v)), label \in HandlerAt :
          /\ evals' = evals \cup {e}
          /\ page' = [page EXCEPT
               ![p].attempt = IF e.status \in EvalStatus THEN e.attempt ELSE @,
               ![p].status = IF e.status = "revision_required" THEN "revising" ELSE e.status]
          /\ Advance(w, t, label)
          /\ label \in {"revise", "count", "ok"}
          /\ label = "revise" => Verdict(t) = "revision_required"
    <3>1. PICK e \in (IF Stored(p, v) = {} THEN {row} ELSE Stored(p, v)) :
          /\ evals' = evals \cup {e}
          /\ page' = [page EXCEPT
               ![p].attempt = IF e.status \in EvalStatus THEN e.attempt ELSE @,
               ![p].status = IF e.status = "revision_required" THEN "revising" ELSE e.status]
          /\ Advance(w, t, IF FALSE /\ Stored(p, v) # {} THEN "ok"
                           ELSE IF row.status = "revision_required" THEN "revise"
                           ELSE IF row.status = "passed" THEN "count"
                           ELSE "ok")
      BY <1>7 DEF RecordEvaluation, StoreEvaluation
    <3> DEFINE label == IF FALSE /\ Stored(p, v) # {} THEN "ok"
                        ELSE IF row.status = "revision_required" THEN "revise"
                        ELSE IF row.status = "passed" THEN "count"
                        ELSE "ok"
    <3>2. label \in {"revise", "count", "ok"} /\ (label = "revise" => Verdict(t) = "revision_required")
      OBVIOUS
    <3>3. label \in HandlerAt  BY <3>2 DEF HandlerAt
    <3> QED BY <3>1, <3>2, <3>3
  <2>2. row \in EvalRow /\ row.page = p /\ row.version = v /\ row.attempt = tasks[t].attempt
    BY <1>1, <1>3 DEF EvalRow, EvalStatus, Verdict, TaskRow
  <2>3. e \in EvalRow /\ e.page = p /\ e.version = v /\ e.attempt = tasks[t].attempt
    <3>1. CASE Stored(p, v) = {}  BY <2>1, <2>2, <3>1
    <3>2. CASE Stored(p, v) # {}
      <4>1. e \in evals /\ e.page = p /\ e.version = v  BY <2>1, <3>2 DEF Stored
      <4> QED BY <1>0, <1>3, <4>1 DEF EvalsOK
    <3> QED BY <3>1, <3>2
  <2>4. \A f \in evals : f.page = p /\ f.version = v => f = e
    <3>1. CASE Stored(p, v) = {}  BY <3>1 DEF Stored
    <3>2. CASE Stored(p, v) # {}
      <4>1. e \in evals  BY <2>1, <3>2 DEF Stored
      <4> QED BY <1>0, <2>3, <4>1 DEF EvalsOK
    <3> QED BY <3>1, <3>2
  <2>5. evals' = evals \cup {e}  BY <2>1
  <2>6. /\ page'[p].latest = page[p].latest /\ page'[p].attempt = e.attempt
        /\ \A q \in Pages \ {p} : page'[q] = page[q]
    <3>1. e.status \in EvalStatus  BY <2>3 DEF EvalRow
    <3> QED BY <1>0, <1>3, <2>1, <3>1 DEF PageRow
  <2> HIDE DEF row
  <2>7. LatestGrows
    <3> SUFFICES ASSUME NEW q \in Pages PROVE page[q].latest <= page'[q].latest  BY DEF LatestGrows
    <3>1. page[q].latest \in Nat  BY <1>0 DEF PageRow
    <3>2. page'[q].latest = page[q].latest  BY <2>6
    <3> QED BY <3>1, <3>2
  <2>8. AttemptsGrow'  BY <1>5, <2>7, AttemptsKept
  <2>9. EvalsOK'
    <3> SUFFICES ASSUME NEW f \in evals'
                 PROVE  /\ EvaluateTask(f.page, f.version) \in DOMAIN tasks
                        /\ f.attempt = tasks[EvaluateTask(f.page, f.version)].attempt
                        /\ f.version <= page'[f.page].latest
                        /\ \A g \in evals' : g.page = f.page /\ g.version = f.version => g = f
      BY <1>4 DEF EvalsOK
    <3>1. CASE f = e
      <4>1. f.version <= page'[f.page].latest
        <5>1. page'[p].latest = v /\ v \in Nat  BY <1>3, <1>7, <2>6 DEF Version
        <5> HIDE DEF p, v
        <5> QED BY <2>3, <3>1, <5>1
      <4>2. EvaluateTask(f.page, f.version) = t  BY <1>3, <2>3, <3>1
      <4> QED BY <1>1, <2>3, <2>4, <2>5, <3>1, <4>1, <4>2
    <3>2. CASE f # e
      <4>1. f \in evals /\ f.page \in Pages  BY <1>0, <2>5, <3>2 DEF EvalRow
      <4>2. page'[f.page].latest = page[f.page].latest  BY <2>6, <4>1
      <4>3. ASSUME NEW g \in evals', g.page = f.page, g.version = f.version PROVE g = f
        <5>1. CASE g = e
          <6>1. f.page = p /\ f.version = v  BY <2>3, <4>3, <5>1
          <6> QED BY <2>4, <3>2, <4>1, <6>1
        <5>2. CASE g \in evals  BY <1>0, <4>1, <4>3, <5>2 DEF EvalsOK
        <5> QED BY <2>5, <5>1, <5>2
      <4> QED BY <1>0, <4>1, <4>2, <4>3 DEF EvalsOK
    <3> QED BY <3>1, <3>2
  <2>10. PageCounts(p)'
    <3>1. e \in Stored(p, v)'  BY <2>3, <2>5 DEF Stored
    <3>2. page'[p].latest = v  BY <1>7, <2>6
    <3>3. page'[p].attempt = tasks'[EvaluateTask(p, v)].attempt  BY <1>3, <1>4, <2>3, <2>6
    <3> HIDE DEF p, v
    <3> QED BY <3>1, <3>2, <3>3 DEF PageCounts, Stored
  <2>11. ASSUME NEW q \in Pages \ {p} PROVE PageCounts(q)'
    <3>1. \A u : Stored(q, u)' = Stored(q, u)  BY <2>3, <2>5 DEF Stored
    <3>2. page'[q] = page[q] /\ PageCounts(q)  BY <1>0, <2>6
    <3> QED BY <1>4, <3>1, <3>2 DEF PageCounts, Stored
  <2>12. ASSUME NEW u \in Workers, NEW s \in DOMAIN batch'[u] PROVE HandlerKnows(u, s)'
    <3>1. batch'[w] = [batch[w] EXCEPT ![t].at = label] /\ \A x \in Workers \ {w} : batch'[x] = batch[x]
      BY <1>0, <2>1 DEF BatchOK, Advance
    <3>2. CASE u = w /\ s = t
      <4>1. batch'[w][t].at = label  BY <1>0, <3>1 DEF Handler
      <4>2. label = "revise" => tasks'[t].attempt < MaxAttempts
        <5> SUFFICES ASSUME Verdict(t) = "revision_required" PROVE tasks[t].attempt < MaxAttempts
          BY <1>4, <2>1
        <5>1. ~(tasks[t].attempt >= MaxAttempts)  BY DEF Verdict
        <5> QED BY <1>3, <5>1, BudgetAssumption
      <4>3. e \in Stored(t.page, t.version)'  BY <2>3, <2>5 DEF Stored
      <4> QED BY <2>1, <3>2, <4>1, <4>2, <4>3 DEF HandlerKnows
    <3>3. CASE ~(u = w /\ s = t)
      <4>1. s \in DOMAIN batch[u] /\ batch'[u][s] = batch[u][s]  BY <3>1, <3>3
      <4> QED BY <1>5, <2>5, <4>1, HandlerKept
    <3> QED BY <3>2, <3>3
  <2> QED BY <2>8, <2>9, <2>10, <2>11, <2>12 DEF BudgetInv
<1> QED BY <1>6, <1>7

\* The reviewer reads pages that were all evaluated.
LEMMA BudgetReviewerReads ==
    ASSUME BudgetInv, TypeOK', NEW w \in Workers, NEW t \in DOMAIN batch[w], ReviewerReads(w, t)
    PROVE  BudgetInv'
<1>0. TypeOK /\ BatchOK /\ batch[w][t] \in Handler /\ \A p \in Pages : PageCounts(p)
  BY HeldTask DEF BudgetInv, TypeOK
<1>1. UNCHANGED <<page, evals, tasks>>  BY DEF ReviewerReads, tables
<1>2. RowsKept /\ EvalTasks' = EvalTasks  BY <1>1, RowsUpdated
<1>3. CASE ~Reviewable(t)
  <2> DEFINE h == [batch[w][t] EXCEPT !.at = "error"]
  <2>1. batch' = [batch EXCEPT ![w][t] = h]  BY <1>3 DEF ReviewerReads
  <2>2. h.at = "error"  BY <1>0 DEF Handler
  <2> HIDE DEF h
  <2> QED BY <1>0, <1>1, <1>2, <2>1, <2>2, RememberQuiet, BudgetKept
<1>4. CASE Reviewable(t)
  <2>0. PICK h : h = [at |-> "verdict", ver |-> Latest, att |-> [p \in Pages |-> page[p].attempt]]
    OBVIOUS
  <2>1. batch' = [batch EXCEPT ![w][t] = h]  BY <1>4, <2>0 DEF ReviewerReads
  <2>2. h.at = "verdict" /\ \A p \in Pages : h.ver[p] = page[p].latest  BY <2>0 DEF Latest
  <2>3. \A p \in Pages : Stored(p, page[p].latest) # {}
    BY <1>0, <1>4 DEF Reviewable, PageCounts, Evaluated
  <2>4. batch'[w] = [batch[w] EXCEPT ![t] = h] /\ \A x \in Workers \ {w} : batch'[x] = batch[x]
    BY <1>0, <2>1 DEF BatchOK
  <2>5. EvalsOK' /\ AttemptsGrow' /\ \A p \in Pages : PageCounts(p)'
    <3>1. LatestGrows
      <4> SUFFICES ASSUME NEW p \in Pages PROVE page[p].latest <= page'[p].latest  BY DEF LatestGrows
      <4> QED BY <1>0, <1>1, NatOfPage
    <3>2. \A p \in Pages : PageKept(p)  BY <1>1 DEF PageKept
    <3> QED BY <1>1, <1>2, <3>1, <3>2, EvalsKept, AttemptsKept, PageCountsKept
  <2>6. ASSUME NEW u \in Workers, NEW s \in DOMAIN batch'[u] PROVE HandlerKnows(u, s)'
    <3>1. CASE u = w /\ s = t
      <4>1. batch'[w][t] = h  BY <2>4
      <4>2. \A p \in Pages : Stored(p, h.ver[p])' # {}  BY <1>1, <2>2, <2>3 DEF Stored
      <4> QED BY <2>2, <3>1, <4>1, <4>2 DEF HandlerKnows
    <3>2. CASE ~(u = w /\ s = t)
      <4>1. s \in DOMAIN batch[u] /\ batch'[u][s] = batch[u][s]  BY <2>4, <3>2
      <4> QED BY <1>1, <1>2, <4>1, HandlerKept
    <3> QED BY <3>1, <3>2
  <2> QED BY <2>5, <2>6 DEF BudgetInv
<1> QED BY <1>3, <1>4

\* What inserting write/evaluate pairs adds to the evaluations to come.
PairsAdded(P, ver, att, human) ==
    \A t \in EvalTasks' : t \in EvalTasks \/
       \E p \in P : /\ t = EvaluateTask(p, ver[p]) /\ t.page = p /\ t.version = ver[p]
                    /\ tasks'[t].attempt = att[p] /\ tasks'[t].human = human

LEMMA PairsRows ==
    ASSUME TypeOK, NEW P \in SUBSET Pages, NEW ver \in [Pages -> Version], NEW att \in [Pages -> Nat],
           NEW human \in BOOLEAN, NEW source \in [Pages -> Nat],
           tasks' = Enqueue(Pairs(P, ver, att, human, source))
    PROVE  /\ RowsKept
           /\ \A p \in P : EvaluateTask(p, ver[p]) \in DOMAIN tasks'
           /\ PairsAdded(P, ver, att, human)
           /\ EvalTasks \subseteq EvalTasks'
<1> DEFINE f == Pairs(P, ver, att, human, source)
<1>1. DOMAIN f = {WriteTask(p, ver[p]) : p \in P} \cup {EvaluateTask(p, ver[p]) : p \in P}
  BY DEF Pairs, PairsAt
<1>2. DOMAIN tasks' = DOMAIN tasks \cup DOMAIN f  BY DEF Enqueue
<1>3. \A t \in DOMAIN tasks : tasks'[t] = tasks[t]  BY DEF Enqueue
<1>4. \A t \in DOMAIN f \ DOMAIN tasks : tasks'[t] = f[t]  BY DEF Enqueue
<1>5. RowsKept /\ EvalTasks \subseteq EvalTasks'  BY <1>2, <1>3 DEF RowsKept, EvalTasks
<1>6. ASSUME NEW p \in P
      PROVE  /\ EvaluateTask(p, ver[p]).kind = "evaluate" /\ EvaluateTask(p, ver[p]).page = p
             /\ EvaluateTask(p, ver[p]).version = ver[p]
             /\ f[EvaluateTask(p, ver[p])].attempt = att[p] /\ f[EvaluateTask(p, ver[p])].human = human
  <2> DEFINE t == EvaluateTask(p, ver[p])
  <2>1. t \in DOMAIN f  BY <1>1
  <2>2. t.kind = "evaluate" /\ t.page = p /\ t.version = ver[p]  BY DEF EvaluateTask
  <2>3. f[t] = NewRow({WriteTask(p, ver[p] + 0)}, att[p], human, 0)
    BY <1>1, <2>1, <2>2 DEF Pairs, PairsAt
  <2>4. f[t].attempt = att[p] /\ f[t].human = human  BY <2>3 DEF NewRow
  <2> QED BY <2>2, <2>4
<1>7. ASSUME NEW t \in EvalTasks', t \notin EvalTasks
      PROVE  \E p \in P : /\ t = EvaluateTask(p, ver[p]) /\ t.page = p /\ t.version = ver[p]
                          /\ tasks'[t].attempt = att[p] /\ tasks'[t].human = human
  <2>1. t \in DOMAIN f \ DOMAIN tasks /\ t.kind = "evaluate"  BY <1>2, <1>7 DEF EvalTasks
  <2>2. \A p \in P : WriteTask(p, ver[p]).kind # "evaluate"  BY DEF WriteTask
  <2>3. PICK p \in P : t = EvaluateTask(p, ver[p])  BY <1>1, <2>1, <2>2
  <2>4. tasks'[t] = f[t]  BY <1>4, <2>1
  <2> HIDE DEF f
  <2> QED BY <1>6, <2>3, <2>4
<1>8. \A p \in P : EvaluateTask(p, ver[p]) \in DOMAIN tasks'  BY <1>1, <1>2
<1> QED BY <1>5, <1>7, <1>8 DEF PairsAdded

\* The pair of a page's first version: nothing of that page was scheduled before.
LEMMA BudgetSeed ==
    ASSUME BudgetInv, TypeOK', NEW w \in Workers, NEW p \in Pages, SeedPage(w, p)
    PROVE  BudgetInv'
<1> DEFINE one == [q \in Pages |-> 1]
<1>0. TypeOK /\ AttemptsGrow  BY DEF BudgetInv
<1>1. one \in [Pages -> Version] /\ one \in [Pages -> Nat] /\ {p} \in SUBSET Pages /\ one[p] = 1
      /\ FALSE \in BOOLEAN
  BY DEF Version
<1>2. tasks' = Enqueue(Pairs({p}, one, one, FALSE, NoPages))  BY DEF SeedPage
<1>3. UNCHANGED <<page, evals, batch>>  BY DEF SeedPage
<1> HIDE DEF one
<1>4. /\ RowsKept
      /\ EvaluateTask(p, 1) \in DOMAIN tasks'
      /\ \A t \in EvalTasks' : t \in EvalTasks \/
           /\ t = EvaluateTask(p, 1) /\ t.page = p /\ t.version = 1
           /\ tasks'[t].attempt = 1
      /\ EvalTasks \subseteq EvalTasks'
  <2>1. /\ RowsKept /\ PairsAdded({p}, one, one, FALSE) /\ EvalTasks \subseteq EvalTasks'
        /\ \A q \in {p} : EvaluateTask(q, one[q]) \in DOMAIN tasks'
    BY <1>0, <1>1, <1>2, PairsRows, FreshIsHandler
  <2> QED BY <1>1, <2>1 DEF PairsAdded
<1>5. LatestGrows
  <2> SUFFICES ASSUME NEW q \in Pages PROVE page[q].latest <= page'[q].latest  BY DEF LatestGrows
  <2> QED BY <1>0, <1>3, NatOfPage
<1>6. EvalsOK'  BY <1>3, <1>4, <1>5, EvalsKept
<1>7. \A q \in Pages : PageCounts(q)'
  <2>1. \A q \in Pages : PageKept(q)  BY <1>3 DEF PageKept
  <2> QED BY <1>3, <1>4, <2>1, PageCountsKept
<1>8. ASSUME NEW u \in Workers, NEW s \in DOMAIN batch'[u] PROVE HandlerKnows(u, s)'
  BY <1>3, <1>4, HandlerKept
<1>9. CASE EvaluateTask(p, 1) \in DOMAIN tasks
  <2>1. EvaluateTask(p, 1) \in EvalTasks  BY <1>9, EvaluateIsEval
  <2>2. EvalTasks' = EvalTasks  BY <1>4, <2>1
  <2>3. AttemptsGrow'  BY <1>4, <1>5, <2>2, AttemptsKept
  <2> QED BY <1>6, <1>7, <1>8, <2>3 DEF BudgetInv
<1>10. CASE EvaluateTask(p, 1) \notin DOMAIN tasks
  <2>1. \A t \in EvalTasks : t.page # p  BY <1>0, <1>10 DEF AttemptsGrow
  <2>2. AttemptsGrow'
    <3> SUFFICES ASSUME NEW t \in EvalTasks'
                 PROVE  /\ t.version <= page[t.page].latest + 1
                        /\ tasks'[t].attempt \in 1..MaxAttempts
                        /\ EvaluateTask(t.page, 1) \in DOMAIN tasks'
                        /\ \A s \in EvalTasks' : s.page = t.page /\ s.version < t.version =>
                              /\ tasks'[s].attempt <= tasks'[t].attempt
                              /\ ~tasks'[t].human => tasks'[s].attempt < tasks'[t].attempt
      BY <1>3 DEF AttemptsGrow
    <3>1. CASE t \in EvalTasks
      <4>1. \A s \in EvalTasks' : s.page = t.page => s \in EvalTasks  BY <1>4, <2>1, <3>1
      <4>2. \A s \in EvalTasks : tasks'[s].attempt = tasks[s].attempt /\ tasks'[s].human = tasks[s].human
        BY <1>4 DEF RowsKept, EvalTasks
      <4>3. EvaluateTask(t.page, 1) \in DOMAIN tasks'  BY <1>0, <1>4, <3>1 DEF AttemptsGrow, RowsKept
      <4> QED BY <1>0, <3>1, <4>1, <4>2, <4>3 DEF AttemptsGrow
    <3>2. CASE t \notin EvalTasks
      <4>1. t.page = p /\ t.version = 1 /\ tasks'[t].attempt = 1  BY <1>4, <3>2
      <4>2. page[p].latest \in Nat  BY <1>0, NatOfPage
      <4>3. 1 \in 1..MaxAttempts  BY BudgetAssumption
      <4>4. \A s \in EvalTasks' : s.page = p => s.version = 1  BY <1>4, <2>1
      <4> QED BY <1>4, <4>1, <4>2, <4>3, <4>4
    <3> QED BY <3>1, <3>2
  <2> QED BY <1>6, <1>7, <1>8, <2>2 DEF BudgetInv
<1> QED BY <1>9, <1>10

\* A page whose current artifact was evaluated.
LEMMA CurrentTask ==
    ASSUME BudgetInv, NEW p \in Pages, Stored(p, page[p].latest) # {}
    PROVE  /\ EvaluateTask(p, page[p].latest) \in EvalTasks
           /\ tasks[EvaluateTask(p, page[p].latest)].attempt = page[p].attempt
           /\ page[p].attempt \in 1..MaxAttempts
<1> DEFINE c == EvaluateTask(p, page[p].latest)
<1>1. c \in DOMAIN tasks  BY DEF BudgetInv, EvalsOK, Stored
<1>2. c \in EvalTasks  BY <1>1, EvaluateIsEval
<1>3. tasks[c].attempt = page[p].attempt  BY DEF BudgetInv, PageCounts
<1>4. tasks[c].attempt \in 1..MaxAttempts  BY <1>2 DEF BudgetInv, AttemptsGrow
<1> QED BY <1>2, <1>3, <1>4

\* Revising the evaluated pages of P: the next version, the same attempt for a
\* human revision and the next one for an automatic revision.
Affordable(P, next, att, human) ==
    \A p \in P : /\ next[p] = page[p].latest + 1 /\ att[p] \in 1..MaxAttempts
                 /\ Stored(p, page[p].latest) # {}
                 /\ att[p] >= page[p].attempt /\ (~human => att[p] > page[p].attempt)

OnlyRevised(P) ==
    \A p \in Pages : /\ page'[p].latest = page[p].latest /\ page'[p].attempt = page[p].attempt
                     /\ p \notin P => page'[p] = page[p]

LEMMA BudgetSchedule ==
    ASSUME BudgetInv, TypeOK', NEW P \in SUBSET Pages, NEW next \in [Pages -> Version],
           NEW att \in [Pages -> Nat], NEW human \in BOOLEAN, NEW source \in [Pages -> Nat],
           tasks' = Enqueue(Pairs(P, next, att, human, source)), evals' = evals, HandlersQuiet,
           Affordable(P, next, att, human), OnlyRevised(P)
    PROVE  BudgetInv'
<1> USE DEF Affordable, OnlyRevised
<1>0. TypeOK /\ AttemptsGrow  BY DEF BudgetInv
<1>1. /\ RowsKept
      /\ \A p \in P : EvaluateTask(p, next[p]) \in DOMAIN tasks'
      /\ \A t \in EvalTasks' : t \in EvalTasks \/
           \E p \in P : /\ t = EvaluateTask(p, next[p]) /\ t.page = p /\ t.version = next[p]
                        /\ tasks'[t].attempt = att[p] /\ tasks'[t].human = human
      /\ EvalTasks \subseteq EvalTasks'
  <2>1. /\ RowsKept /\ PairsAdded(P, next, att, human) /\ EvalTasks \subseteq EvalTasks'
        /\ \A p \in P : EvaluateTask(p, next[p]) \in DOMAIN tasks'
    BY <1>0, PairsRows
  <2> QED BY <2>1 DEF PairsAdded
<1>2. LatestGrows
  <2> SUFFICES ASSUME NEW q \in Pages PROVE page[q].latest <= page'[q].latest  BY DEF LatestGrows
  <2>1. page[q].latest \in Nat /\ page'[q].latest = page[q].latest  BY <1>0, NatOfPage
  <2> QED BY <2>1
<1>3. EvalsOK'  BY <1>1, <1>2, EvalsKept
<1>4. ASSUME NEW p \in Pages PROVE PageCounts(p)'
  <2>1. CASE p \notin P
    <3>1. PageKept(p)  BY <2>1 DEF PageKept
    <3> QED BY <1>1, <3>1, PageCountsKept
  <2>2. CASE p \in P
    <3>1. PICK v : v = page[p].latest  OBVIOUS
    <3>2. page'[p].latest = v /\ Stored(p, v)' = Stored(p, v) /\ Stored(p, v) # {}
      BY <2>2, <3>1 DEF Stored
    <3>3. EvaluateTask(p, v) \in DOMAIN tasks /\ page[p].attempt = tasks[EvaluateTask(p, v)].attempt
      BY <3>1, <3>2, CurrentTask DEF EvalTasks
    <3>4. page'[p].attempt = tasks'[EvaluateTask(p, v)].attempt  BY <1>1, <3>3 DEF RowsKept
    <3> QED BY <3>2, <3>4 DEF PageCounts
  <2> QED BY <2>1, <2>2
<1>5. ASSUME NEW u \in Workers, NEW s \in DOMAIN batch'[u] PROVE HandlerKnows(u, s)'
  BY <1>1, HandlerKept DEF HandlersQuiet
<1>6. AttemptsGrow'
  <2> SUFFICES ASSUME NEW t \in EvalTasks'
               PROVE  /\ t.version <= page'[t.page].latest + 1
                      /\ tasks'[t].attempt \in 1..MaxAttempts
                      /\ EvaluateTask(t.page, 1) \in DOMAIN tasks'
                      /\ \A s \in EvalTasks' : s.page = t.page /\ s.version < t.version =>
                            /\ tasks'[s].attempt <= tasks'[t].attempt
                            /\ ~tasks'[t].human => tasks'[s].attempt < tasks'[t].attempt
    BY DEF AttemptsGrow
  <2>1. \A s \in EvalTasks : tasks'[s].attempt = tasks[s].attempt /\ tasks'[s].human = tasks[s].human
    BY <1>1 DEF RowsKept, EvalTasks
  <2>2. CASE t \in EvalTasks
    <3>1. t.page \in Pages /\ t.version \in Nat  BY <1>0, <2>2, EvalTaskShape DEF Version
    <3>2. t.version <= page[t.page].latest + 1 /\ page'[t.page].latest = page[t.page].latest
          /\ page[t.page].latest \in Nat
      BY <1>0, <2>2, <3>1, NatOfPage DEF AttemptsGrow
    <3>3. \A s \in EvalTasks' : s.page = t.page /\ s.version < t.version => s \in EvalTasks
      <4> SUFFICES ASSUME NEW s \in EvalTasks', s.page = t.page, s.version < t.version, s \notin EvalTasks
                   PROVE  FALSE
        OBVIOUS
      <4>1. s.version = page[t.page].latest + 1  BY <1>1
      <4> QED BY <3>1, <3>2, <4>1
    <3>4. EvaluateTask(t.page, 1) \in DOMAIN tasks'  BY <1>0, <1>1, <2>2 DEF AttemptsGrow, RowsKept
    <3>5. t.version <= page'[t.page].latest + 1  BY <3>2
    <3> QED BY <1>0, <2>1, <2>2, <3>3, <3>4, <3>5 DEF AttemptsGrow
  <2>3. CASE t \notin EvalTasks
    <3>1. PICK p \in P : /\ t.page = p /\ t.version = next[p]
                         /\ tasks'[t].attempt = att[p] /\ tasks'[t].human = human
      BY <1>1, <2>3
    <3>2. PICK c : c = EvaluateTask(p, page[p].latest)  OBVIOUS
    <3>3. /\ c \in EvalTasks /\ tasks[c].attempt = page[p].attempt /\ page[p].attempt \in 1..MaxAttempts
          /\ c.page = p /\ c.version = page[p].latest
      <4>1. p \in Pages  OBVIOUS
      <4> QED BY <3>2, <4>1, CurrentTask DEF EvaluateTask
    <3>4. page[p].latest \in Nat /\ page'[p].latest = page[p].latest /\ page[p].attempt \in Nat
      BY <1>0, NatOfPage
    <3>5. t.version <= page'[t.page].latest + 1  BY <3>1, <3>4
    <3>6. EvaluateTask(t.page, 1) \in DOMAIN tasks'
      BY <1>0, <1>1, <3>1, <3>3 DEF AttemptsGrow, RowsKept
    <3>7. ASSUME NEW s \in EvalTasks', s.page = p, s.version < next[p]
          PROVE  tasks'[s].attempt \in Nat /\ tasks'[s].attempt <= page[p].attempt
      <4>1. s \in EvalTasks
        <5> SUFFICES ASSUME s \notin EvalTasks PROVE FALSE  OBVIOUS
        <5>1. s.version = next[p]  BY <1>1, <3>7
        <5> QED BY <3>4, <3>7, <5>1
      <4>2. s.version \in Nat /\ s = EvaluateTask(p, s.version) /\ tasks[s].attempt \in Nat
        BY <1>0, <3>7, <4>1, EvalTaskShape DEF Version
      <4>3. s.version <= page[p].latest  BY <3>4, <3>7, <4>2
      <4>4. CASE s.version = page[p].latest  BY <2>1, <3>2, <3>3, <3>4, <4>1, <4>2, <4>4
      <4>5. CASE s.version # page[p].latest
        <5>1. s.version < c.version  BY <3>3, <3>4, <4>2, <4>3, <4>5
        <5>2. tasks[s].attempt <= tasks[c].attempt  BY <1>0, <3>3, <3>7, <4>1, <5>1 DEF AttemptsGrow
        <5> QED BY <2>1, <3>3, <4>1, <4>2, <5>2
      <4> QED BY <4>4, <4>5
    <3>8. att[p] \in 1..MaxAttempts /\ att[p] >= page[p].attempt /\ (~human => att[p] > page[p].attempt)
          /\ att[p] \in Nat
      OBVIOUS
    <3>9. ASSUME NEW s \in EvalTasks', s.page = t.page, s.version < t.version
          PROVE  /\ tasks'[s].attempt <= tasks'[t].attempt
                 /\ ~tasks'[t].human => tasks'[s].attempt < tasks'[t].attempt
      <4>1. tasks'[s].attempt \in Nat /\ tasks'[s].attempt <= page[p].attempt  BY <3>1, <3>7, <3>9
      <4> QED BY <3>1, <3>4, <3>8, <4>1
    <3> QED BY <3>1, <3>5, <3>6, <3>8, <3>9
  <2> QED BY <2>2, <2>3
<1> QED BY <1>3, <1>4, <1>5, <1>6 DEF BudgetInv

\* schedule_revisions, on evaluated pages and within the budget.
LEMMA BudgetAutomatic ==
    ASSUME BudgetInv, TypeOK', NEW w \in Workers, NEW t \in DOMAIN batch[w], Advance(w, t, "ok"),
           NEW P \in SUBSET Pages, NEW ver \in [Pages -> Nat], NEW next \in [Pages -> Version],
           NEW att \in [Pages -> Nat], NEW source \in [Pages -> Nat],
           Schedulable(P, ver, att), ScheduleAt(P, next, att, source), evals' = evals,
           \A p \in P : att[p] <= MaxAttempts /\ Stored(p, ver[p]) # {} /\ next[p] = ver[p] + 1
    PROVE  BudgetInv'
<1>0. TypeOK /\ BatchOK /\ \A p \in Pages : page[p] \in PageRow
  BY DEF BudgetInv, TypeOK, TablesOK
<1>1. HandlersQuiet
  <2>1. "ok" \in HandlerAt \ {"verdict", "revise"}  BY DEF HandlerAt
  <2> QED BY <1>0, <2>1, AdvanceQuiet
<1>2. tasks' = Enqueue(Pairs(P, next, att, FALSE, source))  BY DEF ScheduleAt
<1>3. ASSUME NEW p \in P
      PROVE  /\ next[p] = page[p].latest + 1 /\ att[p] \in 1..MaxAttempts
             /\ Stored(p, page[p].latest) # {}
             /\ att[p] >= page[p].attempt /\ (~FALSE => att[p] > page[p].attempt)
  <2>1. page[p].attempt \in Nat /\ att[p] \in Nat  BY <1>0 DEF PageRow
  <2>2. page[p].latest = ver[p] /\ page[p].attempt + 1 = att[p]  BY DEF Schedulable
  <2> QED BY <2>1, <2>2, BudgetAssumption
<1>4. ASSUME NEW p \in Pages
      PROVE  /\ page'[p].latest = page[p].latest /\ page'[p].attempt = page[p].attempt
             /\ p \notin P => page'[p] = page[p]
  <2>1. \/ page'[p] = page[p]
        \/ p \in P /\ \E n : page'[p] = [page[p] EXCEPT !.status = "revising", !.next = n]
    BY DEF ScheduleAt
  <2> QED BY <1>0, <2>1 DEF PageRow
<1>5. Affordable(P, next, att, FALSE) /\ OnlyRevised(P) /\ FALSE \in BOOLEAN
  BY <1>3, <1>4 DEF Affordable, OnlyRevised
<1> QED BY <1>1, <1>2, <1>5, BudgetSchedule

LEMMA BudgetRevises ==
    ASSUME BudgetInv, TypeOK', NEW w \in Workers, NEW t \in DOMAIN batch[w],
           EvaluatorRevises(w, t) \/ ReviewerCorrects(w, t)
    PROVE  BudgetInv'
<1>0. TypeOK /\ BatchOK /\ batch[w][t] \in Handler /\ tasks[t] \in TaskRow /\ HandlerKnows(w, t)
  BY HeldTask DEF BudgetInv, TypeOK
<1>1. evals' = evals  BY DEF EvaluatorRevises, ReviewerCorrects
<1>2. CASE UNCHANGED <<page, tasks>> /\ Advance(w, t, "error")
  <2>1. "error" \in HandlerAt \ {"verdict", "revise"}  BY DEF HandlerAt
  <2> QED BY <1>0, <1>1, <1>2, <2>1, AdvanceQuiet, RowsUpdated, BudgetKept
<1>3. CASE EvaluatorRevises(w, t)
  <2>1. t.page \in Pages /\ t.version \in Version /\ batch[w][t].at = "revise"
    BY <1>0, <1>3, HeldTask DEF EvaluatorRevises, At
  <2>2. PICK ver, att, next : /\ ver = [p \in Pages |-> t.version]
                              /\ att = [p \in Pages |-> tasks[t].attempt + 1]
                              /\ next = [p \in Pages |-> ver[p] + 1]
    OBVIOUS
  <2>3. /\ ver \in [Pages -> Nat] /\ next \in [Pages -> Version] /\ att \in [Pages -> Nat]
        /\ {t.page} \in SUBSET Pages
    BY <1>0, <2>1, <2>2 DEF Version, TaskRow
  <2>4. \A p \in {t.page} : att[p] <= MaxAttempts /\ Stored(p, ver[p]) # {} /\ next[p] = ver[p] + 1
    <3>1. tasks[t].attempt < MaxAttempts /\ Stored(t.page, t.version) # {}
      BY <1>0, <2>1 DEF HandlerKnows
    <3>2. tasks[t].attempt \in Nat  BY <1>0 DEF TaskRow
    <3> QED BY <2>1, <2>2, <3>1, <3>2, BudgetAssumption
  <2>5. \/ UNCHANGED <<page, tasks>> /\ Advance(w, t, "error")
        \/ Schedulable({t.page}, ver, att) /\ ScheduleAt({t.page}, next, att, ver) /\ Advance(w, t, "ok")
    BY <1>3, <2>2 DEF EvaluatorRevises, ScheduleRevisions
  <2> QED BY <1>1, <1>2, <2>3, <2>4, <2>5, BudgetAutomatic
<1>4. CASE ReviewerCorrects(w, t)
  <2>1. batch[w][t].at = "verdict"  BY <1>4 DEF ReviewerCorrects, At
  <2>2. PICK ver, att, next : /\ ver = batch[w][t].ver
                              /\ att = [p \in Pages |-> batch[w][t].att[p] + 1]
                              /\ next = [p \in Pages |-> ver[p] + 1]
    OBVIOUS
  <2>3. ver \in [Pages -> Nat] /\ next \in [Pages -> Version] /\ att \in [Pages -> Nat]
    BY <1>0, <2>2 DEF Version, Handler
  <2>4. PICK P \in SUBSET Pages :
           \/ UNCHANGED <<page, tasks>> /\ Advance(w, t, "error")
           \/ /\ \A p \in P : att[p] <= MaxAttempts
              /\ Schedulable(P, ver, att) /\ ScheduleAt(P, next, att, NoPages) /\ Advance(w, t, "ok")
    BY <1>4, <2>2 DEF ReviewerCorrects, ScheduleRevisions
  <2>5. \A p \in P : Stored(p, ver[p]) # {} /\ next[p] = ver[p] + 1
    BY <1>0, <2>1, <2>2 DEF HandlerKnows
  <2> QED BY <1>1, <1>2, <2>3, <2>4, <2>5, BudgetAutomatic, FreshIsHandler
<1> QED BY <1>3, <1>4

\* A human revision repeats the attempt of the escalated evaluation.
LEMMA BudgetHuman ==
    ASSUME BudgetInv, TypeOK', NEW w \in Workers, ScheduleHumanRevisions(w)
    PROVE  BudgetInv'
<1>0. TypeOK /\ BatchOK /\ \A p \in Pages : page[p] \in PageRow /\ PageCounts(p)
  BY DEF BudgetInv, TypeOK, TablesOK
<1>1. evals' = evals /\ HandlersQuiet  BY DEF ScheduleHumanRevisions, HandlersQuiet
<1>2. PICK next, att, P : /\ next = [p \in Pages |-> page[p].latest + 1]
                          /\ att = [p \in Pages |-> page[p].attempt]
                          /\ P = Escalated
  OBVIOUS
<1>3. tasks' = Enqueue(Pairs(P, next, att, TRUE, NoPages))
  BY <1>2 DEF ScheduleHumanRevisions
<1>4. /\ next \in [Pages -> Version] /\ att \in [Pages -> Nat] /\ P \in SUBSET Pages
      /\ TRUE \in BOOLEAN /\ NoPages \in [Pages -> Nat]
  BY <1>0, <1>2, FreshIsHandler DEF PageRow, Version, Escalated
<1>5. ASSUME NEW p \in P
      PROVE  /\ next[p] = page[p].latest + 1 /\ att[p] \in 1..MaxAttempts
             /\ Stored(p, page[p].latest) # {}
             /\ att[p] >= page[p].attempt /\ (~TRUE => att[p] > page[p].attempt)
  <2>1. p \in Pages /\ page[p].status = "awaiting_human_review"  BY <1>2 DEF Escalated
  <2>2. Stored(p, page[p].latest) # {}  BY <1>0, <2>1 DEF PageCounts, Evaluated
  <2>3. page[p].attempt \in 1..MaxAttempts  BY <2>1, <2>2, CurrentTask
  <2>4. att[p] = page[p].attempt /\ att[p] \in Nat  BY <1>0, <1>2, <2>1 DEF PageRow
  <2> QED BY <1>2, <2>1, <2>2, <2>3, <2>4
<1>6. ASSUME NEW p \in Pages
      PROVE  /\ page'[p].latest = page[p].latest /\ page'[p].attempt = page[p].attempt
             /\ p \notin P => page'[p] = page[p]
  <2>1. \/ page'[p] = page[p]
        \/ p \in P /\ \E n : page'[p] = [page[p] EXCEPT !.status = "revising", !.next = n]
    BY <1>2 DEF ScheduleHumanRevisions
  <2> QED BY <1>0, <2>1 DEF PageRow
<1>7. Affordable(P, next, att, TRUE) /\ OnlyRevised(P)
  BY <1>5, <1>6 DEF Affordable, OnlyRevised
<1> QED BY <1>1, <1>3, <1>4, <1>7, BudgetSchedule

LEMMA BudgetInit == Init => BudgetInv
<1> SUFFICES ASSUME Init PROVE BudgetInv  OBVIOUS
<1>1. TypeOK  BY TypeInit
<1>2. /\ evals = {} /\ DOMAIN tasks = {}
      /\ \A p \in Pages : page[p].status = "absent"
      /\ \A w \in Workers : DOMAIN batch[w] = {}
  BY DEF Init, NoBatch
<1>3. EvalsOK /\ AttemptsGrow  BY <1>2 DEF EvalsOK, AttemptsGrow, EvalTasks
<1>4. \A p \in Pages : PageCounts(p)  BY <1>2 DEF PageCounts, Stored, Evaluated
<1>5. ASSUME NEW w \in Workers, NEW t \in DOMAIN batch[w] PROVE HandlerKnows(w, t)
  BY <1>2
<1> QED BY <1>1, <1>3, <1>4, <1>5 DEF BudgetInv

LEMMA BudgetNext == BudgetInv /\ [Next]_vars => BudgetInv'
<1> SUFFICES ASSUME BudgetInv, [Next]_vars PROVE BudgetInv'  OBVIOUS
<1>0. TypeOK'  BY TypeNext DEF BudgetInv
<1>1. CASE UNCHANGED vars
  <2>1. UNCHANGED <<page, evals, tasks, batch>>  BY <1>1 DEF vars
  <2> QED BY <1>0, <2>1, RowsUpdated, BudgetKept DEF HandlersQuiet
<1>2. ASSUME NEW w \in Workers, NEW t \in DOMAIN batch[w], HandlerStep(w, t) PROVE BudgetInv'
  BY <1>0, <1>2, BudgetQuietHandler, BudgetRecordArtifact, BudgetRecordEvaluation,
     BudgetReviewerReads, BudgetRevises DEF HandlerStep
<1>3. ASSUME NEW w \in Workers, Step(w) PROVE BudgetInv'
  <2>1. \/ \E p \in Pages : SeedPage(w, p)
        \/ Report(w) \/ ResetExpiredLeases(w) \/ ClaimReadyTasks(w) \/ TakeSnapshot(w)
        \/ \E t \in DOMAIN batch[w] : CompleteTask(w, t) \/ RetryOrFailTask(w, t)
        \/ \E t \in DOMAIN batch[w] : HandlerStep(w, t)
        \/ (\E p \in Pages : ApprovePage(w, p)) \/ CancelPendingTasks(w) \/ MarkEscalatedFailed(w)
        \/ ScheduleHumanRevisions(w)
    BY <1>3 DEF Step, ExecutorStep, DecisionStep
  <2> QED BY <1>0, <1>2, <2>1, BudgetSeed, BudgetExecutor, BudgetSettle, BudgetDecision, BudgetHuman
<1> QED BY <1>0, <1>1, <1>3, BudgetDecision, BudgetEnvironment DEF Next, Quiet

\* The attempt numbers of a page's automatic evaluations are distinct and in
\* 1..MaxAttempts.
LEMMA BudgetBound == BudgetInv => AutomaticBudget
<1> SUFFICES ASSUME BudgetInv, NEW p \in Pages
             PROVE  Cardinality({e \in evals : /\ e.page = p
                                               /\ ~tasks[EvaluateTask(p, e.version)].human}) <= MaxAttempts
  BY DEF AutomaticBudget
<1>0. TypeOK /\ EvalsOK /\ AttemptsGrow /\ evals \subseteq EvalRow
  BY DEF BudgetInv, TypeOK, TablesOK
<1> DEFINE S == {e \in evals : e.page = p /\ ~tasks[EvaluateTask(p, e.version)].human}
<1> DEFINE f == [e \in S |-> e.attempt]
<1>1. ASSUME NEW e \in S
      PROVE  /\ EvaluateTask(p, e.version) \in EvalTasks
             /\ e.attempt = tasks[EvaluateTask(p, e.version)].attempt
             /\ e.attempt \in 1..MaxAttempts /\ e.version \in Nat
  <2>1. EvaluateTask(p, e.version) \in DOMAIN tasks /\ e.attempt = tasks[EvaluateTask(p, e.version)].attempt
    BY <1>0 DEF EvalsOK
  <2>2. EvaluateTask(p, e.version) \in EvalTasks  BY <2>1, EvaluateIsEval
  <2> QED BY <1>0, <2>1, <2>2 DEF AttemptsGrow, EvalRow, Version
<1>2. ASSUME NEW e \in S, NEW g \in S, e.version < g.version PROVE e.attempt < g.attempt
  <2> DEFINE s == EvaluateTask(p, e.version)
  <2> DEFINE t == EvaluateTask(p, g.version)
  <2>1. /\ s.page = p /\ t.page = p /\ s.version = e.version /\ t.version = g.version
        /\ ~tasks[t].human
    BY DEF EvaluateTask
  <2>2. s \in EvalTasks /\ t \in EvalTasks  BY <1>1
  <2> HIDE DEF s, t
  <2>3. tasks[s].attempt < tasks[t].attempt  BY <1>0, <1>2, <2>1, <2>2 DEF AttemptsGrow
  <2> QED BY <1>1, <2>3 DEF s, t
<1>3. ASSUME NEW e \in S, NEW g \in S, e.attempt = g.attempt PROVE e = g
  <2>1. e.version \in Nat /\ g.version \in Nat /\ e.attempt \in Int  BY <1>1
  <2>2. ~(e.version < g.version) /\ ~(g.version < e.version)  BY <1>2, <1>3, <2>1
  <2>3. e.version = g.version  BY <2>1, <2>2
  <2>4. e \in evals /\ g \in evals /\ e.page = g.page  OBVIOUS
  <2> QED BY <1>0, <2>3, <2>4 DEF EvalsOK
<1>4. f \in Injection(S, 1..MaxAttempts)
  <2>1. f \in [S -> 1..MaxAttempts]  BY <1>1
  <2>2. IsInjective(f)  BY <1>3 DEF IsInjective
  <2> QED BY <2>1, <2>2 DEF Injection
<1>5. MaxAttempts \in Nat /\ IsFiniteSet(1..MaxAttempts) /\ Cardinality(1..MaxAttempts) = MaxAttempts
  <2>1. MaxAttempts \in Int /\ 1 \in Int /\ 1 <= MaxAttempts  BY BudgetAssumption
  <2> QED BY <2>1, FS_Interval
<1> HIDE DEF S, f
<1>6. Cardinality(S) <= MaxAttempts  BY <1>4, <1>5, FS_Injection
<1> QED BY <1>6 DEF S

\* Retries, replayed handlers, expired leases, crashes and re-entries never buy a
\* page more automatic evaluations than MAX_AUTOMATIC_EVALUATION_ATTEMPTS, for
\* every number of pages and workers; evaluations a reviewer asked for are free.
THEOREM BudgetHolds == Spec => []AutomaticBudget
<1>1. Spec => []BudgetInv
  BY BudgetInit, BudgetNext, PTL DEF Spec
<1> QED BY <1>1, BudgetBound, PTL
=============================================================================
