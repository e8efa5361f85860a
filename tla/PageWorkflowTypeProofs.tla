---------------------- MODULE PageWorkflowTypeProofs ----------------------
(***************************************************************************)
(* Type correctness of PageWorkflow, for every set of pages and workers and *)
(* every budget.                                                           *)
(***************************************************************************)
EXTENDS PageWorkflow, TLAPS

(* Facts about rows and tables. *)

LEMMA PageTaskIsTask ==
    ASSUME NEW p \in Pages, NEW v \in Version
    PROVE  WriteTask(p, v) \in Task /\ EvaluateTask(p, v) \in Task
BY DEF WriteTask, EvaluateTask, Task, PageTask

LEMMA NewRowType ==
    ASSUME NEW deps \in SUBSET Task, NEW attempt \in Nat, NEW human \in BOOLEAN, NEW source \in Nat
    PROVE  NewRow(deps, attempt, human, source) \in TaskRow
BY DEF NewRow, TaskRow, TaskStatus

\* A batch of write/evaluate pairs is a table of pending rows.
LEMMA PairsType ==
    ASSUME NEW P \in SUBSET Pages, NEW ver \in [Pages -> Version], NEW att \in [Pages -> Nat],
           NEW human \in BOOLEAN, NEW source \in [Pages -> Nat]
    PROVE  TableOf(Pairs(P, ver, att, human, source), Task, TaskRow)
<1> DEFINE D == {WriteTask(p, ver[p]) : p \in P} \cup {EvaluateTask(p, ver[p]) : p \in P}
<1> DEFINE f == Pairs(P, ver, att, human, source)
<1>1. DOMAIN f = D /\ f = [k \in DOMAIN f |-> f[k]]
  BY DEF Pairs, PairsAt
<1>2. ASSUME NEW t \in D PROVE t \in Task /\ f[t] \in TaskRow
  <2>1. CASE \E p \in P : t = WriteTask(p, ver[p])
    <3>1. PICK p \in P : t = WriteTask(p, ver[p])  BY <2>1
    <3>2. p \in Pages /\ ver[p] \in Version /\ source[p] \in Nat  OBVIOUS
    <3>3. t.kind = "write" /\ t.page = p  BY <3>1 DEF WriteTask
    <3>4. f[t] = NewRow({}, 0, human, source[p])  BY <3>3 DEF Pairs, PairsAt
    <3>5. f[t] \in TaskRow  BY <3>2, <3>4, NewRowType
    <3> QED BY <3>1, <3>2, <3>5, PageTaskIsTask
  <2>2. CASE \E p \in P : t = EvaluateTask(p, ver[p])
    <3>1. PICK p \in P : t = EvaluateTask(p, ver[p])  BY <2>2
    <3>2. p \in Pages /\ ver[p] \in Version /\ att[p] \in Nat  OBVIOUS
    <3>3. t.kind = "evaluate" /\ t.page = p /\ t.version = ver[p]  BY <3>1 DEF EvaluateTask
    <3>4. ver[p] + 0 = ver[p]  BY <3>2 DEF Version
    <3>5. f[t] = NewRow({WriteTask(p, ver[p])}, att[p], human, 0)
      BY <3>3, <3>4 DEF Pairs, PairsAt
    <3>6. {WriteTask(p, ver[p])} \in SUBSET Task  BY <3>2, PageTaskIsTask
    <3>7. f[t] \in TaskRow  BY <3>2, <3>5, <3>6, NewRowType
    <3> QED BY <3>1, <3>2, <3>7, PageTaskIsTask
  <2> QED BY <2>1, <2>2
<1> QED BY <1>1, <1>2 DEF TableOf

\* Inserting rows keeps every old row and adds only new ones.
LEMMA EnqueueTable ==
    ASSUME NEW rows, TableOf(rows, Task, TaskRow), TableOf(tasks, Task, TaskRow)
    PROVE  /\ TableOf(Enqueue(rows), Task, TaskRow)
           /\ DOMAIN tasks \subseteq DOMAIN Enqueue(rows)
           /\ \A t \in DOMAIN tasks : Enqueue(rows)[t] = tasks[t]
BY DEF TableOf, Enqueue

\* A handler that moves on keeps the shape of every worker's batch.
LEMMA AdvanceBatch ==
    ASSUME BatchOK, NEW w \in Workers, NEW t \in DOMAIN batch[w], NEW label \in HandlerAt,
           Advance(w, t, label), DOMAIN tasks \subseteq DOMAIN tasks'
    PROVE  BatchOK'
<1>1. batch'[w] = [batch[w] EXCEPT ![t].at = label]
  BY DEF BatchOK, Advance
<1>2. [batch[w][t] EXCEPT !.at = label] \in Handler
  BY DEF BatchOK, TableOf, Handler
<1>3. TableOf(batch'[w], DOMAIN tasks', Handler)
  BY <1>1, <1>2 DEF BatchOK, TableOf
<1>4. \A u \in Workers \ {w} : batch'[u] = batch[u]
  BY DEF BatchOK, Advance
<1>5. batch' = [u \in Workers |-> batch'[u]]
  BY DEF BatchOK, Advance
<1> QED BY <1>3, <1>4, <1>5 DEF BatchOK, TableOf

\* The same for a handler that remembers what it read.
LEMMA RememberBatch ==
    ASSUME BatchOK, NEW w \in Workers, NEW t \in DOMAIN batch[w], NEW h \in Handler,
           batch' = [batch EXCEPT ![w][t] = h], DOMAIN tasks \subseteq DOMAIN tasks'
    PROVE  BatchOK'
<1>1. batch'[w] = [batch[w] EXCEPT ![t] = h]
  BY DEF BatchOK
<1>3. TableOf(batch'[w], DOMAIN tasks', Handler)
  BY <1>1 DEF BatchOK, TableOf
<1>4. \A u \in Workers \ {w} : batch'[u] = batch[u]
  BY DEF BatchOK
<1>5. batch' = [u \in Workers |-> batch'[u]]
  BY DEF BatchOK
<1> QED BY <1>3, <1>4, <1>5 DEF BatchOK, TableOf

\* The same for a worker whose batch is replaced.
LEMMA ReplaceBatch ==
    ASSUME BatchOK, NEW w \in Workers, NEW f, TableOf(f, DOMAIN tasks', Handler),
           batch' = [batch EXCEPT ![w] = f], DOMAIN tasks \subseteq DOMAIN tasks'
    PROVE  BatchOK'
BY DEF BatchOK, TableOf

\* Changing rows of the task table in place keeps its shape and its keys.
LEMMA UpdateTable ==
    ASSUME TableOf(tasks, Task, TaskRow), NEW rows, rows = [t \in DOMAIN tasks |-> rows[t]],
           \A t \in DOMAIN tasks : rows[t] \in TaskRow
    PROVE  TableOf(rows, Task, TaskRow) /\ DOMAIN rows = DOMAIN tasks
BY DEF TableOf

\* A status change, alone or together with the lease columns.
LEMMA StatusUpdate ==
    ASSUME NEW r \in TaskRow, NEW s \in TaskStatus
    PROVE  [r EXCEPT !.status = s] \in TaskRow
BY DEF TaskRow

LEMMA LeaseUpdate ==
    ASSUME NEW r \in TaskRow, NEW s \in TaskStatus,
           NEW o \in {"none", "page-workflow-executor"}, NEW l \in {"none", "live", "expired"}
    PROVE  [r EXCEPT !.status = s, !.owner = o, !.lease = l] \in TaskRow
BY DEF TaskRow

\* What the table says of a task id that a worker holds.
LEMMA HeldTask ==
    ASSUME TypeOK, NEW w \in Workers, NEW t \in DOMAIN batch[w]
    PROVE  /\ t \in DOMAIN tasks /\ t \in Task /\ tasks[t] \in TaskRow
           /\ batch[w][t] \in Handler
           /\ t.kind # "cross_page_review" => t.page \in Pages /\ t.version \in Version
BY DEF TypeOK, TablesOK, BatchOK, TableOf, Task, PageTask

LEMMA FreshIsHandler == Fresh \in Handler /\ NoPages \in [Pages -> Nat]
BY DEF Fresh, Handler, HandlerAt, NoPages

LEMMA EmptyTable == ASSUME NEW K, NEW R PROVE TableOf(NoBatch, K, R)
BY DEF TableOf, NoBatch

LEMMA LatestType == ASSUME TablesOK PROVE Latest \in [Pages -> Nat]
BY DEF TablesOK, PageRow, Latest

-----------------------------------------------------------------------------
(* Type correctness. *)

LEMMA TypeInit == Init => TypeOK
<1> SUFFICES ASSUME Init PROVE TypeOK  OBVIOUS
<1>1. TablesOK
  BY EmptyTable DEF Init, TablesOK, PageRow, PageStatus, Version
<1>2. BatchOK
  <2>1. \A w \in Workers : batch[w] = NoBatch  BY DEF Init
  <2> QED BY <2>1, EmptyTable DEF Init, BatchOK
<1>3. ControlOK
  <2>1. "off" \in WorkerPc  BY DEF WorkerPc
  <2>2. overruns \in 0..MaxOverruns  BY EnvironmentAssumption DEF EnvironmentAssumption, Init
  <2> QED BY <2>1, <2>2 DEF Init, ControlOK
<1> QED BY <1>1, <1>2, <1>3 DEF TypeOK

LEMMA KeepBatch ==
    ASSUME BatchOK, UNCHANGED batch, DOMAIN tasks \subseteq DOMAIN tasks'
    PROVE  BatchOK'
BY DEF BatchOK, TableOf

LEMMA KeepControl == ASSUME ControlOK, UNCHANGED control PROVE ControlOK'
BY DEF ControlOK, control

LEMMA KeepTables == ASSUME TablesOK, UNCHANGED tables PROVE TablesOK' /\ DOMAIN tasks = DOMAIN tasks'
BY DEF TablesOK, tables

\* A worker that only moves its program counter.
LEMMA GotoControl ==
    ASSUME ControlOK, NEW w \in Workers, NEW label \in WorkerPc, Goto(w, label),
           role' \in [Workers -> {"none", "invoke", "approve", "request_changes", "reject"}],
           held' \in [Workers -> SUBSET Pages],
           UNCHANGED <<outcome, result, overruns>>
    PROVE  ControlOK'
BY DEF ControlOK, Goto

\* Scheduling a pair per page of P keeps the tables.
LEMMA ScheduleTables ==
    ASSUME TablesOK, NEW P \in SUBSET Pages, NEW next \in [Pages -> Version],
           NEW att \in [Pages -> Nat], NEW source \in [Pages -> Nat],
           ScheduleAt(P, next, att, source), UNCHANGED <<sealed, good, evals>>
    PROVE  TablesOK' /\ DOMAIN tasks \subseteq DOMAIN tasks'
<1>1. TableOf(Pairs(P, next, att, FALSE, source), Task, TaskRow)
  BY PairsType
<1>2. TableOf(tasks', Task, TaskRow) /\ DOMAIN tasks \subseteq DOMAIN tasks'
  BY <1>1, EnqueueTable DEF ScheduleAt, TablesOK
<1>3. page' \in [Pages -> PageRow]
  <2>1. ASSUME NEW p \in Pages PROVE page'[p] \in PageRow
    <3>1. page[p] \in PageRow /\ next[p] + 1 \in Version  BY DEF TablesOK, Version
    <3> QED BY <3>1 DEF ScheduleAt, PageRow, PageStatus
  <2> QED BY <2>1 DEF ScheduleAt
<1> QED BY <1>2, <1>3 DEF TablesOK

-----------------------------------------------------------------------------

\* The node and the scheduling loop.
LEMMA TypeExecutor ==
    ASSUME TypeOK, NEW w \in Workers,
           \/ StartInvoke(w) \/ (\E p \in Pages : SeedPage(w, p)) \/ Report(w)
           \/ ResetExpiredLeases(w) \/ ClaimReadyTasks(w) \/ TakeSnapshot(w)
    PROVE  TypeOK'
<1> USE DEF TypeOK
<1>1. CASE StartInvoke(w)
  <2>1. TablesOK'
    BY <1>1 DEF StartInvoke, TablesOK, PageRow, PageStatus
  <2>2. BatchOK'  BY <1>1, KeepBatch DEF StartInvoke
  <2>3. ControlOK'
    <3>1. "seed" \in WorkerPc  BY DEF WorkerPc
    <3> QED BY <1>1, <3>1, GotoControl DEF StartInvoke, ControlOK
  <2> QED BY <2>1, <2>2, <2>3
<1>2. CASE \E p \in Pages : SeedPage(w, p)
  <2> PICK p \in Pages : SeedPage(w, p)  BY <1>2
  <2> DEFINE one == [q \in Pages |-> 1]
  <2>1. one \in [Pages -> Version] /\ one \in [Pages -> Nat] /\ {p} \in SUBSET Pages
    BY DEF Version
  <2>2. TableOf(Pairs({p}, one, one, FALSE, NoPages), Task, TaskRow)
    BY <2>1, PairsType, FreshIsHandler
  <2>3. tasks' = Enqueue(Pairs({p}, one, one, FALSE, NoPages))
    BY DEF SeedPage
  <2>4. TableOf(tasks', Task, TaskRow) /\ DOMAIN tasks \subseteq DOMAIN tasks'
    BY <2>2, <2>3, EnqueueTable DEF TablesOK
  <2>5. TablesOK'  BY <2>4 DEF SeedPage, TablesOK
  <2>6. BatchOK'  BY <2>4, KeepBatch DEF SeedPage
  <2>7. ControlOK'
    <3>1. "seed" \in WorkerPc /\ "reset" \in WorkerPc  BY DEF WorkerPc
    <3>2. held' \in [Workers -> SUBSET Pages]  BY DEF SeedPage, ControlOK
    <3>3. UNCHANGED <<role, outcome, result, overruns>>  BY DEF SeedPage
    <3>4. Goto(w, "seed") \/ Goto(w, "reset")  BY DEF SeedPage
    <3> QED BY <3>1, <3>2, <3>3, <3>4, GotoControl DEF ControlOK
  <2> QED BY <2>5, <2>6, <2>7
<1>3. CASE Report(w)
  <2>1. TablesOK' /\ BatchOK'  BY <1>3, KeepTables, KeepBatch DEF Report, tables
  <2>2. "reported" \in WorkerPc  BY DEF WorkerPc, Terminal
  <2>3. ControlOK'  BY <1>3, <2>2 DEF Report, ControlOK, Goto
  <2> QED BY <2>1, <2>3
<1>4. CASE ResetExpiredLeases(w)
  <2>1. \A t \in DOMAIN tasks : tasks'[t] \in TaskRow
    <3> SUFFICES ASSUME NEW t \in DOMAIN tasks PROVE tasks'[t] \in TaskRow  OBVIOUS
    <3>1. tasks[t] \in TaskRow  BY DEF TablesOK, TableOf
    <3>2. [tasks[t] EXCEPT !.status = "pending", !.owner = "none", !.lease = "none"] \in TaskRow
      BY <3>1, LeaseUpdate DEF TaskStatus
    <3> QED BY <1>4, <3>1, <3>2 DEF ResetExpiredLeases, Recycle
  <2>2. tasks' = [t \in DOMAIN tasks |-> tasks'[t]]
    BY <1>4 DEF ResetExpiredLeases, Recycle
  <2>3. TableOf(tasks', Task, TaskRow) /\ DOMAIN tasks' = DOMAIN tasks
    BY <2>1, <2>2, UpdateTable DEF TablesOK
  <2>4. TablesOK'  BY <1>4, <2>3 DEF ResetExpiredLeases, Recycle, TablesOK
  <2>5. BatchOK'  BY <1>4, <2>3, KeepBatch DEF ResetExpiredLeases, Recycle
  <2>6. "claim" \in WorkerPc  BY DEF WorkerPc
  <2>7. ControlOK'
    BY <1>4, <2>6, GotoControl DEF ResetExpiredLeases, Recycle, ControlOK
  <2> QED BY <2>4, <2>5, <2>7
<1>5. CASE ClaimReadyTasks(w)
  <2> PICK claimed \in SUBSET DOMAIN tasks :
        /\ tasks' = [t \in DOMAIN tasks |->
                       IF t \in claimed
                       THEN [tasks[t] EXCEPT !.status = "running",
                                             !.owner = LeaseOwner(w), !.lease = "live"]
                       ELSE tasks[t]]
        /\ batch' = [batch EXCEPT ![w] = [t \in claimed |-> Fresh]]
        /\ Goto(w, IF claimed = {} THEN "snapshot" ELSE "run")
    BY <1>5 DEF ClaimReadyTasks
  <2>1. \A t \in DOMAIN tasks : tasks'[t] \in TaskRow
    <3> SUFFICES ASSUME NEW t \in DOMAIN tasks PROVE tasks'[t] \in TaskRow  OBVIOUS
    <3>1. tasks[t] \in TaskRow  BY DEF TablesOK, TableOf
    <3>2. [tasks[t] EXCEPT !.status = "running", !.owner = LeaseOwner(w), !.lease = "live"] \in TaskRow
      BY <3>1, LeaseUpdate DEF TaskStatus, LeaseOwner
    <3> QED BY <3>1, <3>2
  <2>2. tasks' = [t \in DOMAIN tasks |-> tasks'[t]]  OBVIOUS
  <2>3. TableOf(tasks', Task, TaskRow) /\ DOMAIN tasks' = DOMAIN tasks
    BY <2>1, <2>2, UpdateTable DEF TablesOK
  <2>4. TablesOK'  BY <1>5, <2>3 DEF ClaimReadyTasks, TablesOK
  <2>5. TableOf([t \in claimed |-> Fresh], DOMAIN tasks', Handler)
    BY <2>3, FreshIsHandler DEF TableOf
  <2>6. BatchOK'  BY <2>3, <2>5, ReplaceBatch
  <2>7. "snapshot" \in WorkerPc /\ "run" \in WorkerPc  BY DEF WorkerPc
  <2>8. UNCHANGED <<role, held, outcome, result, overruns>>  BY <1>5 DEF ClaimReadyTasks
  <2>9. Goto(w, "snapshot") \/ Goto(w, "run")  OBVIOUS
  <2>10. ControlOK'  BY <2>7, <2>8, <2>9, GotoControl DEF ControlOK
  <2> QED BY <2>4, <2>6, <2>10
<1>6. CASE TakeSnapshot(w)
  <2>1. TablesOK' /\ BatchOK'  BY <1>6, KeepTables, KeepBatch DEF TakeSnapshot, tables
  <2>2. {"deadlocked", "report", "reset"} \subseteq WorkerPc  BY DEF WorkerPc, Terminal
  <2>3. pc' \in [Workers -> WorkerPc]  BY <1>6, <2>2 DEF TakeSnapshot, ControlOK, Goto
  <2>4. ControlOK'  BY <1>6, <2>3 DEF TakeSnapshot, ControlOK
  <2> QED BY <2>1, <2>4
<1> QED BY <1>1, <1>2, <1>3, <1>4, <1>5, <1>6

\* Persisting the outcomes of a gathered batch.
LEMMA AfterSettlingType ==
    ASSUME TypeOK, NEW w \in Workers, NEW t \in DOMAIN batch[w], NEW failed \in BOOLEAN,
           AfterSettling(w, t, failed), TableOf(tasks', Task, TaskRow), DOMAIN tasks' = DOMAIN tasks
    PROVE  TypeOK'
<1>1. TablesOK'  BY DEF TypeOK, TablesOK, AfterSettling
<1>2. BatchOK'
  <2>1. TableOf(batch[w], DOMAIN tasks, Handler)  BY DEF TypeOK, BatchOK
  <2>2. TableOf(Without(batch[w], t), DOMAIN tasks', Handler)
    BY <2>1 DEF TableOf, Without
  <2>3. batch' = [batch EXCEPT ![w] = Without(batch[w], t)]
    BY DEF AfterSettling
  <2> QED BY <2>2, <2>3, ReplaceBatch DEF TypeOK
<1>3. ControlOK'
  <2>1. {"run", "reset", "failed", "report"} \subseteq WorkerPc  BY DEF WorkerPc, Terminal
  <2>2. pc' \in [Workers -> WorkerPc]  BY <2>1 DEF AfterSettling, Goto, TypeOK, ControlOK
  <2>3. outcome' \in [Workers -> {"none", "failed", "deadlocked"}]
    BY DEF AfterSettling, TypeOK, ControlOK
  <2> QED BY <2>2, <2>3 DEF AfterSettling, TypeOK, ControlOK
<1> QED BY <1>1, <1>2, <1>3 DEF TypeOK

LEMMA TypeSettle ==
    ASSUME TypeOK, NEW w \in Workers, NEW t \in DOMAIN batch[w],
           CompleteTask(w, t) \/ RetryOrFailTask(w, t)
    PROVE  TypeOK'
<1>1. t \in DOMAIN tasks /\ tasks[t] \in TaskRow  BY HeldTask
<1>2. TableOf(tasks, Task, TaskRow)  BY DEF TypeOK, TablesOK
<1>3. CASE CompleteTask(w, t)
  <2>1. [tasks[t] EXCEPT !.status = "completed"] \in TaskRow
    BY <1>1, StatusUpdate DEF TaskStatus
  <2>2. TableOf(tasks', Task, TaskRow) /\ DOMAIN tasks' = DOMAIN tasks
    BY <1>1, <1>2, <1>3, <2>1 DEF CompleteTask, TableOf
  <2> QED BY <1>3, <2>2, AfterSettlingType DEF CompleteTask
<1>4. CASE RetryOrFailTask(w, t)
  <2> DEFINE s == IF tasks[t].retries < 1 THEN "pending" ELSE "failed"
  <2> DEFINE row == [tasks[t] EXCEPT !.status = s, !.retries = 1, !.owner = "none", !.lease = "none"]
  <2>1. row \in TaskRow
    <3>1. s \in TaskStatus /\ 1 \in 0..1  BY DEF TaskStatus
    <3> HIDE DEF s
    <3> QED BY <1>1, <3>1 DEF TaskRow
  <2>2. tasks' = tasks \/ tasks' = [tasks EXCEPT ![t] = row]
    BY <1>1, <1>4 DEF RetryOrFailTask, RetryOrFail
  <2>3. TableOf(tasks', Task, TaskRow) /\ DOMAIN tasks' = DOMAIN tasks
    BY <1>1, <1>2, <2>1, <2>2 DEF TableOf
  <2>4. AfterSettling(w, t, Owned(w, t) /\ ~(tasks[t].retries < 1))
    BY <1>4 DEF RetryOrFailTask, RetryOrFail
  <2>5. (Owned(w, t) /\ ~(tasks[t].retries < 1)) \in BOOLEAN  OBVIOUS
  <2> QED BY <2>3, <2>4, <2>5, AfterSettlingType
<1> QED BY <1>3, <1>4

\* Handler steps.
LEMMA TypeHandler ==
    ASSUME TypeOK, NEW w \in Workers, NEW t \in DOMAIN batch[w], HandlerStep(w, t)
    PROVE  TypeOK'
<1> USE DEF TypeOK
<1>0. /\ t \in DOMAIN tasks /\ t \in Task /\ tasks[t] \in TaskRow /\ batch[w][t] \in Handler
      /\ t.kind # "cross_page_review" => t.page \in Pages /\ t.version \in Version
  BY HeldTask
<1>a. {"writing", "promote", "replay", "record", "revise", "count", "enqueue", "verdict",
       "ok", "error"} \subseteq HandlerAt
  BY DEF HandlerAt
<1>b. ASSUME NEW label \in HandlerAt, Advance(w, t, label), UNCHANGED <<tables, control>>
      PROVE  TypeOK'
  BY <1>b, AdvanceBatch, KeepTables, KeepControl
<1>1. CASE WriterPrepare(w, t)
  <2>1. \E label \in HandlerAt : Advance(w, t, label)
    BY <1>1, <1>a DEF WriterPrepare
  <2> QED BY <1>1, <1>b, <2>1 DEF WriterPrepare
<1>2. CASE WriterSeals(w, t)
  <2>1. UNCHANGED <<page, evals, tasks, control>> /\ Advance(w, t, "promote")
    BY <1>2 DEF WriterSeals
  <2>2. BatchOK' /\ ControlOK'  BY <1>a, <2>1, AdvanceBatch, KeepControl
  <2>3. t.page \in Pages /\ t.version \in Version  BY <1>0, <1>2 DEF WriterSeals
  <2>4. sealed' \in [Pages -> SUBSET Version]  BY <1>2, <2>3 DEF WriterSeals, TablesOK
  <2>5. good' \in [Pages -> SUBSET Version]  BY <1>2, <2>3 DEF WriterSeals, TablesOK
  <2> QED BY <2>1, <2>2, <2>4, <2>5 DEF TablesOK
<1>3. CASE RecordArtifact(w, t)
  <2>1. UNCHANGED <<sealed, good, evals, tasks, control>>
    BY <1>3 DEF RecordArtifact, Promote
  <2>2. \E label \in HandlerAt : Advance(w, t, label)
    BY <1>3, <1>a DEF RecordArtifact, Promote
  <2>3. BatchOK' /\ ControlOK'  BY <2>1, <2>2, AdvanceBatch, KeepControl
  <2>4. t.page \in Pages /\ t.version \in Version  BY <1>0, <1>3 DEF RecordArtifact, Promote
  <2>5. page' = page \/ page' = [page EXCEPT ![t.page].latest = t.version, ![t.page].status = "evaluating"]
    BY <1>3 DEF RecordArtifact, Promote
  <2>6. page' \in [Pages -> PageRow]
    BY <2>4, <2>5 DEF TablesOK, PageRow, PageStatus, Version
  <2> QED BY <2>1, <2>3, <2>6 DEF TablesOK
<1>4. CASE EvaluatorReads(w, t)
  <2>1. \E label \in HandlerAt : Advance(w, t, label)
    BY <1>4, <1>a DEF EvaluatorReads
  <2> QED BY <1>4, <1>b, <2>1 DEF EvaluatorReads
<1>5. CASE RecordEvaluation(w, t)
  <2>1. UNCHANGED <<sealed, good, tasks, control>>
    BY <1>5 DEF RecordEvaluation, StoreEvaluation
  <2>2. \E label \in HandlerAt : Advance(w, t, label)
    <3>1. CASE page[t.page].latest = t.version
      BY <1>5, <1>a, <3>1 DEF RecordEvaluation, StoreEvaluation
    <3>2. CASE page[t.page].latest # t.version
      BY <1>5, <1>a, <3>2 DEF RecordEvaluation, StoreEvaluation
    <3> QED BY <3>1, <3>2
  <2>3. BatchOK' /\ ControlOK'  BY <2>1, <2>2, AdvanceBatch, KeepControl
  <2>4. t.page \in Pages /\ t.version \in Version
    BY <1>0, <1>5 DEF RecordEvaluation, StoreEvaluation
  <2> DEFINE row == [page |-> t.page, version |-> t.version,
                     attempt |-> tasks[t].attempt, status |-> Verdict(t)]
  <2>5. row \in EvalRow
    BY <1>0, <2>4 DEF EvalRow, EvalStatus, Verdict, TaskRow
  <2>6. CASE UNCHANGED <<evals, page>>  BY <2>1, <2>3, <2>6 DEF TablesOK
  <2>7. CASE page[t.page].latest = t.version
    <3>1. PICK e \in (IF Stored(t.page, t.version) = {} THEN {row} ELSE Stored(t.page, t.version)) :
            /\ evals' = evals \cup {e}
            /\ page' = [page EXCEPT
                 ![t.page].attempt = IF e.status \in EvalStatus THEN e.attempt ELSE @,
                 ![t.page].status = IF e.status = "revision_required" THEN "revising" ELSE e.status]
      BY <1>5, <2>7 DEF RecordEvaluation, StoreEvaluation
    <3>2. e \in EvalRow  BY <2>5 DEF Stored, TablesOK
    <3>3. e.status \in EvalStatus /\ e.attempt \in Nat  BY <3>2 DEF EvalRow
    <3>4. page' \in [Pages -> PageRow]
      BY <2>4, <3>1, <3>3 DEF TablesOK, PageRow, PageStatus, EvalStatus
    <3> QED BY <2>1, <2>3, <3>1, <3>2, <3>4 DEF TablesOK
  <2> QED BY <1>5, <2>6, <2>7 DEF RecordEvaluation, StoreEvaluation
<1>6. CASE EvaluatorRevises(w, t)
  <2> DEFINE ver == [p \in Pages |-> t.version]
  <2> DEFINE att == [p \in Pages |-> tasks[t].attempt + 1]
  <2> DEFINE next == [p \in Pages |-> ver[p] + 1]
  <2>1. UNCHANGED <<sealed, good, evals, control>>  BY <1>6 DEF EvaluatorRevises
  <2>2. t.page \in Pages /\ t.version \in Version  BY <1>0, <1>6 DEF EvaluatorRevises
  <2>3. next \in [Pages -> Version] /\ att \in [Pages -> Nat] /\ ver \in [Pages -> Nat]
    BY <1>0, <2>2 DEF Version, TaskRow
  <2>4. \/ ScheduleAt({t.page}, next, att, ver) /\ Advance(w, t, "ok")
        \/ UNCHANGED <<page, tasks>> /\ Advance(w, t, "error")
    BY <1>6 DEF EvaluatorRevises, ScheduleRevisions
  <2>5. CASE ScheduleAt({t.page}, next, att, ver) /\ Advance(w, t, "ok")
    <3>1. TablesOK' /\ DOMAIN tasks \subseteq DOMAIN tasks'
      BY <2>1, <2>2, <2>3, <2>5, ScheduleTables
    <3> QED BY <1>a, <2>1, <2>5, <3>1, AdvanceBatch, KeepControl
  <2>6. CASE UNCHANGED <<page, tasks>> /\ Advance(w, t, "error")
    BY <1>a, <1>b, <2>1, <2>6 DEF tables
  <2> QED BY <2>4, <2>5, <2>6
<1>7. CASE EvaluatorCounts(w, t)
  <2>1. PICK h : h = (IF AllPassed THEN [batch[w][t] EXCEPT !.at = "enqueue", !.ver = Latest]
                                   ELSE [batch[w][t] EXCEPT !.at = "ok"])
    OBVIOUS
  <2>2. h \in Handler
    BY <1>0, <1>a, <2>1, LatestType DEF Handler
  <2>3. batch' = [batch EXCEPT ![w][t] = h]
    BY <1>7, <2>1 DEF EvaluatorCounts
  <2>4. UNCHANGED <<tables, control>>  BY <1>7 DEF EvaluatorCounts
  <2>5. TablesOK' /\ ControlOK' /\ DOMAIN tasks = DOMAIN tasks'  BY <2>4, KeepTables, KeepControl
  <2>6. BatchOK'  BY <2>2, <2>3, <2>5, RememberBatch
  <2> QED BY <2>5, <2>6
<1>8. CASE EvaluatorEnqueuesReview(w, t)
  <2> DEFINE id == batch[w][t].ver
  <2> DEFINE new == [r \in {ReviewTask(id)} |-> NewRow({t}, 0, FALSE, 0)]
  <2>1. UNCHANGED <<page, sealed, good, evals, control>>
    BY <1>8 DEF EvaluatorEnqueuesReview, EnqueueReview
  <2>2. \/ tasks' = Enqueue(new) /\ Advance(w, t, "ok")
        \/ tasks' = tasks /\ Advance(w, t, "error")
    BY <1>8 DEF EvaluatorEnqueuesReview, EnqueueReview
  <2>3. ReviewTask(id) \in Task  BY <1>0 DEF ReviewTask, Task, Handler
  <2>4. NewRow({t}, 0, FALSE, 0) \in TaskRow
    <3>1. {t} \in SUBSET Task /\ 0 \in Nat /\ FALSE \in BOOLEAN  BY <1>0
    <3> QED BY <3>1, NewRowType
  <2>5. TableOf(new, Task, TaskRow)  BY <2>3, <2>4 DEF TableOf
  <2>6. CASE tasks' = Enqueue(new) /\ Advance(w, t, "ok")
    <3>1. TableOf(tasks', Task, TaskRow) /\ DOMAIN tasks \subseteq DOMAIN tasks'
      BY <2>5, <2>6, EnqueueTable DEF TablesOK
    <3>2. TablesOK'  BY <2>1, <3>1 DEF TablesOK
    <3> QED BY <1>a, <2>1, <2>6, <3>1, <3>2, AdvanceBatch, KeepControl
  <2>7. CASE tasks' = tasks /\ Advance(w, t, "error")
    BY <1>a, <1>b, <2>1, <2>7 DEF tables
  <2> QED BY <2>2, <2>6, <2>7
<1>9. CASE ReviewerReads(w, t)
  <2> DEFINE seen == [at |-> "verdict", ver |-> Latest, att |-> [p \in Pages |-> page[p].attempt]]
  <2>1. PICK h : h = (IF Reviewable(t) THEN seen ELSE [batch[w][t] EXCEPT !.at = "error"])
    OBVIOUS
  <2>2. h \in Handler
    BY <1>0, <1>a, <2>1, LatestType DEF Handler, TablesOK, PageRow
  <2>3. batch' = [batch EXCEPT ![w][t] = h]
    BY <1>9, <2>1 DEF ReviewerReads
  <2>4. UNCHANGED <<tables, control>>  BY <1>9 DEF ReviewerReads
  <2>5. TablesOK' /\ ControlOK' /\ DOMAIN tasks = DOMAIN tasks'  BY <2>4, KeepTables, KeepControl
  <2>6. BatchOK'  BY <2>2, <2>3, <2>5, RememberBatch
  <2> QED BY <2>5, <2>6
<1>10. CASE ReviewerClean(w, t)
  BY <1>10, <1>a, <1>b DEF ReviewerClean
<1>11. CASE ReviewerCorrects(w, t)
  <2> DEFINE ver == batch[w][t].ver
  <2> DEFINE att == [p \in Pages |-> batch[w][t].att[p] + 1]
  <2> DEFINE next == [p \in Pages |-> ver[p] + 1]
  <2>1. UNCHANGED <<sealed, good, evals, control>>  BY <1>11 DEF ReviewerCorrects
  <2>2. next \in [Pages -> Version] /\ att \in [Pages -> Nat]
    BY <1>0 DEF Version, Handler
  <2>3. PICK P \in SUBSET Pages :
           \/ ScheduleAt(P, next, att, NoPages) /\ Advance(w, t, "ok")
           \/ UNCHANGED <<page, tasks>> /\ Advance(w, t, "error")
    BY <1>11 DEF ReviewerCorrects, ScheduleRevisions
  <2>4. CASE ScheduleAt(P, next, att, NoPages) /\ Advance(w, t, "ok")
    <3>1. TablesOK' /\ DOMAIN tasks \subseteq DOMAIN tasks'
      BY <2>1, <2>2, <2>4, ScheduleTables, FreshIsHandler
    <3> QED BY <1>a, <2>1, <2>4, <3>1, AdvanceBatch, KeepControl
  <2>5. CASE UNCHANGED <<page, tasks>> /\ Advance(w, t, "error")
    BY <1>a, <1>b, <2>1, <2>5 DEF tables
  <2> QED BY <2>3, <2>4, <2>5
<1>12. CASE HandlerFails(w, t)
  BY <1>12, <1>a, <1>b DEF HandlerFails
<1> QED
  BY <1>1, <1>2, <1>3, <1>4, <1>5, <1>6, <1>7, <1>8, <1>9, <1>10, <1>11, <1>12 DEF HandlerStep

\* Review decisions.
LEMMA StartDecisionType ==
    ASSUME TypeOK, NEW w \in Workers, NEW decision \in {"approve", "request_changes", "reject"},
           NEW label \in WorkerPc, StartDecision(w, decision, label),
           UNCHANGED <<page, sealed, good, evals, tasks, batch, outcome, result, overruns>>
    PROVE  TypeOK'
<1>1. TablesOK' /\ BatchOK'  BY KeepTables, KeepBatch DEF TypeOK, tables
<1>2. "report" \in WorkerPc  BY DEF WorkerPc
<1>3. Goto(w, "report") \/ Goto(w, label)  BY DEF StartDecision
<1>4. role' \in [Workers -> {"none", "invoke", "approve", "request_changes", "reject"}]
  BY DEF StartDecision, TypeOK, ControlOK
<1>5. held' \in [Workers -> SUBSET Pages]
  BY DEF StartDecision, TypeOK, ControlOK, Escalated
<1>6. ControlOK'  BY <1>2, <1>3, <1>4, <1>5, GotoControl DEF TypeOK
<1> QED BY <1>1, <1>6 DEF TypeOK

LEMMA TypeDecision ==
    ASSUME TypeOK, NEW w \in Workers,
           \/ StartApprove(w) \/ StartRequestChanges(w) \/ StartReject(w) \/ DecisionStep(w)
    PROVE  TypeOK'
<1> USE DEF TypeOK
<1>0. {"approve", "changes", "cancel", "reject", "report", "reset"} \subseteq WorkerPc
  BY DEF WorkerPc
<1>1. CASE StartApprove(w)  BY <1>0, <1>1, StartDecisionType DEF StartApprove
<1>2. CASE StartRequestChanges(w)  BY <1>0, <1>2, StartDecisionType DEF StartRequestChanges
<1>3. CASE StartReject(w)  BY <1>0, <1>3, StartDecisionType DEF StartReject
<1>4. CASE \E p \in Pages : ApprovePage(w, p)
  <2> PICK p \in Pages : ApprovePage(w, p)  BY <1>4
  <2>1. page' \in [Pages -> PageRow]
    <3>1. page' = page \/ page' = [page EXCEPT ![p].status = "passed"]
      BY DEF ApprovePage, Approve
    <3> QED BY <3>1 DEF TablesOK, PageRow, PageStatus
  <2>2. TablesOK' /\ BatchOK'  BY <2>1, KeepBatch DEF ApprovePage, Approve, TablesOK
  <2>3. held' \in [Workers -> SUBSET Pages]  BY DEF ApprovePage, Approve, ControlOK
  <2>4. Goto(w, "report") \/ Goto(w, "approve")  BY DEF ApprovePage, Approve
  <2>5. UNCHANGED <<role, outcome, result, overruns>>  BY DEF ApprovePage, Approve
  <2>6. ControlOK'  BY <1>0, <2>3, <2>4, <2>5, GotoControl DEF ControlOK
  <2> QED BY <2>2, <2>6
<1>5. CASE ScheduleHumanRevisions(w)
  <2> DEFINE next == [p \in Pages |-> page[p].latest + 1]
  <2> DEFINE att == [p \in Pages |-> page[p].attempt]
  <2>1. next \in [Pages -> Version] /\ att \in [Pages -> Nat] /\ Escalated \in SUBSET Pages
    BY DEF TablesOK, PageRow, Version, Escalated
  <2>2. TableOf(Pairs(Escalated, next, att, TRUE, NoPages), Task, TaskRow)
    BY <2>1, PairsType, FreshIsHandler
  <2>3. tasks' = Enqueue(Pairs(Escalated, next, att, TRUE, NoPages))
    BY <1>5 DEF ScheduleHumanRevisions
  <2>4. TableOf(tasks', Task, TaskRow) /\ DOMAIN tasks \subseteq DOMAIN tasks'
    BY <2>2, <2>3, EnqueueTable DEF TablesOK
  <2>5. page' \in [Pages -> PageRow]
    <3>1. ASSUME NEW p \in Pages PROVE page'[p] \in PageRow
      <4>1. page[p] \in PageRow /\ next[p] + 1 \in Version
        BY <2>1 DEF TablesOK, Version
      <4> QED BY <1>5, <4>1 DEF ScheduleHumanRevisions, PageRow, PageStatus
    <3> QED BY <1>5, <3>1 DEF ScheduleHumanRevisions
  <2>6. TablesOK' /\ BatchOK'
    BY <1>5, <2>4, <2>5, KeepBatch DEF ScheduleHumanRevisions, TablesOK
  <2>7. held' \in [Workers -> SUBSET Pages]  BY <1>5 DEF ScheduleHumanRevisions, ControlOK
  <2>8. ControlOK'
    BY <1>0, <1>5, <2>7, GotoControl DEF ScheduleHumanRevisions, ControlOK
  <2> QED BY <2>6, <2>8
<1>6. CASE CancelPendingTasks(w)
  <2>1. ASSUME NEW t \in DOMAIN tasks PROVE tasks'[t] \in TaskRow
    <3>1. tasks[t] \in TaskRow  BY DEF TablesOK, TableOf
    <3>2. [tasks[t] EXCEPT !.status = "cancelled"] \in TaskRow
      BY <3>1, StatusUpdate DEF TaskStatus
    <3> QED BY <1>6, <3>1, <3>2 DEF CancelPendingTasks
  <2>2. tasks' = [t \in DOMAIN tasks |-> tasks'[t]]  BY <1>6 DEF CancelPendingTasks
  <2>3. TableOf(tasks', Task, TaskRow) /\ DOMAIN tasks' = DOMAIN tasks
    BY <2>1, <2>2, UpdateTable DEF TablesOK
  <2>4. TablesOK' /\ BatchOK'
    BY <1>6, <2>3, KeepBatch DEF CancelPendingTasks, TablesOK
  <2>5. pc' \in [Workers -> WorkerPc]  BY <1>0, <1>6 DEF CancelPendingTasks, Goto, ControlOK
  <2>6. ControlOK'  BY <1>6, <2>5 DEF CancelPendingTasks, ControlOK
  <2> QED BY <2>4, <2>6
<1>7. CASE MarkEscalatedFailed(w)
  <2>1. page' \in [Pages -> PageRow]
    BY <1>7 DEF MarkEscalatedFailed, TablesOK, PageRow, PageStatus
  <2>2. TablesOK' /\ BatchOK'
    BY <1>7, <2>1, KeepBatch DEF MarkEscalatedFailed, TablesOK
  <2>3. held' \in [Workers -> SUBSET Pages]  BY <1>7 DEF MarkEscalatedFailed, ControlOK
  <2>4. ControlOK'  BY <1>0, <1>7, <2>3, GotoControl DEF MarkEscalatedFailed, ControlOK
  <2> QED BY <2>2, <2>4
<1> QED BY <1>1, <1>2, <1>3, <1>4, <1>5, <1>6, <1>7 DEF DecisionStep

\* Time and death.
LEMMA TypeEnvironment ==
    ASSUME TypeOK, \/ \E t \in DOMAIN tasks : LeaseExpires(t)
                   \/ \E w \in Workers : Crash(w)
    PROVE  TypeOK'
<1> USE DEF TypeOK
<1>1. CASE \E t \in DOMAIN tasks : LeaseExpires(t)
  <2> PICK t \in DOMAIN tasks : LeaseExpires(t)  BY <1>1
  <2>1. tasks[t] \in TaskRow  BY DEF TablesOK, TableOf
  <2>2. [tasks[t] EXCEPT !.lease = "expired"] \in TaskRow  BY <2>1 DEF TaskRow
  <2>3. TableOf(tasks', Task, TaskRow) /\ DOMAIN tasks' = DOMAIN tasks
    BY <2>2 DEF LeaseExpires, TablesOK, TableOf
  <2>4. TablesOK' /\ BatchOK'  BY <2>3, KeepBatch DEF LeaseExpires, TablesOK
  <2>5. overruns' \in 0..MaxOverruns
    BY EnvironmentAssumption DEF EnvironmentAssumption, LeaseExpires, ControlOK
  <2>6. ControlOK'  BY <2>5 DEF LeaseExpires, ControlOK
  <2> QED BY <2>4, <2>6
<1>2. CASE \E w \in Workers : Crash(w)
  <2> PICK w \in Workers : Crash(w)  BY <1>2
  <2>1. TablesOK' /\ DOMAIN tasks' = DOMAIN tasks  BY KeepTables DEF Crash
  <2>2. BatchOK'  BY <2>1, EmptyTable, ReplaceBatch DEF Crash
  <2>3. "crashed" \in WorkerPc  BY DEF WorkerPc, Terminal
  <2>4. held' \in [Workers -> SUBSET Pages]  BY DEF Crash, ControlOK
  <2>5. ControlOK'  BY <2>3, <2>4, GotoControl DEF Crash, ControlOK
  <2> QED BY <2>1, <2>2, <2>5
<1> QED BY <1>1, <1>2

LEMMA TypeNext == TypeOK /\ [Next]_vars => TypeOK'
<1> SUFFICES ASSUME TypeOK, [Next]_vars PROVE TypeOK'  OBVIOUS
<1>1. CASE UNCHANGED vars
  <2>1. UNCHANGED <<tables, control>> /\ UNCHANGED batch  BY <1>1 DEF vars, tables, control
  <2> QED BY <2>1, KeepTables, KeepBatch, KeepControl DEF TypeOK
<1>2. ASSUME NEW w \in Workers, Start(w) \/ Step(w) PROVE TypeOK'
  <2>1. \/ StartInvoke(w) \/ (\E p \in Pages : SeedPage(w, p)) \/ Report(w)
        \/ ResetExpiredLeases(w) \/ ClaimReadyTasks(w) \/ TakeSnapshot(w)
        \/ StartApprove(w) \/ StartRequestChanges(w) \/ StartReject(w) \/ DecisionStep(w)
        \/ \E t \in DOMAIN batch[w] : CompleteTask(w, t) \/ RetryOrFailTask(w, t) \/ HandlerStep(w, t)
    BY <1>2 DEF Start, Step, ExecutorStep
  <2> QED BY <2>1, TypeExecutor, TypeSettle, TypeHandler, TypeDecision
<1> QED BY <1>1, <1>2, TypeEnvironment DEF Next, Quiet

\* Every table row and every worker's memory keeps its declared shape, for every
\* number of pages and workers: a task is retried at most once and a worker
\* never holds a task that is not in the table.
THEOREM TypeCorrect == Spec => []TypeOK
BY TypeInit, TypeNext, PTL DEF Spec
=============================================================================
