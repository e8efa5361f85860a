------------------------ MODULE RunLifecycleProofs ------------------------
(***************************************************************************)
(* What holds of one run for any number of deliveries, retries, decisions, *)
(* responders and sweepers, whatever crashes, raises or is lost.           *)
(***************************************************************************)
EXTENDS RunLifecycle, SequenceTheorems, TLAPS

(* The inductive invariants. *)

Decisions == {"approve", "reject", "request_changes"}

\* Where a process is, or goes once its status writes are made.
At(p) == IF pc[p] = "write" THEN after[p] ELSE pc[p]

\* No process ever writes "absent" over a status.
StatusWrite == [row : Row, status : Status \ {"absent"}]

Resting == {"off", "claim", "graph", "done", "reply", "decide", "raised", "revise"}

\* A process that writes has something to write, and somewhere to go.
WritesOK ==
    /\ todo \in [Procs -> Seq(StatusWrite)]
    /\ after \in [Procs -> Resting]
    /\ \A p \in Procs : pc[p] = "write" => todo[p] # <<>>

\* A worker is where its kind of call may be, and answers a row that exists.
RoleOK(w) ==
    /\ At(w) = "off" => me[w] = Idle
    /\ At(w) \in {"register", "job", "claim", "canonical", "reconcile"} => IsRun(w)
    /\ At(w) \in {"check", "record", "revise", "decide"} => me[w].kind \in Decisions
    /\ At(w) \in {"record", "revise"} => me[w].kind = "request_changes"
    /\ At(w) \in {"lookup", "replay", "take", "reply"} => me[w].kind = "respond"
    /\ At(w) = "preflight" => me[w].kind \in {"approve", "reject", "respond"}
    /\ At(w) \in {"graph", "finish"} => IsRun(w) \/ me[w].kind \in {"approve", "reject", "respond"}
    /\ me[w].kind = "respond" => /\ me[w].target \in DOMAIN asks
                                 /\ me[w].action \in {"approve", "deny"}
    /\ me[w].kind \in Decisions => me[w].target \in DOMAIN reviews

\* The tables, the history and the workers' memory.
TablesOK ==
    /\ row \in [Row -> Status] /\ clock \in {"unset", "fresh", "old"} /\ envelope \in BOOLEAN
    /\ session \in Session /\ reviews \in Seq(Review) /\ asks \in Seq(Ask)
    /\ runs \in Nat /\ delivered \in Nat /\ revisions \in Nat
    /\ me \in [Workers -> Memory]

ControlTypes == pc \in [Procs -> Pc] /\ WritesOK

Control == ControlTypes /\ TablesOK /\ \A w \in Workers : RoleOK(w)

\* The claim's INSERT admits one worker to the graph of the event, for ever.
ClaimInv ==
    /\ runs <= 1
    /\ row["event"] = "absent" => runs = 0
    /\ \A w \in Workers : pc[w] = "canonical" => runs = 0 /\ row["event"] # "absent"
    /\ \A u, w \in Workers : pc[u] = "canonical" /\ pc[w] = "canonical" => u = w

\* Review r was approved by a call that is over, whose own graph completed.
Confirmed(r) ==
    \E w \in Workers : /\ pc[w] \in {"done", "crashed"}
                       /\ me[w].kind = "approve" /\ me[w].target = r
                       /\ me[w].result = "completed" /\ me[w].receipt # "hollow"
                       /\ reviews[r].on = 0 => me[w].gate

\* An approval of the gate opens it before its graph goes on.
GateOpened(w) ==
    me[w].kind = "approve" /\ At(w) \in {"graph", "finish", "decide"} /\ reviews[me[w].target].on = 0
    => me[w].gate

\* What a worker believes of its graph goes back to that graph's end.
ConfirmInv ==
    /\ \A w \in Workers : /\ me[w].result = "completed" => me[w].receipt # "hollow"
                          /\ At(w) = "decide" /\ me[w].answer = "delivered" => me[w].result = "completed"
                          /\ GateOpened(w)
    /\ \A r \in DOMAIN reviews : reviews[r].status = "approved" => Confirmed(r)

\* Somebody approved the gate itself.
GateApproved == \E w \in Workers : me[w].kind = "approve" /\ reviews[me[w].target].on = 0

\* Wherever a gate is open, in memory or in the session, it was approved.
GateInv ==
    NeedsReview =>
        /\ \A w \in Workers : me[w].gate => GateApproved
        /\ session.gate => GateApproved
        /\ delivered > 0 => GateApproved

\* All responders of intervention i bring keys of their own.
OwnKeys(i) == \A w \in Workers : me[w].kind = "respond" /\ me[w].target = i => me[w].key = "own"

\* A responder about to resume the graph of intervention i.
Resuming(w, i) == pc[w] = "preflight" /\ me[w].kind = "respond" /\ me[w].target = i

\* The right to resume passes from the pending row to one responder.
OneResumer(i) ==
    /\ asks[i].resumes <= 1
    /\ asks[i].status = "pending" => asks[i].resumes = 0
    /\ \A w \in Workers : Resuming(w, i) => asks[i].resumes = 0 /\ asks[i].status # "pending"
    /\ \A u, w \in Workers : Resuming(u, i) /\ Resuming(w, i) => u = w

ResumeInv == \A i \in DOMAIN asks : OwnKeys(i) => OneResumer(i)

-----------------------------------------------------------------------------
(* The sweep, when no process dies and no write is lost. *)

\* An event is not written anything but "failed" before a graph has returned.
EarlyWrite == {x \in StatusWrite : x.row = "event" => x.status = "failed"}

\* A write that does not start the job's clock.
LaterWrite == {x \in StatusWrite : x.row = "job" => x.status # "running"}

\* Before a graph has returned there is nothing to resume and nothing to decide.
NothingYet ==
    ~envelope =>
        /\ session.at # "paused"
        /\ reviews = <<>>
        /\ row["event"] \in {"absent", "running", "failed"}
        /\ todo \in [Procs -> Seq(EarlyWrite)]
        /\ \A w \in Workers : At(w) # "finish" /\ (At(w) = "graph" => IsRun(w))

\* A job is started by a run on its way to the claim, and by nobody else before it.
StartsClaim ==
    row["event"] = "absent" => \A p \in Procs : At(p) = "claim" \/ todo[p] \in Seq(LaterWrite)

\* A job that has started and has no claim yet is on its way to it.
ClaimComes ==
    clock # "unset" /\ row["event"] = "absent" => \E w \in Workers : At(w) = "claim"

\* Once started_at has passed the cutoff, no fresh run is ahead of its graph.
OldIsOver ==
    clock = "old" => /\ row["event"] # "absent"
                     /\ \A w \in Workers : IsRun(w) => At(w) \notin {"canonical", "graph"}

\* The sweep marks a run that was stale and had not returned, and still is.
Sweeping(s) ==
    /\ At(s) \in {"off", "recheck", "mark", "align"}
    /\ pc[s] \in {"recheck", "mark"} => clock = "old"
    /\ pc[s] = "mark" => ~envelope

SweepInv == NothingYet /\ StartsClaim /\ ClaimComes /\ OldIsOver /\ \A s \in Sweepers : Sweeping(s)

-----------------------------------------------------------------------------
(* Status writes. *)

LEMMA SetType ==
    ASSUME NEW S, NEW r, NEW s, [row |-> r, status |-> s] \in S
    PROVE  Set(r, s) \in Seq(S) /\ Set(r, s) # <<>>
BY DEF Set

LEMMA ConcatType ==
    ASSUME NEW S, NEW p \in Seq(S), NEW q \in Seq(S)
    PROVE  p \o q \in Seq(S) /\ (p # <<>> => p \o q # <<>>)
BY ConcatProperties, EmptySeq

LEMMA TailNonempty ==
    ASSUME NEW S, NEW q \in Seq(S), q # <<>>, Len(q) # 1
    PROVE  Tail(q) # <<>>
<1>1. Len(Tail(q)) = Len(q) - 1 /\ Len(q) \in Nat /\ Tail(q) \in Seq(S)
  BY HeadTailProperties, LenProperties
<1>2. Len(Tail(q)) # 0
  BY <1>1
<1> QED
  BY <1>2, EmptySeq

\* The sequences of writes a process makes, over any set S of writes they are in.
LEMMA WritesType ==
    ASSUME NEW S, NEW s, \A r \in Row : [row |-> r, status |-> s] \in S
    PROVE  /\ Lifecycle(s) \in Seq(S) \ {<<>>}
           /\ Mark(s) \in Seq(S) \ {<<>>}
           /\ Align(s) \in Seq(S) \ {<<>>}
           /\ Mark(s) \o Lifecycle(s) \in Seq(S) \ {<<>>}
           /\ \A m \in {<<>>, Set("job", s)} : Lifecycle(s) \o Mark(s) \o m \in Seq(S) \ {<<>>}
<1>1. \A r \in Row : Set(r, s) \in Seq(S) /\ Set(r, s) # <<>>
  BY SetType
<1>2. {"event", "job", "github", "canonical"} \subseteq Row
  BY DEF Row
<1>3. Set("job", s) \o Set("github", s) \in Seq(S) \ {<<>>}
  BY <1>1, <1>2, ConcatType
<1>4. Lifecycle(s) \in Seq(S) \ {<<>>}
  BY <1>1, <1>2, <1>3, ConcatType DEF Lifecycle
<1>5. Mark(s) \in Seq(S) \ {<<>>}
  BY <1>1, <1>2 DEF Mark
<1>6. Align(s) \in Seq(S) \ {<<>>}
  BY <1>3 DEF Align
<1>7. Mark(s) \o Lifecycle(s) \in Seq(S) \ {<<>>}
  BY <1>4, <1>5, ConcatType
<1>8. Lifecycle(s) \o Mark(s) \in Seq(S) \ {<<>>}
  BY <1>4, <1>5, ConcatType
<1>9. ASSUME NEW m \in {<<>>, Set("job", s)}
      PROVE  Lifecycle(s) \o Mark(s) \o m \in Seq(S) \ {<<>>}
  <2>1. m \in Seq(S)
    BY <1>1, <1>2, EmptySeq
  <2> QED
    BY <1>8, <2>1, ConcatType
<1> QED
  BY <1>4, <1>5, <1>6, <1>7, <1>9

LEMMA StatusWrites ==
    ASSUME NEW s \in Status \ {"absent"}, NEW r \in Row
    PROVE  [row |-> r, status |-> s] \in StatusWrite
BY DEF StatusWrite

-----------------------------------------------------------------------------
(* Control. *)

\* The other processes stay where they are.
Still(p) == \A q \in Procs \ {p} : pc'[q] = pc[q] /\ todo'[q] = todo[q] /\ after'[q] = after[q]

\* What a step of worker w leaves alone.
Alone(w) == Still(w) /\ \A u \in Workers \ {w} : me'[u] = me[u]

\* The steps that lead to the places where a right is exercised.
Enters(w) ==
    /\ At(w)' = "canonical" => TryClaim(w)
    /\ At(w)' = "preflight" => CheckReview(w) \/ ReplayLookup(w) \/ ClaimResponse(w)
    /\ At(w)' = "finish" => GraphPauses(w) \/ GraphEnds(w)
    /\ At(w)' = "decide" => FinishResult(w) \/ GraphRaises(w)
    /\ At(w)' = "graph" => At(w) = "graph" \/ EnsureCanonicalRun(w) \/ Preflight(w)

\* A worker serves one call, answers one row with one key, and remembers nothing
\* that did not happen.
Remembers(w) ==
    /\ me[w].kind # "none" => /\ me'[w].kind = me[w].kind /\ me'[w].target = me[w].target
                              /\ me'[w].key = me[w].key
    /\ me'[w].result = "completed" => \/ me[w].result = "completed" /\ me'[w].receipt = me[w].receipt
                                      \/ GraphEnds(w) /\ me'[w].receipt # "hollow"
    /\ At(w)' = "decide" /\ me'[w].answer = "delivered" => me'[w].result = "completed"
    /\ me'[w].gate = me[w].gate \/ EnsureCanonicalRun(w) \/ Preflight(w)

\* A worker's step, as far as control goes.
Moves(w) == Control' /\ Alone(w) /\ Enters(w) /\ Remembers(w)

LEMMA GotoOK ==
    ASSUME ControlTypes, NEW p \in Procs, NEW l \in Pc \ {"write"}, Goto(p, l)
    PROVE  ControlTypes' /\ Still(p) /\ pc'[p] = l /\ At(p)' = l
BY DEF ControlTypes, WritesOK, Goto, At, Still

LEMMA ThenOK ==
    ASSUME ControlTypes, NEW p \in Procs, NEW ws \in Seq(StatusWrite) \ {<<>>}, NEW l \in Resting,
           Then(p, ws, l)
    PROVE  ControlTypes' /\ Still(p) /\ pc'[p] = "write" /\ At(p)' = l /\ todo'[p] = ws
BY DEF ControlTypes, WritesOK, Then, At, Pc, Still

LEMMA WriteRowOK ==
    ASSUME ControlTypes, NEW p \in Procs, WriteRow(p)
    PROVE  ControlTypes' /\ Still(p) /\ At(p)' = At(p) /\ Head(todo[p]) \in StatusWrite
<1>1. /\ pc[p] = "write" /\ after' = after
      /\ todo' = [todo EXCEPT ![p] = Tail(todo[p])]
      /\ pc' = [pc EXCEPT ![p] = IF Len(todo[p]) = 1 THEN after[p] ELSE "write"]
  BY DEF WriteRow
<1>2. todo[p] \in Seq(StatusWrite) /\ todo[p] # <<>>
  BY <1>1 DEF ControlTypes, WritesOK
<1>3. Head(todo[p]) \in StatusWrite /\ Tail(todo[p]) \in Seq(StatusWrite)
  BY <1>2, HeadTailProperties
<1>5. Len(todo[p]) # 1 => Tail(todo[p]) # <<>>
  BY <1>2, TailNonempty
<1>6. pc' \in [Procs -> Pc]
  <2>1. after[p] \in Pc /\ "write" \in Pc
    BY DEF ControlTypes, WritesOK, Pc, Terminal, Resting
  <2> QED
    BY <1>1, <2>1 DEF ControlTypes
<1>7. WritesOK'
  BY <1>1, <1>3, <1>5 DEF ControlTypes, WritesOK, Resting
<1>8. At(p)' = At(p)
  BY <1>1 DEF ControlTypes, WritesOK, At, Resting
<1>9. Still(p)
  BY <1>1 DEF ControlTypes, WritesOK, Still
<1> QED
  BY <1>3, <1>6, <1>7, <1>8, <1>9 DEF ControlTypes

\* The invariant gives the module's own types.
LEMMA ControlIsTyped == Control => TypeOK
<1> SUFFICES ASSUME Control PROVE TypeOK
  OBVIOUS
<1>1. StatusWrite \subseteq [row : Row, status : Status]
  BY DEF StatusWrite
<1>2. Seq(StatusWrite) \subseteq Writes
  BY <1>1, SeqMonotonic DEF Writes
<1>3. Resting \subseteq Pc
  BY DEF Resting, Pc, Terminal
<1> QED
  BY <1>2, <1>3 DEF Control, ControlTypes, WritesOK, TablesOK, TypeOK

\* The workers that do not move stay where they may be.
LEMMA RolesKept ==
    ASSUME Control, NEW w \in Workers, Alone(w),
           DOMAIN asks \subseteq DOMAIN asks', DOMAIN reviews \subseteq DOMAIN reviews',
           RoleOK(w)'
    PROVE  \A u \in Workers : RoleOK(u)'
<1> SUFFICES ASSUME NEW u \in Workers, u # w PROVE RoleOK(u)'
  OBVIOUS
<1>1. /\ pc'[u] = pc[u] /\ after'[u] = after[u] /\ me'[u] = me[u]
      /\ RoleOK(u)
  BY DEF Alone, Still, Control, Procs
<1> QED
  BY <1>1 DEF RoleOK, At, IsRun

\* The writes of the runner and of the sweep.
LEMMA StatusSeqs ==
    ASSUME NEW s \in Status \ {"absent"}
    PROVE  /\ {Lifecycle(s), Mark(s), Align(s), Mark(s) \o Lifecycle(s)} \subseteq Seq(StatusWrite) \ {<<>>}
           /\ \A m \in {<<>>, Set("job", s)} : Lifecycle(s) \o Mark(s) \o m \in Seq(StatusWrite) \ {<<>>}
           /\ \A r \in Row : Set(r, s) \in Seq(StatusWrite) \ {<<>>}
BY WritesType, StatusWrites, SetType

\* What the steps below start from.
LEMMA WorkerAt ==
    ASSUME Control, NEW w \in Workers
    PROVE  /\ w \in Procs /\ RoleOK(w) /\ ControlTypes /\ TablesOK
           /\ pc[w] # "write" => At(w) = pc[w]
           /\ me[w] \in Memory
BY DEF Control, TablesOK, Procs, At

\* A worker's memory keeps its shape when one of its fields is set.
LEMMA MemoryUpdate ==
    ASSUME me \in [Workers -> Memory], NEW w \in Workers
    PROVE  /\ \A b \in BOOLEAN : /\ [me EXCEPT ![w].gate = b] \in [Workers -> Memory]
                                 /\ [me EXCEPT ![w].sent = b] \in [Workers -> Memory]
                                 /\ [me EXCEPT ![w].seen = b] \in [Workers -> Memory]
           /\ \A k \in Kinds : [me EXCEPT ![w].kind = k] \in [Workers -> Memory]
           /\ \A n \in Nat : [me EXCEPT ![w].ask = n] \in [Workers -> Memory]
           /\ \A r \in {"gate", "tool", "completed", "failed"}, c \in Receipts :
                 [me EXCEPT ![w].result = r, ![w].receipt = c] \in [Workers -> Memory]
           /\ \A a \in {"duplicate", "delivered", "failed", "pending_review", "pending_intervention", "ok", "error"} :
                 [me EXCEPT ![w].answer = a] \in [Workers -> Memory]
<1>1. ASSUME NEW r \in {"gate", "tool", "completed", "failed"}, NEW c \in Receipts
      PROVE  [me EXCEPT ![w].result = r, ![w].receipt = c] \in [Workers -> Memory]
  <2>1. me[w] \in Memory
    OBVIOUS
  <2>3. [me[w] EXCEPT !.result = r, !.receipt = c] \in Memory
    BY <2>1 DEF Memory
  <2>2. [me EXCEPT ![w].result = r, ![w].receipt = c] = [me EXCEPT ![w] = [me[w] EXCEPT !.result = r, !.receipt = c]]
    OBVIOUS
  <2> QED
    BY <2>2, <2>3
<1>2. \A b \in BOOLEAN : /\ [me EXCEPT ![w].gate = b] \in [Workers -> Memory]
                         /\ [me EXCEPT ![w].sent = b] \in [Workers -> Memory]
                         /\ [me EXCEPT ![w].seen = b] \in [Workers -> Memory]
  BY DEF Memory
<1>3. \A k \in Kinds : [me EXCEPT ![w].kind = k] \in [Workers -> Memory]
  BY DEF Memory
<1>4. \A n \in Nat : [me EXCEPT ![w].ask = n] \in [Workers -> Memory]
  BY DEF Memory
<1>5. \A a \in {"duplicate", "delivered", "failed", "pending_review", "pending_intervention", "ok", "error"} :
         [me EXCEPT ![w].answer = a] \in [Workers -> Memory]
  BY DEF Memory
<1> QED
  BY <1>1, <1>2, <1>3, <1>4, <1>5

\* A worker that sets a field nobody below looks at remembers the rest.
LEMMA KeepsMemory ==
    ASSUME NEW w \in Workers, At(w)' # "decide",
           \/ me' = me
           \/ me \in [Workers -> Memory] /\ \E a : me' = [me EXCEPT ![w].answer = a]
           \/ me \in [Workers -> Memory] /\ \E b : me' = [me EXCEPT ![w].sent = b]
    PROVE  Remembers(w)
<1>1. /\ me'[w].kind = me[w].kind /\ me'[w].target = me[w].target /\ me'[w].key = me[w].key
      /\ me'[w].result = me[w].result /\ me'[w].receipt = me[w].receipt /\ me'[w].gate = me[w].gate
  <2>1. CASE me' = me
    BY <2>1
  <2>2. CASE me \in [Workers -> Memory] /\ \E a : me' = [me EXCEPT ![w].answer = a]
    <3>1. PICK a : me' = [me EXCEPT ![w].answer = a]
      BY <2>2
    <3> QED
      BY <2>2, <3>1 DEF Memory
  <2>3. CASE me \in [Workers -> Memory] /\ \E b : me' = [me EXCEPT ![w].sent = b]
    <3>1. PICK b : me' = [me EXCEPT ![w].sent = b]
      BY <2>3
    <3> QED
      BY <2>3, <3>1 DEF Memory
  <2> QED
    BY <2>1, <2>2, <2>3
<1> QED
  BY <1>1 DEF Remembers

\* A call of any kind begins.
LEMMA StartControl ==
    ASSUME Control, NEW w \in Workers, Start(w)
    PROVE  Moves(w)
<1> USE DEF Control, Pc, Terminal
<1>0. /\ w \in Procs /\ RoleOK(w) /\ ControlTypes /\ TablesOK /\ me[w] \in Memory
      /\ pc[w] # "write" => At(w) = pc[w]
  BY WorkerAt
<1>1. CASE Webhook(w)
  <2>1. ControlTypes' /\ At(w)' = "register" /\ Still(w)
    BY <1>0, <1>1, GotoOK DEF Webhook, Arrives
  <2>2. me' = [me EXCEPT ![w].kind = "webhook"]
    BY <1>1 DEF Webhook, Arrives
  <2>3. me' \in [Workers -> Memory]
    BY <1>0, <2>2, MemoryUpdate DEF TablesOK, Kinds
  <2>4. TablesOK'
    <3>1. row' \in [Row -> Status]
      BY <1>0, <1>1 DEF Webhook, Arrives, TablesOK, Row, Status
    <3> QED
      BY <1>0, <1>1, <2>3, <3>1 DEF Webhook, Arrives, TablesOK, tables, history
  <2>5. RoleOK(w)'
    BY <1>0, <1>1, <2>1, <2>2 DEF Webhook, Arrives, RoleOK, IsRun, TablesOK, tables, Memory, Decisions
  <2>6. Alone(w)
    BY <2>1, <2>2 DEF Alone, TablesOK
  <2>7. Enters(w) /\ Remembers(w)
    BY <1>0, <1>1, <2>1, <2>2 DEF Webhook, Arrives, Enters, Remembers, TablesOK, Memory, RoleOK, Idle
  <2> QED
    BY <1>1, <2>1, <2>4, <2>5, <2>6, <2>7, RolesKept DEF Webhook, Arrives, tables, Moves
<1>2. CASE RetryJob(w)
  <2>1. ControlTypes' /\ At(w)' = "job" /\ Still(w)
    BY <1>0, <1>2, GotoOK DEF RetryJob, Arrives
  <2>2. me' = [me EXCEPT ![w].kind = "retry"]
    BY <1>2 DEF RetryJob, Arrives
  <2>3. me' \in [Workers -> Memory]
    BY <1>0, <2>2, MemoryUpdate DEF TablesOK, Kinds
  <2>4. TablesOK'
    BY <1>0, <1>2, <2>3 DEF RetryJob, Arrives, TablesOK, tables, history
  <2>5. RoleOK(w)'
    BY <1>0, <1>2, <2>1, <2>2 DEF RetryJob, Arrives, RoleOK, IsRun, TablesOK, tables, Memory, Decisions
  <2>6. Alone(w)
    BY <2>1, <2>2 DEF Alone, TablesOK
  <2>7. Enters(w) /\ Remembers(w)
    BY <1>0, <1>2, <2>1, <2>2 DEF RetryJob, Arrives, Enters, Remembers, TablesOK, Memory, RoleOK, Idle
  <2> QED
    BY <1>2, <2>1, <2>4, <2>5, <2>6, <2>7, RolesKept DEF RetryJob, Arrives, tables, Moves
<1>3. CASE CancelRun(w)
  <2>1. ControlTypes' /\ At(w)' = "done" /\ Still(w)
    BY <1>0, <1>3, ThenOK, StatusSeqs DEF CancelRun, Arrives, Resting, Row, Status
  <2>2. me' = [me EXCEPT ![w].kind = "cancel"]
    BY <1>3 DEF CancelRun, Arrives
  <2>3. me' \in [Workers -> Memory]
    BY <1>0, <2>2, MemoryUpdate DEF TablesOK, Kinds
  <2>4. TablesOK'
    BY <1>0, <1>3, <2>3 DEF CancelRun, Arrives, TablesOK, tables, history
  <2>5. RoleOK(w)'
    BY <1>0, <1>3, <2>1, <2>2 DEF CancelRun, Arrives, RoleOK, IsRun, TablesOK, tables, Memory, Decisions
  <2>6. Alone(w)
    BY <2>1, <2>2 DEF Alone, TablesOK
  <2>7. Enters(w) /\ Remembers(w)
    BY <1>0, <1>3, <2>1, <2>2 DEF CancelRun, Arrives, Enters, Remembers, TablesOK, Memory, RoleOK, Idle
  <2> QED
    BY <1>3, <2>1, <2>4, <2>5, <2>6, <2>7, RolesKept DEF CancelRun, Arrives, tables, Moves
<1>4. CASE StartRespond(w)
  <2>1. PICK i \in DOMAIN asks, action \in {"approve", "deny"}, key \in Keys :
          /\ me' = [me EXCEPT ![w].kind = "respond", ![w].target = i,
                              ![w].action = action, ![w].key = key]
          /\ Goto(w, IF asks[i].status = "pending" THEN "lookup" ELSE "replay")
    BY <1>4 DEF StartRespond
  <2>2. ControlTypes' /\ At(w)' \in {"lookup", "replay"} /\ Still(w)
    BY <1>0, <2>1, GotoOK
  <2>3. i \in Nat /\ key \in {"default", "own"}
    BY <1>0, CallsAssumption, LenProperties DEF TablesOK
  <2>4. me' \in [Workers -> Memory]
    BY <1>0, <2>1, <2>3 DEF TablesOK, Memory, Kinds
  <2>5. TablesOK'
    BY <1>0, <1>4, <2>4 DEF StartRespond, TablesOK, tables, history
  <2>6. RoleOK(w)'
    BY <1>0, <1>4, <2>1, <2>2 DEF StartRespond, RoleOK, IsRun, TablesOK, tables, Memory, Decisions
  <2>7. Alone(w)
    BY <2>1, <2>2 DEF Alone, TablesOK
  <2>8. Enters(w) /\ Remembers(w)
    BY <1>0, <1>4, <2>2, <2>1 DEF StartRespond, Arrives, Enters, Remembers, TablesOK, Memory, RoleOK, Idle
  <2> QED
    BY <1>4, <2>2, <2>5, <2>6, <2>7, <2>8, RolesKept DEF StartRespond, tables, Moves
<1>5. ASSUME NEW kind \in Kinds, StartReview(w, kind)
      PROVE  Moves(w)
  <2>1. PICK r \in DOMAIN reviews :
          me' = [me EXCEPT ![w].kind = kind, ![w].target = r,
                           ![w].action = IF kind = "approve" THEN "approve" ELSE "deny"]
    BY <1>5 DEF StartReview
  <2>2. ControlTypes' /\ At(w)' = "check" /\ Still(w)
    BY <1>0, <1>5, GotoOK DEF StartReview
  <2>3. r \in Nat
    BY <1>0, LenProperties DEF TablesOK
  <2>4. me' \in [Workers -> Memory]
    BY <1>0, <2>1, <2>3 DEF TablesOK, Memory
  <2>5. TablesOK'
    BY <1>0, <1>5, <2>4 DEF StartReview, TablesOK, tables, history
  <2>6. RoleOK(w)'
    BY <1>0, <1>5, <2>1, <2>2 DEF StartReview, RoleOK, IsRun, TablesOK, tables, Memory, Decisions
  <2>7. Alone(w)
    BY <2>1, <2>2 DEF Alone, TablesOK
  <2>8. Enters(w) /\ Remembers(w)
    BY <1>0, <1>5, <2>2, <2>1 DEF StartReview, Arrives, Enters, Remembers, TablesOK, Memory, RoleOK, Idle
  <2> QED
    BY <1>5, <2>2, <2>5, <2>6, <2>7, <2>8, RolesKept DEF StartReview, tables, Moves
<1> QED
  BY <1>1, <1>2, <1>3, <1>4, <1>5 DEF Start

\* A step of the webhook's job.
LEMMA RunControl ==
    ASSUME Control, NEW w \in Workers, RunStep(w)
    PROVE  Moves(w)
<1> USE DEF Control, Pc, Terminal
<1>0. /\ w \in Procs /\ RoleOK(w) /\ ControlTypes /\ TablesOK /\ me[w] \in Memory
      /\ pc[w] # "write" => At(w) = pc[w]
  BY WorkerAt
<1>1. CASE SaveGithubWorkflow(w)
  <2>1. ControlTypes' /\ At(w)' = "job" /\ Still(w)
    BY <1>0, <1>1, GotoOK DEF SaveGithubWorkflow
  <2>2. me' = me
    BY <1>1 DEF SaveGithubWorkflow
  <2>3. me' \in [Workers -> Memory]
    BY <1>0, <2>2 DEF TablesOK
  <2>4. TablesOK'
    <3>1. row' \in [Row -> Status]
      BY <1>0, <1>1 DEF SaveGithubWorkflow, TablesOK, Row, Status
    <3> QED
      BY <1>0, <1>1, <2>3, <3>1 DEF SaveGithubWorkflow, TablesOK, tables, history
  <2>5. RoleOK(w)'
    BY <1>0, <1>1, <2>1, <2>2 DEF SaveGithubWorkflow, RoleOK, IsRun, TablesOK, tables
  <2>6. Alone(w)
    BY <2>1, <2>2 DEF Alone, TablesOK
  <2>7. Enters(w) /\ Remembers(w)
    BY <1>0, <1>1, <2>1, <2>2 DEF SaveGithubWorkflow, Enters, Remembers, TablesOK, Memory, RoleOK, Idle
  <2> QED
    BY <1>1, <2>1, <2>4, <2>5, <2>6, <2>7, RolesKept DEF SaveGithubWorkflow, tables, Moves
<1>2. CASE StartJob(w)
  <2>1. ControlTypes' /\ At(w)' = "claim" /\ Still(w)
    BY <1>0, <1>2, ThenOK, StatusSeqs DEF StartJob, Resting, Row, Status
  <2>2. me' = me
    BY <1>2 DEF StartJob
  <2>3. me' \in [Workers -> Memory]
    BY <1>0, <2>2 DEF TablesOK
  <2>4. TablesOK'
    BY <1>0, <1>2, <2>3 DEF StartJob, TablesOK, tables, history
  <2>5. RoleOK(w)'
    BY <1>0, <1>2, <2>1, <2>2 DEF StartJob, RoleOK, IsRun, TablesOK, tables
  <2>6. Alone(w)
    BY <2>1, <2>2 DEF Alone, TablesOK
  <2>7. Enters(w) /\ Remembers(w)
    BY <1>0, <1>2, <2>1, <2>2 DEF StartJob, Enters, Remembers, TablesOK, Memory, RoleOK, Idle
  <2> QED
    BY <1>2, <2>1, <2>4, <2>5, <2>6, <2>7, RolesKept DEF StartJob, tables, Moves
<1>3. CASE TryClaim(w)
  <2>1. ControlTypes' /\ At(w)' \in {"canonical", "reconcile"} /\ Still(w)
    BY <1>0, <1>3, GotoOK DEF TryClaim, Claim
  <2>2. me' = me \/ me' = [me EXCEPT ![w].answer = "duplicate"]
    BY <1>3 DEF TryClaim, Claim
  <2>3. me' \in [Workers -> Memory]
    <3>1. CASE me' = me
      BY <1>0, <3>1 DEF TablesOK
    <3>2. CASE me' = [me EXCEPT ![w].answer = "duplicate"]
      BY <1>0, <3>2, MemoryUpdate DEF TablesOK
    <3> QED
      BY <2>2, <3>1, <3>2
  <2>4. TablesOK'
    <3>1. row' \in [Row -> Status]
      BY <1>0, <1>3 DEF TryClaim, Claim, TablesOK, Row, Status
    <3> QED
      BY <1>0, <1>3, <2>3, <3>1 DEF TryClaim, Claim, TablesOK, tables, history
  <2>5. RoleOK(w)'
    BY <1>0, <1>3, <2>1, <2>2 DEF TryClaim, Claim, RoleOK, IsRun, TablesOK, tables, Memory
  <2>6. Alone(w)
    BY <2>1, <2>2 DEF Alone, TablesOK
  <2>7. Enters(w) /\ Remembers(w)
    <3>1. Enters(w)
      BY <1>0, <1>3, <2>1 DEF TryClaim, Claim, Enters
    <3>2. Remembers(w)
      BY <1>0, <2>1, <2>2, KeepsMemory DEF TablesOK
    <3> QED
      BY <3>1, <3>2
  <2> QED
    BY <1>3, <2>1, <2>4, <2>5, <2>6, <2>7, RolesKept DEF TryClaim, Claim, tables, Moves
<1>4. CASE EnsureCanonicalRun(w)
  <2>1. ControlTypes' /\ At(w)' = "graph" /\ Still(w)
    BY <1>0, <1>4, ThenOK, StatusSeqs DEF EnsureCanonicalRun, Resting, Status
  <2>2. me' = [me EXCEPT ![w].gate = ~NeedsReview]
    BY <1>4 DEF EnsureCanonicalRun
  <2>3. me' \in [Workers -> Memory]
    BY <1>0, <2>2, MemoryUpdate, FaultsAssumption DEF TablesOK
  <2>4. TablesOK'
    <3>1. row' \in [Row -> Status]
      BY <1>0, <1>4 DEF EnsureCanonicalRun, TablesOK, Row, Status
    <3> QED
      BY <1>0, <1>4, <2>3, <3>1 DEF EnsureCanonicalRun, TablesOK, tables, history
  <2>5. RoleOK(w)'
    BY <1>0, <1>4, <2>1, <2>2 DEF EnsureCanonicalRun, RoleOK, IsRun, TablesOK, tables, Memory
  <2>6. Alone(w)
    BY <2>1, <2>2 DEF Alone, TablesOK
  <2>7. Enters(w) /\ Remembers(w)
    BY <1>0, <1>4, <2>1, <2>2 DEF EnsureCanonicalRun, Enters, Remembers, TablesOK, Memory, RoleOK, Idle
  <2> QED
    BY <1>4, <2>1, <2>4, <2>5, <2>6, <2>7, RolesKept DEF EnsureCanonicalRun, tables, Moves
<1>5. CASE ReconcileRun(w)
  <2>1. ControlTypes' /\ At(w)' = "done" /\ Still(w)
    BY <1>0, <1>5, GotoOK, ThenOK, StatusSeqs DEF ReconcileRun, Resting, Status, TERMINAL_STATUSES
  <2>2. me' = me
    BY <1>5 DEF ReconcileRun
  <2>3. me' \in [Workers -> Memory]
    BY <1>0, <2>2 DEF TablesOK
  <2>4. TablesOK'
    BY <1>0, <1>5, <2>3 DEF ReconcileRun, TablesOK, tables, history
  <2>5. RoleOK(w)'
    BY <1>0, <1>5, <2>1, <2>2 DEF ReconcileRun, RoleOK, IsRun, TablesOK, tables
  <2>6. Alone(w)
    BY <2>1, <2>2 DEF Alone, TablesOK
  <2>7. Enters(w) /\ Remembers(w)
    BY <1>0, <1>5, <2>1, <2>2 DEF ReconcileRun, Enters, Remembers, TablesOK, Memory, RoleOK, Idle
  <2> QED
    BY <1>5, <2>1, <2>4, <2>5, <2>6, <2>7, RolesKept DEF ReconcileRun, tables, Moves
<1> QED
  BY <1>1, <1>2, <1>3, <1>4, <1>5 DEF RunStep

\* A step that moves nobody.
LEMMA StayOK ==
    ASSUME ControlTypes, NEW p \in Procs, UNCHANGED <<pc, todo, after>>
    PROVE  ControlTypes' /\ Still(p) /\ At(p)' = At(p)
BY DEF ControlTypes, WritesOK, Still, At

\* What FinishResult leaves behind, whatever the graph returned.
LEMMA FinishForm ==
    ASSUME NEW w \in Workers, FinishResult(w)
    PROVE  \E st \in {"pending_review", "pending_intervention", "completed", "failed"},
              a \in {"pending_review", "pending_intervention", "delivered", "failed"},
              l \in {"done", "reply", "decide"} :
              \E m \in {<<>>, Set("job", st)} :
                 /\ Then(w, Lifecycle(st) \o Mark(st) \o m, l)
                 /\ me' = [me EXCEPT ![w].answer = a]
                 /\ a = "delivered" => me[w].result = "completed"
                 /\ l = "done" <=> IsRun(w)
                 /\ l = "reply" <=> ~IsRun(w) /\ me[w].kind = "respond"
<1> DEFINE a  == IF NeedsReviewRow(w) THEN "pending_review"
                 ELSE IF me[w].result = "tool" THEN "pending_intervention"
                 ELSE IF me[w].result = "completed" THEN "delivered" ELSE "failed"
           st == IF a = "delivered" THEN "completed" ELSE a
           m  == IF IsRun(w) /\ st \in {"completed", "failed"} THEN Set("job", st) ELSE <<>>
           l  == IF IsRun(w) THEN "done" ELSE IF me[w].kind = "respond" THEN "reply" ELSE "decide"
<1>1. Then(w, Lifecycle(st) \o Mark(st) \o m, l) /\ me' = [me EXCEPT ![w].answer = a]
  BY DEF FinishResult
<1>2. /\ a \in {"pending_review", "pending_intervention", "delivered", "failed"}
      /\ a = "delivered" => me[w].result = "completed"
  OBVIOUS
<1>3. st \in {"pending_review", "pending_intervention", "completed", "failed"}
  BY <1>2
<1>4. /\ l \in {"done", "reply", "decide"}
      /\ l = "done" <=> IsRun(w)
      /\ l = "reply" <=> ~IsRun(w) /\ me[w].kind = "respond"
  OBVIOUS
<1>5. m \in {<<>>, Set("job", st)}
  OBVIOUS
<1> HIDE DEF a, st, m, l
<1> QED
  BY <1>1, <1>2, <1>3, <1>4, <1>5

\* A step of the invoked graph, and of what follows its return.
LEMMA GraphControl ==
    ASSUME Control, NEW w \in Workers, GraphStep(w)
    PROVE  Moves(w)
<1> USE DEF Control, Pc, Terminal
<1>0. /\ w \in Procs /\ RoleOK(w) /\ ControlTypes /\ TablesOK /\ me[w] \in Memory
      /\ pc[w] # "write" => At(w) = pc[w]
  BY WorkerAt
<1>1. CASE GraphAdvances(w)
  <2>1. ControlTypes' /\ At(w)' = At(w) /\ Still(w)
    BY <1>0, <1>1, StayOK DEF GraphAdvances, InGraph
  <2>2. me' = me
    BY <1>1 DEF GraphAdvances, InGraph
  <2>3. me' \in [Workers -> Memory]
    BY <1>0, <2>2 DEF TablesOK
  <2>4. TablesOK'
    <3>1. session' \in Session
      BY <1>0, <1>1 DEF GraphAdvances, InGraph, TablesOK, Session
    <3> QED
      BY <1>0, <1>1, <2>3, <3>1 DEF GraphAdvances, InGraph, TablesOK, tables, history
  <2>5. RoleOK(w)'
    BY <1>0, <1>1, <2>1, <2>2 DEF GraphAdvances, InGraph, RoleOK, IsRun, TablesOK, tables
  <2>6. Alone(w)
    BY <2>1, <2>2 DEF Alone, TablesOK
  <2>7. Enters(w) /\ Remembers(w)
    BY <1>0, <1>1, <2>1, <2>2 DEF GraphAdvances, InGraph, Enters, Remembers, TablesOK, Memory, RoleOK, Idle
  <2> QED
    BY <1>1, <2>1, <2>4, <2>5, <2>6, <2>7, RolesKept DEF GraphAdvances, InGraph, tables, Moves
<1>2. CASE GraphDelivers(w)
  <2>1. ControlTypes' /\ At(w)' = At(w) /\ Still(w)
    BY <1>0, <1>2, StayOK DEF GraphDelivers, InGraph
  <2>2. me' = [me EXCEPT ![w].sent = TRUE]
    BY <1>2 DEF GraphDelivers, InGraph
  <2>3. me' \in [Workers -> Memory]
    BY <1>0, <2>2, MemoryUpdate DEF TablesOK
  <2>4. TablesOK'
    BY <1>0, <1>2, <2>3 DEF GraphDelivers, InGraph, TablesOK, tables, history
  <2>5. RoleOK(w)'
    BY <1>0, <1>2, <2>1, <2>2 DEF GraphDelivers, InGraph, RoleOK, IsRun, TablesOK, tables, Memory
  <2>6. Alone(w)
    BY <2>1, <2>2 DEF Alone, TablesOK
  <2>7. Enters(w) /\ Remembers(w)
    <3>1. At(w)' = "graph"
      BY <1>0, <1>2, <2>1 DEF GraphDelivers, InGraph
    <3> QED
      BY <1>0, <2>1, <2>2, <3>1, KeepsMemory DEF Enters, TablesOK
  <2> QED
    BY <1>2, <2>1, <2>4, <2>5, <2>6, <2>7, RolesKept DEF GraphDelivers, InGraph, tables, Moves
<1>3. CASE GraphAsks(w)
  <2>1. ControlTypes' /\ At(w)' = At(w) /\ Still(w)
    BY <1>0, <1>3, StayOK DEF GraphAsks
  <2>2. Len(asks) + 1 \in Nat /\ me' = [me EXCEPT ![w].ask = Len(asks) + 1]
    BY <1>0, <1>3, LenProperties DEF GraphAsks, TablesOK
  <2>3. me' \in [Workers -> Memory]
    BY <1>0, <2>2, MemoryUpdate DEF TablesOK
  <2>4. asks' \in Seq(Ask) /\ DOMAIN asks \subseteq DOMAIN asks'
    <3>1. [status |-> "pending", resumes |-> 0] \in Ask
      BY DEF Ask
    <3>2. asks' = Append(asks, [status |-> "pending", resumes |-> 0])
      BY <1>3 DEF GraphAsks
    <3> QED
      BY <1>0, <3>1, <3>2, AppendProperties, LenProperties DEF TablesOK
  <2>5. TablesOK'
    BY <1>0, <1>3, <2>3, <2>4 DEF GraphAsks, TablesOK, history
  <2>6. RoleOK(w)'
    BY <1>0, <1>3, <2>1, <2>2, <2>4 DEF GraphAsks, RoleOK, IsRun, TablesOK, Memory, InGraph
  <2>7. Alone(w)
    BY <2>1, <2>2 DEF Alone, TablesOK
  <2>8. Enters(w) /\ Remembers(w)
    BY <1>0, <1>3, <2>1, <2>2 DEF GraphAsks, InGraph, Enters, Remembers, TablesOK, Memory, RoleOK, Idle
  <2> QED
    BY <1>3, <2>1, <2>4, <2>5, <2>6, <2>7, <2>8, RolesKept DEF GraphAsks, Moves
<1>4. ASSUME NEW result \in {"gate", "tool", "completed", "failed"}, NEW receipt \in Receipts,
             NEW persisted \in Session,
             GraphReturns(w, result, receipt, persisted), InGraph(w), GraphPauses(w) \/ GraphEnds(w),
             result = "completed" => GraphEnds(w) /\ receipt # "hollow"
      PROVE  Moves(w)
  <2>1. ControlTypes' /\ At(w)' = "finish" /\ Still(w)
    BY <1>0, <1>4, GotoOK DEF GraphReturns
  <2>2. me' = [me EXCEPT ![w].result = result, ![w].receipt = receipt]
    BY <1>4 DEF GraphReturns
  <2>3. me' \in [Workers -> Memory]
    BY <1>0, <2>2, MemoryUpdate DEF TablesOK
  <2>4. TablesOK'
    BY <1>0, <1>4, <2>3 DEF GraphReturns, TablesOK, history, Attempt
  <2>5. RoleOK(w)'
    BY <1>0, <1>4, <2>1, <2>2 DEF GraphReturns, RoleOK, IsRun, TablesOK, Memory, InGraph
  <2>6. Alone(w)
    BY <2>1, <2>2 DEF Alone, TablesOK
  <2>7. Enters(w)
    BY <1>4, <2>1 DEF Enters
  <2>8. Remembers(w)
    <3>1. /\ me'[w].kind = me[w].kind /\ me'[w].target = me[w].target /\ me'[w].key = me[w].key
          /\ me'[w].gate = me[w].gate /\ me'[w].result = result /\ me'[w].receipt = receipt
      BY <1>0, <2>2 DEF TablesOK, Memory
    <3> QED
      BY <1>4, <2>1, <3>1 DEF Remembers
  <2> QED
    BY <1>4, <2>1, <2>4, <2>5, <2>6, <2>7, <2>8, RolesKept DEF GraphReturns, Moves
<1>5. CASE GraphPauses(w)
  <2>1. /\ [at |-> "paused", on |-> me[w].ask, gate |-> me[w].gate] \in Session
        /\ [at |-> "paused", on |-> 0, gate |-> FALSE] \in Session
        /\ "none" \in Receipts
    BY <1>0 DEF Memory, Session, Receipts
  <2> QED
    BY <1>4, <1>5, <2>1 DEF GraphPauses
<1>6. CASE GraphEnds(w)
  <2>1. [session EXCEPT !.at = "ended"] \in Session
    BY <1>0 DEF TablesOK, Session
  <2>2. PICK status \in {"completed", "failed"}, receipt \in Receipts :
          GraphReturns(w, Outcome(status, receipt), receipt, [session EXCEPT !.at = "ended"])
    BY <1>6 DEF GraphEnds
  <2>3. /\ Outcome(status, receipt) \in {"completed", "failed"}
        /\ Outcome(status, receipt) = "completed" => receipt # "hollow"
    BY DEF Outcome, Receipts
  <2>4. InGraph(w)
    BY <1>6 DEF GraphEnds
  <2> DEFINE o == Outcome(status, receipt)
  <2>5. /\ o \in {"gate", "tool", "completed", "failed"}
        /\ o = "completed" => receipt # "hollow"
        /\ GraphReturns(w, o, receipt, [session EXCEPT !.at = "ended"])
    BY <2>2, <2>3
  <2> HIDE DEF o
  <2> QED
    BY <1>4, <1>6, <2>1, <2>4, <2>5
<1>7. CASE GraphRaises(w)
  <2>1. session' \in Session /\ pc[w] = "graph"
    BY <1>0, <1>7 DEF GraphRaises, TablesOK, Session
  <2>2. CASE IsRun(w)
    <3>1. ControlTypes' /\ At(w)' = "raised" /\ Still(w) /\ me' = me
      BY <1>0, <1>7, <2>2, GotoOK DEF GraphRaises
    <3>2. TablesOK'
      BY <1>0, <1>7, <2>1, <3>1 DEF GraphRaises, TablesOK, history
    <3>3. RoleOK(w)'
      BY <1>0, <1>7, <3>1 DEF GraphRaises, RoleOK, IsRun
    <3>4. Alone(w)
      BY <3>1 DEF Alone
    <3>5. Enters(w) /\ Remembers(w)
      BY <1>0, <1>7, <3>1 DEF GraphRaises, Enters, Remembers, TablesOK, Memory, RoleOK, Idle
    <3> QED
      BY <1>7, <3>1, <3>2, <3>3, <3>4, <3>5, RolesKept DEF GraphRaises, Moves
  <2>3. CASE ~IsRun(w)
    <3> DEFINE st == IF me[w].kind = "approve" THEN "pending_review" ELSE "failed"
               l  == IF me[w].kind = "respond" THEN "reply" ELSE "decide"
    <3>1. Then(w, Mark(st) \o Lifecycle(st), l) /\ me' = [me EXCEPT ![w].answer = st]
      BY <1>7, <2>3 DEF GraphRaises
    <3>2. st \in {"pending_review", "failed"} /\ l \in {"reply", "decide"}
      OBVIOUS
    <3>3. l = "reply" <=> me[w].kind = "respond"
      OBVIOUS
    <3> HIDE DEF st, l
    <3>4. ControlTypes' /\ At(w)' = l /\ Still(w)
      BY <1>0, <3>1, <3>2, ThenOK, StatusSeqs DEF Status, Resting
    <3>5. me' \in [Workers -> Memory]
      BY <1>0, <3>1, <3>2, MemoryUpdate DEF TablesOK
    <3>6. TablesOK'
      BY <1>0, <1>7, <2>1, <3>5 DEF GraphRaises, TablesOK, history
    <3>7. RoleOK(w)'
      BY <1>0, <1>7, <2>1, <2>3, <3>1, <3>2, <3>3, <3>4 DEF GraphRaises, RoleOK, IsRun, TablesOK, Memory, Decisions
    <3>8. Alone(w)
      BY <3>1, <3>4 DEF Alone, TablesOK
    <3>9. Enters(w) /\ Remembers(w)
      BY <1>0, <1>7, <3>4, <3>1, <3>2 DEF GraphRaises, Enters, Remembers, TablesOK, Memory, RoleOK, Idle
    <3> QED
      BY <1>7, <3>4, <3>6, <3>7, <3>8, <3>9, RolesKept DEF GraphRaises, Moves
  <2> QED
    BY <2>2, <2>3
<1>8. CASE FinishResult(w)
  <2>1. PICK st \in {"pending_review", "pending_intervention", "completed", "failed"},
             a \in {"pending_review", "pending_intervention", "delivered", "failed"},
             l \in {"done", "reply", "decide"} :
             \E m \in {<<>>, Set("job", st)} :
                /\ Then(w, Lifecycle(st) \o Mark(st) \o m, l)
                /\ me' = [me EXCEPT ![w].answer = a]
                /\ a = "delivered" => me[w].result = "completed"
                /\ l = "done" <=> IsRun(w)
                /\ l = "reply" <=> ~IsRun(w) /\ me[w].kind = "respond"
    BY <1>8, FinishForm
  <2>2. ControlTypes' /\ At(w)' = l /\ Still(w)
    <3>1. PICK m \in {<<>>, Set("job", st)} : Then(w, Lifecycle(st) \o Mark(st) \o m, l)
      BY <2>1
    <3>2. st \in Status \ {"absent"} /\ l \in Resting
      BY <2>1 DEF Status, Resting
    <3>3. Lifecycle(st) \o Mark(st) \o m \in Seq(StatusWrite) \ {<<>>}
      BY <3>1, <3>2, StatusSeqs
    <3> QED
      BY <1>0, <3>1, <3>2, <3>3, ThenOK
  <2>3. me' \in [Workers -> Memory]
    <3>1. me' = [me EXCEPT ![w].answer = a]
      BY <2>1
    <3> QED
      BY <1>0, <3>1, MemoryUpdate DEF TablesOK
  <2>4. reviews' \in Seq(Review) /\ DOMAIN reviews \subseteq DOMAIN reviews'
    <3> DEFINE new == [status |-> "pending", on |-> IF me[w].result = "gate" THEN 0 ELSE me[w].ask]
    <3>1. new \in Review
      BY <1>0 DEF Review, Memory
    <3>2. reviews' \in {reviews, Append(reviews, new)}
      BY <1>8 DEF FinishResult, Attempt
    <3>3. CASE reviews' = Append(reviews, new)
      <4> HIDE DEF new
      <4> QED
        BY <1>0, <3>1, <3>3, AppendProperties, LenProperties DEF TablesOK
    <3> QED
      BY <1>0, <3>2, <3>3 DEF TablesOK
  <2>5. TablesOK'
    BY <1>0, <1>8, <2>3, <2>4 DEF FinishResult, TablesOK, history
  <2>6. RoleOK(w)'
    BY <1>0, <1>8, <2>1, <2>2, <2>4 DEF FinishResult, RoleOK, IsRun, TablesOK, Memory, Decisions
  <2>7. Alone(w)
    BY <2>1, <2>2 DEF Alone, TablesOK
  <2>8. Enters(w) /\ Remembers(w)
    BY <1>0, <1>8, <2>2, <2>1 DEF FinishResult, Enters, Remembers, TablesOK, Memory, RoleOK, Idle
  <2> QED
    BY <1>8, <2>2, <2>4, <2>5, <2>6, <2>7, <2>8, RolesKept DEF FinishResult, Moves
<1> QED
  BY <1>1, <1>2, <1>3, <1>5, <1>6, <1>7, <1>8 DEF GraphStep

\* An UPDATE of one row of a table keeps its shape.
LEMMA SetStatus ==
    ASSUME NEW S, NEW q \in Seq(S), NEW i, NEW e, i \in DOMAIN q => e \in S
    PROVE  [q EXCEPT ![i] = e] \in Seq(S) /\ DOMAIN [q EXCEPT ![i] = e] = DOMAIN q
<1>1. CASE i \in DOMAIN q
  BY <1>1, ExceptSeq, LenProperties
<1>2. CASE i \notin DOMAIN q
  BY <1>2, LenProperties
<1> QED
  BY <1>1, <1>2

LEMMA DecidedType ==
    ASSUME reviews \in Seq(Review), NEW r, NEW s \in {"approved", "rejected", "needs_changes"}
    PROVE  /\ Decided(r, s) \in Seq(Review) /\ DOMAIN Decided(r, s) = DOMAIN reviews
           /\ \A j \in DOMAIN reviews : /\ Decided(r, s)[j].on = reviews[j].on
                                        /\ Decided(r, s)[j].status \in {reviews[j].status, s}
<1>1. CASE reviews[r].status = "pending" /\ r \in DOMAIN reviews
  <2>1. reviews[r] \in Review /\ DOMAIN reviews = 1..Len(reviews)
    BY <1>1, LenProperties
  <2>2. [reviews[r] EXCEPT !.status = s] \in Review
    BY <2>1 DEF Review
  <2>3. Decided(r, s) = [reviews EXCEPT ![r] = [reviews[r] EXCEPT !.status = s]]
    BY <1>1 DEF Decided
  <2>4. \A j \in DOMAIN reviews : reviews[j] \in Review
    BY LenProperties
  <2>5. Decided(r, s) \in Seq(Review) /\ DOMAIN Decided(r, s) = DOMAIN reviews
    BY <2>2, <2>3, SetStatus
  <2> QED
    BY <1>1, <2>1, <2>3, <2>4, <2>5 DEF Review
<1>2. CASE reviews[r].status # "pending"
  BY <1>2 DEF Decided
<1>3. CASE r \notin DOMAIN reviews
  <2>1. Decided(r, s) = reviews
    BY <1>3, LenProperties DEF Decided
  <2> QED
    BY <2>1
<1> QED
  BY <1>1, <1>2, <1>3

\* A step of a decision or of a response.
LEMMA AnswerControl ==
    ASSUME Control, NEW w \in Workers, AnswerStep(w)
    PROVE  Moves(w)
<1> USE DEF Control, Pc, Terminal
<1>0. /\ w \in Procs /\ RoleOK(w) /\ ControlTypes /\ TablesOK /\ me[w] \in Memory
      /\ pc[w] # "write" => At(w) = pc[w]
  BY WorkerAt
<1>1. CASE CheckReview(w)
  <2>1. ControlTypes' /\ At(w)' \in {"done", IF me[w].kind = "request_changes" THEN "record" ELSE "preflight"} /\ Still(w)
    BY <1>0, <1>1, GotoOK DEF CheckReview
  <2>2. me' = me
    BY <1>1 DEF CheckReview
  <2>3. me' \in [Workers -> Memory]
    BY <1>0, <2>2 DEF TablesOK
  <2>4. TablesOK'
    BY <1>0, <1>1, <2>3 DEF CheckReview, TablesOK, tables, history
  <2>5. RoleOK(w)'
    BY <1>0, <1>1, <2>1, <2>2 DEF CheckReview, RoleOK, IsRun, TablesOK, tables, Decisions
  <2>6. Alone(w)
    BY <2>1, <2>2 DEF Alone, TablesOK
  <2>7. Enters(w) /\ Remembers(w)
    BY <1>0, <1>1, <2>1, <2>2 DEF CheckReview, Enters, Remembers, TablesOK, Memory, RoleOK, Idle
  <2> QED
    BY <1>1, <2>1, <2>4, <2>5, <2>6, <2>7, RolesKept DEF CheckReview, tables, Moves
<1>2. CASE StartRevision(w)
  <2>1. ControlTypes' /\ At(w)' = "done" /\ Still(w)
    BY <1>0, <1>2, GotoOK DEF StartRevision
  <2>2. me' = me
    BY <1>2 DEF StartRevision
  <2>3. me' \in [Workers -> Memory]
    BY <1>0, <2>2 DEF TablesOK
  <2>4. TablesOK'
    BY <1>0, <1>2, <2>3 DEF StartRevision, TablesOK, tables, history
  <2>5. RoleOK(w)'
    BY <1>0, <1>2, <2>1, <2>2 DEF StartRevision, RoleOK, IsRun, TablesOK, tables
  <2>6. Alone(w)
    BY <2>1, <2>2 DEF Alone, TablesOK
  <2>7. Enters(w) /\ Remembers(w)
    BY <1>0, <1>2, <2>1, <2>2 DEF StartRevision, Enters, Remembers, TablesOK, Memory, RoleOK, Idle
  <2> QED
    BY <1>2, <2>1, <2>4, <2>5, <2>6, <2>7, RolesKept DEF StartRevision, tables, Moves
<1>3. CASE LookUp(w)
  <2>1. ControlTypes' /\ At(w)' = "replay" /\ Still(w)
    BY <1>0, <1>3, GotoOK DEF LookUp
  <2>2. me' = [me EXCEPT ![w].seen = (asks[me[w].target].status = "pending")]
    BY <1>3 DEF LookUp
  <2>3. me' \in [Workers -> Memory]
    BY <1>0, <2>2, MemoryUpdate DEF TablesOK
  <2>4. TablesOK'
    BY <1>0, <1>3, <2>3 DEF LookUp, TablesOK, tables, history
  <2>5. RoleOK(w)'
    BY <1>0, <1>3, <2>1, <2>2 DEF LookUp, RoleOK, IsRun, TablesOK, tables, Memory
  <2>6. Alone(w)
    BY <2>1, <2>2 DEF Alone, TablesOK
  <2>7. Enters(w) /\ Remembers(w)
    BY <1>0, <1>3, <2>1, <2>2 DEF LookUp, Enters, Remembers, TablesOK, Memory, RoleOK, Idle
  <2> QED
    BY <1>3, <2>1, <2>4, <2>5, <2>6, <2>7, RolesKept DEF LookUp, tables, Moves
<1>4. CASE ReplayLookup(w)
  <2>1. ControlTypes' /\ At(w)' \in {"take", "done", "preflight"} /\ Still(w)
    BY <1>0, <1>4, GotoOK DEF ReplayLookup, Answered
  <2>2. me' = me \/ \E a \in {"ok", "error"} : me' = [me EXCEPT ![w].answer = a]
    BY <1>4 DEF ReplayLookup, Answered
  <2>3. me' \in [Workers -> Memory]
    <3>1. CASE me' = me
      BY <1>0, <3>1 DEF TablesOK
    <3>2. CASE \E a \in {"ok", "error"} : me' = [me EXCEPT ![w].answer = a]
      <4>1. PICK a \in {"ok", "error"} : me' = [me EXCEPT ![w].answer = a]
        BY <3>2
      <4> QED
        BY <1>0, <4>1, MemoryUpdate DEF TablesOK
    <3> QED
      BY <2>2, <3>1, <3>2
  <2>4. TablesOK'
    BY <1>0, <1>4, <2>3 DEF ReplayLookup, Answered, TablesOK, tables, history
  <2>5. RoleOK(w)'
    BY <1>0, <1>4, <2>1, <2>2 DEF ReplayLookup, Answered, RoleOK, IsRun, TablesOK, tables, Memory
  <2>6. Alone(w)
    BY <2>1, <2>2 DEF Alone, TablesOK
  <2>7. Enters(w) /\ Remembers(w)
    <3>1. Enters(w)
      BY <1>0, <1>4, <2>1 DEF ReplayLookup, Answered, Enters
    <3>2. Remembers(w)
      BY <1>0, <2>1, <2>2, KeepsMemory DEF TablesOK
    <3> QED
      BY <3>1, <3>2
  <2> QED
    BY <1>4, <2>1, <2>4, <2>5, <2>6, <2>7, RolesKept DEF ReplayLookup, Answered, tables, Moves
<1>5. CASE Reply(w)
  <2>1. ControlTypes' /\ At(w)' = "done" /\ Still(w)
    BY <1>0, <1>5, GotoOK DEF Reply, Answered
  <2>2. \E a \in {"ok", "error"} : me' = [me EXCEPT ![w].answer = a]
    BY <1>5 DEF Reply, Answered
  <2>3. me' \in [Workers -> Memory]
    <3>1. PICK a \in {"ok", "error"} : me' = [me EXCEPT ![w].answer = a]
      BY <2>2
    <3> QED
      BY <1>0, <3>1, MemoryUpdate DEF TablesOK
  <2>4. TablesOK'
    BY <1>0, <1>5, <2>3 DEF Reply, Answered, TablesOK, tables, history
  <2>5. RoleOK(w)'
    BY <1>0, <1>5, <2>1, <2>2 DEF Reply, Answered, RoleOK, IsRun, TablesOK, tables, Memory
  <2>6. Alone(w)
    BY <2>1, <2>2 DEF Alone, TablesOK
  <2>7. Enters(w) /\ Remembers(w)
    BY <1>0, <1>5, <2>1, <2>2 DEF Reply, Answered, Enters, Remembers, TablesOK, Memory, RoleOK, Idle
  <2> QED
    BY <1>5, <2>1, <2>4, <2>5, <2>6, <2>7, RolesKept DEF Reply, Answered, tables, Moves
<1>6. CASE ClaimResponse(w)
  <2>1. ControlTypes' /\ At(w)' \in {"preflight", "done"} /\ Still(w)
    BY <1>0, <1>6, GotoOK DEF ClaimResponse, Take
  <2>2. me' = me \/ me' = [me EXCEPT ![w].answer = "error"]
    BY <1>6 DEF ClaimResponse, Take, Answered
  <2>3. me' \in [Workers -> Memory]
    <3>1. CASE me' = me
      BY <1>0, <3>1 DEF TablesOK
    <3>2. CASE me' = [me EXCEPT ![w].answer = "error"]
      BY <1>0, <3>2, MemoryUpdate DEF TablesOK
    <3> QED
      BY <2>2, <3>1, <3>2
  <2>4. asks' \in Seq(Ask) /\ DOMAIN asks' = DOMAIN asks
    <3> DEFINE i == me[w].target
               e == [asks[i] EXCEPT !.status = me[w].action]
    <3>1. i \in DOMAIN asks /\ me[w].action \in {"approve", "deny"}
      BY <1>0, <1>6 DEF ClaimResponse, Take, RoleOK
    <3>2. e \in Ask
      <4>1. asks[i] \in Ask
        BY <1>0, <3>1, LenProperties DEF TablesOK
      <4> QED
        BY <3>1, <4>1 DEF Ask
    <3>3. asks' = asks \/ asks' = [asks EXCEPT ![i] = e]
      BY <1>6 DEF ClaimResponse, Take
    <3> HIDE DEF i, e
    <3> QED
      BY <1>0, <3>2, <3>3, SetStatus DEF TablesOK
  <2>5. TablesOK'
    BY <1>0, <1>6, <2>3, <2>4 DEF ClaimResponse, Take, TablesOK, history
  <2>6. RoleOK(w)'
    BY <1>0, <1>6, <2>1, <2>2, <2>4 DEF ClaimResponse, Take, RoleOK, IsRun, TablesOK, Memory, Decisions
  <2>7. Alone(w)
    BY <2>1, <2>2 DEF Alone, TablesOK
  <2>8. Enters(w) /\ Remembers(w)
    BY <1>0, <1>6, <2>1, <2>2 DEF ClaimResponse, Take, Enters, Remembers, TablesOK, Memory, RoleOK, Idle
  <2> QED
    BY <1>6, <2>1, <2>4, <2>5, <2>6, <2>7, <2>8, RolesKept DEF ClaimResponse, Take, Moves
<1>7. CASE Decide(w)
  <2>1. ControlTypes' /\ At(w)' \in {"raised", "done"} /\ Still(w)
    BY <1>0, <1>7, GotoOK DEF Decide, DecideIf
  <2>2. StatusOfKind(me[w].kind) \in {"approved", "rejected", "needs_changes"}
    BY DEF StatusOfKind
  <2>3. reviews' \in Seq(Review) /\ DOMAIN reviews' = DOMAIN reviews
    BY <1>0, <1>7, <2>2, DecidedType DEF Decide, DecideIf, TablesOK
  <2>4. TablesOK'
    BY <1>0, <1>7, <2>3 DEF Decide, DecideIf, TablesOK, history
  <2>5. RoleOK(w)'
    BY <1>0, <1>7, <2>1, <2>3 DEF Decide, DecideIf, RoleOK, IsRun
  <2>6. Alone(w)
    BY <1>7, <2>1 DEF Alone, Decide, DecideIf
  <2>7. Enters(w) /\ Remembers(w)
    BY <1>0, <1>7, <2>1 DEF Decide, DecideIf, Enters, Remembers, TablesOK, Memory, RoleOK, Idle
  <2> QED
    BY <1>7, <2>1, <2>3, <2>4, <2>5, <2>6, <2>7, RolesKept DEF Decide, DecideIf, Moves
<1>8. CASE RecordChanges(w)
  <2>1. ControlTypes' /\ At(w)' = "revise" /\ Still(w)
    BY <1>0, <1>8, ThenOK, StatusSeqs DEF RecordChanges, Status, Resting
  <2>2. StatusOfKind(me[w].kind) \in {"approved", "rejected", "needs_changes"}
    BY DEF StatusOfKind
  <2>3. reviews' \in Seq(Review) /\ DOMAIN reviews' = DOMAIN reviews
    BY <1>0, <1>8, <2>2, DecidedType DEF RecordChanges, TablesOK
  <2>4. TablesOK'
    BY <1>0, <1>8, <2>3 DEF RecordChanges, TablesOK, history
  <2>5. RoleOK(w)'
    BY <1>0, <1>8, <2>1, <2>3 DEF RecordChanges, RoleOK, IsRun
  <2>6. Alone(w)
    BY <1>8, <2>1 DEF Alone, RecordChanges
  <2>7. Enters(w) /\ Remembers(w)
    BY <1>0, <1>8, <2>1 DEF RecordChanges, Enters, Remembers, TablesOK, Memory, RoleOK, Idle
  <2> QED
    BY <1>8, <2>1, <2>3, <2>4, <2>5, <2>6, <2>7, RolesKept DEF RecordChanges, Moves
<1>9. CASE Preflight(w)
  <2> DEFINE b == session.gate \/ (me[w].kind = "approve" /\ On(w) = 0)
  <2>1. CASE Resumable(On(w))
    <3>1. ControlTypes' /\ At(w)' = "graph" /\ Still(w)
      BY <1>0, <1>9, <2>1, GotoOK DEF Preflight, Resume
    <3>2. me' = [me EXCEPT ![w].gate = b] /\ b \in BOOLEAN
      BY <1>0, <1>9, <2>1 DEF Preflight, Resume, TablesOK, Session
    <3> HIDE DEF b
    <3>3. me' \in [Workers -> Memory]
      BY <1>0, <3>2, MemoryUpdate DEF TablesOK
    <3>4. asks' \in Seq(Ask) /\ DOMAIN asks' = DOMAIN asks
      <4> DEFINE i == me[w].target
                 e == [asks[i] EXCEPT !.resumes = @ + 1]
      <4>1. asks' = asks \/ (i \in DOMAIN asks /\ asks' = [asks EXCEPT ![i] = e])
        BY <1>0, <1>9, <2>1 DEF Preflight, Resume, On, RoleOK
      <4>2. ASSUME i \in DOMAIN asks PROVE e \in Ask
        <5>1. asks[i] \in Ask
          BY <1>0, <4>2, LenProperties DEF TablesOK
        <5> QED
          BY <5>1 DEF Ask
      <4> HIDE DEF i, e
      <4> QED
        BY <1>0, <4>1, <4>2, SetStatus DEF TablesOK
    <3>5. TablesOK'
      BY <1>0, <1>9, <3>3, <3>4 DEF Preflight, Resume, TablesOK, history
    <3>6. RoleOK(w)'
      BY <1>0, <1>9, <3>1, <3>2, <3>4 DEF Preflight, Resume, RoleOK, IsRun, TablesOK, Memory
    <3>7. Alone(w)
      BY <3>1, <3>2 DEF Alone, TablesOK
    <3>8. Enters(w) /\ Remembers(w)
      BY <1>0, <1>9, <3>1, <3>2 DEF Preflight, Resume, Enters, Remembers, TablesOK, Memory, RoleOK, Idle
    <3> QED
      BY <1>9, <3>1, <3>4, <3>5, <3>6, <3>7, <3>8, RolesKept DEF Preflight, Resume, Moves
  <2>2. CASE ~Resumable(On(w)) /\ me[w].kind = "respond"
    <3>1. ControlTypes' /\ At(w)' = "reply" /\ Still(w)
      BY <1>0, <1>9, <2>2, ThenOK, StatusSeqs DEF Preflight, Resume, Status, Resting
    <3>2. me' = [me EXCEPT ![w].answer = "failed"]
      BY <1>9, <2>2 DEF Preflight, Resume
    <3>3. me' \in [Workers -> Memory]
      BY <1>0, <3>2, MemoryUpdate DEF TablesOK
    <3>4. asks' = asks
      BY <1>9, <2>2 DEF Preflight, Resume
    <3>5. TablesOK'
      BY <1>0, <1>9, <3>3, <3>4 DEF Preflight, Resume, TablesOK, history
    <3>6. RoleOK(w)'
      BY <1>0, <1>9, <2>2, <3>1, <3>2, <3>4 DEF Preflight, Resume, RoleOK, IsRun, TablesOK, Memory, Decisions
    <3>7. Alone(w)
      BY <3>1, <3>2 DEF Alone, TablesOK
    <3>8. Enters(w) /\ Remembers(w)
      BY <1>0, <1>9, <3>1, <3>2 DEF Preflight, Resume, Enters, Remembers, TablesOK, Memory, RoleOK, Idle
    <3> QED
      BY <1>9, <3>1, <3>4, <3>5, <3>6, <3>7, <3>8, RolesKept DEF Preflight, Resume, Moves
  <2>3. CASE ~Resumable(On(w)) /\ me[w].kind # "respond"
    <3>1. ControlTypes' /\ At(w)' = "raised" /\ Still(w)
      BY <1>0, <1>9, <2>3, ThenOK, StatusSeqs DEF Preflight, Resume, Status, Resting
    <3>2. me' = me /\ asks' = asks
      BY <1>9, <2>3 DEF Preflight, Resume
    <3>3. TablesOK'
      BY <1>0, <1>9, <3>2 DEF Preflight, Resume, TablesOK, history
    <3>4. RoleOK(w)'
      BY <1>0, <1>9, <3>1, <3>2 DEF Preflight, Resume, RoleOK, IsRun
    <3>5. Alone(w)
      BY <3>1, <3>2 DEF Alone
    <3>6. Enters(w) /\ Remembers(w)
      BY <1>0, <1>9, <3>1, <3>2 DEF Preflight, Resume, Enters, Remembers, TablesOK, Memory, RoleOK, Idle
    <3> QED
      BY <1>9, <3>1, <3>2, <3>3, <3>4, <3>5, <3>6, RolesKept DEF Preflight, Resume, Moves
  <2> QED
    BY <2>1, <2>2, <2>3
<1> QED
  BY <1>1, <1>2, <1>3, <1>4, <1>5, <1>6, <1>7, <1>8, <1>9 DEF AnswerStep

\* Nobody goes anywhere.
LEMMA RolesStay ==
    ASSUME Control, me' = me, \A w \in Workers : At(w)' = At(w) \/ At(w)' = "crashed",
           asks' = asks, reviews' = reviews
    PROVE  \A w \in Workers : RoleOK(w)'
<1> SUFFICES ASSUME NEW w \in Workers PROVE RoleOK(w)'
  OBVIOUS
<1>1. RoleOK(w) /\ (At(w)' = At(w) \/ At(w)' = "crashed")
  BY DEF Control
<1> QED
  BY <1>1 DEF RoleOK, IsRun

LEMMA StillAt ==
    ASSUME NEW p \in Procs, Still(p), NEW w \in Workers \ {p}
    PROVE  At(w)' = At(w)
BY DEF Still, At, Procs

\* A status write, of a worker or a sweeper.
LEMMA WriteControl ==
    ASSUME Control, NEW p \in Procs, WriteRow(p)
    PROVE  Control'
<1>1. ControlTypes' /\ Still(p) /\ At(p)' = At(p) /\ Head(todo[p]) \in StatusWrite
  BY WriteRowOK DEF Control
<1>2. \A w \in Workers : At(w)' = At(w)
  BY <1>1, StillAt DEF Procs
<1>3. UNCHANGED <<envelope, session, reviews, asks, runs, delivered, revisions, me>>
  BY DEF WriteRow, history
<1>4. \A w \in Workers : RoleOK(w)'
  BY <1>2, <1>3, RolesStay
<1>5. row' \in [Row -> Status] /\ clock' \in {"unset", "fresh", "old"}
  <2> DEFINE h == Head(todo[p])
  <2>1. h.row \in Row /\ h.status \in Status
    BY <1>1 DEF StatusWrite
  <2>2. \/ row' = Updated(h.row, h.status) /\ clock' = Started(h.row, h.status)
        \/ row' = row /\ clock' = clock
    BY DEF WriteRow
  <2> HIDE DEF h
  <2>3. Updated(h.row, h.status) \in [Row -> Status]
    BY <2>1 DEF Control, TablesOK, Updated
  <2>4. Started(h.row, h.status) \in {"unset", "fresh", "old"}
    BY DEF Control, TablesOK, Started
  <2> QED
    BY <2>2, <2>3, <2>4 DEF Control, TablesOK
<1> QED
  BY <1>1, <1>3, <1>4, <1>5 DEF Control, TablesOK

\* A step of the sweep.
LEMMA SweepControl ==
    ASSUME Control, NEW s \in Sweepers, Sweep(s)
    PROVE  Control'
<1> USE DEF Pc, Terminal
<1>0. s \in Procs /\ s \notin Workers /\ ControlTypes /\ TablesOK
  BY CallsAssumption DEF Procs, Control
<1>1. CASE WriteRow(s)
  BY <1>0, <1>1, WriteControl
<1>2. ASSUME ControlTypes', Still(s), TablesOK', me' = me, asks' = asks, reviews' = reviews
      PROVE  Control'
  <2>1. \A w \in Workers : At(w)' = At(w)
    BY <1>0, <1>2, StillAt
  <2>2. \A w \in Workers : RoleOK(w)'
    BY <1>2, <2>1, RolesStay
  <2> QED
    BY <1>2, <2>2 DEF Control
<1>3. CASE SweepLists(s)
  <2>1. ControlTypes' /\ Still(s)
    BY <1>0, <1>3, GotoOK DEF SweepLists
  <2> QED
    BY <1>0, <1>2, <1>3, <2>1 DEF SweepLists, TablesOK, tables, history
<1>4. CASE SweepRechecks(s)
  <2>1. ControlTypes' /\ Still(s)
    BY <1>0, <1>4, GotoOK DEF SweepRechecks, Recheck
  <2> QED
    BY <1>0, <1>2, <1>4, <2>1 DEF SweepRechecks, Recheck, TablesOK, tables, history
<1>5. CASE SweepMarks(s)
  <2>1. ControlTypes' /\ Still(s)
    BY <1>0, <1>5, GotoOK DEF SweepMarks
  <2>2. row' = row \/ row' = Updated("event", "failed")
    BY <1>5 DEF SweepMarks, Attempt
  <2>3. row' \in [Row -> Status]
    BY <1>0, <2>2 DEF TablesOK, Updated, Row, Status
  <2> QED
    BY <1>0, <1>2, <1>5, <2>1, <2>3 DEF SweepMarks, TablesOK, history
<1>6. CASE SweepAligns(s)
  <2> DEFINE st == IF row.event \in TERMINAL_STATUSES THEN row.event ELSE "failed"
  <2>1. Then(s, Align(st), "off")
    BY <1>6 DEF SweepAligns
  <2>2. st \in Status \ {"absent"}
    BY DEF TERMINAL_STATUSES, Status
  <2> HIDE DEF st
  <2>3. ControlTypes' /\ Still(s)
    BY <1>0, <2>1, <2>2, ThenOK, StatusSeqs DEF Resting
  <2> QED
    BY <1>0, <1>2, <1>6, <2>3 DEF SweepAligns, TablesOK, tables, history
<1> QED
  BY <1>1, <1>3, <1>4, <1>5, <1>6 DEF Sweep

\* A process dies.
LEMMA CrashControl ==
    ASSUME Control, NEW p \in Procs, Crash(p)
    PROVE  Control' /\ Still(p)
<1>1. /\ pc' = [pc EXCEPT ![p] = IF p \in Sweepers THEN "off" ELSE "crashed"]
      /\ todo' = [todo EXCEPT ![p] = <<>>] /\ after' = after /\ me' = me
      /\ UNCHANGED <<row, clock, envelope, session, reviews, asks, runs, delivered, revisions>>
  BY DEF Crash, tables, history
<1>2. pc' \in [Procs -> Pc]
  BY <1>1 DEF Control, ControlTypes, Pc, Terminal
<1>3. ControlTypes' /\ Still(p)
  BY <1>1, <1>2, EmptySeq DEF Control, ControlTypes, WritesOK, Still
<1>4. ASSUME NEW w \in Workers PROVE At(w)' = At(w) \/ At(w)' = "crashed"
  <2>1. CASE w = p
    BY <1>1, <2>1, CallsAssumption DEF Control, ControlTypes, At
  <2>2. CASE w # p
    BY <1>3, <2>2, StillAt
  <2> QED
    BY <2>1, <2>2
<1>5. \A w \in Workers : RoleOK(w)'
  BY <1>1, <1>4, RolesStay
<1> QED
  BY <1>1, <1>3, <1>5 DEF Control, TablesOK

\* A step in which no process moves.
LEMMA RestControl ==
    ASSUME Control, UNCHANGED <<pc, todo, after, me, reviews, asks>>, TablesOK'
    PROVE  Control'
<1>1. ControlTypes'
  BY DEF Control, ControlTypes, WritesOK
<1>2. \A w \in Workers : At(w)' = At(w)
  BY DEF At
<1>3. \A w \in Workers : RoleOK(w)'
  BY <1>2, RolesStay
<1> QED
  BY <1>1, <1>3 DEF Control

LEMMA ControlStep == Control /\ [Next]_vars => Control'
<1> SUFFICES ASSUME Control, [Next]_vars PROVE Control'
  OBVIOUS
<1>1. ASSUME NEW w \in Workers, Start(w) \/ Step(w) PROVE Control'
  BY <1>1, StartControl, RunControl, GraphControl, AnswerControl, WriteControl DEF Step, Procs, Moves
<1>2. CASE Age
  BY <1>2, RestControl DEF Age, Control, TablesOK, history
<1>3. CASE UNCHANGED vars
  BY <1>3, RestControl DEF vars, Control, TablesOK
<1> QED
  BY <1>1, <1>2, <1>3, SweepControl, CrashControl DEF Next, Quiet

LEMMA ControlInit == Init => Control
<1> SUFFICES ASSUME Init PROVE Control
  OBVIOUS
<1>1. ControlTypes
  BY EmptySeq DEF Init, ControlTypes, WritesOK, Pc, Resting
<1>2. TablesOK
  BY EmptySeq DEF Init, TablesOK, Row, Status, Session, Memory, Idle, Receipts
<1>3. \A w \in Workers : RoleOK(w)
  BY DEF Init, RoleOK, At, Idle, IsRun, Decisions, Procs
<1> QED
  BY <1>1, <1>2, <1>3 DEF Control

\* The four status rows, the session, the inboxes and every process's memory
\* keep their shape, for any calls and any faults.
THEOREM RunTypes == Spec => []TypeOK
BY ControlInit, ControlStep, ControlIsTyped, PTL DEF Spec

-----------------------------------------------------------------------------
(* One run per event. *)

\* Every step of a worker moves it and nobody else.
LEMMA WorkerMoves ==
    ASSUME Control, NEW w \in Workers, Start(w) \/ RunStep(w) \/ GraphStep(w) \/ AnswerStep(w)
    PROVE  Moves(w)
BY StartControl, RunControl, GraphControl, AnswerControl

\* Only a claim, a new run and a status write touch what the claim is about.
ClaimFrame ==
    /\ runs' = runs
    /\ row'["event"] = "absent" => row["event"] = "absent"
    /\ \A u \in Workers : pc'[u] = "canonical" => pc[u] = "canonical"

LEMMA ClaimKept == ASSUME ClaimInv, ClaimFrame PROVE ClaimInv'
BY DEF ClaimInv, ClaimFrame

LEMMA NoNewClaimant ==
    ASSUME NEW w \in Workers, Moves(w), ~TryClaim(w)
    PROVE  \A u \in Workers : pc'[u] = "canonical" => pc[u] = "canonical"
<1>1. pc'[w] # "canonical"
  BY DEF Moves, Enters, At
<1> QED
  BY <1>1 DEF Moves, Alone, Still, Procs

LEMMA ClaimWorker ==
    ASSUME Control, ClaimInv, NEW w \in Workers, Start(w) \/ RunStep(w) \/ GraphStep(w) \/ AnswerStep(w)
    PROVE  ClaimInv'
<1>0. /\ Moves(w) /\ w \in Procs /\ row \in [Row -> Status] /\ runs \in Nat
      /\ pc \in [Procs -> Pc] /\ {"event", "job", "github", "canonical"} \subseteq Row
  BY WorkerMoves DEF Control, TablesOK, ControlTypes, Procs, Row
<1>1. ASSUME ~TryClaim(w), runs' = runs, row'["event"] = row["event"]
      PROVE  ClaimInv'
  BY <1>0, <1>1, NoNewClaimant, ClaimKept DEF ClaimFrame
<1>2. CASE TryClaim(w)
  <2>1. CASE row["event"] = "absent"
    <3>1. row'["event"] = "running" /\ runs' = runs
      BY <1>0, <1>2, <2>1 DEF TryClaim, Claim, history
    <3>2. \A u \in Workers : pc[u] # "canonical" /\ (u # w => pc'[u] # "canonical")
      BY <1>0, <2>1 DEF ClaimInv, Moves, Alone, Still, Procs
    <3> QED
      BY <2>1, <3>1, <3>2 DEF ClaimInv
  <2>2. CASE row["event"] # "absent"
    <3>1. row' = row /\ runs' = runs /\ Goto(w, "reconcile")
      BY <1>2, <2>2 DEF TryClaim, Claim, history
    <3>2. \A u \in Workers : pc'[u] = "canonical" => pc[u] = "canonical"
      BY <1>0, <3>1 DEF Goto
    <3> QED
      BY <3>1, <3>2, ClaimKept DEF ClaimFrame
  <2> QED
    BY <2>1, <2>2
<1>3. CASE EnsureCanonicalRun(w)
  <2>1. runs = 0 /\ runs' = 1 /\ row["event"] # "absent" /\ row'["event"] = row["event"]
    BY <1>0, <1>3 DEF EnsureCanonicalRun, ClaimInv
  <2>2. \A u \in Workers : pc'[u] # "canonical"
    <3>1. ~TryClaim(w)
      BY <1>3 DEF EnsureCanonicalRun, TryClaim, Claim
    <3>2. \A u \in Workers : pc[u] = "canonical" => u = w
      BY <1>3 DEF EnsureCanonicalRun, ClaimInv
    <3>3. pc'[w] = "write"
      BY <1>0, <1>3 DEF EnsureCanonicalRun, Then
    <3> QED
      BY <1>0, <3>1, <3>2, <3>3, NoNewClaimant
  <2> QED
    BY <2>1, <2>2 DEF ClaimInv
<1>4. CASE Start(w)
  <2>1. pc[w] = "off"
    BY <1>4 DEF Start, Webhook, RetryJob, StartRespond, CancelRun, StartReview, Arrives
  <2>2. runs' = runs /\ row'["event"] = row["event"]
    BY <1>0, <1>4 DEF Start, Webhook, RetryJob, StartRespond, CancelRun, StartReview, tables, history
  <2> QED
    BY <1>1, <2>1, <2>2 DEF TryClaim, Claim
<1>5. CASE SaveGithubWorkflow(w) \/ StartJob(w) \/ ReconcileRun(w)
  <2>1. runs' = runs /\ row'["event"] = row["event"] /\ pc[w] # "claim"
    BY <1>0, <1>5 DEF SaveGithubWorkflow, StartJob, ReconcileRun, tables, history
  <2> QED
    BY <1>1, <2>1 DEF TryClaim, Claim
<1>6. CASE GraphStep(w)
  <2>1. runs' = runs /\ row' = row /\ pc[w] # "claim"
    BY <1>6 DEF GraphStep, GraphAdvances, GraphDelivers, GraphAsks, GraphPauses, GraphEnds, GraphRaises,
                FinishResult, GraphReturns, InGraph, tables, history
  <2> QED
    BY <1>1, <2>1 DEF TryClaim, Claim
<1>7. CASE AnswerStep(w)
  <2>1. runs' = runs /\ row' = row /\ pc[w] # "claim"
    BY <1>7 DEF AnswerStep, CheckReview, Preflight, Resume, Decide, DecideIf, RecordChanges, StartRevision,
                LookUp, ReplayLookup, ClaimResponse, Take, Reply, tables, history
  <2> QED
    BY <1>1, <2>1 DEF TryClaim, Claim
<1> QED
  BY <1>2, <1>3, <1>4, <1>5, <1>6, <1>7 DEF RunStep

\* A status write changes a row that is there and never removes it.
LEMMA WriteIsStatus ==
    ASSUME Control, NEW p \in Procs, WriteRow(p)
    PROVE  /\ \A r \in Row : row'[r] = "absent" <=> row[r] = "absent"
           /\ clock' # clock => clock = "unset" /\ clock' = "fresh" /\ row["job"] # "absent"
           /\ \A w \in Workers : pc'[w] = "canonical" => pc[w] = "canonical"
           /\ UNCHANGED <<envelope, session, reviews, asks, runs, delivered, revisions, me>>
           /\ Still(p) /\ \A w \in Workers : At(w)' = At(w)
<1>1. ControlTypes' /\ Still(p) /\ At(p)' = At(p) /\ Head(todo[p]) \in StatusWrite
  BY WriteRowOK DEF Control
<1>2. \A w \in Workers : At(w)' = At(w)
  BY <1>1, StillAt DEF Procs
<1> DEFINE h == Head(todo[p])
<1>3. h.row \in Row /\ h.status # "absent"
  BY <1>1 DEF StatusWrite
<1>4. \/ row' = Updated(h.row, h.status) /\ clock' = Started(h.row, h.status)
      \/ row' = row /\ clock' = clock
  BY DEF WriteRow
<1> HIDE DEF h
<1>5. \A r \in Row : row'[r] = "absent" <=> row[r] = "absent"
  BY <1>3, <1>4 DEF Updated, Control, TablesOK
<1>6. clock' # clock => clock = "unset" /\ clock' = "fresh" /\ row["job"] # "absent"
  BY <1>4 DEF Started
<1>7. \A w \in Workers : pc'[w] = "canonical" => pc[w] = "canonical"
  <2>1. pc'[p] # "canonical"
    BY DEF WriteRow, Control, ControlTypes, WritesOK, Resting
  <2> QED
    BY <1>1, <2>1 DEF Still, Procs
<1>8. UNCHANGED <<envelope, session, reviews, asks, runs, delivered, revisions, me>>
  BY DEF WriteRow, history
<1> QED
  BY <1>1, <1>2, <1>5, <1>6, <1>7, <1>8

\* What the sweep, a crash and the clock do to the claim: nothing.
LEMMA OtherSteps ==
    ASSUME Control, \/ \E s \in Sweepers : Sweep(s) /\ ~WriteRow(s)
                    \/ \E p \in Procs : Crash(p)
                    \/ Age \/ UNCHANGED vars
    PROVE  /\ UNCHANGED <<envelope, session, reviews, asks, runs, delivered, revisions, me>>
           /\ row'["event"] = "absent" <=> row["event"] = "absent"
           /\ \A w \in Workers : pc'[w] = pc[w] \/ pc'[w] = "crashed"
<1>1. ASSUME NEW s \in Sweepers, Sweep(s), ~WriteRow(s)
      PROVE  /\ UNCHANGED <<envelope, session, reviews, asks, runs, delivered, revisions, me>>
             /\ row'["event"] = "absent" <=> row["event"] = "absent"
             /\ \A w \in Workers : pc'[w] = pc[w]
  <2>1. UNCHANGED <<envelope, session, reviews, asks, runs, delivered, revisions, me>>
    BY <1>1 DEF Sweep, SweepLists, SweepRechecks, Recheck, SweepMarks, SweepAligns, tables, history
  <2>2. row' = row \/ row' = Updated("event", "failed")
    BY <1>1 DEF Sweep, SweepLists, SweepRechecks, Recheck, SweepMarks, SweepAligns, tables, Attempt
  <2>3. row'["event"] = "absent" <=> row["event"] = "absent"
    BY <2>2 DEF Updated, Control, TablesOK, Row
  <2>4. \A w \in Workers : w # s
    BY CallsAssumption
  <2>5. \A w \in Workers : pc'[w] = pc[w]
    <3>1. \E l : pc' = [pc EXCEPT ![s] = l]
      BY <1>1 DEF Sweep, SweepLists, SweepRechecks, Recheck, SweepMarks, SweepAligns, Goto, Then
    <3> QED
      BY <2>4, <3>1 DEF Control, ControlTypes, Procs
  <2> QED
    BY <2>1, <2>3, <2>5
<1>2. ASSUME NEW p \in Procs, Crash(p)
      PROVE  /\ UNCHANGED <<row, envelope, session, reviews, asks, runs, delivered, revisions, me>>
             /\ \A w \in Workers : pc'[w] = pc[w] \/ pc'[w] = "crashed"
  BY <1>2, CallsAssumption DEF Crash, tables, history, Control, ControlTypes, Procs
<1>3. CASE Age
  BY <1>3 DEF Age, history
<1>4. CASE UNCHANGED vars
  BY <1>4 DEF vars
<1> QED
  BY <1>1, <1>2, <1>3, <1>4

LEMMA ClaimStep == Control /\ ClaimInv /\ [Next]_vars => ClaimInv'
<1> SUFFICES ASSUME Control, ClaimInv, [Next]_vars PROVE ClaimInv'
  OBVIOUS
<1>1. ASSUME NEW p \in Procs, WriteRow(p) PROVE ClaimInv'
  BY <1>1, WriteIsStatus, ClaimKept DEF ClaimFrame, Row
<1>2. CASE \/ \E s \in Sweepers : Sweep(s) /\ ~WriteRow(s)
           \/ \E p \in Procs : Crash(p)
           \/ Age \/ UNCHANGED vars
  BY <1>2, OtherSteps, ClaimKept DEF ClaimFrame
<1> QED
  BY <1>1, <1>2, ClaimWorker DEF Next, Step, Quiet, Procs

\* However often an event is delivered, retried or swept, its graph is started
\* at most once: the claim's INSERT admits one worker and never another.
THEOREM OneRun == Spec => []OneRunPerEvent
<1>1. Init => Control /\ ClaimInv
  BY ControlInit DEF Init, ClaimInv, Row, Procs
<1>2. Control /\ ClaimInv /\ [Next]_vars => (Control /\ ClaimInv)'
  BY ControlStep, ClaimStep
<1>3. Control /\ ClaimInv => OneRunPerEvent
  BY DEF ClaimInv, OneRunPerEvent
<1> QED
  BY <1>1, <1>2, <1>3, PTL DEF Spec

-----------------------------------------------------------------------------
(* Approvals and the gate. *)

\* The step that records an approval, and its right to.
Approves(w, r) ==
    /\ pc[w] = "decide" /\ pc'[w] = "done" /\ me' = me
    /\ me[w].kind = "approve" /\ me[w].target = r /\ me[w].answer = "delivered"

\* What a worker's step adds to the history, the inbox and the session.
Grows(w) ==
    /\ delivered' = delivered \/ (delivered' = delivered + 1 /\ GraphDelivers(w))
    /\ \A r \in DOMAIN reviews : r \in DOMAIN reviews' /\ reviews'[r].on = reviews[r].on
    /\ \A r \in DOMAIN reviews' : reviews'[r].status = "approved" =>
          \/ r \in DOMAIN reviews /\ reviews[r].status = "approved"
          \/ Approves(w, r)
    /\ session'.gate => session.gate \/ me[w].gate

LEMMA WorkerGrows ==
    ASSUME Control, NEW w \in Workers, Start(w) \/ RunStep(w) \/ GraphStep(w) \/ AnswerStep(w)
    PROVE  Grows(w)
<1>0. TablesOK /\ RoleOK(w) /\ me[w] \in Memory /\ (pc[w] # "write" => At(w) = pc[w])
  BY WorkerAt
<1>1. CASE Start(w) \/ RunStep(w)
  <2>1. UNCHANGED <<delivered, reviews, session>>
    BY <1>1 DEF Start, Webhook, RetryJob, StartRespond, CancelRun, StartReview, RunStep, SaveGithubWorkflow,
                StartJob, TryClaim, Claim, EnsureCanonicalRun, ReconcileRun, tables, history
  <2> QED
    BY <2>1 DEF Grows
<1>2. CASE GraphAdvances(w) \/ GraphDelivers(w) \/ GraphAsks(w)
  <2>1. reviews' = reviews /\ session'.gate = session.gate
    BY <1>0, <1>2 DEF GraphAdvances, GraphDelivers, GraphAsks, tables, history, TablesOK, Session
  <2>2. delivered' = delivered \/ (delivered' = delivered + 1 /\ GraphDelivers(w))
    BY <1>2 DEF GraphAdvances, GraphDelivers, GraphAsks, history
  <2> QED
    BY <2>1, <2>2 DEF Grows
<1>3. CASE GraphPauses(w) \/ GraphEnds(w) \/ GraphRaises(w)
  <2>1. UNCHANGED <<delivered, reviews>>
    BY <1>3 DEF GraphPauses, GraphEnds, GraphRaises, GraphReturns, history
  <2>2. session'.gate => session.gate \/ me[w].gate
    <3>1. CASE GraphPauses(w)
      <4>1. \/ session' = [at |-> "paused", on |-> me[w].ask, gate |-> me[w].gate]
            \/ session' = [at |-> "paused", on |-> 0, gate |-> FALSE]
        BY <3>1 DEF GraphPauses, GraphReturns
      <4> QED
        BY <4>1
    <3>2. CASE GraphEnds(w) \/ GraphRaises(w)
      <4>1. session' \in {session, [session EXCEPT !.at = "ended"]}
        BY <3>2 DEF GraphEnds, GraphRaises, GraphReturns
      <4> QED
        BY <1>0, <4>1 DEF TablesOK, Session
    <3> QED
      BY <1>3, <3>1, <3>2
  <2> QED
    BY <2>1, <2>2 DEF Grows
<1>4. CASE FinishResult(w)
  <2> DEFINE new == [status |-> "pending", on |-> IF me[w].result = "gate" THEN 0 ELSE me[w].ask]
  <2>1. UNCHANGED <<delivered, session>> /\ reviews' \in {reviews, Append(reviews, new)}
    BY <1>4 DEF FinishResult, Attempt, history
  <2>2. new \in Review /\ new.status = "pending"
    BY <1>0 DEF Review, Memory
  <2>3. CASE reviews' = Append(reviews, new)
    <3> HIDE DEF new
    <3>1. /\ DOMAIN reviews = 1..Len(reviews) /\ Len(reviews) \in Nat
          /\ DOMAIN reviews' = 1..(Len(reviews) + 1)
          /\ \A r \in DOMAIN reviews : reviews'[r] = reviews[r]
          /\ reviews'[Len(reviews) + 1] = new
      BY <1>0, <2>2, <2>3, AppendProperties, LenProperties DEF TablesOK
    <3>2. \A r \in DOMAIN reviews' : r \in DOMAIN reviews \/ r = Len(reviews) + 1
      BY <3>1
    <3> QED
      BY <2>1, <2>2, <3>1, <3>2 DEF Grows
  <2>4. CASE reviews' = reviews
    BY <2>1, <2>4 DEF Grows
  <2> QED
    BY <2>1, <2>3, <2>4
<1>5. CASE Decide(w)
  <2>1. UNCHANGED <<delivered, session>>
    BY <1>5 DEF Decide, DecideIf, history
  <2>2. \/ reviews' = reviews
        \/ /\ reviews' = Decided(me[w].target, StatusOfKind(me[w].kind))
           /\ me[w].kind = "approve" => me[w].answer = "delivered"
           /\ pc[w] = "decide" /\ pc'[w] = "done" /\ me' = me
    BY <1>0, <1>5 DEF Decide, DecideIf, Goto, Control, ControlTypes, Procs
  <2>3. /\ StatusOfKind(me[w].kind) \in {"approved", "rejected", "needs_changes"}
        /\ StatusOfKind(me[w].kind) = "approved" => me[w].kind = "approve"
    BY DEF StatusOfKind
  <2>4. CASE reviews' = reviews
    BY <2>1, <2>4 DEF Grows
  <2>5. CASE /\ reviews' = Decided(me[w].target, StatusOfKind(me[w].kind))
             /\ me[w].kind = "approve" => me[w].answer = "delivered"
             /\ pc[w] = "decide" /\ pc'[w] = "done" /\ me' = me
    <3>1. /\ DOMAIN reviews' = DOMAIN reviews
          /\ \A r \in DOMAIN reviews : /\ reviews'[r].on = reviews[r].on
                                       /\ reviews'[r].status \in {reviews[r].status, StatusOfKind(me[w].kind)}
      BY <1>0, <2>3, <2>5, DecidedType DEF TablesOK
    <3>2. \A r \in DOMAIN reviews : r # me[w].target => reviews'[r] = reviews[r]
      BY <2>5 DEF Decided
    <3>3. ASSUME NEW r \in DOMAIN reviews', reviews'[r].status = "approved", reviews[r].status # "approved"
          PROVE  Approves(w, r)
      BY <2>3, <2>5, <3>1, <3>2, <3>3 DEF Approves
    <3> QED
      BY <2>1, <3>1, <3>3 DEF Grows
  <2> QED
    BY <2>2, <2>4, <2>5
<1>6. CASE RecordChanges(w)
  <2>1. UNCHANGED <<delivered, session>> /\ reviews' = Decided(me[w].target, StatusOfKind(me[w].kind))
    BY <1>6 DEF RecordChanges, history
  <2>2. StatusOfKind(me[w].kind) = "needs_changes"
    BY <1>0, <1>6 DEF RecordChanges, RoleOK, StatusOfKind
  <2>3. /\ DOMAIN reviews' = DOMAIN reviews
        /\ \A r \in DOMAIN reviews : /\ reviews'[r].on = reviews[r].on
                                     /\ reviews'[r].status \in {reviews[r].status, "needs_changes"}
    BY <1>0, <2>1, <2>2, DecidedType DEF TablesOK
  <2> QED
    BY <2>1, <2>3 DEF Grows
<1>7. CASE \/ CheckReview(w) \/ Preflight(w) \/ StartRevision(w) \/ LookUp(w) \/ ReplayLookup(w)
           \/ ClaimResponse(w) \/ Reply(w)
  <2>1. UNCHANGED <<delivered, reviews, session>>
    BY <1>7 DEF CheckReview, Preflight, Resume, StartRevision, LookUp, ReplayLookup, ClaimResponse, Take, Reply,
                tables, history
  <2> QED
    BY <2>1 DEF Grows
<1> QED
  BY <1>1, <1>2, <1>3, <1>4, <1>5, <1>6, <1>7 DEF GraphStep, AnswerStep

\* A call that is over takes no further step.
LEMMA OverIsOver ==
    ASSUME NEW w \in Workers, Start(w) \/ RunStep(w) \/ GraphStep(w) \/ AnswerStep(w)
    PROVE  pc[w] \notin {"done", "crashed"}
<1>1. CASE Start(w)
  BY <1>1 DEF Start, Webhook, RetryJob, StartRespond, CancelRun, StartReview, Arrives
<1>2. CASE RunStep(w)
  BY <1>2 DEF RunStep, SaveGithubWorkflow, StartJob, TryClaim, Claim, EnsureCanonicalRun, ReconcileRun
<1>3. CASE GraphStep(w)
  BY <1>3 DEF GraphStep, GraphAdvances, GraphDelivers, GraphAsks, GraphPauses, GraphEnds, GraphRaises,
              FinishResult, InGraph
<1>4. CASE AnswerStep(w)
  BY <1>4 DEF AnswerStep, CheckReview, Preflight, Resume, Decide, DecideIf, RecordChanges, StartRevision,
              LookUp, ReplayLookup, ClaimResponse, Take, Reply
<1> QED
  BY <1>1, <1>2, <1>3, <1>4

\* An approval that answers the gate opens it when it resumes the graph.
LEMMA GateOpens ==
    ASSUME Control, ConfirmInv, NEW w \in Workers,
           Start(w) \/ RunStep(w) \/ GraphStep(w) \/ AnswerStep(w)
    PROVE  GateOpened(w)'
<1>1. Moves(w) /\ Grows(w) /\ RoleOK(w) /\ (pc[w] # "write" => At(w) = pc[w]) /\ GateOpened(w)
  BY WorkerMoves, WorkerGrows, WorkerAt DEF ConfirmInv
<1> SUFFICES ASSUME me'[w].kind = "approve", At(w)' \in {"graph", "finish", "decide"},
                    reviews'[me'[w].target].on = 0
             PROVE  me'[w].gate
  BY DEF GateOpened
<1>2. At(w) \in {"graph", "finish"} \/ EnsureCanonicalRun(w) \/ Preflight(w)
  BY <1>1 DEF Moves, Enters, GraphPauses, GraphEnds, GraphRaises, FinishResult, InGraph
<1>3. me[w].kind # "none"
  BY <1>1, <1>2 DEF RoleOK, IsRun, EnsureCanonicalRun, Preflight, Resume
<1>4. me[w].kind = "approve" /\ me'[w].target = me[w].target
  BY <1>1, <1>3 DEF Moves, Remembers
<1>5. ~EnsureCanonicalRun(w)
  BY <1>1, <1>4 DEF EnsureCanonicalRun, RoleOK, IsRun
<1>6. reviews[me[w].target].on = 0
  BY <1>1, <1>4 DEF Grows, RoleOK, Decisions
<1>7. CASE Preflight(w)
  <2>1. On(w) = 0
    BY <1>4, <1>6 DEF On
  <2>2. CASE Resumable(On(w))
    <3>1. me' = [me EXCEPT ![w].gate = session.gate \/ (me[w].kind = "approve" /\ On(w) = 0)]
      BY <1>7, <2>2 DEF Preflight, Resume
    <3>2. me \in [Workers -> Memory]
      BY DEF Control, TablesOK
    <3> QED
      BY <1>4, <2>1, <3>1, <3>2 DEF Memory
  <2>3. CASE ~Resumable(On(w))
    <3>1. Then(w, Mark("pending_review") \o Lifecycle("pending_review"), "raised")
      BY <1>4, <1>7, <2>3 DEF Preflight, Resume
    <3>2. At(w)' = "raised"
      BY <3>1 DEF Then, At, Control, ControlTypes, WritesOK, Procs
    <3> QED
      BY <3>2
  <2> QED
    BY <2>2, <2>3
<1>8. CASE ~Preflight(w)
  <2>1. me'[w].gate = me[w].gate
    BY <1>1, <1>5, <1>8 DEF Moves, Remembers
  <2> QED
    BY <1>1, <1>2, <1>4, <1>5, <1>6, <1>8, <2>1 DEF GateOpened
<1> QED
  BY <1>7, <1>8

LEMMA ConfirmWorker ==
    ASSUME Control, ConfirmInv, NEW w \in Workers,
           Start(w) \/ RunStep(w) \/ GraphStep(w) \/ AnswerStep(w)
    PROVE  ConfirmInv'
<1>1. Moves(w) /\ Grows(w) /\ pc[w] \notin {"done", "crashed"} /\ (pc[w] # "write" => At(w) = pc[w])
  BY WorkerMoves, WorkerGrows, WorkerAt, OverIsOver
<1>2. ASSUME NEW u \in Workers
      PROVE  /\ me'[u].result = "completed" => me'[u].receipt # "hollow"
             /\ At(u)' = "decide" /\ me'[u].answer = "delivered" => me'[u].result = "completed"
             /\ GateOpened(u)'
  <2>1. CASE u = w
    BY <1>1, <2>1, GateOpens DEF Moves, Remembers, ConfirmInv
  <2>2. CASE u # w
    <3>1. me'[u] = me[u] /\ At(u)' = At(u)
      BY <1>1, <2>2 DEF Moves, Alone, Still, At, Procs
    <3>2. me[u].kind = "approve" => reviews'[me[u].target].on = reviews[me[u].target].on
      BY <1>1 DEF Grows, Control, RoleOK, Decisions
    <3> QED
      BY <3>1, <3>2 DEF ConfirmInv, GateOpened
  <2> QED
    BY <2>1, <2>2
<1>3. ASSUME NEW r \in DOMAIN reviews', reviews'[r].status = "approved"
      PROVE  Confirmed(r)'
  <2>1. CASE r \in DOMAIN reviews /\ reviews[r].status = "approved"
    <3>1. PICK u \in Workers : /\ pc[u] \in {"done", "crashed"}
                               /\ me[u].kind = "approve" /\ me[u].target = r
                               /\ me[u].result = "completed" /\ me[u].receipt # "hollow"
                               /\ reviews[r].on = 0 => me[u].gate
      BY <2>1 DEF ConfirmInv, Confirmed
    <3>2. me'[u] = me[u] /\ pc'[u] = pc[u] /\ reviews'[r].on = reviews[r].on
      BY <1>1, <2>1, <3>1 DEF Moves, Alone, Still, Procs, Grows
    <3> QED
      BY <3>1, <3>2 DEF Confirmed
  <2>2. CASE Approves(w, r)
    <3>1. /\ pc'[w] = "done" /\ me' = me /\ me[w].kind = "approve" /\ me[w].target = r
          /\ me[w].result = "completed" /\ me[w].receipt # "hollow"
      BY <1>1, <2>2 DEF Approves, ConfirmInv
    <3>2. r \in DOMAIN reviews
      BY <3>1 DEF Control, RoleOK, Decisions
    <3>3. reviews'[r].on = 0 => me[w].gate
      BY <1>1, <2>2, <3>1, <3>2 DEF Approves, ConfirmInv, GateOpened, Grows
    <3> QED
      BY <3>1, <3>3 DEF Confirmed
  <2> QED
    BY <1>1, <1>3, <2>1, <2>2 DEF Grows
<1> QED
  BY <1>2, <1>3 DEF ConfirmInv

LEMMA ConfirmStep == Control /\ ConfirmInv /\ [Next]_vars => ConfirmInv'
<1> SUFFICES ASSUME Control, ConfirmInv, [Next]_vars PROVE ConfirmInv'
  OBVIOUS
<1>1. ASSUME UNCHANGED <<reviews, me>>,
             \A w \in Workers : /\ At(w)' = At(w) \/ At(w)' = "crashed"
                                /\ pc[w] \in {"done", "crashed"} => pc'[w] \in {"done", "crashed"}
      PROVE  ConfirmInv'
  <2>1. \A w \in Workers : GateOpened(w)'
    BY <1>1 DEF ConfirmInv, GateOpened
  <2>2. \A w \in Workers : /\ me'[w].result = "completed" => me'[w].receipt # "hollow"
                           /\ At(w)' = "decide" /\ me'[w].answer = "delivered" => me'[w].result = "completed"
    BY <1>1 DEF ConfirmInv
  <2>3. \A r \in DOMAIN reviews : Confirmed(r) => Confirmed(r)'
    BY <1>1 DEF Confirmed
  <2> QED
    BY <1>1, <2>1, <2>2, <2>3 DEF ConfirmInv
<1>2. ASSUME NEW p \in Procs, WriteRow(p) PROVE ConfirmInv'
  <2>1. UNCHANGED <<reviews, me>> /\ \A w \in Workers : At(w)' = At(w)
    BY <1>2, WriteIsStatus
  <2>2. \A w \in Workers : pc[w] \in {"done", "crashed"} => pc'[w] \in {"done", "crashed"}
    BY <1>2 DEF WriteRow, Control, ControlTypes, Procs
  <2> QED
    BY <1>1, <2>1, <2>2
<1>3. CASE \/ \E s \in Sweepers : Sweep(s) /\ ~WriteRow(s)
           \/ \E p \in Procs : Crash(p)
           \/ Age \/ UNCHANGED vars
  <2>1. UNCHANGED <<reviews, me>> /\ \A w \in Workers : pc'[w] = pc[w] \/ pc'[w] = "crashed"
    BY <1>3, OtherSteps
  <2>2. \A w \in Workers : after'[w] = after[w]
    BY <1>3, CallsAssumption DEF Sweep, SweepLists, SweepRechecks, Recheck, SweepMarks, SweepAligns, Goto, Then,
                Crash, Age, vars, Control, ControlTypes, WritesOK, Procs
  <2> QED
    BY <1>1, <2>1, <2>2 DEF At
<1> QED
  BY <1>2, <1>3, ConfirmWorker DEF Next, Step, Quiet, Procs

\* Whatever is retried, raised, lost or answered twice, a review is recorded as
\* approved only behind a graph that an approval of that very review resumed,
\* past the gate when it is the gate's, and that completed without a blocked or
\* empty receipt (runner._finish_result, resume_review_from_runtime).
THEOREM ApprovedIsConfirmed == Spec => []ApprovalWasConfirmed
<1>1. Init => Control /\ ConfirmInv
  BY ControlInit DEF Init, ConfirmInv, GateOpened, Idle
<1>2. Control /\ ConfirmInv /\ [Next]_vars => (Control /\ ConfirmInv)'
  BY ControlStep, ConfirmStep
<1>3. Control /\ ConfirmInv => ApprovalWasConfirmed
  BY DEF ConfirmInv, Confirmed, ApprovalWasConfirmed
<1> QED
  BY <1>1, <1>2, <1>3, PTL DEF Spec

\* An approval of the gate is never withdrawn.
LEMMA GateStays ==
    ASSUME Control, NEW w \in Workers, Moves(w), Grows(w), GateApproved
    PROVE  GateApproved'
<1>1. PICK u \in Workers : me[u].kind = "approve" /\ reviews[me[u].target].on = 0
  BY DEF GateApproved
<1>2. me[u].target \in DOMAIN reviews
  BY <1>1 DEF Control, RoleOK, Decisions
<1>3. me'[u].kind = me[u].kind /\ me'[u].target = me[u].target
  <2>1. CASE u = w
    BY <1>1, <2>1 DEF Moves, Remembers
  <2>2. CASE u # w
    BY <2>2 DEF Moves, Alone
  <2> QED
    BY <2>1, <2>2
<1>4. reviews'[me[u].target].on = 0
  BY <1>1, <1>2 DEF Grows
<1> QED
  BY <1>1, <1>3, <1>4 DEF GateApproved

LEMMA GateWorker ==
    ASSUME Control, GateInv, NEW w \in Workers, Start(w) \/ RunStep(w) \/ GraphStep(w) \/ AnswerStep(w)
    PROVE  GateInv'
<1> SUFFICES ASSUME NeedsReview
             PROVE  /\ \A u \in Workers : me'[u].gate => GateApproved'
                    /\ session'.gate => GateApproved'
                    /\ delivered' > 0 => GateApproved'
  BY DEF GateInv
<1>1. Moves(w) /\ Grows(w) /\ TablesOK /\ w \in Procs /\ RoleOK(w)
  BY WorkerMoves, WorkerGrows, WorkerAt
<1>2. GateApproved => GateApproved'
  BY <1>1, GateStays
<1>3. ASSUME me'[w].gate PROVE GateApproved
  <2>1. ~EnsureCanonicalRun(w)
    BY <1>1, <1>3 DEF EnsureCanonicalRun, TablesOK, Memory
  <2>2. CASE me[w].gate
    BY <2>2 DEF GateInv
  <2>3. CASE Preflight(w)
    <3>1. me'[w].gate => me[w].gate \/ session.gate \/ (me[w].kind = "approve" /\ On(w) = 0)
      BY <1>1, <2>3 DEF Preflight, Resume, TablesOK, Memory
    <3>2. CASE me[w].kind = "approve" /\ On(w) = 0
      BY <3>2 DEF On, GateApproved
    <3> QED
      BY <1>3, <3>1, <3>2 DEF GateInv
  <2> QED
    BY <1>1, <1>3, <2>1, <2>2, <2>3 DEF Moves, Remembers
<1>4. ASSUME NEW u \in Workers, me'[u].gate PROVE GateApproved'
  BY <1>1, <1>2, <1>3, <1>4 DEF Moves, Alone, GateInv
<1>5. ASSUME session'.gate PROVE GateApproved'
  BY <1>1, <1>2, <1>5 DEF Grows, GateInv
<1>6. ASSUME delivered' > 0 PROVE GateApproved'
  <2>1. CASE delivered > 0
    BY <1>2, <2>1 DEF GateInv
  <2>2. CASE GraphDelivers(w)
    BY <1>2, <2>2 DEF GraphDelivers, GateInv
  <2> QED
    BY <1>1, <1>6, <2>1, <2>2 DEF Grows
<1> QED
  BY <1>4, <1>5, <1>6

LEMMA GateStep == Control /\ GateInv /\ [Next]_vars => GateInv'
<1> SUFFICES ASSUME Control, GateInv, [Next]_vars PROVE GateInv'
  OBVIOUS
<1>1. ASSUME UNCHANGED <<reviews, delivered, me, session>> PROVE GateInv'
  BY <1>1 DEF GateInv, GateApproved
<1>2. ASSUME NEW p \in Procs, WriteRow(p) PROVE GateInv'
  BY <1>1, <1>2, WriteIsStatus
<1>3. CASE \/ \E s \in Sweepers : Sweep(s) /\ ~WriteRow(s)
           \/ \E p \in Procs : Crash(p)
           \/ Age \/ UNCHANGED vars
  BY <1>1, <1>3, OtherSteps
<1> QED
  BY <1>2, <1>3, GateWorker DEF Next, Step, Quiet, Procs

\* What the review policy stops is never delivered unless somebody has approved
\* the gate itself, whichever interventions were approved and whoever resumed.
THEOREM GateHolds == Spec => []GateIsNotBypassed
<1>1. Init => Control /\ GateInv
  BY ControlInit DEF Init, GateInv, Idle
<1>2. Control /\ GateInv /\ [Next]_vars => (Control /\ GateInv)'
  BY ControlStep, GateStep
<1>3. Control /\ GateInv => GateIsNotBypassed
  BY DEF GateInv, GateApproved, GateIsNotBypassed, On
<1> QED
  BY <1>1, <1>2, <1>3, PTL DEF Spec

-----------------------------------------------------------------------------
(* Responders with keys of their own. *)

LEMMA KeysKept ==
    ASSUME NEW w \in Workers, Moves(w), NEW i, OwnKeys(i)'
    PROVE  OwnKeys(i)
<1> SUFFICES ASSUME NEW u \in Workers, me[u].kind = "respond", me[u].target = i
             PROVE  me[u].key = "own"
  BY DEF OwnKeys
<1>1. me'[u].kind = me[u].kind /\ me'[u].target = me[u].target /\ me'[u].key = me[u].key
  <2>1. CASE u = w
    BY <2>1 DEF Moves, Remembers
  <2>2. CASE u # w
    BY <2>2 DEF Moves, Alone
  <2> QED
    BY <2>1, <2>2
<1> QED
  BY <1>1 DEF OwnKeys

\* The responders that do not move are about to resume as they were.
LEMMA OthersResuming ==
    ASSUME NEW w \in Workers, Moves(w), NEW u \in Workers, u # w, NEW i
    PROVE  Resuming(u, i)' <=> Resuming(u, i)
BY DEF Moves, Alone, Still, Procs, Resuming

\* One intervention, its row left alone and nobody new about to resume.
LEMMA ResumerKept ==
    ASSUME NEW i \in DOMAIN asks, asks'[i] = asks[i], OneResumer(i),
           \A u \in Workers : Resuming(u, i)' => Resuming(u, i)
    PROVE  OneResumer(i)'
BY DEF OneResumer

\* A step that leaves the interventions alone brings nobody with a key of their
\* own to the point of resuming.
LEMMA NoNewResumer ==
    ASSUME Control, NEW w \in Workers, Start(w) \/ RunStep(w) \/ GraphStep(w) \/ AnswerStep(w),
           asks' = asks, NEW i, OwnKeys(i)', Resuming(w, i)'
    PROVE  FALSE
<1>0. Moves(w) /\ w \in Procs /\ RoleOK(w) /\ TablesOK /\ ControlTypes /\ me[w] \in Memory
  BY WorkerMoves, WorkerAt
<1>1. At(w)' = "preflight"
  BY DEF Resuming, At
<1>2. CASE CheckReview(w)
  <2>1. me' = me /\ pc[w] = "check"
    BY <1>2 DEF CheckReview
  <2>2. me[w].kind \in Decisions
    BY <1>0, <2>1 DEF RoleOK, At
  <2> QED
    BY <2>1, <2>2 DEF Resuming, Decisions
<1>3. CASE ReplayLookup(w)
  <2>1. CASE ~Replayed(w)
    <3>1. Goto(w, "take")
      BY <1>3, <2>1 DEF ReplayLookup
    <3> QED
      BY <1>0, <3>1 DEF Goto, ControlTypes, Resuming
  <2>2. CASE Replayed(w)
    <3>1. me[w].key = "default" /\ me[w].kind = "respond"
      BY <1>0, <1>3, <2>2 DEF Replayed, RoleOK, At, ReplayLookup
    <3>2. me'[w].key = "default" /\ me'[w].kind = "respond" /\ me'[w].target = i
      BY <1>0, <3>1 DEF Moves, Remembers, Resuming
    <3> QED
      BY <3>2 DEF OwnKeys
  <2> QED
    BY <2>1, <2>2
<1>4. CASE ClaimResponse(w)
  <2>1. me[w].target \in DOMAIN asks /\ me[w].action # "pending" /\ asks \in Seq(Ask)
    BY <1>0, <1>4 DEF ClaimResponse, Take, RoleOK, At, TablesOK
  <2>2. CASE asks[me[w].target].status = "pending"
    <3>1. asks' = [asks EXCEPT ![me[w].target] = [asks[me[w].target] EXCEPT !.status = me[w].action]]
      BY <1>4, <2>2 DEF ClaimResponse, Take
    <3>2. asks[me[w].target] \in Ask
      BY <2>1, LenProperties
    <3>3. asks'[me[w].target].status = me[w].action
      BY <2>1, <3>1, <3>2 DEF Ask
    <3> QED
      BY <2>1, <2>2, <3>3
  <2>3. CASE asks[me[w].target].status # "pending"
    <3>1. Goto(w, "done")
      BY <1>4, <2>3 DEF ClaimResponse, Take
    <3> QED
      BY <1>0, <3>1 DEF Goto, ControlTypes, Resuming
  <2> QED
    BY <2>2, <2>3
<1> QED
  BY <1>0, <1>1, <1>2, <1>3, <1>4 DEF Moves, Enters

LEMMA ResumeWorker ==
    ASSUME Control, ResumeInv, NEW w \in Workers, Start(w) \/ RunStep(w) \/ GraphStep(w) \/ AnswerStep(w)
    PROVE  ResumeInv'
<1>0. /\ Moves(w) /\ w \in Procs /\ RoleOK(w) /\ TablesOK /\ ControlTypes /\ me[w] \in Memory
      /\ asks \in Seq(Ask) /\ DOMAIN asks = 1..Len(asks)
      /\ \A i \in DOMAIN asks : asks[i] \in Ask
  BY WorkerMoves, WorkerAt, LenProperties DEF TablesOK
<1>1. CASE asks' = asks
  <2> SUFFICES ASSUME NEW i \in DOMAIN asks, OwnKeys(i)' PROVE OneResumer(i)'
    BY <1>1 DEF ResumeInv
  <2>1. OneResumer(i)
    BY <1>0, KeysKept DEF ResumeInv
  <2>2. ~Resuming(w, i)'
    BY <1>1, NoNewResumer
  <2> QED
    BY <1>0, <1>1, <2>1, <2>2, OthersResuming, ResumerKept
<1>2. CASE GraphAsks(w)
  <2> DEFINE new == [status |-> "pending", resumes |-> 0]
  <2>1. asks' = Append(asks, new) /\ new \in Ask /\ new.status = "pending" /\ new.resumes = 0
    BY <1>2 DEF GraphAsks, Ask
  <2>2. \A u \in Workers : \A i : Resuming(u, i)' => Resuming(u, i)
    <3>1. pc'[w] # "preflight"
      BY <1>2 DEF GraphAsks, InGraph
    <3> QED
      BY <1>0, <3>1, OthersResuming DEF Resuming
  <2>3. \A u \in Workers : \A i : Resuming(u, i) => i \in DOMAIN asks
    BY DEF Control, RoleOK, Resuming
  <2> HIDE DEF new
  <2>4. /\ DOMAIN asks' = 1..(Len(asks) + 1) /\ Len(asks) \in Nat
        /\ \A i \in DOMAIN asks : asks'[i] = asks[i]
        /\ asks'[Len(asks) + 1] = new /\ Len(asks) + 1 \notin DOMAIN asks
    BY <1>0, <2>1, AppendProperties, LenProperties
  <2> SUFFICES ASSUME NEW i \in DOMAIN asks', OwnKeys(i)' PROVE OneResumer(i)'
    BY DEF ResumeInv
  <2>5. CASE i \in DOMAIN asks
    <3>1. OneResumer(i)
      BY <1>0, <2>5, KeysKept DEF ResumeInv
    <3> QED
      BY <2>2, <2>4, <2>5, <3>1, ResumerKept
  <2>6. CASE i = Len(asks) + 1
    <3>1. \A u \in Workers : ~Resuming(u, i)'
      BY <2>2, <2>3, <2>4, <2>6
    <3> QED
      BY <2>1, <2>4, <2>6, <3>1 DEF OneResumer
  <2> QED
    BY <2>4, <2>5, <2>6
<1>3. CASE ClaimResponse(w) /\ asks' # asks
  <2> DEFINE t == me[w].target
             e == [asks[t] EXCEPT !.status = me[w].action]
  <2>1. pc[w] = "take" /\ asks[t].status = "pending" /\ asks' = [asks EXCEPT ![t] = e]
    BY <1>3 DEF ClaimResponse, Take
  <2>2. t \in DOMAIN asks /\ me[w].action \in {"approve", "deny"}
    BY <1>0, <2>1 DEF RoleOK, At
  <2>3. e.status # "pending" /\ e.resumes = asks[t].resumes
    BY <1>0, <2>2 DEF Ask
  <2>4. DOMAIN asks' = DOMAIN asks /\ asks'[t] = e /\ \A i \in DOMAIN asks : i # t => asks'[i] = asks[i]
    BY <2>1, <2>2
  <2>5. \A i : Resuming(w, i)' => i = t
    BY <1>0, <1>3, <2>1 DEF ClaimResponse, Take, Resuming, Moves, Remembers, RoleOK, At
  <2> HIDE DEF t, e
  <2> SUFFICES ASSUME NEW i \in DOMAIN asks, OwnKeys(i)' PROVE OneResumer(i)'
    BY <2>4 DEF ResumeInv
  <2>6. OneResumer(i)
    BY <1>0, KeysKept DEF ResumeInv
  <2>7. CASE i # t
    BY <1>0, <2>4, <2>5, <2>6, <2>7, OthersResuming, ResumerKept
  <2>8. CASE i = t
    <3>1. \A u \in Workers : ~Resuming(u, i)
      BY <2>1, <2>6, <2>8 DEF OneResumer
    <3>2. \A u \in Workers : Resuming(u, i)' => u = w
      BY <1>0, <3>1, OthersResuming
    <3>3. asks'[i].resumes = 0 /\ asks'[i].status # "pending"
      BY <2>1, <2>3, <2>4, <2>6, <2>8 DEF OneResumer
    <3> QED
      BY <3>2, <3>3 DEF OneResumer
  <2> QED
    BY <2>7, <2>8
<1>4. CASE Preflight(w) /\ asks' # asks
  <2> DEFINE t == me[w].target
             e == [asks[t] EXCEPT !.resumes = @ + 1]
  <2>1. /\ pc[w] = "preflight" /\ me[w].kind = "respond" /\ asks' = [asks EXCEPT ![t] = e]
        /\ Goto(w, "graph")
    BY <1>4 DEF Preflight, Resume, On
  <2>2. t \in DOMAIN asks /\ Resuming(w, t)
    BY <1>0, <2>1 DEF RoleOK, At, Resuming
  <2>3. e.status = asks[t].status /\ e.resumes = asks[t].resumes + 1
    BY <1>0, <2>2 DEF Ask
  <2>4. DOMAIN asks' = DOMAIN asks /\ asks'[t] = e /\ \A i \in DOMAIN asks : i # t => asks'[i] = asks[i]
    BY <2>1, <2>2
  <2>5. \A i : ~Resuming(w, i)'
    BY <1>0, <2>1 DEF Goto, ControlTypes, Resuming
  <2> HIDE DEF t, e
  <2> SUFFICES ASSUME NEW i \in DOMAIN asks, OwnKeys(i)' PROVE OneResumer(i)'
    BY <2>4 DEF ResumeInv
  <2>6. OneResumer(i)
    BY <1>0, KeysKept DEF ResumeInv
  <2>7. CASE i # t
    BY <1>0, <2>4, <2>5, <2>6, <2>7, OthersResuming, ResumerKept
  <2>8. CASE i = t
    <3>1. \A u \in Workers : ~Resuming(u, i)'
      BY <1>0, <2>2, <2>5, <2>6, <2>8, OthersResuming DEF OneResumer
    <3>2. asks'[i].resumes = 1 /\ asks'[i].status # "pending"
      BY <2>2, <2>3, <2>4, <2>6, <2>8 DEF OneResumer
    <3> QED
      BY <3>1, <3>2 DEF OneResumer
  <2> QED
    BY <2>7, <2>8
<1>5. asks' = asks \/ GraphAsks(w) \/ ClaimResponse(w) \/ Preflight(w)
  <2>1. CASE Start(w) \/ RunStep(w)
    BY <2>1 DEF Start, Webhook, RetryJob, StartRespond, CancelRun, StartReview, RunStep, SaveGithubWorkflow,
                StartJob, TryClaim, Claim, EnsureCanonicalRun, ReconcileRun, tables
  <2>2. CASE GraphStep(w)
    BY <2>2 DEF GraphStep, GraphAdvances, GraphDelivers, GraphPauses, GraphEnds, GraphRaises,
                FinishResult, GraphReturns, tables
  <2>3. CASE AnswerStep(w)
    BY <2>3 DEF AnswerStep, CheckReview, Decide, DecideIf, RecordChanges, StartRevision,
                LookUp, ReplayLookup, Reply, tables
  <2> QED
    BY <2>1, <2>2, <2>3
<1> QED
  BY <1>1, <1>2, <1>3, <1>4, <1>5

LEMMA ResumeStep == Control /\ ResumeInv /\ [Next]_vars => ResumeInv'
<1> SUFFICES ASSUME Control, ResumeInv, [Next]_vars PROVE ResumeInv'
  OBVIOUS
<1>1. ASSUME UNCHANGED <<asks, me>>, \A u \in Workers : pc'[u] = "preflight" => pc[u] = "preflight"
      PROVE  ResumeInv'
  <2> SUFFICES ASSUME NEW i \in DOMAIN asks, OwnKeys(i)' PROVE OneResumer(i)'
    BY <1>1 DEF ResumeInv
  <2>1. OneResumer(i)
    BY <1>1 DEF ResumeInv, OwnKeys
  <2>2. \A u \in Workers : Resuming(u, i)' => Resuming(u, i)
    BY <1>1 DEF Resuming
  <2> QED
    BY <1>1, <2>1, <2>2, ResumerKept
<1>2. ASSUME NEW p \in Procs, WriteRow(p) PROVE ResumeInv'
  <2>1. UNCHANGED <<asks, me>> /\ Still(p)
    BY <1>2, WriteIsStatus
  <2>2. pc'[p] # "preflight"
    BY <1>2 DEF WriteRow, Control, ControlTypes, WritesOK, Resting
  <2> QED
    BY <1>1, <2>1, <2>2 DEF Still, Procs
<1>3. CASE \/ \E s \in Sweepers : Sweep(s) /\ ~WriteRow(s)
           \/ \E p \in Procs : Crash(p)
           \/ Age \/ UNCHANGED vars
  <2>1. UNCHANGED <<asks, me>> /\ \A u \in Workers : pc'[u] = pc[u] \/ pc'[u] = "crashed"
    BY <1>3, OtherSteps
  <2> QED
    BY <1>1, <2>1
<1> QED
  BY <1>2, <1>3, ResumeWorker DEF Next, Step, Quiet, Procs

\* Responders who bring keys of their own resume the graph of an intervention
\* once between them: the conditional UPDATE of claim_response hands the right to
\* one of them, and its replay query never hands it out again.
THEOREM ResumedOnce == Spec => []InterventionResumedOnce
<1>1. Init => Control /\ ResumeInv
  BY ControlInit DEF Init, ResumeInv
<1>2. Control /\ ResumeInv /\ [Next]_vars => (Control /\ ResumeInv)'
  BY ControlStep, ResumeStep
<1>3. Control /\ ResumeInv => InterventionResumedOnce
  BY DEF ResumeInv, OneResumer, OwnKeys, InterventionResumedOnce
<1> QED
  BY <1>1, <1>2, <1>3, PTL DEF Spec

-----------------------------------------------------------------------------
(* The sweep. *)

\* Writes that leave the event alone, over any set S of writes they are in.
LEMMA MirrorWrites ==
    ASSUME NEW S, NEW s, \A r \in Row \ {"event"} : [row |-> r, status |-> s] \in S
    PROVE  /\ Lifecycle(s) \in Seq(S)
           /\ Align(s) \in Seq(S)
           /\ Set("job", s) \in Seq(S)
           /\ Set("canonical", s) \in Seq(S)
<1>1. /\ Set("job", s) \in Seq(S)
      /\ Set("github", s) \in Seq(S)
      /\ Set("canonical", s) \in Seq(S)
  BY SetType DEF Row
<1>2. Set("job", s) \o Set("github", s) \in Seq(S)
  BY <1>1, ConcatType
<1>3. Set("job", s) \o Set("github", s) \o Set("canonical", s) \in Seq(S)
  BY <1>1, <1>2, ConcatType
<1> QED
  BY <1>1, <1>2, <1>3 DEF Lifecycle, Align

\* Which of the writes are early and which are late.
LEMMA EarlyWrites ==
    ASSUME NEW s \in Status \ {"absent"}
    PROVE  /\ Lifecycle(s) \in Seq(EarlyWrite) /\ Align(s) \in Seq(EarlyWrite)
           /\ Set("job", s) \in Seq(EarlyWrite) /\ Set("canonical", s) \in Seq(EarlyWrite)
           /\ s = "failed" => Mark(s) \o Lifecycle(s) \in Seq(EarlyWrite)
<1>1. \A r \in Row \ {"event"} : [row |-> r, status |-> s] \in EarlyWrite
  BY DEF EarlyWrite, StatusWrite
<1>2. ASSUME s = "failed" PROVE \A r \in Row : [row |-> r, status |-> s] \in EarlyWrite
  BY <1>2 DEF EarlyWrite, StatusWrite
<1> QED
  BY <1>1, <1>2, MirrorWrites, WritesType

LEMMA LaterWrites ==
    ASSUME NEW s \in Status \ {"absent", "running"}
    PROVE  /\ Align(s) \in Seq(LaterWrite) /\ Mark(s) \in Seq(LaterWrite)
           /\ Mark(s) \o Lifecycle(s) \in Seq(LaterWrite)
           /\ \A m \in {<<>>, Set("job", s)} : Lifecycle(s) \o Mark(s) \o m \in Seq(LaterWrite)
           /\ Set("canonical", s) \in Seq(LaterWrite)
<1>1. \A r \in Row : [row |-> r, status |-> s] \in LaterWrite
  BY DEF LaterWrite, StatusWrite
<1> QED
  BY <1>1, WritesType, SetType DEF Row

\* What a worker's step does to the event row and the clock.
LEMMA WorkerRows ==
    ASSUME Control, NEW w \in Workers, Start(w) \/ RunStep(w) \/ GraphStep(w) \/ AnswerStep(w)
    PROVE  /\ clock' = clock /\ pc[w] # "write"
           /\ \/ row'["event"] = row["event"] /\ (TryClaim(w) => row["event"] # "absent")
              \/ TryClaim(w) /\ row["event"] = "absent" /\ row'["event"] = "running"
           /\ pc[w] = "claim" => TryClaim(w)
<1>0. row \in [Row -> Status] /\ {"event", "job", "github", "canonical"} \subseteq Row
  BY DEF Control, TablesOK, Row
<1>1. CASE Start(w)
  <2>1. row'["event"] = row["event"] /\ clock' = clock /\ pc[w] = "off"
    BY <1>0, <1>1 DEF Start, Webhook, RetryJob, StartRespond, CancelRun, StartReview, Arrives, tables
  <2> QED
    BY <2>1 DEF TryClaim, Claim
<1>2. CASE TryClaim(w)
  BY <1>0, <1>2 DEF TryClaim, Claim
<1>3. CASE SaveGithubWorkflow(w) \/ StartJob(w) \/ EnsureCanonicalRun(w) \/ ReconcileRun(w)
  <2>1. row'["event"] = row["event"] /\ clock' = clock /\ pc[w] \notin {"write", "claim"}
    BY <1>0, <1>3 DEF SaveGithubWorkflow, StartJob, EnsureCanonicalRun, ReconcileRun, tables
  <2> QED
    BY <2>1 DEF TryClaim, Claim
<1>4. CASE GraphStep(w)
  <2>1. row' = row /\ clock' = clock /\ pc[w] \notin {"write", "claim"}
    BY <1>4 DEF GraphStep, GraphAdvances, GraphDelivers, GraphAsks, GraphPauses, GraphEnds, GraphRaises,
                FinishResult, GraphReturns, InGraph, tables
  <2> QED
    BY <2>1 DEF TryClaim, Claim
<1>5. CASE AnswerStep(w)
  <2>1. row' = row /\ clock' = clock /\ pc[w] \notin {"write", "claim"}
    BY <1>5 DEF AnswerStep, CheckReview, Preflight, Resume, Decide, DecideIf, RecordChanges, StartRevision,
                LookUp, ReplayLookup, ClaimResponse, Take, Reply, tables
  <2> QED
    BY <2>1 DEF TryClaim, Claim
<1> QED
  BY <1>1, <1>2, <1>3, <1>4, <1>5 DEF RunStep

\* The writes a worker's step leaves it with.
Writing(w) ==
    /\ ~envelope => todo' \in [Procs -> Seq(EarlyWrite)]
    /\ row'["event"] = "absent" => At(w)' = "claim" \/ todo'[w] \in Seq(LaterWrite)

LEMMA WritingKept ==
    ASSUME SweepInv, NEW w \in Workers, pc[w] # "write", todo' = todo,
           row'["event"] = "absent" => row["event"] = "absent" /\ pc[w] # "claim"
    PROVE  Writing(w)
BY DEF SweepInv, NothingYet, StartsClaim, Writing, At, Procs

LEMMA WritingThen ==
    ASSUME Control, SweepInv, NEW w \in Workers, NEW ws, NEW l, Then(w, ws, l),
           ~envelope => ws \in Seq(EarlyWrite),
           row'["event"] = "absent" => l = "claim" \/ ws \in Seq(LaterWrite)
    PROVE  Writing(w)
<1>1. todo' = [todo EXCEPT ![w] = ws] /\ pc'[w] = "write" /\ after'[w] = l /\ w \in Procs
  BY DEF Then, Control, ControlTypes, WritesOK, Procs
<1>2. todo'[w] = ws
  BY <1>1 DEF Control, ControlTypes, WritesOK
<1>3. ~envelope => todo' \in [Procs -> Seq(EarlyWrite)]
  BY <1>1 DEF SweepInv, NothingYet
<1> QED
  BY <1>1, <1>2, <1>3 DEF Writing, At

\* Before a graph has returned nobody decides, finishes or resumes anything.
LEMMA NobodyEarly ==
    ASSUME Control, SweepInv, NEW w \in Workers, ~envelope
    PROVE  /\ me[w].kind \notin Decisions
           /\ pc[w] \notin {"check", "record", "revise", "decide", "finish"}
           /\ pc[w] = "graph" => IsRun(w)
           /\ \A i : ~Resumable(i)
<1>1. /\ session.at # "paused" /\ reviews = <<>>
      /\ At(w) # "finish" /\ (At(w) = "graph" => IsRun(w))
  BY DEF SweepInv, NothingYet
<1>2. RoleOK(w) /\ DOMAIN reviews = {}
  BY <1>1 DEF Control
<1>3. me[w].kind \notin Decisions
  BY <1>2 DEF RoleOK
<1> QED
  BY <1>1, <1>2, <1>3 DEF RoleOK, At, Resumable

LEMMA WorkerWrites ==
    ASSUME Control, ClaimInv, SweepInv, NEW w \in Workers,
           Start(w) \/ RunStep(w) \/ GraphStep(w) \/ AnswerStep(w)
    PROVE  Writing(w)
<1>0. /\ pc[w] # "write" /\ RoleOK(w) /\ TablesOK /\ me[w] \in Memory
      /\ row'["event"] = "absent" => row["event"] = "absent" /\ pc[w] # "claim"
      /\ At(w) = pc[w]
  BY WorkerRows, WorkerAt
<1>1. CASE todo' = todo
  BY <1>0, <1>1, WritingKept
<1>2. CASE StartJob(w)
  <2>1. Set("job", "running") \in Seq(EarlyWrite)
    BY EarlyWrites DEF Status
  <2> QED
    BY <1>2, <2>1, WritingThen DEF StartJob
<1>3. CASE EnsureCanonicalRun(w)
  <2>1. Lifecycle("running") \in Seq(EarlyWrite)
    BY EarlyWrites DEF Status
  <2>2. row["event"] # "absent"
    BY <1>3 DEF EnsureCanonicalRun, ClaimInv
  <2> QED
    BY <1>0, <1>3, <2>1, <2>2, WritingThen DEF EnsureCanonicalRun
<1>4. CASE ReconcileRun(w) /\ row["event"] \in TERMINAL_STATUSES
  <2>1. Align(row["event"]) \in Seq(EarlyWrite) /\ Align(row["event"]) \in Seq(LaterWrite)
    BY <1>4, EarlyWrites, LaterWrites DEF Status, TERMINAL_STATUSES
  <2>2. Then(w, Align(row["event"]), "done")
    BY <1>4 DEF ReconcileRun
  <2> QED
    BY <2>1, <2>2, WritingThen
<1>5. CASE CancelRun(w)
  <2>1. Set("canonical", "cancelled") \in Seq(EarlyWrite) /\ Set("canonical", "cancelled") \in Seq(LaterWrite)
    BY EarlyWrites, LaterWrites DEF Status
  <2> QED
    BY <1>5, <2>1, WritingThen DEF CancelRun
<1>6. CASE GraphRaises(w) /\ ~IsRun(w)
  <2>1. envelope
    BY <1>6, NobodyEarly DEF GraphRaises
  <2>2. PICK s, l : s \in {"pending_review", "failed"} /\ Then(w, Mark(s) \o Lifecycle(s), l)
    BY <1>6 DEF GraphRaises
  <2>3. Mark(s) \o Lifecycle(s) \in Seq(LaterWrite)
    BY <2>2, LaterWrites DEF Status
  <2> QED
    BY <2>1, <2>2, <2>3, WritingThen
<1>7. CASE FinishResult(w)
  <2>1. envelope
    BY <1>7, NobodyEarly DEF FinishResult
  <2>2. PICK s, m, l :
          /\ s \in {"pending_review", "pending_intervention", "completed", "failed"}
          /\ m \in {<<>>, Set("job", s)}
          /\ Then(w, Lifecycle(s) \o Mark(s) \o m, l)
    BY <1>7 DEF FinishResult
  <2>3. Lifecycle(s) \o Mark(s) \o m \in Seq(LaterWrite)
    BY <2>2, LaterWrites DEF Status
  <2> QED
    BY <2>1, <2>2, <2>3, WritingThen
<1>8. CASE Preflight(w) /\ ~Resumable(On(w))
  <2>1. CASE me[w].kind = "respond"
    <3>1. Then(w, Mark("failed") \o Lifecycle("failed"), "reply")
      BY <1>8, <2>1 DEF Preflight, Resume
    <3>2. /\ Mark("failed") \o Lifecycle("failed") \in Seq(EarlyWrite)
          /\ Mark("failed") \o Lifecycle("failed") \in Seq(LaterWrite)
      BY EarlyWrites, LaterWrites DEF Status
    <3> QED
      BY <3>1, <3>2, WritingThen
  <2>2. CASE me[w].kind # "respond"
    <3>1. Then(w, Mark("pending_review") \o Lifecycle("pending_review"), "raised")
      BY <1>8, <2>2 DEF Preflight, Resume
    <3>2. Mark("pending_review") \o Lifecycle("pending_review") \in Seq(LaterWrite)
      BY LaterWrites DEF Status
    <3>3. envelope
      BY <1>0, <1>8, <2>2, NobodyEarly DEF RoleOK, Preflight, Resume, Decisions
    <3> QED
      BY <3>1, <3>2, <3>3, WritingThen
  <2> QED
    BY <2>1, <2>2
<1>9. CASE RecordChanges(w)
  <2>1. envelope
    BY <1>9, NobodyEarly DEF RecordChanges
  <2>2. Mark("needs_changes") \in Seq(LaterWrite)
    BY LaterWrites DEF Status
  <2> QED
    BY <1>9, <2>1, <2>2, WritingThen DEF RecordChanges
<1>10. \/ todo' = todo \/ StartJob(w) \/ EnsureCanonicalRun(w) \/ CancelRun(w) \/ FinishResult(w)
       \/ RecordChanges(w)
       \/ ReconcileRun(w) /\ row["event"] \in TERMINAL_STATUSES
       \/ GraphRaises(w) /\ ~IsRun(w)
       \/ Preflight(w) /\ ~Resumable(On(w))
  <2>1. CASE Start(w)
    BY <2>1 DEF Start, Webhook, RetryJob, StartRespond, StartReview, Goto
  <2>2. CASE RunStep(w)
    BY <2>2 DEF RunStep, SaveGithubWorkflow, TryClaim, Claim, ReconcileRun, Goto
  <2>3. CASE GraphStep(w)
    BY <2>3 DEF GraphStep, GraphAdvances, GraphDelivers, GraphAsks, GraphPauses, GraphEnds, GraphRaises,
                GraphReturns, Goto
  <2>4. CASE AnswerStep(w)
    BY <2>4 DEF AnswerStep, CheckReview, Preflight, Resume, Decide, DecideIf, StartRevision,
                LookUp, ReplayLookup, ClaimResponse, Take, Reply, Goto
  <2> QED
    BY <2>1, <2>2, <2>3, <2>4
<1> QED
  BY <1>1, <1>2, <1>3, <1>4, <1>5, <1>6, <1>7, <1>8, <1>9, <1>10

\* While no graph has returned, a worker changes neither the reviews nor the
\* session's pause; when one returns, and no write is lost, the log says so.
LEMMA WorkerReturns ==
    ASSUME Control, SweepInv, ~CanLose, NEW w \in Workers,
           Start(w) \/ RunStep(w) \/ GraphStep(w) \/ AnswerStep(w)
    PROVE  /\ GraphPauses(w) \/ GraphEnds(w) => envelope'
           /\ ~(GraphPauses(w) \/ GraphEnds(w)) => envelope' = envelope
           /\ ~envelope' => reviews' = reviews /\ session'.at # "paused"
<1>0. session \in Session /\ envelope \in BOOLEAN
  BY DEF Control, TablesOK
<1>1. CASE GraphPauses(w) \/ GraphEnds(w)
  <2>1. envelope' \in {TRUE}
    BY <1>1 DEF GraphPauses, GraphEnds, GraphReturns, Attempt
  <2> QED
    BY <1>1, <2>1
<1>2. CASE Start(w) \/ RunStep(w)
  <2>1. UNCHANGED <<envelope, reviews, session>>
    BY <1>2 DEF Start, Webhook, RetryJob, StartRespond, CancelRun, StartReview, RunStep, SaveGithubWorkflow,
                StartJob, TryClaim, Claim, EnsureCanonicalRun, ReconcileRun, tables
  <2>2. ~envelope => session.at # "paused"
    BY DEF SweepInv, NothingYet
  <2> QED
    BY <1>1, <2>1, <2>2
<1>3. CASE GraphAdvances(w) \/ GraphDelivers(w) \/ GraphAsks(w) \/ GraphRaises(w)
  <2>1. UNCHANGED <<envelope, reviews>>
    BY <1>3 DEF GraphAdvances, GraphDelivers, GraphAsks, GraphRaises, tables
  <2>2. session' \in {session, [session EXCEPT !.at = "working"], [session EXCEPT !.at = "ended"]}
    BY <1>3 DEF GraphAdvances, GraphDelivers, GraphAsks, GraphRaises, tables
  <2>3. session'.at \in {session.at, "working", "ended"}
    BY <1>0, <2>2 DEF Session
  <2>4. ~envelope => session.at # "paused"
    BY DEF SweepInv, NothingYet
  <2> QED
    BY <1>1, <2>1, <2>3, <2>4
<1>4. CASE FinishResult(w) \/ Decide(w) \/ RecordChanges(w)
  <2>1. envelope' = envelope
    BY <1>4 DEF FinishResult, Decide, DecideIf, RecordChanges
  <2>2. envelope
    BY <1>4, NobodyEarly DEF FinishResult, Decide, DecideIf, RecordChanges
  <2> QED
    BY <1>1, <2>1, <2>2
<1>5. CASE \/ CheckReview(w) \/ Preflight(w) \/ StartRevision(w) \/ LookUp(w) \/ ReplayLookup(w)
           \/ ClaimResponse(w) \/ Reply(w)
  <2>1. UNCHANGED <<envelope, reviews, session>>
    BY <1>5 DEF CheckReview, Preflight, Resume, StartRevision, LookUp, ReplayLookup, ClaimResponse, Take, Reply,
                tables
  <2>2. ~envelope => session.at # "paused"
    BY DEF SweepInv, NothingYet
  <2> QED
    BY <1>1, <2>1, <2>2
<1> QED
  BY <1>1, <1>2, <1>3, <1>4, <1>5 DEF GraphStep, AnswerStep

\* Fresh runs stay fresh runs.
LEMMA RunsStay ==
    ASSUME NEW w \in Workers, Moves(w)
    PROVE  /\ \A u \in Workers : IsRun(u) => IsRun(u)'
           /\ me[w].kind # "none" => (IsRun(w)' <=> IsRun(w))
           /\ \A u \in Workers : u # w => At(u)' = At(u) /\ (IsRun(u)' <=> IsRun(u))
           /\ \A s \in Sweepers : s # w => pc'[s] = pc[s] /\ At(s)' = At(s) /\ todo'[s] = todo[s]
<1>1. \A u \in Workers : u # w => me'[u] = me[u] /\ At(u)' = At(u)
  BY DEF Moves, Alone, Still, At, Procs
<1>2. me[w].kind # "none" => me'[w].kind = me[w].kind
  BY DEF Moves, Remembers
<1>3. \A s \in Sweepers : s # w => pc'[s] = pc[s] /\ At(s)' = At(s) /\ todo'[s] = todo[s]
  BY DEF Moves, Alone, Still, At, Procs
<1> QED
  BY <1>1, <1>2, <1>3 DEF IsRun

\* A resume leads to the graph only from the pause it answers.
LEMMA ResumeNeedsPause ==
    ASSUME Control, NEW w \in Workers, Preflight(w), At(w)' = "graph"
    PROVE  session.at = "paused" /\ me[w].kind \in {"approve", "reject", "respond"}
<1>1. pc[w] = "preflight" /\ w \in Procs /\ ControlTypes /\ RoleOK(w)
  BY WorkerAt DEF Preflight, Resume
<1>2. me[w].kind \in {"approve", "reject", "respond"}
  BY <1>1 DEF RoleOK, At
<1>3. ASSUME ~Resumable(On(w)) PROVE FALSE
  <2>1. CASE me[w].kind = "respond"
    <3>1. Then(w, Mark("failed") \o Lifecycle("failed"), "reply")
      BY <1>3, <2>1 DEF Preflight, Resume
    <3> QED
      BY <1>1, <3>1 DEF Then, At, ControlTypes, WritesOK
  <2>2. CASE me[w].kind # "respond"
    <3>1. Then(w, Mark("pending_review") \o Lifecycle("pending_review"), "raised")
      BY <1>3, <2>2 DEF Preflight, Resume
    <3> QED
      BY <1>1, <3>1 DEF Then, At, ControlTypes, WritesOK
  <2> QED
    BY <2>1, <2>2
<1> QED
  BY <1>2, <1>3 DEF Resumable

LEMMA SweepWorker ==
    ASSUME Control, ClaimInv, SweepInv, ~CanLose, NEW w \in Workers,
           Start(w) \/ RunStep(w) \/ GraphStep(w) \/ AnswerStep(w)
    PROVE  SweepInv'
<1>0. /\ Moves(w) /\ Writing(w) /\ RoleOK(w) /\ w \in Procs /\ w \notin Sweepers
      /\ clock' = clock /\ pc[w] # "write" /\ At(w) = pc[w]
      /\ row'["event"] = "absent" => row["event"] = "absent" /\ ~TryClaim(w)
      /\ row'["event"] \in {row["event"], "running"}
      /\ pc[w] = "claim" => TryClaim(w)
  BY WorkerMoves, WorkerWrites, WorkerRows, WorkerAt, CallsAssumption
<1>1. envelope => envelope'
  BY WorkerReturns
<1>2. NothingYet'
  <2> SUFFICES ASSUME ~envelope'
               PROVE  /\ session'.at # "paused" /\ reviews' = <<>>
                      /\ row'["event"] \in {"absent", "running", "failed"}
                      /\ todo' \in [Procs -> Seq(EarlyWrite)]
                      /\ \A u \in Workers : At(u)' # "finish" /\ (At(u)' = "graph" => IsRun(u)')
    BY DEF NothingYet
  <2>1. ~envelope /\ ~(GraphPauses(w) \/ GraphEnds(w)) /\ reviews' = reviews /\ session'.at # "paused"
    BY <1>1, WorkerReturns
  <2>2. /\ reviews = <<>> /\ row["event"] \in {"absent", "running", "failed"} /\ session.at # "paused"
        /\ \A u \in Workers : At(u) # "finish" /\ (At(u) = "graph" => IsRun(u))
    BY <2>1 DEF SweepInv, NothingYet
  <2>3. todo' \in [Procs -> Seq(EarlyWrite)]
    BY <1>0, <2>1 DEF Writing
  <2>4. At(w)' # "finish"
    BY <1>0, <2>1 DEF Moves, Enters
  <2>5. ASSUME At(w)' = "graph" PROVE IsRun(w)'
    <3>1. CASE At(w) = "graph"
      BY <1>0, <2>2, <3>1, RunsStay
    <3>2. CASE EnsureCanonicalRun(w)
      <4>1. IsRun(w)
        BY <1>0, <3>2 DEF EnsureCanonicalRun, RoleOK
      <4> QED
        BY <1>0, <4>1, RunsStay
    <3>3. CASE Preflight(w)
      BY <2>2, <2>5, <3>3, ResumeNeedsPause
    <3> QED
      BY <1>0, <2>5, <3>1, <3>2, <3>3 DEF Moves, Enters
  <2>6. \A u \in Workers : u # w => At(u)' # "finish" /\ (At(u)' = "graph" => IsRun(u)')
    BY <1>0, <2>2, RunsStay
  <2> QED
    BY <1>0, <2>1, <2>2, <2>3, <2>4, <2>5, <2>6
<1>3. StartsClaim'
  <2> SUFFICES ASSUME row'["event"] = "absent", NEW p \in Procs
               PROVE  At(p)' = "claim" \/ todo'[p] \in Seq(LaterWrite)
    BY DEF StartsClaim
  <2>1. CASE p = w
    BY <1>0, <2>1 DEF Writing
  <2>2. CASE p # w
    BY <1>0, <2>2 DEF SweepInv, StartsClaim, Moves, Alone, Still, At
  <2> QED
    BY <2>1, <2>2
<1>4. ClaimComes'
  <2> SUFFICES ASSUME clock' # "unset", row'["event"] = "absent"
               PROVE  \E u \in Workers : At(u)' = "claim"
    BY DEF ClaimComes
  <2>1. PICK u \in Workers : At(u) = "claim"
    BY <1>0 DEF SweepInv, ClaimComes
  <2>2. u # w
    BY <1>0, <2>1
  <2> QED
    BY <1>0, <2>1, <2>2, RunsStay
<1>5. OldIsOver'
  <2> SUFFICES ASSUME clock' = "old"
               PROVE  /\ row'["event"] # "absent"
                      /\ \A u \in Workers : IsRun(u)' => At(u)' \notin {"canonical", "graph"}
    BY DEF OldIsOver
  <2>1. /\ row["event"] # "absent"
        /\ \A u \in Workers : IsRun(u) => At(u) \notin {"canonical", "graph"}
    BY <1>0 DEF SweepInv, OldIsOver
  <2>2. ASSUME IsRun(w)', At(w)' = "canonical" PROVE FALSE
    <3>1. TryClaim(w)
      BY <1>0, <2>2 DEF Moves, Enters
    <3>2. Goto(w, "reconcile")
      BY <2>1, <3>1 DEF TryClaim, Claim
    <3> QED
      BY <1>0, <2>2, <3>2 DEF Goto, At, Control, ControlTypes
  <2>3. ASSUME IsRun(w)', At(w)' = "graph" PROVE FALSE
    <3>1. CASE At(w) = "graph"
      <4>1. me[w].kind # "none"
        BY <1>0, <3>1 DEF RoleOK, IsRun
      <4> QED
        BY <1>0, <2>1, <2>3, <3>1, <4>1, RunsStay
    <3>2. CASE EnsureCanonicalRun(w)
      BY <1>0, <2>1, <3>2 DEF EnsureCanonicalRun, RoleOK
    <3>3. CASE Preflight(w)
      <4>1. me[w].kind \in {"approve", "reject", "respond"}
        BY <2>3, <3>3, ResumeNeedsPause
      <4> QED
        BY <1>0, <2>3, <4>1, RunsStay DEF IsRun
    <3> QED
      BY <1>0, <2>3, <3>1, <3>2, <3>3 DEF Moves, Enters
  <2>4. \A u \in Workers : u # w /\ IsRun(u)' => At(u)' \notin {"canonical", "graph"}
    BY <1>0, <2>1, RunsStay
  <2> QED
    BY <1>0, <2>1, <2>2, <2>3, <2>4
<1>6. ASSUME NEW s \in Sweepers PROVE Sweeping(s)'
  <2>1. Sweeping(s) /\ pc'[s] = pc[s] /\ At(s)' = At(s)
    BY <1>0, RunsStay DEF SweepInv
  <2>2. ASSUME pc[s] = "mark" PROVE ~envelope'
    <3>1. ~envelope /\ clock = "old"
      BY <2>1, <2>2 DEF Sweeping
    <3>2. ASSUME GraphPauses(w) \/ GraphEnds(w) PROVE FALSE
      <4>1. pc[w] = "graph"
        BY <3>2 DEF GraphPauses, GraphEnds, InGraph
      <4>2. IsRun(w)
        BY <3>1, <4>1, NobodyEarly
      <4> QED
        BY <1>0, <3>1, <4>1, <4>2 DEF SweepInv, OldIsOver
    <3> QED
      BY <3>1, <3>2, WorkerReturns
  <2> QED
    BY <1>0, <2>1, <2>2 DEF Sweeping
<1> QED
  BY <1>2, <1>3, <1>4, <1>5, <1>6 DEF SweepInv

\* A status write, by a worker or by the sweep.
LEMMA SweepWrite ==
    ASSUME Control, ClaimInv, SweepInv, NEW p \in Procs, WriteRow(p)
    PROVE  SweepInv'
<1> DEFINE h == Head(todo[p])
<1>0. /\ UNCHANGED <<envelope, session, reviews, me>>
      /\ row'["event"] = "absent" <=> row["event"] = "absent"
      /\ clock' # clock => clock = "unset" /\ clock' = "fresh"
      /\ \A u \in Procs : At(u)' = At(u)
      /\ pc[p] = "write" /\ row \in [Row -> Status] /\ "event" \in Row
      /\ todo' = [todo EXCEPT ![p] = Tail(todo[p])] /\ todo[p] # <<>>
      /\ \A q \in Procs : q # p => pc'[q] = pc[q]
  <2>1. /\ UNCHANGED <<envelope, session, reviews, me>>
        /\ row'["event"] = "absent" <=> row["event"] = "absent"
        /\ clock' # clock => clock = "unset" /\ clock' = "fresh"
        /\ Still(p)
    BY WriteIsStatus DEF Row
  <2>2. At(p)' = At(p)
    BY WriteRowOK DEF Control
  <2> QED
    BY <2>1, <2>2 DEF Still, At, WriteRow, Control, ControlTypes, WritesOK, TablesOK, Row
<1>1. NothingYet'
  <2> SUFFICES ASSUME ~envelope'
               PROVE  /\ row'["event"] \in {"absent", "running", "failed"}
                      /\ todo' \in [Procs -> Seq(EarlyWrite)]
    BY <1>0 DEF SweepInv, NothingYet, IsRun, Procs
  <2>1. row["event"] \in {"absent", "running", "failed"} /\ todo \in [Procs -> Seq(EarlyWrite)]
    BY <1>0 DEF SweepInv, NothingYet
  <2>2. h \in EarlyWrite /\ Tail(todo[p]) \in Seq(EarlyWrite)
    BY <1>0, <2>1, HeadTailProperties
  <2>3. row' = row \/ row' = Updated(h.row, h.status)
    BY DEF WriteRow
  <2>4. row'["event"] \in {row["event"], "failed"}
    BY <1>0, <2>2, <2>3 DEF Updated, EarlyWrite, StatusWrite
  <2> QED
    BY <1>0, <2>1, <2>2, <2>4
<1>2. StartsClaim'
  <2> SUFFICES ASSUME row'["event"] = "absent", NEW q \in Procs
               PROVE  At(q)' = "claim" \/ todo'[q] \in Seq(LaterWrite)
    BY DEF StartsClaim
  <2>1. At(q) = "claim" \/ todo[q] \in Seq(LaterWrite)
    BY <1>0 DEF SweepInv, StartsClaim
  <2>2. ASSUME todo[p] \in Seq(LaterWrite) PROVE Tail(todo[p]) \in Seq(LaterWrite)
    BY <1>0, <2>2, HeadTailProperties
  <2> QED
    BY <1>0, <2>1, <2>2 DEF Control, ControlTypes, WritesOK
<1>3. ClaimComes'
  <2> SUFFICES ASSUME clock' # "unset", row'["event"] = "absent"
               PROVE  \E u \in Workers : At(u) = "claim"
    BY <1>0 DEF ClaimComes, Procs
  <2>1. CASE clock' = clock
    BY <1>0, <2>1 DEF SweepInv, ClaimComes
  <2>2. CASE clock' # clock
    <3>1. h.row = "job" /\ h.status = "running"
      BY <2>2 DEF WriteRow, Started
    <3>2. todo[p] \notin Seq(LaterWrite)
      <4>1. h \notin LaterWrite
        BY <3>1 DEF LaterWrite
      <4> QED
        BY <1>0, <4>1, HeadTailProperties
    <3>3. At(p) = "claim"
      BY <1>0, <3>2 DEF SweepInv, StartsClaim
    <3>4. p \notin Sweepers
      BY <3>3 DEF SweepInv, Sweeping
    <3> QED
      BY <3>3, <3>4 DEF Procs
  <2> QED
    BY <2>1, <2>2
<1>4. OldIsOver'
  BY <1>0 DEF SweepInv, OldIsOver, IsRun, Procs
<1>5. ASSUME NEW s \in Sweepers PROVE Sweeping(s)'
  <2>1. Sweeping(s) /\ s \in Procs
    BY DEF SweepInv, Procs
  <2>2. pc'[s] \in {"recheck", "mark"} => pc[s] = pc'[s]
    <3>1. CASE s = p
      BY <1>0, <3>1 DEF WriteRow, Control, ControlTypes, WritesOK, Resting
    <3>2. CASE s # p
      BY <1>0, <2>1, <3>2
    <3> QED
      BY <3>1, <3>2
  <2> QED
    BY <1>0, <2>1, <2>2 DEF Sweeping
<1> QED
  BY <1>1, <1>2, <1>3, <1>4, <1>5 DEF SweepInv

\* A step of the sweep itself.
LEMMA SweepSweeper ==
    ASSUME Control, ClaimInv, SweepInv, ~CanLose, NEW s \in Sweepers, Sweep(s), ~WriteRow(s)
    PROVE  SweepInv'
<1>0. /\ UNCHANGED <<envelope, session, reviews, me, clock>>
      /\ s \in Procs /\ s \notin Workers /\ row \in [Row -> Status] /\ "event" \in Row
      /\ pc \in [Procs -> Pc] /\ todo \in [Procs -> Seq(StatusWrite)] /\ after \in [Procs -> Resting]
  BY CallsAssumption DEF Sweep, SweepLists, SweepRechecks, Recheck, SweepMarks, SweepAligns, tables, Procs,
     Control, TablesOK, ControlTypes, WritesOK, Row
<1>1. \A q \in Procs : q # s => pc'[q] = pc[q] /\ todo'[q] = todo[q] /\ At(q)' = At(q)
  BY <1>0 DEF Sweep, SweepLists, SweepRechecks, Recheck, SweepMarks, SweepAligns, Goto, Then, At
<1>2. /\ row'["event"] \in {row["event"], "failed"}
      /\ row["event"] # "absent" => row'["event"] # "absent"
      /\ row["event"] = "absent" => row'["event"] = "absent"
  BY <1>0 DEF Sweep, SweepLists, SweepRechecks, Recheck, SweepMarks, SweepAligns, tables, Attempt, Updated
<1>3. \/ todo' = todo
      \/ \E x \in {"completed", "failed", "pending_review"} : todo' = [todo EXCEPT ![s] = Align(x)]
  BY DEF Sweep, SweepLists, SweepRechecks, Recheck, SweepMarks, SweepAligns, Goto, Then, TERMINAL_STATUSES
<1>4. /\ At(s)' \in {"off", "recheck", "mark", "align"}
      /\ pc'[s] \in {"recheck", "mark"} => clock = "old"
      /\ pc'[s] = "mark" => ~envelope
  <2>1. CASE SweepLists(s)
    BY <1>0, <2>1 DEF SweepLists, Goto, At
  <2>2. CASE SweepRechecks(s)
    <3>1. clock = "old"
      BY <2>2 DEF SweepInv, Sweeping, SweepRechecks, Recheck
    <3>2. pc'[s] = (IF envelope THEN "off" ELSE "mark")
      BY <1>0, <2>2 DEF SweepRechecks, Recheck, Goto
    <3> QED
      BY <3>1, <3>2 DEF At
  <2>3. CASE SweepMarks(s)
    BY <1>0, <2>3 DEF SweepMarks, Goto, At
  <2>4. CASE SweepAligns(s)
    BY <1>0, <2>4 DEF SweepAligns, Then, At
  <2> QED
    BY <2>1, <2>2, <2>3, <2>4 DEF Sweep
<1>5. \A x \in {"completed", "failed", "pending_review"} :
         Align(x) \in Seq(EarlyWrite) /\ Align(x) \in Seq(LaterWrite)
  BY EarlyWrites, LaterWrites DEF Status
<1>6. NothingYet'
  <2> SUFFICES ASSUME ~envelope'
               PROVE  /\ row'["event"] \in {"absent", "running", "failed"}
                      /\ todo' \in [Procs -> Seq(EarlyWrite)]
    BY <1>0, <1>1 DEF SweepInv, NothingYet, IsRun, Procs
  <2>1. row["event"] \in {"absent", "running", "failed"} /\ todo \in [Procs -> Seq(EarlyWrite)]
    BY <1>0 DEF SweepInv, NothingYet
  <2> QED
    BY <1>2, <1>3, <1>5, <2>1
<1>7. StartsClaim'
  <2> SUFFICES ASSUME row'["event"] = "absent", NEW q \in Procs
               PROVE  At(q)' = "claim" \/ todo'[q] \in Seq(LaterWrite)
    BY DEF StartsClaim
  <2>1. At(q) = "claim" \/ todo[q] \in Seq(LaterWrite)
    BY <1>2 DEF SweepInv, StartsClaim
  <2>2. CASE q # s
    BY <1>1, <2>1, <2>2
  <2>3. CASE q = s
    <3>1. At(s) # "claim"
      BY DEF SweepInv, Sweeping
    <3> QED
      BY <1>0, <1>3, <1>5, <2>1, <2>3, <3>1
  <2> QED
    BY <2>2, <2>3
<1>8. ClaimComes'
  BY <1>0, <1>1, <1>2 DEF SweepInv, ClaimComes, Procs
<1>9. OldIsOver'
  BY <1>0, <1>1, <1>2 DEF SweepInv, OldIsOver, IsRun, Procs
<1>10. ASSUME NEW r \in Sweepers PROVE Sweeping(r)'
  <2>1. CASE r = s
    BY <1>0, <1>4, <2>1 DEF Sweeping
  <2>2. CASE r # s
    BY <1>0, <1>1, <2>2 DEF SweepInv, Sweeping, Procs
  <2> QED
    BY <2>1, <2>2
<1> QED
  BY <1>6, <1>7, <1>8, <1>9, <1>10 DEF SweepInv

\* started_at passes the cutoff.
LEMMA SweepAge ==
    ASSUME Control, ClaimInv, SweepInv, Age
    PROVE  SweepInv'
<1>1. /\ clock = "fresh" /\ clock' = "old" /\ UNCHANGED <<row, envelope, session, reviews, pc, todo, after, me>>
      /\ \A w \in Workers : ~(IsRun(w) /\ Live(w))
  BY DEF Age
<1>2. \A p : At(p)' = At(p)
  BY <1>1 DEF At
<1>3. ASSUME NEW w \in Workers, At(w) \in {"claim", "canonical", "graph"} PROVE ~IsRun(w)
  BY <1>1, <1>3 DEF At, Live, Terminal
<1>4. row["event"] # "absent"
  <2> SUFFICES ASSUME row["event"] = "absent" PROVE FALSE
    OBVIOUS
  <2>1. PICK w \in Workers : At(w) = "claim"
    BY <1>1 DEF SweepInv, ClaimComes
  <2>2. IsRun(w)
    BY <2>1 DEF Control, RoleOK
  <2> QED
    BY <1>3, <2>1, <2>2
<1>5. NothingYet' /\ StartsClaim' /\ ClaimComes'
  BY <1>1, <1>2, <1>4 DEF SweepInv, NothingYet, StartsClaim, ClaimComes, IsRun
<1>6. OldIsOver'
  BY <1>1, <1>2, <1>3, <1>4 DEF OldIsOver, IsRun
<1>7. \A s \in Sweepers : Sweeping(s)'
  BY <1>1, <1>2 DEF SweepInv, Sweeping
<1> QED
  BY <1>5, <1>6, <1>7 DEF SweepInv

LEMMA SweepStep ==
    ASSUME ~CanCrash, ~CanLose
    PROVE  Control /\ ClaimInv /\ SweepInv /\ [Next]_vars => SweepInv'
<1> SUFFICES ASSUME Control, ClaimInv, SweepInv, [Next]_vars PROVE SweepInv'
  OBVIOUS
<1>1. CASE UNCHANGED vars
  BY <1>1 DEF vars, SweepInv, NothingYet, StartsClaim, ClaimComes, OldIsOver, Sweeping, At, IsRun
<1>2. \A p \in Procs : ~Crash(p)
  BY DEF Crash
<1> QED
  BY <1>1, <1>2, SweepWorker, SweepWrite, SweepSweeper, SweepAge DEF Next, Step, Sweep, Quiet, Procs

\* As long as no process dies and no write is lost, mark_stale_runs_failed marks
\* only runs whose event still says "running": whatever it listed, re-checked and
\* was overtaken by, it overwrites no finished and no paused run.  With a lost
\* envelope or a retry of a worker that died it may.
THEOREM SweepSpares ==
    ASSUME ~CanCrash, ~CanLose
    PROVE  Spec => SweepSparesFinished
<1> DEFINE IInv == Control /\ ClaimInv /\ SweepInv
<1>1. Init => IInv
  <2> SUFFICES ASSUME Init PROVE IInv
    OBVIOUS
  <2>1. Control
    BY ControlInit
  <2>2. ClaimInv
    BY DEF Init, ClaimInv, Row, Procs
  <2>3. SweepInv
    <3>1. <<>> \in Seq(EarlyWrite) /\ <<>> \in Seq(LaterWrite)
      BY EmptySeq
    <3> QED
      BY <3>1 DEF Init, SweepInv, NothingYet, StartsClaim, ClaimComes, OldIsOver, Sweeping, At, Row, Procs
  <2> QED
    BY <2>1, <2>2, <2>3
<1>2. IInv /\ [Next]_vars => IInv'
  BY ControlStep, ClaimStep, SweepStep
<1>3. IInv => \A s \in Sweepers : pc[s] = "mark" => row["event"] \in {"absent", "running", "failed"}
  BY DEF SweepInv, Sweeping, NothingYet
<1>4. IInv /\ [Next]_vars =>
        [\A s \in Sweepers : pc[s] = "mark" /\ pc'[s] = "align" => row.event \in {"absent", "running", "failed"}]_vars
  BY <1>3
<1> QED
  BY <1>1, <1>2, <1>4, PTL DEF Spec, SweepSparesFinished
=============================================================================
