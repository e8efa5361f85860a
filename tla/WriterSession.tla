----------------------------- MODULE WriterSession -----------------------------
(***************************************************************************)
(* What a page writer remembers from one attempt to the next: the          *)
(* conversation of a write task, stored message by message through         *)
(* integrations/strands/session_storage.py and repaired by                 *)
(* integrations/strands/page_session.py, and the invocations charged to    *)
(* the task by PageWriterHandler (orchestration/page_workflow/handlers.py).*)
(*                                                                         *)
(* The Strands agent is external: it restores the stored messages when it  *)
(* is built, appends each new message to its history and stores it under   *)
(* the next message id, and answers a tool call in the following turn.     *)
(***************************************************************************)
EXTENDS Naturals, Sequences, FiniteSets, SequencesExt

CONSTANTS
  WriteTasks,       \* write tasks the handler serves
  MaxWriteAttempts, \* max_write_attempts
  MaxTracked,       \* _max_tracked_tasks
  MaxClaims,        \* claims of one task before retry_or_fail_task gives it up
  MaxMessages,        \* bounds the messages of one conversation
  SessionTimesOut   \* whether the store's blocking call may time out

ASSUME SessionAssumption ==
  /\ {MaxWriteAttempts, MaxTracked, MaxClaims, MaxMessages} \subseteq Nat
  /\ SessionTimesOut \in BOOLEAN

VARIABLES
  spentBy,  \* PageWriterHandler._attempts
  handed,   \* invocations the writer of a task was really given
  stored,   \* draftly_sessions: the messages of a task, by message id
  late,     \* writes the caller gave up on and the pool has not finished
  writer    \* the attempt: pc, claims, agent.messages, next message id

sessionVars == <<spentBy, handed, stored, late, writer>>

Prompt == [kind |-> "prompt", id |-> 0]
Text == [kind |-> "text", id |-> 0]
ToolUse(n) == [kind |-> "use", id |-> n]
ToolResult(n) == [kind |-> "result", id |-> n]

SessionInit ==
  /\ spentBy = [t \in {} |-> 0]
  /\ handed = [t \in WriteTasks |-> 0]
  /\ stored = [t \in WriteTasks |-> <<>>]
  /\ late = [t \in WriteTasks |-> {}]
  /\ writer = [t \in WriteTasks |->
                 [pc |-> "idle", claims |-> 0, history |-> <<>>, next |-> 1, kept |-> TRUE]]

-----------------------------------------------------------------------------
(* Repairing a restored history.                                           *)

_tool_use_ids(messages) == {m.id : m \in {x \in ToSet(messages) : x.kind = "use"}}
_tool_result_ids(messages) == {m.id : m \in {x \in ToSet(messages) : x.kind = "result"}}

\* A call nothing answers, or an answer nothing asked for, anywhere in the history.
Dangling(messages, k) ==
  \/ messages[k].kind = "use" /\ messages[k].id \notin _tool_result_ids(messages)
  \/ messages[k].kind = "result" /\ messages[k].id \notin _tool_use_ids(messages)

FirstDangling(messages) ==
  LET at == {k \in DOMAIN messages : Dangling(messages, k)}
  IN IF at = {} THEN Len(messages) + 1 ELSE CHOOSE k \in at : \A j \in at : k <= j

\* Mutant of truncate_dangling_tool_blocks: the unanswered call itself is kept.
KeepsTheCall(messages) ==
  SubSeq(messages, 1, IF FirstDangling(messages) > Len(messages) THEN Len(messages)
                      ELSE FirstDangling(messages))

truncate_dangling_tool_blocks(messages) == SubSeq(messages, 1, FirstDangling(messages) - 1)

-----------------------------------------------------------------------------
(* One attempt.                                                            *)

list_messages(t) == stored[t]

\* The session may be unavailable: the agent then starts empty and stores nothing.
_page_session(t, session) == IF session THEN list_messages(t) ELSE <<>>

\* A claimed task gets a fresh agent with what its session restores, repaired.
_restore(t, session) ==
  /\ writer[t].pc = "idle" /\ writer[t].claims < MaxClaims
  /\ writer' = [writer EXCEPT ![t] =
       [pc |-> "invoke", claims |-> @.claims + 1,
        history |-> truncate_dangling_tool_blocks(_page_session(t, session)),
        next |-> Len(stored[t]) + 1, kept |-> session]]
  /\ UNCHANGED <<spentBy, handed, stored, late>>

Raises(t) == [writer EXCEPT ![t].pc = "idle", ![t].history = <<>>]

\* INSERT ... ON CONFLICT (key) DO UPDATE, under the message's id.
Upserted(messages, n, m) ==
  IF n > Len(messages) THEN Append(messages, m) ELSE [messages EXCEPT ![n] = m]

\* A message enters the history and the store.
create_message(t, m, pc) ==
  /\ writer' = [writer EXCEPT ![t].pc = pc, ![t].history = Append(@, m), ![t].next = @ + 1]
  /\ stored' = IF writer[t].kept
                 THEN [stored EXCEPT ![t] = Upserted(@, writer[t].next, m)] ELSE stored
  /\ UNCHANGED late

\* The blocking call gives up after its timeout and raises; the statement it
\* started is not cancelled.
_run_times_out(t, m) ==
  /\ SessionTimesOut /\ writer[t].kept
  /\ late' = [late EXCEPT ![t] = @ \cup {<<writer[t].next, m>>}]
  /\ writer' = Raises(t)
  /\ UNCHANGED stored

Keep(t, m, pc) == create_message(t, m, pc) \/ _run_times_out(t, m)

LateWriteLands(t) ==
  /\ \E w \in late[t] :
       /\ stored' = [stored EXCEPT ![t] = Upserted(@, w[1], w[2])]
       /\ late' = [late EXCEPT ![t] = @ \ {w}]
  /\ UNCHANGED <<spentBy, handed, writer>>

\* The table is emptied when it holds more than MaxTracked tasks.
TableAfterClearing == IF Cardinality(DOMAIN spentBy) > MaxTracked THEN [t \in {} |-> 0] ELSE spentBy

SpentBefore(t) == IF t \in DOMAIN TableAfterClearing THEN TableAfterClearing[t] ELSE 0

\* Every invocation is charged first; an exhausted budget raises.
_spend_attempt(t) ==
  /\ writer[t].pc = "invoke" /\ writer[t].next <= MaxMessages
  /\ spentBy' = [u \in DOMAIN TableAfterClearing \cup {t} |->
                   IF u = t THEN SpentBefore(t) + 1 ELSE TableAfterClearing[u]]
  /\ IF SpentBefore(t) + 1 > MaxWriteAttempts
       THEN writer' = Raises(t) /\ UNCHANGED <<handed, stored, late>>
       ELSE handed' = [handed EXCEPT ![t] = @ + 1] /\ Keep(t, Prompt, "model")

\* The model asks for a tool, ends its turn, is cut off by the output cap (the
\* same agent is then invoked again), or the invocation fails.
_invoke_writer(t) ==
  /\ writer[t].pc = "model"
  /\ \/ writer[t].next <= MaxMessages /\ Keep(t, ToolUse(writer[t].next), "tool")
     \/ Keep(t, Text, "done")
     \/ Keep(t, Text, "invoke")
     \/ writer' = Raises(t) /\ UNCHANGED <<stored, late>>
  /\ UNCHANGED <<spentBy, handed>>

\* The worker may die while the tool runs.
ToolAnswers(t) ==
  /\ writer[t].pc = "tool"
  /\ \/ Keep(t, ToolResult(Last(writer[t].history).id), "model")
     \/ writer' = Raises(t) /\ UNCHANGED <<stored, late>>
  /\ UNCHANGED <<spentBy, handed>>

WriterStep(t) ==
  \/ \E session \in BOOLEAN : _restore(t, session)
  \/ _spend_attempt(t) \/ _invoke_writer(t) \/ ToolAnswers(t) \/ LateWriteLands(t)

SessionNext == \E t \in WriteTasks : WriterStep(t)

SessionSpec == SessionInit /\ [][SessionNext]_sessionVars

-----------------------------------------------------------------------------
Whole(messages) == \A k \in DOMAIN messages : ~Dangling(messages, k)

\* Whenever the model is invoked its history is one the provider accepts: every
\* tool call has its answer and every answer its call, whatever crash, failed
\* store or late write the history was put together from (page_session.py
\* truncate_dangling_tool_blocks).
HistoryIsWhole ==
  \A t \in WriteTasks : writer[t].pc \in {"invoke", "model"} => Whole(writer[t].history)
=============================================================================
