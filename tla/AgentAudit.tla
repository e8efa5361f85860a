----------------------------- MODULE AgentAudit -----------------------------
(***************************************************************************)
(* The audit trail of a run (orchestration/hooks/audit.py,                 *)
(* persistence/repositories/agent_runs.py): a synchronous hook buffers     *)
(* what the graph does and leaves the writing to tasks of the event loop,  *)
(* which the worker tears down when its job returns.  The runner waits for *)
(* the flush when the graph's invocation returned, and not when it raised. *)
(* A paused run is resumed with a new graph and a new hook.                *)
(***************************************************************************)
EXTENDS Naturals, Sequences

CONSTANTS
    MaxInvocations,  \* bound on the graph builds of the run
    MaxSteps,    \* bound on the steps of a build
    AuditFails   \* a statement may fail

ASSUME AgentAuditAssumption == {MaxInvocations, MaxSteps} \subseteq Nat /\ AuditFails \in BOOLEAN

VARIABLES
    hook,    \* the current build: its buffered steps, where its runner is, whether it raised
    opener,  \* the task that opens the agent_runs row: "none" or "pending"
    flusher, \* the task that writes the buffer: its statement and its steps
    trail    \* agent_runs.status and agent_steps; whether a statement failed

auditVars == <<hook, opener, flusher, trail>>

NoFlush == [pc |-> "none", steps |-> <<>>, failed |-> FALSE]

AuditInit ==
    /\ hook    = [build |-> 0, pc |-> "idle", steps |-> <<>>, taken |-> 0, raised |-> FALSE]
    /\ opener  = "none"
    /\ flusher = NoFlush
    /\ trail   = [status |-> "none", steps |-> {}, broken |-> FALSE, late |-> FALSE]

-----------------------------------------------------------------------------
(* The hook.                                                               *)

\* run_start leaves the insert of the row to a task.
run_start ==
    /\ hook.pc = "idle" /\ hook.build < MaxInvocations
    /\ hook'   = [build |-> hook.build + 1, pc |-> "graph", steps |-> <<>>, taken |-> 0, raised |-> FALSE]
    /\ opener' = "pending"
    /\ UNCHANGED <<flusher, trail>>

\* node_end and tool_end number the steps of this hook from 1.
_buffer_step ==
    /\ hook.pc = "graph" /\ hook.taken < MaxSteps
    /\ \E st \in {"completed", "failed"} :
          hook' = [hook EXCEPT !.steps = Append(@, [seq |-> hook.taken + 1, of |-> hook.build, status |-> st]),
                               !.taken = @ + 1]
    /\ UNCHANGED <<opener, flusher, trail>>

\* run_end hands the buffer to a task and clears it.  An invocation that raised goes
\* past the drain: out of run, or through the error exit of a resumption.
run_end ==
    /\ hook.pc = "graph"
    /\ \E raised \in BOOLEAN :
          hook' = [hook EXCEPT !.pc = IF raised THEN "returned" ELSE "drain", !.steps = <<>>, !.raised = raised]
    /\ flusher' = [pc |-> "ensure_run", steps |-> hook.steps,
                   failed |-> \E i \in DOMAIN hook.steps : hook.steps[i].status = "failed"]
    /\ UNCHANGED <<opener, trail>>

\* Mutant: the runner does not wait for the task.
DrainsNothing ==
    /\ hook.pc = "drain"
    /\ hook' = [hook EXCEPT !.pc = "returned"]
    /\ UNCHANGED <<opener, flusher, trail>>

\* After an invocation that returned, the runner waits for the flush, whatever
\* became of it, before it returns itself.
drain_run ==
    /\ hook.pc = "drain" /\ flusher.pc = "none"
    /\ hook' = [hook EXCEPT !.pc = "returned"]
    /\ UNCHANGED <<opener, flusher, trail>>

\* The job is over: what is still pending on its loop is cancelled.  (The loop of an
\* API process that answers a resumption lives on, and its tasks with it.)
LoopEnds ==
    /\ hook.pc = "returned"
    /\ hook'    = [hook EXCEPT !.pc = "idle"]
    /\ opener'  = "none"
    /\ flusher' = NoFlush
    /\ UNCHANGED trail

-----------------------------------------------------------------------------
(* The tasks.                                                              *)

\* The row is running, again when it was there.
start_run ==
    /\ opener = "pending"
    /\ opener' = "none"
    /\ trail'  = [trail EXCEPT !.status = "running", !.late = (flusher.pc = "none" /\ hook.pc \in {"drain", "returned"})]
    /\ UNCHANGED <<hook, flusher>>

\* Failures of the insert are logged.
OpenFails ==
    /\ AuditFails /\ opener = "pending"
    /\ opener' = "none"
    /\ UNCHANGED <<hook, flusher, trail>>

\* The row only when it is absent.
ensure_run ==
    /\ flusher.pc = "ensure_run"
    /\ flusher' = [flusher EXCEPT !.pc = "record_step"]
    /\ trail'   = [trail EXCEPT !.status = IF @ = "none" THEN "running" ELSE @]
    /\ UNCHANGED <<hook, opener>>

record_step ==
    /\ flusher.pc = "record_step" /\ flusher.steps # <<>>
    /\ flusher' = [flusher EXCEPT !.steps = Tail(@)]
    /\ trail'   = [trail EXCEPT !.steps = @ \cup {Head(flusher.steps)}]
    /\ UNCHANGED <<hook, opener>>

finish_run ==
    /\ flusher.pc = "record_step" /\ flusher.steps = <<>>
    /\ flusher' = NoFlush
    /\ trail'   = [trail EXCEPT !.status = IF flusher.failed THEN "failed" ELSE "completed"]
    /\ UNCHANGED <<hook, opener>>

\* A failed statement ends the task, the other steps unwritten.
_flush_run ==
    /\ AuditFails /\ flusher.pc # "none"
    /\ flusher' = NoFlush
    /\ trail'   = [trail EXCEPT !.broken = TRUE]
    /\ UNCHANGED <<hook, opener>>

AuditNext ==
    \/ run_start \/ _buffer_step \/ run_end \/ drain_run \/ LoopEnds
    \/ start_run \/ OpenFails \/ ensure_run \/ record_step \/ finish_run \/ _flush_run

AuditSpec == AuditInit /\ [][AuditNext]_auditVars

-----------------------------------------------------------------------------
(* Properties.                                                             *)

\* "audit rows survive event-loop teardown": after an invocation that returned, and
\* when no statement failed, the end of the job's loop finds every step of the build
\* in agent_steps, and the row closed unless the task that opens it came after the
\* one that closes it.  An invocation that raised leaves what its tasks got to.
AuditSurvivesTeardown ==
    hook.pc = "idle" /\ hook.build > 0 /\ ~hook.raised /\ ~trail.broken =>
        /\ \A i \in 1..hook.taken : \E x \in trail.steps : x.seq = i /\ x.of = hook.build
        /\ ~trail.late => trail.status \in {"completed", "failed"}
=============================================================================
