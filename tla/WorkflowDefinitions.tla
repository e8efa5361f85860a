------------------------ MODULE WorkflowDefinitions ------------------------
(***************************************************************************)
(* Workflow definitions and the canonical run rows:                        *)
(* persistence/repositories/workflows.py and the routes that write them    *)
(* (app/api/routes/workflows.py, workflow_runs.py, workflow_templates.py). *)
(*                                                                         *)
(* Every request handler is a sequence of awaits, each a statement of its  *)
(* own: the definition is read and found active, the run row is inserted   *)
(* or found, the task is queued.  Editors pause and patch definitions, and *)
(* webhook jobs write the same rows, between any two of them.              *)
(***************************************************************************)
EXTENDS Integers, Sequences, FiniteSets

CONSTANTS
    Defs,           \* slugs of workflow definitions an editor may create
    DefaultDef,     \* the slug "default-<key>" a webhook job creates
    Tasked,         \* the definitions whose workflow_key has an ".enqueue" task
    RunCalls,          \* requests in flight
    SameKey,        \* those of Defs that have the workflow_key of a webhook's surface
    Keys,           \* idempotency keys (positive; 0 is a request without one)
    Hooks,          \* webhook events (positive)
    MaxRuns         \* bound: rows of workflow_runs

ASSUME DefinitionsAssumption ==
    /\ Keys \subseteq Nat \ {0}
    /\ Hooks \subseteq Nat \ {0}
    /\ DefaultDef \notin Defs /\ SameKey \subseteq Defs

VARIABLES
    definition,     \* slug -> status ("none" when there is no row)
    runRow,         \* workflow_runs, oldest first: [key, def, status]
    queued,         \* indices of rows with a dispatched task, per dispatch
    hookJob,        \* webhook event -> where its job is
    ask             \* request -> where its handler is

definitionVars == <<definition, runRow, queued, hookJob, ask>>

-----------------------------------------------------------------------------
(* The repository.                                                         *)

Slugs == Defs \cup {DefaultDef}
NoCall == [pc |-> "idle"]

\* create: the unique (org_id, slug) index rejects a second row.
create_definition(d, st) == /\ definition[d] = "none"
                            /\ definition' = [definition EXCEPT ![d] = st]

\* update and set_status: WHERE status <> 'archived'.
set_definition_status(d, st) == /\ definition[d] \notin {"none", "archived"}
                     /\ definition' = [definition EXCEPT ![d] = st]

\* The row a keyed insert conflicts with; without a key nothing conflicts.
Conflict(key) == {i \in DOMAIN runRow : key[2] # 0 /\ runRow[i].key = key}

\* INSERT ... ON CONFLICT DO UPDATE: the row there is, or a new queued one.
start_or_get_idempotent(key, d, i) ==
    \/ /\ i \in Conflict(key)
       /\ UNCHANGED runRow
    \/ /\ Conflict(key) = {}
       /\ Len(runRow) < MaxRuns
       /\ i = Len(runRow) + 1
       /\ runRow' = Append(runRow, [key |-> key, def |-> d, status |-> "queued"])

update_state(i, st) == runRow' = [runRow EXCEPT ![i].status = st]

Terminal == {"completed", "failed", "cancelled", "skipped"}
Paused   == {"pending_review", "pending_intervention"}

-----------------------------------------------------------------------------
(* Definitions.                                                            *)

Idle == UNCHANGED <<runRow, queued, hookJob, ask>>

create_workflow_definition == /\ \E d \in Defs, st \in {"draft", "active"} :
                                    create_definition(d, st)
                              /\ Idle

update_workflow_definition == /\ \E d \in Slugs, st \in {"draft", "active", "archived"} :
                                    set_definition_status(d, st)
                              /\ Idle

pause_workflow == /\ \E d \in Slugs : set_definition_status(d, "paused")
                  /\ Idle

resume_workflow == /\ \E d \in Slugs : set_definition_status(d, "active")
                   /\ Idle

\* A system template is always there; its instance is a draft, whatever the
\* template's defaults say.
instantiate_template == /\ \E d \in Defs : create_definition(d, "draft")
                        /\ Idle

-----------------------------------------------------------------------------
(* Requests that create, cancel and retry runs.                            *)

At(c, s) == ask[c].pc = s
RequestGoes(c, r) == ask' = [ask EXCEPT ![c] = r]
Store == UNCHANGED <<definition, hookJob>>

\* The route reads the definition and answers 409 unless it is active.
create_run(c, op) == \E d \in Slugs, k \in Keys \cup {0} :
    /\ At(c, "idle")
    /\ definition[d] = "active"
    /\ RequestGoes(c, [pc |-> "insert", op |-> op, def |-> d, key |-> <<"manual", k>>])
    /\ Store /\ UNCHANGED <<runRow, queued>>

create_definition_run(c) == create_run(c, "definition_run")
create_manual_run(c) == create_run(c, "manual_run")

\* The insert; only create_manual_run looks whether the row is still queued.
InsertRun(c) == \E i \in 1..MaxRuns :
    /\ At(c, "insert")
    /\ start_or_get_idempotent(ask[c].key, ask[c].def, i)
    /\ RequestGoes(c, IF ask[c].op = "manual_run" /\ runRow'[i].status # "queued"
               THEN NoCall
               ELSE [pc |-> "dispatch", def |-> ask[c].def, row |-> i])
    /\ Store /\ UNCHANGED queued

\* enqueue_job raises for a task that is not registered, after the insert.
_dispatch_if_available(c) ==
    /\ At(c, "dispatch")
    /\ queued' = IF ask[c].def \in Tasked THEN queued \cup {ask[c].row} ELSE queued
    /\ RequestGoes(c, NoCall)
    /\ Store /\ UNCHANGED runRow

_authorized_run(c, i, st) == At(c, "idle") /\ i \in DOMAIN runRow /\ runRow[i].status \in st

\* The status is read in one statement and overwritten in another.
cancel_run(c) == \E i \in DOMAIN runRow :
    /\ _authorized_run(c, i, {"queued", "running"} \cup Paused)
    /\ RequestGoes(c, [pc |-> "cancel", row |-> i])
    /\ Store /\ UNCHANGED <<runRow, queued>>

CancelWrites(c) == /\ At(c, "cancel")
                   /\ update_state(ask[c].row, "cancelled")
                   /\ RequestGoes(c, NoCall)
                   /\ Store /\ UNCHANGED queued

retry_run(c) == \E i \in DOMAIN runRow :
    /\ _authorized_run(c, i, Terminal \ {"completed"})
    /\ runRow[i].def # "none"
    /\ RequestGoes(c, [pc |-> "retry", row |-> i])
    /\ Store /\ UNCHANGED <<runRow, queued>>

RetryReads(c) ==
    /\ At(c, "retry")
    /\ LET d == runRow[ask[c].row].def
       IN RequestGoes(c, IF definition[d] = "active"
                  THEN [pc |-> "insert", op |-> "retry", def |-> d,
                        key |-> <<"retry", ask[c].row>>]
                  ELSE NoCall)
    /\ Store /\ UNCHANGED <<runRow, queued>>

-----------------------------------------------------------------------------
(* Workers.                                                                *)

\* EventDispatcher.route: the prefixes of event types that have a surface.
Surfaces == {"pull_request", "release", "push", "issues", "slack", "discord", "content"}

\* WorkflowRunner.run of a dispatched row: its event type is "manual.<key>",
\* no surface has that prefix, and the run is skipped before anything is written.
RunDispatched == \E i \in queued :
    /\ "manual" \notin Surfaces
    /\ queued' = queued \ {i}
    /\ UNCHANGED <<definition, runRow, hookJob, ask>>

Hook(e, pc, d) == hookJob' = [hookJob EXCEPT ![e] = [pc |-> pc, def |-> d]]
HookAt(e, S)   == hookJob[e].pc \in S /\ UNCHANGED <<queued, ask>>

\* _ensure_canonical_run takes an active definition of its key, the one changed
\* last; it looks again when its own insert of the default was refused.
find_active_by_key(e) ==
    LET active == {d \in SameKey \cup {DefaultDef} : definition[d] = "active"} IN
    /\ HookAt(e, {"find", "refind"})
    /\ \/ \E d \in active : Hook(e, "insert", d)
       \/ active = {} /\ Hook(e, IF hookJob[e].pc = "find" THEN "create" ELSE "insert", "none")
    /\ UNCHANGED <<definition, runRow>>

CreateDefault(e) ==
    /\ HookAt(e, {"create"})
    /\ IF definition[DefaultDef] = "none"
       THEN create_definition(DefaultDef, "active") /\ Hook(e, "insert", DefaultDef)
       ELSE Hook(e, "refind", "none") /\ UNCHANGED definition
    /\ UNCHANGED runRow

_ensure_canonical_run(e) ==
    /\ HookAt(e, {"insert"})
    /\ \E i \in 1..MaxRuns : start_or_get_idempotent(<<"github", e>>, hookJob[e].def, i)
    /\ Hook(e, "running", "none")
    /\ UNCHANGED definition

\* _persist_lifecycle writes whatever the job has come to, whoever wrote last.
_persist_lifecycle(e) == \E i \in DOMAIN runRow, st \in ({"running"} \cup Paused \cup Terminal) \ {"cancelled"} :
    /\ HookAt(e, {"running"})
    /\ runRow[i].key = <<"github", e>>
    /\ Hook(e, IF st \in Terminal THEN "over" ELSE "running", "none")
    /\ update_state(i, st)
    /\ UNCHANGED definition

-----------------------------------------------------------------------------
DefinitionsInit ==
    /\ definition = [d \in Slugs |-> "none"]
    /\ runRow = <<>>
    /\ queued = {}
    /\ hookJob = [e \in Hooks |-> [pc |-> "find", def |-> "none"]]
    /\ ask = [c \in RunCalls |-> NoCall]

RequestStep(c) == \/ create_definition_run(c) \/ create_manual_run(c)
               \/ InsertRun(c) \/ _dispatch_if_available(c)
               \/ cancel_run(c) \/ CancelWrites(c)
               \/ retry_run(c) \/ RetryReads(c)

HookStep(e) == \/ find_active_by_key(e) \/ CreateDefault(e)
               \/ _ensure_canonical_run(e) \/ _persist_lifecycle(e)

DefinitionsNext ==
    \/ create_workflow_definition \/ update_workflow_definition
    \/ pause_workflow \/ resume_workflow
    \/ instantiate_template
    \/ \E c \in RunCalls : RequestStep(c)
    \/ \E e \in Hooks : HookStep(e)
    \/ RunDispatched

DefinitionsSpec == DefinitionsInit /\ [][DefinitionsNext]_definitionVars

-----------------------------------------------------------------------------
(* Properties.                                                             *)

\* Two requests that carry one idempotency key, and two retries of one run,
\* get one row, whatever the order of their reads, inserts and dispatches.
KeyedOnce == \A i, j \in DOMAIN runRow :
    runRow[i].key = runRow[j].key /\ runRow[i].key[2] # 0 => i = j
=============================================================================
