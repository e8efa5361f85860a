------------------------------ MODULE Steering ------------------------------
(***************************************************************************)
(* Steering of agents (steering/policy.py, handler.py, persistence.py,     *)
(* repositories/steering.py).  Before a tool runs, and after a model has   *)
(* answered, a handler evaluates the policy of the agent's role, lets an   *)
(* isolated judge refine the decision, reserves an automatic guide in two  *)
(* counters of the database, stores an intervention or an audit step, and  *)
(* returns an action.  Calls are concurrent; the judge agent is shared by  *)
(* them and not reentrant.                                                 *)
(***************************************************************************)
EXTENDS Naturals, FiniteSets

CONSTANTS
    Calls,           \* tool calls and model turns, each steered once
    Agents,          \* agents of one run
    RoleOf,          \* the role of each agent
    GuidesPerTool,   \* SteeringLimits.tool_guides_per_call
    GuidesPerTurn,   \* SteeringLimits.model_guides_per_turn
    GuidesPerAgent,  \* SteeringLimits.total_guides_per_agent
    JudgeCacheLimit, \* JUDGE_CACHE_LIMIT
    StoreFails,      \* may a database write raise?
    JudgeHangs       \* may a judge invocation outlast its timeout?

Roles == {"delivery", "writer", "reviewer", "research"}

ASSUME SteeringAssumption ==
    /\ IsFiniteSet(Calls) /\ IsFiniteSet(Agents)
    /\ RoleOf \in [Agents -> Roles]
    /\ {GuidesPerTool, GuidesPerTurn, GuidesPerAgent, JudgeCacheLimit} \subseteq Nat
    /\ JudgeCacheLimit > 0
    /\ StoreFails \in BOOLEAN /\ JudgeHangs \in BOOLEAN

VARIABLES
    mode,       \* the runtime's configuration: "off", "shadow" or "enforced"
    call,       \* per call: agent, subject, flaw, base decision, decision
    steerPc,    \* how far the handler is
    attempts,   \* steering_attempts: guide_count per agent and subject
    totals,     \* steering_attempts with phase agent_total
    inbox,      \* calls with a workflow_interventions row
    judgeLock,  \* the call inside the judge's asyncio.Lock
    threads,    \* calls whose judge invocation runs in the executor
    verdicts,   \* the handlers' judge caches
    action      \* what the handler returned, "raised" included

steerVars == <<mode, call, steerPc, attempts, totals, inbox, judgeLock,
               threads, verdicts, action>>
guideStore     == <<attempts, totals, inbox>>
judging   == <<judgeLock, threads, verdicts>>

-----------------------------------------------------------------------------
(* Role policies.  "model" is the model's turn, the rest are tools.        *)

Subjects == {"post", "write_file", "read_file", "github_read", "invented", "model"}
Flaws    == {"none", "assignment", "destination", "scope", "argument", "evidence",
             "unsafe_stop", "empty_output"}

side_effecting(role)   == role = "delivery"
judge_enabled(role)    == role = "writer"
SideEffect(role, tool) == role = "delivery" /\ tool = "post"
ReadOnly(role, tool)   == tool = "read_file" \/ (role = "writer" /\ tool = "github_read")
Guarded(role, tool)    == tool = "read_file" \/ (tool = "write_file" /\ role \in {"delivery", "writer"})

\* What can be wrong with a call of this subject, as the policy sees it.
Checked(role, subject) ==
    CASE subject = "post"        -> {"argument"}
      [] subject = "write_file"  -> IF role \in {"delivery", "writer"} THEN {"evidence"} ELSE {}
      [] subject = "github_read" -> IF role = "writer" THEN {"assignment"} ELSE {}
      [] subject = "model"       -> {"unsafe_stop"} \cup
                                    (IF role \in {"writer", "reviewer"} THEN {"empty_output"} ELSE {})
      [] OTHER                   -> {}

\* A side effect outside the run's project or checkout (the idempotency key is
\* stamped by the handler before it is checked).
OutOfScope(role, tool, flaw) == SideEffect(role, tool) /\ flaw \in {"destination", "scope"}

\* The deterministic rules of _evaluate_tool and _evaluate_model.
Evaluate(role, subject, flaw) ==
    IF OutOfScope(role, subject, flaw) THEN "interrupt"
    ELSE IF Guarded(role, subject) /\ flaw = "scope" THEN "guide"
    ELSE IF flaw \in Checked(role, subject) THEN "guide"
    ELSE "proceed"

\* _terminal: the role's failure mode, once a budget is exhausted.
AtBudgetEnd(role) == IF side_effecting(role) THEN "interrupt" ELSE "proceed"

AgentOf(c)  == call[c].agent
RoleAt(c)   == RoleOf[AgentOf(c)]
IsTool(c) == call[c].subject # "model"

-----------------------------------------------------------------------------

Unsteered == [agent |-> "none", subject |-> "model", flaw |-> "none",
              base |-> "proceed", decision |-> "proceed", retried |-> FALSE]

SteerInitFor(m) ==
    /\ mode = m
    /\ call      = [c \in Calls |-> Unsteered]
    /\ steerPc   = [c \in Calls |-> "off"]
    /\ attempts  = [k \in Agents \X Subjects |-> 0]
    /\ totals    = [a \in Agents |-> 0]
    /\ inbox     = {}
    /\ judgeLock = {}
    /\ threads   = {}
    /\ verdicts  = [k \in Agents \X Subjects \X Flaws |-> "none"]
    /\ action    = [c \in Calls |-> "none"]

SteerInit == \E m \in {"off", "shadow", "enforced"} : SteerInitFor(m)

SteerAt(c, label) == steerPc' = [steerPc EXCEPT ![c] = label]
SteerReturn(c, a) == SteerAt(c, "done") /\ action' = [action EXCEPT ![c] = a]

\* Where a decision goes next; shadow mode reserves and stores nothing.
Onwards(c, decision) ==
    SteerAt(c, IF mode = "enforced" /\ decision = "guide" THEN "reserve"
          ELSE IF mode = "enforced" /\ decision = "interrupt" /\ IsTool(c) THEN "persist"
          ELSE "record")

\* steer_before_tool and steer_after_model up to the judge.
Steer(c) ==
    /\ steerPc[c] = "off"
    /\ \E a \in Agents, subject \in Subjects, flaw \in Flaws :
         LET base    == Evaluate(RoleOf[a], subject, flaw)
             skipped == ReadOnly(RoleOf[a], subject) /\ base = "proceed"
         IN /\ flaw # "none" => base # "proceed"
            /\ call' = [call EXCEPT ![c] = [agent |-> a, subject |-> subject, flaw |-> flaw,
                                            base |-> base, decision |-> base, retried |-> FALSE]]
            /\ IF mode = "off" \/ subject = "invented"
               THEN SteerReturn(c, "proceed")
               ELSE /\ UNCHANGED action
                    /\ IF judge_enabled(RoleOf[a]) /\ base # "interrupt" /\ ~skipped
                       THEN SteerAt(c, "judge")
                       ELSE SteerAt(c, IF mode = "enforced" /\ base = "guide" THEN "reserve"
                                  ELSE IF mode = "enforced" /\ base = "interrupt" THEN "persist"
                                  ELSE "record")
    /\ UNCHANGED <<mode, guideStore, judging>>

-----------------------------------------------------------------------------
(* The judge: _cached_judge_for, build_steering_judge, _apply_judge.       *)

JudgeKey(c) == <<AgentOf(c), call[c].subject, call[c].flaw>>

\* A verdict on the model's turn never interrupts, unless the base decision
\* was a guide: _guide stamps the tool phase on it.
Refined(c, verdict) ==
    IF verdict = "interrupt" /\ ~IsTool(c) /\ call[c].base = "proceed" THEN "guide" ELSE verdict

Decides(c, decision) ==
    /\ call' = [call EXCEPT ![c].decision = decision]
    /\ Onwards(c, decision)

JudgeCached(c) ==
    /\ steerPc[c] = "judge" /\ IsTool(c)
    /\ verdicts[JudgeKey(c)] # "none"
    /\ Decides(c, verdicts[JudgeKey(c)])
    /\ UNCHANGED <<mode, guideStore, judging, action>>

JudgeEnters(c) ==
    /\ steerPc[c] = "judge"
    /\ IsTool(c) => verdicts[JudgeKey(c)] = "none"
    /\ judgeLock = {}
    /\ judgeLock' = {c}
    /\ threads' = threads \cup {c}
    /\ SteerAt(c, "judging")
    /\ UNCHANGED <<mode, call, guideStore, verdicts, action>>

\* Filling a full cache clears it first.
Remember(c, decision) ==
    IF ~IsTool(c) THEN verdicts
    ELSE LET full == Cardinality({k \in DOMAIN verdicts :
                        k[1] = AgentOf(c) /\ verdicts[k] # "none"}) >= JudgeCacheLimit
         IN [k \in DOMAIN verdicts |->
               IF k = JudgeKey(c) THEN decision
               ELSE IF full /\ k[1] = AgentOf(c) THEN "none" ELSE verdicts[k]]

JudgeAnswers(c) ==
    /\ steerPc[c] = "judging" /\ c \in threads
    /\ \E verdict \in {"proceed", "guide", "interrupt", call[c].base} :
         /\ Decides(c, Refined(c, verdict))
         /\ verdicts' = Remember(c, Refined(c, verdict))
    /\ judgeLock' = {} /\ threads' = threads \ {c}
    /\ UNCHANGED <<mode, guideStore, action>>

\* The judge raised: once more through the lock, then the base decision stands.
JudgeRaises(c) ==
    /\ steerPc[c] = "judging" /\ c \in threads
    /\ judgeLock' = {} /\ threads' = threads \ {c}
    /\ IF call[c].retried THEN Decides(c, call[c].base)
       ELSE call' = [call EXCEPT ![c].retried = TRUE] /\ SteerAt(c, "judge")
    /\ UNCHANGED <<mode, guideStore, verdicts, action>>

TimesOut(c, lock) ==
    /\ JudgeHangs
    /\ steerPc[c] = "judging"
    /\ judgeLock' = lock
    /\ Decides(c, call[c].base)
    /\ UNCHANGED <<mode, guideStore, threads, verdicts, action>>

\* wait_for gives up and leaves the lock; the executor's thread keeps running.
JudgeTimesOut(c) == TimesOut(c, {})

ThreadEnds(c) ==
    /\ c \in threads /\ steerPc[c] # "judging"
    /\ threads' = threads \ {c}
    /\ UNCHANGED <<mode, call, steerPc, guideStore, judgeLock, verdicts, action>>

-----------------------------------------------------------------------------
(* Reservation, intervention, audit.                                       *)

ScopedLimit(c) == IF IsTool(c) THEN GuidesPerTool ELSE GuidesPerTurn
Slot(c)        == <<AgentOf(c), call[c].subject>>

\* The upsert: a counter that is not there is inserted at 1 whatever its limit,
\* one that is there is incremented below it.
Room(count, limit) == count = 0 \/ count < limit

ReserveWith(c, limit, rollback) ==
    LET scoped == Room(attempts[Slot(c)], ScopedLimit(c))
        total  == Room(totals[AgentOf(c)], limit)
    IN /\ steerPc[c] = "reserve"
       /\ attempts' = IF scoped /\ (total \/ ~rollback)
                      THEN [attempts EXCEPT ![Slot(c)] = @ + 1] ELSE attempts
       /\ totals'   = IF scoped /\ total THEN [totals EXCEPT ![AgentOf(c)] = @ + 1] ELSE totals
       /\ IF scoped /\ total
          THEN SteerAt(c, "record") /\ UNCHANGED call
          ELSE /\ call' = [call EXCEPT ![c].decision = AtBudgetEnd(RoleAt(c))]
               /\ SteerAt(c, IF AtBudgetEnd(RoleAt(c)) = "interrupt" /\ IsTool(c) THEN "persist" ELSE "record")
       /\ UNCHANGED <<mode, inbox, judging, action>>

\* Mutant: the scoped increment is kept when the total refuses.
ReserveWithoutRollback(c) == ReserveWith(c, GuidesPerAgent, FALSE)

\* reserve_with_total: both counters in one serializable transaction.
ReserveGuide(c) == ReserveWith(c, GuidesPerAgent, TRUE)

Persist(c, first) ==
    /\ steerPc[c] = "persist"
    /\ inbox' = IF first THEN inbox \cup {c} ELSE inbox
    /\ SteerAt(c, "record")
    /\ UNCHANGED <<mode, call, attempts, totals, judging, action>>

\* Mutant: the action is returned before the row is written.
PersistLater(c) == Persist(c, FALSE)

\* create_pending, before the interrupt is returned.
PersistIntervention(c) == Persist(c, TRUE)

\* What the handler returns.  A model decision cannot interrupt: it becomes a
\* guide that nobody has reserved.
Outcome(c) ==
    IF mode # "enforced" THEN "proceed"
    ELSE IF call[c].decision = "interrupt" /\ ~IsTool(c) THEN "unreserved_guide"
    ELSE call[c].decision

RecordDecision(c) ==
    /\ steerPc[c] = "record"
    /\ SteerReturn(c, Outcome(c))
    /\ UNCHANGED <<mode, call, guideStore, judging>>

\* A write raises.  A reservation's error is no SteeringError and escapes; a
\* row that cannot be stored only stops a side-effecting role, which raises;
\* so does an audit step, for which the others proceed.
StoreRaises(c) ==
    /\ StoreFails
    /\ \/ steerPc[c] = "reserve" /\ SteerReturn(c, "raised")
       \/ /\ steerPc[c] = "persist"
          /\ IF side_effecting(RoleAt(c)) THEN SteerReturn(c, "raised")
             ELSE SteerAt(c, "record") /\ UNCHANGED action
       \/ /\ steerPc[c] = "record"
          /\ SteerReturn(c, IF side_effecting(RoleAt(c)) THEN "raised" ELSE "proceed")
    /\ UNCHANGED <<mode, call, guideStore, judging>>

SteerStep(c) ==
    \/ JudgeCached(c) \/ JudgeEnters(c) \/ JudgeAnswers(c) \/ JudgeRaises(c)
    \/ JudgeTimesOut(c) \/ ReserveGuide(c) \/ PersistIntervention(c)
    \/ RecordDecision(c) \/ StoreRaises(c)

AllSteered == (\A c \in Calls : steerPc[c] = "done") /\ threads = {} /\ UNCHANGED steerVars

SteerNext ==
    \/ \E c \in Calls : Steer(c) \/ SteerStep(c) \/ ThreadEnds(c)
    \/ AllSteered

SteerSpec == SteerInit /\ [][SteerNext]_steerVars

-----------------------------------------------------------------------------
(* Properties.                                                             *)

\* The automatic guides an agent has reserved, over every subject.
Reservations(a) ==
    attempts[<<a, "post">>] + attempts[<<a, "write_file">>] + attempts[<<a, "read_file">>]
    + attempts[<<a, "github_read">>] + attempts[<<a, "invented">>] + attempts[<<a, "model">>]

\* What a limit amounts to: the first reservation always succeeds (Room).
AtLeastOne(limit) == IF limit = 0 THEN 1 ELSE limit

\* No guide can be reserved any more for this agent's model turns.
Exhausted(a) == totals[a] >= GuidesPerAgent \/ attempts[<<a, "model">>] >= GuidesPerTurn

\* "a successful scoped reservation can never consume budget without a matching
\* total count" (reserve_with_total), however many calls reserve at once.  An
\* agent's reserved guides stay within its total budget, and those on one tool
\* within that tool's.  A guide without a reservation, which no budget bounds,
\* is never one on a tool, and a side-effecting agent gets it only once its
\* budget is used up.
GuideBudgetHolds ==
    \A a \in Agents :
        LET guided(S) == Cardinality({c \in Calls : /\ AgentOf(c) = a /\ action[c] = "guide"
                                                    /\ call[c].subject \in S})
        IN /\ totals[a] = Reservations(a)
           /\ guided(Subjects) <= AtLeastOne(GuidesPerAgent)
           /\ \A s \in Subjects \ {"model"} : guided({s}) <= AtLeastOne(GuidesPerTool)
           /\ \A c \in Calls : AgentOf(c) = a /\ action[c] = "unreserved_guide" =>
                  ~IsTool(c) /\ (side_effecting(RoleOf[a]) => Exhausted(a))

\* A side-effecting agent's call that is paused for a human has its row in the
\* inbox: nothing waits for an answer nobody can give.
PausedIsInInbox ==
    \A c \in Calls : action[c] = "interrupt" /\ side_effecting(RoleAt(c)) => c \in inbox
=============================================================================
