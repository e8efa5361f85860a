----------------------------- MODULE AgentGuards -----------------------------
(***************************************************************************)
(* The guards around an agent's tool loop (steering/*_guard.py), the page  *)
(* writers' read budget (agents/documentation/draft_scope.py,              *)
(* tools/github/writer_scope.py) and the repository read cache the writers *)
(* of one pass share (agents/documentation/repo_read_cache.py,             *)
(* steering/repo_read_cache_plugin.py).                                    *)
(***************************************************************************)
EXTENDS Naturals, Sequences, FiniteSets, Functions

CONSTANTS
    PageWriters,     \* writers of one executor pass
    Researchers,     \* agents with a research budget
    Files, Listings, \* what a writer may read: file paths, tree listings
    MaxReads,        \* WriterReadBudget.max_calls
    MaxToolCalls,    \* ResearchBudgetGuard.max_tool_calls
    MaxRepeats,      \* ResearchBudgetGuard.max_repeats
    MaxGuides,       \* ToolRegistryGuard.max_guides
    MaxBurst,        \* ToolCallBurstGuard.max_tool_calls_per_message
    MaxEntries,      \* RepoReadCache's entry cap
    MaxTurns         \* model turns of one invocation (bound)

ASSUME GuardAssumption ==
    /\ PageWriters \cap Researchers = {}
    /\ {MaxReads, MaxToolCalls, MaxRepeats, MaxGuides, MaxBurst, MaxEntries, MaxTurns} \subseteq Nat

ResearchTools == {"search", "answer"}      \* a researcher's tools; "answer" is the structured output
GuardedAgents == PageWriters \cup Researchers
Reads    == [tool : {"file"}, arg : Files] \cup [tool : {"tree"}, arg : Listings]
Requests(a) == IF a \in PageWriters THEN Reads ELSE [tool : ResearchTools, arg : {"q1", "q2"}]

VARIABLES
    loop,   \* per agent: the guards' counters, all reset by before_invocation
    seen,   \* per writer: WriterReadBudget.seen
    cache,  \* RepoReadCache._entries, oldest first
    served, \* per agent: what the calls of the invocation got
    answers \* per agent: the calls that were carried out

guardVars == <<loop, seen, cache, served, answers>>

FreshLoop == [turns |-> 0, todo |-> 0, unknown |-> 0, burst |-> FALSE, calls |-> 0,
          repeats |-> 0, last |-> {}, searched |-> {}, guided |-> FALSE]

GuardInit ==
    /\ loop   = [a \in GuardedAgents |-> FreshLoop]
    /\ seen   = [w \in PageWriters |-> {}]
    /\ cache  = <<>>
    /\ served = [a \in GuardedAgents |-> {}]
    /\ answers = [a \in GuardedAgents |-> 0]

Gets(a, request, how, answer) ==
    /\ served' = [served EXCEPT ![a] = @ \cup {[of |-> request, how |-> how, got |-> answer]}]
    /\ answers' = [answers EXCEPT ![a] = IF how = "answered" THEN @ + 1 ELSE @]

Refuses(a, request, how) == Gets(a, request, how, request)

Spend(a) == [loop[a] EXCEPT !.todo = @ - 1]

-----------------------------------------------------------------------------

\* ToolCallBurstGuard: the first oversized message is discarded, later ones pass.
ModelTurn(a) ==
    /\ loop[a].todo = 0 /\ loop[a].turns < MaxTurns
    /\ \E n \in 1 .. MaxBurst + 1 :
         LET discard == a \in PageWriters /\ n > MaxBurst /\ ~loop[a].burst
         IN loop' = [loop EXCEPT ![a].turns = @ + 1,
                                 ![a].todo  = IF discard THEN 0 ELSE n,
                                 ![a].burst = @ \/ discard]
    /\ UNCHANGED <<seen, cache, served, answers>>

\* ToolRegistryGuard: an invented tool is corrected, then ends the invocation.
InventedTool(a) ==
    LET last == loop[a].unknown >= MaxGuides
    IN /\ loop[a].todo > 0
       /\ loop' = [loop EXCEPT ![a].unknown = @ + 1,
                               ![a].todo  = IF last THEN 0 ELSE @ - 1,
                               ![a].turns = IF last THEN MaxTurns ELSE @]
       /\ UNCHANGED <<seen, cache, served, answers>>

\* Mutant: every tool passes once the synthesis was asked for.
AllowsAll(a, request) == TRUE

\* After the synthesis request only a tool not used before passes.
Allowed(a, request) == request.tool \notin loop[a].searched

\* ResearchBudgetGuard.before_tool_call.
ResearchCall(a) ==
    /\ a \in Researchers /\ loop[a].todo > 0
    /\ \E request \in Requests(a) :
         LET repeats == IF loop[a].last = {request} THEN loop[a].repeats + 1 ELSE 1
             over    == repeats > MaxRepeats \/ loop[a].calls + 1 > MaxToolCalls
             used    == [Spend(a) EXCEPT !.searched = @ \cup {request.tool}]
         IN IF loop[a].guided
            THEN /\ loop' = [loop EXCEPT ![a] = used]
                 /\ Gets(a, request, IF Allowed(a, request) THEN "answered" ELSE "denied", request)
            ELSE /\ loop' = [loop EXCEPT ![a] = [used EXCEPT !.repeats = repeats,
                                !.last = {request}, !.calls = @ + 1, !.guided = over]]
                 /\ Gets(a, request, IF over THEN "guided" ELSE "answered", request)
    /\ UNCHANGED <<seen, cache>>

-----------------------------------------------------------------------------
(* Page writers.                                                           *)

\* _read_key: the guard looks for "path", so listings differ in nothing.
GuardKey(request) == <<request.tool, IF request.tool = "file" THEN request.arg ELSE "">>

\* The keys _read_file and _tree_result pass to reserve_writer_read; a listing
\* puts the ref where the guard has the path.
ToolKey(request) == <<request.tool, request.arg>>

\* WriterReadBudget.failure.
BudgetFailure(taken, key) == key \in taken \/ Cardinality(taken) >= MaxReads

\* cache_key: like the guard's, it takes "path" and not "path_prefix".
CacheKey(request) == GuardKey(request)

Hit(request)  == {e \in Range(cache) : e.key = CacheKey(request)}
Without(key)  == SelectSeq(cache, LAMBDA e : e.key # key)

\* get moves the entry to the end; put evicts from the front.
Touched(e)    == Append(Without(e.key), e)
Put(e)        == LET filled == Append(Without(e.key), e)
                 IN IF Len(filled) > MaxEntries THEN Tail(filled) ELSE filled

\* One read: guard, cache plugin, then the tool with its own reservation.
WriterRead(w) ==
    /\ w \in PageWriters /\ loop[w].todo > 0
    /\ loop' = [loop EXCEPT ![w] = Spend(w)]
    /\ \E request \in Reads :
         LET guarded == seen[w] \cup {GuardKey(request)}
         IN IF BudgetFailure(seen[w], GuardKey(request))
            THEN Refuses(w, request, "guided") /\ UNCHANGED <<seen, cache>>
            ELSE \/ \E e \in Hit(request) :
                      /\ Gets(w, request, "answered", e.value)
                      /\ cache' = Touched(e)
                      /\ seen' = [seen EXCEPT ![w] = guarded]
                 \/ /\ Hit(request) = {}
                    /\ IF BudgetFailure(guarded, ToolKey(request))
                       THEN /\ Refuses(w, request, "refused")
                            /\ seen' = [seen EXCEPT ![w] = guarded]
                            /\ UNCHANGED cache
                       ELSE /\ seen' = [seen EXCEPT ![w] = guarded \cup {ToolKey(request)}]
                            /\ \/ /\ Gets(w, request, "answered", request)
                                  /\ cache' = Put([key |-> CacheKey(request), value |-> request])
                               \/ Refuses(w, request, "error") /\ UNCHANGED cache

InvocationsEnd ==
    /\ \A a \in GuardedAgents : loop[a].turns = MaxTurns /\ loop[a].todo = 0
    /\ UNCHANGED guardVars

GuardNext ==
    \/ \E a \in GuardedAgents : ModelTurn(a) \/ InventedTool(a) \/ ResearchCall(a) \/ WriterRead(a)
    \/ InvocationsEnd

GuardSpec == GuardInit /\ [][GuardNext]_guardVars

-----------------------------------------------------------------------------
(* Properties.                                                             *)

\* A researcher that never stops calling tools still executes only its budget
\* and, after the synthesis request, each remaining tool once: no loop reaches
\* the provider's deadline.
ResearchIsBounded ==
    \A a \in Researchers : answers[a] <= MaxToolCalls + Cardinality(ResearchTools) - 1
=============================================================================
