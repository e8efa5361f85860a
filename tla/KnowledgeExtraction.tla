------------------------ MODULE KnowledgeExtraction ------------------------
(***************************************************************************)
(* Stage two of onboarding (workflows/onboarding/stages.py): the stored     *)
(* chunks of the organisation are grouped, a producer feeds a bounded       *)
(* queue, workers extract knowledge and put what they found in a second     *)
(* bounded queue, and the main task persists it in batches.  For public     *)
(* documentation the groups are shards, researched one after the other      *)
(* against a credit budget.                                                 *)
(***************************************************************************)
EXTENDS Naturals, Sequences, FiniteSets

CONSTANTS
    Groups,             \* _group_extraction_chunks: a sequence of sets of chunks
    ExtractWorkers,     \* LLM_MAX_CONCURRENCY of them
    PersistGroups,      \* EXTRACTION_PERSIST_GROUPS
    CreditBudget        \* tavily_credit_budget

ASSUME ExtractionAssumption ==
    /\ PersistGroups \in Nat \ {0} /\ CreditBudget \in Nat
    /\ Len(Groups) \in Nat /\ DOMAIN Groups = 1..Len(Groups)
    /\ IsFiniteSet(ExtractWorkers)
    /\ \A i, j \in DOMAIN Groups : i # j => Groups[i] \cap Groups[j] = {}

VARIABLES
    path,       \* "workers" or "research"
    produced,   \* entries the producer has put: groups, then one end per worker
    workQueue,  \* indices of groups; 0 is the end
    worker,     \* what a worker holds
    doneQueue,  \* results: [group, found]
    pending,    \* results not persisted yet
    collected,  \* groups the main task has received
    known,      \* chunks whose facts are stored
    failed,     \* result.failed_chunks
    credits,
    main        \* "collect", "flush", "join", "finished" or "raised"

extractVars == <<path, produced, workQueue, worker, doneQueue, pending, collected,
                 known, failed, credits, main>>
queues   == <<produced, workQueue, worker, doneQueue>>
outcomes == <<known, failed>>

AllChunks  == UNION {Groups[i] : i \in DOMAIN Groups}
QueueLimit == 2 * Cardinality(ExtractWorkers)
IdleWorker == [pc |-> "idle", group |-> 0, found |-> {}]

ExtractInitFor(p) ==
    /\ path = p
    /\ produced = 0 /\ workQueue = <<>> /\ doneQueue = <<>>
    /\ worker = [w \in ExtractWorkers |-> IdleWorker]
    /\ pending = <<>> /\ collected = 0
    /\ known = {} /\ failed = {}
    /\ credits = 0
    /\ main = "collect"

ExtractInit == \E p \in {"workers", "research"} : ExtractInitFor(p)

Working == path = "workers" /\ main \notin {"finished", "raised"}

-----------------------------------------------------------------------------
(* Producer and workers.                                                   *)

_produce ==
    /\ Working
    /\ produced < Len(Groups) + Cardinality(ExtractWorkers)
    /\ Len(workQueue) < QueueLimit
    /\ workQueue' = Append(workQueue, IF produced < Len(Groups) THEN produced + 1 ELSE 0)
    /\ produced'  = produced + 1
    /\ UNCHANGED <<path, worker, doneQueue, pending, collected, outcomes, credits, main>>

_worker(w) ==
    /\ Working /\ worker[w].pc = "idle" /\ workQueue # <<>>
    /\ LET g == Head(workQueue) IN
       worker' = [worker EXCEPT ![w] = [IdleWorker EXCEPT !.pc = IF g = 0 THEN "returned" ELSE "extract",
                                                          !.group = g]]
    /\ workQueue' = Tail(workQueue)
    /\ UNCHANGED <<path, produced, doneQueue, pending, collected, outcomes, credits, main>>

\* One call for the group; unless it answers for every chunk exactly once, one
\* call per chunk, each of which may fail.  A timeout or an error loses the group.
_extract_group(g) == SUBSET Groups[g]

Extracts(w) ==
    /\ Working /\ worker[w].pc = "extract"
    /\ \E f \in _extract_group(worker[w].group) :
          worker' = [worker EXCEPT ![w].pc = "put", ![w].found = f]
    /\ UNCHANGED <<path, produced, workQueue, doneQueue, pending, collected, outcomes, credits, main>>

Puts(w) ==
    /\ Working /\ worker[w].pc = "put" /\ Len(doneQueue) < QueueLimit
    /\ doneQueue' = Append(doneQueue, [group |-> worker[w].group, found |-> worker[w].found])
    /\ worker' = [worker EXCEPT ![w] = IdleWorker]
    /\ UNCHANGED <<path, produced, workQueue, pending, collected, outcomes, credits, main>>

-----------------------------------------------------------------------------
(* The main task.                                                          *)

Collects ==
    /\ Working /\ main = "collect" /\ doneQueue # <<>> /\ collected < Len(Groups)
    /\ pending'   = Append(pending, Head(doneQueue))
    /\ doneQueue' = Tail(doneQueue)
    /\ collected' = collected + 1
    /\ main' = IF Len(pending) + 1 >= PersistGroups THEN "flush" ELSE "collect"
    /\ UNCHANGED <<path, produced, workQueue, worker, outcomes, credits>>

\* Mutant: after the last group the loop goes straight to the workers.
SkipsLastFlush ==
    /\ Working /\ main = "collect" /\ collected = Len(Groups)
    /\ main' = "join"
    /\ UNCHANGED <<path, queues, pending, collected, outcomes, credits>>

\* 50 ms without a result persist what there is; so does the end of the loop.
FlushDue ==
    /\ Working /\ main = "collect"
    /\ IF collected = Len(Groups) THEN main' = (IF pending = <<>> THEN "join" ELSE "flush")
       ELSE pending # <<>> /\ main' = "flush"
    /\ UNCHANGED <<path, queues, pending, collected, outcomes, credits>>

Found(results)   == UNION {results[k].found : k \in DOMAIN results}
Covered(results) == UNION {Groups[results[k].group] : k \in DOMAIN results}

\* _persist: relations, candidates, then facts; a batch that fails to store marks
\* all its chunks, and the other stores go on.
_persist(results) ==
    \E linked, enqueued, stored \in BOOLEAN :
        /\ known'  = IF stored THEN known \cup Found(results) ELSE known
        /\ failed' = failed \cup IF linked /\ enqueued /\ stored
                                 THEN Covered(results) \ Found(results) ELSE Covered(results)

_flush ==
    /\ Working /\ main = "flush"
    /\ _persist(pending)
    /\ pending' = <<>>
    /\ main' = "collect"
    /\ UNCHANGED <<path, queues, collected, credits>>

\* The producer and the workers are awaited, then cancelled.
Joins ==
    /\ Working /\ main = "join"
    /\ produced = Len(Groups) + Cardinality(ExtractWorkers)
    /\ \A w \in ExtractWorkers : worker[w].pc = "returned"
    /\ main' = "finished"
    /\ UNCHANGED <<path, queues, pending, collected, outcomes, credits>>

\* Publishing progress raises: the finally clause cancels everybody.
MainRaises ==
    /\ Working /\ main = "collect" /\ collected > 0
    /\ main' = "raised"
    /\ UNCHANGED <<path, queues, pending, collected, outcomes, credits>>

-----------------------------------------------------------------------------
(* _run_research_synthesis.                                                *)

Researching == path = "research" /\ main = "collect"
Shard       == [group |-> collected + 1, found |-> Groups[collected + 1]]

\* A shard whose answer is refused or invalid fails; the loop goes on.
ShardFails ==
    /\ Researching /\ collected < Len(Groups) /\ credits < CreditBudget
    /\ failed' = failed \cup Shard.found
    /\ collected' = collected + 1
    /\ credits' \in {credits, credits + 1}
    /\ UNCHANGED <<path, queues, pending, known, main>>

_store_shard_extraction ==
    /\ Researching /\ collected < Len(Groups) /\ credits < CreditBudget
    /\ _persist(<<Shard>>)
    /\ collected' = collected + 1
    /\ credits' \in {credits, credits + 1}
    /\ UNCHANGED <<path, queues, pending, main>>

\* Out of credits, by the own count or the service's, or a retryable error.
ShardRaises ==
    /\ Researching /\ collected < Len(Groups)
    /\ main' = "raised"
    /\ UNCHANGED <<path, queues, pending, collected, outcomes, credits>>

SynthesisEnds ==
    /\ Researching /\ collected = Len(Groups)
    /\ main' = "finished"
    /\ UNCHANGED <<path, queues, pending, collected, outcomes, credits>>

-----------------------------------------------------------------------------

ExtractOver == main \in {"finished", "raised"} /\ UNCHANGED extractVars

ExtractNext ==
    \/ _produce \/ \E w \in ExtractWorkers : _worker(w) \/ Extracts(w) \/ Puts(w)
    \/ Collects \/ FlushDue \/ _flush \/ Joins \/ MainRaises
    \/ ShardFails \/ _store_shard_extraction \/ ShardRaises \/ SynthesisEnds
    \/ ExtractOver

ExtractSpec == ExtractInit /\ [][ExtractNext]_extractVars

-----------------------------------------------------------------------------
(* Properties.                                                             *)

\* When the stage returns, every chunk it read is either known or reported in
\* failed_chunks: none is lost in a queue, in a half-filled batch or with a worker.
EveryChunkAccounted == main = "finished" => AllChunks = known \cup failed
=============================================================================
