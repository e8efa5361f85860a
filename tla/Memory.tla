------------------------------- MODULE Memory -------------------------------
(***************************************************************************)
(* Organisational memory: candidates queued after a run                    *)
(* (workflows/post_run/candidate_extractor.py), their curation             *)
(* (workflows/memory/curation_workflow.py) into memory items               *)
(* (memory/service.py, integrations/database/memory_store.py), maintenance *)
(* (memory/maintenance.py), and the recall that grounds a node             *)
(* (memory/retrieval.py, agents/shared/memory_grounding.py).               *)
(***************************************************************************)
EXTENDS Naturals, Sequences, FiniteSets

CONSTANTS
    MemoryIds,       \* memory item ids
    CandidateRows,   \* candidates are 1..CandidateRows, in the order of created_at
    Curators,        \* curation jobs that may overlap
    CurationBatch,   \* BATCH_SIZE
    GroundingItems,  \* MAX_GROUNDING_ITEMS
    CurationFails    \* statements may fail, the process may stop

ASSUME MemoryAssumption == CandidateRows \in Nat /\ CurationBatch \in Nat \ {0} /\ GroundingItems \in Nat

VARIABLES
    item,       \* memory_items and how many memory_embeddings rows each has
    candidate,  \* status of memory_candidates
    curator,
    effects,    \* how often a decision applied to a candidate changed memory
    grounding   \* the knowledge the last node was given

memoryVars == <<item, candidate, curator, effects, grounding>>

NoItem    == [status |-> "none", type |-> "fact", importance |-> 0, vectors |-> 0]
NoCurator == [pc |-> "idle", claimed |-> <<>>, decisions |-> 0, at |-> 1, target |-> "none", ok |-> FALSE, read |-> 0]

MemoryInit ==
    /\ item      = [m \in MemoryIds |-> NoItem]
    /\ candidate = [c \in 1..CandidateRows |-> "none"]
    /\ curator   = [k \in Curators |-> NoCurator]
    /\ effects   = [c \in 1..CandidateRows |-> 0]
    /\ grounding = {}

-----------------------------------------------------------------------------
(* Items.                                                                  *)

Exists(m)  == item[m].status # "none"
Free       == {m \in MemoryIds : ~Exists(m)}

\* The row and its embedding, in one transaction.
insert(m, type, w) == item' = [item EXCEPT ![m] = [status |-> "active", type |-> type, importance |-> w, vectors |-> 1]]

set_status(m, st) == item' = [item EXCEPT ![m].status = st]

\* An update of the content adds a vector; the old one stays.
update_content(m) == item' = [item EXCEPT ![m].vectors = 2]

MaxImportance == 2

\* What the other services and the agents' tools remember.
remember ==
    /\ \E m \in Free, type \in {"fact", "decision"}, w \in 0..1 : insert(m, type, w)
    /\ UNCHANGED <<candidate, curator, effects, grounding>>

-----------------------------------------------------------------------------
(* After a run.                                                            *)

\* Enqueued one by one; the hook swallows a failure between two of them.
record_post_run_memory(c) ==
    /\ candidate[c] = "none"
    /\ c > 1 => candidate[c - 1] # "none"
    /\ candidate' = [candidate EXCEPT ![c] = "pending"]
    /\ UNCHANGED <<item, curator, effects, grounding>>

-----------------------------------------------------------------------------
(* Curation.                                                               *)

Held(k)       == curator[k].claimed[curator[k].at]
CuratorGoes(k, pc)   == curator' = [curator EXCEPT ![k].pc = pc]
Judged(k, ok) == curator' = [curator EXCEPT ![k].pc = "mark", ![k].ok = ok]
Touched(k)    == effects' = [effects EXCEPT ![Held(k)] = @ + 1]

\* The oldest pending candidates, at most a batch of them.
Oldest == LET p == {c \in DOMAIN candidate : candidate[c] = "pending"} IN
          {c \in p : Cardinality({d \in p : d < c}) < CurationBatch}

InOrder(S) == CHOOSE q \in [1..Cardinality(S) -> S] : \A i, j \in DOMAIN q : i < j => q[i] < q[j]

\* Mutant: the rows are read without being taken.
ClaimsLoosely(k) ==
    /\ curator[k].pc = "idle" /\ Oldest # {}
    /\ curator' = [curator EXCEPT ![k] = [NoCurator EXCEPT !.pc = "invoke", !.claimed = InOrder(Oldest)]]
    /\ UNCHANGED <<item, candidate, effects, grounding>>

\* UPDATE ... WHERE id IN (SELECT ... FOR UPDATE SKIP LOCKED).
claim_pending(k) ==
    /\ curator[k].pc = "idle" /\ Oldest # {}
    /\ candidate' = [c \in DOMAIN candidate |-> IF c \in Oldest THEN "processing" ELSE candidate[c]]
    /\ curator' = [curator EXCEPT ![k] = [NoCurator EXCEPT !.pc = "invoke", !.claimed = InOrder(Oldest)]]
    /\ UNCHANGED <<item, effects, grounding>>

\* The curator agent's own tools write while it is invoked, as often as it calls
\* them, on whatever records it likes: supersede_memory (a mark, then a new record),
\* archive_memory, record_procedure.  What it did is not noted on any candidate.
\* (reinforce_memory raises a confidence, which nothing here depends on.)
CuratorTool(k) ==
    /\ curator[k].pc = "invoke"
    /\ \/ \E m \in MemoryIds, st \in {"superseded", "archived"} : Exists(m) /\ set_status(m, st)
       \/ \E m \in Free : insert(m, "fact", 1)
    /\ UNCHANGED <<candidate, curator, effects, grounding>>

\* No model, a failed call or no usable list releases the batch; a list that is
\* too long is cut, one that is too short is taken as it is.
run_memory_curation(k) ==
    /\ curator[k].pc = "invoke"
    /\ \E n \in 0..Len(curator[k].claimed) :
          curator' = [curator EXCEPT ![k].pc = IF n = 0 THEN "release" ELSE "decide", ![k].decisions = n]
    /\ UNCHANGED <<item, candidate, effects, grounding>>

\* One update per candidate.
set_status_pending(k) ==
    /\ curator[k].pc = "release"
    /\ candidate' = [candidate EXCEPT ![Held(k)] = "pending"]
    /\ curator' = [curator EXCEPT ![k] = IF curator[k].at = Len(curator[k].claimed) THEN NoCurator
                                          ELSE [curator[k] EXCEPT !.at = @ + 1]]
    /\ UNCHANGED <<item, effects, grounding>>

\* _apply_decision: the first statement of an action.
ApplyCreate(k) ==
    /\ curator[k].pc = "decide"
    /\ \E m \in Free : insert(m, "fact", 1)
    /\ Touched(k) /\ Judged(k, TRUE)
    /\ UNCHANGED <<candidate, grounding>>

\* set_status finds the row or not; update of the content raises without one.
ApplyToTarget(k) ==
    /\ curator[k].pc = "decide"
    /\ \E m \in MemoryIds :
          IF ~Exists(m) THEN Judged(k, FALSE) /\ UNCHANGED <<item, effects>>
          ELSE (set_status(m, "archived") \/ update_content(m)) /\ Touched(k) /\ Judged(k, TRUE)
    /\ UNCHANGED <<candidate, grounding>>

\* A rejection is an outcome, a decision that fits no action is not.
ApplyNothing(k) ==
    /\ curator[k].pc = "decide"
    /\ \E ok \in BOOLEAN : Judged(k, ok)
    /\ UNCHANGED <<item, candidate, effects, grounding>>

\* supersede: the old record first, whatever its status.
SupersedeMarks(k) ==
    /\ curator[k].pc = "decide"
    /\ \E m \in MemoryIds : Exists(m) /\ set_status(m, "superseded")
    /\ Touched(k) /\ CuratorGoes(k, "replace")
    /\ UNCHANGED <<candidate, grounding>>

\* Then the replacement, which is embedded first and may fail.
SupersedeStores(k) ==
    /\ curator[k].pc = "replace"
    /\ \/ \E m \in Free : insert(m, "fact", 1) /\ CuratorGoes(k, "provenance")
       \/ CurationFails /\ Judged(k, FALSE) /\ UNCHANGED item
    /\ UNCHANGED <<candidate, effects, grounding>>

record_provenance(k) ==
    /\ curator[k].pc = "provenance"
    /\ \E ok \in IF CurationFails THEN BOOLEAN ELSE {TRUE} : Judged(k, ok)
    /\ UNCHANGED <<item, candidate, effects, grounding>>

\* consolidate reads the importance and writes it back in two statements.
MergeReads(k) ==
    /\ curator[k].pc = "decide"
    /\ \E m \in MemoryIds : IF Exists(m)
          THEN curator' = [curator EXCEPT ![k].pc = "merge", ![k].target = m, ![k].read = item[m].importance]
          ELSE Judged(k, FALSE)
    /\ UNCHANGED <<item, candidate, effects, grounding>>

consolidate(k) ==
    LET m == curator[k].target IN
    /\ curator[k].pc = "merge"
    /\ item' = [item EXCEPT ![m].importance = IF curator[k].read < MaxImportance THEN curator[k].read + 1 ELSE @]
    /\ Touched(k) /\ Judged(k, TRUE)
    /\ UNCHANGED <<candidate, grounding>>

\* After the last decision the job ends; candidates beyond it keep their claim.
MarkDecided(k) ==
    /\ curator[k].pc = "mark"
    /\ candidate' = [candidate EXCEPT ![Held(k)] = IF curator[k].ok THEN "applied" ELSE "rejected"]
    /\ curator' = [curator EXCEPT ![k] = IF curator[k].at = curator[k].decisions THEN NoCurator
                                          ELSE [curator[k] EXCEPT !.at = @ + 1, !.pc = "decide"]]
    /\ UNCHANGED <<item, effects, grounding>>

\* The process stops, or marking a candidate fails and raises out of the job.
CuratorDies(k) ==
    /\ CurationFails /\ curator[k].pc # "idle"
    /\ curator' = [curator EXCEPT ![k] = NoCurator]
    /\ UNCHANGED <<item, candidate, effects, grounding>>

-----------------------------------------------------------------------------
(* Maintenance and recall.                                                 *)

\* Nothing writes last_accessed_at, so age alone makes a record stale.
demote_stale_semantic_memory ==
    /\ \E m \in MemoryIds : item[m].status = "active" /\ item[m].importance < 1 /\ item[m].type # "decision"
    /\ item' = [m \in MemoryIds |-> IF item[m].status = "active" /\ item[m].importance < 1 /\ item[m].type # "decision"
                                    THEN [item[m] EXCEPT !.status = "archived"] ELSE item[m]]
    /\ UNCHANGED <<candidate, curator, effects, grounding>>

\* A summary row, archived from the start; without an embedding no search finds it.
archive_old_episodes ==
    /\ \E m \in Free : item' = [item EXCEPT ![m] = [status |-> "archived", type |-> "episode_summary", importance |-> 0, vectors |-> 0]]
    /\ UNCHANGED <<candidate, curator, effects, grounding>>

\* One row per vector: a record with two vectors takes two of the places.
vector_search(limit) ==
    LET hits == {h \in MemoryIds \X (1..2) : item[h[1]].status = "active" /\ h[2] <= item[h[1]].vectors}
    IN  {{h[1] : h \in S} : S \in {T \in SUBSET hits : Cardinality(T) <= limit}}

_ground ==
    /\ \E found \in vector_search(GroundingItems) : grounding' = found
    /\ UNCHANGED <<item, candidate, curator, effects>>

-----------------------------------------------------------------------------

CuratorStep(k) ==
    \/ claim_pending(k) \/ CuratorTool(k) \/ run_memory_curation(k) \/ set_status_pending(k)
    \/ ApplyCreate(k) \/ ApplyToTarget(k) \/ ApplyNothing(k)
    \/ SupersedeMarks(k) \/ SupersedeStores(k) \/ record_provenance(k)
    \/ MergeReads(k) \/ consolidate(k) \/ MarkDecided(k) \/ CuratorDies(k)

MemoryNext ==
    \/ \E c \in 1..CandidateRows : record_post_run_memory(c)
    \/ \E k \in Curators : CuratorStep(k)
    \/ remember \/ demote_stale_semantic_memory \/ archive_old_episodes \/ _ground

MemorySpec == MemoryInit /\ [][MemoryNext]_memoryVars

-----------------------------------------------------------------------------
(* Properties.                                                             *)

\* However curation jobs overlap, die or start over, the decision returned for a
\* candidate is applied at most once, by _apply_decision.  Not so what the curator
\* does by its tools: its own supersede_memory comes on top of the SUPERSEDE it
\* returns, and is repeated when its batch is released after it.
DecisionAppliedOnce == \A c \in 1..CandidateRows : effects[c] <= 1
=============================================================================
