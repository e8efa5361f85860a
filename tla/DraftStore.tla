----------------------------- MODULE DraftStore -----------------------------
(***************************************************************************)
(* The draft store (persistence/repositories/drafts.py) and the tools that *)
(* write to it (tools/documentation/drafts.py).  Every tool call reads and *)
(* writes in separate statements; a caller is one call at a time, two      *)
(* callers are a writer's concurrent tool calls or a second executor that  *)
(* replays the task while the first one is still at it.                    *)
(***************************************************************************)
EXTENDS Naturals, FiniteSets

CONSTANTS
    DraftIds,      \* revision ids
    NoDraft,
    Scopes,        \* DraftScope of a writer: path, version (0: none), generation
    Callers,
    DraftTexts,    \* what a chunk may hold
    BlankTexts,    \* the ones strip() leaves nothing of
    MaxChunks      \* bound on the chunks of a revision

ASSUME DraftAssumption == MaxChunks \in Nat /\ NoDraft \notin DraftIds

VARIABLES
    revision,  \* draft_revisions
    chunks,    \* draft_chunks of a revision: chunk_index -> text
    call,      \* the call a caller has in flight
    delivered  \* what get_drafted_docs returned: id -> body

draftVars == <<revision, chunks, call, delivered>>

NoBody  == [i \in {} |-> i]
NoRev   == [state |-> "none", scope |-> NoDraft, hash |-> NoBody]
IdleTool == [pc |-> "idle", id |-> NoDraft, scope |-> NoDraft, text |-> NoDraft, index |-> 0, seen |-> NoBody]

DraftInit ==
    /\ revision  = [d \in DraftIds |-> NoRev]
    /\ chunks    = [d \in DraftIds |-> NoBody]
    /\ call      = [c \in Callers |-> IdleTool]
    /\ delivered = [d \in DraftIds |-> NoBody]

Return(c)    == call' = [call EXCEPT ![c] = IdleTool]
Idle(c)      == call[c].pc = "idle"
Sealed(d)    == revision[d].state = "sealed"
Opened(d)    == revision[d].state = "open"
_next_chunk_index(d) ==
    IF DOMAIN chunks[d] = {} THEN 0 ELSE 1 + CHOOSE i \in DOMAIN chunks[d] : \A j \in DOMAIN chunks[d] : j <= i

\* The rows of a run, path and version; the unique index keeps them at one.
_get_versioned_revision(s) == {d \in DraftIds : revision[d].scope # NoDraft
                                 /\ revision[d].scope.path = s.path /\ revision[d].scope.version = s.version}

-----------------------------------------------------------------------------
(* prepare_versioned_write: a replayed task starts an open draft over.     *)

PrepareReads(c, s) ==
    /\ Idle(c) /\ s.version # 0
    /\ \E d \in _get_versioned_revision(s) :
          /\ Opened(d)
          /\ call' = [call EXCEPT ![c] = [IdleTool EXCEPT !.pc = "delete", !.id = d]]
    /\ UNCHANGED <<revision, chunks, delivered>>

prepare_versioned_write(c) ==
    /\ call[c].pc = "delete"
    /\ chunks' = [chunks EXCEPT ![call[c].id] = NoBody]
    /\ Return(c)
    /\ UNCHANGED <<revision, delivered>>

-----------------------------------------------------------------------------
(* start_draft.                                                            *)

start_draft(c, s) ==
    /\ Idle(c)
    /\ s.version = 0 \/ _get_versioned_revision(s) = {}
    /\ call' = [call EXCEPT ![c] = [IdleTool EXCEPT !.pc = "insert", !.scope = s]]
    /\ UNCHANGED <<revision, chunks, delivered>>

\* The insert of a second row of the version is refused and the tool raises.
create_revision(c) ==
    LET s == call[c].scope IN
    /\ call[c].pc = "insert"
    /\ IF s.version = 0 \/ _get_versioned_revision(s) = {}
       THEN \E d \in DraftIds :
              /\ revision[d].state = "none"
              /\ revision' = [revision EXCEPT ![d] = [state |-> "open", scope |-> s, hash |-> NoBody]]
       ELSE UNCHANGED revision
    /\ Return(c)
    /\ UNCHANGED <<chunks, delivered>>

-----------------------------------------------------------------------------
(* append_chunk: the row, the next index, the insert.                      *)

AppendReads(c, d, x) ==
    /\ Idle(c) /\ Opened(d)
    /\ call' = [call EXCEPT ![c] = [IdleTool EXCEPT !.pc = "index", !.id = d, !.text = x]]
    /\ UNCHANGED <<revision, chunks, delivered>>

AppendIndexes(c) ==
    /\ call[c].pc = "index"
    /\ _next_chunk_index(call[c].id) < MaxChunks
    /\ call' = [call EXCEPT ![c] = [@ EXCEPT !.pc = "put", !.index = _next_chunk_index(call[c].id)]]
    /\ UNCHANGED <<revision, chunks, delivered>>

\* The primary key refuses an index that is taken.
append_chunk(c) ==
    LET k == call[c].index  d == call[c].id  b == chunks[call[c].id] IN
    /\ call[c].pc = "put"
    /\ chunks' = IF k \in DOMAIN b THEN chunks
                 ELSE [chunks EXCEPT ![d] = [i \in DOMAIN b \cup {k} |-> IF i = k THEN call[c].text ELSE b[i]]]
    /\ Return(c)
    /\ UNCHANGED <<revision, delivered>>

-----------------------------------------------------------------------------
(* finalize: the row, the chunks, the update.                              *)

FinalizeReads(c, d) ==
    /\ Idle(c) /\ Opened(d)
    /\ call' = [call EXCEPT ![c] = [IdleTool EXCEPT !.pc = "assemble", !.id = d]]
    /\ UNCHANGED <<revision, chunks, delivered>>

\* Mutant: an empty draft is finalized like any other.
AcceptsEmpty(b) == FALSE

Blank(b) == \A i \in DOMAIN b : b[i] \in BlankTexts

_assembled(c) ==
    LET b == chunks[call[c].id] IN
    /\ call[c].pc = "assemble"
    /\ IF Blank(b) THEN Return(c)
       ELSE call' = [call EXCEPT ![c] = [@ EXCEPT !.pc = "seal", !.seen = b]]
    /\ UNCHANGED <<revision, chunks, delivered>>

\* content_hash is the digest of what was assembled.
finalize(c) ==
    /\ call[c].pc = "seal"
    /\ revision' = [revision EXCEPT ![call[c].id] = [@ EXCEPT !.state = "sealed", !.hash = call[c].seen]]
    /\ Return(c)
    /\ UNCHANGED <<chunks, delivered>>

-----------------------------------------------------------------------------
(* get_drafted_docs: the rows first, the chunks of each one after.         *)

\* ORDER BY version DESC NULLS LAST, generation DESC.
Newer(s, t) == s.version > t.version \/ (s.version = t.version /\ s.generation > t.generation)

\* Of two revisions of the same rank the order is the database's.
get_latest == {d \in DraftIds : /\ Sealed(d)
                 /\ \A e \in DraftIds : Sealed(e) /\ revision[e].scope.path = revision[d].scope.path
                                          => ~Newer(revision[e].scope, revision[d].scope)}

DeliverSelects(c) ==
    /\ Idle(c)
    /\ \E d \in get_latest : call' = [call EXCEPT ![c] = [IdleTool EXCEPT !.pc = "read", !.id = d]]
    /\ UNCHANGED <<revision, chunks, delivered>>

get_drafted_docs(c) ==
    /\ call[c].pc = "read"
    /\ delivered' = [delivered EXCEPT ![call[c].id] = chunks[call[c].id]]
    /\ Return(c)
    /\ UNCHANGED <<revision, chunks>>

\* The process dies, or the node's timeout cancels the call between two awaits.
CallDies(c) ==
    /\ ~Idle(c)
    /\ Return(c)
    /\ UNCHANGED <<revision, chunks, delivered>>

-----------------------------------------------------------------------------

DraftStep(c) ==
    \/ \E s \in Scopes : PrepareReads(c, s) \/ start_draft(c, s)
    \/ \E d \in DraftIds : FinalizeReads(c, d) \/ \E x \in DraftTexts : AppendReads(c, d, x)
    \/ prepare_versioned_write(c) \/ create_revision(c)
    \/ AppendIndexes(c) \/ append_chunk(c) \/ _assembled(c) \/ finalize(c)
    \/ DeliverSelects(c) \/ get_drafted_docs(c) \/ CallDies(c)

DraftNext == \E c \in Callers : DraftStep(c)

DraftSpec == DraftInit /\ [][DraftNext]_draftVars

-----------------------------------------------------------------------------
(* Properties.                                                             *)

Store == INSTANCE ArtifactStore WITH
    Artifacts <- DraftIds, Texts <- DraftTexts,
    state <- [d \in DraftIds |-> revision[d].state], body <- chunks

\* With one call at a time the store keeps its promise: a draft only grows or is
\* cleared while it is open, is sealed with content, and never changes again.
ImplementsArtifactStore == Store!ArtSpec

\* "A generation is immutable once its revision is sealed": the chunks of a sealed
\* revision are the ones its content_hash was computed from.
SealedMatchesHash == \A d \in DraftIds : Sealed(d) => chunks[d] = revision[d].hash
=============================================================================
