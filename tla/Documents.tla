----------------------------- MODULE Documents ------------------------------
(***************************************************************************)
(* The documentation corpus of an organisation: the sync of a repository   *)
(* (documentation/sync_service.py) and of a public site                    *)
(* (documentation/tavily_source.py), the targeted refresh                  *)
(* (workflows/documentation/refresh.py), the documents table, the chunks   *)
(* of a document in the memory store, and manual draft revisions           *)
(* (persistence/repositories/document_revisions.py).                       *)
(***************************************************************************)
EXTENDS Naturals, Sequences

CONSTANTS
    DocPaths,
    SyncJobs,      \* sync and refresh jobs that may overlap
    Editors,
    Versions,      \* source contents; the content stands for its hash
    Chunkless,     \* contents without a heading, which give no chunk
    NoContent,
    MaxRevisions,  \* bound on the revisions of a document
    SyncFails      \* a file may fail between two awaits, or the process die

ASSUME DocumentsAssumption ==
    NoContent \notin Versions /\ Chunkless \subseteq Versions /\ MaxRevisions \in Nat

VARIABLES
    source,    \* upstream content of a path
    doc,       \* documentation row
    index,     \* contents whose chunks are stored under the document
    revs,      \* documentation_revisions, in the order of revision_number
    file,      \* a job's worker for a path
    editor,    \* what an editor has read
    skipped    \* files the last check of a job left alone

docVars == <<source, doc, index, revs, file, editor, skipped>>

NoDoc  == [exists |-> FALSE, hash |-> NoContent, chunk_count |-> 0, draft |-> 0]
NoFile == [pc |-> "idle", kind |-> "none", content |-> NoContent]
NoEdit == [path |-> "none", hash |-> NoContent, draft |-> 0]

DocInit ==
    /\ source  = [p \in DocPaths |-> NoContent]
    /\ doc     = [p \in DocPaths |-> NoDoc]
    /\ index   = [p \in DocPaths |-> {}]
    /\ revs    = [p \in DocPaths |-> <<>>]
    /\ file    = [j \in SyncJobs |-> [p \in DocPaths |-> NoFile]]
    /\ editor  = [e \in Editors |-> NoEdit]
    /\ skipped = {}

\* Upstream is edited, or the page is taken down.
SourceChanges(p) ==
    /\ source' \in {[source EXCEPT ![p] = v] : v \in (Versions \cup {NoContent}) \ {source[p]}}
    /\ UNCHANGED <<doc, index, revs, file, editor, skipped>>

-----------------------------------------------------------------------------
(* The workers of a job, one per path.                                     *)

Becomes(j, p, pc) == file' = [file EXCEPT ![j][p].pc = pc]
FileDone(j, p)    == file' = [file EXCEPT ![j][p] = NoFile]

\* A job: every path is handed to a worker of its own.
SyncStarts(j, kind) ==
    /\ \A p \in DocPaths : file[j][p] = NoFile
    /\ file' = [file EXCEPT ![j] = [p \in DocPaths |-> [NoFile EXCEPT !.pc = "fetch", !.kind = kind]]]
    /\ skipped' = {}
    /\ UNCHANGED <<source, doc, index, revs, editor>>

\* _extract_with_retry: a page that is still unavailable after the retries, or
\* keeps failing in a retryable way, is empty; a non-retryable failure is not.
_extract_with_retry(p) == {source[p], NoContent}

\* A sync leaves an empty file alone; a refresh takes it for gone.
FileFetched(j, p) ==
    /\ file[j][p].pc = "fetch"
    /\ \E c \in IF file[j][p].kind = "refresh" THEN _extract_with_retry(p) ELSE {source[p]} :
          file' = [file EXCEPT ![j][p] =
                     IF c # NoContent THEN [@ EXCEPT !.pc = "check", !.content = c]
                     ELSE IF @.kind = "refresh" THEN [@ EXCEPT !.pc = "gone"] ELSE NoFile]
    /\ UNCHANGED <<source, doc, index, revs, editor, skipped>>

\* The hash skip: the row's hash, and the chunk_count of its metadata.
Unchanged(p, c) == doc[p].exists /\ doc[p].hash = c /\ doc[p].chunk_count > 0

HashCheck(j, p) ==
    /\ file[j][p].pc = "check"
    /\ IF Unchanged(p, file[j][p].content)
       THEN FileDone(j, p) /\ skipped' = skipped \cup {p}
       ELSE Becomes(j, p, "upsert") /\ UNCHANGED skipped
    /\ UNCHANGED <<source, doc, index, revs, editor>>

chunk_document(c) == IF c \in Chunkless THEN 0 ELSE 1

\* The row carries the hash and the chunk count before a chunk is stored.
upsert_document(j, p) ==
    LET c == file[j][p].content IN
    /\ file[j][p].pc = "upsert"
    /\ doc' = [doc EXCEPT ![p].exists = TRUE, ![p].hash = c, ![p].chunk_count = chunk_document(c)]
    /\ IF chunk_document(c) = 0 THEN FileDone(j, p) ELSE Becomes(j, p, "clear")
    /\ UNCHANGED <<source, index, revs, editor, skipped>>

delete_by_metadata(j, p) ==
    /\ file[j][p].pc = "clear"
    /\ index' = [index EXCEPT ![p] = {}]
    /\ Becomes(j, p, "store")
    /\ UNCHANGED <<source, doc, revs, editor, skipped>>

\* All chunks of a file are embedded, then inserted in one transaction.
store_batch(j, p) ==
    /\ file[j][p].pc = "store"
    /\ index' = [index EXCEPT ![p] = @ \cup {file[j][p].content}]
    /\ FileDone(j, p)
    /\ UNCHANGED <<source, doc, revs, editor, skipped>>

\* refresh_public_documentation: the chunks of a page that is gone, then its row.
RefreshClears(j, p) ==
    /\ file[j][p].pc = "gone"
    /\ IF doc[p].exists THEN index' = [index EXCEPT ![p] = {}] /\ Becomes(j, p, "drop")
       ELSE UNCHANGED index /\ FileDone(j, p)
    /\ UNCHANGED <<source, doc, revs, editor, skipped>>

\* The revisions go with the row (ON DELETE CASCADE).
RefreshDrops(j, p) ==
    /\ file[j][p].pc = "drop"
    /\ doc'  = [doc EXCEPT ![p] = NoDoc]
    /\ revs' = [revs EXCEPT ![p] = <<>>]
    /\ FileDone(j, p)
    /\ UNCHANGED <<source, index, editor, skipped>>

\* The worker records the path as failed and goes on with the others.
FileFails(j, p) ==
    /\ SyncFails /\ file[j][p].pc # "idle"
    /\ FileDone(j, p)
    /\ UNCHANGED <<source, doc, index, revs, editor, skipped>>

-----------------------------------------------------------------------------
(* Manual revisions.                                                       *)

EditorReads(e, p) ==
    /\ doc[p].exists
    /\ editor' = [editor EXCEPT ![e] = [path |-> p, hash |-> doc[p].hash, draft |-> doc[p].draft]]
    /\ UNCHANGED <<source, doc, index, revs, file, skipped>>

\* Mutant: only the source is compared.
SourceOnly(e, hash, base) == hash => editor[e].hash = doc[editor[e].path].hash

\* "hash": whether base_source_hash is sent; "base": the revision sent, 0 for none.
\* What is not sent is not compared.
_validate_base(e, hash, base) ==
    LET p == editor[e].path IN
    /\ hash => editor[e].hash = doc[p].hash
    /\ base # 0 => base = doc[p].draft

\* One serializable transaction: number, supersede, insert, point to it.
_insert_revision(p, seen, origin) ==
    /\ Len(revs[p]) < MaxRevisions
    /\ revs' = [revs EXCEPT ![p] = Append([i \in DOMAIN @ |->
                    IF i = doc[p].draft THEN [@[i] EXCEPT !.status = "superseded"] ELSE @[i]],
                    [status |-> "draft", origin |-> origin, seen |-> seen])]
    /\ doc'  = [doc EXCEPT ![p].draft = Len(revs[p]) + 1]

\* Both bases are optional: the request may leave out either.
create_draft(e) == \E hash \in BOOLEAN, base \in {editor[e].draft, 0} :
    LET p == editor[e].path IN
    /\ editor[e] # NoEdit
    /\ editor' = [editor EXCEPT ![e] = NoEdit]
    /\ IF doc[p].exists /\ _validate_base(e, hash, base) THEN _insert_revision(p, base, "manual")
       ELSE UNCHANGED <<doc, revs>>
    /\ UNCHANGED <<source, index, file, skipped>>

restore_revision(p) ==
    /\ doc[p].exists
    /\ \E i \in DOMAIN revs[p] : _insert_revision(p, i, "restore")
    /\ UNCHANGED <<source, index, file, editor, skipped>>

-----------------------------------------------------------------------------

SyncStep(j, p) ==
    \/ FileFetched(j, p) \/ HashCheck(j, p) \/ upsert_document(j, p)
    \/ delete_by_metadata(j, p) \/ store_batch(j, p)
    \/ RefreshClears(j, p) \/ RefreshDrops(j, p) \/ FileFails(j, p)

DocNext ==
    \/ \E p \in DocPaths : SourceChanges(p) \/ restore_revision(p)
    \/ \E j \in SyncJobs, kind \in {"sync", "refresh"} : SyncStarts(j, kind)
    \/ \E j \in SyncJobs, p \in DocPaths : SyncStep(j, p)
    \/ \E e \in Editors : create_draft(e) \/ \E p \in DocPaths : EditorReads(e, p)

DocSpec == DocInit /\ [][DocNext]_docVars

-----------------------------------------------------------------------------
(* Properties.                                                             *)

\* The draft a document points to is its last revision and the only one that is
\* not superseded, and an edit that names a draft as its base replaced that very draft.
EditsAreNotLost == \A p \in DocPaths :
    /\ doc[p].draft = Len(revs[p])
    /\ \A i \in DOMAIN revs[p] : revs[p][i].status = "draft" <=> i = doc[p].draft
    /\ \A i \in DOMAIN revs[p] : revs[p][i].origin = "manual" /\ revs[p][i].seen # 0
                                   => revs[p][i].seen = i - 1
=============================================================================
