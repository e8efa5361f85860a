-------------------------- MODULE DraftStoreProofs --------------------------
(***************************************************************************)
(* One tool call at a time: the draft store implements the artifact store, *)
(* for every set of drafts, scopes and texts and every bound on chunks.    *)
(* The step that is not obvious is that what a call read in one statement  *)
(* still holds when it writes in a later one; DraftInv says so, and it is  *)
(* where the argument needs that no second call is in flight.              *)
(***************************************************************************)
EXTENDS DraftStore, TLAPS

\* Only one caller has a call in flight.
OneCall == \A c, e \in Callers : c = e

\* A row of draft_revisions, whatever its hash is.
RowOK(r) == /\ r = [state |-> r.state, scope |-> r.scope, hash |-> r.hash]
            /\ r.state \in {"none", "open", "sealed"}

CallOK(r) == r = [pc |-> r.pc, id |-> r.id, scope |-> r.scope, text |-> r.text,
                  index |-> r.index, seen |-> r.seen]

\* The statements that write to a draft are reached with the draft still open.
Writing == {"delete", "index", "put", "assemble", "seal"}

\* What a call has read is what the tables say.
ReadIsCurrent(c) ==
    LET r == call[c] IN
    /\ r.pc \in Writing => r.id \in DraftIds /\ Opened(r.id)
    /\ r.pc \in {"index", "put"} => r.text \in DraftTexts
    /\ r.pc = "put" => r.index = _next_chunk_index(r.id)
    /\ r.pc = "seal" => r.seen = chunks[r.id] /\ ~Blank(r.seen)

TablesOK ==
    /\ revision = [d \in DraftIds |-> revision[d]]
    /\ \A d \in DraftIds : RowOK(revision[d])
    /\ chunks = [d \in DraftIds |-> chunks[d]]
    /\ call = [c \in Callers |-> call[c]]
    /\ \A c \in Callers : CallOK(call[c])

DraftInv == TablesOK /\ \A c \in Callers : ReadIsCurrent(c)

-----------------------------------------------------------------------------

\* Before the first call there is nothing to have read.
LEMMA DraftInitInv == DraftInit => DraftInv
<1> SUFFICES ASSUME DraftInit PROVE DraftInv
  OBVIOUS
<1>1. TablesOK
  BY DEF DraftInit, TablesOK, RowOK, CallOK, NoRev, IdleTool
<1>2. ASSUME NEW c \in Callers PROVE ReadIsCurrent(c)
  BY <1>2 DEF DraftInit, ReadIsCurrent, Writing, IdleTool
<1> QED
  BY <1>1, <1>2 DEF DraftInv

-----------------------------------------------------------------------------

\* The steps that only read keep the tables, and what they note is current.
LEMMA ReadingStep ==
    ASSUME OneCall, DraftInv, NEW c \in Callers,
           \/ \E s \in Scopes : PrepareReads(c, s) \/ start_draft(c, s)
           \/ \E d \in DraftIds : FinalizeReads(c, d) \/ \E x \in DraftTexts : AppendReads(c, d, x)
           \/ AppendIndexes(c) \/ _assembled(c) \/ DeliverSelects(c) \/ CallDies(c)
    PROVE  DraftInv' /\ UNCHANGED <<revision, chunks>>
<1> USE DEF DraftInv
<1>0. /\ TablesOK /\ ReadIsCurrent(c)
      /\ call = [e \in Callers |-> call[e]] /\ CallOK(call[c])
  BY DEF TablesOK
<1>1. CASE \E s \in Scopes : PrepareReads(c, s)
  <2> PICK s \in Scopes : PrepareReads(c, s)
    BY <1>1
  <2>1. UNCHANGED <<revision, chunks>>
    BY DEF PrepareReads
  <2>2. PICK d \in DraftIds : /\ Opened(d)
                              /\ call' = [call EXCEPT ![c] = [IdleTool EXCEPT !.pc = "delete", !.id = d]]
    BY DEF PrepareReads, _get_versioned_revision
  <2>3. TablesOK'
    BY <1>0, <2>1, <2>2 DEF TablesOK, RowOK, CallOK, IdleTool
  <2>4. ReadIsCurrent(c)'
    BY <1>0, <2>1, <2>2 DEF ReadIsCurrent, Opened, Writing, IdleTool
  <2> QED
    BY <2>1, <2>3, <2>4 DEF OneCall
<1>2. CASE \E s \in Scopes : start_draft(c, s)
  <2> PICK s \in Scopes : start_draft(c, s)
    BY <1>2
  <2>1. UNCHANGED <<revision, chunks>>
    BY DEF start_draft
  <2>2. call' = [call EXCEPT ![c] = [IdleTool EXCEPT !.pc = "insert", !.scope = s]]
    BY DEF start_draft
  <2>3. TablesOK'
    BY <1>0, <2>1, <2>2 DEF TablesOK, RowOK, CallOK, IdleTool
  <2>4. ReadIsCurrent(c)'
    BY <1>0, <2>1, <2>2 DEF ReadIsCurrent, Writing, IdleTool
  <2> QED
    BY <2>1, <2>3, <2>4 DEF OneCall
<1>3. CASE \E d \in DraftIds : FinalizeReads(c, d)
  <2> PICK d \in DraftIds : FinalizeReads(c, d)
    BY <1>3
  <2>1. UNCHANGED <<revision, chunks>>
    BY DEF FinalizeReads
  <2>2. Opened(d) /\ call' = [call EXCEPT ![c] = [IdleTool EXCEPT !.pc = "assemble", !.id = d]]
    BY DEF FinalizeReads
  <2>3. TablesOK'
    BY <1>0, <2>1, <2>2 DEF TablesOK, RowOK, CallOK, IdleTool
  <2>4. ReadIsCurrent(c)'
    BY <1>0, <2>1, <2>2 DEF ReadIsCurrent, Opened, Writing, IdleTool
  <2> QED
    BY <2>1, <2>3, <2>4 DEF OneCall
<1>4. CASE \E d \in DraftIds, x \in DraftTexts : AppendReads(c, d, x)
  <2> PICK d \in DraftIds, x \in DraftTexts : AppendReads(c, d, x)
    BY <1>4
  <2>1. UNCHANGED <<revision, chunks>>
    BY DEF AppendReads
  <2>2. Opened(d) /\ call' = [call EXCEPT ![c] = [IdleTool EXCEPT !.pc = "index", !.id = d, !.text = x]]
    BY DEF AppendReads
  <2>3. TablesOK'
    BY <1>0, <2>1, <2>2 DEF TablesOK, RowOK, CallOK, IdleTool
  <2>4. ReadIsCurrent(c)'
    BY <1>0, <2>1, <2>2 DEF ReadIsCurrent, Opened, Writing, IdleTool
  <2> QED
    BY <2>1, <2>3, <2>4 DEF OneCall
<1>5. CASE AppendIndexes(c)
  <2>1. UNCHANGED <<revision, chunks>>
    BY <1>5 DEF AppendIndexes
  <2>2. /\ call[c].pc = "index"
        /\ call' = [call EXCEPT ![c] = [call[c] EXCEPT !.pc = "put", !.index = _next_chunk_index(call[c].id)]]
    BY <1>0, <1>5 DEF AppendIndexes, CallOK
  <2>3. TablesOK'
    BY <1>0, <2>1, <2>2 DEF TablesOK, RowOK, CallOK
  <2>4. ReadIsCurrent(c)'
    <3>1. /\ call'[c].pc = "put" /\ call'[c].id = call[c].id /\ call'[c].text = call[c].text
          /\ call'[c].index = _next_chunk_index(call[c].id)
      BY <1>0, <2>2 DEF CallOK
    <3>2. _next_chunk_index(call[c].id)' = _next_chunk_index(call'[c].id)
      BY <2>1 DEF _next_chunk_index
    <3>3. call[c].id \in DraftIds /\ Opened(call[c].id) /\ call[c].text \in DraftTexts
      BY <1>0, <2>2 DEF ReadIsCurrent, Writing
    <3> QED
      BY <2>1, <3>1, <3>2, <3>3 DEF ReadIsCurrent, Opened, Writing
  <2> QED
    BY <2>1, <2>3, <2>4 DEF OneCall
<1>6. CASE _assembled(c)
  <2>1. UNCHANGED <<revision, chunks>>
    BY <1>6 DEF _assembled
  <2>2. CASE Return(c)
    <3>1. TablesOK'
      BY <1>0, <2>1, <2>2 DEF TablesOK, RowOK, CallOK, IdleTool, Return
    <3>2. ReadIsCurrent(c)'
      BY <1>0, <2>1, <2>2 DEF ReadIsCurrent, Writing, IdleTool, Return
    <3> QED
      BY <2>1, <3>1, <3>2 DEF OneCall
  <2>3. CASE ~Return(c)
    <3>1. /\ call[c].pc = "assemble" /\ ~Blank(chunks[call[c].id])
          /\ call' = [call EXCEPT ![c] = [call[c] EXCEPT !.pc = "seal", !.seen = chunks[call[c].id]]]
      BY <1>0, <1>6, <2>3 DEF _assembled, CallOK
    <3>2. TablesOK'
      BY <1>0, <2>1, <3>1 DEF TablesOK, RowOK, CallOK
    <3>3. ReadIsCurrent(c)'
      BY <1>0, <2>1, <3>1 DEF ReadIsCurrent, Opened, Writing, Blank, CallOK
    <3> QED
      BY <2>1, <3>2, <3>3 DEF OneCall
  <2> QED
    BY <2>2, <2>3
<1>7. CASE DeliverSelects(c)
  <2>1. UNCHANGED <<revision, chunks>>
    BY <1>7 DEF DeliverSelects
  <2>2. PICK d : call' = [call EXCEPT ![c] = [IdleTool EXCEPT !.pc = "read", !.id = d]]
    BY <1>7 DEF DeliverSelects
  <2>3. TablesOK'
    BY <1>0, <2>1, <2>2 DEF TablesOK, RowOK, CallOK, IdleTool
  <2>4. ReadIsCurrent(c)'
    BY <1>0, <2>1, <2>2 DEF ReadIsCurrent, Writing, IdleTool
  <2> QED
    BY <2>1, <2>3, <2>4 DEF OneCall
<1>8. CASE CallDies(c)
  <2>1. UNCHANGED <<revision, chunks>> /\ Return(c)
    BY <1>8 DEF CallDies
  <2>2. TablesOK'
    BY <1>0, <2>1 DEF TablesOK, RowOK, CallOK, IdleTool, Return
  <2>3. ReadIsCurrent(c)'
    BY <1>0, <2>1 DEF ReadIsCurrent, Writing, IdleTool, Return
  <2> QED
    BY <2>1, <2>2, <2>3 DEF OneCall
<1> QED
  BY <1>1, <1>2, <1>3, <1>4, <1>5, <1>6, <1>7, <1>8

\* The steps that write do to the artifacts what the artifact store allows.
LEMMA WritingStep ==
    ASSUME OneCall, DraftInv, NEW c \in Callers,
           prepare_versioned_write(c) \/ create_revision(c) \/ append_chunk(c) \/ finalize(c)
    PROVE  DraftInv' /\ (Store!ArtNext \/ UNCHANGED Store!artVars)
<1> USE DEF DraftInv
<1> DEFINE i == call[c].id
<1>0. /\ TablesOK /\ ReadIsCurrent(c)
      /\ call = [e \in Callers |-> call[e]] /\ CallOK(call[c])
      /\ revision = [d \in DraftIds |-> revision[d]]
      /\ chunks = [d \in DraftIds |-> chunks[d]]
      /\ \A d \in DraftIds : RowOK(revision[d])
  BY DEF TablesOK
<1>1. CASE prepare_versioned_write(c)
  <2>1. /\ i \in DraftIds /\ Opened(i)
        /\ chunks' = [chunks EXCEPT ![i] = NoBody]
        /\ UNCHANGED revision /\ Return(c)
    BY <1>0, <1>1 DEF prepare_versioned_write, ReadIsCurrent, Writing
  <2>2. TablesOK'
    BY <1>0, <2>1 DEF TablesOK, RowOK, CallOK, IdleTool, Return
  <2>3. ReadIsCurrent(c)'
    BY <1>0, <2>1 DEF ReadIsCurrent, Writing, IdleTool, Return
  <2>4. Store!Clear(i)
    BY <2>1 DEF Store!Clear, Store!NoText, NoBody, Opened
  <2> QED
    BY <2>1, <2>2, <2>3, <2>4 DEF OneCall, Store!ArtNext
<1>2. CASE create_revision(c)
  <2>1. UNCHANGED chunks /\ Return(c)
    BY <1>2 DEF create_revision
  <2>2. ReadIsCurrent(c)'
    BY <1>0, <2>1 DEF ReadIsCurrent, Writing, IdleTool, Return
  <2>3. CASE UNCHANGED revision
    <3>1. TablesOK'
      BY <1>0, <2>1, <2>3 DEF TablesOK, RowOK, CallOK, IdleTool, Return
    <3>2. UNCHANGED Store!artVars
      BY <2>1, <2>3 DEF Store!artVars
    <3> QED
      BY <2>2, <3>1, <3>2 DEF OneCall
  <2>4. CASE ~UNCHANGED revision
    <3>1. PICK d \in DraftIds :
            /\ revision[d].state = "none"
            /\ revision' = [revision EXCEPT ![d] = [state |-> "open", scope |-> call[c].scope, hash |-> NoBody]]
      BY <1>2, <2>4 DEF create_revision
    <3>2. TablesOK'
      BY <1>0, <2>1, <3>1 DEF TablesOK, RowOK, CallOK, IdleTool, Return
    <3>3. Store!Open(d)
      BY <1>0, <2>1, <3>1 DEF Store!Open
    <3> QED
      BY <2>2, <3>2, <3>3 DEF OneCall, Store!ArtNext
  <2> QED
    BY <2>3, <2>4
<1>3. CASE append_chunk(c)
  <2> DEFINE k == call[c].index
             b == chunks[i]
             x == call[c].text
  <2>1. /\ i \in DraftIds /\ Opened(i) /\ x \in DraftTexts /\ k = _next_chunk_index(i)
        /\ UNCHANGED revision /\ Return(c)
    BY <1>0, <1>3 DEF append_chunk, ReadIsCurrent, Writing
  <2>2. ReadIsCurrent(c)'
    BY <1>0, <2>1 DEF ReadIsCurrent, Writing, IdleTool, Return
  <2>3. CASE k \in DOMAIN b
    <3>1. UNCHANGED chunks
      BY <1>3, <2>3 DEF append_chunk
    <3>2. TablesOK'
      BY <1>0, <2>1, <3>1 DEF TablesOK, RowOK, CallOK, IdleTool, Return
    <3> QED
      BY <2>1, <2>2, <3>1, <3>2 DEF OneCall, Store!artVars
  <2>4. CASE k \notin DOMAIN b
    <3>1. chunks' = [chunks EXCEPT ![i] = [j \in DOMAIN b \cup {k} |-> IF j = k THEN x ELSE b[j]]]
      BY <1>3, <2>4 DEF append_chunk
    <3>2. TablesOK'
      BY <1>0, <2>1, <3>1 DEF TablesOK, RowOK, CallOK, IdleTool, Return
    <3>3. k = Store!NextIndex(b)
      BY <2>1 DEF _next_chunk_index, Store!NextIndex
    <3>4. Store!Grow(i, x)
      BY <2>1, <3>1, <3>3 DEF Store!Grow, Store!With, Opened
    <3> QED
      BY <2>1, <2>2, <3>2, <3>4 DEF OneCall, Store!ArtNext
  <2> QED
    BY <2>3, <2>4
<1>4. CASE finalize(c)
  <2>1. /\ i \in DraftIds /\ Opened(i) /\ call[c].seen = chunks[i] /\ ~Blank(chunks[i])
        /\ revision' = [revision EXCEPT ![i] = [revision[i] EXCEPT !.state = "sealed", !.hash = call[c].seen]]
        /\ UNCHANGED chunks /\ Return(c)
    BY <1>0, <1>4 DEF finalize, ReadIsCurrent, Writing
  <2>2. ReadIsCurrent(c)'
    BY <1>0, <2>1 DEF ReadIsCurrent, Writing, IdleTool, Return
  <2>3. revision'[i] = [state |-> "sealed", scope |-> revision[i].scope, hash |-> call[c].seen]
    <3>1. PICK st, sc, h : revision[i] = [state |-> st, scope |-> sc, hash |-> h]
      BY <1>0, <2>1 DEF RowOK
    <3>2. revision'[i] = [[state |-> st, scope |-> sc, hash |-> h]
                             EXCEPT !.state = "sealed", !.hash = call[c].seen]
      BY <1>0, <2>1, <3>1
    <3> QED
      BY <3>1, <3>2
  <2>4. TablesOK'
    BY <1>0, <2>1, <2>3 DEF TablesOK, RowOK, CallOK, IdleTool, Return
  <2>5. chunks[i] # Store!NoText
    BY <2>1 DEF Blank, Store!NoText
  <2>6. Store!Seal(i)
    BY <1>0, <2>1, <2>3, <2>5 DEF Store!Seal, Opened
  <2>7. DraftInv'
    BY <2>2, <2>4 DEF OneCall
  <2>8. Store!ArtNext
    <3>1. PICK d \in DraftIds : d = i
      BY <2>1
    <3>2. Store!Seal(d)
      BY <2>6, <3>1 DEF Store!Seal
    <3> QED
      BY <3>2 DEF Store!ArtNext
  <2> QED
    BY <2>7, <2>8
<1> QED
  BY <1>1, <1>2, <1>3, <1>4

\* Reading the delivered chunks touches no artifact.
LEMMA DeliveringStep ==
    ASSUME OneCall, DraftInv, NEW c \in Callers, get_drafted_docs(c)
    PROVE  DraftInv' /\ UNCHANGED Store!artVars
<1>1. UNCHANGED <<revision, chunks>> /\ Return(c)
  BY DEF get_drafted_docs
<1>2. TablesOK'
  BY <1>1 DEF DraftInv, TablesOK, RowOK, CallOK, IdleTool, Return
<1>3. ReadIsCurrent(c)'
  BY <1>1 DEF DraftInv, TablesOK, ReadIsCurrent, Writing, IdleTool, Return
<1> QED
  BY <1>1, <1>2, <1>3 DEF DraftInv, OneCall, Store!artVars

-----------------------------------------------------------------------------

\* As long as the tool calls of a run do not overlap, what the draft store does
\* (persistence/repositories/drafts.py, statement by statement, with calls cut off
\* between statements) is what an artifact store does: only open drafts change,
\* only drafts with content are sealed, and a sealed one is final.
THEOREM DraftsAreArtifacts == ASSUME OneCall PROVE DraftSpec => ImplementsArtifactStore
<1>1. DraftInit => Store!ArtInit
  BY DEF DraftInit, Store!ArtInit, Store!NoText, NoBody, NoRev
<1>2. DraftInv /\ [DraftNext]_draftVars => DraftInv' /\ [Store!ArtNext]_(Store!artVars)
  <2> SUFFICES ASSUME DraftInv, [DraftNext]_draftVars
               PROVE  DraftInv' /\ (Store!ArtNext \/ UNCHANGED Store!artVars)
    OBVIOUS
  <2>1. CASE UNCHANGED draftVars
    <3>1. UNCHANGED <<revision, chunks, call>>
      BY <2>1 DEF draftVars
    <3>2. TablesOK'
      BY <3>1 DEF DraftInv, TablesOK, RowOK, CallOK
    <3>3. ASSUME NEW c \in Callers PROVE ReadIsCurrent(c)'
      <4>1. _next_chunk_index(call[c].id)' = _next_chunk_index(call[c].id)
        BY <3>1 DEF _next_chunk_index
      <4>2. Opened(call[c].id)' = Opened(call[c].id) /\ Blank(call[c].seen)' = Blank(call[c].seen)
        BY <3>1 DEF Opened, Blank
      <4> QED
        BY <3>1, <4>1, <4>2 DEF DraftInv, ReadIsCurrent
    <3>4. UNCHANGED Store!artVars
      BY <3>1 DEF Store!artVars
    <3> QED
      BY <3>2, <3>3, <3>4 DEF DraftInv
  <2>2. CASE DraftNext
    <3> PICK c \in Callers : DraftStep(c)
      BY <2>2 DEF DraftNext
    <3>1. CASE prepare_versioned_write(c) \/ create_revision(c) \/ append_chunk(c) \/ finalize(c)
      BY <3>1, WritingStep
    <3>2. CASE get_drafted_docs(c)
      BY <3>2, DeliveringStep
    <3>3. ASSUME \/ \E s \in Scopes : PrepareReads(c, s) \/ start_draft(c, s)
                 \/ \E d \in DraftIds : FinalizeReads(c, d) \/ \E x \in DraftTexts : AppendReads(c, d, x)
                 \/ AppendIndexes(c) \/ _assembled(c) \/ DeliverSelects(c) \/ CallDies(c)
          PROVE  DraftInv' /\ UNCHANGED Store!artVars
      <4>1. DraftInv' /\ UNCHANGED <<revision, chunks>>
        BY <3>3, ReadingStep
      <4> QED
        BY <4>1 DEF Store!artVars
    <3> QED
      BY <3>1, <3>2, <3>3 DEF DraftStep
  <2> QED
    BY <2>1, <2>2
<1> QED
  BY <1>1, <1>2, DraftInitInv, PTL DEF DraftSpec, ImplementsArtifactStore, Store!ArtSpec
=============================================================================
