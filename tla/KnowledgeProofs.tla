-------------------------- MODULE KnowledgeProofs --------------------------
(***************************************************************************)
(* Proofs about how an organisation's knowledge is brought in: who owns an *)
(* installation, the tokens every GitHub request uses, the onboarding run  *)
(* and its job, the extraction of knowledge, the corpus and its revisions, *)
(* and the content packages.  Each component has an inductive invariant of *)
(* its own.                                                                *)
(***************************************************************************)
EXTENDS Connections, InstallationTokens, Onboarding, KnowledgeExtraction, Documents, ContentPackages,
        FiniteSetTheorems, TLAPS

-----------------------------------------------------------------------------
(* Installation tokens.  A mint happens under the lock, after a second     *)
(* look at the cache, and time stands still while the lock is held: the    *)
(* cache that was stale at the second look is stale at the mint.           *)

TokenTypes ==
  /\ quarter \in Nat \ {0}
  /\ tokenCache \in [TokenInstalls -> Nat]
  /\ tokenLock \in TokenCallers \cup {Unlocked}
  /\ caller \in [TokenCallers -> [pc: {"idle", "wait", "locked", "mint", "using"},
                                  inst: TokenInstalls \cup {"none"}, token: Nat]]
  /\ minted \subseteq TokenInstalls \X Nat \X Nat
  /\ IsFiniteSet(minted)
  /\ \A c \in TokenCallers : caller[c].pc # "idle" => caller[c].inst \in TokenInstalls

MintsOf(i) == {m \in minted : m[1] = i}

\* The lock is with whoever is past it.
LockIsHeld == \A c \in TokenCallers : caller[c].pc \in {"locked", "mint"} => tokenLock = c

\* What is cached is still stale when the mint begins.
MintIsDue == \A c \in TokenCallers : caller[c].pc = "mint" => ~CacheIsFresh(caller[c].inst)

\* The cache holds the last mint, and mints are numbered without a gap.
CacheIsLast == \A m \in minted : m[2] > 0 /\ m[2] <= tokenCache[m[1]] /\ m[3] < Cardinality(MintsOf(m[1]))

TokenInv == TokenTypes /\ LockIsHeld /\ MintIsDue /\ CacheIsLast /\ OneLiveToken

LEMMA TokenStarts == TokenInit => TokenInv
<1> SUFFICES ASSUME TokenInit PROVE TokenInv
  OBVIOUS
<1> USE DEF TokenInit, NotCached, Unlocked, IdleCaller
<1>1. TokenTypes
  BY FS_EmptySet DEF TokenTypes
<1>2. LockIsHeld /\ MintIsDue /\ CacheIsLast /\ OneLiveToken
  BY DEF LockIsHeld, MintIsDue, CacheIsLast, OneLiveToken
<1> QED BY <1>1, <1>2 DEF TokenInv

\* A step of a caller that leaves the cache and the mints alone.
LEMMA CallerMoves ==
  ASSUME TokenInv, NEW c \in TokenCallers,
         NEW r \in [pc: {"idle", "wait", "locked", "mint", "using"},
                    inst: TokenInstalls \cup {"none"}, token: Nat],
         r.pc # "idle" => r.inst \in TokenInstalls,
         caller' = [caller EXCEPT ![c] = r],
         UNCHANGED <<quarter, tokenCache, minted>>,
         tokenLock' \in TokenCallers \cup {Unlocked},
         r.pc \in {"locked", "mint"} => tokenLock' = c,
         \A d \in TokenCallers \ {c} : caller[d].pc \in {"locked", "mint"} => tokenLock' = tokenLock,
         r.pc = "mint" => ~CacheIsFresh(r.inst),
         r.pc = "using" => r.token + TokenLife > quarter
  PROVE  TokenInv'
<1> USE DEF TokenInv
<1>1. TokenTypes'
  BY DEF TokenTypes
<1>2. LockIsHeld'
  BY DEF LockIsHeld, TokenTypes
<1>3. MintIsDue'
  BY DEF MintIsDue, CacheIsFresh, TokenTypes
<1>4. CacheIsLast'
  BY DEF CacheIsLast, MintsOf
<1>5. OneLiveToken'
  BY DEF OneLiveToken, TokenTypes
<1> QED BY <1>1, <1>2, <1>3, <1>4, <1>5

\* The successful mint, the only step that adds one.
LEMMA MintIsCounted ==
  ASSUME TokenInv, NEW c \in TokenCallers, caller[c].pc = "mint", NEW i, i = caller[c].inst,
         tokenLock' = Unlocked, UNCHANGED quarter,
         tokenCache' = [tokenCache EXCEPT ![i] = quarter],
         minted' = minted \cup {<<i, quarter, Cardinality(MintsOf(i))>>},
         caller' = [caller EXCEPT ![c] = [pc |-> "using", inst |-> i, token |-> quarter]]
  PROVE  TokenInv'
<1> USE DEF TokenInv
<1> DEFINE n == Cardinality(MintsOf(i))
           new == <<i, quarter, n>>
<1>1. i \in TokenInstalls
  BY DEF TokenTypes
<1>2. IsFiniteSet(MintsOf(i)) /\ n \in Nat
  BY FS_Subset, FS_CardinalityType DEF MintsOf, TokenTypes
<1>3. new \notin MintsOf(i)
  BY <1>2 DEF CacheIsLast, MintsOf
<1>4. MintsOf(i)' = MintsOf(i) \cup {new}
  BY DEF MintsOf
<1>5. Cardinality(MintsOf(i))' = n + 1
  BY <1>2, <1>3, <1>4, FS_AddElement
<1>6. \A m \in minted : m[1] # i => MintsOf(m[1])' = MintsOf(m[1])
  BY DEF MintsOf
<1>7. \A d \in TokenCallers : d # c => caller[d].pc \notin {"locked", "mint"}
  BY DEF LockIsHeld, TokenTypes
<1>8. \A m \in minted : m[1] = i => m[2] + TokenTTL <= quarter /\ m[3] < n
  BY TokenAssumption, <1>1 DEF MintIsDue, CacheIsFresh, CacheIsLast, TokenTypes, NotCached
<1>9. TokenTypes'
  <2>1. IsFiniteSet(minted')
    BY FS_AddElement DEF TokenTypes
  <2>2. minted' \subseteq TokenInstalls \X Nat \X Nat
    BY <1>1, <1>2 DEF TokenTypes
  <2>3. caller' \in [TokenCallers -> [pc: {"idle", "wait", "locked", "mint", "using"},
                                     inst: TokenInstalls \cup {"none"}, token: Nat]]
    BY <1>1 DEF TokenTypes
  <2> QED BY <1>1, <2>1, <2>2, <2>3 DEF TokenTypes
<1>10. LockIsHeld' /\ MintIsDue'
  BY <1>7 DEF LockIsHeld, MintIsDue, TokenTypes
<1>11. CacheIsLast'
  <2> SUFFICES ASSUME NEW m \in minted'
               PROVE  m[2] > 0 /\ m[2] <= tokenCache'[m[1]] /\ m[3] < Cardinality(MintsOf(m[1]))'
    BY DEF CacheIsLast
  <2>1. CASE m = new
    BY <2>1, <1>1, <1>2, <1>5 DEF TokenTypes
  <2>2. CASE m \in minted /\ m[1] = i
    BY <2>2, <1>1, <1>2, <1>5, <1>8, TokenAssumption DEF TokenTypes, CacheIsLast
  <2>3. CASE m \in minted /\ m[1] # i
    BY <2>3, <1>6 DEF TokenTypes, CacheIsLast
  <2> QED BY <2>1, <2>2, <2>3
<1>12. OneLiveToken'
  <2>1. \A m1, m2 \in minted' : m1[1] = m2[1] /\ m1[3] < m2[3] => m1[2] + TokenTTL <= m2[2]
    <3> SUFFICES ASSUME NEW m1 \in minted', NEW m2 \in minted', m1[1] = m2[1], m1[3] < m2[3]
                 PROVE  m1[2] + TokenTTL <= m2[2]
      OBVIOUS
    <3>1. CASE m1 \in minted /\ m2 \in minted
      BY <3>1 DEF OneLiveToken
    <3>2. CASE m2 = new /\ m1 \in minted
      BY <3>2, <1>8
    <3>3. CASE m1 = new /\ m2 \in minted
      BY <3>3, <1>8, <1>2 DEF TokenTypes
    <3>4. CASE m1 = new /\ m2 = new
      BY <3>4, <1>2
    <3> QED BY <3>1, <3>2, <3>3, <3>4
  <2>2. \A d \in TokenCallers : caller'[d].pc = "using" => caller'[d].token + TokenLife > quarter'
    BY TokenAssumption DEF OneLiveToken, TokenTypes
  <2> QED BY <2>1, <2>2 DEF OneLiveToken
<1> QED BY <1>9, <1>10, <1>11, <1>12

LEMMA TokenSteps == TokenInv /\ [TokenNext]_tokenVars => TokenInv'
<1> SUFFICES ASSUME TokenInv, [TokenNext]_tokenVars PROVE TokenInv'
  OBVIOUS
<1> USE DEF TokenInv
<1>0. tokenCache \in [TokenInstalls -> Nat] /\ quarter \in Nat
  BY DEF TokenTypes
<1>1. ASSUME NEW c \in TokenCallers, NEW i \in TokenInstalls, get_installation_token(c, i)
      PROVE  TokenInv'
  <2>1. CASE CacheIsFresh(i)
    <3> DEFINE r == [pc |-> "using", inst |-> i, token |-> tokenCache[i]]
    <3>1. r.token + TokenLife > quarter
      BY <1>0, <2>1, TokenAssumption DEF CacheIsFresh
    <3>2. caller' = [caller EXCEPT ![c] = r] /\ UNCHANGED <<quarter, tokenCache, tokenLock, minted>>
      BY <1>1, <2>1 DEF get_installation_token, HandOut
    <3> QED BY <1>0, <3>1, <3>2, CallerMoves DEF TokenTypes
  <2>2. CASE ~CacheIsFresh(i)
    <3> DEFINE r == [pc |-> "wait", inst |-> i, token |-> NotCached]
    <3>1. caller' = [caller EXCEPT ![c] = r] /\ UNCHANGED <<quarter, tokenCache, tokenLock, minted>>
      BY <1>1, <2>2 DEF get_installation_token
    <3> QED BY <1>0, <3>1, CallerMoves DEF TokenTypes, NotCached
  <2> QED BY <2>1, <2>2
<1>2. ASSUME NEW c \in TokenCallers, AcquireTokenLock(c) PROVE TokenInv'
  <2> DEFINE r == [caller[c] EXCEPT !.pc = "locked"]
  <2>1. caller' = [caller EXCEPT ![c] = r]
    BY <1>2 DEF AcquireTokenLock, TokenTypes
  <2>2. \A d \in TokenCallers : caller[d].pc \notin {"locked", "mint"}
    BY <1>2, UnlockedAssumption DEF AcquireTokenLock, LockIsHeld
  <2> QED BY <1>2, <2>1, <2>2, CallerMoves DEF AcquireTokenLock, TokenTypes
<1>3. ASSUME NEW c \in TokenCallers, Recheck(c) PROVE TokenInv'
  <2> DEFINE i == caller[c].inst
  <2>0. i \in TokenInstalls /\ tokenLock = c
    BY <1>3 DEF Recheck, TokenTypes, LockIsHeld
  <2>1. CASE CacheIsFresh(i)
    <3> DEFINE r == [pc |-> "using", inst |-> i, token |-> tokenCache[i]]
    <3>1. r.token + TokenLife > quarter
      BY <1>0, <2>0, <2>1, TokenAssumption DEF CacheIsFresh
    <3>2. /\ caller' = [caller EXCEPT ![c] = r] /\ tokenLock' = Unlocked
          /\ UNCHANGED <<quarter, tokenCache, minted>>
      BY <1>3, <2>1 DEF Recheck, HandOut, FreshUnderLock
    <3>3. \A d \in TokenCallers \ {c} : caller[d].pc \notin {"locked", "mint"}
      BY <2>0 DEF LockIsHeld
    <3> QED BY <1>0, <2>0, <3>1, <3>2, <3>3, CallerMoves
  <2>2. CASE ~CacheIsFresh(i)
    <3> DEFINE r == [caller[c] EXCEPT !.pc = "mint"]
    <3>1. caller' = [caller EXCEPT ![c] = r] /\ UNCHANGED <<quarter, tokenCache, tokenLock, minted>>
      BY <1>3, <2>2 DEF Recheck, FreshUnderLock, TokenTypes
    <3> QED BY <2>0, <2>2, <3>1, CallerMoves DEF TokenTypes
  <2> QED BY <2>1, <2>2
<1>4. ASSUME NEW c \in TokenCallers, _mint_installation_token(c) PROVE TokenInv'
  <2>0. tokenLock = c /\ caller[c].pc = "mint"
    BY <1>4 DEF _mint_installation_token, LockIsHeld
  <2>1. CASE caller' = [caller EXCEPT ![c] = IdleCaller] /\ UNCHANGED <<tokenCache, minted>>
    <3>1. UNCHANGED quarter /\ tokenLock' = Unlocked
      BY <1>4 DEF _mint_installation_token
    <3>2. \A d \in TokenCallers \ {c} : caller[d].pc \notin {"locked", "mint"}
      BY <2>0 DEF LockIsHeld
    <3> QED BY <2>1, <3>1, <3>2, CallerMoves DEF IdleCaller, NotCached
  <2>2. CASE ~(caller' = [caller EXCEPT ![c] = IdleCaller] /\ UNCHANGED <<tokenCache, minted>>)
    BY <1>4, <2>0, <2>2, MintIsCounted DEF _mint_installation_token, HandOut, MintsOf
  <2> QED BY <2>1, <2>2
<1>5. ASSUME NEW c \in TokenCallers, _request(c) PROVE TokenInv'
  BY <1>5, CallerMoves DEF _request, IdleCaller, NotCached, TokenTypes
<1>6. CASE clear_installation_token_cache
  <2>1. TokenTypes'
    BY <1>6, FS_EmptySet DEF clear_installation_token_cache, TokenTypes, NotCached
  <2>2. LockIsHeld' /\ MintIsDue' /\ CacheIsLast' /\ OneLiveToken'
    BY <1>6 DEF clear_installation_token_cache, LockIsHeld, MintIsDue, CacheIsLast, OneLiveToken
  <2> QED BY <2>1, <2>2
<1>7. CASE QuarterEnds
  <2>1. TokenTypes'
    BY <1>7 DEF QuarterEnds, TokenTypes
  <2>2. LockIsHeld' /\ MintIsDue' /\ OneLiveToken'
    BY <1>7 DEF QuarterEnds, LockIsHeld, MintIsDue, OneLiveToken
  <2>3. CacheIsLast'
    BY <1>7 DEF QuarterEnds, CacheIsLast, MintsOf
  <2> QED BY <2>1, <2>2, <2>3
<1>8. CASE UNCHANGED tokenVars
  BY <1>8 DEF tokenVars, TokenTypes, LockIsHeld, MintIsDue, CacheIsLast, OneLiveToken, CacheIsFresh, MintsOf
<1> QED BY <1>1, <1>2, <1>3, <1>4, <1>5, <1>6, <1>7, <1>8 DEF TokenNext, CallerStep

\* For any number of requests and installations, and whatever the cached life of
\* a token: no two mints of an installation fall into one cached life, and a
\* token is good while it is used (get_installation_token of app_auth.py).
THEOREM TokensLive == TokenSpec => []OneLiveToken
<1>1. TokenInv => OneLiveToken
  BY DEF TokenInv
<1> QED BY <1>1, TokenStarts, TokenSteps, PTL DEF TokenSpec
-----------------------------------------------------------------------------
(* Documents.  Every transaction that writes a revision also points the    *)
(* row to it, and every transaction that removes the row removes them all. *)

Contents == Versions \cup {NoContent}
DocRow   == [exists: BOOLEAN, hash: Contents, chunk_count: Nat, draft: Nat]
Revision == [status: {"draft", "superseded"}, origin: {"manual", "restore"}, seen: Nat]
FileState == [pc: {"idle", "fetch", "check", "upsert", "clear", "store", "gone", "drop"},
              kind: {"none", "sync", "refresh"}, content: Contents]
Base     == [path: DocPaths \cup {"none"}, hash: Contents, draft: Nat]

DocTypes ==
  /\ source \in [DocPaths -> Contents]
  /\ doc \in [DocPaths -> DocRow]
  /\ revs \in [DocPaths -> Seq(Revision)]
  /\ file \in [SyncJobs -> [DocPaths -> FileState]]
  /\ editor \in [Editors -> Base]
  /\ \A e \in Editors : editor[e] # NoEdit => editor[e].path \in DocPaths

DocInv == DocTypes /\ EditsAreNotLost

LEMMA DocStarts == DocInit => DocInv
<1> SUFFICES ASSUME DocInit PROVE DocInv
  OBVIOUS
<1>1. NoDoc \in DocRow /\ NoFile \in FileState /\ NoEdit \in Base
  BY DEF NoDoc, DocRow, NoFile, FileState, NoEdit, Base, Contents
<1>2. DocTypes
  BY <1>1 DEF DocInit, DocTypes, Contents
<1>3. EditsAreNotLost
  BY DEF DocInit, EditsAreNotLost, NoDoc
<1> QED BY <1>2, <1>3 DEF DocInv

\* _insert_revision numbers the new revision by the ones that are there, and of
\* those it supersedes the one the row pointed to.
LEMMA InsertKeepsEdits ==
  ASSUME DocInv, NEW p \in DocPaths, NEW seen \in Nat, NEW origin \in {"manual", "restore"},
         origin = "manual" /\ seen # 0 => seen = doc[p].draft,
         _insert_revision(p, seen, origin)
  PROVE  /\ doc' \in [DocPaths -> DocRow] /\ revs' \in [DocPaths -> Seq(Revision)]
         /\ EditsAreNotLost'
<1> DEFINE s   == revs[p]
           n   == Len(s)
           old == [i \in DOMAIN s |-> IF i = doc[p].draft THEN [s[i] EXCEPT !.status = "superseded"] ELSE s[i]]
           new == [status |-> "draft", origin |-> origin, seen |-> seen]
<1>1. s \in Seq(Revision) /\ n \in Nat /\ DOMAIN s = 1..n /\ doc[p] \in DocRow /\ doc[p].draft = n
  BY DEF DocInv, DocTypes, EditsAreNotLost
<1>2. \A i \in 1..n : s[i] \in Revision
  BY <1>1
<1>3. \A i \in 1..n : [s[i] EXCEPT !.status = "superseded"] \in Revision
  BY <1>2 DEF Revision
<1>4. old \in Seq(Revision) /\ Len(old) = n /\ DOMAIN old = 1..n
  BY <1>1, <1>2, <1>3
<1>5. new \in Revision
  BY DEF Revision
<1>6. /\ Append(old, new) \in Seq(Revision) /\ Len(Append(old, new)) = n + 1
      /\ Append(old, new)[n + 1] = new /\ \A i \in 1..n : Append(old, new)[i] = old[i]
  BY <1>1, <1>4, <1>5
<1>7. /\ revs' = [revs EXCEPT ![p] = Append(old, new)]
      /\ doc' = [doc EXCEPT ![p] = [doc[p] EXCEPT !.draft = n + 1]]
  BY <1>1 DEF _insert_revision
<1>8. doc' \in [DocPaths -> DocRow] /\ revs' \in [DocPaths -> Seq(Revision)]
  <2>1. [doc[p] EXCEPT !.draft = n + 1] \in DocRow
    BY <1>1 DEF DocRow
  <2> QED BY <1>6, <1>7, <2>1 DEF DocInv, DocTypes
<1>9. revs'[p] = Append(old, new) /\ doc'[p].draft = n + 1
  BY <1>1, <1>7 DEF DocInv, DocTypes, DocRow
<1>10. /\ DOMAIN revs'[p] = 1..(n + 1)
       /\ revs'[p][n + 1] = new
       /\ \A i \in 1..n : revs'[p][i].seen = s[i].seen /\ revs'[p][i].origin = s[i].origin
                          /\ revs'[p][i].status = "superseded"
  <2>1. DOMAIN Append(old, new) = 1..(n + 1)
    BY <1>4, <1>5, <1>6, <1>1
  <2>2. \A i \in 1..n : s[i].status = "superseded" \/ i = n
    BY <1>1, <1>2 DEF DocInv, EditsAreNotLost, Revision
  <2>3. \A i \in 1..n : old[i].seen = s[i].seen /\ old[i].origin = s[i].origin /\ old[i].status = "superseded"
    BY <1>1, <1>2, <2>2 DEF Revision
  <2> HIDE DEF old, new, s, n
  <2> QED BY <1>6, <1>9, <2>1, <2>3
<1>11. EditsAreNotLost'
  <2> SUFFICES ASSUME NEW q \in DocPaths
               PROVE  /\ doc'[q].draft = Len(revs'[q])
                      /\ \A i \in DOMAIN revs'[q] : revs'[q][i].status = "draft" <=> i = doc'[q].draft
                      /\ \A i \in DOMAIN revs'[q] : revs'[q][i].origin = "manual" /\ revs'[q][i].seen # 0
                                                      => revs'[q][i].seen = i - 1
    BY DEF EditsAreNotLost
  <2>1. CASE q # p
    <3>1. doc'[q] = doc[q] /\ revs'[q] = revs[q]
      BY <1>7, <2>1 DEF DocInv, DocTypes
    <3> QED BY <3>1 DEF DocInv, EditsAreNotLost
  <2>2. CASE q = p
    <3>1. doc'[p].draft = Len(revs'[p])
      BY <1>6, <1>9
    <3>2. \A i \in DOMAIN revs'[p] : revs'[p][i].status = "draft" <=> i = doc'[p].draft
      BY <1>1, <1>9, <1>10
    <3>3. \A i \in 1..n : s[i].origin = "manual" /\ s[i].seen # 0 => s[i].seen = i - 1
      BY <1>1 DEF DocInv, EditsAreNotLost
    <3>4. \A i \in DOMAIN revs'[p] : revs'[p][i].origin = "manual" /\ revs'[p][i].seen # 0
                                       => revs'[p][i].seen = i - 1
      <4> SUFFICES ASSUME NEW i \in DOMAIN revs'[p], revs'[p][i].origin = "manual", revs'[p][i].seen # 0
                   PROVE  revs'[p][i].seen = i - 1
        OBVIOUS
      <4>1. CASE i = n + 1
        <5>1. origin = "manual" /\ seen # 0
          BY <1>10, <4>1
        <5> QED BY <1>1, <1>10, <4>1, <5>1
      <4>2. CASE i \in 1..n
        <5> HIDE DEF s, n
        <5> QED BY <1>10, <3>3, <4>2
      <4> HIDE DEF n
      <4> QED BY <1>1, <1>10, <4>1, <4>2
    <3> QED BY <2>2, <3>1, <3>2, <3>4
  <2> QED BY <2>1, <2>2
<1> QED BY <1>8, <1>11

\* The steps that leave every draft pointer and every revision as they were.
LEMMA EditsUntouched ==
  ASSUME EditsAreNotLost, UNCHANGED revs, \A p \in DocPaths : doc'[p].draft = doc[p].draft
  PROVE  EditsAreNotLost'
BY DEF EditsAreNotLost

\* A worker's file moves on.
LEMMA FileMoves ==
  ASSUME DocInv, NEW j \in SyncJobs, NEW p \in DocPaths, NEW r \in FileState,
         file' = [file EXCEPT ![j][p] = r]
  PROVE  file' \in [SyncJobs -> [DocPaths -> FileState]]
BY DEF DocInv, DocTypes

LEMMA DocSteps == DocInv /\ [DocNext]_docVars => DocInv'
<1> SUFFICES ASSUME DocInv, [DocNext]_docVars PROVE DocInv'
  OBVIOUS
<1>0. DocTypes /\ EditsAreNotLost
  BY DEF DocInv
<1>a. NoFile \in FileState /\ NoEdit \in Base /\ NoDoc \in DocRow
  BY DEF NoDoc, DocRow, NoFile, FileState, NoEdit, Base, Contents
<1>1. ASSUME NEW p \in DocPaths, SourceChanges(p) PROVE DocInv'
  <2>1. source' \in [DocPaths -> Contents]
    BY <1>0, <1>1 DEF SourceChanges, DocTypes, Contents
  <2>2. EditsAreNotLost'
    BY <1>0, <1>1, EditsUntouched DEF SourceChanges
  <2> QED BY <1>0, <1>1, <2>1, <2>2 DEF SourceChanges, DocTypes, DocInv
<1>2. ASSUME NEW p \in DocPaths, restore_revision(p) PROVE DocInv'
  <2>1. PICK i \in DOMAIN revs[p] : _insert_revision(p, i, "restore")
    BY <1>2 DEF restore_revision
  <2>2. i \in Nat
    BY <1>0 DEF DocTypes
  <2>3. /\ doc' \in [DocPaths -> DocRow] /\ revs' \in [DocPaths -> Seq(Revision)]
        /\ EditsAreNotLost'
    BY <2>1, <2>2, InsertKeepsEdits
  <2> QED BY <1>0, <1>2, <2>3 DEF restore_revision, DocTypes, DocInv
<1>3. ASSUME NEW j \in SyncJobs, NEW kind \in {"sync", "refresh"}, SyncStarts(j, kind) PROVE DocInv'
  <2>1. [NoFile EXCEPT !.pc = "fetch", !.kind = kind] \in FileState
    BY DEF NoFile, FileState, Contents
  <2>2. file' \in [SyncJobs -> [DocPaths -> FileState]]
    BY <1>0, <1>3, <2>1 DEF SyncStarts, DocTypes
  <2>3. EditsAreNotLost'
    BY <1>0, <1>3, EditsUntouched DEF SyncStarts
  <2> QED BY <1>0, <1>3, <2>2, <2>3 DEF SyncStarts, DocTypes, DocInv
<1>4. ASSUME NEW j \in SyncJobs, NEW p \in DocPaths, SyncStep(j, p) PROVE DocInv'
  <2>0. file[j][p] \in FileState /\ source[p] \in Contents /\ doc[p] \in DocRow
    BY <1>0 DEF DocTypes
  <2>b. \A r \in FileState : /\ \A pc \in {"upsert", "clear", "store", "gone", "drop"} : [r EXCEPT !.pc = pc] \in FileState
                             /\ \A c \in Contents : [r EXCEPT !.pc = "check", !.content = c] \in FileState
    BY DEF FileState
  <2>1. CASE FileFetched(j, p)
    <3>1. PICK c \in IF file[j][p].kind = "refresh" THEN _extract_with_retry(p) ELSE {source[p]} :
            file' = [file EXCEPT ![j][p] =
                       IF c # NoContent THEN [@ EXCEPT !.pc = "check", !.content = c]
                       ELSE IF @.kind = "refresh" THEN [@ EXCEPT !.pc = "gone"] ELSE NoFile]
      BY <2>1 DEF FileFetched
    <3> DEFINE r == IF c # NoContent THEN [file[j][p] EXCEPT !.pc = "check", !.content = c]
                    ELSE IF file[j][p].kind = "refresh" THEN [file[j][p] EXCEPT !.pc = "gone"] ELSE NoFile
    <3>2. c \in Contents
      BY <2>0 DEF _extract_with_retry, Contents
    <3>3. r \in FileState
      BY <1>a, <2>0, <2>b, <3>2
    <3>4. file' = [file EXCEPT ![j][p] = r]
      BY <3>1
    <3>5. file' \in [SyncJobs -> [DocPaths -> FileState]]
      BY <3>3, <3>4, FileMoves
    <3>6. EditsAreNotLost'
      BY <1>0, <2>1, EditsUntouched DEF FileFetched
    <3> QED BY <1>0, <2>1, <3>5, <3>6 DEF FileFetched, DocTypes, DocInv
  <2>2. CASE HashCheck(j, p)
    <3>1. file' = [file EXCEPT ![j][p] = NoFile] \/ file' = [file EXCEPT ![j][p] = [file[j][p] EXCEPT !.pc = "upsert"]]
      BY <2>2, <1>0 DEF HashCheck, FileDone, Becomes, DocTypes
    <3>2. file' \in [SyncJobs -> [DocPaths -> FileState]]
      BY <1>a, <2>0, <2>b, <3>1, FileMoves
    <3>3. EditsAreNotLost'
      BY <1>0, <2>2, EditsUntouched DEF HashCheck
    <3> QED BY <1>0, <2>2, <3>2, <3>3 DEF HashCheck, DocTypes, DocInv
  <2>3. CASE upsert_document(j, p)
    <3>1. file' = [file EXCEPT ![j][p] = NoFile] \/ file' = [file EXCEPT ![j][p] = [file[j][p] EXCEPT !.pc = "clear"]]
      BY <2>3, <1>0 DEF upsert_document, FileDone, Becomes, DocTypes
    <3>2. file' \in [SyncJobs -> [DocPaths -> FileState]]
      BY <1>a, <2>0, <2>b, <3>1, FileMoves
    <3>3. PICK k \in Nat, c \in Contents : doc' = [doc EXCEPT ![p] = [doc[p] EXCEPT !.exists = TRUE, !.hash = c, !.chunk_count = k]]
      BY <1>0, <2>0, <2>3 DEF upsert_document, chunk_document, DocTypes, FileState
    <3>4. [doc[p] EXCEPT !.exists = TRUE, !.hash = c, !.chunk_count = k] \in DocRow
      BY <2>0 DEF DocRow
    <3>5. doc' \in [DocPaths -> DocRow]
      BY <1>0, <3>3, <3>4 DEF DocTypes
    <3>6. [doc[p] EXCEPT !.exists = TRUE, !.hash = c, !.chunk_count = k].draft = doc[p].draft
      BY <2>0 DEF DocRow
    <3>7. \A q \in DocPaths : doc'[q].draft = doc[q].draft
      BY <1>0, <3>3, <3>6 DEF DocTypes
    <3>8. EditsAreNotLost'
      BY <1>0, <2>3, <3>7, EditsUntouched DEF upsert_document
    <3> QED BY <1>0, <2>3, <3>2, <3>5, <3>8 DEF upsert_document, DocTypes, DocInv
  <2>4. CASE delete_by_metadata(j, p)
    <3>1. file' = [file EXCEPT ![j][p] = [file[j][p] EXCEPT !.pc = "store"]]
      BY <2>4, <1>0 DEF delete_by_metadata, Becomes, DocTypes
    <3>2. file' \in [SyncJobs -> [DocPaths -> FileState]]
      BY <2>0, <2>b, <3>1, FileMoves
    <3>3. EditsAreNotLost'
      BY <1>0, <2>4, EditsUntouched DEF delete_by_metadata
    <3> QED BY <1>0, <2>4, <3>2, <3>3 DEF delete_by_metadata, DocTypes, DocInv
  <2>5. CASE store_batch(j, p) \/ FileFails(j, p)
    <3>1. file' = [file EXCEPT ![j][p] = NoFile] /\ UNCHANGED <<source, doc, revs, editor>>
      BY <2>5 DEF store_batch, FileFails, FileDone
    <3>2. file' \in [SyncJobs -> [DocPaths -> FileState]]
      BY <1>a, <3>1, FileMoves
    <3>3. EditsAreNotLost'
      BY <1>0, <3>1, EditsUntouched
    <3> QED BY <1>0, <3>1, <3>2, <3>3 DEF DocTypes, DocInv
  <2>6. CASE RefreshClears(j, p)
    <3>1. file' = [file EXCEPT ![j][p] = NoFile] \/ file' = [file EXCEPT ![j][p] = [file[j][p] EXCEPT !.pc = "drop"]]
      BY <2>6, <1>0 DEF RefreshClears, FileDone, Becomes, DocTypes
    <3>2. file' \in [SyncJobs -> [DocPaths -> FileState]]
      BY <1>a, <2>0, <2>b, <3>1, FileMoves
    <3>3. EditsAreNotLost'
      BY <1>0, <2>6, EditsUntouched DEF RefreshClears
    <3> QED BY <1>0, <2>6, <3>2, <3>3 DEF RefreshClears, DocTypes, DocInv
  <2>7. CASE RefreshDrops(j, p)
    <3>1. file' = [file EXCEPT ![j][p] = NoFile] /\ UNCHANGED <<source, editor>>
      BY <2>7 DEF RefreshDrops, FileDone
    <3>2. file' \in [SyncJobs -> [DocPaths -> FileState]]
      BY <1>a, <3>1, FileMoves
    <3>3. doc' \in [DocPaths -> DocRow] /\ revs' \in [DocPaths -> Seq(Revision)]
      BY <1>0, <1>a, <2>7 DEF RefreshDrops, DocTypes
    <3>4. EditsAreNotLost'
      <4> SUFFICES ASSUME NEW q \in DocPaths
                   PROVE  /\ doc'[q].draft = Len(revs'[q])
                          /\ \A i \in DOMAIN revs'[q] : revs'[q][i].status = "draft" <=> i = doc'[q].draft
                          /\ \A i \in DOMAIN revs'[q] : revs'[q][i].origin = "manual" /\ revs'[q][i].seen # 0
                                                          => revs'[q][i].seen = i - 1
        BY DEF EditsAreNotLost
      <4>1. CASE q = p
        <5>1. doc'[q] = NoDoc /\ revs'[q] = <<>>
          BY <1>0, <2>7, <4>1 DEF RefreshDrops, DocTypes
        <5> QED BY <5>1 DEF NoDoc
      <4>2. CASE q # p
        <5>1. doc'[q] = doc[q] /\ revs'[q] = revs[q]
          BY <1>0, <2>7, <4>2 DEF RefreshDrops, DocTypes
        <5> QED BY <1>0, <5>1 DEF EditsAreNotLost
      <4> QED BY <4>1, <4>2
    <3> QED BY <1>0, <3>1, <3>2, <3>3, <3>4 DEF DocTypes, DocInv
  <2> QED BY <1>4, <2>1, <2>2, <2>3, <2>4, <2>5, <2>6, <2>7 DEF SyncStep
<1>5. ASSUME NEW e \in Editors, create_draft(e) PROVE DocInv'
  <2> DEFINE p == editor[e].path
  <2>0. PICK hash \in BOOLEAN, base \in {editor[e].draft, 0} :
           IF doc[p].exists /\ _validate_base(e, hash, base) THEN _insert_revision(p, base, "manual")
           ELSE UNCHANGED <<doc, revs>>
    BY <1>5 DEF create_draft
  <2>5. editor[e] # NoEdit /\ editor' = [editor EXCEPT ![e] = NoEdit] /\ UNCHANGED <<source, index, file, skipped>>
    BY <1>5 DEF create_draft
  <2>1. p \in DocPaths /\ editor[e] \in Base /\ editor[e].draft \in Nat /\ base \in Nat
    BY <1>0, <2>5 DEF DocTypes, Base
  <2>2. editor' \in [Editors -> Base] /\ \A x \in Editors : editor'[x] # NoEdit => editor'[x].path \in DocPaths
    BY <1>0, <1>a, <2>5 DEF DocTypes
  <2>3. CASE doc[p].exists /\ _validate_base(e, hash, base)
    <3>1. _insert_revision(p, base, "manual")
      BY <2>0, <2>3
    <3>2. base # 0 => base = doc[p].draft
      BY <2>3 DEF _validate_base
    <3>3. /\ doc' \in [DocPaths -> DocRow] /\ revs' \in [DocPaths -> Seq(Revision)]
          /\ EditsAreNotLost'
      BY <2>1, <3>1, <3>2, InsertKeepsEdits
    <3> QED BY <1>0, <2>2, <2>5, <3>3 DEF DocTypes, DocInv
  <2>4. CASE ~(doc[p].exists /\ _validate_base(e, hash, base))
    <3>1. UNCHANGED <<source, doc, revs, file>>
      BY <2>0, <2>4, <2>5
    <3>2. EditsAreNotLost'
      BY <1>0, <3>1, EditsUntouched
    <3> QED BY <1>0, <2>2, <3>1, <3>2 DEF DocTypes, DocInv
  <2> QED BY <2>3, <2>4
<1>6. ASSUME NEW e \in Editors, NEW p \in DocPaths, EditorReads(e, p) PROVE DocInv'
  <2>1. [path |-> p, hash |-> doc[p].hash, draft |-> doc[p].draft] \in Base
    BY <1>0 DEF DocTypes, DocRow, Base
  <2>2. editor' \in [Editors -> Base] /\ \A x \in Editors : editor'[x] # NoEdit => editor'[x].path \in DocPaths
    BY <1>0, <1>6, <2>1 DEF EditorReads, DocTypes
  <2>3. EditsAreNotLost'
    BY <1>0, <1>6, EditsUntouched DEF EditorReads
  <2> QED BY <1>0, <1>6, <2>2, <2>3 DEF EditorReads, DocTypes, DocInv
<1>7. CASE UNCHANGED docVars
  BY <1>0, <1>7 DEF docVars, DocTypes, DocInv, EditsAreNotLost
<1> QED BY <1>1, <1>2, <1>3, <1>4, <1>5, <1>6, <1>7 DEF DocNext

\* For any number of jobs, editors and revisions: a document points to its last
\* revision, the only one not superseded, and an edit made on top of a draft
\* replaced that very draft (document_revisions.py against a sync, a refresh and
\* other editors).
THEOREM EditsKept == DocSpec => []EditsAreNotLost
<1>1. DocInv => EditsAreNotLost
  BY DEF DocInv
<1> QED BY <1>1, DocStarts, DocSteps, PTL DEF DocSpec
-----------------------------------------------------------------------------
(* Content packages.  A request that is about to write the status has its  *)
(* event on record, events are never removed, and a graph that delivered   *)
(* has nothing left to do.                                                 *)

ReviewRequest == [pc: {"new", "revise", "event", "status", "done", "failed"},
                  decision: {"none", "approve", "reject", "request_changes"}, number: Nat]

Generation == [pc: {"new", "revision", "variants", "gate", "delivered", "done", "failed"}, at: Nat,
               kind: GenerationKinds, answer: {"none", "approve", "reject"}]

ContentTypes ==
  /\ revisionRows \in Seq(Generations \cup ContentReviews)
  /\ rev \in [ContentReviews -> ReviewRequest]
  /\ gen \in [Generations -> Generation]

\* The event of a request is there before its status is written.
EventFirst == \A r \in ContentReviews : rev[r].pc = "status" => <<r, rev[r].decision>> \in decisions

ContentInv == ContentTypes /\ EventFirst /\ DecisionHasAuthor

LEMMA ContentStarts == ContentInit => ContentInv
<1> SUFFICES ASSUME ContentInit PROVE ContentInv
  OBVIOUS
<1>1. gen \in [Generations -> Generation]
  BY DEF ContentInit, ContentInitFor, Generation
<1>2. rev \in [ContentReviews -> ReviewRequest] /\ revisionRows \in Seq(Generations \cup ContentReviews)
  BY DEF ContentInit, ContentInitFor, ReviewRequest
<1>3. EventFirst /\ DecisionHasAuthor
  BY DEF ContentInit, ContentInitFor, EventFirst, DecisionHasAuthor
<1> QED BY <1>1, <1>2, <1>3 DEF ContentInv, ContentTypes

\* What a generation does to the package, and to its own progress.
LEMMA GenerationMoves ==
  ASSUME ContentTypes, NEW g \in Generations, GenerationStep(g)
  PROVE  /\ UNCHANGED <<decisions, rev>>
         /\ revisionRows' = revisionRows \/ revisionRows' = Append(revisionRows, g)
         /\ gen' \in [Generations -> Generation]
         /\ \A h \in Generations : LetThrough(h) => LetThrough(h)'
         /\ \/ pkg' = pkg \/ pkg' \in {"draft", "in_review"}
            \/ pkg' = "approved" /\ LetThrough(g)'
<1>0. gen[g] \in Generation /\ gen \in [Generations -> Generation]
  BY DEF ContentTypes
<1>1. CASE \E pc \in {"revision", "variants", "done", "gate", "failed"} : GenStep(g, pc) /\ gen[g].pc # "delivered"
  <2>1. PICK pc \in {"revision", "variants", "done", "gate", "failed"} : GenStep(g, pc) /\ gen[g].pc # "delivered"
    BY <1>1
  <2>2. gen' \in [Generations -> Generation]
    BY <1>0, <2>1 DEF GenStep, Generation
  <2>3. \A h \in Generations : LetThrough(h) => LetThrough(h)'
    BY <1>0, <2>1 DEF GenStep, LetThrough
  <2>4. ~save_variant(g) /\ ~AnswerGate(g) /\ ~ContentApproval(g)
    <3>1. gen'[g].pc = pc /\ gen'[g].at = gen[g].at /\ gen'[g].answer = gen[g].answer
      BY <1>0, <2>1 DEF GenStep, Generation
    <3>2. gen[g].at \in Nat
      BY <1>0 DEF Generation
    <3>3. save_variant(g) => gen'[g].at = gen[g].at + 1
      BY <1>0 DEF save_variant, Generation
    <3>4. AnswerGate(g) => gen'[g].answer # gen[g].answer
      BY <1>0 DEF AnswerGate, Generation
    <3>5. ContentApproval(g) => gen'[g].pc = "delivered"
      BY <1>0 DEF ContentApproval, Deliver, GenStep, Generation
    <3> QED BY <3>1, <3>2, <3>3, <3>4, <3>5
  <2> QED
    BY <2>2, <2>3, <2>4 DEF GenerationStep, CreatePackage, create_or_get, CreateRevision, save_revision, ReviewReady,
                            update_status, GenerationFails
<1>2. CASE save_variant(g)
  <2>1. gen' = [gen EXCEPT ![g].at = gen[g].at + 1] /\ gen[g].at + 1 \in Nat
    BY <1>0, <1>2 DEF save_variant, Generation
  <2>2. gen' \in [Generations -> Generation]
    BY <1>0, <2>1 DEF Generation
  <2>3. \A h \in Generations : LetThrough(h) => LetThrough(h)'
    BY <1>0, <2>1 DEF LetThrough
  <2> QED BY <1>2, <2>2, <2>3 DEF save_variant
<1>3. CASE AnswerGate(g)
  <2>1. PICK a \in {"approve", "reject"} : gen' = [gen EXCEPT ![g].answer = a]
    BY <1>3 DEF AnswerGate
  <2>2. gen' \in [Generations -> Generation]
    BY <1>0, <2>1 DEF Generation
  <2>3. \A h \in Generations : LetThrough(h) => LetThrough(h)'
    BY <1>0, <1>3, <2>1 DEF AnswerGate, LetThrough
  <2> QED BY <1>3, <2>2, <2>3 DEF AnswerGate
<1>4. CASE ContentApproval(g)
  <2>1. gen' = [gen EXCEPT ![g].pc = "delivered"] /\ (gen[g].kind = "gated" => gen[g].answer = "approve")
    BY <1>4 DEF ContentApproval, Deliver, GenStep
  <2>2. gen' \in [Generations -> Generation]
    BY <1>0, <2>1 DEF Generation
  <2>3. LetThrough(g)'
    BY <1>0, <2>1 DEF LetThrough, Generation
  <2>4. \A h \in Generations : LetThrough(h) => LetThrough(h)'
    BY <1>0, <2>1, <2>3 DEF LetThrough
  <2> QED BY <1>4, <2>2, <2>3, <2>4 DEF ContentApproval, Deliver, update_status
<1> QED
  BY <1>1, <1>2, <1>3, <1>4 DEF GenerationStep, CreatePackage, CreateRevision, ReviewReady, GenerationFails

LEMMA ContentSteps == ContentInv /\ [ContentNext]_contentVars => ContentInv'
<1> SUFFICES ASSUME ContentInv, [ContentNext]_contentVars PROVE ContentInv'
  OBVIOUS
<1>0. ContentTypes /\ EventFirst /\ DecisionHasAuthor
  BY DEF ContentInv
<1>1. ASSUME NEW g \in Generations, GenerationStep(g) PROVE ContentInv'
  <2>1. /\ UNCHANGED <<decisions, rev>>
        /\ revisionRows' = revisionRows \/ revisionRows' = Append(revisionRows, g)
        /\ gen' \in [Generations -> Generation]
        /\ \A h \in Generations : LetThrough(h) => LetThrough(h)'
        /\ \/ pkg' = pkg \/ pkg' \in {"draft", "in_review"}
           \/ pkg' = "approved" /\ LetThrough(g)'
    BY <1>0, <1>1, GenerationMoves
  <2>2. ContentTypes'
    BY <1>0, <2>1 DEF ContentTypes
  <2>3. EventFirst'
    BY <1>0, <2>1 DEF EventFirst
  <2>4. DecisionHasAuthor'
    BY <1>0, <2>1 DEF DecisionHasAuthor
  <2> QED BY <2>2, <2>3, <2>4 DEF ContentInv
<1>2. ASSUME NEW r \in ContentReviews, ReviewStep(r) PROVE ContentInv'
  <2>0. rev[r] \in ReviewRequest
    BY <1>0 DEF ContentTypes
  <2>5. gen' = gen /\ \A h \in Generations : LetThrough(h) <=> LetThrough(h)'
    BY <1>2 DEF ReviewStep, review_content, RequestRevision, append_review_event, Decide, RequestEnds, LetThrough
  <2>1. CASE review_content(r)
    <3>1. PICK d \in {"approve", "reject", "request_changes"} :
            rev' = [rev EXCEPT ![r] = [pc |-> IF d = "request_changes" THEN "revise" ELSE "event",
                                       decision |-> d, number |-> Len(revisionRows) + 1]]
      BY <2>1 DEF review_content
    <3>2. Len(revisionRows) + 1 \in Nat
      BY <1>0 DEF ContentTypes
    <3>3. [pc |-> IF d = "request_changes" THEN "revise" ELSE "event",
           decision |-> d, number |-> Len(revisionRows) + 1] \in ReviewRequest
      BY <3>2 DEF ReviewRequest
    <3>4. ContentTypes'
      BY <1>0, <2>5, <2>1, <3>1, <3>3 DEF review_content, ContentTypes
    <3>5. EventFirst' /\ DecisionHasAuthor'
      BY <1>0, <2>5, <2>1, <3>1 DEF review_content, EventFirst, DecisionHasAuthor, ContentTypes
    <3> QED BY <3>4, <3>5 DEF ContentInv
  <2>2. CASE RequestRevision(r) \/ RequestEnds(r)
    <3>1. PICK pc \in {"event", "failed"} : rev' = [rev EXCEPT ![r].pc = pc]
      BY <2>2 DEF RequestRevision, RequestEnds
    <3>2. revisionRows' = revisionRows \/ revisionRows' = Append(revisionRows, r)
      BY <2>2 DEF RequestRevision, RequestEnds, save_revision
    <3>3. UNCHANGED <<pkg, decisions>>
      BY <2>2 DEF RequestRevision, RequestEnds
    <3>4. ContentTypes'
      <4>1. [rev[r] EXCEPT !.pc = pc] \in ReviewRequest
        BY <2>0 DEF ReviewRequest
      <4>2. rev' \in [ContentReviews -> ReviewRequest]
        BY <1>0, <2>5, <3>1, <4>1 DEF ContentTypes
      <4>3. revisionRows' \in Seq(Generations \cup ContentReviews)
        BY <1>0, <2>5, <3>2 DEF ContentTypes
      <4> QED BY <1>0, <2>5, <4>2, <4>3 DEF ContentTypes
    <3>5. EventFirst' /\ DecisionHasAuthor'
      BY <1>0, <2>5, <2>0, <3>1, <3>3 DEF EventFirst, DecisionHasAuthor, ContentTypes, ReviewRequest
    <3> QED BY <3>4, <3>5 DEF ContentInv
  <2>3. CASE append_review_event(r)
    <3>1. ContentTypes'
      BY <1>0, <2>5, <2>3 DEF append_review_event, ContentTypes, ReviewRequest
    <3>2. EventFirst' /\ DecisionHasAuthor'
      BY <1>0, <2>5, <2>0, <2>3 DEF append_review_event, EventFirst, DecisionHasAuthor, ContentTypes, ReviewRequest
    <3> QED BY <3>1, <3>2 DEF ContentInv
  <2>4. CASE Decide(r)
    <3>1. ContentTypes'
      BY <1>0, <2>5, <2>4 DEF Decide, ContentTypes, ReviewRequest
    <3>2. EventFirst'
      BY <1>0, <2>5, <2>0, <2>4 DEF Decide, EventFirst, ContentTypes, ReviewRequest
    <3>3. DecisionHasAuthor'
      <4>1. <<r, rev[r].decision>> \in decisions
        BY <1>0, <2>5, <2>4 DEF Decide, EventFirst
      <4>2. pkg' = pkg \/ pkg' = StatusOf(rev[r].decision)
        BY <2>4 DEF Decide, update_status
      <4>3. decisions' = decisions
        BY <2>4 DEF Decide
      <4> QED BY <1>0, <2>5, <4>1, <4>2, <4>3 DEF DecisionHasAuthor
    <3> QED BY <3>1, <3>2, <3>3 DEF ContentInv
  <2> QED BY <1>2, <2>1, <2>2, <2>3, <2>4 DEF ReviewStep
<1>3. CASE UNCHANGED contentVars
  BY <1>0, <1>3 DEF contentVars, ContentInv, ContentTypes, EventFirst, DecisionHasAuthor, LetThrough
<1> QED BY <1>1, <1>2, <1>3 DEF ContentNext

\* For any number of generations and reviews that overlap or end half way, a
\* package that says approved or rejected was decided so by a review of the route,
\* whose event is kept, or approved at the gate of a graph that delivered it
\* (review_content of app/api/routes/content.py, ContentApprovalNode).
THEOREM DecisionsHaveAuthors == ContentSpec => []DecisionHasAuthor
<1>1. ContentInv => DecisionHasAuthor
  BY DEF ContentInv
<1> QED BY <1>1, ContentStarts, ContentSteps, PTL DEF ContentSpec

-----------------------------------------------------------------------------
(* Onboarding.  A run id is answered in the step that makes its jobs row,  *)
(* and no step takes the row away.  What must be shown is that the id is   *)
(* one at all: a resumed run is the one the row's selection names, which   *)
(* other requests and pipelines write back from what they read earlier.    *)

States == {StateOf[op] : op \in SetupOps} \cup {"NOT_STARTED", "INITIALIZING", "COMPLETED", "FAILED"}
MaybeRun == InitRuns \cup {NoInitRun}
Selections == [installed: BOOLEAN, repo: BOOLEAN, source: {"github", "public"}, run: MaybeRun,
               stage: Nat, docs: BOOLEAN]
Rows == [state: States, steps: SUBSET REQUIRED_STEPS, failure: BOOLEAN, sel: Selections]

RunPhases == {"acquire", "reacquire", "held", "force", "reconcile", "preflight", "unlock", "delete",
              "record", "enqueue", "register"}
RequestType == [pc: {"idle", "write", "state", "mark", "complete"} \cup RunPhases,
                op: SetupOps \cup {"none", "initialize"}, seen: Rows, run: MaybeRun]
PipeType == [pc: {"none", "begin", "load", "store", "work", "final", "commit", "fail", "completed", "failed",
                  "refail", "unlock", "delete", "done", "dead"},
             stage: Nat, source: {"github", "public"}, seen: Selections, docs: BOOLEAN]

\* A request that initialises has drawn a run id or taken over the stored one.
HasRun(r) == /\ r.pc \in RunPhases => r.run \in InitRuns
             /\ r.pc = "write" => r.op \in SetupOps

RequestsOK == req \in [Requests -> RequestType] /\ \A q \in Requests : HasRun(req[q])
PipesOK    == pipe \in [InitRuns -> PipeType]
JobsOK     == /\ initJobs \in [InitRuns -> {"none", "pending", "completed", "failed"}]
              /\ answered \subseteq InitRuns
              /\ HandedOutRunHasJob

OnbInv == row \in Rows /\ RequestsOK /\ PipesOK /\ JobsOK

LEMMA BlanksTyped ==
  /\ NoSelection \in Selections /\ NoRow \in Rows /\ WizardDone \in Rows
  /\ IdleRequest \in RequestType /\ HasRun(IdleRequest) /\ NoPipe \in PipeType
<1>1. NoSelection \in Selections
  BY DEF NoSelection, Selections, MaybeRun
<1>2. "PREFERENCES_CONFIGURED" \in States
  BY DEF States, StateOf, SetupOps
<1>3. NoRow \in Rows
  BY <1>1 DEF NoRow, Rows, States
<1>4. WizardDone \in Rows
  <2>1. [NoSelection EXCEPT !.installed = TRUE, !.repo = TRUE] \in Selections
    BY DEF NoSelection, Selections, MaybeRun
  <2>2. REQUIRED_STEPS \ {"initialization"} \in SUBSET REQUIRED_STEPS
    OBVIOUS
  <2> QED BY <1>2, <1>3, <2>1, <2>2 DEF WizardDone, Rows
<1>5. IdleRequest \in RequestType /\ HasRun(IdleRequest)
  BY <1>3 DEF IdleRequest, RequestType, HasRun, RunPhases, MaybeRun
<1>6. NoPipe \in PipeType
  BY <1>1 DEF NoPipe, PipeType
<1> QED BY <1>1, <1>3, <1>4, <1>5, <1>6

LEMMA OnbStarts == OnbInit => OnbInv
<1> SUFFICES ASSUME OnbInit PROVE OnbInv
  OBVIOUS
<1>1. PICK r \in {NoRow, WizardDone}, rq \in RqModes : OnbInitFor(r, rq)
  BY DEF OnbInit
<1>2. row \in Rows
  BY <1>1, BlanksTyped DEF OnbInitFor
<1>3. RequestsOK
  BY <1>1, BlanksTyped DEF OnbInitFor, RequestsOK
<1>4. PipesOK
  BY <1>1, BlanksTyped DEF OnbInitFor, PipesOK
<1>5. JobsOK
  BY <1>1 DEF OnbInitFor, JobsOK, HandedOutRunHasJob
<1> QED BY <1>2, <1>3, <1>4, <1>5 DEF OnbInv

\* The row after each of the statements that write it.
LEMMA RowTyped ==
  ASSUME row \in Rows, NEW state \in States, NEW sel \in Selections, NEW step
  PROVE  /\ upsert(state, sel) => row' \in Rows
         /\ upsert_state(state) => row' \in Rows
         /\ upsert_selection(sel) => row' \in Rows
         /\ mark_step(step) => row' \in Rows
         /\ mark_failed => row' \in Rows
         /\ mark_step_and_set_state("initialization", state, sel) => row' \in Rows
<1>1. upsert(state, sel) => row' \in Rows
  BY DEF upsert, Rows
<1>2. upsert_state(state) => row' \in Rows
  BY DEF upsert_state, Rows
<1>3. upsert_selection(sel) => row' \in Rows
  BY DEF upsert_selection, Rows
<1>4. mark_step(step) => row' \in Rows
  <2>1. row.steps \cup ({step} \cap REQUIRED_STEPS) \in SUBSET REQUIRED_STEPS
    BY DEF Rows
  <2> QED BY <2>1 DEF mark_step, Rows
<1>5. mark_failed => row' \in Rows
  BY DEF mark_failed, Rows, States
<1>6. mark_step_and_set_state("initialization", state, sel) => row' \in Rows
  <2>1. row.steps \cup {"initialization"} \in SUBSET REQUIRED_STEPS
    BY DEF Rows, REQUIRED_STEPS
  <2> QED BY <2>1 DEF mark_step_and_set_state, Rows
<1> QED BY <1>1, <1>2, <1>3, <1>4, <1>5, <1>6

\* A request moves on, with the run it has, or is over.
LEMMA RequestMoves ==
  ASSUME RequestsOK, NEW q \in Requests, NEW r \in RequestType, HasRun(r), req' = [req EXCEPT ![q] = r]
  PROVE  RequestsOK'
BY DEF RequestsOK

LEMMA RequestGoes ==
  ASSUME RequestsOK, NEW q \in Requests, NEW pc \in {"idle", "state", "mark", "complete"} \cup RunPhases,
         pc \in RunPhases => req[q].run \in InitRuns, Goes(q, pc)
  PROVE  RequestsOK'
<1>1. req[q] \in RequestType
  BY DEF RequestsOK
<1>2. [req[q] EXCEPT !.pc = pc] \in RequestType /\ HasRun([req[q] EXCEPT !.pc = pc])
  BY <1>1 DEF RequestType, HasRun, RunPhases
<1>3. req' = [req EXCEPT ![q] = [req[q] EXCEPT !.pc = pc]]
  BY DEF Goes, RequestsOK
<1> QED BY <1>2, <1>3, RequestMoves

LEMMA RequestEnded ==
  ASSUME RequestsOK, NEW q \in Requests, Finish(q)
  PROVE  RequestsOK'
BY RequestMoves, BlanksTyped DEF Finish

LEMMA PipeMoves ==
  ASSUME PipesOK, NEW i \in InitRuns, NEW r \in PipeType, pipe' = [pipe EXCEPT ![i] = r]
  PROVE  PipesOK'
BY DEF PipesOK

LEMMA PipeGoes ==
  ASSUME PipesOK, NEW i \in InitRuns, NEW pc \in {"fail", "completed", "failed", "refail", "unlock", "delete", "done"},
         At(i, pc)
  PROVE  PipesOK'
<1>1. [pipe[i] EXCEPT !.pc = pc] \in PipeType
  BY DEF PipesOK, PipeType
<1>2. pipe' = [pipe EXCEPT ![i] = [pipe[i] EXCEPT !.pc = pc]]
  BY DEF At, PipesOK
<1> QED BY <1>1, <1>2, PipeMoves

\* The answer is given together with the row.
LEMMA JobMade ==
  ASSUME JobsOK, NEW i \in InitRuns, InsertJob(i), answered' = answered \cup {i}
  PROVE  JobsOK'
BY DEF JobsOK, InsertJob, HandedOutRunHasJob

LEMMA JobsKept == JobsOK /\ UNCHANGED <<initJobs, answered>> => JobsOK'
BY DEF JobsOK, HandedOutRunHasJob
LEMMA PipesKept == PipesOK /\ UNCHANGED pipe => PipesOK'
BY DEF PipesOK
LEMMA RequestsKept == RequestsOK /\ UNCHANGED req => RequestsOK'
BY DEF RequestsOK

LEMMA PipelineBegun ==
  ASSUME RequestsOK, PipesOK, NEW q \in Requests, req[q].run \in InitRuns, Begin(q)
  PROVE  PipesOK'
<1>1. req[q].seen.sel.source \in {"github", "public"}
  BY DEF RequestsOK, RequestType, Rows, Selections
<1>2. [NoPipe EXCEPT !.pc = "begin", !.source = req[q].seen.sel.source] \in PipeType
  BY <1>1, BlanksTyped DEF PipeType
<1> QED BY <1>2, PipeMoves DEF Begin

LEMMA SelectionTyped ==
  ASSUME NEW op, NEW s \in Selections
  PROVE  Selection(op, s) \in Selections
<1>1. /\ create_workspace(s) \in Selections /\ connect_github(s) \in Selections
      /\ select_repository(s) \in Selections /\ _select_public_repository(s) \in Selections
  BY BlanksTyped DEF create_workspace, connect_github, select_repository, _select_public_repository, Selections
<1> QED BY <1>1 DEF Selection
LEMMA OnbRequestSteps ==
  ASSUME OnbInv, NEW q \in Requests, OnbRequest(q)
  PROVE  OnbInv'
<1>0. row \in Rows /\ RequestsOK /\ PipesOK /\ JobsOK /\ req[q] \in RequestType /\ HasRun(req[q])
  BY DEF OnbInv, RequestsOK
<1>s. req[q].seen \in Rows /\ req[q].seen.sel \in Selections /\ row.sel \in Selections /\ row.sel.run \in MaybeRun
  BY <1>0 DEF RequestType, Rows, Selections
<1>t. {"DOCUMENTATION_DISCOVERED", "COMPLETED", "INITIALIZING"} \subseteq States
  BY DEF States, StateOf, SetupOps
<1>1. CASE Reconcile(q)
  <2>1. req[q].run \in InitRuns
    BY <1>0, <1>1 DEF Reconcile, HasRun, RunPhases
  <2>2. JobsOK'
    BY <1>0, <1>1, <2>1, JobMade DEF Reconcile
  <2>3. RequestsOK' /\ PipesOK'
    BY <1>0, <1>1, RequestEnded, PipesKept DEF Reconcile
  <2> QED BY <1>0, <1>1, <2>2, <2>3 DEF Reconcile, OnbInv
<1>2. CASE EnqueueInit(q)
  <2>1. req[q].run \in InitRuns
    BY <1>0, <1>2 DEF EnqueueInit, HasRun, RunPhases
  <2>2. PipesOK'
    BY <1>0, <1>2, <2>1, PipelineBegun DEF EnqueueInit
  <2>3. RequestsOK' /\ JobsOK'
    BY <1>0, <1>2, <2>1, RequestGoes, JobsKept DEF EnqueueInit, RunPhases
  <2> QED BY <1>0, <1>2, <2>2, <2>3 DEF EnqueueInit, OnbInv
<1>3. CASE ~Reconcile(q) /\ ~EnqueueInit(q)
  <2>a. UNCHANGED <<initJobs, answered, pipe>>
    BY <1>3 DEF OnbRequest, SetupReads, confirm_sources, SourcesState, SetupWrites, SetupMarks, complete_onboarding,
       CompleteWrites, InitializeReads, Acquire, LockHeld, force_release_init_lock, Preflight, ReleaseReads,
       ReleaseDeletes, RecordStart
  <2>0. JobsOK' /\ PipesOK'
    BY <1>0, <2>a, JobsKept, PipesKept
  <2> SUFFICES row' \in Rows /\ RequestsOK'
    BY <2>0 DEF OnbInv
  <2>1. CASE \E op \in SetupOps : SetupReads(q, op)
    <3>1. PICK op \in SetupOps : SetupReads(q, op)
      BY <2>1
    <3> DEFINE r == [IdleRequest EXCEPT !.pc = "write", !.op = op, !.seen = row]
    <3>2. r \in RequestType /\ HasRun(r)
      BY <1>0 DEF IdleRequest, RequestType, HasRun, RunPhases, MaybeRun
    <3> QED BY <1>0, <3>1, <3>2, RequestMoves DEF SetupReads
  <2>2. CASE confirm_sources(q)
    BY <1>0, <1>s, <1>t, <2>2, RowTyped, RequestGoes DEF confirm_sources, RunPhases
  <2>3. CASE SourcesState(q)
    BY <1>0, <1>s, <1>t, <2>3, RowTyped, RequestGoes DEF SourcesState, RunPhases
  <2>4. CASE SetupWrites(q)
    <3>1. StateOf[req[q].op] \in States
      BY <1>0, <2>4 DEF SetupWrites, HasRun, States
    <3>2. row' \in Rows
      BY <1>0, <1>s, <2>4, <3>1, SelectionTyped, RowTyped DEF SetupWrites
    <3> QED BY <1>0, <2>4, <3>2, RequestGoes DEF SetupWrites, RunPhases
  <2>5. CASE SetupMarks(q)
    BY <1>0, <1>s, <1>t, <2>5, RowTyped, RequestEnded DEF SetupMarks
  <2>6. CASE complete_onboarding(q)
    <3> DEFINE r == [IdleRequest EXCEPT !.pc = "complete"]
    <3>1. r \in RequestType /\ HasRun(r)
      BY BlanksTyped DEF RequestType, HasRun, RunPhases
    <3> QED BY <1>0, <2>6, <3>1, RequestMoves DEF complete_onboarding
  <2>7. CASE CompleteWrites(q)
    BY <1>0, <1>s, <1>t, <2>7, RowTyped, RequestEnded DEF CompleteWrites
  <2>8. CASE InitializeReads(q)
    <3>1. PICK i \in InitRuns \ Drawn :
            req' = [req EXCEPT ![q] = [IdleRequest EXCEPT !.pc = "acquire", !.op = "initialize", !.seen = row, !.run = i]]
      BY <2>8 DEF InitializeReads
    <3> DEFINE r == [IdleRequest EXCEPT !.pc = "acquire", !.op = "initialize", !.seen = row, !.run = i]
    <3>2. r \in RequestType /\ HasRun(r)
      BY <1>0 DEF IdleRequest, RequestType, HasRun, RunPhases, MaybeRun
    <3> QED BY <1>0, <2>8, <3>1, <3>2, RequestMoves DEF InitializeReads
  <2>9. CASE Acquire(q)
    <3>1. PICK pc \in {"preflight", "held", "idle"} : Goes(q, pc)
      BY <2>9 DEF Acquire, try_acquire_init_lock
    <3>2. req[q].run \in InitRuns
      BY <1>0, <2>9 DEF Acquire, HasRun, RunPhases
    <3> QED BY <1>0, <2>9, <3>1, <3>2, RequestGoes DEF Acquire, RunPhases
  <2>10. CASE LockHeld(q)
    <3>1. CASE row.sel.run # NoInitRun
      <4> DEFINE r == [req[q] EXCEPT !.pc = "reconcile", !.run = row.sel.run]
      <4>1. r \in RequestType /\ HasRun(r)
        BY <1>0, <1>s, <3>1 DEF RequestType, HasRun, RunPhases, MaybeRun
      <4>2. req' = [req EXCEPT ![q] = r]
        BY <1>0, <2>10, <3>1 DEF LockHeld, RequestsOK
      <4> QED BY <1>0, <2>10, <4>1, <4>2, RequestMoves DEF LockHeld
    <3>2. CASE row.sel.run = NoInitRun
      <4>1. req[q].run \in InitRuns /\ Goes(q, "force")
        BY <1>0, <2>10, <3>2 DEF LockHeld, HasRun, RunPhases
      <4> QED BY <1>0, <2>10, <4>1, RequestGoes DEF LockHeld, RunPhases
    <3> QED BY <3>1, <3>2
  <2>11. CASE force_release_init_lock(q)
    <3>1. req[q].run \in InitRuns
      BY <1>0, <2>11 DEF force_release_init_lock, HasRun, RunPhases
    <3> QED BY <1>0, <2>11, <3>1, RequestGoes DEF force_release_init_lock, RunPhases
  <2>12. CASE Preflight(q) \/ ReleaseReads(q)
    <3>1. PICK pc \in {"unlock", "record", "delete", "idle"} : Goes(q, pc)
      BY <2>12 DEF Preflight, ReleaseReads
    <3>2. req[q].run \in InitRuns
      BY <1>0, <2>12 DEF Preflight, ReleaseReads, HasRun, RunPhases
    <3> QED BY <1>0, <2>12, <3>1, <3>2, RequestGoes DEF Preflight, ReleaseReads, RunPhases
  <2>13. CASE ReleaseDeletes(q)
    BY <1>0, <2>13, RequestEnded DEF ReleaseDeletes
  <2>14. CASE RecordStart(q)
    <3>1. req[q].run \in InitRuns
      BY <1>0, <2>14 DEF RecordStart, HasRun, RunPhases
    <3>2. [req[q].seen.sel EXCEPT !.run = req[q].run] \in Selections
      BY <1>s, <3>1 DEF Selections, MaybeRun
    <3>3. row' \in Rows
      BY <1>0, <1>t, <2>14, <3>2, RowTyped DEF RecordStart
    <3>4. PICK pc \in {"enqueue", "register"} : Goes(q, pc)
      BY <2>14 DEF RecordStart
    <3> QED BY <1>0, <3>1, <3>3, <3>4, RequestGoes DEF RunPhases
  <2> QED BY <1>3, <2>1, <2>2, <2>3, <2>4, <2>5, <2>6, <2>7, <2>8, <2>9, <2>10, <2>11, <2>12, <2>13, <2>14 DEF OnbRequest
<1> QED BY <1>1, <1>2, <1>3

LEMMA OnbPipelineSteps ==
  ASSUME OnbInv, NEW i \in InitRuns, OnbPipeline(i)
  PROVE  OnbInv'
<1>0. row \in Rows /\ RequestsOK /\ PipesOK /\ JobsOK /\ pipe[i] \in PipeType
  BY DEF OnbInv, PipesOK
<1>s. row.sel \in Selections /\ pipe[i].seen \in Selections /\ pipe[i].docs \in BOOLEAN /\ pipe[i].stage \in Nat
  BY <1>0 DEF PipeType, Rows
<1>t. "COMPLETED" \in States
  BY DEF States
<1>j. RequestsOK' /\ JobsOK'
  <2>1. UNCHANGED <<initJobs, answered, req>>
    BY DEF OnbPipeline, PipelineBegins, StageLoads, _update_stage, StageRuns, FinalLoads, FinalCommits,
           PipelineFails, _run_background, release_init_lock, PipelineDeletes
  <2> QED BY <1>0, <2>1, RequestsKept, JobsKept
<1> SUFFICES row' \in Rows /\ PipesOK'
  BY <1>j DEF OnbInv
<1>1. CASE PipelineBegins(i)
  <2>1. [pipe[i] EXCEPT !.pc = "load", !.stage = 1] \in PipeType
    BY <1>0 DEF PipeType
  <2>2. \/ pipe' = [pipe EXCEPT ![i] = [pipe[i] EXCEPT !.pc = "load", !.stage = 1]]
        \/ At(i, "fail")
    BY <1>0, <1>1 DEF PipelineBegins, PipesOK
  <2> QED BY <1>0, <1>1, <2>1, <2>2, PipeMoves, PipeGoes DEF PipelineBegins
<1>2. CASE StageLoads(i)
  <2>1. [pipe[i] EXCEPT !.pc = "store", !.seen = row.sel] \in PipeType
    BY <1>0, <1>s DEF PipeType
  <2>2. pipe' = [pipe EXCEPT ![i] = [pipe[i] EXCEPT !.pc = "store", !.seen = row.sel]]
    BY <1>0, <1>2 DEF StageLoads, PipesOK
  <2> QED BY <1>0, <1>2, <2>1, <2>2, PipeMoves DEF StageLoads
<1>3. CASE _update_stage(i)
  <2>1. [pipe[i] EXCEPT !.pc = "work", !.seen = NoSelection] \in PipeType
    BY <1>0, BlanksTyped DEF PipeType
  <2>2. pipe' = [pipe EXCEPT ![i] = [pipe[i] EXCEPT !.pc = "work", !.seen = NoSelection]]
    BY <1>0, <1>3 DEF _update_stage, PipesOK
  <2>3. [pipe[i].seen EXCEPT !.stage = pipe[i].stage] \in Selections
    BY <1>s DEF Selections
  <2>4. row' \in Rows
    BY <1>0, <1>3, <1>t, <2>3, RowTyped DEF _update_stage
  <2> QED BY <1>0, <2>1, <2>2, <2>4, PipeMoves
<1>4. CASE StageRuns(i)
  <2>1. PICK o \in StageOutcomes(i) :
          pipe' = [pipe EXCEPT ![i].pc    = IF o = "raise" THEN "fail"
                                            ELSE IF pipe[i].stage = 5 THEN "final" ELSE "load",
                               ![i].stage = IF o = "raise" \/ @ = 5 THEN @ ELSE @ + 1,
                               ![i].docs  = @ \/ o = "documents"]
    BY <1>4 DEF StageRuns
  <2> DEFINE pc == IF o = "raise" THEN "fail" ELSE IF pipe[i].stage = 5 THEN "final" ELSE "load"
             st == IF o = "raise" \/ pipe[i].stage = 5 THEN pipe[i].stage ELSE pipe[i].stage + 1
             dc == pipe[i].docs \/ o = "documents"
  <2>2. pipe' = [pipe EXCEPT ![i] = [pipe[i] EXCEPT !.pc = pc, !.stage = st, !.docs = dc]]
    BY <1>0, <2>1 DEF PipesOK
  <2>3. pc \in {"fail", "final", "load"} /\ st \in Nat /\ dc \in BOOLEAN
    BY <1>s
  <2> HIDE DEF pc, st, dc
  <2>4. [pipe[i] EXCEPT !.pc = pc, !.stage = st, !.docs = dc] \in PipeType
    BY <1>0, <2>3 DEF PipeType
  <2> QED BY <1>0, <1>4, <2>2, <2>4, PipeMoves DEF StageRuns
<1>5. CASE FinalLoads(i)
  <2>1. [pipe[i] EXCEPT !.pc = "commit", !.seen = row.sel] \in PipeType
    BY <1>0, <1>s DEF PipeType
  <2>2. pipe' = [pipe EXCEPT ![i] = [pipe[i] EXCEPT !.pc = "commit", !.seen = row.sel]]
    BY <1>0, <1>5 DEF FinalLoads, PipesOK
  <2> QED BY <1>0, <1>5, <2>1, <2>2, PipeMoves DEF FinalLoads
<1>6. CASE FinalCommits(i)
  <2>1. [pipe[i] EXCEPT !.pc = "completed", !.seen = NoSelection] \in PipeType
    BY <1>0, BlanksTyped DEF PipeType
  <2>2. pipe' = [pipe EXCEPT ![i] = [pipe[i] EXCEPT !.pc = "completed", !.seen = NoSelection]]
    BY <1>0, <1>6 DEF FinalCommits, PipesOK
  <2>3. [pipe[i].seen EXCEPT !.docs = pipe[i].docs] \in Selections
    BY <1>s DEF Selections
  <2>4. row' \in Rows
    BY <1>0, <1>6, <1>t, <2>3, RowTyped DEF FinalCommits
  <2> QED BY <1>0, <2>1, <2>2, <2>4, PipeMoves
<1>7. CASE PipelineFails(i) \/ _run_background(i)
  <2>1. mark_failed /\ (At(i, "failed") \/ At(i, "unlock"))
    BY <1>7 DEF PipelineFails, _run_background
  <2> QED BY <1>0, <1>s, <1>t, <2>1, RowTyped, PipeGoes
<1>8. CASE release_init_lock(i)
  <2>1. UNCHANGED row /\ (At(i, "delete") \/ At(i, "done"))
    BY <1>8 DEF release_init_lock
  <2> QED BY <1>0, <2>1, PipeGoes
<1>9. CASE PipelineDeletes(i)
  <2>1. [NoPipe EXCEPT !.pc = "done"] \in PipeType
    BY BlanksTyped DEF PipeType
  <2> QED BY <1>0, <1>9, <2>1, PipeMoves DEF PipelineDeletes
<1> QED BY <1>1, <1>2, <1>3, <1>4, <1>5, <1>6, <1>7, <1>8, <1>9 DEF OnbPipeline

LEMMA OnbSteps == OnbInv /\ [OnbNext]_onbVars => OnbInv'
<1> SUFFICES ASSUME OnbInv, [OnbNext]_onbVars PROVE OnbInv'
  OBVIOUS
<1>0. row \in Rows /\ RequestsOK /\ PipesOK /\ JobsOK
  BY DEF OnbInv
<1>1. ASSUME NEW q \in Requests, RequestDies(q) PROVE OnbInv'
  BY <1>0, <1>1, RequestEnded, PipesKept, JobsKept DEF RequestDies, OnbInv
<1>2. ASSUME NEW q \in Requests, Register(q) PROVE OnbInv'
  <2>1. req[q].run \in InitRuns
    BY <1>0, <1>2 DEF Register, RequestsOK, HasRun, RunPhases
  <2>2. UNCHANGED row /\ RequestsOK'
    BY <1>0, <1>2, RequestEnded DEF Register
  <2>3. PipesOK'
    BY <1>0, <1>2, <2>1, PipelineBegun, PipesKept DEF Register
  <2>4. JobsOK'
    BY <1>0, <1>2, <2>1, JobMade, JobsKept DEF Register
  <2> QED BY <1>0, <2>2, <2>3, <2>4 DEF OnbInv
<1>3. ASSUME NEW i \in InitRuns, PipelineDies(i) PROVE OnbInv'
  <2>1. [NoPipe EXCEPT !.pc = "dead"] \in PipeType
    BY BlanksTyped DEF PipeType
  <2> QED BY <1>0, <1>3, <2>1, PipeMoves, RequestsKept, JobsKept DEF PipelineDies, OnbInv
<1>4. ASSUME NEW i \in InitRuns, _set_job_status(i) PROVE OnbInv'
  <2>1. At(i, "refail") \/ At(i, "unlock")
    BY <1>4 DEF _set_job_status
  <2>2. UNCHANGED row /\ RequestsOK' /\ PipesOK'
    BY <1>0, <1>4, <2>1, PipeGoes, RequestsKept DEF _set_job_status
  <2>3. JobsOK'
    <3>1. \/ UNCHANGED initJobs
          \/ initJobs' = [initJobs EXCEPT ![i] = IF @ = "none" THEN @ ELSE pipe[i].pc]
      BY <1>4 DEF _set_job_status
    <3>2. pipe[i].pc \in {"completed", "failed"} /\ UNCHANGED answered
      BY <1>4 DEF _set_job_status
    <3> QED BY <1>0, <3>1, <3>2 DEF JobsOK, HandedOutRunHasJob
  <2> QED BY <1>0, <2>2, <2>3 DEF OnbInv
<1>5. CASE LockExpires \/ OnboardingRests \/ UNCHANGED onbVars
  <2>1. UNCHANGED <<row, initJobs, req, pipe, answered>>
    BY <1>5 DEF LockExpires, OnboardingRests, onbVars
  <2> QED BY <1>0, <2>1, PipesKept, RequestsKept, JobsKept DEF OnbInv
<1> QED BY <1>1, <1>2, <1>3, <1>4, <1>5, OnbRequestSteps, OnbPipelineSteps DEF OnbNext

\* For any number of requests, runs and faults, in both deployments: a run id a
\* client has been given has a jobs row ("Never hand out a run_id with no backing
\* jobs row", routes/onboarding.py).
THEOREM RunsHaveJobs == OnbSpec => []HandedOutRunHasJob
<1>1. OnbInv => HandedOutRunHasJob
  BY DEF OnbInv, JobsOK
<1> QED BY <1>1, OnbStarts, OnbSteps, PTL DEF OnbSpec
-----------------------------------------------------------------------------
(* Knowledge extraction.  Every group is somewhere: not handed out yet, in *)
(* a queue, with a worker, in the batch, or accounted for.  Counting what  *)
(* has been taken from the first queue shows that the main task, which     *)
(* only counts results, stops when nothing is left anywhere.               *)

Result     == [group: 1..Len(Groups), found: SUBSET AllChunks]
WorkerType == [pc: {"idle", "extract", "put", "returned"}, group: 0..Len(Groups), found: SUBSET AllChunks]

ExtractTypes ==
  /\ path \in {"workers", "research"}
  /\ produced \in Nat /\ collected \in 0..Len(Groups)
  /\ workQueue \in Seq(0..Len(Groups)) /\ doneQueue \in Seq(Result) /\ pending \in Seq(Result)
  /\ worker \in [ExtractWorkers -> WorkerType]
  /\ \A w \in ExtractWorkers : worker[w].pc \in {"extract", "put"} => worker[w].group # 0
  /\ known \cup failed \subseteq AllChunks

\* Entries taken from the first queue, and the workers that hold a group.
Taken == produced - Len(workQueue)
Busy  == {w \in ExtractWorkers : worker[w].pc \in {"extract", "put"}}

\* The first queue holds the groups that follow the ones taken, then the ends.
QueueInOrder ==
  /\ Len(workQueue) <= produced
  /\ \A k \in 1..Len(workQueue) : workQueue[k] = IF Taken + k <= Len(Groups) THEN Taken + k ELSE 0

EveryGroupCounted ==
  (IF Taken <= Len(Groups) THEN Taken ELSE Len(Groups)) = Cardinality(Busy) + Len(doneQueue) + collected

InBatch(s, g) == \E k \in DOMAIN s : s[k].group = g
Accounted(g)  == Groups[g] \subseteq known \cup failed

EveryGroupSomewhere == \A g \in 1..Len(Groups) :
  \/ g > Taken
  \/ \E w \in Busy : worker[w].group = g
  \/ InBatch(doneQueue, g) \/ InBatch(pending, g)
  \/ Accounted(g)

WorkersInv  == /\ QueueInOrder /\ EveryGroupCounted /\ EveryGroupSomewhere
               /\ main \in {"join", "finished"} => collected = Len(Groups) /\ pending = <<>>
ResearchInv == /\ \A g \in 1..collected : Accounted(g)
               /\ main = "finished" => collected = Len(Groups)

ExtractInv == ExtractTypes /\ (path = "workers" => WorkersInv) /\ (path = "research" => ResearchInv)

LEMMA GroupsTyped ==
  /\ Len(Groups) \in Nat /\ DOMAIN Groups = 1..Len(Groups)
  /\ \A g \in 1..Len(Groups) : Groups[g] \subseteq AllChunks
  /\ IsFiniteSet(ExtractWorkers)
  /\ IdleWorker \in WorkerType
BY ExtractionAssumption DEF AllChunks, IdleWorker, WorkerType

LEMMA ExtractStarts == ExtractInit => ExtractInv
<1> SUFFICES ASSUME NEW p \in {"workers", "research"}, ExtractInitFor(p) PROVE ExtractInv
  BY DEF ExtractInit
<1>1. ExtractTypes
  BY GroupsTyped DEF ExtractInitFor, ExtractTypes, IdleWorker
<1>2. Busy = {}
  BY DEF ExtractInitFor, Busy, IdleWorker
<1>3. Len(workQueue) = 0 /\ Taken = 0
  <2>1. produced = 0
    BY DEF ExtractInitFor
  <2>2. Len(workQueue) = 0
    BY DEF ExtractInitFor
  <2> QED BY <2>1, <2>2 DEF Taken
<1>4. QueueInOrder /\ EveryGroupCounted /\ EveryGroupSomewhere
  BY <1>2, <1>3, FS_EmptySet, GroupsTyped
     DEF ExtractInitFor, QueueInOrder, EveryGroupCounted, EveryGroupSomewhere
<1>5. WorkersInv /\ ResearchInv
  BY <1>4 DEF ExtractInitFor, WorkersInv, ResearchInv
<1> QED BY <1>1, <1>5 DEF ExtractInv

\* What a batch holds after a result is added at its end or taken from its head.
LEMMA BatchAppend ==
  ASSUME NEW s \in Seq(Result), NEW r \in Result, NEW g
  PROVE  /\ Append(s, r) \in Seq(Result) /\ Len(Append(s, r)) = Len(s) + 1
         /\ InBatch(s, g) \/ r.group = g => InBatch(Append(s, r), g)
<1>1. /\ Append(s, r) \in Seq(Result) /\ Len(Append(s, r)) = Len(s) + 1
      /\ DOMAIN Append(s, r) = 1..(Len(s) + 1) /\ DOMAIN s = 1..Len(s) /\ Len(s) \in Nat
      /\ Append(s, r)[Len(s) + 1] = r /\ \A k \in 1..Len(s) : Append(s, r)[k] = s[k]
  OBVIOUS
<1>2. Len(s) + 1 \in 1..(Len(s) + 1) /\ 1..Len(s) \subseteq 1..(Len(s) + 1)
  BY <1>1
<1> QED BY <1>1, <1>2 DEF InBatch

LEMMA BatchTail ==
  ASSUME NEW s \in Seq(Result), s # <<>>, NEW g
  PROVE  /\ Tail(s) \in Seq(Result) /\ Len(Tail(s)) = Len(s) - 1 /\ Head(s) \in Result
         /\ InBatch(s, g) => InBatch(Tail(s), g) \/ Head(s).group = g
<1>1. /\ Tail(s) \in Seq(Result) /\ Len(Tail(s)) = Len(s) - 1 /\ Head(s) = s[1] /\ Len(s) \in Nat \ {0}
      /\ DOMAIN Tail(s) = 1..(Len(s) - 1) /\ DOMAIN s = 1..Len(s)
      /\ \A k \in 1..(Len(s) - 1) : Tail(s)[k] = s[k + 1]
  OBVIOUS
<1>2. s[1] \in Result
  BY <1>1
<1>3. ASSUME NEW k \in 1..Len(s), s[k].group = g PROVE InBatch(Tail(s), g) \/ s[1].group = g
  <2>1. CASE k = 1
    BY <1>3, <2>1
  <2>2. CASE k # 1
    <3>1. k - 1 \in 1..(Len(s) - 1) /\ (k - 1) + 1 = k
      BY <1>1, <2>2
    <3>2. Tail(s)[k - 1] = s[k]
      BY <1>1, <3>1
    <3> QED BY <1>1, <1>3, <3>1, <3>2 DEF InBatch
  <2> QED BY <2>1, <2>2
<1> QED BY <1>1, <1>2, <1>3 DEF InBatch

\* The chunks of the groups of a batch are accounted for once it is persisted.
LEMMA PersistAccounts ==
  ASSUME ExtractTypes, NEW s \in Seq(Result), _persist(s)
  PROVE  /\ (known \cup failed)' \subseteq AllChunks
         /\ \A g \in 1..Len(Groups) : Accounted(g) \/ InBatch(s, g) => Accounted(g)'
<1>1. PICK linked_, enqueued, stored \in BOOLEAN :
        /\ known'  = IF stored THEN known \cup Found(s) ELSE known
        /\ failed' = failed \cup IF linked_ /\ enqueued /\ stored
                                 THEN Covered(s) \ Found(s) ELSE Covered(s)
  BY DEF _persist
<1>2. \A k \in DOMAIN s : s[k].found \subseteq AllChunks /\ s[k].group \in 1..Len(Groups)
  <2>1. \A k \in DOMAIN s : s[k] \in Result
    OBVIOUS
  <2> QED BY <2>1 DEF Result
<1>3. Found(s) \subseteq AllChunks
  BY <1>2 DEF Found
<1>4. Covered(s) \subseteq AllChunks
  BY <1>2, GroupsTyped DEF Covered
<1>5. Covered(s) \subseteq known' \cup failed' /\ known \cup failed \subseteq known' \cup failed'
  BY <1>1
<1>6. \A g : InBatch(s, g) => Groups[g] \subseteq Covered(s)
  BY DEF InBatch, Covered
<1>7. (known \cup failed)' \subseteq AllChunks
  BY <1>1, <1>3, <1>4 DEF ExtractTypes
<1> QED BY <1>5, <1>6, <1>7 DEF Accounted
\* A group moves on: what was somewhere still is.
LEMMA SomewhereKept ==
  ASSUME EveryGroupSomewhere, Taken \in Int, Len(Groups) \in Nat,
         \A g \in 1..Len(Groups) : g > Taken =>
             g > Taken' \/ (\E w \in Busy' : worker'[w].group = g),
         \A g \in 1..Len(Groups) : (\E w \in Busy : worker[w].group = g) =>
             (\E w \in Busy' : worker'[w].group = g) \/ InBatch(doneQueue', g),
         \A g \in 1..Len(Groups) : InBatch(doneQueue, g) => InBatch(doneQueue', g) \/ InBatch(pending', g),
         \A g \in 1..Len(Groups) : InBatch(pending, g) => InBatch(pending', g) \/ Accounted(g)',
         \A g \in 1..Len(Groups) : Accounted(g) => Accounted(g)'
  PROVE  EveryGroupSomewhere'
<1> SUFFICES ASSUME NEW g \in 1..Len(Groups)
             PROVE  \/ g > Taken'
                    \/ \E w \in Busy' : worker'[w].group = g
                    \/ InBatch(doneQueue', g) \/ InBatch(pending', g)
                    \/ Accounted(g)'
  BY DEF EveryGroupSomewhere, InBatch
<1> QED BY DEF EveryGroupSomewhere

LEMMA BusyFinite ==
  ASSUME ExtractTypes
  PROVE  /\ IsFiniteSet(Busy) /\ Cardinality(Busy) \in Nat
         /\ Len(workQueue) \in Nat /\ Len(doneQueue) \in Nat /\ Len(pending) \in Nat
         /\ produced \in Nat /\ collected \in Nat /\ Taken \in Int /\ Len(Groups) \in Nat
<1>1. Busy \subseteq ExtractWorkers
  BY DEF Busy
<1> QED BY <1>1, GroupsTyped, FS_Subset, FS_CardinalityType DEF ExtractTypes, Taken

LEMMA ProduceKeeps == ASSUME ExtractInv, _produce PROVE ExtractInv'
<1>0. ExtractTypes /\ WorkersInv /\ path = "workers"
  BY DEF ExtractInv, _produce, Working
<1>1. PICK e \in 0..Len(Groups) : /\ e = IF produced < Len(Groups) THEN produced + 1 ELSE 0
                                  /\ workQueue' = Append(workQueue, e)
  BY <1>0, GroupsTyped DEF _produce, ExtractTypes
<1>2. produced' = produced + 1 /\ UNCHANGED <<path, worker, doneQueue, pending, collected, known, failed, main>>
  BY DEF _produce, outcomes
<1>3. /\ workQueue' \in Seq(0..Len(Groups)) /\ Len(workQueue') = Len(workQueue) + 1
      /\ workQueue'[Len(workQueue) + 1] = e /\ \A k \in 1..Len(workQueue) : workQueue'[k] = workQueue[k]
  BY <1>0, <1>1 DEF ExtractTypes
<1>4. ExtractTypes'
  BY <1>0, <1>2, <1>3 DEF ExtractTypes
<1>5. Taken' = Taken /\ Busy' = Busy
  BY <1>0, <1>2, <1>3, BusyFinite DEF Taken, Busy
<1>6. QueueInOrder'
  <2>1. Len(workQueue') <= produced'
    BY <1>0, <1>2, <1>3, BusyFinite DEF WorkersInv, QueueInOrder
  <2>2. ASSUME NEW k \in 1..Len(workQueue')
        PROVE  workQueue'[k] = IF Taken' + k <= Len(Groups) THEN Taken' + k ELSE 0
    <3>1. CASE k \in 1..Len(workQueue)
      BY <1>0, <1>3, <1>5, <3>1 DEF WorkersInv, QueueInOrder
    <3>2. CASE k = Len(workQueue) + 1
      <4>1. Taken + k = produced + 1
        BY <1>0, <3>2, BusyFinite DEF Taken
      <4> QED BY <1>0, <1>1, <1>3, <1>5, <3>2, <4>1, BusyFinite
    <3> QED BY <1>0, <1>3, <2>2, <3>1, <3>2, BusyFinite
  <2> QED BY <2>1, <2>2 DEF QueueInOrder
<1>7. EveryGroupCounted' /\ EveryGroupSomewhere'
  BY <1>0, <1>2, <1>5 DEF WorkersInv, EveryGroupCounted, EveryGroupSomewhere, InBatch, Accounted
<1>8. WorkersInv'
  BY <1>0, <1>2, <1>6, <1>7 DEF WorkersInv
<1> QED BY <1>0, <1>2, <1>4, <1>8 DEF ExtractInv

LEMMA WorkerKeeps == ASSUME ExtractInv, NEW w \in ExtractWorkers, _worker(w) PROVE ExtractInv'
<1>0. ExtractTypes /\ WorkersInv /\ path = "workers" /\ worker[w].pc = "idle" /\ workQueue # <<>>
  BY DEF ExtractInv, _worker, Working
<1> DEFINE g == Head(workQueue)
           r == [IdleWorker EXCEPT !.pc = IF g = 0 THEN "returned" ELSE "extract", !.group = g]
<1>1. worker' = [worker EXCEPT ![w] = r] /\ workQueue' = Tail(workQueue)
  BY DEF _worker
<1>2. UNCHANGED <<path, produced, doneQueue, pending, collected, known, failed, main>>
  BY DEF _worker, outcomes
<1>3. /\ workQueue' \in Seq(0..Len(Groups)) /\ Len(workQueue') = Len(workQueue) - 1 /\ Len(workQueue) \in Nat \ {0}
      /\ g \in 0..Len(Groups) /\ g = workQueue[1]
      /\ \A k \in 1..(Len(workQueue) - 1) : workQueue'[k] = workQueue[k + 1]
  BY <1>0, <1>1 DEF ExtractTypes
<1>4. g = IF Taken + 1 <= Len(Groups) THEN Taken + 1 ELSE 0
  BY <1>0, <1>3 DEF WorkersInv, QueueInOrder
<1>5. Taken' = Taken + 1 /\ Taken \in Nat
  BY <1>0, <1>2, <1>3, BusyFinite DEF Taken, WorkersInv, QueueInOrder
<1> HIDE DEF g
<1>6. r \in WorkerType /\ r.group = g /\ r.pc = IF g = 0 THEN "returned" ELSE "extract"
  BY <1>3 DEF IdleWorker, WorkerType
<1> HIDE DEF r
<1>7. ExtractTypes'
  BY <1>0, <1>1, <1>2, <1>3, <1>6 DEF ExtractTypes
<1>8. QueueInOrder'
  <2>1. Len(workQueue') <= produced'
    BY <1>0, <1>2, <1>3, BusyFinite DEF WorkersInv, QueueInOrder
  <2>2. ASSUME NEW k \in 1..Len(workQueue')
        PROVE  workQueue'[k] = IF Taken' + k <= Len(Groups) THEN Taken' + k ELSE 0
    <3>1. k + 1 \in 1..Len(workQueue) /\ workQueue'[k] = workQueue[k + 1] /\ Taken' + k = Taken + (k + 1)
      BY <1>3, <1>5
    <3> QED BY <1>0, <3>1 DEF WorkersInv, QueueInOrder
  <2> QED BY <2>1, <2>2 DEF QueueInOrder
<1>9. w \notin Busy /\ worker'[w] = r /\ \A v \in ExtractWorkers : v # w => worker'[v] = worker[v]
  BY <1>0, <1>1 DEF Busy, ExtractTypes
<1>10. g = 0 => Busy' = Busy
  BY <1>6, <1>9 DEF Busy
<1>11. g # 0 => Busy' = Busy \cup {w}
  BY <1>6, <1>9 DEF Busy
<1>12. EveryGroupCounted'
  <2>1. CASE g = 0
    BY <1>0, <1>2, <1>4, <1>5, <1>10, <2>1, BusyFinite DEF WorkersInv, EveryGroupCounted
  <2>2. CASE g # 0
    <3>1. Cardinality(Busy') = Cardinality(Busy) + 1
      BY <1>0, <1>9, <1>11, <2>2, BusyFinite, FS_AddElement
    <3> QED BY <1>0, <1>2, <1>4, <1>5, <2>2, <3>1, BusyFinite DEF WorkersInv, EveryGroupCounted
  <2> QED BY <2>1, <2>2
<1>13. EveryGroupSomewhere'
  <2>1. \A x \in 1..Len(Groups) : x > Taken => x > Taken' \/ (\E v \in Busy' : worker'[v].group = x)
    <3> SUFFICES ASSUME NEW x \in 1..Len(Groups), x > Taken, ~(x > Taken') PROVE w \in Busy' /\ worker'[w].group = x
      OBVIOUS
    <3>1. x = Taken + 1
      BY <1>5
    <3>2. g = x /\ g # 0
      BY <1>4, <1>5, <3>1
    <3> QED BY <1>6, <1>9, <1>11, <3>2
  <2>2. \A x \in 1..Len(Groups) : (\E v \in Busy : worker[v].group = x) => (\E v \in Busy' : worker'[v].group = x)
    <3>1. \A v \in Busy : v \in Busy' /\ worker'[v] = worker[v]
      BY <1>9, <1>10, <1>11 DEF Busy
    <3> QED BY <3>1
  <2> QED BY <1>0, <1>2, <1>5, <2>1, <2>2, GroupsTyped, SomewhereKept DEF WorkersInv, InBatch, Accounted
<1>14. WorkersInv'
  BY <1>0, <1>2, <1>8, <1>12, <1>13 DEF WorkersInv
<1> QED BY <1>0, <1>2, <1>7, <1>14 DEF ExtractInv

LEMMA ExtractsKeeps == ASSUME ExtractInv, NEW w \in ExtractWorkers, Extracts(w) PROVE ExtractInv'
<1>0. ExtractTypes /\ WorkersInv /\ path = "workers" /\ worker[w].pc = "extract" /\ worker[w] \in WorkerType
  BY DEF ExtractInv, Extracts, Working, ExtractTypes
<1>1. worker[w].group \in 1..Len(Groups)
  BY <1>0 DEF ExtractTypes, WorkerType
<1>2. PICK f \in SUBSET Groups[worker[w].group] : worker' = [worker EXCEPT ![w].pc = "put", ![w].found = f]
  BY DEF Extracts, _extract_group
<1>3. f \subseteq AllChunks
  BY <1>1, GroupsTyped
<1> DEFINE r == [worker[w] EXCEPT !.pc = "put", !.found = f]
<1>4. worker' = [worker EXCEPT ![w] = r]
  BY <1>0, <1>2 DEF ExtractTypes
<1>5. r \in WorkerType /\ r.group = worker[w].group /\ r.pc = "put"
  BY <1>0, <1>3 DEF WorkerType
<1> HIDE DEF r
<1>6. UNCHANGED <<path, produced, workQueue, doneQueue, pending, collected, known, failed, main>>
  BY DEF Extracts, outcomes
<1>7. worker'[w] = r /\ \A v \in ExtractWorkers : v # w => worker'[v] = worker[v]
  BY <1>0, <1>4 DEF ExtractTypes
<1>8. Busy' = Busy /\ Taken' = Taken /\ \A v \in ExtractWorkers : worker'[v].group = worker[v].group
  BY <1>0, <1>5, <1>6, <1>7 DEF Busy, Taken
<1>9. ExtractTypes'
  BY <1>0, <1>1, <1>4, <1>5, <1>6 DEF ExtractTypes
<1>10. Busy \subseteq ExtractWorkers
  BY DEF Busy
<1>11. WorkersInv'
  BY <1>0, <1>6, <1>8, <1>10
     DEF WorkersInv, QueueInOrder, EveryGroupCounted, EveryGroupSomewhere, InBatch, Accounted
<1> QED BY <1>0, <1>6, <1>9, <1>11 DEF ExtractInv

LEMMA PutsKeeps == ASSUME ExtractInv, NEW w \in ExtractWorkers, Puts(w) PROVE ExtractInv'
<1>0. ExtractTypes /\ WorkersInv /\ path = "workers" /\ worker[w].pc = "put" /\ worker[w] \in WorkerType
  BY DEF ExtractInv, Puts, Working, ExtractTypes
<1> DEFINE r == [group |-> worker[w].group, found |-> worker[w].found]
<1>1. r \in Result /\ r.group = worker[w].group
  <2>1. worker[w].group \in 0..Len(Groups) /\ worker[w].found \in SUBSET AllChunks
    BY <1>0 DEF WorkerType
  <2>2. worker[w].group # 0
    BY <1>0 DEF ExtractTypes
  <2>3. PICK n \in Nat : n = Len(Groups)
    BY GroupsTyped
  <2>4. PICK g : g = worker[w].group
    OBVIOUS
  <2>5. g \in 1..n
    BY <2>1, <2>2, <2>3, <2>4
  <2>6. worker[w].group \in 1..Len(Groups)
    BY <2>3, <2>4, <2>5
  <2> QED BY <2>1, <2>6 DEF Result
<1>2. doneQueue' = Append(doneQueue, r) /\ worker' = [worker EXCEPT ![w] = IdleWorker]
  BY DEF Puts
<1>3. UNCHANGED <<path, produced, workQueue, pending, collected, known, failed, main>>
  BY DEF Puts, outcomes
<1> HIDE DEF r
<1>4. /\ doneQueue' \in Seq(Result) /\ Len(doneQueue') = Len(doneQueue) + 1
      /\ \A g : InBatch(doneQueue, g) \/ worker[w].group = g => InBatch(doneQueue', g)
  BY <1>0, <1>1, <1>2, BatchAppend DEF ExtractTypes
<1>5. worker'[w].pc = "idle" /\ \A v \in ExtractWorkers : v # w => worker'[v] = worker[v]
  BY <1>0, <1>2 DEF ExtractTypes, IdleWorker
<1>6. w \in Busy /\ Busy' = Busy \ {w} /\ Taken' = Taken
  BY <1>0, <1>3, <1>5 DEF Busy, Taken
<1>7. ExtractTypes'
  <2>1. worker' \in [ExtractWorkers -> WorkerType]
    BY <1>0, <1>2, GroupsTyped DEF ExtractTypes
  <2>2. \A v \in ExtractWorkers : worker'[v].pc \in {"extract", "put"} => worker'[v].group # 0
    BY <1>0, <1>5 DEF ExtractTypes
  <2> QED BY <1>0, <1>3, <1>4, <2>1, <2>2 DEF ExtractTypes
<1>8. Cardinality(Busy') = Cardinality(Busy) - 1
  BY <1>0, <1>6, BusyFinite, FS_RemoveElement
<1>9. EveryGroupCounted'
  BY <1>0, <1>3, <1>4, <1>6, <1>8, BusyFinite DEF WorkersInv, EveryGroupCounted
<1>10. EveryGroupSomewhere'
  <2>1. \A g \in 1..Len(Groups) : (\E v \in Busy : worker[v].group = g) =>
             (\E v \in Busy' : worker'[v].group = g) \/ InBatch(doneQueue', g)
    BY <1>4, <1>5, <1>6 DEF Busy
  <2> QED BY <1>0, <1>3, <1>4, <1>6, <2>1, BusyFinite, SomewhereKept DEF WorkersInv, InBatch, Accounted
<1>11. QueueInOrder'
  BY <1>0, <1>3, <1>6 DEF WorkersInv, QueueInOrder
<1>12. WorkersInv'
  BY <1>0, <1>3, <1>9, <1>10, <1>11 DEF WorkersInv
<1> QED BY <1>0, <1>3, <1>7, <1>12 DEF ExtractInv
LEMMA CollectsKeeps == ASSUME ExtractInv, Collects PROVE ExtractInv'
<1>0. ExtractTypes /\ WorkersInv /\ path = "workers" /\ doneQueue # <<>> /\ collected < Len(Groups)
  BY DEF ExtractInv, Collects, Working
<1>1. /\ pending' = Append(pending, Head(doneQueue)) /\ doneQueue' = Tail(doneQueue)
      /\ collected' = collected + 1 /\ main' \in {"collect", "flush"}
      /\ UNCHANGED <<path, produced, workQueue, worker, known, failed>>
  BY DEF Collects, outcomes
<1>2. /\ doneQueue' \in Seq(Result) /\ Len(doneQueue') = Len(doneQueue) - 1 /\ Head(doneQueue) \in Result
      /\ \A g : InBatch(doneQueue, g) => InBatch(doneQueue', g) \/ Head(doneQueue).group = g
  BY <1>0, <1>1, BatchTail DEF ExtractTypes
<1>3. /\ pending' \in Seq(Result)
      /\ \A g : InBatch(pending, g) \/ Head(doneQueue).group = g => InBatch(pending', g)
  BY <1>0, <1>1, <1>2, BatchAppend DEF ExtractTypes
<1>4. ExtractTypes'
  BY <1>0, <1>1, <1>2, <1>3, GroupsTyped DEF ExtractTypes
<1>5. Busy' = Busy /\ Taken' = Taken
  BY <1>1 DEF Busy, Taken
<1>6. EveryGroupCounted'
  BY <1>0, <1>1, <1>2, <1>5, BusyFinite DEF WorkersInv, EveryGroupCounted
<1>7. EveryGroupSomewhere'
  BY <1>0, <1>1, <1>2, <1>3, <1>5, BusyFinite, SomewhereKept DEF WorkersInv, Accounted
<1>8. QueueInOrder'
  BY <1>0, <1>1, <1>5 DEF WorkersInv, QueueInOrder
<1>9. WorkersInv'
  BY <1>1, <1>6, <1>7, <1>8 DEF WorkersInv
<1> QED BY <1>0, <1>1, <1>4, <1>9 DEF ExtractInv

LEMMA FlushKeeps == ASSUME ExtractInv, _flush PROVE ExtractInv'
<1>0. ExtractTypes /\ WorkersInv /\ path = "workers"
  BY DEF ExtractInv, _flush, Working
<1>1. /\ _persist(pending) /\ pending' = <<>> /\ main' = "collect"
      /\ UNCHANGED <<path, produced, workQueue, worker, doneQueue, collected>>
  BY DEF _flush, queues
<1>2. /\ (known \cup failed)' \subseteq AllChunks
      /\ \A g \in 1..Len(Groups) : Accounted(g) \/ InBatch(pending, g) => Accounted(g)'
  BY <1>0, <1>1, PersistAccounts DEF ExtractTypes
<1>3. ExtractTypes'
  BY <1>0, <1>1, <1>2 DEF ExtractTypes
<1>4. Busy' = Busy /\ Taken' = Taken
  BY <1>1 DEF Busy, Taken
<1>5. EveryGroupSomewhere'
  BY <1>0, <1>1, <1>2, <1>4, BusyFinite, SomewhereKept DEF WorkersInv, InBatch
<1>6. QueueInOrder' /\ EveryGroupCounted'
  BY <1>0, <1>1, <1>4 DEF WorkersInv, QueueInOrder, EveryGroupCounted
<1>7. WorkersInv'
  BY <1>1, <1>5, <1>6 DEF WorkersInv
<1> QED BY <1>0, <1>1, <1>3, <1>7 DEF ExtractInv

\* The steps of the main task that only decide what it does next.
LEMMA MainKeeps ==
  ASSUME ExtractInv, FlushDue \/ Joins \/ MainRaises \/ ShardRaises \/ SynthesisEnds
  PROVE  ExtractInv'
<1>0. ExtractTypes /\ (path = "workers" => WorkersInv) /\ (path = "research" => ResearchInv)
  BY DEF ExtractInv
<1>1. UNCHANGED <<path, produced, workQueue, worker, doneQueue, pending, collected, known, failed>>
  BY DEF FlushDue, Joins, MainRaises, ShardRaises, SynthesisEnds, queues, outcomes
<1>2. ExtractTypes'
  BY <1>0, <1>1 DEF ExtractTypes
<1>3. Busy' = Busy /\ Taken' = Taken
  BY <1>1 DEF Busy, Taken
<1>4. ASSUME path = "workers" PROVE WorkersInv'
  <2>1. QueueInOrder' /\ EveryGroupCounted' /\ EveryGroupSomewhere'
    BY <1>0, <1>1, <1>3, <1>4
       DEF WorkersInv, QueueInOrder, EveryGroupCounted, EveryGroupSomewhere, InBatch, Accounted
  <2>2. main' \in {"join", "finished"} => collected = Len(Groups) /\ pending = <<>>
    <3>1. CASE FlushDue
      BY <3>1 DEF FlushDue
    <3>2. CASE Joins
      BY <1>0, <1>4, <3>2 DEF Joins, WorkersInv
    <3>3. CASE MainRaises \/ ShardRaises \/ SynthesisEnds
      BY <1>4, <3>3 DEF MainRaises, ShardRaises, SynthesisEnds, Researching
    <3> QED BY <3>1, <3>2, <3>3
  <2> QED BY <1>1, <2>1, <2>2 DEF WorkersInv
<1>5. ASSUME path = "research" PROVE ResearchInv'
  <2>1. ShardRaises \/ SynthesisEnds
    BY <1>5 DEF FlushDue, Joins, MainRaises, Working
  <2>2. main' = "finished" => collected = Len(Groups)
    BY <2>1 DEF ShardRaises, SynthesisEnds
  <2> QED BY <1>0, <1>1, <1>5, <2>2 DEF ResearchInv, Accounted
<1> QED BY <1>1, <1>2, <1>4, <1>5 DEF ExtractInv

\* A shard is stored, or all its chunks are reported.
LEMMA ShardKeeps ==
  ASSUME ExtractInv, ShardFails \/ _store_shard_extraction
  PROVE  ExtractInv'
<1>0. ExtractTypes /\ ResearchInv /\ path = "research" /\ main = "collect" /\ collected < Len(Groups)
  BY DEF ExtractInv, ShardFails, _store_shard_extraction, Researching
<1>1. collected' = collected + 1 /\ UNCHANGED <<path, produced, workQueue, worker, doneQueue, pending, main>>
  BY DEF ShardFails, _store_shard_extraction, queues
<1> DEFINE n == collected + 1
<1>2. n \in 1..Len(Groups) /\ collected \in Nat
  BY <1>0, GroupsTyped DEF ExtractTypes
<1>3. Shard \in Result /\ Shard.group = n /\ Shard.found = Groups[n]
  BY <1>2, GroupsTyped DEF Shard, Result
<1>4. /\ (known \cup failed)' \subseteq AllChunks
      /\ \A g \in 1..Len(Groups) : Accounted(g) \/ g = n => Accounted(g)'
  <2>1. CASE ShardFails
    <3>1. known' = known /\ failed' = failed \cup Groups[n]
      BY <1>3, <2>1 DEF ShardFails
    <3>2. Groups[n] \subseteq AllChunks
      BY <1>2, GroupsTyped
    <3> QED BY <1>0, <3>1, <3>2 DEF ExtractTypes, Accounted
  <2>2. CASE _store_shard_extraction
    <3>1. _persist(<<Shard>>)
      BY <2>2 DEF _store_shard_extraction
    <3>2. <<Shard>> \in Seq(Result) /\ DOMAIN <<Shard>> = 1..1 /\ <<Shard>>[1] = Shard
      BY <1>3
    <3>3. InBatch(<<Shard>>, n)
      BY <1>3, <3>2 DEF InBatch
    <3> QED BY <1>0, <3>1, <3>2, <3>3, PersistAccounts
  <2> QED BY <2>1, <2>2
<1>5. ExtractTypes'
  BY <1>0, <1>1, <1>2, <1>4 DEF ExtractTypes
<1>6. ResearchInv'
  <2>1. \A g \in 1..collected' : Accounted(g)'
    BY <1>0, <1>1, <1>2, <1>4, GroupsTyped DEF ResearchInv
  <2> QED BY <1>0, <1>1, <2>1 DEF ResearchInv
<1> QED BY <1>0, <1>1, <1>5, <1>6 DEF ExtractInv

LEMMA ExtractSteps == ExtractInv /\ [ExtractNext]_extractVars => ExtractInv'
<1> SUFFICES ASSUME ExtractInv, [ExtractNext]_extractVars PROVE ExtractInv'
  OBVIOUS
<1>1. CASE ExtractOver \/ UNCHANGED extractVars
  <2>1. UNCHANGED <<path, produced, workQueue, worker, doneQueue, pending, collected, known, failed, main>>
    BY <1>1 DEF ExtractOver, extractVars
  <2>2. Busy' = Busy /\ Taken' = Taken
    BY <2>1 DEF Busy, Taken
  <2> QED BY <2>1, <2>2 DEF ExtractInv, ExtractTypes, WorkersInv, ResearchInv, QueueInOrder, EveryGroupCounted,
                            EveryGroupSomewhere, InBatch, Accounted
<1>2. CASE \E w \in ExtractWorkers : _worker(w) \/ Extracts(w) \/ Puts(w)
  BY <1>2, WorkerKeeps, ExtractsKeeps, PutsKeeps
<1> QED BY <1>1, <1>2, ProduceKeeps, CollectsKeeps, FlushKeeps, MainKeeps, ShardKeeps DEF ExtractNext

LEMMA NothingLeft == ExtractInv => EveryChunkAccounted
<1> SUFFICES ASSUME ExtractInv, main = "finished" PROVE AllChunks = known \cup failed
  BY DEF EveryChunkAccounted
<1>0. ExtractTypes
  BY DEF ExtractInv
<1>1. \A g \in 1..Len(Groups) : Accounted(g)
  <2>1. CASE path = "research"
    BY <2>1 DEF ExtractInv, ResearchInv
  <2>2. CASE path = "workers"
    <3>1. WorkersInv /\ collected = Len(Groups) /\ pending = <<>>
      BY <2>2 DEF ExtractInv, WorkersInv
    <3>2. Cardinality(Busy) = 0 /\ Len(doneQueue) = 0 /\ Taken >= Len(Groups)
      BY <1>0, <3>1, BusyFinite DEF WorkersInv, EveryGroupCounted
    <3>3. Busy = {}
      BY <1>0, <3>2, BusyFinite, FS_EmptySet
    <3>4. doneQueue = <<>>
      BY <1>0, <3>2 DEF ExtractTypes
    <3> QED BY <1>0, <3>1, <3>2, <3>3, <3>4, BusyFinite DEF WorkersInv, EveryGroupSomewhere, InBatch
  <2> QED BY <1>0, <2>1, <2>2 DEF ExtractTypes
<1>2. \A g \in DOMAIN Groups : Groups[g] \subseteq known \cup failed
  BY <1>1, GroupsTyped DEF Accounted
<1> QED BY <1>0, <1>2 DEF ExtractTypes, AllChunks

\* For any groups, any number of workers and any batch size, on both paths: when
\* the stage returns every chunk is known or reported as failed
\* (run_knowledge_construction and _run_research_synthesis of stages.py).
THEOREM ChunksAccounted == ExtractSpec => []EveryChunkAccounted
BY ExtractStarts, ExtractSteps, NothingLeft, PTL DEF ExtractSpec
-----------------------------------------------------------------------------
(* Connections.                                                            *)

\* github_installations: a row, or none, for every installation.
InstallsTyped == installs = [i \in Installations |-> installs[i]]

\* What a step may do to the row of an installation.
OwnerStep == \A i \in Installations : installs[i] # NoOrg => installs'[i] \in {installs[i], NoOrg}

LEMMA InstallSteps ==
  ASSUME InstallsTyped, [ConnNext]_connVars
  PROVE  InstallsTyped' /\ OwnerStep
<1>1. CASE UNCHANGED installs
  BY <1>1 DEF InstallsTyped, OwnerStep
<1>2. ASSUME NEW c \in Callbacks, store_github_installation(c) PROVE InstallsTyped' /\ OwnerStep
  <2> DEFINE i == callback[c].inst
             o == callback[c].org
  <2>1. \/ installs' = [installs EXCEPT ![i] = IF @ = NoOrg THEN @ ELSE installs[i]]
        \/ installs' = [installs EXCEPT ![i] = IF @ = NoOrg THEN o ELSE @]
    BY <1>2 DEF store_github_installation, KeepsOwner
  <2> HIDE DEF i, o
  <2> QED BY <2>1 DEF InstallsTyped, OwnerStep
<1>3. ASSUME NEW i, remove_github_installation(i) PROVE InstallsTyped' /\ OwnerStep
  BY <1>3 DEF remove_github_installation, InstallsTyped, OwnerStep
<1>4. ASSUME NEW c \in Callbacks, NEW o \in ConnOrgs, NEW k, disconnect_integration(c, o, k)
      PROVE  InstallsTyped' /\ OwnerStep
  BY <1>4 DEF disconnect_integration, InstallsTyped, OwnerStep
<1>5. ASSUME NEW c \in Callbacks, CallbackStep(c) PROVE InstallsTyped' /\ OwnerStep
  <2>1. store_github_installation(c) \/ DeleteInstallation(c) \/ UNCHANGED installs
    BY <1>5 DEF CallbackStep, Consume, CheckAccount, CheckOwner, update_org_github, SelectInstallation,
                CheckTeam, SelectTeam, async_save, WriteHealth, ForgetHealth
  <2> QED BY <1>1, <1>2, <1>3, <2>1 DEF DeleteInstallation
<1>6. ASSUME NEW n \in Nonces,
             \/ \E o \in ConnOrgs : github_install_url(n, o) \/ slack_install_url(n, o)
             \/ \E i \in Installations : github_setup_callback(n, i)
             \/ StateExpires(n)
             \/ \E c \in Callbacks : github_authorize_callback(c, n) \/ slack_oauth_callback(c, n)
      PROVE  UNCHANGED installs
  BY <1>6 DEF github_install_url, slack_install_url, github_setup_callback, StateExpires,
              github_authorize_callback, slack_oauth_callback
<1>7. ASSUME NEW c \in Callbacks, NEW i \in Installations,
             \/ InstallationCreated(c, i)
             \/ \E o \in ConnOrgs : link_github(c, o, i) \/ delete_github_installation(c, o, i)
      PROVE  UNCHANGED installs
  BY <1>7 DEF InstallationCreated, link_github, delete_github_installation
<1>8. ASSUME NEW c \in Callbacks, NEW o \in ConnOrgs, NEW k \in Installations \cup {Workspace},
             refresh_integration(c, o, k)
      PROVE  UNCHANGED installs
  BY <1>8 DEF refresh_integration
<1>9. ASSUME NEW i \in Installations, InstallationDeleted(i) PROVE InstallsTyped' /\ OwnerStep
  BY <1>3, <1>9 DEF InstallationDeleted
<1>10. CASE UNCHANGED connVars
  BY <1>1, <1>10 DEF connVars
<1> QED BY <1>1, <1>4, <1>5, <1>6, <1>7, <1>8, <1>9, <1>10 DEF ConnNext

\* For any number of organisations, installations and overlapping callbacks: no
\* step hands an installation's row from one organisation to another
\* (store_github_installation of persistence/repositories/github.py).
THEOREM OwnersKept == ConnSpec => OwnerIsKept
<1>1. ConnInit => InstallsTyped
  BY DEF ConnInit, InstallsTyped
<1>2. InstallsTyped /\ [ConnNext]_connVars => InstallsTyped'
  BY InstallSteps
<1>3. InstallsTyped /\ [ConnNext]_connVars =>
        [\A i \in Installations : installs[i] # NoOrg => installs'[i] \in {installs[i], NoOrg}]_connVars
  BY InstallSteps DEF OwnerStep
<1> QED BY <1>1, <1>2, <1>3, PTL DEF ConnSpec, OwnerIsKept
-----------------------------------------------------------------------------
(* The initialisation lock.  With one request at a time a live pipeline    *)
(* holds the lock from before it begins until its last step, and the row   *)
(* names a run for as long: the lock is never taken for a stale one.  The  *)
(* wizard, whose routes could write the run away, is closed by the state   *)
(* the start has recorded.                                                 *)

OneRequest == \A q, r \in Requests : q = r

Begun    == {"INITIALIZING", "FAILED", "COMPLETED"}
Holding  == {"preflight", "record", "enqueue", "register", "unlock", "delete"}
Starting == {"enqueue", "register"}
Quiet    == ~\E i \in InitRuns : Active(i)

\* A live pipeline holds the lock, and the row names a run.
LiveHolds == \A i \in InitRuns : Active(i) => initLock = i /\ row.state \in Begun /\ row.sel.run # NoInitRun

\* What a pipeline is about to write back names a run; the worker never releases.
WritesRun == \A i \in InitRuns : /\ pipe[i].pc \in {"store", "commit"} => pipe[i].seen.run # NoInitRun
                                 /\ pipe[i].pc = "delete" => ~rqEnabled

\* A request with the lock has no pipeline beside it, but the one it has enqueued.
RequestHolds(q) ==
  /\ req[q].pc \in Holding => initLock = req[q].run
  /\ req[q].pc \in Holding \cup {"write", "state", "mark", "force"}
        => Quiet \/ (rqEnabled /\ req[q].pc = "register")
  /\ req[q].pc \in Starting => /\ row.state \in Begun /\ row.sel.run # NoInitRun
                               /\ req[q].pc = "enqueue" => rqEnabled

LockInv == LiveHolds /\ WritesRun /\ \A q \in Requests : RequestHolds(q)

\* The row goes on naming a run, in a state the wizard does not accept.
StaysBegun == /\ row.state \in Begun => row'.state \in Begun
              /\ row.sel.run # NoInitRun => row'.sel.run # NoInitRun

LEMMA LockStarts == OnbInit => LockInv
<1> SUFFICES ASSUME OnbInit PROVE LockInv
  OBVIOUS
<1>1. /\ req = [q \in Requests |-> IdleRequest]
      /\ pipe = [i \in InitRuns |-> NoPipe]
  BY DEF OnbInit, OnbInitFor
<1>2. \A i \in InitRuns : pipe[i].pc = "none"
  BY <1>1 DEF NoPipe
<1>3. \A q \in Requests : req[q].pc = "idle"
  BY <1>1 DEF IdleRequest
<1> QED BY <1>2, <1>3 DEF LockInv, LiveHolds, WritesRun, RequestHolds, Active, Holding, Starting

\* A step of the one request that leaves the pipelines alone.
LEMMA RequestKeepsLock ==
  ASSUME OnbInv, LockInv, OneRequest, NEW q \in Requests, NEW r,
         UNCHANGED <<pipe, rqEnabled>>,
         Quiet \/ (UNCHANGED initLock /\ StaysBegun),
         req' = [req EXCEPT ![q] = r],
         r.pc \in Holding => initLock' = r.run,
         r.pc \in Holding \cup {"write", "state", "mark", "force"}
            => Quiet \/ (rqEnabled /\ r.pc = "register"),
         r.pc \in Starting => /\ row'.state \in Begun /\ row'.sel.run # NoInitRun
                              /\ r.pc = "enqueue" => rqEnabled
  PROVE  LockInv'
<1>1. \A i \in InitRuns : Active(i)' <=> Active(i)
  BY DEF Active
<1>2. Quiet' <=> Quiet
  BY <1>1 DEF Quiet
<1>3. LiveHolds'
  BY <1>1 DEF LockInv, LiveHolds, Quiet, StaysBegun
<1>4. WritesRun'
  BY DEF LockInv, WritesRun
<1>5. req'[q] = r
  BY DEF OnbInv, RequestsOK
<1>6. RequestHolds(q)'
  BY <1>2, <1>5 DEF RequestHolds
<1>7. \A p \in Requests : p = q
  BY DEF OneRequest
<1> QED BY <1>3, <1>4, <1>6, <1>7 DEF LockInv

\* The request goes where it holds nothing.
LEMMA RequestFrees ==
  ASSUME OnbInv, LockInv, OneRequest, NEW q \in Requests, NEW r,
         UNCHANGED <<pipe, rqEnabled>>,
         Quiet \/ (UNCHANGED initLock /\ StaysBegun),
         req' = [req EXCEPT ![q] = r],
         r.pc \in {"idle", "complete", "acquire", "reacquire", "held", "reconcile"}
  PROVE  LockInv'
<1>1. r.pc \notin Holding \cup {"write", "state", "mark", "force"} /\ r.pc \notin Starting
  BY DEF Holding, Starting
<1> QED BY <1>1, RequestKeepsLock

LEMMA SameRow == UNCHANGED row => StaysBegun
  BY DEF StaysBegun

LEMMA GoesAsUpdate ==
  ASSUME OnbInv, NEW q \in Requests, NEW pc, Goes(q, pc)
  PROVE  /\ req' = [req EXCEPT ![q] = [req[q] EXCEPT !.pc = pc]]
         /\ [req[q] EXCEPT !.pc = pc].pc = pc
         /\ [req[q] EXCEPT !.pc = pc].run = req[q].run
  BY DEF Goes, OnbInv, RequestsOK, RequestType

LEMMA IdleFacts == IdleRequest.pc = "idle"
  BY DEF IdleRequest

\* The wizard's routes run while nothing is initialised.
LEMMA WizardKeepsLock ==
  ASSUME OnbInv, LockInv, OneRequest, NEW q \in Requests, UNCHANGED rqEnabled,
         \/ \E op \in SetupOps : SetupReads(q, op)
         \/ confirm_sources(q) \/ SourcesState(q) \/ SetupWrites(q) \/ SetupMarks(q)
  PROVE  LockInv'
<1>1. ASSUME NEW op \in SetupOps, SetupReads(q, op) PROVE LockInv'
  <2> DEFINE r == [IdleRequest EXCEPT !.pc = "write", !.op = op, !.seen = row]
  <2>1. UNCHANGED <<row, initLock, pipe>> /\ req' = [req EXCEPT ![q] = r] /\ r.pc = "write"
    BY <1>1 DEF SetupReads, IdleRequest
  <2>2. row.state \in _TRANSITIONS(op)
    BY <1>1 DEF SetupReads, Accepts
  <2>3. row.state \notin Begun
    BY <2>2 DEF _TRANSITIONS, Before, StateOf, SetupOps, Begun
  <2>4. Quiet
    BY <2>3 DEF Quiet, LockInv, LiveHolds
  <2> HIDE DEF r
  <2>5. r.pc \notin Holding /\ r.pc \notin Starting
    BY <2>1 DEF Holding, Starting
  <2> QED BY <2>1, <2>4, <2>5, RequestKeepsLock
<1>2. ASSUME req[q].pc \in {"write", "state", "mark"} PROVE Quiet
  BY <1>2 DEF LockInv, RequestHolds
<1>3. ASSUME NEW pc \in {"state", "mark"}, Goes(q, pc), Quiet, UNCHANGED pipe PROVE LockInv'
  <2> DEFINE r == [req[q] EXCEPT !.pc = pc]
  <2>1. req' = [req EXCEPT ![q] = r] /\ r.pc = pc
    BY <1>3, GoesAsUpdate
  <2> HIDE DEF r
  <2>2. r.pc \notin Holding /\ r.pc \notin Starting
    BY <2>1 DEF Holding, Starting
  <2> QED BY <1>3, <2>1, <2>2, RequestKeepsLock
<1>4. CASE confirm_sources(q)
  BY <1>2, <1>3, <1>4 DEF confirm_sources
<1>5. CASE SourcesState(q)
  BY <1>2, <1>3, <1>5 DEF SourcesState
<1>6. CASE SetupWrites(q)
  BY <1>2, <1>3, <1>6 DEF SetupWrites
<1>7. CASE SetupMarks(q)
  BY <1>2, <1>7, RequestFrees, IdleFacts DEF SetupMarks, Finish
<1> QED BY <1>1, <1>4, <1>5, <1>6, <1>7

LEMMA CompletionKeepsLock ==
  ASSUME OnbInv, LockInv, OneRequest, NEW q \in Requests, UNCHANGED rqEnabled,
         complete_onboarding(q) \/ CompleteWrites(q) \/ Reconcile(q) \/ RequestDies(q)
  PROVE  LockInv'
<1>1. CASE complete_onboarding(q)
  <2> DEFINE r == [IdleRequest EXCEPT !.pc = "complete"]
  <2>1. UNCHANGED <<row, initLock, pipe>> /\ req' = [req EXCEPT ![q] = r] /\ r.pc = "complete"
    BY <1>1 DEF complete_onboarding, IdleRequest
  <2> HIDE DEF r
  <2> QED BY <2>1, SameRow, RequestFrees
<1>2. CASE CompleteWrites(q)
  <2>1. row' = [row EXCEPT !.state = "COMPLETED"] /\ UNCHANGED <<initLock, pipe>>
    BY <1>2 DEF CompleteWrites, upsert_state
  <2>2. StaysBegun
    BY <2>1 DEF StaysBegun, Begun, OnbInv, Rows
  <2> QED BY <1>2, <2>1, <2>2, RequestFrees, IdleFacts DEF CompleteWrites, Finish
<1>3. CASE Reconcile(q)
  BY <1>3, SameRow, RequestFrees, IdleFacts DEF Reconcile, Finish
<1>4. CASE RequestDies(q)
  BY <1>4, SameRow, RequestFrees, IdleFacts DEF RequestDies, Finish
<1> QED BY <1>1, <1>2, <1>3, <1>4

\* The lock is taken when it is free, which it is not under a live pipeline; it is
\* taken by force when the row names no run, which it does under one.
LEMMA AcquisitionKeepsLock ==
  ASSUME OnbInv, LockInv, OneRequest, NEW q \in Requests, UNCHANGED rqEnabled,
         InitializeReads(q) \/ Acquire(q) \/ LockHeld(q) \/ force_release_init_lock(q)
  PROVE  LockInv'
<1>1. CASE InitializeReads(q)
  <2>1. PICK i \in InitRuns :
          req' = [req EXCEPT ![q] = [IdleRequest EXCEPT !.pc = "acquire", !.op = "initialize",
                                                        !.seen = row, !.run = i]]
    BY <1>1 DEF InitializeReads
  <2> DEFINE r == [IdleRequest EXCEPT !.pc = "acquire", !.op = "initialize", !.seen = row, !.run = i]
  <2>2. UNCHANGED <<row, initLock, pipe>> /\ req' = [req EXCEPT ![q] = r] /\ r.pc = "acquire"
    BY <1>1, <2>1 DEF InitializeReads, IdleRequest
  <2> HIDE DEF r
  <2> QED BY <2>2, SameRow, RequestFrees
<1>2. CASE Acquire(q)
  <2>0. UNCHANGED <<row, pipe>> /\ req[q].pc \in {"acquire", "reacquire"}
    BY <1>2 DEF Acquire
  <2>1. CASE initLock = NoInitRun
    <3>1. Quiet
      BY <2>1, OnboardingAssumption DEF Quiet, LockInv, LiveHolds
    <3>2. initLock' = req[q].run /\ Goes(q, "preflight")
      BY <1>2, <2>1 DEF Acquire, try_acquire_init_lock
    <3> DEFINE r == [req[q] EXCEPT !.pc = "preflight"]
    <3>3. req' = [req EXCEPT ![q] = r] /\ r.pc = "preflight" /\ r.run = req[q].run
      BY <3>2, GoesAsUpdate
    <3> HIDE DEF r
    <3>4. r.pc \notin Starting
      BY <3>3 DEF Starting
    <3> QED BY <2>0, <3>1, <3>2, <3>3, <3>4, RequestKeepsLock
  <2>2. CASE initLock # NoInitRun
    <3>1. UNCHANGED initLock /\ (Goes(q, "held") \/ Goes(q, "idle"))
      BY <1>2, <2>2 DEF Acquire, try_acquire_init_lock
    <3>2. PICK pc \in {"held", "idle"} : Goes(q, pc)
      BY <3>1
    <3> DEFINE r == [req[q] EXCEPT !.pc = pc]
    <3>3. req' = [req EXCEPT ![q] = r] /\ r.pc = pc
      BY <3>2, GoesAsUpdate
    <3> HIDE DEF r
    <3> QED BY <2>0, <3>1, <3>3, SameRow, RequestFrees
  <2> QED BY <2>1, <2>2
<1>3. CASE LockHeld(q)
  <2>0. UNCHANGED <<row, initLock, pipe>>
    BY <1>3 DEF LockHeld
  <2>1. CASE row.sel.run # NoInitRun
    <3> DEFINE r == [req[q] EXCEPT !.pc = "reconcile", !.run = row.sel.run]
    <3>1. req' = [req EXCEPT ![q] = r] /\ r.pc = "reconcile"
      BY <1>3, <2>1 DEF LockHeld, OnbInv, RequestsOK, RequestType
    <3> HIDE DEF r
    <3> QED BY <2>0, <3>1, SameRow, RequestFrees
  <2>2. CASE row.sel.run = NoInitRun
    <3>1. Goes(q, "force")
      BY <1>3, <2>2 DEF LockHeld
    <3>2. Quiet
      BY <2>2 DEF Quiet, LockInv, LiveHolds
    <3> DEFINE r == [req[q] EXCEPT !.pc = "force"]
    <3>3. req' = [req EXCEPT ![q] = r] /\ r.pc = "force"
      BY <3>1, GoesAsUpdate
    <3> HIDE DEF r
    <3>4. r.pc \notin Holding /\ r.pc \notin Starting
      BY <3>3 DEF Holding, Starting
    <3> QED BY <2>0, <3>2, <3>3, <3>4, RequestKeepsLock
  <2> QED BY <2>1, <2>2
<1>4. CASE force_release_init_lock(q)
  <2>1. Quiet
    BY <1>4 DEF force_release_init_lock, LockInv, RequestHolds
  <2> DEFINE r == [req[q] EXCEPT !.pc = "reacquire"]
  <2>2. req' = [req EXCEPT ![q] = r] /\ r.pc = "reacquire" /\ UNCHANGED pipe
    BY <1>4, GoesAsUpdate DEF force_release_init_lock
  <2> HIDE DEF r
  <2> QED BY <2>1, <2>2, RequestFrees
<1> QED BY <1>1, <1>2, <1>3, <1>4

\* What the holder does before a pipeline is there.
LEMMA HolderKeepsLock ==
  ASSUME OnbInv, LockInv, OneRequest, NEW q \in Requests, UNCHANGED rqEnabled,
         Preflight(q) \/ ReleaseReads(q) \/ ReleaseDeletes(q) \/ RecordStart(q)
  PROVE  LockInv'
<1>0. req[q].pc \in {"preflight", "unlock", "delete", "record"} /\ UNCHANGED pipe
  BY DEF Preflight, ReleaseReads, ReleaseDeletes, RecordStart
<1>1. Quiet /\ initLock = req[q].run
  BY <1>0 DEF LockInv, RequestHolds, Holding
<1>2. CASE Preflight(q) \/ ReleaseReads(q)
  <2>1. PICK pc \in {"unlock", "record", "delete", "idle"} : Goes(q, pc)
    BY <1>2 DEF Preflight, ReleaseReads
  <2>2. UNCHANGED initLock
    BY <1>2 DEF Preflight, ReleaseReads
  <2> DEFINE r == [req[q] EXCEPT !.pc = pc]
  <2>3. req' = [req EXCEPT ![q] = r] /\ r.pc = pc /\ r.run = req[q].run
    BY <2>1, GoesAsUpdate
  <2> HIDE DEF r
  <2>4. r.pc \notin Starting
    BY <2>3 DEF Starting
  <2> QED BY <1>0, <1>1, <2>2, <2>3, <2>4, RequestKeepsLock
<1>3. CASE ReleaseDeletes(q)
  BY <1>0, <1>1, <1>3, RequestFrees, IdleFacts DEF ReleaseDeletes, Finish
<1>4. CASE RecordStart(q)
  <2>1. PICK pc \in Starting : Goes(q, pc) /\ (pc = "enqueue" => rqEnabled)
    BY <1>4 DEF RecordStart, Starting
  <2>2. UNCHANGED initLock /\ row' = [row EXCEPT !.state = "INITIALIZING", !.sel = [req[q].seen.sel EXCEPT !.run = req[q].run]]
    BY <1>4 DEF RecordStart, upsert
  <2>3. req[q].seen.sel \in Selections /\ req[q].run \in InitRuns
    BY <1>4 DEF RecordStart, OnbInv, RequestsOK, RequestType, Rows, HasRun, RunPhases
  <2>4. row'.state \in Begun /\ row'.sel.run # NoInitRun
    BY <2>2, <2>3, OnboardingAssumption DEF Begun, OnbInv, Rows, Selections
  <2> DEFINE r == [req[q] EXCEPT !.pc = pc]
  <2>5. req' = [req EXCEPT ![q] = r] /\ r.pc = pc /\ r.run = req[q].run
    BY <2>1, GoesAsUpdate
  <2> HIDE DEF r
  <2> QED BY <1>0, <1>1, <2>1, <2>2, <2>4, <2>5, RequestKeepsLock
<1> QED BY <1>2, <1>3, <1>4

\* A pipeline begins under the lock of the request that starts it.
LEMMA BeginKeepsLock ==
  ASSUME OnbInv, LockInv, OneRequest, NEW q \in Requests, UNCHANGED <<rqEnabled, row, initLock>>,
         req[q].pc \in Starting, Begin(q), NEW r, req' = [req EXCEPT ![q] = r],
         r.pc = "idle" \/ (r.pc = "register" /\ rqEnabled /\ r.run = req[q].run)
  PROVE  LockInv'
<1>1. initLock = req[q].run /\ row.state \in Begun /\ row.sel.run # NoInitRun
  BY DEF LockInv, RequestHolds, Holding, Starting
<1>2. req[q].run \in InitRuns
  BY DEF OnbInv, RequestsOK, HasRun, RunPhases, Starting
<1>3. pipe'[req[q].run].pc = "begin" /\ \A i \in InitRuns \ {req[q].run} : pipe'[i] = pipe[i]
  BY <1>2 DEF Begin, NoPipe, OnbInv, PipesOK
<1>4. LiveHolds'
  BY <1>1, <1>3 DEF LockInv, LiveHolds, Active
<1>5. WritesRun'
  BY <1>3 DEF LockInv, WritesRun
<1>6. req'[q] = r
  BY DEF OnbInv, RequestsOK
<1>7. RequestHolds(q)'
  BY <1>1, <1>6 DEF RequestHolds, Holding, Starting
<1>8. \A p \in Requests : p = q
  BY DEF OneRequest
<1> QED BY <1>4, <1>5, <1>7, <1>8 DEF LockInv

LEMMA StartKeepsLock ==
  ASSUME OnbInv, LockInv, OneRequest, NEW q \in Requests, UNCHANGED rqEnabled,
         EnqueueInit(q) \/ Register(q)
  PROVE  LockInv'
<1>1. CASE EnqueueInit(q)
  <2>0. rqEnabled
    BY <1>1 DEF EnqueueInit, LockInv, RequestHolds, Starting
  <2> DEFINE r == [req[q] EXCEPT !.pc = "register"]
  <2>1. req' = [req EXCEPT ![q] = r] /\ r.pc = "register" /\ r.run = req[q].run
    BY <1>1, GoesAsUpdate DEF EnqueueInit
  <2> HIDE DEF r
  <2> QED BY <1>1, <2>0, <2>1, BeginKeepsLock DEF EnqueueInit, Starting
<1>2. CASE Register(q)
  <2>1. req[q].pc = "register" /\ UNCHANGED <<row, initLock>> /\ req' = [req EXCEPT ![q] = IdleRequest]
    BY <1>2 DEF Register, Finish
  <2>2. CASE UNCHANGED pipe
    BY <2>1, <2>2, SameRow, RequestFrees, IdleFacts
  <2>3. CASE Begin(q)
    BY <2>1, <2>3, BeginKeepsLock, IdleFacts DEF Starting
  <2> QED BY <1>2, <2>2, <2>3 DEF Register
<1> QED BY <1>1, <1>2

\* A step of a pipeline: it was live, the lock is left alone or given back as the
\* pipeline ends.
LEMMA PipelineKeepsLock ==
  ASSUME OnbInv, LockInv, NEW i \in InitRuns, NEW r, UNCHANGED <<req, rqEnabled>>,
         Active(i), StaysBegun, pipe' = [pipe EXCEPT ![i] = r],
         \/ UNCHANGED initLock
         \/ ~rqEnabled /\ r.pc \in {"done", "dead"},
         r.pc \in {"store", "commit"} => r.seen.run # NoInitRun,
         r.pc = "delete" => ~rqEnabled
  PROVE  LockInv'
<1>1. initLock = i /\ row.state \in Begun /\ row.sel.run # NoInitRun
  BY DEF LockInv, LiveHolds
<1>2. row'.state \in Begun /\ row'.sel.run # NoInitRun
  BY <1>1 DEF StaysBegun
<1>3. pipe'[i] = r /\ \A j \in InitRuns \ {i} : pipe'[j] = pipe[j]
  BY DEF OnbInv, PipesOK
<1>4. \A j \in InitRuns \ {i} : ~Active(j)
  BY <1>1 DEF LockInv, LiveHolds
<1>5. LiveHolds'
  <2> SUFFICES ASSUME NEW j \in InitRuns, Active(j)' PROVE initLock' = j
    BY <1>2 DEF LiveHolds
  <2>1. j = i
    BY <1>3, <1>4 DEF Active
  <2>2. r.pc \notin {"done", "dead"}
    BY <1>3, <2>1 DEF Active
  <2> QED BY <1>1, <2>1, <2>2
<1>6. WritesRun'
  BY <1>3 DEF LockInv, WritesRun
<1>7. ~Quiet
  BY DEF Quiet
<1>8. ASSUME NEW q \in Requests PROVE RequestHolds(q)'
  <2>1. RequestHolds(q)
    BY DEF LockInv
  <2>2. req[q].pc \in Holding \cup {"write", "state", "mark", "force"} => rqEnabled /\ req[q].pc = "register"
    BY <1>7, <2>1 DEF RequestHolds
  <2> QED BY <1>2, <2>1, <2>2 DEF RequestHolds
<1> QED BY <1>5, <1>6, <1>8 DEF LockInv

LEMMA RowStays ==
  ASSUME row \in Rows, NEW s \in Selections
  PROVE  /\ mark_failed => StaysBegun
         /\ upsert_selection(s) /\ s.run # NoInitRun => StaysBegun
         /\ mark_step_and_set_state("initialization", "COMPLETED", s) /\ s.run # NoInitRun => StaysBegun
<1>1. mark_failed => StaysBegun
  BY DEF mark_failed, StaysBegun, Begun, Rows
<1>2. upsert_selection(s) /\ s.run # NoInitRun => StaysBegun
  BY DEF upsert_selection, StaysBegun, Rows
<1>3. mark_step_and_set_state("initialization", "COMPLETED", s) /\ s.run # NoInitRun => StaysBegun
  BY DEF mark_step_and_set_state, StaysBegun, Begun, Rows
<1> QED BY <1>1, <1>2, <1>3

\* The pipeline only goes to another phase.
LEMMA PhaseKeepsLock ==
  ASSUME OnbInv, LockInv, NEW i \in InitRuns, NEW pc, UNCHANGED <<req, rqEnabled, initLock>>,
         Active(i), StaysBegun, At(i, pc), pc \notin {"store", "commit"}, pc = "delete" => ~rqEnabled
  PROVE  LockInv'
<1> DEFINE r == [pipe[i] EXCEPT !.pc = pc]
<1>1. pipe' = [pipe EXCEPT ![i] = r] /\ r.pc = pc
  BY DEF At, OnbInv, PipesOK, PipeType
<1> HIDE DEF r
<1> QED BY <1>1, PipelineKeepsLock

LEMMA PipelineStepsKeepLock ==
  ASSUME OnbInv, LockInv, NEW i \in InitRuns, UNCHANGED rqEnabled,
         OnbPipeline(i) \/ PipelineDies(i) \/ _set_job_status(i)
  PROVE  LockInv'
<1>0. pipe[i] \in PipeType /\ pipe \in [InitRuns -> PipeType] /\ row \in Rows /\ row.sel \in Selections
  BY DEF OnbInv, PipesOK, Rows
<1>a. Active(i) /\ UNCHANGED req
  BY DEF OnbPipeline, PipelineBegins, StageLoads, _update_stage, StageRuns, FinalLoads, FinalCommits, PipelineFails,
     _run_background, release_init_lock, PipelineDeletes, PipelineDies, _set_job_status, Active
<1>r. row.sel.run # NoInitRun
  BY <1>a DEF LockInv, LiveHolds
<1>1. CASE PipelineBegins(i)
  <2>1. UNCHANGED <<row, initLock>>
    BY <1>1 DEF PipelineBegins
  <2>2. CASE At(i, "fail")
    BY <1>a, <2>1, <2>2, SameRow, PhaseKeepsLock
  <2>3. CASE pipe' = [pipe EXCEPT ![i].pc = "load", ![i].stage = 1]
    <3> DEFINE r == [pipe[i] EXCEPT !.pc = "load", !.stage = 1]
    <3>1. pipe' = [pipe EXCEPT ![i] = r] /\ r.pc = "load"
      BY <1>0, <2>3 DEF PipeType
    <3> HIDE DEF r
    <3> QED BY <1>a, <2>1, <3>1, SameRow, PipelineKeepsLock
  <2> QED BY <1>1, <2>2, <2>3 DEF PipelineBegins
<1>2. CASE StageLoads(i)
  <2> DEFINE r == [pipe[i] EXCEPT !.pc = "store", !.seen = row.sel]
  <2>1. pipe' = [pipe EXCEPT ![i] = r] /\ r.pc = "store" /\ r.seen = row.sel /\ UNCHANGED <<row, initLock>>
    BY <1>0, <1>2 DEF PipeType, StageLoads
  <2> HIDE DEF r
  <2> QED BY <1>a, <1>r, <2>1, SameRow, PipelineKeepsLock
<1>3. CASE _update_stage(i)
  <2>1. pipe[i].seen.run # NoInitRun /\ pipe[i].seen \in Selections /\ pipe[i].stage \in Nat
    BY <1>0, <1>3 DEF _update_stage, LockInv, WritesRun, PipeType
  <2> DEFINE s == [pipe[i].seen EXCEPT !.stage = pipe[i].stage]
             r == [pipe[i] EXCEPT !.pc = "work", !.seen = NoSelection]
  <2>2. s \in Selections /\ s.run # NoInitRun
    BY <2>1 DEF Selections
  <2>3. upsert_selection(s) /\ UNCHANGED initLock
    BY <1>3 DEF _update_stage
  <2>4. pipe' = [pipe EXCEPT ![i] = r] /\ r.pc = "work"
    BY <1>0, <1>3 DEF PipeType, _update_stage
  <2> HIDE DEF r, s
  <2>5. StaysBegun
    BY <1>0, <2>2, <2>3, RowStays
  <2> QED BY <1>a, <2>3, <2>4, <2>5, PipelineKeepsLock
<1>4. CASE StageRuns(i)
  <2>1. PICK o \in StageOutcomes(i) :
          pipe' = [pipe EXCEPT ![i].pc    = IF o = "raise" THEN "fail"
                                            ELSE IF pipe[i].stage = 5 THEN "final" ELSE "load",
                               ![i].stage = IF o = "raise" \/ @ = 5 THEN @ ELSE @ + 1,
                               ![i].docs  = @ \/ o = "documents"]
    BY <1>4 DEF StageRuns
  <2> DEFINE pc == IF o = "raise" THEN "fail" ELSE IF pipe[i].stage = 5 THEN "final" ELSE "load"
             st == IF o = "raise" \/ pipe[i].stage = 5 THEN pipe[i].stage ELSE pipe[i].stage + 1
             dc == pipe[i].docs \/ o = "documents"
             r == [pipe[i] EXCEPT !.pc = pc, !.stage = st, !.docs = dc]
  <2>2. pipe' = [pipe EXCEPT ![i] = r]
    BY <1>0, <2>1
  <2>3. r.pc = pc
    BY <1>0 DEF PipeType
  <2>4. pc \in {"fail", "final", "load"}
    OBVIOUS
  <2>5. UNCHANGED <<row, initLock>>
    BY <1>4 DEF StageRuns
  <2> HIDE DEF r, pc, st, dc
  <2> QED BY <1>a, <2>2, <2>3, <2>4, <2>5, SameRow, PipelineKeepsLock
<1>5. CASE FinalLoads(i)
  <2> DEFINE r == [pipe[i] EXCEPT !.pc = "commit", !.seen = row.sel]
  <2>1. pipe' = [pipe EXCEPT ![i] = r] /\ r.pc = "commit" /\ r.seen = row.sel /\ UNCHANGED <<row, initLock>>
    BY <1>0, <1>5 DEF PipeType, FinalLoads
  <2> HIDE DEF r
  <2> QED BY <1>a, <1>r, <2>1, SameRow, PipelineKeepsLock
<1>6. CASE FinalCommits(i)
  <2>1. pipe[i].seen.run # NoInitRun /\ pipe[i].seen \in Selections /\ pipe[i].docs \in BOOLEAN
    BY <1>0, <1>6 DEF FinalCommits, LockInv, WritesRun, PipeType
  <2> DEFINE s == [pipe[i].seen EXCEPT !.docs = pipe[i].docs]
             r == [pipe[i] EXCEPT !.pc = "completed", !.seen = NoSelection]
  <2>2. s \in Selections /\ s.run # NoInitRun
    BY <2>1 DEF Selections
  <2>3. mark_step_and_set_state("initialization", "COMPLETED", s) /\ UNCHANGED initLock
    BY <1>6 DEF FinalCommits
  <2>4. pipe' = [pipe EXCEPT ![i] = r] /\ r.pc = "completed"
    BY <1>0, <1>6 DEF PipeType, FinalCommits
  <2> HIDE DEF r, s
  <2>5. StaysBegun
    BY <1>0, <2>2, <2>3, RowStays
  <2> QED BY <1>a, <2>3, <2>4, <2>5, PipelineKeepsLock
<1>7. CASE PipelineFails(i) \/ _run_background(i)
  <2>1. StaysBegun
    BY <1>0, <1>7, RowStays DEF PipelineFails, _run_background
  <2>2. UNCHANGED initLock /\ (At(i, "failed") \/ At(i, "unlock"))
    BY <1>7 DEF PipelineFails, _run_background
  <2> QED BY <1>a, <2>1, <2>2, PhaseKeepsLock
<1>8. CASE _set_job_status(i)
  <2>1. UNCHANGED <<row, initLock>> /\ (At(i, "refail") \/ At(i, "unlock"))
    BY <1>8 DEF _set_job_status
  <2> QED BY <1>a, <2>1, SameRow, PhaseKeepsLock
<1>9. CASE release_init_lock(i)
  <2>1. UNCHANGED <<row, initLock>> /\ ((At(i, "delete") /\ ~rqEnabled) \/ At(i, "done"))
    BY <1>9 DEF release_init_lock, Matches
  <2> QED BY <1>a, <2>1, SameRow, PhaseKeepsLock
<1>10. CASE PipelineDeletes(i)
  <2> DEFINE r == [NoPipe EXCEPT !.pc = "done"]
  <2>1. pipe' = [pipe EXCEPT ![i] = r] /\ r.pc = "done" /\ UNCHANGED row
    BY <1>10 DEF PipelineDeletes, NoPipe
  <2>2. ~rqEnabled
    BY <1>10 DEF PipelineDeletes, LockInv, WritesRun
  <2> HIDE DEF r
  <2> QED BY <1>a, <2>1, <2>2, SameRow, PipelineKeepsLock
<1>11. CASE PipelineDies(i)
  <2> DEFINE r == [NoPipe EXCEPT !.pc = "dead"]
  <2>1. pipe' = [pipe EXCEPT ![i] = r] /\ r.pc = "dead" /\ UNCHANGED <<row, initLock>>
    BY <1>11 DEF PipelineDies, NoPipe
  <2> HIDE DEF r
  <2> QED BY <1>a, <2>1, SameRow, PipelineKeepsLock
<1> QED BY <1>1, <1>2, <1>3, <1>4, <1>5, <1>6, <1>7, <1>8, <1>9, <1>10, <1>11 DEF OnbPipeline

\* The lock expires under nobody.
LEMMA ExpiryKeepsLock ==
  ASSUME OnbInv, LockInv, UNCHANGED rqEnabled, LockExpires
  PROVE  LockInv'
<1>1. \A i \in InitRuns : Active(i)' <=> Active(i)
  BY DEF LockExpires, Active
<1>2. Quiet
  BY DEF Quiet, LockExpires, LockInv, LiveHolds
<1>3. LiveHolds' /\ WritesRun' /\ Quiet'
  BY <1>1, <1>2 DEF LiveHolds, WritesRun, Quiet, LockInv, LockExpires
<1>4. ASSUME NEW q \in Requests PROVE RequestHolds(q)'
  <2>1. RequestHolds(q) /\ req[q].run # initLock /\ UNCHANGED <<req, row>>
    BY DEF LockInv, LockExpires
  <2>2. req[q].pc \notin Holding
    BY <2>1 DEF RequestHolds
  <2> QED BY <1>3, <2>1, <2>2 DEF RequestHolds, Starting, Holding
<1> QED BY <1>3, <1>4 DEF LockInv

LEMMA LockSteps ==
  ASSUME OneRequest
  PROVE  OnbInv /\ LockInv /\ [OnbNext]_onbVars => LockInv'
<1> SUFFICES ASSUME OnbInv, LockInv, [OnbNext]_onbVars PROVE LockInv'
  OBVIOUS
<1>1. CASE UNCHANGED onbVars
  BY <1>1 DEF onbVars, LockInv, LiveHolds, WritesRun, RequestHolds, Active, Quiet
<1>2. CASE OnbNext
  <2>0. UNCHANGED rqEnabled
    BY <1>2 DEF OnbNext
  <2>1. ASSUME NEW q \in Requests, OnbRequest(q) \/ RequestDies(q) \/ Register(q) PROVE LockInv'
    BY <2>0, <2>1, WizardKeepsLock, CompletionKeepsLock, AcquisitionKeepsLock, HolderKeepsLock, StartKeepsLock
       DEF OnbRequest
  <2>2. ASSUME NEW i \in InitRuns, OnbPipeline(i) \/ PipelineDies(i) \/ _set_job_status(i) PROVE LockInv'
    BY <2>0, <2>2, PipelineStepsKeepLock
  <2>3. CASE LockExpires
    BY <2>0, <2>3, ExpiryKeepsLock
  <2>4. CASE OnboardingRests
    BY <1>1, <2>4 DEF OnboardingRests
  <2> QED BY <1>2, <2>1, <2>2, <2>3, <2>4 DEF OnbNext
<1> QED BY <1>1, <1>2

\* For any number of runs and faults, in both deployments, while the organisation's
\* requests come one at a time: no two pipelines are ever at work together ("a
\* mid-run refresh cannot start a duplicate pipeline", routes/onboarding.py).
THEOREM PipelinesAlone ==
  ASSUME OneRequest
  PROVE  OnbSpec => []OnePipeline
<1>1. OnbInit => OnbInv /\ LockInv
  BY OnbStarts, LockStarts
<1>2. (OnbInv /\ LockInv) /\ [OnbNext]_onbVars => (OnbInv /\ LockInv)'
  BY OnbSteps, LockSteps
<1>3. LockInv => OnePipeline
  BY DEF LockInv, LiveHolds, OnePipeline
<1> QED BY <1>1, <1>2, <1>3, PTL DEF OnbSpec
=============================================================================
