--------------------------- MODULE InstallationTokens ---------------------------
(***************************************************************************)
(* The installation-token cache of integrations/github/app_auth.py: every  *)
(* GitHub request of the process asks get_installation_token, which mints  *)
(* a token under one lock when the cached one has run out.                 *)
(*                                                                         *)
(* Time runs in quarters of an hour: a token is good for TokenLife of them *)
(* and cached for TokenTTL.  A mint has a ten-second timeout, so no        *)
(* quarter ends during one.                                                *)
(***************************************************************************)
EXTENDS Naturals, FiniteSets

CONSTANTS
  TokenInstalls, \* installations
  TokenCallers,  \* concurrent GitHub requests of one process (a bound)
  TokenTTL,      \* _TOKEN_TTL_SECONDS, in quarters of an hour
  TokenLife,     \* GitHub's hour
  MaxQuarters    \* bounds the clock

ASSUME TokenAssumption ==
  /\ {TokenTTL, TokenLife, MaxQuarters} \subseteq Nat
  /\ TokenTTL <= TokenLife /\ TokenLife > 0

VARIABLES
  quarter,    \* time.monotonic()
  tokenCache, \* _token_cache: when the installation's token was minted, or NotCached
  tokenLock,  \* _token_cache_lock: its holder, or Unlocked
  caller,     \* the requests: pc, installation, the minting time of what they got
  minted      \* every mint: <<installation, quarter, how many before it>>

tokenVars == <<quarter, tokenCache, tokenLock, caller, minted>>

NotCached == 0
Unlocked == "free"

ASSUME UnlockedAssumption == Unlocked \notin TokenCallers

IdleCaller == [pc |-> "idle", inst |-> "none", token |-> NotCached]

TokenInit ==
  /\ quarter = 1
  /\ tokenCache = [i \in TokenInstalls |-> NotCached]
  /\ tokenLock = Unlocked
  /\ caller = [c \in TokenCallers |-> IdleCaller]
  /\ minted = {}

CacheIsFresh(i) == tokenCache[i] # NotCached /\ tokenCache[i] + TokenTTL > quarter

HandOut(c, i, token) == caller' = [caller EXCEPT ![c] = [pc |-> "using", inst |-> i, token |-> token]]

\* The unlocked read: a hit returns, a miss goes on to wait for the lock.
get_installation_token(c, i) ==
  /\ caller[c].pc = "idle"
  /\ IF CacheIsFresh(i)
       THEN HandOut(c, i, tokenCache[i])
       ELSE caller' = [caller EXCEPT ![c] = [pc |-> "wait", inst |-> i, token |-> NotCached]]
  /\ UNCHANGED <<quarter, tokenCache, tokenLock, minted>>

AcquireTokenLock(c) ==
  /\ caller[c].pc = "wait" /\ tokenLock = Unlocked
  /\ tokenLock' = c
  /\ caller' = [caller EXCEPT ![c].pc = "locked"]
  /\ UNCHANGED <<quarter, tokenCache, minted>>

\* Mutant of FreshUnderLock: the lock is taken but the cache is not read again.
NeverRechecks(i) == FALSE

FreshUnderLock(i) == CacheIsFresh(i)

\* The second read: another request may have minted while this one waited.
Recheck(c) ==
  /\ caller[c].pc = "locked"
  /\ IF FreshUnderLock(caller[c].inst)
       THEN tokenLock' = Unlocked /\ HandOut(c, caller[c].inst, tokenCache[caller[c].inst])
       ELSE caller' = [caller EXCEPT ![c].pc = "mint"] /\ UNCHANGED tokenLock
  /\ UNCHANGED <<quarter, tokenCache, minted>>

\* A failed mint raises out of the lock and caches nothing.
_mint_installation_token(c) ==
  /\ caller[c].pc = "mint"
  /\ tokenLock' = Unlocked
  /\ LET i == caller[c].inst IN
     \/ /\ tokenCache' = [tokenCache EXCEPT ![i] = quarter]
        /\ minted' = minted \cup {<<i, quarter, Cardinality({m \in minted : m[1] = i})>>}
        /\ HandOut(c, i, quarter)
     \/ /\ caller' = [caller EXCEPT ![c] = IdleCaller]
        /\ UNCHANGED <<tokenCache, minted>>
  /\ UNCHANGED quarter

\* The request is made with the token it was given.
_request(c) ==
  /\ caller[c].pc = "using"
  /\ caller' = [caller EXCEPT ![c] = IdleCaller]
  /\ UNCHANGED <<quarter, tokenCache, tokenLock, minted>>

\* credential rotation; nothing calls it while a request waits for the lock
clear_installation_token_cache ==
  /\ \A c \in TokenCallers : caller[c].pc = "idle"
  /\ tokenCache' = [i \in TokenInstalls |-> NotCached]
  /\ minted' = {}
  /\ UNCHANGED <<quarter, tokenLock, caller>>

QuarterEnds ==
  /\ quarter < MaxQuarters
  /\ \A c \in TokenCallers : caller[c].pc \in {"idle", "wait"}
  /\ quarter' = quarter + 1
  /\ UNCHANGED <<tokenCache, tokenLock, caller, minted>>

CallerStep(c) == AcquireTokenLock(c) \/ Recheck(c) \/ _mint_installation_token(c) \/ _request(c)

TokenNext ==
  \/ \E c \in TokenCallers : CallerStep(c) \/ \E i \in TokenInstalls : get_installation_token(c, i)
  \/ clear_installation_token_cache
  \/ QuarterEnds

TokenSpec == TokenInit /\ [][TokenNext]_tokenVars

-----------------------------------------------------------------------------
\* An installation has one token at a time, and whoever is given it has a quarter
\* of an hour left to use it: of two requests that miss the cache together one
\* mints and the other takes its token, and no two mints of an installation fall
\* into one cached life (app_auth.py, "One mint at a time per process").
OneLiveToken ==
  /\ \A m1, m2 \in minted : m1[1] = m2[1] /\ m1[3] < m2[3] => m1[2] + TokenTTL <= m2[2]
  /\ \A c \in TokenCallers : caller[c].pc = "using" => caller[c].token + TokenLife > quarter
=============================================================================
