---------------------------- MODULE ModelRouting ----------------------------
(***************************************************************************)
(* Choice of a model for a role and failover between providers             *)
(* (models/router.py, constraints.py, health.py, policies.py,              *)
(* integrations/strands/models.py, models/embeddings.py).  Scores are      *)
(* abstract: any candidate that passes the constraints may come first.     *)
(***************************************************************************)
EXTENDS Naturals, FiniteSets, FiniteSetsExt

CONSTANTS
    Providers,        \* registered providers
    Priority,         \* their place in the fallback chain
    Capable,          \* those with a model of the needed capabilities and window
    EnabledProviders, \* DRAFTLY_ENABLED_PROVIDERS
    SpaceOf,          \* the embedding model_id each provider serves
    ModelCalls,       \* agents' model calls, each with a model of its own
    ResolveCalls,     \* resolve_capability calls
    EmbedCalls,       \* embed and embed_batch calls
    FailureThreshold, \* ProviderHealth.failure_threshold
    MaxFailovers,     \* PaymentAwareModel._MAX_FAILOVERS
    MaxAttemptsOf     \* RoutingPolicy.max_attempts

ASSUME RoutingAssumption ==
    /\ IsFiniteSet(Providers) /\ Capable \subseteq Providers
    /\ EnabledProviders \subseteq Providers
    /\ Priority \in [Providers -> Nat]
    /\ {FailureThreshold, MaxFailovers, MaxAttemptsOf} \subseteq Nat

VARIABLES
    health,   \* ProviderHealth of the model router, per provider
    embedding,\* ProviderHealth of the embedding router, per provider
    model,    \* per model call: the wrapper and how far the call is
    resolve,  \* per resolve call: providers tried and outcome
    embed     \* per embed call: providers tried and the space of the vector

routeVars == <<health, embedding, model, resolve, embed>>

\* _classify_failure; "error" stands for what it takes for a timeout by default.
Failures == {"timeout", "error", "rate_limit", "service_unavailable",
             "authentication", "payment_required", "invalid_request"}

FALLBACK_FAILURES  == {"rate_limit", "service_unavailable", "payment_required"}
DISABLING_FAILURES == {"authentication", "payment_required"}

-----------------------------------------------------------------------------
(* ProviderHealth.                                                         *)

Healthy  == [failures |-> 0, healthy |-> TRUE, disabled |-> FALSE]
Disabled(h) == [h EXCEPT !.disabled = TRUE, !.healthy = FALSE]

RecordFailure(h) ==
    LET n == Min({h.failures + 1, FailureThreshold})
    IN [failures |-> n, healthy |-> FALSE, disabled |-> h.disabled \/ n >= FailureThreshold]

RecordSuccess(h) == [h EXCEPT !.failures = 0, !.healthy = TRUE]

Available(h) == ~h.disabled /\ h.healthy

\* available() finds that cooldown_seconds have passed since the last failure.
Cooldown(p) ==
    \/ /\ ~health[p].healthy /\ ~health[p].disabled
       /\ health' = [health EXCEPT ![p].healthy = TRUE]
       /\ UNCHANGED <<embedding, model, resolve, embed>>
    \/ /\ ~embedding[p].healthy /\ ~embedding[p].disabled
       /\ embedding' = [embedding EXCEPT ![p].healthy = TRUE]
       /\ UNCHANGED <<health, model, resolve, embed>>

-----------------------------------------------------------------------------
(* ModelRouter.route and the wrapper around the chosen model.              *)

\* Mutant: the provider gate is left out of the pipeline.
Ungated(h) == {p \in Capable : Available(h[p])}

\* filter_candidates: the hard constraints; the soft budgets only narrow.
Candidates(h) == {p \in Capable \cap EnabledProviders : Available(h[p])}

Unbound == [provider |-> "none", inner |-> "none", attempt |-> 0, pc |-> "new", failed |-> "none"]

RouteInit ==
    /\ health    = [p \in Providers |-> Healthy]
    /\ embedding = [p \in Providers |-> Healthy]
    /\ model     = [c \in ModelCalls |-> Unbound]
    /\ resolve   = [c \in ResolveCalls |-> [tried |-> {}, pc |-> "running"]]
    /\ embed     = [c \in EmbedCalls |-> [tried |-> {}, pc |-> "running", space |-> "none"]]

\* for_role_with_decision: no candidate means no model, and no error.
ForRole(c) ==
    /\ model[c].pc = "new"
    /\ IF Candidates(health) = {}
       THEN model' = [model EXCEPT ![c].pc = "offline"]
       ELSE \E p \in Candidates(health) :
              model' = [model EXCEPT ![c].provider = p, ![c].inner = p, ![c].pc = "calling"]
    /\ UNCHANGED <<health, embedding, resolve, embed>>

StreamEnds(c) ==
    /\ model[c].pc = "calling"
    /\ model' = [model EXCEPT ![c].pc = "answered"]
    /\ UNCHANGED <<health, embedding, resolve, embed>>

\* _failover: the provider the wrapper was built with is penalised, the role is
\* routed again, and the inner model is replaced.
Failover(c, failure) ==
    LET blamed == model[c].provider
        h      == [health EXCEPT ![blamed] = IF failure \in DISABLING_FAILURES THEN Disabled(@)
                                             ELSE RecordFailure(@)]
    IN /\ health' = h
       /\ IF Candidates(h) = {}
          THEN model' = [model EXCEPT ![c].pc = "raised", ![c].failed = model[c].inner]
          ELSE \E p \in Candidates(h) :
                 model' = [model EXCEPT ![c].inner = p, ![c].attempt = @ + 1,
                                        ![c].failed = model[c].inner]

\* _stream_with_failover: a truncated stream fails over like a rate limit.
StreamFails(c) ==
    /\ model[c].pc = "calling"
    /\ \E failure \in Failures :
         IF model[c].attempt >= MaxFailovers \/ failure \notin FALLBACK_FAILURES \cup {"timeout"}
         THEN model' = [model EXCEPT ![c].pc = "raised"] /\ UNCHANGED health
         ELSE Failover(c, failure)
    /\ UNCHANGED <<embedding, resolve, embed>>

-----------------------------------------------------------------------------
(* ModelRouter.resolve: candidates in order, one attempt each.             *)

Untried(h, S, tried) == {p \in S \ tried : Available(h[p])}
Next1(S)             == {p \in S : \A q \in S : Priority[p] <= Priority[q]}

ResolveTry(c) ==
    /\ resolve[c].pc = "running"
    /\ LET left == Untried(health, Capable, resolve[c].tried)
       IN IF left = {} \/ Cardinality(resolve[c].tried) >= MaxAttemptsOf
          THEN resolve' = [resolve EXCEPT ![c].pc = "raised"] /\ UNCHANGED health
          ELSE \E p \in Next1(left) :
                 \/ /\ health'  = [health EXCEPT ![p] = RecordSuccess(@)]
                    /\ resolve' = [resolve EXCEPT ![c].pc = "resolved"]
                 \/ \E failure \in Failures :
                      /\ health' = [health EXCEPT ![p] =
                            IF failure \in DISABLING_FAILURES THEN Disabled(@)
                            ELSE IF failure = "invalid_request" THEN @
                            ELSE RecordFailure(@)]
                      /\ resolve' = [resolve EXCEPT ![c].tried = @ \cup {p},
                            ![c].pc = IF failure = "invalid_request" THEN "raised" ELSE @]
    /\ UNCHANGED <<embedding, model, embed>>

-----------------------------------------------------------------------------
(* EmbeddingRouter.                                                        *)

\* _ordered_candidates: only the providers that serve the first one's model.
EmbedCandidates ==
    {p \in EnabledProviders : \A q \in Next1(EnabledProviders) : SpaceOf[p] = SpaceOf[q]}

\* embed and embed_batch: payment failures only count, they do not disable; a
\* vector of the wrong length raises before the success is recorded.
EmbedTry(c) ==
    /\ embed[c].pc = "running"
    /\ LET left == Untried(embedding, EmbedCandidates, embed[c].tried)
       IN IF left = {}
          THEN embed' = [embed EXCEPT ![c].pc = "raised"] /\ UNCHANGED embedding
          ELSE \E p \in Next1(left) :
                 \/ /\ embedding' = [embedding EXCEPT ![p] = RecordSuccess(@)]
                    /\ embed' = [embed EXCEPT ![c].pc = "embedded", ![c].space = SpaceOf[p]]
                 \/ /\ embed' = [embed EXCEPT ![c].pc = "raised"]   \* dimensions, bad request
                    /\ UNCHANGED embedding
                 \/ \E failure \in Failures \ {"invalid_request"} :
                      /\ embedding' = [embedding EXCEPT ![p] =
                            IF failure = "authentication" THEN Disabled(@) ELSE RecordFailure(@)]
                      /\ embed' = [embed EXCEPT ![c].tried = @ \cup {p}]
    /\ UNCHANGED <<health, model, resolve>>

-----------------------------------------------------------------------------

CallStep ==
    \/ \E c \in ModelCalls : ForRole(c) \/ StreamEnds(c) \/ StreamFails(c)
    \/ \E c \in ResolveCalls : ResolveTry(c)
    \/ \E c \in EmbedCalls : EmbedTry(c)

Routed ==
    /\ \A c \in ModelCalls : model[c].pc \in {"offline", "answered", "raised"}
    /\ \A c \in ResolveCalls : resolve[c].pc # "running"
    /\ \A c \in EmbedCalls : embed[c].pc # "running"
    /\ UNCHANGED routeVars

RouteNext == CallStep \/ (\E p \in Providers : Cooldown(p)) \/ Routed

RouteSpec == RouteInit /\ [][RouteNext]_routeVars

-----------------------------------------------------------------------------
(* Properties.                                                             *)

\* However many providers fail, a failover lands where it may: rotation stays
\* "bounded by DRAFTLY_ENABLED_PROVIDERS" (PaymentAwareModel), and two vectors of
\* a process can be compared, since all candidates serve the "same vector space"
\* (EmbeddingRouter).
FailoverIsContained ==
    /\ \A c \in ModelCalls : model[c].inner \in EnabledProviders \cup {"none"}
    /\ \A c, d \in EmbedCalls :
          "none" \notin {embed[c].space, embed[d].space} => embed[c].space = embed[d].space
=============================================================================
