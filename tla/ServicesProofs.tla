--------------------------- MODULE ServicesProofs ---------------------------
(***************************************************************************)
(* Proofs about what runs beside the documentation workflow: support       *)
(* questions, the process itself, evaluation runs, the audit trail, the    *)
(* dashboard's stream and a run's, the paged list of reviews and its       *)
(* notices, memory, and workflow definitions.  Each component has an       *)
(* inductive invariant of its own.                                         *)
(***************************************************************************)
EXTENDS Evaluation, Memory, Support, ReviewQueue, ReviewNotices, Streams, Dashboard, AgentAudit,
        WorkflowDefinitions, AppLifecycle, FiniteSetTheorems, WellFoundedInduction, TLAPS

-----------------------------------------------------------------------------
(* Numbers.                                                                *)

LEMMA NatMin ==
  ASSUME NEW T \in SUBSET Nat, T # {}
  PROVE  \E x \in T : \A y \in T : x <= y
<1> DEFINE R == {ss \in Nat \X Nat : ss[1] < ss[2]}
<1>0. IsWellFoundedOn(R, Nat)
  BY NatLessThanWellFounded DEF OpToRel
<1> HIDE DEF R
<1>1. PICK x \in T : \A y \in T : ~(<<y, x>> \in R)
  BY <1>0, WFMin
<1> USE DEF R
<1>2. \A y \in T : ~(y < x)
  BY <1>1
<1> QED BY <1>2

LEMMA BoundedMax ==
  ASSUME NEW N \in Nat, NEW S \in SUBSET (1..N), S # {}
  PROVE  \E r \in S : \A x \in S : x <= r
<1> DEFINE T == {n \in Nat : \E x \in S : n = N - x}
<1>0. \A x \in S : x \in Nat /\ x <= N
  OBVIOUS
<1>1. T # {}
  <2>1. PICK x \in S : TRUE
    OBVIOUS
  <2>2. N - x \in T
    BY <1>0, <2>1
  <2> QED BY <2>2
<1>2. T \in SUBSET Nat
  OBVIOUS
<1> HIDE DEF T
<1>3. PICK n \in T : \A m \in T : n <= m
  BY <1>1, <1>2, NatMin
<1> USE DEF T
<1>4. PICK r \in S : n = N - r
  BY <1>3
<1>5. \A x \in S : x <= r
  <2> SUFFICES ASSUME NEW x \in S PROVE x <= r
    OBVIOUS
  <2>1. N - x \in T
    BY <1>0
  <2>2. n <= N - x
    BY <1>3, <2>1
  <2> QED BY <1>0, <1>4, <2>2
<1> QED BY <1>4, <1>5

-----------------------------------------------------------------------------
(* Support.  The row of a message in events is inserted once and never     *)
(* removed, so of all the jobs its deliveries lead to, retries included,   *)
(* one gets past the claim, and it posts before anything else can.         *)

DeliveryType == [pc: {"none", "dropped", "enrich", "enqueue", "queued", "duplicate", "done"} \cup JobPhases,
                 org: Orgs \cup {NoOrg}, tries: Nat]

SupportTypes ==
  /\ linked \in [Platforms -> SUBSET Orgs]
  /\ delivery \in [Deliveries -> DeliveryType]
  /\ claimed \in [Questions -> {"none", "running", "completed"}]
  /\ replies \in [Questions -> Nat]

AtWork(d) == delivery[d].pc \in JobPhases

\* The job at work on a message holds its claim, and is the only one.
ClaimIsHeld == \A d \in Deliveries : AtWork(d) =>
  /\ claimed[d[1]] # "none"
  /\ \A e \in Deliveries : AtWork(e) /\ e[1] = d[1] => e = d

\* Nothing is posted before the claim, nor by a job that has yet to post.
RepliesFollowClaim ==
  /\ \A q \in Questions : claimed[q] = "none" => replies[q] = 0
  /\ \A d \in Deliveries : delivery[d].pc \in {"check", "graph"} => replies[d[1]] = 0

SupportInv == SupportTypes /\ ClaimIsHeld /\ RepliesFollowClaim /\ OneReplyPerMessage

LEMMA SupportStarts == SupportInit => SupportInv
<1> SUFFICES ASSUME SupportInit PROVE SupportInv
  OBVIOUS
<1>1. SupportTypes
  BY DEF SupportInit, SupportTypes, NoDelivery, DeliveryType, Platforms
<1>2. ClaimIsHeld /\ RepliesFollowClaim /\ OneReplyPerMessage
  BY DEF SupportInit, ClaimIsHeld, RepliesFollowClaim, OneReplyPerMessage, AtWork, NoDelivery, JobPhases, Deliveries
<1> QED BY <1>1, <1>2 DEF SupportInv

\* A delivery moves on without claiming or posting.
LEMMA DeliveryMoves ==
  ASSUME SupportInv, NEW d \in Deliveries, NEW r \in DeliveryType,
         delivery' = [delivery EXCEPT ![d] = r], UNCHANGED <<linked, replies>>,
         claimed' \in [Questions -> {"none", "running", "completed"}],
         \A q \in Questions : claimed'[q] = "none" <=> claimed[q] = "none",
         r.pc \in JobPhases => AtWork(d),
         r.pc \in {"check", "graph"} => delivery[d].pc \in {"check", "graph"}
  PROVE  SupportInv'
<1>0. \A e \in Deliveries : e[1] \in Questions
  BY DEF Deliveries
<1>1. SupportTypes'
  BY DEF SupportInv, SupportTypes
<1>2. delivery'[d] = r /\ \A e \in Deliveries : e # d => delivery'[e] = delivery[e]
  BY DEF SupportInv, SupportTypes
<1>3. \A e \in Deliveries : AtWork(e)' => AtWork(e)
  BY <1>2 DEF AtWork
<1>4. ClaimIsHeld'
  BY <1>0, <1>3 DEF SupportInv, ClaimIsHeld
<1>5. RepliesFollowClaim' /\ OneReplyPerMessage'
  BY <1>2 DEF SupportInv, RepliesFollowClaim, OneReplyPerMessage
<1> QED BY <1>1, <1>4, <1>5 DEF SupportInv

\* The same for a step that only changes where the delivery is.
LEMMA AdvanceMoves ==
  ASSUME SupportInv, NEW d \in Deliveries,
         NEW pc \in {"dropped", "enrich", "enqueue", "queued", "duplicate", "done"} \cup JobPhases,
         Advance(d, pc), UNCHANGED <<linked, replies>>,
         claimed' \in [Questions -> {"none", "running", "completed"}],
         \A q \in Questions : claimed'[q] = "none" <=> claimed[q] = "none",
         pc \in JobPhases => AtWork(d),
         pc \in {"check", "graph"} => delivery[d].pc \in {"check", "graph"}
  PROVE  SupportInv'
<1>0. delivery \in [Deliveries -> DeliveryType] /\ delivery[d] \in DeliveryType
  BY DEF SupportInv, SupportTypes
<1> DEFINE r == [delivery[d] EXCEPT !.pc = pc]
<1>1. r \in DeliveryType /\ r.pc = pc
  BY <1>0 DEF DeliveryType
<1>2. delivery' = [delivery EXCEPT ![d] = r]
  BY <1>0 DEF Advance
<1> HIDE DEF r
<1> QED BY <1>1, <1>2, DeliveryMoves

LEMMA DeliverySteps == ASSUME SupportInv, NEW d \in Deliveries, DeliveryStep(d) PROVE SupportInv'
<1>0. delivery \in [Deliveries -> DeliveryType] /\ delivery[d] \in DeliveryType /\ d[1] \in Questions
  BY DEF SupportInv, SupportTypes, Deliveries
<1>c. claimed \in [Questions -> {"none", "running", "completed"}] /\ replies \in [Questions -> Nat]
  BY DEF SupportInv, SupportTypes
<1>m. ASSUME NEW pc \in {"dropped", "enrich", "enqueue", "queued", "duplicate", "done"} \cup JobPhases
      PROVE  /\ [delivery[d] EXCEPT !.pc = pc] \in DeliveryType /\ [delivery[d] EXCEPT !.pc = pc].pc = pc
             /\ Advance(d, pc) => delivery' = [delivery EXCEPT ![d] = [delivery[d] EXCEPT !.pc = pc]]
  <2>1. [delivery[d] EXCEPT !.pc = pc] \in DeliveryType /\ [delivery[d] EXCEPT !.pc = pc].pc = pc
    BY <1>0 DEF DeliveryType
  <2>2. Advance(d, pc) => delivery' = [delivery EXCEPT ![d] = [delivery[d] EXCEPT !.pc = pc]]
    BY <1>0 DEF Advance
  <2> QED BY <2>1, <2>2
<1>1. CASE _dispatch_message(d) \/ handle_message_create(d) \/ enqueue_support_event(d)
  <2>1. PICK pc \in {"dropped", "enrich", "queued"} : Advance(d, pc)
    BY <1>1 DEF _dispatch_message, handle_message_create, enqueue_support_event, Receive
  <2>2. UNCHANGED <<linked, replies, claimed>>
    BY <1>1 DEF _dispatch_message, handle_message_create, enqueue_support_event, Receive
  <2> QED BY <1>c, <1>m, <2>1, <2>2, DeliveryMoves DEF JobPhases
<1>2. CASE enrich_support_event(d)
  <2>1. UNCHANGED <<linked, replies, claimed>>
    BY <1>2 DEF enrich_support_event
  <2>2. CASE Advance(d, "dropped")
    BY <1>c, <2>1, <2>2, AdvanceMoves DEF JobPhases
  <2>3. CASE ~Advance(d, "dropped")
    <3>1. PICK o \in linked[PlatformOf[d[1]]] : delivery' = [delivery EXCEPT ![d].pc = "enqueue", ![d].org = o]
      BY <1>2, <2>3 DEF enrich_support_event
    <3>2. PlatformOf[d[1]] \in Platforms
      BY <1>0, SupportAssumption DEF Platforms
    <3>3. o \in Orgs
      BY <3>2 DEF SupportInv, SupportTypes
    <3> DEFINE r == [delivery[d] EXCEPT !.pc = "enqueue", !.org = o]
    <3>4. r \in DeliveryType /\ r.pc = "enqueue"
      BY <1>0, <3>3 DEF DeliveryType
    <3>5. delivery' = [delivery EXCEPT ![d] = r]
      BY <1>0, <3>1
    <3> QED BY <1>c, <2>1, <3>4, <3>5, DeliveryMoves DEF JobPhases
  <2> QED BY <2>2, <2>3
<1>3. CASE try_claim(d)
  <2>1. CASE claimed[d[1]] # "none"
    <3>1. Advance(d, "duplicate") /\ UNCHANGED <<linked, replies, claimed>>
      BY <1>3, <2>1 DEF try_claim, JobOnly
    <3> QED BY <1>c, <3>1, AdvanceMoves DEF JobPhases
  <2>2. CASE claimed[d[1]] = "none"
    <3>1. /\ Advance(d, "check") /\ claimed' = [claimed EXCEPT ![d[1]] = "running"]
          /\ UNCHANGED <<linked, replies>>
      BY <1>3, <2>2 DEF try_claim, JobOnly
    <3>2. delivery' = [delivery EXCEPT ![d] = [delivery[d] EXCEPT !.pc = "check"]]
      BY <1>m, <3>1 DEF JobPhases
    <3>3. delivery'[d].pc = "check" /\ \A e \in Deliveries : e # d => delivery'[e] = delivery[e]
      BY <1>0, <1>m, <3>2 DEF JobPhases
    <3>4. \A e \in Deliveries : AtWork(e) => e[1] # d[1]
      BY <2>2 DEF SupportInv, ClaimIsHeld
    <3>5. claimed'[d[1]] = "running" /\ \A q \in Questions : q # d[1] => claimed'[q] = claimed[q]
      BY <1>0, <1>c, <3>1
    <3>6. SupportTypes'
      BY <1>0, <1>c, <1>m, <3>1, <3>2 DEF SupportInv, SupportTypes, JobPhases
    <3>7. ClaimIsHeld'
      <4>1. \A e \in Deliveries : AtWork(e)' => e = d \/ (AtWork(e) /\ e[1] # d[1])
        BY <3>3, <3>4 DEF AtWork
      <4>2. \A e \in Deliveries : e[1] \in Questions
        BY DEF Deliveries
      <4> QED BY <3>5, <4>1, <4>2 DEF SupportInv, ClaimIsHeld
    <3>8. RepliesFollowClaim' /\ OneReplyPerMessage'
      BY <1>0, <2>2, <3>1, <3>3, <3>5 DEF SupportInv, RepliesFollowClaim, OneReplyPerMessage
    <3> QED BY <3>6, <3>7, <3>8 DEF SupportInv
  <2> QED BY <2>1, <2>2
<1>4. CASE _existing_support_delivery(d)
  <2>1. PICK pc \in {"duplicate", "graph"} : Advance(d, pc)
    BY <1>4 DEF _existing_support_delivery
  <2>2. UNCHANGED <<linked, replies, claimed>> /\ delivery[d].pc = "check"
    BY <1>4 DEF _existing_support_delivery, JobOnly
  <2> QED BY <1>c, <1>m, <2>1, <2>2, DeliveryMoves DEF JobPhases, AtWork
<1>5. CASE PostReply(d)
  <2>1. /\ delivery[d].pc = "graph" /\ Advance(d, "persist") /\ replies' = [replies EXCEPT ![d[1]] = @ + 1]
        /\ UNCHANGED <<linked, claimed>>
    BY <1>5 DEF PostReply, JobOnly
  <2>2. replies[d[1]] = 0 /\ AtWork(d)
    BY <2>1 DEF SupportInv, RepliesFollowClaim, AtWork, JobPhases
  <2>3. delivery' = [delivery EXCEPT ![d] = [delivery[d] EXCEPT !.pc = "persist"]]
    BY <1>m, <2>1 DEF JobPhases
  <2>4. delivery'[d].pc = "persist" /\ \A e \in Deliveries : e # d => delivery'[e] = delivery[e]
    BY <1>0, <1>m, <2>3 DEF JobPhases
  <2>5. \A e \in Deliveries : AtWork(e)' <=> AtWork(e)
    BY <2>2, <2>4 DEF AtWork, JobPhases
  <2>6. replies'[d[1]] = 1 /\ \A q \in Questions : q # d[1] => replies'[q] = replies[q]
    BY <1>0, <1>c, <2>1, <2>2
  <2>7. SupportTypes'
    BY <1>0, <1>c, <1>m, <2>1, <2>3 DEF SupportInv, SupportTypes, JobPhases
  <2>8. ClaimIsHeld'
    BY <2>1, <2>5 DEF SupportInv, ClaimIsHeld
  <2>9. RepliesFollowClaim'
    <3>1. \A q \in Questions : claimed'[q] = "none" => replies'[q] = 0
      BY <2>1, <2>2, <2>6 DEF SupportInv, ClaimIsHeld, RepliesFollowClaim
    <3>2. ASSUME NEW e \in Deliveries, delivery'[e].pc \in {"check", "graph"} PROVE replies'[e[1]] = 0
      <4>1. e # d /\ delivery[e].pc \in {"check", "graph"}
        BY <2>4, <3>2
      <4>2. AtWork(e) /\ e[1] # d[1]
        BY <2>2, <4>1 DEF SupportInv, ClaimIsHeld, AtWork, JobPhases
      <4>3. e[1] \in Questions
        BY DEF Deliveries
      <4> QED BY <2>6, <4>1, <4>2, <4>3 DEF SupportInv, RepliesFollowClaim
    <3> QED BY <3>1, <3>2 DEF RepliesFollowClaim
  <2>10. OneReplyPerMessage'
    BY <2>6 DEF SupportInv, OneReplyPerMessage
  <2> QED BY <2>7, <2>8, <2>9, <2>10 DEF SupportInv
<1>6. CASE NoReply(d) \/ _persist_support_delivery(d)
  <2>1. PICK pc \in {"persist_failed", "finish"} : Advance(d, pc)
    BY <1>6 DEF NoReply, _persist_support_delivery
  <2>2. UNCHANGED <<linked, replies, claimed>> /\ AtWork(d)
    BY <1>6 DEF NoReply, _persist_support_delivery, JobOnly, AtWork, JobPhases
  <2> QED BY <1>c, <1>m, <2>1, <2>2, DeliveryMoves DEF JobPhases
<1>7. CASE FinishRun(d)
  <2>1. /\ Advance(d, "done") /\ UNCHANGED <<linked, replies>> /\ AtWork(d)
        /\ claimed' = [claimed EXCEPT ![d[1]] = "completed"]
    BY <1>7 DEF FinishRun, JobOnly, AtWork, JobPhases
  <2>2. claimed[d[1]] # "none"
    BY <2>1 DEF SupportInv, ClaimIsHeld
  <2>3. claimed' \in [Questions -> {"none", "running", "completed"}]
    BY <1>c, <2>1
  <2>4. \A q \in Questions : claimed'[q] = "none" <=> claimed[q] = "none"
    BY <1>c, <2>1, <2>2
  <2> QED BY <2>1, <2>3, <2>4, AdvanceMoves DEF JobPhases
<1>8. CASE RetryJob(d)
  <2>1. UNCHANGED <<linked, replies, claimed>>
    BY <1>8 DEF RetryJob, JobOnly
  <2>2. CASE delivery[d].tries < MaxRetries
    <3> DEFINE n == delivery[d].tries + 1
               r == [delivery[d] EXCEPT !.pc = "queued", !.tries = n]
    <3>1. n \in Nat
      BY <1>0 DEF DeliveryType
    <3>2. delivery' = [delivery EXCEPT ![d] = r]
      BY <1>0, <1>8, <2>2 DEF RetryJob
    <3> HIDE DEF n
    <3>3. r \in DeliveryType /\ r.pc = "queued"
      BY <1>0, <3>1 DEF DeliveryType
    <3> HIDE DEF r
    <3> QED BY <1>c, <2>1, <3>2, <3>3, DeliveryMoves DEF JobPhases
  <2>3. CASE ~(delivery[d].tries < MaxRetries)
    <3>1. Advance(d, "dropped")
      BY <1>8, <2>3 DEF RetryJob
    <3> QED BY <1>c, <2>1, <3>1, AdvanceMoves DEF JobPhases
  <2> QED BY <2>2, <2>3
<1> QED BY <1>1, <1>2, <1>3, <1>4, <1>5, <1>6, <1>7, <1>8 DEF DeliveryStep

LEMMA SupportSteps == SupportInv /\ [SupportNext]_supportVars => SupportInv'
<1> SUFFICES ASSUME SupportInv, [SupportNext]_supportVars PROVE SupportInv'
  OBVIOUS
<1>k. ASSUME UNCHANGED <<delivery, claimed, replies>>, linked' \in [Platforms -> SUBSET Orgs] PROVE SupportInv'
  BY <1>k DEF SupportInv, SupportTypes, ClaimIsHeld, RepliesFollowClaim, OneReplyPerMessage, AtWork
<1>l. linked \in [Platforms -> SUBSET Orgs]
  BY DEF SupportInv, SupportTypes
<1>1. ASSUME NEW o \in Orgs,
             \/ slack_oauth_callback(o) \/ discord_oauth_callback(o)
             \/ async_save(o) \/ SaveGuild(o) \/ unlink_discord(o) \/ delete_slack_installation(o)
      PROVE  SupportInv'
  <2>1. UNCHANGED <<delivery, claimed, replies>>
    BY <1>1 DEF slack_oauth_callback, discord_oauth_callback, async_save, SaveGuild, unlink_discord,
                delete_slack_installation, LinkOnly
  <2>2. linked' \in [Platforms -> SUBSET Orgs]
    BY <1>1, <1>l DEF slack_oauth_callback, discord_oauth_callback, async_save, SaveGuild, unlink_discord,
                      delete_slack_installation, Platforms
  <2> QED BY <1>k, <2>1, <2>2
<1>2. CASE Connect \/ Hello \/ Ready \/ Disconnect \/ _heartbeat_loop
  BY <1>2, <1>k, <1>l DEF Connect, Hello, Ready, Disconnect, _heartbeat_loop, GatewayOnly
<1>3. CASE _handle_review_action \/ handle_interactions \/ UNCHANGED supportVars
  BY <1>3, <1>k, <1>l DEF _handle_review_action, handle_interactions, supportVars
<1>4. CASE RestartApi
  <2>1. UNCHANGED <<claimed, replies, linked>>
    BY <1>4 DEF RestartApi
  <2>2. \A d \in Deliveries : delivery'[d] = IF delivery[d].pc \in {"enrich", "enqueue"}
                                             THEN [delivery[d] EXCEPT !.pc = "dropped"] ELSE delivery[d]
    BY <1>4 DEF RestartApi
  <2>3. \A d \in Deliveries : delivery[d] \in DeliveryType
    BY DEF SupportInv, SupportTypes
  <2>4. \A d \in Deliveries : [delivery[d] EXCEPT !.pc = "dropped"] \in DeliveryType
                              /\ [delivery[d] EXCEPT !.pc = "dropped"].pc = "dropped"
    BY <2>3 DEF DeliveryType
  <2>5. \A d \in Deliveries : delivery'[d] \in DeliveryType /\ (delivery'[d].pc # "dropped" => delivery'[d] = delivery[d])
    BY <2>2, <2>3, <2>4
  <2>6. delivery' \in [Deliveries -> DeliveryType]
    BY <1>4, <2>5 DEF RestartApi
  <2>7. \A d \in Deliveries : AtWork(d)' => AtWork(d)
    BY <2>5 DEF AtWork, JobPhases
  <2>8. SupportTypes' /\ ClaimIsHeld'
    BY <2>1, <2>6, <2>7 DEF SupportInv, SupportTypes, ClaimIsHeld
  <2>9. RepliesFollowClaim' /\ OneReplyPerMessage'
    BY <2>1, <2>5 DEF SupportInv, RepliesFollowClaim, OneReplyPerMessage
  <2> QED BY <2>8, <2>9 DEF SupportInv
<1> QED BY <1>1, <1>2, <1>3, <1>4, DeliverySteps DEF SupportNext

\* For any number of messages, deliveries, retries and restarts: the asker of a
\* question is answered at most once (try_claim and the delivery tool in
\* workflows/runner.py behind the handlers of integrations/slack and discord).
THEOREM AnsweredOnce == SupportSpec => []OneReplyPerMessage
<1>1. SupportInv => OneReplyPerMessage
  BY DEF SupportInv
<1> QED BY <1>1, SupportStarts, SupportSteps, PTL DEF SupportSpec

-----------------------------------------------------------------------------
(* The process.  What is held at each step of startup and shutdown.        *)

\* started is set before the first step that can fail, so every failure leads
\* through the whole shutdown.
AppInv ==
  /\ app \in {"new", "database", "build", "gateway", "slack", "up", "stop_slack", "stop_gateway",
              "stop_redis", "close_pool", "wait_pool", "down"}
  /\ app \notin {"new", "down"} => started
  /\ background \subseteq {"gateway", "slack"}
  /\ app \in {"new", "database", "build", "gateway", "stop_redis", "close_pool", "wait_pool", "down"}
       => background = {}
  /\ app \in {"slack", "stop_gateway"} => background \subseteq {"gateway"}
  /\ app \in {"close_pool", "wait_pool"} => redis = "closed"
  /\ StoppedHoldsNothing

LEMMA AppSteps == AppInv /\ [AppNext]_appVars => AppInv'
<1> SUFFICES ASSUME AppInv, [AppNext]_appVars PROVE AppInv'
  OBVIOUS
<1> USE DEF AppInv, StoppedHoldsNothing, AppFrame, StartFrame
<1>1. CASE startup \/ prepare_workflows
  BY <1>1 DEF startup, prepare_workflows, MarksStarted
<1>2. CASE _start_infrastructure \/ _build_agents_and_workflows
  BY <1>2 DEF _start_infrastructure, _build_agents_and_workflows
<1>3. CASE StartGateway \/ StartSocketMode
  BY <1>3 DEF StartGateway, StartSocketMode, StartTask
<1>4. CASE StartFails \/ shutdown
  BY <1>4 DEF StartFails, shutdown
<1>5. CASE StopSlack \/ StopGateway
  BY <1>5 DEF StopSlack, StopGateway, StopTask
<1>6. CASE _stop_infrastructure \/ StopFails
  BY <1>6 DEF _stop_infrastructure, StopFails
<1>7. CASE close \/ Closed
  BY <1>7 DEF close, Closed
<1>8. ASSUME NEW j \in AppJobs, run_task(j) \/ _acquire(j) \/ execute(j) PROVE AppInv'
  BY <1>8 DEF run_task, _acquire, execute, JobFrame
<1>9. CASE LoopCloses \/ UNCHANGED appVars
  BY <1>9 DEF LoopCloses, JobFrame, appVars
<1> QED BY <1>1, <1>2, <1>3, <1>4, <1>5, <1>6, <1>7, <1>8, <1>9 DEF AppNext

\* For any number of jobs on the process's loop, in both entry points and whatever
\* step of startup failed: after shutdown no background task, Redis client or pool
\* of the application is left (startup and shutdown of app/lifecycle.py).
THEOREM StoppedIsEmpty == AppSpec => []StoppedHoldsNothing
<1>1. AppInit => AppInv
  BY DEF AppInit, AppInitFor, AppInv, StoppedHoldsNothing
<1>2. AppInv => StoppedHoldsNothing
  BY DEF AppInv
<1> QED BY <1>1, <1>2, AppSteps, PTL DEF AppSpec
-----------------------------------------------------------------------------
(* Evaluation.  The row of a key in evaluation_idempotency is inserted     *)
(* once; only the request whose row it is goes on to start a run, and      *)
(* every answer repeats the row.                                           *)

PostType == [pc: {"idle", "create", "start", "done"}, key: EvalKeys \cup {NoKey}, body: EvalBodies \cup {NoKey}]
IdemType == [hash: EvalBodies \cup {NoKey}, run: EvalRequests \cup {NoKey}]

EvalTypes ==
  /\ post \in [EvalRequests -> PostType]
  /\ idem \in [EvalKeys -> IdemType]
  /\ DOMAIN loop = EvalRequests
  /\ answers \subseteq EvalKeys \X EvalRequests
  /\ \A r \in EvalRequests : post[r].pc # "idle" => post[r].key \in EvalKeys

AnswersRepeatRow == \A a \in answers : a[2] = idem[a[1]].run

\* A run is started by the request that is in its key's row, and at its end.
RunsAreOwned == \A r \in EvalRequests :
  /\ post[r].pc = "start" => idem[post[r].key].run = r
  /\ loop[r].pc # "none" => post[r].pc = "done" /\ idem[post[r].key].run = r

EvalInv == EvalTypes /\ AnswersRepeatRow /\ RunsAreOwned

LEMMA EvalStarts == EvalInit => EvalInv
<1> SUFFICES ASSUME EvalInit PROVE EvalInv
  OBVIOUS
<1>1. NoPost \in PostType /\ NoPost.pc = "idle"
  BY DEF NoPost, PostType
<1>2. [hash |-> NoKey, run |-> NoKey] \in IdemType
  BY DEF IdemType
<1>3. EvalTypes
  BY <1>1, <1>2 DEF EvalInit, EvalTypes
<1>4. AnswersRepeatRow /\ RunsAreOwned
  BY <1>1 DEF EvalInit, AnswersRepeatRow, RunsAreOwned, NoLoop
<1> QED BY <1>3, <1>4 DEF EvalInv

LEMMA LoopSteps ==
  ASSUME EvalInv, NEW r \in EvalRequests, loop[r].pc # "none", UNCHANGED <<idem, post, answers>>,
         DOMAIN loop' = EvalRequests, \A x \in EvalRequests : x # r => loop'[x] = loop[x]
  PROVE  EvalInv'
<1>1. EvalTypes' /\ AnswersRepeatRow'
  BY DEF EvalInv, EvalTypes, AnswersRepeatRow
<1>2. RunsAreOwned'
  BY DEF EvalInv, RunsAreOwned
<1> QED BY <1>1, <1>2 DEF EvalInv

LEMMA PostSteps ==
  ASSUME EvalInv, NEW r \in EvalRequests,
         \/ \E k \in EvalKeys, b \in EvalBodies : run_evaluations(r, k, b)
         \/ create(r) \/ Accept(r) \/ PostDies(r)
  PROVE  EvalInv'
<1>0. /\ post \in [EvalRequests -> PostType] /\ post[r] \in PostType
      /\ idem \in [EvalKeys -> IdemType] /\ DOMAIN loop = EvalRequests
      /\ answers \subseteq EvalKeys \X EvalRequests
      /\ \A x \in EvalRequests : post[x].pc # "idle" => post[x].key \in EvalKeys
  BY DEF EvalInv, EvalTypes
<1>p. \A pc \in {"start", "done"} :
         LET n == [post[r] EXCEPT !.pc = pc] IN n \in PostType /\ n.pc = pc /\ n.key = post[r].key
  BY <1>0 DEF PostType
<1>a. ASSUME NEW k \in EvalKeys, Stored(k), Answered(k, idem[k].run), UNCHANGED idem
      PROVE  AnswersRepeatRow' /\ answers' \subseteq EvalKeys \X EvalRequests
  <2>1. idem[k].run \in EvalRequests
    BY <1>0, <1>a DEF Stored, IdemType
  <2> QED BY <1>0, <1>a, <2>1 DEF EvalInv, AnswersRepeatRow, Answered
<1>1. ASSUME NEW k \in EvalKeys, NEW b \in EvalBodies, run_evaluations(r, k, b) PROVE EvalInv'
  <2> DEFINE st == IF Stored(k) THEN "done" ELSE "create"
             n  == [pc |-> st, key |-> k, body |-> b]
  <2>1. st \in {"create", "done"}
    OBVIOUS
  <2>2. post[r].pc = "idle" /\ post' = [post EXCEPT ![r] = n] /\ UNCHANGED <<idem, loop>>
    BY <1>1 DEF run_evaluations, NoPost
  <2> HIDE DEF st
  <2>3. n \in PostType /\ n.pc = st /\ n.key = k
    BY <2>1 DEF PostType
  <2> HIDE DEF n
  <2>4. post'[r] = n /\ \A x \in EvalRequests : x # r => post'[x] = post[x]
    BY <1>0, <2>2
  <2>5. AnswersRepeatRow' /\ answers' \subseteq EvalKeys \X EvalRequests
    <3>1. CASE Stored(k) /\ idem[k].hash = b
      BY <1>1, <1>a, <2>2, <3>1 DEF run_evaluations
    <3>2. CASE ~(Stored(k) /\ idem[k].hash = b)
      BY <1>0, <1>1, <2>2, <3>2 DEF run_evaluations, EvalInv, AnswersRepeatRow
    <3> QED BY <3>1, <3>2
  <2>6. EvalTypes'
    BY <1>0, <2>2, <2>3, <2>4, <2>5 DEF EvalTypes
  <2>7. RunsAreOwned'
    BY <2>1, <2>2, <2>3, <2>4 DEF EvalInv, RunsAreOwned
  <2> QED BY <2>5, <2>6, <2>7 DEF EvalInv
<1>2. CASE create(r)
  <2> DEFINE k == post[r].key
  <2>0. k \in EvalKeys /\ post[r].pc = "create" /\ UNCHANGED loop
    BY <1>0, <1>2 DEF create
  <2>1. CASE Stored(k)
    <3>1. post' = [post EXCEPT ![r] = [post[r] EXCEPT !.pc = "done"]] /\ UNCHANGED idem
      BY <1>0, <1>2, <2>1 DEF create
    <3>2. /\ post'[r] \in PostType /\ post'[r].pc = "done" /\ post'[r].key = k
          /\ \A x \in EvalRequests : x # r => post'[x] = post[x]
      BY <1>0, <1>p, <3>1
    <3>3. AnswersRepeatRow' /\ answers' \subseteq EvalKeys \X EvalRequests
      <4>1. CASE idem[k].hash = post[r].body
        BY <1>2, <1>a, <2>0, <2>1, <3>1, <4>1 DEF create
      <4>2. CASE idem[k].hash # post[r].body
        BY <1>0, <1>2, <3>1, <4>2 DEF create, EvalInv, AnswersRepeatRow
      <4> QED BY <4>1, <4>2
    <3>4. EvalTypes'
      BY <1>0, <2>0, <3>1, <3>2, <3>3 DEF EvalTypes
    <3>5. RunsAreOwned'
      BY <2>0, <3>1, <3>2 DEF EvalInv, RunsAreOwned
    <3> QED BY <3>3, <3>4, <3>5 DEF EvalInv
  <2>2. CASE ~Stored(k)
    <3> DEFINE row == [hash |-> post[r].body, run |-> r]
    <3>1. /\ post' = [post EXCEPT ![r] = [post[r] EXCEPT !.pc = "start"]]
          /\ idem' = [idem EXCEPT ![k] = row] /\ UNCHANGED answers
      BY <1>0, <1>2, <2>2 DEF create
    <3>2. /\ post'[r] \in PostType /\ post'[r].pc = "start" /\ post'[r].key = k
          /\ \A x \in EvalRequests : x # r => post'[x] = post[x]
      BY <1>0, <1>p, <3>1
    <3>3. row \in IdemType /\ row.run = r
      BY <1>0 DEF IdemType, PostType
    <3>4. idem' \in [EvalKeys -> IdemType] /\ idem'[k].run = r /\ \A q \in EvalKeys : q # k => idem'[q] = idem[q]
      BY <1>0, <2>0, <3>1, <3>3
    <3>5. EvalTypes'
      BY <1>0, <2>0, <3>1, <3>2, <3>4 DEF EvalTypes
    <3>6. \A x \in EvalRequests : idem[k].run # x
      BY <2>2, EvaluationAssumption DEF Stored
    <3>7. AnswersRepeatRow'
      <4> SUFFICES ASSUME NEW a \in answers PROVE a[2] = idem'[a[1]].run
        BY <3>1 DEF AnswersRepeatRow
      <4>1. a[1] \in EvalKeys /\ a[2] \in EvalRequests
        BY <1>0
      <4>2. a[2] = idem[a[1]].run
        BY DEF EvalInv, AnswersRepeatRow
      <4>3. a[1] # k
        BY <3>6, <4>1, <4>2
      <4> QED BY <3>4, <4>1, <4>2, <4>3
    <3>8. RunsAreOwned'
      <4> SUFFICES ASSUME NEW x \in EvalRequests
                   PROVE /\ post'[x].pc = "start" => idem'[post'[x].key].run = x
                         /\ loop'[x].pc # "none" => post'[x].pc = "done" /\ idem'[post'[x].key].run = x
        BY DEF RunsAreOwned
      <4>1. CASE x = r
        BY <2>0, <3>2, <3>4, <4>1 DEF EvalInv, RunsAreOwned
      <4>2. CASE x # r
        <5>1. post'[x] = post[x] /\ loop'[x] = loop[x]
          BY <2>0, <3>2, <4>2
        <5>2. post[x].pc \in {"start", "done"} => post[x].key \in EvalKeys
          BY <1>0
        <5>3. idem[post[x].key].run = x => post[x].key # k
          BY <3>6
        <5> QED BY <3>4, <5>1, <5>2, <5>3 DEF EvalInv, RunsAreOwned
      <4> QED BY <4>1, <4>2
    <3> QED BY <3>5, <3>7, <3>8 DEF EvalInv
  <2> QED BY <2>1, <2>2
<1>3. CASE Accept(r)
  <2> DEFINE k == post[r].key
  <2>0. k \in EvalKeys /\ post[r].pc = "start" /\ UNCHANGED idem /\ idem[k].run = r
    BY <1>0, <1>3 DEF Accept, EvalInv, RunsAreOwned
  <2>1. post' = [post EXCEPT ![r] = [post[r] EXCEPT !.pc = "done"]]
    BY <1>0, <1>3 DEF Accept
  <2>2. /\ post'[r] \in PostType /\ post'[r].pc = "done" /\ post'[r].key = k
        /\ \A x \in EvalRequests : x # r => post'[x] = post[x]
    BY <1>0, <1>p, <2>1
  <2>3. Stored(k)
    BY <2>0, EvaluationAssumption DEF Stored
  <2>4. AnswersRepeatRow' /\ answers' \subseteq EvalKeys \X EvalRequests
    BY <1>3, <1>a, <2>0, <2>3 DEF Accept
  <2>5. DOMAIN loop' = EvalRequests /\ \A x \in EvalRequests : x # r => loop'[x] = loop[x]
    BY <1>0, <1>3 DEF Accept
  <2>6. EvalTypes'
    BY <1>0, <2>0, <2>1, <2>2, <2>4, <2>5 DEF EvalTypes
  <2>7. RunsAreOwned'
    BY <2>0, <2>2, <2>5 DEF EvalInv, RunsAreOwned
  <2> QED BY <2>4, <2>6, <2>7 DEF EvalInv
<1>4. CASE PostDies(r)
  <2>0. post[r].pc \in {"create", "start"} /\ UNCHANGED <<idem, answers, loop>>
    BY <1>4 DEF PostDies
  <2>1. post' = [post EXCEPT ![r] = [post[r] EXCEPT !.pc = "done"]]
    BY <1>0, <1>4 DEF PostDies
  <2>2. /\ post'[r] \in PostType /\ post'[r].pc = "done" /\ post'[r].key = post[r].key
        /\ \A x \in EvalRequests : x # r => post'[x] = post[x]
    BY <1>0, <1>p, <2>1
  <2>3. EvalTypes' /\ AnswersRepeatRow'
    BY <1>0, <2>0, <2>1, <2>2 DEF EvalInv, EvalTypes, AnswersRepeatRow
  <2>4. RunsAreOwned'
    BY <2>0, <2>2 DEF EvalInv, RunsAreOwned
  <2> QED BY <2>3, <2>4 DEF EvalInv
<1> QED BY <1>1, <1>2, <1>3, <1>4

LEMMA EvalSteps == EvalInv /\ [EvalNext]_evalVars => EvalInv'
<1> SUFFICES ASSUME EvalInv, [EvalNext]_evalVars PROVE EvalInv'
  OBVIOUS
<1>1. ASSUME NEW r \in EvalRequests, EvalStep(r) PROVE EvalInv'
  <2>0. DOMAIN loop = EvalRequests
    BY DEF EvalInv, EvalTypes
  <2>1. CASE run_evaluation_loop(r)
    BY <2>0, <2>1, LoopSteps DEF run_evaluation_loop
  <2>2. CASE RunCase(r)
    BY <2>0, <2>2, LoopSteps DEF RunCase, Running
  <2>3. CASE RunExperiments(r) \/ DatasetFails(r)
    BY <2>0, <2>3, LoopSteps DEF RunExperiments, DatasetFails, NextDataset, Running
  <2>4. CASE _persist_summary(r) \/ LoopDies(r)
    BY <2>0, <2>4, LoopSteps DEF _persist_summary, LoopDies
  <2> QED BY <1>1, <2>1, <2>2, <2>3, <2>4, PostSteps DEF EvalStep
<1>2. CASE UNCHANGED evalVars
  BY <1>2 DEF evalVars, EvalInv, EvalTypes, AnswersRepeatRow, RunsAreOwned
<1>3. CASE EvalDone
  BY <1>2, <1>3 DEF EvalDone
<1> QED BY <1>1, <1>2, <1>3 DEF EvalNext

\* For any number of requests, keys and payloads, and whatever dies when: one run is
\* started for an idempotency key and every answer names it (run_evaluations of
\* app/api/routes/evaluations.py and create of the idempotency repository).
THEOREM KeyedRunsOnce == EvalSpec => []OneRunPerKey
<1>1. EvalInv => OneRunPerKey
  <2> SUFFICES ASSUME EvalInv, NEW k \in EvalKeys
               PROVE  /\ Cardinality({r \in EvalRequests : post[r].key = k /\ loop[r].pc # "none"}) <= 1
                      /\ \A a, b \in answers : a[1] = k /\ b[1] = k => a[2] = b[2]
    BY DEF OneRunPerKey
  <2> DEFINE S == {r \in EvalRequests : post[r].key = k /\ loop[r].pc # "none"}
             T == {idem[k].run}
  <2>1. S \subseteq T
    BY DEF EvalInv, RunsAreOwned
  <2>2. IsFiniteSet(T) /\ Cardinality(T) = 1
    BY FS_Singleton
  <2> HIDE DEF S, T
  <2>3. Cardinality(S) <= 1
    BY <2>1, <2>2, FS_Subset
  <2>4. \A a, b \in answers : a[1] = k /\ b[1] = k => a[2] = b[2]
    BY DEF EvalInv, AnswersRepeatRow
  <2> USE DEF S
  <2> QED BY <2>3, <2>4
<1> QED BY <1>1, EvalStarts, EvalSteps, PTL DEF EvalSpec
-----------------------------------------------------------------------------
(* The audit trail.  A step of the current build is in the hook's buffer,  *)
(* then in the flush that was handed the buffer, then in agent_steps; the  *)
(* runner of an invocation that returned does not end before the flush.    *)

StepType == [seq: Nat, of: Nat, status: {"completed", "failed"}]

AuditTypes ==
  /\ hook \in [build: Nat, pc: {"idle", "graph", "drain", "returned"}, steps: Seq(StepType), taken: Nat, raised: BOOLEAN]
  /\ opener \in {"none", "pending"}
  /\ flusher \in [pc: {"none", "ensure_run", "record_step"}, steps: Seq(StepType), failed: BOOLEAN]
  /\ trail \in [status: {"none", "running", "completed", "failed"}, steps: SUBSET StepType,
                broken: BOOLEAN, late: BOOLEAN]

Recorded(i) == \E x \in trail.steps : x.seq = i /\ x.of = hook.build
InFlush(i)  == \E j \in 1..Len(flusher.steps) : flusher.steps[j].seq = i /\ flusher.steps[j].of = hook.build

\* The tasks of a build do not outlive its job, nor the flush the wait for it.
TasksEnd == /\ hook.pc = "idle" => opener = "none"
            /\ flusher.pc # "none" => hook.pc = "drain" \/ (hook.pc = "returned" /\ hook.raised)

\* The buffer holds the steps of the build in the order they were taken.
BufferIsWhole == hook.pc = "graph" =>
  /\ Len(hook.steps) = hook.taken
  /\ \A i \in 1..hook.taken : hook.steps[i].seq = i /\ hook.steps[i].of = hook.build

FlushIsWhole == flusher.pc # "none" => \A i \in 1..hook.taken : Recorded(i) \/ InFlush(i)

\* A flush that ended left nothing behind, unless a statement of it failed.
TrailIsWhole ==
  hook.pc # "graph" /\ flusher.pc = "none" /\ hook.build > 0 /\ ~hook.raised /\ ~trail.broken =>
     /\ \A i \in 1..hook.taken : Recorded(i)
     /\ ~trail.late => trail.status \in {"completed", "failed"}

AuditInv == AuditTypes /\ TasksEnd /\ BufferIsWhole /\ FlushIsWhole /\ TrailIsWhole

LEMMA AuditStarts == AuditInit => AuditInv
<1> SUFFICES ASSUME AuditInit PROVE AuditInv
  OBVIOUS
<1>1. AuditTypes
  BY DEF AuditInit, AuditTypes, NoFlush
<1>2. TasksEnd /\ BufferIsWhole /\ FlushIsWhole /\ TrailIsWhole
  BY DEF AuditInit, TasksEnd, BufferIsWhole, FlushIsWhole, TrailIsWhole, NoFlush
<1> QED BY <1>1, <1>2 DEF AuditInv

LEMMA AuditSteps == AuditInv /\ [AuditNext]_auditVars => AuditInv'
<1> SUFFICES ASSUME AuditInv, [AuditNext]_auditVars PROVE AuditInv'
  OBVIOUS
<1>0. /\ AuditTypes /\ TasksEnd /\ BufferIsWhole /\ FlushIsWhole /\ TrailIsWhole
      /\ hook.build \in Nat /\ hook.taken \in Nat /\ hook.steps \in Seq(StepType)
      /\ flusher.steps \in Seq(StepType) /\ trail.steps \in SUBSET StepType
  BY DEF AuditInv, AuditTypes
<1>n. NoFlush.pc = "none" /\ NoFlush \in [pc: {"none", "ensure_run", "record_step"}, steps: Seq(StepType), failed: BOOLEAN]
  BY DEF NoFlush
<1>1. CASE run_start
  <2>1. AuditTypes' /\ hook'.pc = "graph" /\ hook'.taken = 0 /\ hook'.steps = <<>> /\ UNCHANGED flusher
    BY <1>0, <1>1 DEF run_start, AuditTypes
  <2> QED BY <1>0, <1>1, <2>1 DEF run_start, AuditInv, TasksEnd, BufferIsWhole, FlushIsWhole, TrailIsWhole
<1>2. CASE _buffer_step
  <2>1. PICK st \in {"completed", "failed"} :
           hook' = [hook EXCEPT !.steps = Append(hook.steps, [seq |-> hook.taken + 1, of |-> hook.build, status |-> st]),
                                !.taken = hook.taken + 1]
    BY <1>2 DEF _buffer_step
  <2> DEFINE x == [seq |-> hook.taken + 1, of |-> hook.build, status |-> st]
             q == Append(hook.steps, x)
             n == hook.taken + 1
  <2>2. x \in StepType /\ x.seq = n /\ x.of = hook.build
    BY <1>0 DEF StepType
  <2>3. hook.pc = "graph" /\ UNCHANGED <<opener, flusher, trail>>
    BY <1>2 DEF _buffer_step
  <2>4. hook' = [hook EXCEPT !.steps = q, !.taken = n]
    BY <2>1
  <2> HIDE DEF x
  <2>5. /\ q \in Seq(StepType) /\ Len(q) = Len(hook.steps) + 1
        /\ \A i \in 1..Len(hook.steps) : q[i] = hook.steps[i]
        /\ q[Len(hook.steps) + 1] = x
    BY <1>0, <2>2
  <2>6. n \in Nat /\ n = hook.taken + 1
    BY <1>0
  <2> HIDE DEF q, n
  <2>7. AuditTypes' /\ hook'.steps = q /\ hook'.taken = n /\ hook'.build = hook.build /\ hook'.pc = "graph"
    BY <1>0, <2>3, <2>4, <2>5, <2>6 DEF AuditTypes
  <2>8. BufferIsWhole'
    <3>1. Len(hook.steps) = hook.taken /\ \A i \in 1..hook.taken : hook.steps[i].seq = i /\ hook.steps[i].of = hook.build
      BY <1>0, <2>3 DEF BufferIsWhole
    <3>2. \A i \in 1..n : i \in 1..hook.taken \/ i = n
      BY <1>0, <2>6
    <3>3. \A i \in 1..n : q[i].seq = i /\ q[i].of = hook.build
      BY <2>2, <2>5, <2>6, <3>1, <3>2
    <3> QED BY <2>5, <2>6, <2>7, <3>1, <3>3 DEF BufferIsWhole
  <2> QED BY <1>0, <2>3, <2>7, <2>8 DEF AuditInv, TasksEnd, FlushIsWhole, TrailIsWhole
<1>3. CASE run_end
  <2>0. PICK raised \in BOOLEAN :
          hook' = [hook EXCEPT !.pc = IF raised THEN "returned" ELSE "drain", !.steps = <<>>, !.raised = raised]
    BY <1>3 DEF run_end
  <2> DEFINE pc == IF raised THEN "returned" ELSE "drain"
  <2>6. pc \in {"drain", "returned"} /\ (pc = "returned" => raised)
    BY <2>0
  <2>1. /\ hook.pc = "graph" /\ hook' = [hook EXCEPT !.pc = pc, !.steps = <<>>, !.raised = raised]
        /\ flusher' = [pc |-> "ensure_run", steps |-> hook.steps,
                       failed |-> \E i \in DOMAIN hook.steps : hook.steps[i].status = "failed"]
        /\ UNCHANGED <<opener, trail>>
    BY <1>3, <2>0 DEF run_end
  <2> HIDE DEF pc
  <2>2. /\ hook' \in [build: Nat, pc: {"idle", "graph", "drain", "returned"}, steps: Seq(StepType), taken: Nat, raised: BOOLEAN]
        /\ hook'.pc = pc /\ hook'.raised = raised /\ hook'.taken = hook.taken /\ hook'.build = hook.build
    <3>0. <<>> \in Seq(StepType)
      OBVIOUS
    <3>1. PICK e \in Seq(StepType) : e = <<>>
      BY <3>0
    <3>2. hook' = [hook EXCEPT !.pc = pc, !.steps = e, !.raised = raised]
      BY <2>1, <3>1
    <3> QED BY <1>0, <2>0, <2>6, <3>2 DEF AuditTypes
  <2>3. /\ flusher' \in [pc: {"none", "ensure_run", "record_step"}, steps: Seq(StepType), failed: BOOLEAN]
        /\ flusher'.pc = "ensure_run" /\ flusher'.steps = hook.steps
    <3> DEFINE f == \E i \in DOMAIN hook.steps : hook.steps[i].status = "failed"
    <3>1. f \in BOOLEAN
      OBVIOUS
    <3>2. flusher' = [pc |-> "ensure_run", steps |-> hook.steps, failed |-> f]
      BY <2>1
    <3> HIDE DEF f
    <3> QED BY <1>0, <3>1, <3>2
  <2>4. AuditTypes'
    BY <1>0, <2>1, <2>2, <2>3 DEF AuditTypes
  <2>5. FlushIsWhole'
    BY <1>0, <2>1, <2>2, <2>3 DEF FlushIsWhole, BufferIsWhole, InFlush
  <2>7. TasksEnd' /\ BufferIsWhole' /\ TrailIsWhole'
    BY <2>2, <2>3, <2>6 DEF TasksEnd, BufferIsWhole, TrailIsWhole
  <2> QED BY <2>4, <2>5, <2>7 DEF AuditInv
<1>4. CASE drain_run
  <2>1. AuditTypes' /\ hook'.pc = "returned" /\ hook'.build = hook.build /\ hook'.taken = hook.taken
    BY <1>0, <1>4 DEF drain_run, AuditTypes
  <2> QED BY <1>0, <1>4, <2>1 DEF drain_run, AuditInv, TasksEnd, BufferIsWhole, FlushIsWhole, TrailIsWhole, Recorded
<1>5. CASE LoopEnds
  <2>1. AuditTypes' /\ hook'.pc = "idle" /\ hook'.build = hook.build /\ hook'.taken = hook.taken
    BY <1>0, <1>n, <1>5 DEF LoopEnds, AuditTypes
  <2> QED BY <1>0, <1>n, <1>5, <2>1 DEF LoopEnds, AuditInv, TasksEnd, BufferIsWhole, FlushIsWhole, TrailIsWhole, Recorded
<1>6. CASE start_run
  <2> DEFINE l == flusher.pc = "none" /\ hook.pc \in {"drain", "returned"}
  <2>1. /\ opener = "pending" /\ opener' = "none" /\ UNCHANGED <<hook, flusher>>
        /\ trail' = [trail EXCEPT !.status = "running", !.late = l]
    BY <1>6 DEF start_run
  <2>2. l \in BOOLEAN
    OBVIOUS
  <2>3. hook.pc # "graph" /\ flusher.pc = "none" => l
    BY <1>0, <2>1 DEF AuditTypes, TasksEnd
  <2> HIDE DEF l
  <2>4. AuditTypes' /\ trail'.steps = trail.steps /\ trail'.late = l /\ trail'.broken = trail.broken
    BY <1>0, <2>1, <2>2 DEF AuditTypes
  <2> QED BY <1>0, <2>1, <2>3, <2>4 DEF AuditInv, TasksEnd, BufferIsWhole, FlushIsWhole, TrailIsWhole, Recorded, InFlush
<1>7. CASE OpenFails
  <2>1. AuditTypes'
    BY <1>0, <1>7 DEF OpenFails, AuditTypes
  <2> QED BY <1>0, <1>7, <2>1 DEF OpenFails, AuditInv, TasksEnd, BufferIsWhole, FlushIsWhole, TrailIsWhole, Recorded, InFlush
<1>8. CASE ensure_run
  <2> DEFINE st == IF trail.status = "none" THEN "running" ELSE trail.status
  <2>1. /\ flusher.pc = "ensure_run" /\ UNCHANGED <<hook, opener>>
        /\ flusher' = [flusher EXCEPT !.pc = "record_step"]
        /\ trail' = [trail EXCEPT !.status = st]
    BY <1>8 DEF ensure_run
  <2>2. st \in {"none", "running", "completed", "failed"}
    BY <1>0 DEF AuditTypes
  <2> HIDE DEF st
  <2>3. AuditTypes' /\ trail'.steps = trail.steps /\ flusher'.steps = flusher.steps /\ flusher'.pc = "record_step"
    BY <1>0, <2>1, <2>2 DEF AuditTypes
  <2> QED BY <1>0, <2>1, <2>3 DEF AuditInv, TasksEnd, BufferIsWhole, FlushIsWhole, TrailIsWhole, Recorded, InFlush
<1>9. CASE record_step
  <2> DEFINE s == flusher.steps
             S == trail.steps \cup {Head(s)}
  <2>1. /\ flusher.pc = "record_step" /\ s # <<>> /\ UNCHANGED <<hook, opener>>
        /\ flusher' = [flusher EXCEPT !.steps = Tail(s)]
        /\ trail' = [trail EXCEPT !.steps = S]
    BY <1>9 DEF record_step
  <2>2. /\ s \in Seq(StepType) /\ Len(s) \in Nat /\ Len(s) > 0 /\ Head(s) = s[1] /\ Head(s) \in StepType
        /\ Tail(s) \in Seq(StepType) /\ Len(Tail(s)) = Len(s) - 1
        /\ \A j \in 1..(Len(s) - 1) : Tail(s)[j] = s[j + 1]
    BY <1>0, <2>1
  <2>3. S \in SUBSET StepType
    BY <1>0, <2>2
  <2> HIDE DEF S
  <2>4. AuditTypes' /\ trail'.steps = S /\ flusher'.steps = Tail(s) /\ flusher'.pc = "record_step"
    BY <1>0, <2>1, <2>2, <2>3 DEF AuditTypes
  <2> USE DEF S
  <2>5. FlushIsWhole'
    <3> SUFFICES ASSUME NEW i \in 1..hook.taken PROVE Recorded(i)' \/ InFlush(i)'
      BY <2>1 DEF FlushIsWhole
    <3>1. CASE Recorded(i)
      BY <2>1, <2>4, <3>1 DEF Recorded
    <3>2. CASE InFlush(i)
      <4>1. PICK j \in 1..Len(s) : s[j].seq = i /\ s[j].of = hook.build
        BY <3>2 DEF InFlush
      <4>2. CASE j = 1
        BY <2>1, <2>2, <2>4, <4>1, <4>2 DEF Recorded
      <4>3. CASE j # 1
        <5>1. j - 1 \in 1..(Len(s) - 1) /\ (j - 1) + 1 = j
          BY <2>2, <4>1, <4>3
        <5>2. Tail(s)[j - 1] = s[j]
          BY <2>2, <5>1
        <5> QED BY <2>1, <2>2, <2>4, <4>1, <5>1, <5>2 DEF InFlush
      <4> QED BY <4>2, <4>3
    <3> QED BY <1>0, <2>1, <3>1, <3>2 DEF FlushIsWhole
  <2> QED BY <1>0, <2>1, <2>4, <2>5 DEF AuditInv, TasksEnd, BufferIsWhole, TrailIsWhole
<1>10. CASE finish_run
  <2> DEFINE st == IF flusher.failed THEN "failed" ELSE "completed"
  <2>1. /\ flusher.pc = "record_step" /\ flusher.steps = <<>> /\ UNCHANGED <<hook, opener>>
        /\ flusher' = NoFlush /\ trail' = [trail EXCEPT !.status = st]
    BY <1>10 DEF finish_run
  <2>2. st \in {"completed", "failed"}
    OBVIOUS
  <2> HIDE DEF st
  <2>3. AuditTypes' /\ trail'.steps = trail.steps /\ trail'.status = st /\ flusher'.pc = "none"
    BY <1>0, <1>n, <2>1, <2>2 DEF AuditTypes
  <2>4. \A i \in 1..hook.taken : Recorded(i)'
    BY <1>0, <2>1, <2>3 DEF FlushIsWhole, Recorded, InFlush
  <2> QED BY <1>0, <2>1, <2>2, <2>3, <2>4 DEF AuditInv, TasksEnd, BufferIsWhole, FlushIsWhole, TrailIsWhole
<1>11. CASE _flush_run
  <2>1. AuditTypes' /\ trail'.broken = TRUE /\ flusher'.pc = "none" /\ UNCHANGED <<hook, opener>>
    BY <1>0, <1>n, <1>11 DEF _flush_run, AuditTypes
  <2> QED BY <1>0, <2>1 DEF AuditInv, TasksEnd, BufferIsWhole, FlushIsWhole, TrailIsWhole
<1>12. CASE UNCHANGED auditVars
  BY <1>0, <1>12 DEF auditVars, AuditInv, AuditTypes, TasksEnd, BufferIsWhole, FlushIsWhole, TrailIsWhole, Recorded, InFlush
<1> QED BY <1>1, <1>2, <1>3, <1>4, <1>5, <1>6, <1>7, <1>8, <1>9, <1>10, <1>11, <1>12 DEF AuditNext

\* For any number of builds and steps: when the invocation returned and no statement
\* failed, the end of the job's loop finds every step of the build in agent_steps, and
\* its row closed unless the opening task came last (drain_run, _flush_run of
\* orchestration/hooks/audit.py, _drain_audit_flush of workflows/runner.py).
THEOREM AuditIsWhole == AuditSpec => []AuditSurvivesTeardown
<1>1. AuditInv => AuditSurvivesTeardown
  BY DEF AuditInv, AuditTypes, TasksEnd, TrailIsWhole, AuditSurvivesTeardown, Recorded
<1> QED BY <1>1, AuditStarts, AuditSteps, PTL DEF AuditSpec
-----------------------------------------------------------------------------
(* The dashboard's stream.  A viewer's position is the message it was      *)
(* shown last, whatever connections come between.                          *)

ViewerType == [pc: {"off", "live", "closed"}, ticket: BOOLEAN, pos: Nat, seen: Seq(Nat), late: BOOLEAN]

\* What was shown ends at the position, and without a trim starts at 1 and skips nothing.
ShownInOrder(w) ==
  /\ \A i \in 1..(Len(w.seen) - 1) : w.seen[i] < w.seen[i + 1]
  /\ Len(w.seen) > 0 => w.seen[Len(w.seen)] = w.pos
  /\ ~w.late => w.pos = Len(w.seen) /\ \A i \in 1..Len(w.seen) : w.seen[i] = i

DashInv ==
  /\ changes \in Nat
  /\ viewer \in [Viewers -> ViewerType]
  /\ \A v \in Viewers : ShownInOrder(viewer[v])

\* What a viewer is shown next is after its position, and next to it unless late.
LEMMA NextIsLater ==
  ASSUME DashInv, NEW v \in Viewers
  PROVE  NextMessage(v) \in Nat /\ NextMessage(v) > viewer[v].pos
<1>1. viewer[v].pos \in Nat /\ changes \in Nat
  BY DEF DashInv, ViewerType
<1>2. Trimmed \in Nat
  BY <1>1, DashboardAssumption DEF Trimmed
<1> QED BY <1>1, <1>2 DEF NextMessage

\* One more message is shown.
LEMMA ShownOneMore ==
  ASSUME NEW w \in ViewerType, ShownInOrder(w), NEW n \in Nat, n > w.pos, NEW l \in BOOLEAN,
         l <=> (w.late \/ n > w.pos + 1),
         NEW u, u = [w EXCEPT !.pos = n, !.seen = Append(w.seen, n), !.late = l]
  PROVE  u \in ViewerType /\ ShownInOrder(u)
<1> DEFINE q == Append(w.seen, n)
           k == Len(w.seen)
<1>1. w.pos \in Nat /\ w.seen \in Seq(Nat) /\ w.late \in BOOLEAN /\ k \in Nat
  BY DEF ViewerType
<1>2. q \in Seq(Nat) /\ Len(q) = k + 1 /\ q[k + 1] = n /\ \A i \in 1..k : q[i] = w.seen[i]
  BY <1>1
<1>3. u = [w EXCEPT !.pos = n, !.seen = q, !.late = l]
  OBVIOUS
<1> HIDE DEF q
<1>4. u \in ViewerType /\ u.pos = n /\ u.seen = q /\ u.late = l
  BY <1>2, <1>3 DEF ViewerType
<1>5. \A i \in 1..(Len(q) - 1) : q[i] < q[i + 1]
  <2> SUFFICES ASSUME NEW i \in 1..k PROVE q[i] < q[i + 1]
    BY <1>1, <1>2
  <2>1. CASE i = k
    <3>1. w.seen[k] = w.pos
      BY <1>1, <2>1 DEF ShownInOrder
    <3> QED BY <1>1, <1>2, <2>1, <3>1
  <2>2. CASE i # k
    <3>1. i \in 1..(k - 1) /\ i + 1 \in 1..k
      BY <1>1, <2>2
    <3>2. w.seen[i] < w.seen[i + 1]
      BY <3>1 DEF ShownInOrder
    <3> QED BY <1>2, <3>1, <3>2
  <2> QED BY <2>1, <2>2
<1>6. ~l => n = k + 1 /\ \A i \in 1..(k + 1) : q[i] = i
  <2> SUFFICES ASSUME ~l PROVE n = k + 1 /\ \A i \in 1..(k + 1) : q[i] = i
    OBVIOUS
  <2>1. w.pos = k /\ \A i \in 1..k : w.seen[i] = i
    BY DEF ShownInOrder
  <2>2. n = k + 1
    BY <1>1, <2>1
  <2> QED BY <1>1, <1>2, <2>1, <2>2
<1> QED BY <1>1, <1>2, <1>4, <1>5, <1>6 DEF ShownInOrder

LEMMA DashSteps == DashInv /\ [DashNext]_dashVars => DashInv'
<1> SUFFICES ASSUME DashInv, [DashNext]_dashVars PROVE DashInv'
  OBVIOUS
<1>0. changes \in Nat /\ viewer \in [Viewers -> ViewerType]
  BY DEF DashInv
<1>1. CASE broadcast
  BY <1>0, <1>1 DEF broadcast, DashInv
<1>k. ASSUME NEW v \in Viewers, NEW w \in ViewerType, ShownInOrder(w), UNCHANGED changes,
             viewer' = [viewer EXCEPT ![v] = w]
      PROVE  DashInv'
  BY <1>0, <1>k DEF DashInv
<1>2. ASSUME NEW v \in Viewers,
             \/ issue_dashboard_ticket(v) \/ TicketExpires(v) \/ HeartbeatEnds(v) \/ ViewerLeaves(v)
             \/ stream_dashboard_events(v)
      PROVE  DashInv'
  <2>0. UNCHANGED changes
    BY <1>2 DEF issue_dashboard_ticket, TicketExpires, HeartbeatEnds, ViewerLeaves, stream_dashboard_events
  <2>1. ASSUME NEW pc \in {"off", "live", "closed"}, NEW t \in BOOLEAN,
               viewer' = [viewer EXCEPT ![v] = [viewer[v] EXCEPT !.pc = pc, !.ticket = t]]
        PROVE  DashInv'
    <3> DEFINE w == [viewer[v] EXCEPT !.pc = pc, !.ticket = t]
    <3>1. w \in ViewerType /\ w.seen = viewer[v].seen /\ w.pos = viewer[v].pos /\ w.late = viewer[v].late
      BY <1>0 DEF ViewerType
    <3> HIDE DEF w
    <3>2. ShownInOrder(w)
      BY <3>1 DEF DashInv, ShownInOrder
    <3> USE DEF w
    <3> QED BY <1>k, <2>0, <2>1, <3>1, <3>2
  <2>2. viewer[v] \in ViewerType /\ viewer[v].pc \in {"off", "live", "closed"} /\ viewer[v].ticket \in BOOLEAN
    BY <1>0 DEF ViewerType
  <2>3. CASE issue_dashboard_ticket(v)
    <3>1. viewer' = [viewer EXCEPT ![v] = [viewer[v] EXCEPT !.pc = viewer[v].pc, !.ticket = TRUE]]
      BY <1>0, <2>2, <2>3 DEF issue_dashboard_ticket, ViewerType
    <3> QED BY <2>1, <2>2, <3>1
  <2>4. CASE TicketExpires(v)
    <3>1. viewer' = [viewer EXCEPT ![v] = [viewer[v] EXCEPT !.pc = viewer[v].pc, !.ticket = FALSE]]
      BY <1>0, <2>2, <2>4 DEF TicketExpires, ViewerType
    <3> QED BY <2>1, <2>2, <3>1
  <2>5. CASE HeartbeatEnds(v)
    <3>1. viewer' = [viewer EXCEPT ![v] = [viewer[v] EXCEPT !.pc = "closed", !.ticket = viewer[v].ticket]]
      BY <1>0, <2>2, <2>5 DEF HeartbeatEnds, ViewerType
    <3> QED BY <2>1, <2>2, <3>1
  <2>6. CASE ViewerLeaves(v)
    <3>1. viewer' = [viewer EXCEPT ![v] = [viewer[v] EXCEPT !.pc = "off", !.ticket = viewer[v].ticket]]
      BY <1>0, <2>2, <2>6 DEF ViewerLeaves, ViewerType
    <3> QED BY <2>1, <2>2, <3>1
  <2>7. CASE stream_dashboard_events(v)
    <3> DEFINE w == [NoViewer EXCEPT !.pc = "live"]
    <3>0. NoViewer \in ViewerType /\ NoViewer.seen = <<>> /\ NoViewer.pos = 0
      BY DEF NoViewer, ViewerType
    <3>1. w \in ViewerType /\ w.seen = <<>> /\ w.pos = 0
      BY <3>0 DEF ViewerType
    <3>2. CASE viewer' = [viewer EXCEPT ![v].pc = "live", ![v].ticket = FALSE]
      <4>1. viewer' = [viewer EXCEPT ![v] = [viewer[v] EXCEPT !.pc = "live", !.ticket = FALSE]]
        BY <1>0, <3>2
      <4> QED BY <2>1, <4>1
    <3>3. CASE viewer' = [viewer EXCEPT ![v] = w]
      <4> HIDE DEF w
      <4>1. ShownInOrder(w)
        BY <3>1 DEF ShownInOrder
      <4> QED BY <1>k, <2>0, <3>1, <3>3, <4>1
    <3> QED BY <2>7, <3>2, <3>3 DEF stream_dashboard_events
  <2> QED BY <1>2, <2>3, <2>4, <2>5, <2>6, <2>7
<1>3. ASSUME NEW v \in Viewers, subscribe_dashboard(v) PROVE DashInv'
  <2> DEFINE n == NextMessage(v)
             l == viewer[v].late \/ n > viewer[v].pos + 1
             w == [viewer[v] EXCEPT !.pos = n, !.seen = Append(viewer[v].seen, n), !.late = l]
  <2>1. n \in Nat /\ n > viewer[v].pos
    BY NextIsLater
  <2>2. viewer' = [viewer EXCEPT ![v] = w] /\ UNCHANGED changes
    BY <1>0, <1>3 DEF subscribe_dashboard
  <2>3. l \in BOOLEAN /\ (l <=> (viewer[v].late \/ n > viewer[v].pos + 1))
    BY <1>0 DEF ViewerType
  <2>4. w = [viewer[v] EXCEPT !.pos = n, !.seen = Append(viewer[v].seen, n), !.late = l]
    OBVIOUS
  <2>5. viewer[v] \in ViewerType /\ ShownInOrder(viewer[v])
    BY DEF DashInv
  <2> HIDE DEF n, l, w
  <2>6. w \in ViewerType /\ ShownInOrder(w)
    BY <2>1, <2>3, <2>4, <2>5, ShownOneMore
  <2> QED BY <1>k, <2>2, <2>6
<1>4. CASE UNCHANGED dashVars
  BY <1>4 DEF dashVars, DashInv
<1> QED BY <1>1, <1>2, <1>3, <1>4 DEF DashNext

\* For any number of changes, viewers and reconnections, and any length the stream is
\* trimmed to: a viewer that gives the id it saw last is shown the changes in order,
\* and all of them unless the stream was trimmed past it (subscribe_dashboard).
THEOREM ViewersSeeAll == DashSpec => []DashboardIsExact
<1>1. DashInit => DashInv
  <2>1. NoViewer \in ViewerType /\ NoViewer.seen = <<>> /\ NoViewer.pos = 0
    BY DEF NoViewer, ViewerType
  <2>2. ShownInOrder(NoViewer)
    BY <2>1 DEF ShownInOrder
  <2> QED BY <2>1, <2>2 DEF DashInit, DashInv
<1>2. DashInv => DashboardIsExact
  <2> SUFFICES ASSUME DashInv, NEW v \in Viewers
               PROVE  LET s == viewer[v].seen IN
                      /\ \A i \in 1..(Len(s) - 1) : s[i] < s[i + 1]
                      /\ ~viewer[v].late => s = [i \in 1..Len(s) |-> i]
    BY DEF DashboardIsExact
  <2> DEFINE s == viewer[v].seen
  <2>1. s \in Seq(Nat) /\ DOMAIN s = 1..Len(s)
    BY DEF DashInv, ViewerType
  <2>2. s = [i \in DOMAIN s |-> s[i]]
    BY <2>1
  <2>3. ~viewer[v].late => \A i \in 1..Len(s) : s[i] = i
    BY DEF DashInv, ShownInOrder
  <2>4. ~viewer[v].late => s = [i \in 1..Len(s) |-> i]
    BY <2>1, <2>2, <2>3
  <2>5. \A i \in 1..(Len(s) - 1) : s[i] < s[i + 1]
    BY DEF DashInv, ShownInOrder
  <2> QED BY <2>4, <2>5
<1> QED BY <1>1, <1>2, DashSteps, PTL DEF DashSpec
-----------------------------------------------------------------------------
(* The list of reviews.  A page is the next rows after the cursor: with    *)
(* one row over the limit there is another page, and the cursor is the     *)
(* last row that was shown; without one the page was the last.             *)

QueueTypes ==
  /\ review \in [Reviews -> {"none", "writing", "pending", "approved", "rejected", "needs_changes", "expired"}]
  /\ pages \in [pc: {"idle", "walk", "end"}, cursor: Nat, seen: SUBSET Reviews, stable: SUBSET Reviews,
                twice: BOOLEAN]

\* What the walk owes the client is still pending; up to the cursor it has been
\* shown, and nothing past the cursor has.
WalkSoFar ==
  /\ \A r \in pages.stable : review[r] = "pending"
  /\ pages.pc = "walk" => /\ \A r \in pages.seen : r <= pages.cursor
                          /\ \A r \in pages.stable : r <= pages.cursor => r \in pages.seen

QueueInv == QueueTypes /\ WalkSoFar /\ WalkIsComplete

LEMMA NewestIsLast ==
  ASSUME NEW S \in SUBSET Reviews, S # {}
  PROVE  Newest(S) \in S /\ \A x \in S : x <= Newest(S)
<1>1. S \in SUBSET (1..ReviewCount)
  BY DEF Reviews
<1>2. \E r \in S : \A x \in S : x <= r
  BY <1>1, BoundedMax, ReviewQueueAssumption
<1> QED BY <1>2 DEF Newest

\* What one page of the list reads.
LEMMA PageIsNext ==
  ASSUME QueueTypes, NEW c \in Nat,
         NEW after, after = {r \in Reviews : review[r] = "pending" /\ r > c},
         NEW found, found = list_reviews(c)
  PROVE  /\ after \subseteq Reviews /\ IsFiniteSet(found) /\ Cardinality(found) \in Nat /\ found \subseteq after
         /\ \A x \in found, r \in after : r <= x => r \in found
         /\ Cardinality(found) <= PageLimit => found = after
<1> DEFINE Below(r) == {x \in after : x < r}
<1>0. found = {r \in after : Cardinality(Below(r)) < PageLimit + 1}
  BY DEF list_reviews
<1>1. IsFiniteSet(Reviews) /\ Reviews \subseteq Nat
  BY ReviewQueueAssumption, FS_Interval DEF Reviews
<1>2. IsFiniteSet(after) /\ after \subseteq Reviews
  BY <1>1, FS_Subset
<1>3. found \subseteq after /\ IsFiniteSet(found) /\ Cardinality(found) \in Nat
  BY <1>0, <1>2, FS_Subset, FS_CardinalityType
<1>4. \A r \in after : IsFiniteSet(Below(r)) /\ Cardinality(Below(r)) \in Nat
  <2> SUFFICES ASSUME NEW r \in after PROVE IsFiniteSet(Below(r)) /\ Cardinality(Below(r)) \in Nat
    OBVIOUS
  <2>1. Below(r) \subseteq after
    OBVIOUS
  <2> HIDE DEF Below
  <2> QED BY <1>2, <2>1, FS_Subset, FS_CardinalityType
<1>5. ASSUME NEW x \in found, NEW r \in after, r <= x PROVE r \in found
  <2>1. x \in after /\ Cardinality(Below(x)) < PageLimit + 1
    BY <1>0
  <2>2. Below(r) \subseteq Below(x)
    <3> SUFFICES ASSUME NEW y \in after, y < r PROVE y < x
      OBVIOUS
    <3> QED BY <1>1, <1>2, <1>5, <2>1
  <2>3. Cardinality(Below(r)) \in Nat /\ Cardinality(Below(x)) \in Nat /\ IsFiniteSet(Below(x))
    BY <1>4, <2>1
  <2> HIDE DEF Below
  <2>4. Cardinality(Below(r)) <= Cardinality(Below(x))
    BY <2>2, <2>3, FS_Subset
  <2>5. Cardinality(Below(r)) < PageLimit + 1
    BY <2>1, <2>3, <2>4, ReviewQueueAssumption
  <2> QED BY <1>0, <2>5
<1>6. ASSUME Cardinality(found) <= PageLimit PROVE found = after
  <2> DEFINE left == after \ found
  <2> SUFFICES ASSUME left # {} PROVE FALSE
    BY <1>3
  <2>1. left \in SUBSET Nat
    BY <1>1, <1>2
  <2>2. PICK r \in left : \A y \in left : r <= y
    BY <2>1, NatMin
  <2>3. r \in after /\ r \notin found
    OBVIOUS
  <2>4. Below(r) \subseteq found
    <3> SUFFICES ASSUME NEW y \in after, y < r, y \notin found PROVE FALSE
      OBVIOUS
    <3> QED BY <1>1, <1>2, <2>2
  <2>5. Cardinality(Below(r)) \in Nat
    BY <1>4, <2>3
  <2> HIDE DEF Below
  <2>6. Cardinality(Below(r)) <= Cardinality(found)
    BY <1>3, <2>4, FS_Subset
  <2>7. Cardinality(Below(r)) < PageLimit + 1
    BY <1>3, <1>6, <2>5, <2>6, ReviewQueueAssumption
  <2> QED BY <1>0, <2>3, <2>7
<1> QED BY <1>2, <1>3, <1>5, <1>6

LEMMA PageSteps == ASSUME QueueInv, list_reviews_page PROVE QueueInv'
<1> DEFINE c     == pages.cursor
           after == {r \in Reviews : review[r] = "pending" /\ r > c}
           found == list_reviews(c)
           last  == Newest(found)
<1>0. /\ pages.pc = "walk" /\ UNCHANGED review /\ QueueTypes /\ c \in Nat /\ pages.twice = FALSE
      /\ pages.seen \subseteq Reviews /\ pages.stable \subseteq Reviews
      /\ \A r \in pages.stable : review[r] = "pending"
      /\ \A r \in pages.seen : r <= c
      /\ \A r \in pages.stable : r <= c => r \in pages.seen
  <2>1. pages.pc = "walk" /\ UNCHANGED review
    BY DEF list_reviews_page
  <2> QED BY <2>1 DEF QueueInv, QueueTypes, WalkSoFar, WalkIsComplete
<1>1. /\ after \subseteq Reviews /\ IsFiniteSet(found) /\ Cardinality(found) \in Nat /\ found \subseteq after
      /\ \A x \in found, r \in after : r <= x => r \in found
      /\ Cardinality(found) <= PageLimit => found = after
  BY <1>0, PageIsNext
<1>2. \A r \in Reviews : r \in Nat
  BY DEF Reviews
<1>3. /\ \A r \in Reviews : r \in after <=> review[r] = "pending" /\ r > c
      /\ \A r \in after : r \in Reviews /\ r \in Nat /\ r > c
  BY <1>2
<1> HIDE DEF c, after, found
<1>4. /\ \A r \in after : r \notin pages.seen
      /\ \A r \in pages.stable : r \in Nat /\ (r <= c \/ r \in after)
      /\ \A r \in pages.seen : r \in Nat
  BY <1>0, <1>2, <1>3
<1>5. CASE ~(Cardinality(found) > PageLimit)
  <2>1. found = after
    BY <1>1, <1>5, ReviewQueueAssumption
  <2>2. found \cap pages.seen = {} /\ pages.seen \cup found \subseteq Reviews
    BY <1>0, <1>1, <1>4
  <2>3. pages' = [pages EXCEPT !.seen = pages.seen \cup found,
                               !.twice = pages.twice \/ found \cap pages.seen # {},
                               !.cursor = c, !.pc = "end"]
    BY <1>5 DEF list_reviews_page, c, found
  <2>4. pages' = [pages EXCEPT !.seen = pages.seen \cup found, !.twice = FALSE, !.cursor = c, !.pc = "end"]
    BY <1>0, <2>2, <2>3
  <2>5. pages.stable \subseteq pages.seen \cup found
    BY <1>0, <1>4, <2>1
  <2>6. /\ QueueTypes' /\ pages'.pc = "end" /\ pages'.stable = pages.stable /\ pages'.twice = FALSE
        /\ pages'.seen = pages.seen \cup found
    BY <1>0, <2>2, <2>4 DEF QueueTypes
  <2> QED BY <1>0, <2>5, <2>6 DEF QueueInv, WalkSoFar, WalkIsComplete
<1>6. CASE Cardinality(found) > PageLimit
  <2> DEFINE page == found \ {last}
             new  == Newest(page)
  <2>1. found # {} /\ found \in SUBSET Reviews
    <3>1. Cardinality(found) # 0
      BY <1>1, <1>6, ReviewQueueAssumption
    <3> QED BY <1>1, <3>1, FS_EmptySet
  <2>2. last \in found /\ \A x \in found : x <= last
    BY <2>1, NewestIsLast
  <2>3. page # {} /\ page \in SUBSET Reviews
    <3>1. IsFiniteSet(page) /\ Cardinality(page) = Cardinality(found) - 1
      BY <1>1, <2>2, FS_RemoveElement
    <3>2. Cardinality(page) # 0
      BY <1>1, <1>6, <3>1, ReviewQueueAssumption
    <3> QED BY <2>1, <3>1, <3>2, FS_EmptySet
  <2>4. new \in page /\ \A x \in page : x <= new
    BY <2>3, NewestIsLast
  <2>5. pages' = [pages EXCEPT !.seen = pages.seen \cup page,
                               !.twice = pages.twice \/ page \cap pages.seen # {},
                               !.cursor = new, !.pc = "walk"]
    BY <1>6 DEF list_reviews_page, _encode_cursor, c, found
  <2>6. page \cap pages.seen = {} /\ pages.seen \cup page \subseteq Reviews
    BY <1>0, <1>1, <1>4, <2>3
  <2>7. pages' = [pages EXCEPT !.seen = pages.seen \cup page, !.twice = FALSE, !.cursor = new, !.pc = "walk"]
    BY <1>0, <2>5, <2>6
  <2>8. new \in Nat /\ new > c /\ new < last /\ last \in Nat
    <3>1. new \in found /\ new # last
      BY <2>4
    <3>2. new \in after /\ last \in after /\ new <= last
      BY <1>1, <2>2, <3>1
    <3>3. new \in Nat /\ new > c /\ last \in Nat
      BY <1>3, <3>2
    <3> QED BY <3>1, <3>2, <3>3
  <2>9. \A r \in pages.seen \cup page : r <= new
    <3> SUFFICES ASSUME NEW r \in pages.seen PROVE r <= new
      BY <2>4
    <3> QED BY <1>0, <1>4, <2>8
  <2>10. \A r \in pages.stable : r <= new => r \in pages.seen \cup page
    <3> SUFFICES ASSUME NEW r \in pages.stable, r <= new PROVE r \in pages.seen \cup page
      OBVIOUS
    <3>1. CASE r <= c
      BY <1>0, <3>1
    <3>2. CASE ~(r <= c)
      <4>1. r \in after /\ new \in found
        BY <1>4, <2>4, <3>2
      <4>2. r \in found
        BY <1>1, <4>1
      <4>3. r # last
        BY <1>4, <2>8
      <4> QED BY <4>2, <4>3
    <3> QED BY <3>1, <3>2
  <2> HIDE DEF page, new
  <2>11. /\ QueueTypes' /\ pages'.pc = "walk" /\ pages'.stable = pages.stable /\ pages'.twice = FALSE
         /\ pages'.seen = pages.seen \cup page /\ pages'.cursor = new
    BY <1>0, <2>6, <2>7, <2>8 DEF QueueTypes
  <2> QED BY <1>0, <2>9, <2>10, <2>11 DEF QueueInv, WalkSoFar, WalkIsComplete
<1> QED BY <1>5, <1>6

LEMMA QueueSteps == QueueInv /\ [QueueNext]_queueVars => QueueInv'
<1> SUFFICES ASSUME QueueInv, [QueueNext]_queueVars PROVE QueueInv'
  OBVIOUS
<1>0. /\ QueueTypes /\ WalkSoFar /\ WalkIsComplete
  BY DEF QueueInv
<1>1. ASSUME NEW r \in Reviews, store_interrupt(r) \/ InsertCommits(r) PROVE QueueInv'
  <2>1. review[r] # "pending" /\ UNCHANGED pages
    BY <1>1 DEF store_interrupt, InsertCommits
  <2>2. QueueTypes' /\ \A x \in Reviews : x # r => review'[x] = review[x]
    BY <1>0, <1>1 DEF store_interrupt, InsertCommits, QueueTypes
  <2>3. \A x \in pages.stable : x \in Reviews /\ x # r
    BY <1>0, <2>1 DEF QueueTypes, WalkSoFar
  <2> QED BY <1>0, <2>1, <2>2, <2>3 DEF QueueInv, WalkSoFar, WalkIsComplete
\* Rows leave the pending ones, and the walk no longer owes them.
<1>2. ASSUME NEW old \in SUBSET Reviews,
             review' \in [Reviews -> {"none", "writing", "pending", "approved", "rejected", "needs_changes", "expired"}],
             \A x \in Reviews \ old : review'[x] = review[x],
             pages' = [pages EXCEPT !.stable = pages.stable \ old]
      PROVE  QueueInv'
  <2>1. /\ QueueTypes' /\ pages'.stable = pages.stable \ old /\ pages'.seen = pages.seen
        /\ pages'.cursor = pages.cursor /\ pages'.pc = pages.pc /\ pages'.twice = pages.twice
    BY <1>0, <1>2 DEF QueueTypes
  <2>2. \A x \in pages'.stable : x \in pages.stable /\ review'[x] = review[x]
    BY <1>0, <1>2, <2>1 DEF QueueTypes
  <2> QED BY <1>0, <2>1, <2>2 DEF QueueInv, WalkSoFar, WalkIsComplete
<1>3. ASSUME NEW r \in Reviews, record_decision(r) PROVE QueueInv'
  <2>1. PICK st \in {"approved", "rejected", "needs_changes"} : Leaves(r, st)
    BY <1>3 DEF record_decision
  <2>2. /\ review' = [review EXCEPT ![r] = st] /\ pages' = [pages EXCEPT !.stable = pages.stable \ {r}]
    BY <2>1 DEF Leaves
  <2>3. /\ review' \in [Reviews -> {"none", "writing", "pending", "approved", "rejected", "needs_changes", "expired"}]
        /\ \A x \in Reviews \ {r} : review'[x] = review[x]
    BY <1>0, <2>2 DEF QueueTypes
  <2>4. {r} \in SUBSET Reviews
    OBVIOUS
  <2> QED BY <1>2, <2>2, <2>3, <2>4
<1>4. CASE expire_old_reviews
  <2>1. PICK old \in SUBSET {r \in Reviews : review[r] = "pending"} :
           /\ review' = [r \in Reviews |-> IF r \in old THEN "expired" ELSE review[r]]
           /\ pages'  = [pages EXCEPT !.stable = pages.stable \ old]
    BY <1>4 DEF expire_old_reviews
  <2>2. /\ review' \in [Reviews -> {"none", "writing", "pending", "approved", "rejected", "needs_changes", "expired"}]
        /\ \A x \in Reviews \ old : review'[x] = review[x]
    BY <1>0, <2>1 DEF QueueTypes
  <2>3. old \in SUBSET Reviews
    OBVIOUS
  <2> QED BY <1>2, <2>1, <2>2, <2>3
<1>w. /\ NoWalk \in [pc: {"idle", "walk", "end"}, cursor: Nat, seen: SUBSET Reviews, stable: SUBSET Reviews, twice: BOOLEAN]
      /\ NoWalk.pc = "idle" /\ NoWalk.stable = {} /\ NoWalk.twice = FALSE /\ NoWalk.cursor = 0 /\ NoWalk.seen = {}
  BY DEF NoWalk
<1>5. CASE StartWalk
  <2> DEFINE S == {r \in Reviews : review[r] = "pending"}
  <2>1. pages' = [NoWalk EXCEPT !.pc = "walk", !.stable = S] /\ UNCHANGED review
    BY <1>5 DEF StartWalk
  <2>2. S \subseteq Reviews /\ \A r \in S : review[r] = "pending" /\ r > 0
    BY DEF Reviews
  <2> HIDE DEF S
  <2>3. QueueTypes' /\ pages'.seen = {} /\ pages'.cursor = 0 /\ pages'.twice = FALSE /\ pages'.stable = S /\ pages'.pc = "walk"
    BY <1>0, <1>w, <2>1, <2>2 DEF QueueTypes
  <2>4. \A r \in S : ~(r <= 0)
    BY <2>2 DEF Reviews
  <2> QED BY <2>1, <2>2, <2>3, <2>4 DEF QueueInv, WalkSoFar, WalkIsComplete
<1>6. CASE EndWalk
  BY <1>0, <1>6, <1>w DEF EndWalk, QueueInv, QueueTypes, WalkSoFar, WalkIsComplete
<1>7. CASE UNCHANGED queueVars
  BY <1>0, <1>7 DEF queueVars, QueueInv, QueueTypes, WalkSoFar, WalkIsComplete
<1> QED BY <1>1, <1>3, <1>4, <1>5, <1>6, <1>7, PageSteps DEF QueueNext

\* For any number of reviews and any page limit: a walk through the pages shows each
\* review that stays pending, and none twice, while rows are inserted out of order,
\* decided and expired (list_reviews of persistence/repositories/reviews.py and
\* list_reviews_page of app/api/routes/reviews.py).
THEOREM WalksAreComplete == QueueSpec => []WalkIsComplete
<1>1. QueueInit => QueueInv
  <2> SUFFICES ASSUME QueueInit PROVE QueueInv
    OBVIOUS
  <2>1. /\ NoWalk \in [pc: {"idle", "walk", "end"}, cursor: Nat, seen: SUBSET Reviews, stable: SUBSET Reviews, twice: BOOLEAN]
        /\ NoWalk.pc = "idle" /\ NoWalk.stable = {} /\ NoWalk.twice = FALSE
    BY DEF NoWalk
  <2> QED BY <2>1 DEF QueueInit, QueueInv, QueueTypes, WalkSoFar, WalkIsComplete
<1>2. QueueInv => WalkIsComplete
  BY DEF QueueInv
<1> QED BY <1>1, <1>2, QueueSteps, PTL DEF QueueSpec
-----------------------------------------------------------------------------
(* Memory.  A curation job takes its candidates out of the pending ones as *)
(* it claims them, changes memory for the one it holds at most once before *)
(* it goes on to the next, and puts back only what it has not judged.      *)

Rows     == 1..CandidateRows
ItemType == [status: {"none", "active", "archived", "superseded"}, type: {"fact", "decision", "episode_summary"},
             importance: Nat, vectors: Nat]

\* Where the candidate the job holds has not changed memory yet, and where it may have.
Unjudged == {"invoke", "release", "decide", "merge"}
Acting   == {"decide", "merge", "replace", "provenance", "mark"}

CuratorType == [pc: {"idle", "invoke", "release"} \cup Acting, claimed: Seq(Rows), decisions: Nat, at: Nat,
                target: MemoryIds \cup {"none"}, ok: BOOLEAN, read: Nat]

MemoryTypes ==
  /\ item \in [MemoryIds -> ItemType]
  /\ candidate \in [Rows -> {"none", "pending", "processing", "applied", "rejected"}]
  /\ effects \in [Rows -> Nat]
  /\ curator \in [Curators -> CuratorType]

\* A job is at one of its candidates, which are all different.
BatchOK(w) == w.pc # "idle" =>
  /\ w.at \in 1..Len(w.claimed) /\ (w.pc = "invoke" => w.at = 1)
  /\ w.pc \in Acting => w.at <= w.decisions /\ w.decisions <= Len(w.claimed)
  /\ \A i, j \in 1..Len(w.claimed) : w.claimed[i] = w.claimed[j] => i = j

\* The candidates a job has before it, the one it is at included.
Ahead(w) == IF w.pc = "idle" THEN {} ELSE w.at..Len(w.claimed)

\* They are claimed, by this job alone.
ClaimsHold == \A k \in Curators : \A i \in Ahead(curator[k]) :
  /\ candidate[curator[k].claimed[i]] = "processing"
  /\ \A l \in Curators : \A j \in Ahead(curator[l]) :
        curator[l].claimed[j] = curator[k].claimed[i] => l = k

\* What is not claimed yet, or not judged yet, changed nothing.
NothingEarly ==
  /\ \A c \in Rows : candidate[c] \in {"none", "pending"} => effects[c] = 0
  /\ \A k \in Curators : \A i \in Ahead(curator[k]) :
        i # curator[k].at \/ curator[k].pc \in Unjudged => effects[curator[k].claimed[i]] = 0

MemoryInv == /\ MemoryTypes /\ (\A k \in Curators : BatchOK(curator[k]))
             /\ ClaimsHold /\ NothingEarly /\ DecisionAppliedOnce

\* Any candidates can be listed in their order: by the least number that cannot.
LEMMA OrderExists ==
  ASSUME NEW S \in SUBSET Rows
  PROVE  \E q \in [1..Cardinality(S) -> S] : \A i, j \in 1..Cardinality(S) : i < j => q[i] < q[j]
<1> DEFINE Ordered(T) == \E q \in [1..Cardinality(T) -> T] : \A i, j \in 1..Cardinality(T) : i < j => q[i] < q[j]
           Bad == {n \in Nat : \E T \in SUBSET Rows : Cardinality(T) = n /\ ~Ordered(T)}
<1>0. \A T \in SUBSET Rows : IsFiniteSet(T) /\ Cardinality(T) \in Nat
  <2>1. IsFiniteSet(Rows)
    BY MemoryAssumption, FS_Interval DEF Rows
  <2> QED BY <2>1, FS_Subset, FS_CardinalityType
<1> SUFFICES ASSUME ~Ordered(S) PROVE FALSE
  OBVIOUS
<1> HIDE DEF Ordered
<1>1. Bad # {} /\ Bad \in SUBSET Nat
  BY <1>0
<1> HIDE DEF Bad
<1>2. PICK n \in Bad : \A m \in Bad : n <= m
  BY <1>1, NatMin
<1>3. PICK T \in SUBSET Rows : Cardinality(T) = n /\ ~Ordered(T)
  BY <1>2 DEF Bad
<1>4. n \in Nat
  BY <1>1, <1>2
<1>5. CASE T = {}
  <2>1. Cardinality(T) = 0
    BY <1>5, FS_EmptySet
  <2>2. [i \in 1..Cardinality(T) |-> i] \in [1..Cardinality(T) -> T]
    BY <1>5, <2>1
  <2>3. \A i, j \in 1..Cardinality(T) : FALSE
    BY <2>1
  <2> QED BY <1>3, <2>2, <2>3 DEF Ordered
<1>6. CASE T # {}
  <2>1. PICK m \in T : \A x \in T : x <= m
    BY <1>6, BoundedMax, MemoryAssumption DEF Rows
  <2> DEFINE U == T \ {m}
  <2>2. Cardinality(U) = n - 1 /\ U \in SUBSET Rows
    BY <1>0, <1>3, <2>1, FS_RemoveElement
  <2>3. Cardinality(U) \in Nat /\ ~(n <= n - 1)
    BY <1>0, <1>4, <2>2
  <2> HIDE DEF U
  <2>4. Ordered(U)
    <3>1. Cardinality(U) \notin Bad
      BY <1>2, <1>4, <2>2, <2>3
    <3> QED BY <2>2, <2>3, <3>1 DEF Bad
  <2>5. PICK q \in [1..(n - 1) -> U] : \A i, j \in 1..(n - 1) : i < j => q[i] < q[j]
    BY <2>2, <2>4 DEF Ordered
  <2> DEFINE p == [i \in 1..n |-> IF i = n THEN m ELSE q[i]]
  <2>6. \A i \in 1..(n - 1) : q[i] \in T /\ q[i] # m
    BY <2>5 DEF U
  <2>7. \A i \in 1..n : i = n \/ i \in 1..(n - 1)
    BY <1>4
  <2>8. /\ \A i \in 1..n : p[i] \in T
        /\ \A i \in 1..(n - 1) : p[i] = q[i] /\ i # n
        /\ n \in 1..n => p[n] = m
    <3>1. \A i \in 1..(n - 1) : i \in 1..n /\ i # n
      BY <1>4
    <3> QED BY <2>1, <2>6, <2>7, <3>1
  <2>9. p \in [1..n -> T]
    BY <2>8
  <2>10. \A x \in T : x \in Nat
    BY <1>3 DEF Rows
  <2>11. ASSUME NEW i \in 1..n, NEW j \in 1..n, i < j PROVE p[i] < p[j]
    <3>1. i \in 1..(n - 1)
      BY <1>4, <2>11
    <3>2. CASE j = n
      <4>1. p[i] \in T /\ p[i] # m /\ p[j] = m
        BY <2>6, <2>8, <3>1, <3>2
      <4> HIDE DEF p
      <4>2. p[i] <= m /\ p[i] \in Nat /\ m \in Nat
        BY <2>1, <2>10, <4>1
      <4> QED BY <4>1, <4>2
    <3>3. CASE j # n
      <4>1. j \in 1..(n - 1)
        BY <2>7, <3>3
      <4> QED BY <2>5, <2>8, <2>11, <3>1, <4>1
    <3> QED BY <3>2, <3>3
  <2> HIDE DEF p
  <2> QED BY <1>3, <2>9, <2>11 DEF Ordered
<1> QED BY <1>5, <1>6

\* So a claim takes each of its rows once.
LEMMA ClaimIsOnce ==
  ASSUME NEW S \in SUBSET Rows
  PROVE  /\ InOrder(S) \in Seq(Rows) /\ Len(InOrder(S)) = Cardinality(S)
         /\ \A i \in 1..Len(InOrder(S)) : InOrder(S)[i] \in S
         /\ \A i, j \in 1..Len(InOrder(S)) : InOrder(S)[i] = InOrder(S)[j] => i = j
<1> DEFINE n == Cardinality(S)
           q == InOrder(S)
<1>0. n \in Nat
  <2>1. IsFiniteSet(Rows)
    BY MemoryAssumption, FS_Interval DEF Rows
  <2> QED BY <2>1, FS_Subset, FS_CardinalityType
<1>1. \E p \in [1..n -> S] : \A i, j \in DOMAIN p : i < j => p[i] < p[j]
  <2>1. PICK p \in [1..n -> S] : \A i, j \in 1..n : i < j => p[i] < p[j]
    BY OrderExists
  <2> QED BY <2>1
<1>2. q \in [1..n -> S] /\ \A i, j \in DOMAIN q : i < j => q[i] < q[j]
  BY <1>1 DEF InOrder
<1> HIDE DEF n, q
<1>3. q \in Seq(Rows) /\ Len(q) = n
  <2>1. q \in [1..n -> Rows]
    BY <1>2
  <2>2. q \in Seq(Rows)
    BY <1>0, <2>1
  <2> QED BY <1>0, <2>1, <2>2
<1>4. \A i \in 1..n : q[i] \in S /\ q[i] \in Nat
  <2>1. \A c \in S : c \in Nat
    BY DEF Rows
  <2> QED BY <1>2, <2>1
<1>5. ASSUME NEW i \in 1..n, NEW j \in 1..n, q[i] = q[j] PROVE i = j
  <2>1. ~(i < j) /\ ~(j < i)
    BY <1>2, <1>4, <1>5
  <2> QED BY <1>0, <2>1
<1> USE DEF n, q
<1> QED BY <1>3, <1>4, <1>5
\* What a job is at is a candidate, and its last one or followed by one.
LEMMA AheadIsRows ==
  ASSUME MemoryInv
  PROVE  \A k \in Curators :
           /\ curator[k] \in CuratorType /\ Ahead(curator[k]) \subseteq 1..Len(curator[k].claimed)
           /\ Len(curator[k].claimed) \in Nat
           /\ \A i \in 1..Len(curator[k].claimed) : curator[k].claimed[i] \in Rows
           /\ curator[k].pc # "idle" => curator[k].at \in Ahead(curator[k]) /\ Held(k) \in Rows
<1> SUFFICES ASSUME NEW k \in Curators
             PROVE  /\ curator[k] \in CuratorType /\ Ahead(curator[k]) \subseteq 1..Len(curator[k].claimed)
                    /\ Len(curator[k].claimed) \in Nat
                    /\ \A i \in 1..Len(curator[k].claimed) : curator[k].claimed[i] \in Rows
                    /\ curator[k].pc # "idle" => curator[k].at \in Ahead(curator[k]) /\ Held(k) \in Rows
  OBVIOUS
<1>1. curator[k] \in CuratorType
  BY DEF MemoryInv, MemoryTypes
<1>2. curator[k].claimed \in Seq(Rows) /\ curator[k].at \in Nat
  BY <1>1 DEF CuratorType
<1>3. Len(curator[k].claimed) \in Nat /\ \A i \in 1..Len(curator[k].claimed) : curator[k].claimed[i] \in Rows
  BY <1>2
<1>4. curator[k].pc # "idle" => curator[k].at \in 1..Len(curator[k].claimed)
  BY DEF MemoryInv, BatchOK
<1>5. CASE curator[k].pc = "idle"
  BY <1>1, <1>3, <1>5 DEF Ahead
<1>6. CASE curator[k].pc # "idle"
  BY <1>1, <1>2, <1>3, <1>4, <1>6 DEF Ahead, Held
<1> QED BY <1>5, <1>6

\* The job stays at its candidate: memory is not changed, or is for the first time.
LEMMA CuratorActs ==
  ASSUME MemoryInv, NEW k \in Curators, NEW w \in CuratorType,
         curator' = [curator EXCEPT ![k] = w], UNCHANGED candidate, item' \in [MemoryIds -> ItemType],
         curator[k].pc # "idle", w.pc \notin {"idle", "invoke"}, w.claimed = curator[k].claimed, w.at = curator[k].at,
         w.pc \in Acting => w.at <= w.decisions /\ w.decisions <= Len(w.claimed),
         \/ UNCHANGED effects /\ (w.pc \in Unjudged => curator[k].pc \in Unjudged)
         \/ Touched(k) /\ curator[k].pc \in Unjudged /\ w.pc \notin Unjudged
  PROVE  MemoryInv'
<1>0. /\ curator \in [Curators -> CuratorType] /\ effects \in [Rows -> Nat]
      /\ candidate \in [Rows -> {"none", "pending", "processing", "applied", "rejected"}]
      /\ ClaimsHold /\ NothingEarly /\ DecisionAppliedOnce
  BY DEF MemoryInv, MemoryTypes
<1>1. curator'[k] = w /\ \A l \in Curators : l # k => curator'[l] = curator[l]
  BY <1>0
<1>2. \A l \in Curators : Ahead(curator'[l]) = Ahead(curator[l]) /\ curator'[l].claimed = curator[l].claimed
                          /\ curator'[l].at = curator[l].at
  BY <1>1 DEF Ahead
<1>3. \A l \in Curators : BatchOK(curator[l])
  BY DEF MemoryInv
<1>4. \A l \in Curators : BatchOK(curator'[l])
  BY <1>1, <1>3 DEF BatchOK
<1>5. ClaimsHold'
  BY <1>0, <1>2 DEF ClaimsHold
<1>6. curator' \in [Curators -> CuratorType]
  BY <1>0
<1>7. CASE UNCHANGED effects /\ (w.pc \in Unjudged => curator[k].pc \in Unjudged)
  <2>1. \A l \in Curators : curator'[l].pc \in Unjudged => curator[l].pc \in Unjudged
    BY <1>1, <1>7
  <2>2. NothingEarly'
    BY <1>0, <1>2, <1>7, <2>1 DEF NothingEarly
  <2>3. DecisionAppliedOnce'
    BY <1>0, <1>7 DEF DecisionAppliedOnce
  <2> QED BY <1>0, <1>4, <1>5, <1>6, <1>7, <2>2, <2>3 DEF MemoryInv, MemoryTypes
<1>8. CASE Touched(k) /\ curator[k].pc \in Unjudged /\ w.pc \notin Unjudged
  <2> DEFINE h == Held(k)
  <2>1. h \in Rows /\ curator[k].at \in Ahead(curator[k])
    BY AheadIsRows
  <2>2. h = curator[k].claimed[curator[k].at]
    BY DEF Held
  <2>3. effects[h] = 0 /\ candidate[h] = "processing"
    BY <1>0, <1>8, <2>1, <2>2 DEF NothingEarly, ClaimsHold
  <2>4. effects' = [effects EXCEPT ![h] = effects[h] + 1]
    BY <1>8 DEF Touched
  <2> HIDE DEF h
  <2>5. /\ effects' \in [Rows -> Nat] /\ effects'[h] = 1
        /\ \A c \in Rows : c # h => effects'[c] = effects[c]
    BY <1>0, <2>1, <2>3, <2>4
  <2>6. DecisionAppliedOnce'
    BY <1>0, <2>5 DEF DecisionAppliedOnce, Rows
  <2>7. ASSUME NEW l \in Curators, NEW i \in Ahead(curator'[l]),
               i # curator'[l].at \/ curator'[l].pc \in Unjudged
        PROVE  effects'[curator'[l].claimed[i]] = 0
    <3>1. i \in Ahead(curator[l]) /\ curator'[l].claimed = curator[l].claimed /\ curator'[l].at = curator[l].at
      BY <1>2
    <3>2. curator[l].claimed[i] \in Rows /\ i \in 1..Len(curator[l].claimed)
      BY <3>1, AheadIsRows
    <3>3. CASE l = k
      <4>1. i # curator[k].at
        BY <1>1, <1>8, <2>7, <3>3
      <4>2. curator[k].at \in 1..Len(curator[k].claimed)
        BY <2>1, AheadIsRows
      <4>3. curator[l].claimed[i] # h
        BY <1>3, <2>2, <3>2, <3>3, <4>1, <4>2 DEF BatchOK
      <4> QED BY <1>0, <2>5, <3>1, <3>2, <3>3, <4>1, <4>3 DEF NothingEarly
    <3>4. CASE l # k
      <4>1. curator[l].claimed[i] # h
        BY <1>0, <2>1, <2>2, <3>1, <3>4 DEF ClaimsHold
      <4>2. i # curator[l].at \/ curator[l].pc \in Unjudged
        BY <1>1, <2>7, <3>4
      <4> QED BY <1>0, <2>5, <3>1, <3>2, <4>1, <4>2 DEF NothingEarly
    <3> QED BY <3>3, <3>4
  <2>8. NothingEarly'
    <3>1. \A c \in Rows : candidate'[c] \in {"none", "pending"} => effects'[c] = 0
      BY <1>0, <2>3, <2>5 DEF NothingEarly
    <3> QED BY <2>7, <3>1 DEF NothingEarly
  <2> QED BY <1>0, <1>4, <1>5, <1>6, <2>5, <2>6, <2>8 DEF MemoryInv, MemoryTypes
<1> QED BY <1>7, <1>8

\* The job leaves its candidate, for the next one or for good.
LEMMA CuratorGoesOn ==
  ASSUME MemoryInv, NEW k \in Curators, NEW w \in CuratorType,
         curator' = [curator EXCEPT ![k] = w], UNCHANGED <<effects, item>>, curator[k].pc # "idle",
         candidate' \in [Rows -> {"none", "pending", "processing", "applied", "rejected"}],
         \A c \in Rows : c # Held(k) => candidate'[c] = candidate[c],
         candidate'[Held(k)] \in {"none", "pending"} => effects[Held(k)] = 0,
         \/ w.pc = "idle"
         \/ /\ w.pc # "invoke" /\ w.claimed = curator[k].claimed /\ w.at = curator[k].at + 1 /\ w.at <= Len(w.claimed)
            /\ w.pc \in Acting => w.at <= w.decisions /\ w.decisions <= Len(w.claimed)
  PROVE  MemoryInv'
<1> DEFINE h == Held(k)
<1>0. /\ curator \in [Curators -> CuratorType] /\ effects \in [Rows -> Nat] /\ item \in [MemoryIds -> ItemType]
      /\ ClaimsHold /\ NothingEarly /\ DecisionAppliedOnce /\ \A l \in Curators : BatchOK(curator[l])
  BY DEF MemoryInv, MemoryTypes
<1>1. curator'[k] = w /\ \A l \in Curators : l # k => curator'[l] = curator[l]
  BY <1>0
<1>2. /\ h \in Rows /\ curator[k].at \in Ahead(curator[k]) /\ h = curator[k].claimed[curator[k].at]
      /\ Len(curator[k].claimed) \in Nat /\ curator[k].at \in Nat /\ curator[k].at >= 1
      /\ \A i, j \in 1..Len(curator[k].claimed) : curator[k].claimed[i] = curator[k].claimed[j] => i = j
      /\ curator[k].at \in 1..Len(curator[k].claimed)
  BY <1>0, AheadIsRows DEF Held, BatchOK
<1>3. \A l \in Curators : BatchOK(curator'[l])
  <2>1. BatchOK(w)
    BY <1>2 DEF BatchOK
  <2> QED BY <1>0, <1>1, <2>1
\* What is left ahead was ahead, is not the candidate just left, and is not judged.
<1>4. ASSUME NEW l \in Curators, NEW i \in Ahead(curator'[l])
      PROVE  /\ i \in Ahead(curator[l]) /\ curator'[l].claimed[i] = curator[l].claimed[i]
             /\ curator[l].claimed[i] \in Rows /\ curator[l].claimed[i] # h
             /\ i # curator'[l].at \/ curator'[l].pc \in Unjudged
                  => i # curator[l].at \/ curator[l].pc \in Unjudged
  <2>1. CASE l # k
    <3>1. i \in Ahead(curator[l]) /\ curator'[l] = curator[l]
      BY <1>1, <1>4, <2>1
    <3>2. curator[l].claimed[i] # h
      BY <1>0, <1>2, <2>1, <3>1 DEF ClaimsHold
    <3>3. curator[l].claimed[i] \in Rows
      BY <3>1, AheadIsRows
    <3> QED BY <3>1, <3>2, <3>3
  <2>2. CASE l = k
    <3>1. w.pc # "idle" /\ i \in w.at..Len(w.claimed) /\ curator'[l] = w
      BY <1>1, <1>4, <2>2 DEF Ahead
    <3>2. w.claimed = curator[k].claimed /\ w.at = curator[k].at + 1
      BY <3>1
    <3>3. i \in 1..Len(curator[k].claimed) /\ i # curator[k].at /\ i \in curator[k].at..Len(curator[k].claimed)
      BY <1>2, <3>1, <3>2
    <3>4. i \in Ahead(curator[k])
      BY <3>3 DEF Ahead
    <3>5. curator[k].claimed[i] # h
      BY <1>2, <3>3
    <3>6. curator[k].claimed[i] \in Rows
      BY <3>3, AheadIsRows
    <3> QED BY <2>2, <3>1, <3>2, <3>3, <3>4, <3>5, <3>6
  <2> QED BY <2>1, <2>2
<1>5. ClaimsHold'
  <2> SUFFICES ASSUME NEW l \in Curators, NEW i \in Ahead(curator'[l])
               PROVE  /\ candidate'[curator'[l].claimed[i]] = "processing"
                      /\ \A m \in Curators : \A j \in Ahead(curator'[m]) :
                            curator'[m].claimed[j] = curator'[l].claimed[i] => m = l
    BY DEF ClaimsHold
  <2>1. candidate'[curator'[l].claimed[i]] = "processing"
    BY <1>0, <1>4 DEF ClaimsHold
  <2>2. ASSUME NEW m \in Curators, NEW j \in Ahead(curator'[m]), curator'[m].claimed[j] = curator'[l].claimed[i]
        PROVE  m = l
    BY <1>0, <1>4, <2>2 DEF ClaimsHold
  <2> QED BY <2>1, <2>2
<1>6. NothingEarly'
  <2>1. \A c \in Rows : candidate'[c] \in {"none", "pending"} => effects'[c] = 0
    BY <1>0, <1>2 DEF NothingEarly
  <2>2. ASSUME NEW l \in Curators, NEW i \in Ahead(curator'[l]),
               i # curator'[l].at \/ curator'[l].pc \in Unjudged
        PROVE  effects'[curator'[l].claimed[i]] = 0
    BY <1>0, <1>4, <2>2 DEF NothingEarly
  <2> QED BY <2>1, <2>2 DEF NothingEarly
<1>7. curator' \in [Curators -> CuratorType]
  BY <1>0
<1> QED BY <1>0, <1>3, <1>5, <1>6, <1>7 DEF MemoryInv, MemoryTypes, DecisionAppliedOnce

\* A job claims.
LEMMA CuratorClaims == ASSUME MemoryInv, NEW k \in Curators, claim_pending(k) PROVE MemoryInv'
<1> DEFINE S == Oldest
           q == InOrder(S)
           w == [NoCurator EXCEPT !.pc = "invoke", !.claimed = q]
<1>0. /\ curator \in [Curators -> CuratorType] /\ effects \in [Rows -> Nat] /\ item \in [MemoryIds -> ItemType]
      /\ candidate \in [Rows -> {"none", "pending", "processing", "applied", "rejected"}] /\ DOMAIN candidate = Rows
      /\ ClaimsHold /\ NothingEarly /\ DecisionAppliedOnce /\ \A l \in Curators : BatchOK(curator[l])
  BY DEF MemoryInv, MemoryTypes
<1>1. S # {} /\ S \subseteq Rows /\ \A c \in S : candidate[c] = "pending"
  BY <1>0 DEF claim_pending, Oldest
<1>2. /\ candidate' = [c \in Rows |-> IF c \in S THEN "processing" ELSE candidate[c]]
      /\ curator' = [curator EXCEPT ![k] = w] /\ curator[k].pc = "idle" /\ UNCHANGED <<effects, item>>
  BY <1>0 DEF claim_pending
<1>3. /\ q \in Seq(Rows) /\ \A i \in 1..Len(q) : q[i] \in S
      /\ \A i, j \in 1..Len(q) : q[i] = q[j] => i = j
      /\ Len(q) \in Nat /\ Len(q) >= 1
  <2>1. /\ q \in Seq(Rows) /\ Len(q) = Cardinality(S) /\ \A i \in 1..Len(q) : q[i] \in S
        /\ \A i, j \in 1..Len(q) : q[i] = q[j] => i = j
    BY <1>1, ClaimIsOnce
  <2>2. IsFiniteSet(S) /\ Cardinality(S) \in Nat
    <3>1. IsFiniteSet(Rows)
      BY MemoryAssumption, FS_Interval DEF Rows
    <3> QED BY <1>1, <3>1, FS_Subset, FS_CardinalityType
  <2>3. Cardinality(S) # 0
    BY <1>1, <2>2, FS_EmptySet
  <2> QED BY <2>1, <2>2, <2>3
<1> HIDE DEF S, q
<1>4. w \in CuratorType /\ w.pc = "invoke" /\ w.claimed = q /\ w.at = 1
  <2>1. NoCurator \in CuratorType /\ NoCurator.at = 1
    BY DEF NoCurator, CuratorType
  <2> QED BY <1>3, <2>1 DEF CuratorType
<1> HIDE DEF w
<1>5. curator'[k] = w /\ curator' \in [Curators -> CuratorType] /\ \A l \in Curators : l # k => curator'[l] = curator[l]
  BY <1>0, <1>2, <1>4
<1>6. /\ candidate' \in [Rows -> {"none", "pending", "processing", "applied", "rejected"}]
      /\ \A c \in S : candidate'[c] = "processing" /\ effects[c] = 0
      /\ \A c \in Rows : c \notin S => candidate'[c] = candidate[c]
  BY <1>0, <1>1, <1>2 DEF NothingEarly
<1>7. BatchOK(w)
  BY <1>3, <1>4 DEF BatchOK, Acting
<1>8. Ahead(w) = 1..Len(q)
  BY <1>4 DEF Ahead
<1>9. ASSUME NEW l \in Curators, NEW i \in Ahead(curator[l])
      PROVE  curator[l].claimed[i] \in Rows /\ curator[l].claimed[i] \notin S
  <2>1. curator[l].claimed[i] \in Rows
    BY AheadIsRows
  <2> QED BY <1>0, <1>1, <2>1 DEF ClaimsHold
<1>10. ASSUME NEW l \in Curators, NEW i \in Ahead(curator'[l])
       PROVE  \/ l = k /\ curator'[l].claimed[i] \in S
              \/ l # k /\ i \in Ahead(curator[l]) /\ curator'[l] = curator[l] /\ curator[l].claimed[i] \notin S
                 /\ curator[l].claimed[i] \in Rows
  BY <1>3, <1>4, <1>5, <1>8, <1>9
<1>11. ClaimsHold'
  <2> SUFFICES ASSUME NEW l \in Curators, NEW i \in Ahead(curator'[l])
               PROVE  /\ candidate'[curator'[l].claimed[i]] = "processing"
                      /\ \A m \in Curators : \A j \in Ahead(curator'[m]) :
                            curator'[m].claimed[j] = curator'[l].claimed[i] => m = l
    BY DEF ClaimsHold
  <2>1. candidate'[curator'[l].claimed[i]] = "processing"
    BY <1>0, <1>6, <1>10 DEF ClaimsHold
  <2>2. ASSUME NEW m \in Curators, NEW j \in Ahead(curator'[m]), curator'[m].claimed[j] = curator'[l].claimed[i]
        PROVE  m = l
    BY <1>0, <1>10, <2>2 DEF ClaimsHold
  <2> QED BY <2>1, <2>2
<1>12. NothingEarly'
  <2>1. \A c \in Rows : candidate'[c] \in {"none", "pending"} => effects'[c] = 0
    BY <1>0, <1>2, <1>6 DEF NothingEarly
  <2>2. ASSUME NEW l \in Curators, NEW i \in Ahead(curator'[l]),
               i # curator'[l].at \/ curator'[l].pc \in Unjudged
        PROVE  effects'[curator'[l].claimed[i]] = 0
    <3>1. effects' = effects
      BY <1>2
    <3>2. CASE curator'[l].claimed[i] \in S
      BY <1>6, <3>1, <3>2
    <3>3. CASE l # k /\ i \in Ahead(curator[l]) /\ curator'[l] = curator[l]
      <4>1. effects[curator[l].claimed[i]] = 0
        BY <1>0, <2>2, <3>3 DEF NothingEarly
      <4> QED BY <3>1, <3>3, <4>1
    <3> QED BY <1>10, <3>2, <3>3
  <2> QED BY <2>1, <2>2 DEF NothingEarly
<1>13. \A l \in Curators : BatchOK(curator'[l])
  BY <1>0, <1>5, <1>7
<1> QED BY <1>0, <1>2, <1>5, <1>6, <1>11, <1>12, <1>13 DEF MemoryInv, MemoryTypes, DecisionAppliedOnce
\* The statements on items keep their columns.
LEMMA ItemStatements ==
  ASSUME item \in [MemoryIds -> ItemType], NEW m \in MemoryIds
  PROVE  /\ insert(m, "fact", 1) => item' \in [MemoryIds -> ItemType]
         /\ \A st \in {"archived", "superseded"} : set_status(m, st) => item' \in [MemoryIds -> ItemType]
         /\ update_content(m) => item' \in [MemoryIds -> ItemType]
<1>1. item[m] \in ItemType
  OBVIOUS
<1>2. insert(m, "fact", 1) => item' \in [MemoryIds -> ItemType]
  <2>1. [status |-> "active", type |-> "fact", importance |-> 1, vectors |-> 1] \in ItemType
    BY DEF ItemType
  <2> QED BY <2>1 DEF insert
<1>3. ASSUME NEW st \in {"archived", "superseded"}, set_status(m, st) PROVE item' \in [MemoryIds -> ItemType]
  <2>1. [item[m] EXCEPT !.status = st] \in ItemType
    BY <1>1 DEF ItemType
  <2> QED BY <1>3, <2>1 DEF set_status
<1>4. ASSUME update_content(m) PROVE item' \in [MemoryIds -> ItemType]
  <2>1. [item[m] EXCEPT !.vectors = 2] \in ItemType
    BY <1>1 DEF ItemType
  <2> QED BY <1>4, <2>1 DEF update_content
<1> QED BY <1>2, <1>3, <1>4

LEMMA CuratorSteps == ASSUME MemoryInv, NEW k \in Curators, CuratorStep(k) PROVE MemoryInv'
<1> DEFINE r == curator[k]
<1>0. /\ curator \in [Curators -> CuratorType] /\ item \in [MemoryIds -> ItemType] /\ effects \in [Rows -> Nat]
      /\ candidate \in [Rows -> {"none", "pending", "processing", "applied", "rejected"}] /\ r \in CuratorType
      /\ NothingEarly /\ BatchOK(r)
  BY DEF MemoryInv, MemoryTypes
<1>1. r.pc # "idle" => /\ r.at \in 1..Len(r.claimed) /\ Len(r.claimed) \in Nat /\ (r.pc = "invoke" => r.at = 1)
                       /\ r.pc \in Acting => r.at <= r.decisions /\ r.decisions <= Len(r.claimed)
  BY <1>0, AheadIsRows DEF BatchOK
<1>2. r.at \in Nat /\ r.decisions \in Nat /\ r.ok \in BOOLEAN
  BY <1>0 DEF CuratorType
<1>f. ASSUME item' \in [MemoryIds -> ItemType], r.pc \in Acting, NEW ok \in BOOLEAN, Judged(k, ok), UNCHANGED candidate,
             UNCHANGED effects \/ (Touched(k) /\ r.pc \in Unjudged)
      PROVE  MemoryInv'
  <2> DEFINE w == [r EXCEPT !.pc = "mark", !.ok = ok]
  <2>1. /\ w \in CuratorType /\ w.pc = "mark" /\ w.claimed = r.claimed /\ w.at = r.at /\ w.decisions = r.decisions
    BY <1>0 DEF CuratorType, Acting
  <2>2. curator' = [curator EXCEPT ![k] = w]
    BY <1>0, <1>f DEF Judged
  <2>3. r.pc # "idle" /\ w.pc \notin Unjudged /\ w.pc \notin {"idle", "invoke"}
    BY <1>f, <2>1 DEF Acting, Unjudged
  <2> HIDE DEF w
  <2> QED BY <1>1, <1>f, <2>1, <2>2, <2>3, CuratorActs
<1>g. ASSUME item' \in [MemoryIds -> ItemType], r.pc \in Acting, NEW pc \in {"replace", "provenance"}, CuratorGoes(k, pc),
             UNCHANGED candidate, UNCHANGED effects \/ (Touched(k) /\ r.pc \in Unjudged)
      PROVE  MemoryInv'
  <2> DEFINE w == [r EXCEPT !.pc = pc]
  <2>1. /\ w \in CuratorType /\ w.pc = pc /\ w.claimed = r.claimed /\ w.at = r.at /\ w.decisions = r.decisions
    BY <1>0 DEF CuratorType, Acting
  <2>2. curator' = [curator EXCEPT ![k] = w]
    BY <1>0, <1>g DEF CuratorGoes
  <2>3. r.pc # "idle" /\ w.pc \notin Unjudged /\ w.pc \notin {"idle", "invoke"}
    BY <1>g, <2>1 DEF Acting, Unjudged
  <2> HIDE DEF w
  <2> QED BY <1>1, <1>g, <2>1, <2>2, <2>3, CuratorActs
<1>3. CASE run_memory_curation(k)
  <2>1. PICK n \in 0..Len(r.claimed) :
           curator' = [curator EXCEPT ![k].pc = IF n = 0 THEN "release" ELSE "decide", ![k].decisions = n]
    BY <1>3 DEF run_memory_curation
  <2>2. r.pc = "invoke" /\ UNCHANGED <<item, candidate, effects>>
    BY <1>3 DEF run_memory_curation
  <2>3. r.at = 1
    BY <1>1, <2>2
  <2> DEFINE pc == IF n = 0 THEN "release" ELSE "decide"
             w  == [r EXCEPT !.pc = pc, !.decisions = n]
  <2>4. pc \in {"release", "decide"} /\ n \in Nat
    BY <1>1, <2>2
  <2>5. curator' = [curator EXCEPT ![k] = w]
    BY <1>0, <2>1
  <2>6. pc = "decide" => n >= 1
    BY <1>1, <2>2
  <2> HIDE DEF pc
  <2>7. w \in CuratorType /\ w.pc = pc /\ w.claimed = r.claimed /\ w.at = r.at /\ w.decisions = n
    BY <1>0, <2>4 DEF CuratorType, Acting
  <2>8. w.pc \in Acting => w.at <= w.decisions /\ w.decisions <= Len(w.claimed)
    BY <1>1, <2>2, <2>3, <2>4, <2>6, <2>7 DEF Acting
  <2> HIDE DEF w
  <2> QED BY <1>0, <2>2, <2>4, <2>5, <2>7, <2>8, CuratorActs DEF Unjudged
<1>4. CASE set_status_pending(k)
  <2>1. r.pc = "release" /\ candidate' = [candidate EXCEPT ![Held(k)] = "pending"] /\ UNCHANGED <<item, effects>>
    BY <1>4 DEF set_status_pending
  <2>2. Held(k) \in Rows /\ effects[Held(k)] = 0
    BY <1>0, <2>1, AheadIsRows DEF NothingEarly, Unjudged, Held
  <2>3. /\ candidate' \in [Rows -> {"none", "pending", "processing", "applied", "rejected"}]
        /\ \A c \in Rows : c # Held(k) => candidate'[c] = candidate[c]
    BY <1>0, <2>1, <2>2
  <2>4. CASE r.at = Len(r.claimed)
    <3>1. curator' = [curator EXCEPT ![k] = NoCurator]
      BY <1>0, <1>4, <2>4 DEF set_status_pending
    <3>2. NoCurator \in CuratorType /\ NoCurator.pc = "idle"
      BY DEF NoCurator, CuratorType
    <3> QED BY <2>1, <2>2, <2>3, <3>1, <3>2, CuratorGoesOn
  <2>5. CASE r.at # Len(r.claimed)
    <3> DEFINE n == r.at + 1
               w == [r EXCEPT !.at = n]
    <3>1. curator' = [curator EXCEPT ![k] = w]
      BY <1>0, <1>4, <2>5 DEF set_status_pending
    <3>2. n \in Nat /\ n <= Len(r.claimed)
      BY <1>1, <1>2, <2>1, <2>5
    <3>3. n = r.at + 1
      OBVIOUS
    <3> HIDE DEF n
    <3>4. w \in CuratorType /\ w.pc = "release" /\ w.claimed = r.claimed /\ w.at = n
      BY <1>0, <2>1, <3>2 DEF CuratorType
    <3> HIDE DEF w
    <3> QED BY <2>1, <2>2, <2>3, <3>1, <3>2, <3>3, <3>4, CuratorGoesOn DEF Acting
  <2> QED BY <2>4, <2>5
<1>5. CASE ApplyCreate(k)
  <2>1. PICK m \in Free : insert(m, "fact", 1)
    BY <1>5 DEF ApplyCreate
  <2>2. m \in MemoryIds
    BY DEF Free
  <2>3. item' \in [MemoryIds -> ItemType]
    BY <1>0, <2>1, <2>2, ItemStatements
  <2>4. r.pc = "decide" /\ Touched(k) /\ Judged(k, TRUE) /\ UNCHANGED candidate
    BY <1>5 DEF ApplyCreate
  <2> QED BY <1>f, <2>3, <2>4 DEF Acting, Unjudged
<1>6. CASE ApplyToTarget(k)
  <2>0. r.pc = "decide" /\ UNCHANGED candidate
    BY <1>6 DEF ApplyToTarget
  <2>1. PICK m \in MemoryIds :
           IF ~Exists(m) THEN Judged(k, FALSE) /\ UNCHANGED <<item, effects>>
           ELSE (set_status(m, "archived") \/ update_content(m)) /\ Touched(k) /\ Judged(k, TRUE)
    BY <1>6 DEF ApplyToTarget
  <2>2. CASE ~Exists(m)
    BY <1>0, <1>f, <2>0, <2>1, <2>2 DEF Acting
  <2>3. CASE Exists(m)
    <3>1. item' \in [MemoryIds -> ItemType]
      BY <1>0, <2>1, <2>3, ItemStatements
    <3> QED BY <1>f, <2>0, <2>1, <2>3, <3>1 DEF Acting, Unjudged
  <2> QED BY <2>2, <2>3
<1>7. CASE ApplyNothing(k)
  BY <1>0, <1>7, <1>f DEF ApplyNothing, Acting
<1>8. CASE SupersedeMarks(k)
  <2>1. PICK m \in MemoryIds : set_status(m, "superseded")
    BY <1>8 DEF SupersedeMarks
  <2>2. item' \in [MemoryIds -> ItemType]
    BY <1>0, <2>1, ItemStatements
  <2>3. r.pc = "decide" /\ Touched(k) /\ CuratorGoes(k, "replace") /\ UNCHANGED candidate
    BY <1>8 DEF SupersedeMarks
  <2> QED BY <1>g, <2>2, <2>3 DEF Acting, Unjudged
<1>9. CASE SupersedeStores(k)
  <2>0. r.pc = "replace" /\ UNCHANGED <<candidate, effects>>
    BY <1>9 DEF SupersedeStores
  <2>1. CASE Judged(k, FALSE) /\ UNCHANGED item
    BY <1>0, <1>f, <2>0, <2>1 DEF Acting
  <2>2. CASE \E m \in Free : insert(m, "fact", 1) /\ CuratorGoes(k, "provenance")
    <3>1. PICK m \in Free : insert(m, "fact", 1) /\ CuratorGoes(k, "provenance")
      BY <2>2
    <3>2. m \in MemoryIds
      BY DEF Free
    <3>3. item' \in [MemoryIds -> ItemType]
      BY <1>0, <3>1, <3>2, ItemStatements
    <3> QED BY <1>g, <2>0, <3>1, <3>3 DEF Acting
  <2> QED BY <1>9, <2>1, <2>2 DEF SupersedeStores
<1>10. CASE record_provenance(k)
  <2>1. PICK ok \in BOOLEAN : Judged(k, ok)
    BY <1>10 DEF record_provenance
  <2>2. r.pc = "provenance" /\ UNCHANGED <<candidate, effects, item>>
    BY <1>10 DEF record_provenance
  <2> QED BY <1>0, <1>f, <2>1, <2>2 DEF Acting
<1>11. CASE MergeReads(k)
  <2>0. r.pc = "decide" /\ UNCHANGED <<candidate, effects, item>>
    BY <1>11 DEF MergeReads
  <2>1. PICK m \in MemoryIds : IF Exists(m)
           THEN curator' = [curator EXCEPT ![k].pc = "merge", ![k].target = m, ![k].read = item[m].importance]
           ELSE Judged(k, FALSE)
    BY <1>11 DEF MergeReads
  <2>2. CASE ~Exists(m)
    BY <1>0, <1>f, <2>0, <2>1, <2>2 DEF Acting
  <2>3. CASE Exists(m)
    <3> DEFINE n == item[m].importance
               w == [r EXCEPT !.pc = "merge", !.target = m, !.read = n]
    <3>1. curator' = [curator EXCEPT ![k] = w]
      BY <1>0, <2>1, <2>3
    <3>2. n \in Nat
      BY <1>0 DEF ItemType
    <3> HIDE DEF n
    <3>3. w \in CuratorType /\ w.pc = "merge" /\ w.claimed = r.claimed /\ w.at = r.at /\ w.decisions = r.decisions
      BY <1>0, <3>2 DEF CuratorType, Acting
    <3>4. r.at <= r.decisions /\ r.decisions <= Len(r.claimed)
      BY <1>1, <2>0 DEF Acting
    <3> HIDE DEF w
    <3> QED BY <1>0, <2>0, <3>1, <3>3, <3>4, CuratorActs DEF Unjudged
  <2> QED BY <2>2, <2>3
<1>12. CASE consolidate(k)
  <2> DEFINE m == r.target
             n == IF r.read < MaxImportance THEN r.read + 1 ELSE item[m].importance
  <2>0. r.pc = "merge" /\ Touched(k) /\ Judged(k, TRUE) /\ UNCHANGED candidate
    BY <1>12 DEF consolidate
  <2>1. CASE m \in MemoryIds
    <3>1. item' = [item EXCEPT ![m].importance = n]
      BY <1>12 DEF consolidate
    <3>2. n \in Nat
      <4>1. r.read \in Nat /\ item[m].importance \in Nat
        BY <1>0, <2>1 DEF CuratorType, ItemType
      <4> QED BY <4>1
    <3> HIDE DEF n
    <3>3. [item[m] EXCEPT !.importance = n] \in ItemType
      BY <1>0, <2>1, <3>2 DEF ItemType
    <3>4. item' \in [MemoryIds -> ItemType]
      BY <1>0, <2>1, <3>1, <3>3
    <3> QED BY <1>f, <2>0, <3>4 DEF Acting, Unjudged
  <2>2. CASE m \notin MemoryIds
    <3>1. item' \in [MemoryIds -> ItemType]
      BY <1>0, <1>12, <2>2 DEF consolidate
    <3> QED BY <1>f, <2>0, <3>1 DEF Acting, Unjudged
  <2> QED BY <2>1, <2>2
<1>13. CASE MarkDecided(k)
  <2> DEFINE st == IF r.ok THEN "applied" ELSE "rejected"
  <2>1. r.pc = "mark" /\ candidate' = [candidate EXCEPT ![Held(k)] = st] /\ UNCHANGED <<item, effects>>
    BY <1>13 DEF MarkDecided
  <2>2. st \in {"applied", "rejected"}
    OBVIOUS
  <2> HIDE DEF st
  <2>3. Held(k) \in Rows
    BY <2>1, AheadIsRows
  <2>4. /\ candidate' \in [Rows -> {"none", "pending", "processing", "applied", "rejected"}]
        /\ candidate'[Held(k)] \notin {"none", "pending"}
        /\ \A c \in Rows : c # Held(k) => candidate'[c] = candidate[c]
    BY <1>0, <2>1, <2>2, <2>3
  <2>5. CASE r.at = r.decisions
    <3>1. curator' = [curator EXCEPT ![k] = NoCurator]
      BY <1>0, <1>13, <2>5 DEF MarkDecided
    <3>2. NoCurator \in CuratorType /\ NoCurator.pc = "idle"
      BY DEF NoCurator, CuratorType
    <3> QED BY <2>1, <2>4, <3>1, <3>2, CuratorGoesOn
  <2>6. CASE r.at # r.decisions
    <3> DEFINE n == r.at + 1
               w == [r EXCEPT !.at = n, !.pc = "decide"]
    <3>1. curator' = [curator EXCEPT ![k] = w]
      BY <1>0, <1>13, <2>6 DEF MarkDecided
    <3>2. n \in Nat /\ n <= r.decisions /\ n <= Len(r.claimed) /\ r.decisions <= Len(r.claimed)
      BY <1>1, <1>2, <2>1, <2>6 DEF Acting
    <3>3. n = r.at + 1
      OBVIOUS
    <3> HIDE DEF n
    <3>4. w \in CuratorType /\ w.pc = "decide" /\ w.claimed = r.claimed /\ w.at = n /\ w.decisions = r.decisions
      BY <1>0, <2>1, <3>2 DEF CuratorType, Acting
    <3> HIDE DEF w
    <3> QED BY <2>1, <2>4, <3>1, <3>2, <3>3, <3>4, CuratorGoesOn
  <2> QED BY <2>5, <2>6
<1>14. CASE CuratorDies(k)
  <2>1. r.pc # "idle" /\ curator' = [curator EXCEPT ![k] = NoCurator] /\ UNCHANGED <<item, candidate, effects>>
    BY <1>14 DEF CuratorDies
  <2>2. NoCurator \in CuratorType /\ NoCurator.pc = "idle"
    BY DEF NoCurator, CuratorType
  <2>3. Held(k) \in Rows
    BY <2>1, AheadIsRows
  <2> QED BY <1>0, <2>1, <2>2, <2>3, CuratorGoesOn DEF NothingEarly
<1>15. CASE CuratorTool(k)
  <2>1. item' \in [MemoryIds -> ItemType]
    <3>1. CASE \E m \in MemoryIds, st \in {"superseded", "archived"} : set_status(m, st)
      <4>1. PICK m \in MemoryIds, st \in {"superseded", "archived"} : set_status(m, st)
        BY <3>1
      <4> QED BY <1>0, <4>1, ItemStatements
    <3>2. CASE \E m \in Free : insert(m, "fact", 1)
      <4>1. PICK m \in Free : insert(m, "fact", 1)
        BY <3>2
      <4>2. m \in MemoryIds
        BY DEF Free
      <4> QED BY <1>0, <4>1, <4>2, ItemStatements
    <3> QED BY <1>15, <3>1, <3>2 DEF CuratorTool
  <2> QED BY <1>15, <2>1 DEF CuratorTool, MemoryInv, MemoryTypes, ClaimsHold, NothingEarly, DecisionAppliedOnce
<1> QED BY <1>3, <1>4, <1>5, <1>6, <1>7, <1>8, <1>9, <1>10, <1>11, <1>12, <1>13, <1>14, <1>15, CuratorClaims DEF CuratorStep

LEMMA MemorySteps == MemoryInv /\ [MemoryNext]_memoryVars => MemoryInv'
<1> SUFFICES ASSUME MemoryInv, [MemoryNext]_memoryVars PROVE MemoryInv'
  OBVIOUS
<1>0. item \in [MemoryIds -> ItemType] /\ candidate \in [Rows -> {"none", "pending", "processing", "applied", "rejected"}]
  BY DEF MemoryInv, MemoryTypes
<1>i. ASSUME UNCHANGED <<candidate, curator, effects>>, item' \in [MemoryIds -> ItemType] PROVE MemoryInv'
  BY <1>i DEF MemoryInv, MemoryTypes, ClaimsHold, NothingEarly, DecisionAppliedOnce
<1>1. ASSUME NEW c \in 1..CandidateRows, record_post_run_memory(c) PROVE MemoryInv'
  <2>1. candidate[c] = "none" /\ candidate' = [candidate EXCEPT ![c] = "pending"] /\ UNCHANGED <<item, curator, effects>>
    BY <1>1 DEF record_post_run_memory
  <2>2. c \in Rows
    BY DEF Rows
  <2>3. /\ candidate' \in [Rows -> {"none", "pending", "processing", "applied", "rejected"}]
        /\ \A x \in Rows : x # c => candidate'[x] = candidate[x]
    BY <1>0, <2>1
  <2>4. ClaimsHold'
    <3>1. \A k \in Curators : \A i \in Ahead(curator[k]) : curator[k].claimed[i] \in Rows
      BY AheadIsRows
    <3> QED BY <2>1, <2>3, <3>1 DEF MemoryInv, ClaimsHold
  <2>5. NothingEarly'
    BY <2>1, <2>2, <2>3 DEF MemoryInv, NothingEarly
  <2> QED BY <2>1, <2>3, <2>4, <2>5 DEF MemoryInv, MemoryTypes, DecisionAppliedOnce
<1>2. CASE remember
  <2>1. PICK m \in Free, type \in {"fact", "decision"}, w \in 0..1 : insert(m, type, w)
    BY <1>2 DEF remember
  <2>2. [status |-> "active", type |-> type, importance |-> w, vectors |-> 1] \in ItemType
    BY DEF ItemType
  <2>3. item' \in [MemoryIds -> ItemType]
    BY <1>0, <2>1, <2>2 DEF insert
  <2> QED BY <1>2, <1>i, <2>3 DEF remember
<1>3. CASE demote_stale_semantic_memory
  <2>1. \A m \in MemoryIds : [item[m] EXCEPT !.status = "archived"] \in ItemType
    <3> SUFFICES ASSUME NEW m \in MemoryIds PROVE [item[m] EXCEPT !.status = "archived"] \in ItemType
      OBVIOUS
    <3> QED BY <1>0 DEF ItemType
  <2>2. item' \in [MemoryIds -> ItemType]
    BY <1>0, <1>3, <2>1 DEF demote_stale_semantic_memory
  <2> QED BY <1>3, <1>i, <2>2 DEF demote_stale_semantic_memory
<1>4. CASE archive_old_episodes
  <2>1. [status |-> "archived", type |-> "episode_summary", importance |-> 0, vectors |-> 0] \in ItemType
    BY DEF ItemType
  <2>2. item' \in [MemoryIds -> ItemType]
    BY <1>0, <1>4, <2>1 DEF archive_old_episodes
  <2> QED BY <1>4, <1>i, <2>2 DEF archive_old_episodes
<1>5. CASE _ground \/ UNCHANGED memoryVars
  BY <1>0, <1>5, <1>i DEF _ground, memoryVars
<1> QED BY <1>1, <1>2, <1>3, <1>4, <1>5, CuratorSteps DEF MemoryNext

\* For any number of candidates, overlapping curation jobs and batch sizes, wherever a
\* job dies and whatever the curator's tools do: the decision returned for a candidate
\* is applied at most once (claim_batch and _apply_decision of
\* workflows/memory/curation_workflow.py).
THEOREM AppliedOnce == MemorySpec => []DecisionAppliedOnce
<1>1. MemoryInit => MemoryInv
  <2> SUFFICES ASSUME MemoryInit PROVE MemoryInv
    OBVIOUS
  <2>1. NoItem \in ItemType /\ NoCurator \in CuratorType /\ NoCurator.pc = "idle"
    BY DEF NoItem, ItemType, NoCurator, CuratorType
  <2>2. MemoryTypes
    BY <2>1 DEF MemoryInit, MemoryTypes, Rows
  <2>3. \A k \in Curators : curator[k] = NoCurator /\ Ahead(curator[k]) = {}
    BY <2>1 DEF MemoryInit, Ahead
  <2>4. (\A k \in Curators : BatchOK(curator[k])) /\ ClaimsHold /\ NothingEarly /\ DecisionAppliedOnce
    BY <2>1, <2>3 DEF MemoryInit, BatchOK, ClaimsHold, NothingEarly, DecisionAppliedOnce, Rows
  <2> QED BY <2>2, <2>4 DEF MemoryInv
<1>2. MemoryInv => DecisionAppliedOnce
  BY DEF MemoryInv
<1> QED BY <1>1, <1>2, MemorySteps, PTL DEF MemorySpec
-----------------------------------------------------------------------------
(* Review notices.  That an inbox holds at most one notification is not    *)
(* inductive: an attempt about to send must know that the recipient has    *)
(* none yet, and that no other attempt is sending the same one.            *)

\* Attempts that have claimed their leg.
Sending == {"send", "mark_sent", "mark_failed"}
Holds(k, l) == notifier[k].pc \in Sending /\ notifier[k].leg = l

Points == {"idle", "next", "claim"} \cup Sending
Attempts == [pc : Points, legs : SUBSET Legs, leg : Legs \cup {<<>>}]

NoticesTypes ==
    /\ notice = [l \in Legs |-> notice[l]]
    /\ inbox \in [Legs -> Nat]
    /\ notifier \in [Notifiers -> Attempts]

\* A leg that is held is claimed, and by one attempt only.
ClaimsExclude ==
    \A k \in Notifiers, l \in Legs : Holds(k, l) =>
        /\ notice[l] = "claimed"
        /\ \A j \in Notifiers : Holds(j, l) => j = k

\* Nothing was confirmed for a leg that can be claimed, or whose message is still to be sent.
NothingYet ==
    /\ \A l \in Legs : notice[l] \in {"none", "failed"} => inbox[l] = 0
    /\ \A k \in Notifiers, l \in Legs :
          Holds(k, l) /\ notifier[k].pc \in {"send", "mark_failed"} => inbox[l] = 0

NoticesInv == NoticesTypes /\ ClaimsExclude /\ NothingYet /\ NotifiedOnce


\* No attempt has begun.
LEMMA NoticesInitInv == NoticesInit => NoticesInv
<1> SUFFICES ASSUME NoticesInit PROVE NoticesInv
  OBVIOUS
<1>1. NoticesTypes
  BY DEF NoticesInit, NoticesTypes, Attempts, Points, NoNotifier
<1>2. \A k \in Notifiers, l \in Legs : ~Holds(k, l)
  BY DEF NoticesInit, Holds, Sending, NoNotifier
<1> QED
  BY <1>1, <1>2 DEF NoticesInit, NoticesInv, ClaimsExclude, NothingYet, NotifiedOnce

\* An attempt that claims nothing and lets go of what it holds keeps the invariant.
LEMMA LettingGo ==
    ASSUME NoticesInv, NEW k \in Notifiers,
           NEW p \in Points \ Sending, NEW s \in SUBSET Legs, NEW m \in Legs \cup {<<>>},
           notifier' = [notifier EXCEPT ![k] = [pc |-> p, legs |-> s, leg |-> m]],
           UNCHANGED <<notice, inbox>>
    PROVE  NoticesInv'
<1>1. NoticesTypes'
  BY DEF NoticesInv, NoticesTypes, Attempts
<1>2. \A j \in Notifiers, l \in Legs : Holds(j, l)' => j # k /\ Holds(j, l) /\ notifier'[j] = notifier[j]
  BY DEF NoticesInv, NoticesTypes, Holds
<1>3. ClaimsExclude'
  BY <1>2 DEF NoticesInv, ClaimsExclude
<1>4. NothingYet'
  BY <1>2 DEF NoticesInv, NothingYet
<1> QED
  BY <1>1, <1>3, <1>4 DEF NoticesInv, NotifiedOnce

\* Only the attempt k changes, and only where it is.
LEMMA AttemptMoves ==
    ASSUME NoticesInv, NEW k \in Notifiers, NEW p \in Points, NotifierGoes(k, p)
    PROVE  /\ notifier' \in [Notifiers -> Attempts]
           /\ \A j \in Notifiers : j # k => notifier'[j] = notifier[j]
           /\ notifier'[k].pc = p /\ notifier'[k].leg = notifier[k].leg
           /\ notifier' = [notifier EXCEPT ![k] = [pc |-> p, legs |-> notifier[k].legs, leg |-> notifier[k].leg]]
           /\ notifier[k].legs \in SUBSET Legs /\ notifier[k].leg \in Legs \cup {<<>>}
<1>1. notifier \in [Notifiers -> Attempts] /\ notifier[k] \in Attempts
  BY DEF NoticesInv, NoticesTypes
<1>2. [notifier[k] EXCEPT !.pc = p] = [pc |-> p, legs |-> notifier[k].legs, leg |-> notifier[k].leg]
  BY <1>1 DEF Attempts
<1>3. notifier' = [notifier EXCEPT ![k] = [notifier[k] EXCEPT !.pc = p]]
  BY <1>1 DEF NotifierGoes
<1>4. notifier' = [notifier EXCEPT ![k] = [pc |-> p, legs |-> notifier[k].legs, leg |-> notifier[k].leg]]
  BY <1>2, <1>3
<1> QED
  BY <1>1, <1>4 DEF Attempts

\* A claim is granted where nobody holds the leg and nothing was confirmed.
LEMMA ClaimKeeps == ASSUME NoticesInv, NEW k \in Notifiers, claim_leg(k) PROVE NoticesInv'
<1>1. CASE notice[notifier[k].leg] \in {"none", "failed"}
  <2> DEFINE m == notifier[k].leg
  <2>1. notice' = [notice EXCEPT ![m] = "claimed"] /\ NotifierGoes(k, "send") /\ inbox' = inbox
    BY <1>1 DEF claim_leg, NotifierGoes
  <2>2. notifier'[k].leg = m /\ \A j \in Notifiers : j # k => notifier'[j] = notifier[j]
    BY <2>1, AttemptMoves DEF Points, Sending
  <2>3. NoticesTypes'
    <3>1. notice' = [l \in Legs |-> notice'[l]]
      BY <2>1 DEF NoticesInv, NoticesTypes
    <3> QED
      BY <2>1, <3>1, AttemptMoves DEF NoticesInv, NoticesTypes, Points, Sending
  <2>4. \A j \in Notifiers, l \in Legs : Holds(j, l)' => IF j = k THEN l = m ELSE l # m /\ Holds(j, l)
    BY <1>1, <2>2 DEF Holds, NoticesInv, ClaimsExclude
  <2>5. \A l \in Legs : /\ l = m => notice'[l] = "claimed" /\ inbox'[l] = 0
                        /\ l # m => notice'[l] = notice[l] /\ inbox'[l] = inbox[l]
    BY <1>1, <2>1 DEF NoticesInv, NoticesTypes, NothingYet
  <2>6. ClaimsExclude'
    BY <2>4, <2>5 DEF NoticesInv, ClaimsExclude
  <2>7. NothingYet'
    BY <2>2, <2>4, <2>5 DEF NoticesInv, NothingYet
  <2> QED
    BY <2>1, <2>3, <2>6, <2>7 DEF NoticesInv, NotifiedOnce
<1>2. CASE notice[notifier[k].leg] \notin {"none", "failed"}
  <2>1. NotifierGoes(k, "next") /\ UNCHANGED <<notice, inbox>>
    BY <1>2 DEF claim_leg, NotifierGoes
  <2>2. /\ notifier' = [notifier EXCEPT ![k] = [pc |-> "next", legs |-> notifier[k].legs, leg |-> notifier[k].leg]]
        /\ notifier[k].legs \in SUBSET Legs /\ notifier[k].leg \in Legs \cup {<<>>}
    BY <2>1, AttemptMoves DEF Sending, Points
  <2>3. "next" \in Points \ Sending
    BY DEF Sending, Points
  <2> QED
    BY <2>1, <2>2, <2>3, LettingGo
<1> QED
  BY <1>1, <1>2

\* A confirmed message is the first, and no other attempt is about to send one.
LEMMA SendKeeps == ASSUME NoticesInv, NEW k \in Notifiers, SendSucceeds(k) PROVE NoticesInv'
<1> DEFINE m == notifier[k].leg
<1>1. notifier[k].pc = "send" /\ NotifierGoes(k, "mark_sent") /\ notice' = notice /\ inbox' = [inbox EXCEPT ![m] = @ + 1]
  BY DEF SendSucceeds, Arrives
<1>2. notifier'[k].pc = "mark_sent" /\ notifier'[k].leg = m /\ \A j \in Notifiers : j # k => notifier'[j] = notifier[j]
  BY <1>1, AttemptMoves DEF Points, Sending
<1>3. \A j \in Notifiers, l \in Legs : Holds(j, l)' <=> Holds(j, l)
  BY <1>1, <1>2 DEF Holds, Sending
<1>4. \A l \in Legs : /\ inbox[l] \in Nat
                      /\ l = m => Holds(k, l) /\ inbox[l] = 0 /\ inbox'[l] = 1
                      /\ l # m => inbox'[l] = inbox[l]
  BY <1>1 DEF NoticesInv, NoticesTypes, NothingYet, Holds, Sending
<1>5. NoticesTypes'
  <2>1. inbox' \in [Legs -> Nat]
    <3>1. inbox' = [l \in Legs |-> inbox'[l]]
      BY <1>1 DEF NoticesInv, NoticesTypes
    <3>2. \A l \in Legs : inbox'[l] \in Nat
      BY <1>4
    <3> QED
      BY <3>1, <3>2
  <2> QED
    BY <1>1, <2>1, AttemptMoves DEF NoticesInv, NoticesTypes, Points, Sending
<1>6. ClaimsExclude'
  BY <1>1, <1>3 DEF NoticesInv, ClaimsExclude
<1>7. \A l \in Legs : notice'[l] \in {"none", "failed"} => inbox'[l] = 0
  BY <1>1, <1>4 DEF NoticesInv, ClaimsExclude, NothingYet
<1>8. \A j \in Notifiers, l \in Legs : Holds(j, l)' /\ notifier'[j].pc \in {"send", "mark_failed"} => inbox'[l] = 0
  BY <1>2, <1>3, <1>4 DEF NoticesInv, ClaimsExclude, NothingYet
<1>9. NotifiedOnce'
  BY <1>4 DEF NoticesInv, NotifiedOnce
<1> QED
  BY <1>5, <1>6, <1>7, <1>8, <1>9 DEF NoticesInv, NothingYet

\* An attempt whose message was not confirmed still holds its leg.
LEMMA FailureKeeps ==
    ASSUME NoticesInv, NEW k \in Notifiers, NEW p \in {"mark_sent", "mark_failed"},
           notifier[k].pc = "send", NotifierGoes(k, p), UNCHANGED <<notice, inbox>>
    PROVE  NoticesInv'
<1>1. notifier'[k].leg = notifier[k].leg /\ \A j \in Notifiers : j # k => notifier'[j] = notifier[j]
  BY AttemptMoves DEF Points, Sending
<1>2. notifier'[k].pc = p
  BY AttemptMoves DEF Points, Sending
<1>3. \A j \in Notifiers, l \in Legs : Holds(j, l)' <=> Holds(j, l)
  BY <1>1, <1>2 DEF Holds, Sending
<1>4. NoticesTypes'
  BY AttemptMoves DEF NoticesInv, NoticesTypes, Points, Sending
<1>5. ClaimsExclude'
  BY <1>3 DEF NoticesInv, ClaimsExclude
<1>6. NothingYet'
  BY <1>1, <1>3 DEF NoticesInv, NothingYet
<1> QED
  BY <1>4, <1>5, <1>6 DEF NoticesInv, NotifiedOnce

\* A mark ends the hold; only a leg that was not confirmed becomes claimable again.
LEMMA MarkKeeps == ASSUME NoticesInv, NEW k \in Notifiers, mark_sent(k) \/ mark_failed(k) PROVE NoticesInv'
<1> DEFINE m == notifier[k].leg
<1>1. PICK v \in {"sent", "failed"} :
         /\ notice' = [notice EXCEPT ![m] = v] /\ NotifierGoes(k, "next") /\ inbox' = inbox
         /\ notifier[k].pc = IF v = "sent" THEN "mark_sent" ELSE "mark_failed"
  BY DEF mark_sent, mark_failed
<1>2. notifier'[k].pc = "next" /\ \A j \in Notifiers : j # k => notifier'[j] = notifier[j]
  BY <1>1, AttemptMoves DEF Points, Sending
<1>3. \A l \in Legs : l = m => Holds(k, l)
  BY <1>1 DEF Holds, Sending
<1>4. \A j \in Notifiers, l \in Legs : Holds(j, l)' => j # k /\ l # m /\ Holds(j, l)
  BY <1>2, <1>3 DEF NoticesInv, ClaimsExclude, Holds, Sending
<1>5. \A l \in Legs : /\ l = m => notice'[l] = v /\ (v = "failed" => inbox[l] = 0)
                      /\ l # m => notice'[l] = notice[l]
  BY <1>1, <1>3 DEF NoticesInv, NoticesTypes, NothingYet
<1>6. NoticesTypes'
  <2>1. notice' = [l \in Legs |-> notice'[l]]
    BY <1>1 DEF NoticesInv, NoticesTypes
  <2> QED
    BY <1>1, <2>1, AttemptMoves DEF NoticesInv, NoticesTypes, Points, Sending
<1>7. ClaimsExclude'
  BY <1>4, <1>5 DEF NoticesInv, ClaimsExclude
<1>8. NothingYet'
  BY <1>1, <1>2, <1>4, <1>5 DEF NoticesInv, NothingYet
<1> QED
  BY <1>1, <1>6, <1>7, <1>8 DEF NoticesInv, NotifiedOnce


\* Every step keeps the invariant.
LEMMA NoticesStep == NoticesInv /\ [NoticesNext]_noticeVars => NoticesInv'
<1> SUFFICES ASSUME NoticesInv, [NoticesNext]_noticeVars PROVE NoticesInv'
  OBVIOUS
<1>1. ASSUME UNCHANGED <<notice, inbox, notifier>> PROVE NoticesInv'
  BY <1>1 DEF NoticesInv, NoticesTypes, ClaimsExclude, NothingYet, NotifiedOnce, Holds
<1>2. CASE UNCHANGED noticeVars
  BY <1>1, <1>2 DEF noticeVars
<1>3. CASE ReviewDecided
  BY <1>1, <1>3 DEF ReviewDecided
<1>4. ASSUME NEW u \in Reviewers, register_as_reviewer(u) \/ CreateByAdmin(u) \/ UpdateRoute(u) \/ delete_reviewer(u)
      PROVE NoticesInv'
  BY <1>1, <1>4 DEF register_as_reviewer, CreateByAdmin, UpdateRoute, delete_reviewer, ReviewersOnly
<1>5. ASSUME NEW k \in Notifiers, NotifierStep(k) PROVE NoticesInv'
  <2>1. CASE notify_reviewers(k)
    <3> DEFINE legs == UNION {_targets_for(u) : u \in Reviewers}
    <3>1. legs \in SUBSET Legs
      BY DEF _targets_for
    <3>2. "next" \in Points \ Sending
      BY DEF Points, Sending
    <3>3. /\ notifier' = [notifier EXCEPT ![k] = [pc |-> "next", legs |-> legs, leg |-> <<>>]]
          /\ UNCHANGED <<notice, inbox>>
      BY <2>1 DEF notify_reviewers
    <3> HIDE DEF legs
    <3> QED
      BY <3>1, <3>2, <3>3, LettingGo
  <2>2. CASE NextLeg(k)
    <3>1. PICK l \in notifier[k].legs :
             notifier' = [notifier EXCEPT ![k] = [pc |-> "claim", legs |-> notifier[k].legs \ {l}, leg |-> l]]
      BY <2>2 DEF NextLeg
    <3>2. l \in Legs /\ notifier[k].legs \ {l} \in SUBSET Legs
      <4>1. notifier[k] \in Attempts
        BY DEF NoticesInv, NoticesTypes
      <4> QED
        BY <4>1 DEF Attempts
    <3> QED
      BY <2>2, <3>1, <3>2, LettingGo DEF NextLeg, Points, Sending
  <2>3. CASE claim_leg(k)
    BY <2>3, ClaimKeeps
  <2>4. CASE SendSucceeds(k)
    BY <2>4, SendKeeps
  <2>5. CASE SendRaises(k)
    BY <2>5, FailureKeeps DEF SendRaises, Points, Sending
  <2>6. CASE send_email(k)
    BY <2>6, FailureKeeps DEF send_email, Points, Sending
  <2>7. CASE mark_sent(k) \/ mark_failed(k)
    BY <2>7, MarkKeeps
  <2>8. CASE AttemptEnds(k)
    BY <2>8, LettingGo DEF AttemptEnds, NoNotifier, Points, Sending
  <2> QED
    BY <1>5, <2>1, <2>2, <2>3, <2>4, <2>5, <2>6, <2>7, <2>8 DEF NotifierStep
<1> QED
  BY <1>2, <1>3, <1>4, <1>5 DEF NoticesNext

\* "concurrent runner retries can never double-notify" (notifier.py): claim_leg, the sends and
\* the marks confirm at most one notification per recipient, for any number of attempts.
THEOREM NotifiedAtMostOnce == NoticesSpec => []NotifiedOnce
<1>1. NoticesInv => NotifiedOnce
  BY DEF NoticesInv
<1> QED
  BY <1>1, NoticesInitInv, NoticesStep, PTL DEF NoticesSpec

-----------------------------------------------------------------------------
(* Workflow definitions.  Whatever a handler read before it, the insert    *)
(* itself decides: no step adds a row whose key is taken, and none changes *)
(* a key.                                                                  *)

\* workflow_runs is a table of rows.
RowsOK == /\ \E S : runRow \in Seq(S)
          /\ \A i \in DOMAIN runRow : \E k, d, s : runRow[i] = [key |-> k, def |-> d, status |-> s]

KeyedInv == RowsOK /\ KeyedOnce


\* A step inserts or finds one row, sets the status of one, or leaves them alone.
LEMMA RowStep ==
    ASSUME [DefinitionsNext]_definitionVars
    PROVE  \/ UNCHANGED runRow
           \/ \E key, d, i : start_or_get_idempotent(key, d, i)
           \/ \E i, st : update_state(i, st)
<1>1. CASE UNCHANGED definitionVars
  BY <1>1 DEF definitionVars
<1>2. CASE \/ create_workflow_definition \/ update_workflow_definition
           \/ pause_workflow \/ resume_workflow \/ instantiate_template \/ RunDispatched
  BY <1>2 DEF create_workflow_definition, update_workflow_definition, pause_workflow,
              resume_workflow, instantiate_template, RunDispatched, Idle
<1>3. ASSUME NEW c \in RunCalls, RequestStep(c)
      PROVE  \/ UNCHANGED runRow
             \/ \E key, d, i : start_or_get_idempotent(key, d, i)
             \/ \E i, st : update_state(i, st)
  <2>1. CASE InsertRun(c)
    BY <2>1 DEF InsertRun
  <2>2. CASE CancelWrites(c)
    BY <2>2 DEF CancelWrites
  <2>3. CASE create_definition_run(c) \/ create_manual_run(c)
    BY <2>3 DEF create_definition_run, create_manual_run, create_run
  <2>4. CASE _dispatch_if_available(c) \/ cancel_run(c) \/ retry_run(c) \/ RetryReads(c)
    BY <2>4 DEF _dispatch_if_available, cancel_run, retry_run, RetryReads
  <2> QED
    BY <1>3, <2>1, <2>2, <2>3, <2>4 DEF RequestStep
<1>4. ASSUME NEW e \in Hooks, HookStep(e)
      PROVE  \/ UNCHANGED runRow
             \/ \E key, d, i : start_or_get_idempotent(key, d, i)
             \/ \E i, st : update_state(i, st)
  <2>1. CASE find_active_by_key(e) \/ CreateDefault(e)
    BY <2>1 DEF find_active_by_key, CreateDefault
  <2>2. CASE _ensure_canonical_run(e)
    BY <2>2 DEF _ensure_canonical_run
  <2>3. CASE _persist_lifecycle(e)
    BY <2>3 DEF _persist_lifecycle
  <2> QED
    BY <1>4, <2>1, <2>2, <2>3 DEF HookStep
<1> QED
  BY <1>1, <1>2, <1>3, <1>4 DEF DefinitionsNext

\* The insert adds a row only under a key that no row has.
LEMMA InsertKeeps ==
    ASSUME KeyedInv, NEW key, NEW d, NEW i, start_or_get_idempotent(key, d, i)
    PROVE  KeyedInv'
<1>1. CASE UNCHANGED runRow
  BY <1>1 DEF KeyedInv, RowsOK, KeyedOnce
<1>2. CASE ~UNCHANGED runRow
  <2> DEFINE new == [key |-> key, def |-> d, status |-> "queued"]
  <2>1. Conflict(key) = {} /\ runRow' = Append(runRow, new)
    BY <1>2 DEF start_or_get_idempotent
  <2>2. PICK S : runRow \in Seq(S)
    BY DEF KeyedInv, RowsOK
  <2> HIDE DEF new
  <2>3. runRow' \in Seq(S \cup {new})
    BY <2>1, <2>2
  <2>4. /\ DOMAIN runRow = 1..Len(runRow) /\ Len(runRow) \in Nat
        /\ DOMAIN runRow' = 1..(Len(runRow) + 1)
        /\ \A j \in DOMAIN runRow : runRow'[j] = runRow[j]
        /\ runRow'[Len(runRow) + 1] = new
    BY <2>1, <2>2
  <2>5. RowsOK'
    BY <2>3, <2>4 DEF KeyedInv, RowsOK, new
  <2>6. \A j \in DOMAIN runRow : key[2] # 0 => runRow[j].key # key
    BY <2>1 DEF Conflict
  <2>7. new.key = key
    BY DEF new
  <2>8. KeyedOnce'
    BY <2>4, <2>6, <2>7 DEF KeyedInv, KeyedOnce
  <2> QED
    BY <2>5, <2>8 DEF KeyedInv
<1> QED
  BY <1>1, <1>2

\* A status is all that an update changes.
LEMMA UpdateKeeps ==
    ASSUME KeyedInv, NEW i, NEW st, update_state(i, st)
    PROVE  KeyedInv'
<1>1. PICK S : runRow \in Seq(S)
  BY DEF KeyedInv, RowsOK
<1>2. CASE i \notin DOMAIN runRow
  <2>1. runRow' = runRow
    BY <1>1, <1>2 DEF update_state
  <2> QED
    BY <2>1 DEF KeyedInv, RowsOK, KeyedOnce
<1>3. CASE i \in DOMAIN runRow
  <2>1. PICK k, d, s : runRow[i] = [key |-> k, def |-> d, status |-> s]
    BY <1>3 DEF KeyedInv, RowsOK
  <2> DEFINE new == [key |-> k, def |-> d, status |-> st]
  <2>2. [runRow[i] EXCEPT !.status = st] = new
    BY <2>1
  <2>3. runRow' = [runRow EXCEPT ![i] = new]
    BY <2>2 DEF update_state
  <2>4. new.key = runRow[i].key
    BY <2>1
  <2> HIDE DEF new
  <2>5. /\ DOMAIN runRow' = DOMAIN runRow /\ runRow' \in Seq(S \cup {new})
        /\ \A j \in DOMAIN runRow : runRow'[j] = IF j = i THEN new ELSE runRow[j]
    BY <1>1, <1>3, <2>3
  <2>6. RowsOK'
    BY <2>5 DEF KeyedInv, RowsOK, new
  <2>7. \A j \in DOMAIN runRow : runRow'[j].key = runRow[j].key
    BY <2>4, <2>5
  <2>8. KeyedOnce'
    BY <2>5, <2>7 DEF KeyedInv, KeyedOnce
  <2> QED
    BY <2>6, <2>8 DEF KeyedInv
<1> QED
  BY <1>2, <1>3


\* However many requests, retries and webhook jobs carry one idempotency key, and
\* however their reads and inserts interleave, workflow_runs has one row for it
\* (start_or_get_idempotent in persistence/repositories/workflows.py).
THEOREM OneRowPerKey == DefinitionsSpec => []KeyedOnce
<1>1. DefinitionsInit => KeyedInv
  <2> SUFFICES ASSUME DefinitionsInit PROVE KeyedInv
    OBVIOUS
  <2>1. runRow = <<>> /\ runRow \in Seq({}) /\ DOMAIN runRow = {}
    BY DEF DefinitionsInit
  <2> QED
    BY <2>1 DEF KeyedInv, RowsOK, KeyedOnce
<1>2. KeyedInv /\ [DefinitionsNext]_definitionVars => KeyedInv'
  <2> SUFFICES ASSUME KeyedInv, [DefinitionsNext]_definitionVars PROVE KeyedInv'
    OBVIOUS
  <2>1. CASE UNCHANGED runRow
    BY <2>1 DEF KeyedInv, RowsOK, KeyedOnce
  <2>2. CASE \E key, d, i : start_or_get_idempotent(key, d, i)
    BY <2>2, InsertKeeps
  <2>3. CASE \E i, st : update_state(i, st)
    BY <2>3, UpdateKeeps
  <2> QED
    BY <2>1, <2>2, <2>3, RowStep
<1>3. KeyedInv => KeyedOnce
  BY DEF KeyedInv
<1> QED
  BY <1>1, <1>2, <1>3, PTL DEF DefinitionsSpec
-----------------------------------------------------------------------------
(* The stream of a run.  No envelope is shown twice, because what was      *)
(* replayed is numbered up to the number below which the live part skips,  *)
(* and the stream holds an envelope once.  None is missed, because within  *)
(* the first build a row can only be missing below that number while it is *)
(* still being written, and writing it then is out of order.               *)

Frames == [seq: Nat \ {0}, type: {"frame", "result"}, by: Publishers, of: Nat]

StreamTypes ==
  /\ build \in [n: Nat, pc: {"none", "running", "paused", "ended"}]
  /\ seqNext \in [run: Nat, audit: Nat]
  /\ emitted \in Seq(Frames)
  /\ sending \in [Publishers -> [pc: {"idle", "append", "xadd"}, id: Nat]]
  /\ stream \in Seq(Nat)
  /\ faults \in [lost: BOOLEAN, overtaken: BOOLEAN]

Ids == 1..Len(emitted)

Pending(j)   == \E p \in Publishers : sending[p].pc # "idle" /\ sending[p].id = j
Unwritten(j) == \E p \in Publishers : sending[p].pc = "append" /\ sending[p].id = j
Streamed(j)  == \E k \in 1..Len(stream) : stream[k] = j

\* A publisher writes an envelope nobody else writes, and the stream does not hold
\* yet; the stream holds each once.
SentOnce ==
  /\ \A p \in Publishers : sending[p].pc # "idle" => sending[p].id \in Ids /\ ~Streamed(sending[p].id)
  /\ \A p, q \in Publishers :
        sending[p].pc # "idle" /\ sending[q].pc # "idle" /\ sending[p].id = sending[q].id => p = q
  /\ \A k \in 1..Len(stream) : stream[k] \in Ids
  /\ \A k, m \in 1..Len(stream) : stream[k] = stream[m] => k = m

\* A row of the table has its envelope's number.
TableOK ==
  /\ \E b \in Nat : DOMAIN events \subseteq 1..b
  /\ \A s \in DOMAIN events : events[s] \in Ids /\ emitted[events[s]].seq = s

\* The envelopes of the first build: numbered as they are made up to the result,
\* the audit's copies after it.
FirstBuild ==
  LET run == seqNext.run IN
  /\ build.n = 0 <=> build.pc = "none"
  /\ build.n = 0 => run = 0
  /\ build.pc \in {"none", "running"} => seqNext.audit = 0
  /\ run <= MaxFrames
  /\ Len(emitted) = run + seqNext.audit
  /\ seqNext.audit = 0 \/ seqNext.audit < run
  /\ \A i \in 1..run : emitted[i].seq = i
  /\ \A i \in Ids : i > run => emitted[i].seq < run /\ emitted[i].by = "audit"
  /\ \A i \in Ids : emitted[i].type = "result" <=> build.pc \in {"paused", "ended"} /\ i = run
  /\ build.pc \in {"paused", "ended"} => run > 0
  /\ build.pc \in {"none", "running"} =>
        \A p \in Publishers \ (Sinks \cup {"graph"}) : sending[p].pc = "idle"

\* Where the first build's envelopes are while no write has failed.
NothingLost ==
  LET run == seqNext.run IN
  /\ \A j \in Ids : Pending(j) \/ Streamed(j)
  /\ \A j \in 1..run : Unwritten(j) <=> j \notin DOMAIN events
  /\ \A s \in DOMAIN events : s \in 1..run /\ events[s] = s
  /\ build.pc \in {"paused", "ended"} =>
        \A j \in 1..run : j < run =>
           /\ Streamed(j) /\ j \in DOMAIN events
           /\ \A k, m \in 1..Len(stream) : stream[k] = run /\ stream[m] = j => m < k

RunSide == /\ StreamTypes /\ SentOnce /\ TableOK
           /\ build.n <= 1 => FirstBuild /\ (~faults.lost => NothingLost)

WatcherType == [pc: {"off", "replay", "live", "done"}, ticket: BOOLEAN, last: Nat, fresh: BOOLEAN, min: Nat,
                todo: Seq(Nat), pos: Nat, ended: BOOLEAN, seen: SUBSET Nat, twice: BOOLEAN]

Following == watcher.fresh /\ watcher.pc # "off"

ToReplay == {watcher.todo[i] : i \in 1..Len(watcher.todo)}

\* What a fresh watcher has been shown is below the number replayed, or behind its
\* place in the stream.
ShownOnce ==
  /\ watcher.fresh => ~watcher.twice
  /\ \A j \in ToReplay : j \in Ids
  /\ Following =>
       /\ \A j \in watcher.seen : j \in Ids
       /\ \A j \in ToReplay : j \notin watcher.seen /\ emitted[j].seq <= watcher.min
       /\ \A i, k \in 1..Len(watcher.todo) : watcher.todo[i] = watcher.todo[k] => i = k
       /\ \A j \in watcher.seen : \/ emitted[j].seq <= watcher.min
                                  \/ \E k \in 1..Len(stream) : k <= watcher.pos /\ stream[k] = j
       /\ watcher.pos <= Len(stream)
       /\ watcher.pc = "replay" => watcher.pos = 0
       /\ watcher.pc \in {"live", "done"} => watcher.todo = <<>>

InOrder1 == build.n <= 1 /\ ~faults.lost /\ ~faults.overtaken

ResultSeen == \E r \in DOMAIN emitted : emitted[r].type = "result" /\ 1..r \subseteq watcher.seen

\* What is below the number replayed has been shown, will be, or is being written.
NoneMissed ==
  Following /\ InOrder1 =>
    /\ watcher.min = 0 \/ watcher.min \in DOMAIN events
    /\ \A j \in 1..watcher.min : j \in watcher.seen \/ j \in ToReplay \/ Unwritten(j)
    /\ watcher.pc = "live" =>
         \A k \in 1..Len(stream) :
            k <= watcher.pos /\ emitted[stream[k]].seq > watcher.min => stream[k] \in watcher.seen
    /\ watcher.ended => \E r \in Ids : emitted[r].type = "result" /\ r <= watcher.min
    /\ watcher.pc = "done" => ResultSeen

WatchInv == RunSide /\ watcher \in WatcherType /\ ShownOnce /\ NoneMissed

\* A build's envelopes, and the audit hook's copies of all but its result, fit in
\* the stream: nothing of the first build is trimmed.
Fits == 2 * MaxFrames <= StreamLimit + 1

\* The place of an element in a set of numbers.
Below(S, s) == {x \in S : x < s}

LEMMA BelowFacts ==
  ASSUME NEW B \in Nat, NEW S \in SUBSET (1..B)
  PROVE  /\ IsFiniteSet(S) /\ Cardinality(S) \in Nat
         /\ \A s : IsFiniteSet(Below(S, s)) /\ Cardinality(Below(S, s)) \in Nat
         /\ \A s, t \in S : s < t => Cardinality(Below(S, s)) < Cardinality(Below(S, t))
<1>1. IsFiniteSet(1..B)
  BY FS_Interval
<1>2. IsFiniteSet(S) /\ Cardinality(S) \in Nat
  BY <1>1, FS_Subset, FS_CardinalityType
<1>3. ASSUME NEW s PROVE IsFiniteSet(Below(S, s)) /\ Cardinality(Below(S, s)) \in Nat
  <2>1. Below(S, s) \in SUBSET S
    BY DEF Below
  <2> QED BY <1>2, <2>1, FS_Subset, FS_CardinalityType
<1>4. ASSUME NEW s \in S, NEW t \in S, s < t
      PROVE  Cardinality(Below(S, s)) < Cardinality(Below(S, t))
  <2>1. s \notin Below(S, s) /\ Below(S, s) \cup {s} \in SUBSET Below(S, t)
    <3>1. \A x \in S : x \in Nat
      OBVIOUS
    <3>2. \A x \in S : x < s => x < t
      BY <1>4, <3>1
    <3>3. ~(s < s)
      BY <3>1
    <3> QED BY <1>4, <3>2, <3>3 DEF Below
  <2>2. Cardinality(Below(S, s) \cup {s}) = Cardinality(Below(S, s)) + 1
    BY <1>3, <2>1, FS_AddElement
  <2>3. Cardinality(Below(S, s) \cup {s}) <= Cardinality(Below(S, t))
    BY <1>3, <2>1, FS_Subset
  <2>4. Cardinality(Below(S, s)) \in Nat /\ Cardinality(Below(S, t)) \in Nat
    BY <1>3
  <2> QED BY <2>2, <2>3, <2>4
<1> QED BY <1>2, <1>3, <1>4

LEMMA NthExists ==
  ASSUME NEW B \in Nat, NEW S \in SUBSET (1..B), NEW i \in Nat, i < Cardinality(S)
  PROVE  \E s \in S : Cardinality(Below(S, s)) = i
<1>0. IsFiniteSet(S) /\ Cardinality(S) \in Nat
  BY BelowFacts
<1>1. S # {}
  BY <1>0, FS_EmptySet
<1>2. PICK m \in S : \A x \in S : x <= m
  BY <1>1, BoundedMax
<1>3. Cardinality(Below(S, m)) >= i
  <2>1. Below(S, m) = S \ {m}
    <3>1. \A x \in S : x \in Nat
      OBVIOUS
    <3>2. \A x \in S : x < m <=> x # m
      BY <1>2, <3>1
    <3> QED BY <3>2 DEF Below
  <2>2. Cardinality(S \ {m}) = Cardinality(S) - 1
    BY <1>0, FS_RemoveElement
  <2> QED BY <1>0, <2>1, <2>2
<1> DEFINE T == {s \in S : Cardinality(Below(S, s)) >= i}
<1>4. T \in SUBSET Nat /\ T # {}
  <2>1. m \in T
    BY <1>3
  <2>2. \A x \in S : x \in Nat
    OBVIOUS
  <2> QED BY <2>1, <2>2
<1>5. \E s \in T : \A y \in T : s <= y
  <2> HIDE DEF T
  <2> QED BY <1>4, NatMin
<1>6. PICK s : s \in T /\ \A y \in T : s <= y
  BY <1>5
<1>7. s \in S /\ Cardinality(Below(S, s)) >= i /\ Cardinality(Below(S, s)) \in Nat
  BY <1>6, BelowFacts
<1> SUFFICES ASSUME Cardinality(Below(S, s)) # i PROVE FALSE
  BY <1>7
<1>8. Below(S, s) # {}
  <2>1. Cardinality(Below(S, s)) # 0
    BY <1>7
  <2> QED BY <2>1, FS_EmptySet
<1>9. Below(S, s) \in SUBSET (1..B)
  BY DEF Below
<1>10. PICK t \in Below(S, s) : \A x \in Below(S, s) : x <= t
  BY <1>8, <1>9, BoundedMax
<1>11. t \in S /\ t < s /\ Below(S, t) = Below(S, s) \ {t}
  <2>1. \A x \in S : x \in Nat
    OBVIOUS
  <2>2. t \in S /\ t < s
    BY <1>10 DEF Below
  <2>3. \A x \in S : x < t <=> x < s /\ x # t
    <3> SUFFICES ASSUME NEW x \in S PROVE x < t <=> x < s /\ x # t
      OBVIOUS
    <3>1. x < s => x <= t
      BY <1>10 DEF Below
    <3> QED BY <1>7, <2>1, <2>2, <3>1
  <2> QED BY <2>2, <2>3 DEF Below
<1>12. Cardinality(Below(S, t)) = Cardinality(Below(S, s)) - 1
  BY <1>10, <1>11, BelowFacts, FS_RemoveElement
<1>13. t \in T
  <2>1. Cardinality(Below(S, t)) \in Nat
    BY BelowFacts
  <2>2. Cardinality(Below(S, t)) >= i
    BY <1>7, <1>12, <2>1
  <2> QED BY <1>11, <2>2
<1>14. s <= t /\ s \in Nat /\ t \in Nat
  BY <1>6, <1>7, <1>11, <1>13
<1> QED BY <1>11, <1>14

\* The rows of a replay come in their order, and leave out none up to the last.
LEMMA RowsInOrder ==
  ASSUME TableOK, NEW after \in Nat
  PROVE  \E n \in Nat :
           /\ list_after(after) \in Seq(Nat) /\ Len(list_after(after)) = n
           /\ \A i \in 1..n : list_after(after)[i] \in DOMAIN events /\ list_after(after)[i] \in Nat
           /\ \A i, k \in 1..n : i < k => list_after(after)[i] < list_after(after)[k]
           /\ \A s \in DOMAIN events : n > 0 /\ s > after /\ s <= list_after(after)[n]
                 => \E i \in 1..n : list_after(after)[i] = s
<1> DEFINE S == {s \in DOMAIN events : s > after}
           Nth(i) == CHOOSE s \in S : Cardinality({x \in S : x < s}) = i - 1
           n == IF Cardinality(S) > ReplayLimit THEN ReplayLimit ELSE Cardinality(S)
           rows == [i \in 1..n |-> Nth(i)]
<1>1. PICK b \in Nat : DOMAIN events \subseteq 1..b
  BY DEF TableOK
<1>2. S \in SUBSET (1..b)
  BY <1>1
<1>3. list_after(after) = rows
  BY DEF list_after
<1>4. \A i : Nth(i) = CHOOSE s \in S : Cardinality(Below(S, s)) = i - 1
  BY DEF Below
<1>5. S \subseteq DOMAIN events /\ \A s \in DOMAIN events : s > after => s \in S
  OBVIOUS
<1> HIDE DEF S
<1>6. Cardinality(S) \in Nat /\ ReplayLimit \in Nat
  BY <1>2, BelowFacts, StreamsAssumption
<1>7. n \in Nat /\ n <= Cardinality(S)
  BY <1>6
<1> HIDE DEF n
<1>8. ASSUME NEW i \in 1..n PROVE Nth(i) \in S /\ Cardinality(Below(S, Nth(i))) = i - 1
  <2>1. i - 1 \in Nat /\ i - 1 < Cardinality(S)
    BY <1>6, <1>7
  <2>2. \E s \in S : Cardinality(Below(S, s)) = i - 1
    BY <1>2, <2>1, NthExists
  <2> HIDE DEF Nth
  <2>3. Nth(i) = CHOOSE s \in S : Cardinality(Below(S, s)) = i - 1
    BY <1>4
  <2> QED BY <2>2, <2>3
<1> HIDE DEF Nth
<1>9. rows \in Seq(Nat) /\ Len(rows) = n /\ \A i \in 1..n : rows[i] = Nth(i)
  <2>1. \A i \in 1..n : Nth(i) \in Nat
    <3>1. \A x \in S : x \in Nat
      BY <1>2
    <3> QED BY <1>8, <3>1
  <2> QED BY <1>7, <2>1
<1> HIDE DEF rows
<1>10. \A i \in 1..n : rows[i] \in S /\ rows[i] \in Nat /\ Cardinality(Below(S, rows[i])) = i - 1
  BY <1>2, <1>8, <1>9
<1>11. ASSUME NEW i \in 1..n, NEW k \in 1..n, i < k PROVE rows[i] < rows[k]
  <2>1. rows[i] \in S /\ rows[k] \in S /\ rows[i] \in Nat /\ rows[k] \in Nat
    BY <1>10
  <2>2. Cardinality(Below(S, rows[i])) = i - 1 /\ Cardinality(Below(S, rows[k])) = k - 1
    BY <1>10
  <2>3. ~(rows[k] < rows[i])
    <3> SUFFICES ASSUME rows[k] < rows[i] PROVE FALSE
      OBVIOUS
    <3>1. Cardinality(Below(S, rows[k])) < Cardinality(Below(S, rows[i]))
      BY <1>2, <2>1, BelowFacts
    <3> QED BY <1>7, <1>11, <2>2, <3>1
  <2>4. rows[i] # rows[k]
    BY <1>7, <1>11, <2>2
  <2> QED BY <2>1, <2>3, <2>4
<1>12. ASSUME NEW s \in DOMAIN events, n > 0, s > after, s <= rows[n]
       PROVE  \E i \in 1..n : rows[i] = s
  <2>0. n \in 1..n /\ s \in S /\ s \in Nat
    BY <1>1, <1>5, <1>7, <1>12
  <2>1. rows[n] \in S /\ rows[n] \in Nat /\ Cardinality(Below(S, rows[n])) = n - 1
    BY <1>10, <2>0
  <2>2. PICK c \in Nat : c = Cardinality(Below(S, s))
    BY <1>2, BelowFacts
  <2>3. c <= n - 1
    <3>1. CASE s = rows[n]
      BY <1>7, <2>1, <2>2, <3>1
    <3>2. CASE s < rows[n]
      <4>1. Cardinality(Below(S, s)) < Cardinality(Below(S, rows[n]))
        BY <1>2, <2>0, <2>1, <3>2, BelowFacts
      <4> QED BY <1>7, <2>1, <2>2, <4>1
    <3> QED BY <1>12, <2>0, <2>1, <3>1, <3>2
  <2>4. c + 1 \in 1..n /\ (c + 1) - 1 = c
    BY <1>7, <2>3
  <2>5. rows[c + 1] \in S /\ rows[c + 1] \in Nat /\ Cardinality(Below(S, rows[c + 1])) = c
    BY <1>10, <2>4
  <2>6. ~(rows[c + 1] < s) /\ ~(s < rows[c + 1])
    <3>1. \A x, y \in S : x < y => Cardinality(Below(S, x)) < Cardinality(Below(S, y))
      BY <1>2, BelowFacts
    <3> QED BY <2>0, <2>2, <2>5, <3>1
  <2> QED BY <2>0, <2>4, <2>5, <2>6
<1> QED BY <1>3, <1>5, <1>7, <1>9, <1>10, <1>11, <1>12

\* An envelope is made: it comes last, and its publisher holds it.
Made(p, s, type) ==
  /\ emitted' \in Seq(Frames) /\ Len(emitted') = Len(emitted) + 1
  /\ \A i \in Ids : emitted'[i] = emitted[i]
  /\ emitted'[Len(emitted) + 1] = Envelope(s, type, p)
  /\ sending' \in [Publishers -> [pc: {"idle", "append", "xadd"}, id: Nat]]
  /\ sending[p].pc = "idle"
  /\ sending'[p].pc = "append" /\ sending'[p].id = Len(emitted) + 1
  /\ \A q \in Publishers \ {p} : sending'[q] = sending[q]

LEMMA MakesFacts ==
  ASSUME StreamTypes, NEW p \in Publishers, NEW s \in Nat \ {0}, NEW type \in {"frame", "result"}, Makes(p, s, type)
  PROVE  Made(p, s, type)
<1> DEFINE e == Envelope(s, type, p)
           r == [pc |-> "append", id |-> Len(emitted) + 1]
<1>1. e \in Frames
  BY DEF Envelope, Frames, StreamTypes
<1>2. emitted \in Seq(Frames) /\ emitted' = Append(emitted, e) /\ Len(emitted) \in Nat
  BY DEF Makes, StreamTypes
<1>3. sending' = [sending EXCEPT ![p] = r] /\ sending[p].pc = "idle"
  BY DEF Makes
<1>4. r.pc = "append" /\ r.id = Len(emitted) + 1 /\ r \in [pc: {"idle", "append", "xadd"}, id: Nat]
  BY <1>2
<1> HIDE DEF e, r
<1>5. emitted' \in Seq(Frames) /\ Len(emitted') = Len(emitted) + 1 /\ emitted'[Len(emitted) + 1] = e
      /\ \A i \in Ids : emitted'[i] = emitted[i]
  BY <1>1, <1>2 DEF Ids
<1>6. sending' \in [Publishers -> [pc: {"idle", "append", "xadd"}, id: Nat]] /\ sending'[p] = r
      /\ \A q \in Publishers \ {p} : sending'[q] = sending[q]
  BY <1>3, <1>4 DEF StreamTypes
<1> QED BY <1>3, <1>4, <1>5, <1>6 DEF Made, e

LEMMA MadeSends ==
  ASSUME StreamTypes, SentOnce, TableOK, NEW p \in Publishers, NEW s, NEW type, Made(p, s, type),
         UNCHANGED <<stream, events>>
  PROVE  /\ SentOnce' /\ TableOK'
         /\ \A j : Pending(j)' <=> Pending(j) \/ j = Len(emitted) + 1
         /\ \A j : Unwritten(j)' <=> Unwritten(j) \/ j = Len(emitted) + 1
         /\ \A j : Streamed(j)' <=> Streamed(j)
<1>0. PICK L \in Nat : L = Len(emitted) /\ Ids = 1..L /\ Ids' = 1..(L + 1)
  BY DEF StreamTypes, Ids, Made
<1>1. ~Streamed(L + 1)
  BY <1>0 DEF SentOnce, Streamed
<1>2. \A j : Streamed(j)' <=> Streamed(j)
  BY DEF Streamed
<1>3. \A q \in Publishers : sending[q].pc # "idle" => sending[q].id \in Ids /\ sending[q].id # L + 1
  BY <1>0 DEF SentOnce
<1>4. /\ sending'[p].pc = "append" /\ sending'[p].id = L + 1 /\ sending[p].pc = "idle"
      /\ \A q \in Publishers \ {p} : sending'[q] = sending[q]
  BY <1>0 DEF Made
<1>5. SentOnce'
  <2>1. \A q \in Publishers : sending'[q].pc # "idle" => sending'[q].id \in Ids' /\ ~Streamed(sending'[q].id)
    BY <1>0, <1>1, <1>3, <1>4 DEF SentOnce
  <2>2. ASSUME NEW q \in Publishers, NEW r \in Publishers, sending'[q].pc # "idle", sending'[r].pc # "idle",
               sending'[q].id = sending'[r].id
        PROVE  q = r
    BY <1>3, <1>4, <2>2 DEF SentOnce
  <2>3. \A k \in 1..Len(stream) : stream[k] \in Ids'
    BY <1>0 DEF SentOnce
  <2>4. \A k, m \in 1..Len(stream) : stream[k] = stream[m] => k = m
    BY DEF SentOnce
  <2> QED BY <1>2, <2>1, <2>2, <2>3, <2>4 DEF SentOnce
<1>6. TableOK'
  <2>1. \A i \in Ids : emitted'[i] = emitted[i] /\ i \in Ids'
    BY <1>0 DEF Made
  <2> QED BY <2>1 DEF TableOK
<1>7. \A j : Pending(j)' <=> Pending(j) \/ j = L + 1
  BY <1>3, <1>4 DEF Pending
<1>8. \A j : Unwritten(j)' <=> Unwritten(j) \/ j = L + 1
  BY <1>3, <1>4 DEF Unwritten
<1> QED BY <1>0, <1>2, <1>5, <1>6, <1>7, <1>8

\* Numbers of the first build.
LEMMA FirstNumbers ==
  ASSUME StreamTypes, FirstBuild
  PROVE  /\ Len(emitted) \in Nat /\ seqNext.run \in Nat /\ seqNext.audit \in Nat
         /\ seqNext.run <= Len(emitted) /\ Ids = 1..Len(emitted)
         /\ \A i \in 1..seqNext.run : i \in Ids
  BY DEF StreamTypes, FirstBuild, Ids

\* A frame of the graph or of a callback.
LEMMA FrameRuns ==
  ASSUME RunSide, NEW p \in Publishers, p \in Sinks \cup {"graph"}, build.pc = "running",
         seqNext.run < MaxFrames, Makes(p, seqNext.run + 1, "frame"),
         seqNext' = [seqNext EXCEPT !.run = @ + 1], UNCHANGED <<build, events, stream, faults>>
  PROVE  RunSide' /\ Made(p, seqNext.run + 1, "frame")
<1>0. StreamTypes /\ SentOnce /\ TableOK /\ seqNext.run \in Nat /\ seqNext.audit \in Nat
  BY DEF RunSide, StreamTypes
<1>1. Made(p, seqNext.run + 1, "frame")
  BY <1>0, MakesFacts
<1>2. seqNext'.run = seqNext.run + 1 /\ seqNext'.audit = seqNext.audit /\ seqNext' \in [run: Nat, audit: Nat]
  BY <1>0 DEF StreamTypes
<1>3. StreamTypes'
  BY <1>0, <1>1, <1>2 DEF StreamTypes, Made
<1>4. /\ SentOnce' /\ TableOK'
      /\ \A j : Pending(j)' <=> Pending(j) \/ j = Len(emitted) + 1
      /\ \A j : Unwritten(j)' <=> Unwritten(j) \/ j = Len(emitted) + 1
      /\ \A j : Streamed(j)' <=> Streamed(j)
  BY <1>0, <1>1, MadeSends
<1>5. ASSUME build.n <= 1 PROVE FirstBuild' /\ (~faults.lost => NothingLost')
  <2>0. FirstBuild /\ (~faults.lost => NothingLost)
    BY <1>5 DEF RunSide
  <2>1. PICK L \in Nat : L = Len(emitted) /\ L = seqNext.run /\ Ids = 1..L /\ seqNext.audit = 0
    BY <1>0, <2>0, FirstNumbers DEF FirstBuild
  <2>2. Len(emitted') = L + 1 /\ Ids' = 1..(L + 1) /\ seqNext'.run = L + 1 /\ seqNext'.audit = 0
    BY <1>1, <1>2, <2>1 DEF Made, Ids
  <2>3. \A i \in 1..(L + 1) : emitted'[i].seq = i /\ emitted'[i].type # "result"
    <3>1. emitted'[L + 1].seq = L + 1 /\ emitted'[L + 1].type # "result"
      BY <1>1, <2>1 DEF Made, Envelope
    <3>2. \A i \in 1..L : emitted'[i] = emitted[i] /\ emitted[i].seq = i
      BY <1>1, <2>0, <2>1 DEF Made, FirstBuild
    <3>3. \A i \in 1..L : emitted[i].type # "result"
      BY <2>0, <2>1 DEF FirstBuild
    <3> QED BY <3>1, <3>2, <3>3
  <2>4. FirstBuild'
    <3>1. \A i \in Ids' : ~(i > seqNext'.run) /\ emitted'[i].type # "result"
      BY <2>2, <2>3
    <3>2. \A q \in Publishers \ (Sinks \cup {"graph"}) : sending'[q].pc = "idle"
      BY <1>1, <2>0 DEF FirstBuild, Made
    <3>3. build.n # 0 /\ build.pc = "running" /\ UNCHANGED build
      BY <2>0 DEF FirstBuild
    <3>4. seqNext'.run <= MaxFrames
      BY <2>1, <2>2, StreamsAssumption
    <3>5. \A i \in 1..seqNext'.run : emitted'[i].seq = i
      BY <2>2, <2>3
    <3>6. Len(emitted') = seqNext'.run + seqNext'.audit
      BY <2>1, <2>2
    <3> QED BY <2>2, <3>1, <3>2, <3>3, <3>4, <3>5, <3>6 DEF FirstBuild
  <2>5. ASSUME ~faults.lost PROVE NothingLost'
    <3>0. NothingLost
      BY <2>0, <2>5
    <3>1. \A j \in Ids' : Pending(j)' \/ Streamed(j)'
      BY <1>4, <2>1, <2>2, <3>0 DEF NothingLost
    <3>2. L + 1 \notin DOMAIN events /\ \A x \in DOMAIN events : x \in 1..L /\ events[x] = x
      BY <2>1, <3>0 DEF NothingLost
    <3>3. \A j \in 1..(L + 1) : Unwritten(j)' <=> j \notin DOMAIN events
      BY <1>4, <2>1, <3>0, <3>2 DEF NothingLost
    <3>4. \A x \in DOMAIN events : x \in 1..(L + 1) /\ events[x] = x
      BY <3>2
    <3> QED BY <2>2, <3>1, <3>3, <3>4 DEF NothingLost
  <2> QED BY <2>4, <2>5
<1> QED BY <1>1, <1>3, <1>4, <1>5 DEF RunSide

\* The result, when every callback is idle: everything before it is written.
LEMMA ResultRuns ==
  ASSUME RunSide, _invoke_streaming
  PROVE  RunSide' /\ Made("graph", seqNext.run + 1, "result")
<1>0. StreamTypes /\ SentOnce /\ TableOK /\ seqNext.run \in Nat /\ seqNext.audit \in Nat
  BY DEF RunSide, StreamTypes
<1>p. "graph" \in Publishers
  BY DEF Publishers
<1>1. Made("graph", seqNext.run + 1, "result")
  BY <1>0, <1>p, MakesFacts DEF _invoke_streaming
<1>2. seqNext'.run = seqNext.run + 1 /\ seqNext'.audit = seqNext.audit /\ seqNext' \in [run: Nat, audit: Nat]
  <2>1. seqNext' = [seqNext EXCEPT !.run = @ + 1]
    BY DEF _invoke_streaming
  <2> QED BY <1>0, <2>1 DEF StreamTypes
<1>3. build'.n = build.n /\ build'.pc \in {"paused", "ended"} /\ build' \in [n: Nat, pc: {"none", "running", "paused", "ended"}]
  BY <1>0 DEF StreamTypes, _invoke_streaming
<1>u. UNCHANGED <<events, stream, faults>>
  BY DEF _invoke_streaming
<1>4. StreamTypes'
  BY <1>0, <1>1, <1>2, <1>3, <1>u DEF StreamTypes, Made
<1>5. /\ SentOnce' /\ TableOK'
      /\ \A j : Pending(j)' <=> Pending(j) \/ j = Len(emitted) + 1
      /\ \A j : Unwritten(j)' <=> Unwritten(j) \/ j = Len(emitted) + 1
      /\ \A j : Streamed(j)' <=> Streamed(j)
  BY <1>0, <1>1, <1>p, <1>u, MadeSends
<1>6. ASSUME build.n <= 1 PROVE FirstBuild' /\ (~faults.lost => NothingLost')
  <2>0. FirstBuild /\ (~faults.lost => NothingLost) /\ build.pc = "running"
    BY <1>6 DEF RunSide, _invoke_streaming
  <2>1. PICK L \in Nat : L = Len(emitted) /\ L = seqNext.run /\ Ids = 1..L /\ seqNext.audit = 0
    BY <1>0, <2>0, FirstNumbers DEF FirstBuild
  <2>2. Len(emitted') = L + 1 /\ Ids' = 1..(L + 1) /\ seqNext'.run = L + 1 /\ seqNext'.audit = 0
    BY <1>1, <1>2, <2>1 DEF Made, Ids
  <2>3. /\ emitted'[L + 1].seq = L + 1 /\ emitted'[L + 1].type = "result"
        /\ \A i \in 1..L : emitted'[i].seq = i /\ emitted'[i].type # "result"
    <3>1. emitted'[L + 1].seq = L + 1 /\ emitted'[L + 1].type = "result"
      BY <1>1, <2>1 DEF Made, Envelope
    <3>2. \A i \in 1..L : emitted'[i] = emitted[i] /\ emitted[i].seq = i
      BY <1>1, <2>0, <2>1 DEF Made, FirstBuild
    <3>3. \A i \in 1..L : emitted[i].type # "result"
      BY <2>0, <2>1 DEF FirstBuild
    <3> QED BY <3>1, <3>2, <3>3
  <2>4. FirstBuild'
    <3>1. \A i \in Ids' : ~(i > seqNext'.run)
      BY <2>2
    <3>2. \A i \in Ids' : emitted'[i].type = "result" <=> i = seqNext'.run
      BY <2>2, <2>3
    <3>3. build'.n # 0 /\ build'.pc \in {"paused", "ended"}
      BY <1>3, <2>0 DEF FirstBuild
    <3>4. seqNext'.run <= MaxFrames
      BY <2>1, <2>2, StreamsAssumption DEF _invoke_streaming
    <3>5. \A i \in 1..seqNext'.run : emitted'[i].seq = i
      BY <2>2, <2>3
    <3>6. Len(emitted') = seqNext'.run + seqNext'.audit /\ seqNext'.run > 0
      BY <2>1, <2>2
    <3> QED BY <2>2, <3>1, <3>2, <3>3, <3>4, <3>5, <3>6 DEF FirstBuild
  <2>5. ASSUME ~faults.lost PROVE NothingLost'
    <3>0. NothingLost
      BY <2>0, <2>5
    <3>1. \A j \in Ids' : Pending(j)' \/ Streamed(j)'
      BY <1>5, <2>1, <2>2, <3>0 DEF NothingLost
    <3>2. L + 1 \notin DOMAIN events /\ \A x \in DOMAIN events : x \in 1..L /\ events[x] = x
      BY <2>1, <3>0 DEF NothingLost
    <3>3. \A j \in 1..(L + 1) : Unwritten(j)' <=> j \notin DOMAIN events
      BY <1>5, <2>1, <3>0, <3>2 DEF NothingLost
    <3>4. \A x \in DOMAIN events : x \in 1..(L + 1) /\ events[x] = x
      BY <3>2
    <3>5. \A q \in Publishers : sending[q].pc = "idle"
      BY <1>1, <2>0 DEF _invoke_streaming, FirstBuild, Made, Publishers
    <3>6. \A j \in 1..L : Streamed(j) /\ j \in DOMAIN events
      <4>1. \A j : ~Pending(j) /\ ~Unwritten(j)
        BY <3>5 DEF Pending, Unwritten
      <4> QED BY <2>1, <3>0, <4>1 DEF NothingLost
    <3>7. \A k \in 1..Len(stream) : stream[k] # L + 1
      BY <1>0, <2>1 DEF SentOnce
    <3>8. \A j \in 1..(L + 1) : j < L + 1 =>
             /\ Streamed(j)' /\ j \in DOMAIN events
             /\ \A k, m \in 1..Len(stream) : stream[k] = L + 1 /\ stream[m] = j => m < k
      BY <1>5, <3>6, <3>7
    <3> QED BY <1>u, <2>2, <3>1, <3>3, <3>4, <3>8 DEF NothingLost
  <2> QED BY <2>4, <2>5
<1> QED BY <1>1, <1>3, <1>4, <1>5, <1>6, <1>u DEF RunSide

\* The audit's copies come after the result, with smaller numbers.
LEMMA FlushRuns ==
  ASSUME RunSide, _flush_stream
  PROVE  RunSide' /\ Made("audit", seqNext.audit + 1, "frame")
<1>0. StreamTypes /\ SentOnce /\ TableOK /\ seqNext.run \in Nat /\ seqNext.audit \in Nat
  BY DEF RunSide, StreamTypes
<1>p. "audit" \in Publishers
  BY DEF Publishers
<1>1. Made("audit", seqNext.audit + 1, "frame")
  BY <1>0, <1>p, MakesFacts DEF _flush_stream
<1>2. seqNext'.run = seqNext.run /\ seqNext'.audit = seqNext.audit + 1 /\ seqNext' \in [run: Nat, audit: Nat]
  <2>1. seqNext' = [seqNext EXCEPT !.audit = @ + 1]
    BY DEF _flush_stream
  <2> QED BY <1>0, <2>1 DEF StreamTypes
<1>u. UNCHANGED <<build, events, stream, faults>>
  BY DEF _flush_stream
<1>4. StreamTypes'
  BY <1>0, <1>1, <1>2, <1>u DEF StreamTypes, Made
<1>5. /\ SentOnce' /\ TableOK'
      /\ \A j : Pending(j)' <=> Pending(j) \/ j = Len(emitted) + 1
      /\ \A j : Unwritten(j)' <=> Unwritten(j) \/ j = Len(emitted) + 1
      /\ \A j : Streamed(j)' <=> Streamed(j)
  BY <1>0, <1>1, <1>p, <1>u, MadeSends
<1>6. ASSUME build.n <= 1 PROVE FirstBuild' /\ (~faults.lost => NothingLost')
  <2>0. FirstBuild /\ (~faults.lost => NothingLost) /\ build.pc \in {"paused", "ended"}
    BY <1>6 DEF RunSide, _flush_stream
  <2>1. PICK L \in Nat : L = Len(emitted) /\ Ids = 1..L
    BY <1>0, <2>0, FirstNumbers
  <2>r. PICK run \in Nat : run = seqNext.run /\ run > 0 /\ run <= L /\ L = run + seqNext.audit
    BY <1>0, <2>0, <2>1, FirstNumbers DEF FirstBuild
  <2>a. seqNext.audit + 1 < run
    <3> DEFINE F == {i \in DOMAIN emitted : emitted[i].of = build.n /\ emitted[i].by = "graph" /\ emitted[i].type = "frame"}
    <3>1. F \in SUBSET (1..(run - 1))
      <4> SUFFICES ASSUME NEW i \in F PROVE i \in 1..(run - 1)
        OBVIOUS
      <4>1. i \in Ids /\ emitted[i].by = "graph" /\ emitted[i].type = "frame"
        BY <1>0 DEF Ids, StreamTypes
      <4>2. ~(i > run) /\ i # run
        BY <2>0, <2>r, <4>1 DEF FirstBuild
      <4> QED BY <2>1, <2>r, <4>1, <4>2
    <3> HIDE DEF F
    <3>2. IsFiniteSet(1..(run - 1)) /\ Cardinality(1..(run - 1)) <= run - 1
      <4>1. PICK k \in Nat : k = run - 1
        BY <2>r
      <4>2. IsFiniteSet(1..k) /\ Cardinality(1..k) = IF 1 > k THEN 0 ELSE k - 1 + 1
        BY FS_Interval
      <4>3. Cardinality(1..k) <= k
        BY <4>2
      <4> QED BY <4>1, <4>2, <4>3
    <3>3. Cardinality(F) <= run - 1 /\ Cardinality(F) \in Nat
      <4>1. Cardinality(F) <= Cardinality(1..(run - 1)) /\ IsFiniteSet(F)
        BY <3>1, <3>2, FS_Subset
      <4>2. Cardinality(F) \in Nat /\ Cardinality(1..(run - 1)) \in Nat
        BY <3>2, <4>1, FS_CardinalityType
      <4> QED BY <2>r, <3>2, <4>1, <4>2
    <3>4. seqNext.audit < Cardinality(F)
      BY DEF _flush_stream, F
    <3> QED BY <1>0, <2>r, <3>3, <3>4
  <2>2. Len(emitted') = L + 1 /\ Ids' = 1..(L + 1) /\ seqNext'.run = run /\ seqNext'.audit = seqNext.audit + 1
    BY <1>1, <1>2, <2>1, <2>r DEF Made, Ids
  <2>3. /\ emitted'[L + 1].seq < run /\ emitted'[L + 1].type = "frame" /\ emitted'[L + 1].by = "audit"
        /\ \A i \in 1..L : emitted'[i] = emitted[i]
    BY <1>1, <2>1, <2>a DEF Made, Envelope
  <2>4. FirstBuild'
    <3>1. \A i \in Ids' : i > run => emitted'[i].seq < run /\ emitted'[i].by = "audit"
      BY <2>0, <2>1, <2>2, <2>3, <2>r DEF FirstBuild
    <3>2. \A i \in Ids' : emitted'[i].type = "result" <=> i = run
      <4>1. \A i \in 1..L : emitted[i].type = "result" <=> i = run
        BY <2>0, <2>1, <2>r DEF FirstBuild
      <4> QED BY <2>2, <2>3, <2>r, <4>1
    <3>3. \A i \in 1..run : emitted'[i].seq = i
      BY <2>0, <2>3, <2>r DEF FirstBuild
    <3>4. Len(emitted') = seqNext'.run + seqNext'.audit
      <4>1. PICK a \in Nat : a = seqNext.audit
        BY <1>0
      <4>2. L = run + a /\ seqNext'.audit = a + 1 /\ seqNext'.run = run /\ Len(emitted') = L + 1
        BY <2>2, <2>r, <4>1
      <4> QED BY <4>2
    <3>5. (build.n = 0 <=> build.pc = "none") /\ (build.n = 0 => run = 0) /\ run <= MaxFrames
      BY <2>0, <2>r DEF FirstBuild
    <3>6. seqNext'.audit < run
      BY <2>2, <2>a
    <3> QED BY <1>u, <2>0, <2>2, <2>r, <3>1, <3>2, <3>3, <3>4, <3>5, <3>6 DEF FirstBuild
  <2>5. ASSUME ~faults.lost PROVE NothingLost'
    <3>0. NothingLost
      BY <2>0, <2>5
    <3>1. \A j \in Ids' : Pending(j)' \/ Streamed(j)'
      BY <1>5, <2>1, <2>2, <3>0 DEF NothingLost
    <3>3. \A j \in 1..run : Unwritten(j)' <=> j \notin DOMAIN events
      BY <1>5, <2>1, <2>r, <3>0 DEF NothingLost
    <3>4. \A x \in DOMAIN events : x \in 1..run /\ events[x] = x
      BY <2>r, <3>0 DEF NothingLost
    <3>8. \A j \in 1..run : j < run =>
             /\ Streamed(j)' /\ j \in DOMAIN events
             /\ \A k, m \in 1..Len(stream) : stream[k] = run /\ stream[m] = j => m < k
      BY <1>5, <2>0, <2>r, <3>0 DEF NothingLost
    <3> QED BY <1>u, <2>2, <3>1, <3>3, <3>4, <3>8 DEF NothingLost
  <2> QED BY <2>4, <2>5
<1> QED BY <1>1, <1>4, <1>5, <1>6, <1>u DEF RunSide

LEMMA FactoryRuns ==
  ASSUME RunSide, _default_graph_factory
  PROVE  RunSide' /\ build'.n = build.n + 1 /\ build.n \in Nat
<1>0. StreamTypes /\ SentOnce /\ TableOK /\ build.n \in Nat /\ build \in [n: Nat, pc: {"none", "running", "paused", "ended"}]
  BY DEF RunSide, StreamTypes
<1>1. build'.n = build.n + 1 /\ build'.pc = "running" /\ build' \in [n: Nat, pc: {"none", "running", "paused", "ended"}]
  BY <1>0 DEF _default_graph_factory
<1>2. seqNext'.run = 0 /\ seqNext'.audit = 0 /\ seqNext' \in [run: Nat, audit: Nat]
  BY DEF _default_graph_factory, _RunStreamSeq
<1>u. UNCHANGED <<emitted, sending, events, stream, faults>>
  BY DEF _default_graph_factory
<1>3. StreamTypes' /\ SentOnce' /\ TableOK'
  <2>1. StreamTypes'
    BY <1>0, <1>1, <1>2, <1>u DEF StreamTypes
  <2>2. Ids' = Ids /\ \A j : Streamed(j)' <=> Streamed(j)
    BY <1>u DEF Ids, Streamed
  <2>3. SentOnce'
    BY <1>0, <1>u, <2>2 DEF SentOnce
  <2>4. TableOK'
    BY <1>0, <1>u, <2>2 DEF TableOK
  <2> QED BY <2>1, <2>3, <2>4
<1>4. ASSUME build'.n <= 1 PROVE FirstBuild' /\ (~faults.lost => NothingLost')
  <2>1. build.n = 0
    BY <1>0, <1>1, <1>4
  <2>2. FirstBuild /\ (~faults.lost => NothingLost) /\ seqNext.run = 0 /\ seqNext.audit = 0 /\ build.pc = "none"
    BY <2>1 DEF RunSide, FirstBuild
  <2>3. Len(emitted) = 0 /\ Ids = {}
    BY <2>2 DEF FirstBuild, Ids
  <2>4. \A p \in Publishers : sending[p].pc = "idle"
    BY DEF _default_graph_factory
  <2>5. FirstBuild'
    BY <1>1, <1>2, <1>u, <2>1, <2>3, <2>4, StreamsAssumption DEF FirstBuild, Ids
  <2>6. ASSUME ~faults.lost PROVE NothingLost'
    <3>1. DOMAIN events = {}
      BY <2>2, <2>6 DEF NothingLost
    <3>2. Ids' = {}
      BY <1>u, <2>3 DEF Ids
    <3> QED BY <1>1, <1>2, <1>u, <3>1, <3>2 DEF NothingLost
  <2> QED BY <2>5, <2>6
<1> QED BY <1>0, <1>1, <1>3, <1>4, <1>u DEF RunSide

\* What a statement of the tee leaves alone.
TeeOnly == UNCHANGED <<build, seqNext, emitted>>

LEMMA TeeKeepsFirst ==
  ASSUME RunSide, TeeOnly, NEW p \in Publishers, sending[p].pc # "idle",
         \A q \in Publishers \ {p} : sending'[q] = sending[q]
  PROVE  build.n <= 1 => FirstBuild'
<1> SUFFICES ASSUME build.n <= 1 PROVE FirstBuild'
  OBVIOUS
<1>1. FirstBuild
  BY DEF RunSide
<1>2. build.pc \in {"none", "running"} => \A q \in Publishers \ (Sinks \cup {"graph"}) : sending'[q].pc = "idle"
  BY <1>1 DEF FirstBuild
<1> QED BY <1>1, <1>2 DEF FirstBuild, TeeOnly, Ids

\* The row is inserted, unless one of its number is there.
LEMMA AppendRuns ==
  ASSUME RunSide, NEW p \in Publishers, append(p)
  PROVE  /\ RunSide'
         /\ DOMAIN events \subseteq DOMAIN events'
         /\ \A j : Unwritten(j)' <=> Unwritten(j) /\ j # sending[p].id
<1> DEFINE id == sending[p].id
           seq == emitted[id].seq
<1>0. StreamTypes /\ SentOnce /\ TableOK /\ TeeOnly /\ UNCHANGED stream /\ sending[p].pc = "append"
  BY DEF RunSide, append, TeeOnly
<1>1. id \in Ids /\ seq \in Nat \ {0}
  <2>1. id \in Ids
    BY <1>0 DEF SentOnce
  <2>2. emitted \in Seq(Frames) /\ id \in 1..Len(emitted)
    BY <1>0, <2>1 DEF StreamTypes, Ids
  <2>3. emitted[id] \in Frames
    BY <2>2
  <2> QED BY <2>1, <2>3 DEF Frames
<1>2. /\ DOMAIN events' = DOMAIN events \cup {seq}
      /\ \A s \in DOMAIN events' : events'[s] = IF s \in DOMAIN events THEN events[s] ELSE id
  BY DEF append
<1>3. /\ sending' \in [Publishers -> [pc: {"idle", "append", "xadd"}, id: Nat]]
      /\ sending'[p].pc = "xadd" /\ sending'[p].id = id
      /\ \A q \in Publishers \ {p} : sending'[q] = sending[q]
  BY <1>0 DEF append, StreamTypes
<1>4. faults' \in [lost: BOOLEAN, overtaken: BOOLEAN] /\ faults'.lost = faults.lost
  <2>1. faults' = [faults EXCEPT !.overtaken = faults.overtaken \/ \E s \in DOMAIN events : events[s] > id]
    BY DEF append
  <2>2. faults \in [lost: BOOLEAN, overtaken: BOOLEAN]
    BY <1>0 DEF StreamTypes
  <2>3. (faults.overtaken \/ \E s \in DOMAIN events : events[s] > id) \in BOOLEAN
    BY <2>2
  <2> QED BY <2>1, <2>2, <2>3
<1> HIDE DEF seq, id
<1>5. StreamTypes'
  BY <1>0, <1>3, <1>4 DEF StreamTypes, TeeOnly
<1>6. /\ \A j : Pending(j)' <=> Pending(j)
      /\ \A j : Streamed(j)' <=> Streamed(j)
  BY <1>0, <1>3 DEF Pending, Streamed, id
<1>7. \A j : Unwritten(j)' <=> Unwritten(j) /\ j # id
  <2>1. \A q \in Publishers : sending[q].pc = "append" /\ sending[q].id = id => q = p
    BY <1>0 DEF SentOnce, id
  <2> QED BY <1>0, <1>3, <2>1 DEF Unwritten, id
<1>8. SentOnce'
  <2>1. \A q \in Publishers : /\ sending'[q].id = sending[q].id
                              /\ sending'[q].pc # "idle" <=> sending[q].pc # "idle"
    BY <1>0, <1>3 DEF id
  <2>2. Ids' = Ids /\ UNCHANGED stream
    BY <1>0 DEF Ids, TeeOnly
  <2> QED BY <1>0, <1>6, <2>1, <2>2 DEF SentOnce
<1>9. TableOK'
  <2>1. PICK b \in Nat : DOMAIN events \subseteq 1..b
    BY <1>0 DEF TableOK
  <2>2. PICK c \in Nat : b <= c /\ seq <= c
    BY <1>1
  <2>3. DOMAIN events' \subseteq 1..c
    BY <1>1, <1>2, <2>1, <2>2
  <2>4. \A s \in DOMAIN events' : events'[s] \in Ids /\ emitted[events'[s]].seq = s
    BY <1>0, <1>1, <1>2 DEF TableOK, seq
  <2> QED BY <1>0, <2>3, <2>4 DEF TableOK, TeeOnly, Ids
<1>10. build.n <= 1 => FirstBuild'
  BY <1>0, <1>3, TeeKeepsFirst
<1>11. ASSUME build.n <= 1, ~faults.lost PROVE NothingLost'
  <2>0. FirstBuild /\ NothingLost
    BY <1>11 DEF RunSide
  <2>1. PICK run \in Nat : run = seqNext.run /\ run = seqNext'.run
    BY <1>0 DEF StreamTypes, TeeOnly
  <2>2. CASE id <= run
    <3>1. seq = id /\ id \in 1..run
      BY <1>1, <2>0, <2>1, <2>2 DEF FirstBuild, Ids, seq
    <3>2. Unwritten(id)
      BY <1>0 DEF Unwritten, id
    <3>3. id \notin DOMAIN events
      BY <2>0, <2>1, <3>1, <3>2 DEF NothingLost
    <3>4. \A s \in DOMAIN events' : s \in 1..run /\ events'[s] = s
      BY <1>2, <2>0, <2>1, <3>1, <3>3 DEF NothingLost
    <3>5. \A j \in 1..run : Unwritten(j)' <=> j \notin DOMAIN events'
      BY <1>2, <1>7, <2>0, <2>1, <3>1 DEF NothingLost
    <3>6. \A j \in Ids : Pending(j) \/ Streamed(j)
      BY <2>0 DEF NothingLost
    <3>7. build.pc \in {"paused", "ended"} =>
            \A j \in 1..run : j < run =>
              /\ Streamed(j) /\ j \in DOMAIN events'
              /\ \A k, m \in 1..Len(stream) : stream[k] = run /\ stream[m] = j => m < k
      BY <1>2, <2>0, <2>1 DEF NothingLost
    <3> QED BY <1>0, <1>6, <2>1, <3>4, <3>5, <3>6, <3>7 DEF NothingLost, TeeOnly, Ids
  <2>3. CASE ~(id <= run)
    <3>1. id > run /\ seq < run
      BY <1>1, <2>0, <2>1, <2>3 DEF FirstBuild, Ids, seq
    <3>2. build.pc \in {"paused", "ended"}
      <4>1. PICK L \in Nat : L = Len(emitted) /\ id <= L
        BY <1>0, <1>1 DEF StreamTypes, Ids
      <4>2. PICK a \in Nat : a = seqNext.audit /\ L = run + a
        BY <1>0, <2>0, <2>1, <4>1 DEF StreamTypes, FirstBuild
      <4>3. a # 0
        BY <1>1, <3>1, <4>1, <4>2 DEF Ids
      <4>4. build.pc \in {"none", "running", "paused", "ended"}
        BY <1>0 DEF StreamTypes
      <4> QED BY <2>0, <4>2, <4>3, <4>4 DEF FirstBuild
    <3>3. seq \in 1..run
      BY <1>1, <3>1
    <3>4. seq \in DOMAIN events
      BY <2>0, <2>1, <3>1, <3>2, <3>3 DEF NothingLost
    <3>5. DOMAIN events' = DOMAIN events /\ \A s \in DOMAIN events : events'[s] = events[s]
      BY <1>2, <3>4
    <3>6. \A j \in 1..run : Unwritten(j)' <=> Unwritten(j)
      BY <1>1, <1>7, <3>1 DEF Ids
    <3>7. \A s \in DOMAIN events' : s \in 1..run /\ events'[s] = s
      BY <2>0, <2>1, <3>5 DEF NothingLost
    <3>8. \A j \in Ids : Pending(j) \/ Streamed(j)
      BY <2>0 DEF NothingLost
    <3>9. \A j \in 1..run : Unwritten(j)' <=> j \notin DOMAIN events'
      BY <2>0, <2>1, <3>5, <3>6 DEF NothingLost
    <3>10. build.pc \in {"paused", "ended"} =>
            \A j \in 1..run : j < run =>
              /\ Streamed(j) /\ j \in DOMAIN events'
              /\ \A k, m \in 1..Len(stream) : stream[k] = run /\ stream[m] = j => m < k
      BY <2>0, <2>1, <3>5 DEF NothingLost
    <3> QED BY <1>0, <1>6, <2>1, <3>7, <3>8, <3>9, <3>10 DEF NothingLost, TeeOnly, Ids
  <2> QED BY <2>2, <2>3
<1>12. DOMAIN events \subseteq DOMAIN events'
  BY <1>2
<1>13. RunSide'
  BY <1>0, <1>4, <1>5, <1>8, <1>9, <1>10, <1>11 DEF RunSide, TeeOnly
<1> QED BY <1>7, <1>12, <1>13 DEF id

\* The envelope reaches the stream.
LEMMA PublishRuns ==
  ASSUME RunSide, NEW p \in Publishers, publish(p)
  PROVE  /\ RunSide'
         /\ Len(stream') = Len(stream) + 1 /\ \A k \in 1..Len(stream) : stream'[k] = stream[k]
         /\ \A j : Unwritten(j)' <=> Unwritten(j)
<1> DEFINE id == sending[p].id
<1>0. /\ StreamTypes /\ SentOnce /\ TableOK /\ TeeOnly /\ UNCHANGED <<events, faults>> /\ sending[p].pc = "xadd"
      /\ stream \in Seq(Nat) /\ stream' = Append(stream, id)
  BY DEF RunSide, publish, TeeOnly, StreamTypes
<1>1. id \in Ids /\ id \in Nat /\ ~Streamed(id)
  BY <1>0 DEF SentOnce, Ids
<1>2. /\ sending' \in [Publishers -> [pc: {"idle", "append", "xadd"}, id: Nat]]
      /\ sending'[p].pc = "idle"
      /\ \A q \in Publishers \ {p} : sending'[q] = sending[q]
  <2>1. sending' = [sending EXCEPT ![p] = NoFrame] /\ NoFrame.pc = "idle"
        /\ NoFrame \in [pc: {"idle", "append", "xadd"}, id: Nat]
    BY DEF publish, NoFrame
  <2> HIDE DEF NoFrame
  <2> QED BY <1>0, <2>1 DEF StreamTypes
<1>3. \A q \in Publishers \ {p} : sending[q].pc # "idle" => sending[q].id # id
  BY <1>0 DEF SentOnce
<1> HIDE DEF id
<1>4. PICK M \in Nat : M = Len(stream) /\ Len(stream') = M + 1 /\ stream'[M + 1] = id /\ stream' \in Seq(Nat)
                       /\ \A k \in 1..M : stream'[k] = stream[k]
  BY <1>0, <1>1
<1>5. StreamTypes'
  BY <1>0, <1>2, <1>4 DEF StreamTypes, TeeOnly
<1>6. \A j : Streamed(j)' <=> Streamed(j) \/ j = id
  BY <1>4 DEF Streamed
<1>7. \A j : Pending(j) <=> Pending(j)' \/ j = id
  BY <1>0, <1>2, <1>3 DEF Pending, id
<1>8. \A j : Unwritten(j)' <=> Unwritten(j)
  BY <1>0, <1>2 DEF Unwritten
<1>9. SentOnce'
  <2>1. \A q \in Publishers : sending'[q].pc # "idle" => q # p
    BY <1>2
  <2>2. \A q \in Publishers : sending'[q].pc # "idle" => sending'[q].id \in Ids /\ ~Streamed(sending'[q].id) /\ sending'[q].id # id
    BY <1>0, <1>2, <1>3, <2>1 DEF SentOnce
  <2>3. \A k \in 1..Len(stream') : stream'[k] \in Ids
    BY <1>0, <1>1, <1>4 DEF SentOnce
  <2>4. \A k \in 1..M : stream[k] # id
    BY <1>1, <1>4 DEF Streamed
  <2>5. ASSUME NEW k \in 1..(M + 1), NEW m \in 1..(M + 1), stream'[k] = stream'[m] PROVE k = m
    BY <1>0, <1>4, <2>4, <2>5 DEF SentOnce
  <2>6. \A q, r \in Publishers :
          sending'[q].pc # "idle" /\ sending'[r].pc # "idle" /\ sending'[q].id = sending'[r].id => q = r
    BY <1>0, <1>2, <2>1 DEF SentOnce
  <2> QED BY <1>0, <1>4, <1>6, <2>2, <2>3, <2>5, <2>6 DEF SentOnce, Ids, TeeOnly
<1>10. TableOK' /\ (build.n <= 1 => FirstBuild')
  BY <1>0, <1>2, TeeKeepsFirst DEF TableOK, TeeOnly, Ids
<1>11. ASSUME build.n <= 1, ~faults.lost PROVE NothingLost'
  <2>0. FirstBuild /\ NothingLost
    BY <1>11 DEF RunSide
  <2>1. PICK run \in Nat : run = seqNext.run /\ run = seqNext'.run
    BY <1>0 DEF StreamTypes, TeeOnly
  <2>2. \A j \in Ids : Pending(j)' \/ Streamed(j)'
    BY <1>6, <1>7, <2>0 DEF NothingLost
  <2>3. \A j \in 1..run : Unwritten(j)' <=> j \notin DOMAIN events
    BY <1>8, <2>0, <2>1 DEF NothingLost
  <2>4. \A s \in DOMAIN events : s \in 1..run /\ events[s] = s
    BY <2>0, <2>1 DEF NothingLost
  <2>5. ASSUME build.pc \in {"paused", "ended"}, NEW j \in 1..run, j < run
        PROVE  /\ Streamed(j)' /\ j \in DOMAIN events
               /\ \A k, m \in 1..(M + 1) : stream'[k] = run /\ stream'[m] = j => m < k
    <3>1. Streamed(j) /\ j \in DOMAIN events
          /\ \A k, m \in 1..M : stream[k] = run /\ stream[m] = j => m < k
      BY <1>4, <2>0, <2>1, <2>5 DEF NothingLost
    <3>2. id # j
      BY <1>1, <3>1
    <3>3. ASSUME NEW k \in 1..(M + 1), NEW m \in 1..(M + 1), stream'[k] = run, stream'[m] = j PROVE m < k
      <4>1. m \in 1..M
        BY <1>4, <3>2, <3>3
      <4>2. CASE k = M + 1
        BY <4>1, <4>2
      <4>3. CASE k \in 1..M
        BY <1>4, <3>1, <3>3, <4>1, <4>3
      <4> QED BY <4>2, <4>3
    <3> QED BY <1>6, <3>1, <3>3
  <2> QED BY <1>0, <1>4, <2>1, <2>2, <2>3, <2>4, <2>5 DEF NothingLost, TeeOnly, Ids
<1>12. RunSide'
  BY <1>0, <1>5, <1>9, <1>10, <1>11 DEF RunSide, TeeOnly
<1> QED BY <1>4, <1>8, <1>12

\* A write fails, and the run goes on.
LEMMA FailureRuns ==
  ASSUME RunSide, NEW p \in Publishers, AppendFails(p) \/ PublishFails(p)
  PROVE  RunSide' /\ TeeOnly /\ UNCHANGED <<events, stream>> /\ faults'.lost
<1>0. /\ StreamTypes /\ SentOnce /\ TableOK /\ TeeOnly /\ UNCHANGED <<events, stream>>
      /\ sending[p].pc \in {"append", "xadd"} /\ faults' = [faults EXCEPT !.lost = TRUE]
  BY DEF RunSide, AppendFails, PublishFails, TeeOnly
<1>1. faults' \in [lost: BOOLEAN, overtaken: BOOLEAN] /\ faults'.lost
  BY <1>0 DEF StreamTypes
<1>2. /\ sending' \in [Publishers -> [pc: {"idle", "append", "xadd"}, id: Nat]]
      /\ sending'[p].pc = "idle" \/ (sending'[p].pc = "xadd" /\ sending'[p].id = sending[p].id)
      /\ \A q \in Publishers \ {p} : sending'[q] = sending[q]
  <2>1. sending \in [Publishers -> [pc: {"idle", "append", "xadd"}, id: Nat]]
    BY <1>0 DEF StreamTypes
  <2>2. CASE AppendFails(p)
    <3>1. sending' = [sending EXCEPT ![p].pc = "xadd"]
      BY <2>2 DEF AppendFails
    <3> QED BY <2>1, <3>1
  <2>3. CASE PublishFails(p)
    <3>1. sending' = [sending EXCEPT ![p] = NoFrame] /\ NoFrame.pc = "idle"
          /\ NoFrame \in [pc: {"idle", "append", "xadd"}, id: Nat]
      BY <2>3 DEF PublishFails, NoFrame
    <3> HIDE DEF NoFrame
    <3> QED BY <2>1, <3>1
  <2> QED BY <2>2, <2>3
<1>3. StreamTypes'
  BY <1>0, <1>1, <1>2 DEF StreamTypes, TeeOnly
<1>4. \A q \in Publishers : sending'[q].pc # "idle" => sending[q].pc # "idle" /\ sending'[q].id = sending[q].id
  BY <1>0, <1>2
<1>5. SentOnce'
  BY <1>0, <1>4 DEF SentOnce, Streamed, Ids, TeeOnly
<1>6. TableOK' /\ (build.n <= 1 => FirstBuild')
  BY <1>0, <1>2, TeeKeepsFirst DEF TableOK, TeeOnly, Ids
<1> QED BY <1>0, <1>1, <1>3, <1>5, <1>6 DEF RunSide, TeeOnly

\* What a step of the run may do under a watcher's eyes: the envelopes and the
\* stream only grow, and order and writes do not get better.
RunGrows ==
  /\ UNCHANGED watcher
  /\ Len(emitted') >= Len(emitted) /\ \A i \in Ids : emitted'[i] = emitted[i]
  /\ Len(stream') >= Len(stream) /\ \A k \in 1..Len(stream) : stream'[k] = stream[k]
  /\ DOMAIN events \subseteq DOMAIN events'
  /\ InOrder1' => /\ InOrder1
                  /\ Following => \A j \in 1..watcher.min : Unwritten(j) => Unwritten(j)'

LEMMA RunKeepsWatcher ==
  ASSUME WatchInv, RunSide', RunGrows
  PROVE  WatchInv'
<1>0. /\ RunSide /\ watcher \in WatcherType /\ ShownOnce /\ NoneMissed
      /\ StreamTypes /\ SentOnce /\ StreamTypes'
  BY DEF WatchInv, RunSide
<1>1. PICK L \in Nat, LL \in Nat, M \in Nat, MM \in Nat :
         /\ L = Len(emitted) /\ LL = Len(emitted') /\ L <= LL
         /\ M = Len(stream) /\ MM = Len(stream') /\ M <= MM
  BY <1>0 DEF StreamTypes, RunGrows
<1>2. \A i \in Ids : i \in Ids' /\ emitted'[i] = emitted[i]
  BY <1>1 DEF Ids, RunGrows
<1>3. \A k \in 1..M : k \in 1..MM /\ stream'[k] = stream[k]
  BY <1>1 DEF RunGrows
<1>4. Following' = Following /\ ToReplay' = ToReplay /\ watcher' = watcher
  BY DEF Following, ToReplay, RunGrows
<1>5. ShownOnce'
  <2>1. watcher'.fresh => ~watcher'.twice
    BY <1>0, <1>4 DEF ShownOnce
  <2>0. \A j \in ToReplay' : j \in Ids'
    BY <1>0, <1>2, <1>4 DEF ShownOnce
  <2> SUFFICES ASSUME Following
               PROVE  /\ \A j \in watcher.seen : j \in Ids'
                      /\ \A j \in ToReplay : j \notin watcher.seen /\ emitted'[j].seq <= watcher.min
                      /\ \A i, k \in 1..Len(watcher.todo) : watcher.todo[i] = watcher.todo[k] => i = k
                      /\ \A j \in watcher.seen : \/ emitted'[j].seq <= watcher.min
                                                 \/ \E k \in 1..Len(stream') : k <= watcher.pos /\ stream'[k] = j
                      /\ watcher.pos <= Len(stream')
                      /\ watcher.pc = "replay" => watcher.pos = 0
                      /\ watcher.pc \in {"live", "done"} => watcher.todo = <<>>
    BY <1>4, <2>0, <2>1 DEF ShownOnce
  <2>2. /\ \A j \in watcher.seen : j \in Ids
        /\ \A j \in ToReplay : j \in Ids
        /\ \A j \in ToReplay : j \notin watcher.seen /\ emitted[j].seq <= watcher.min
        /\ \A i, k \in 1..Len(watcher.todo) : watcher.todo[i] = watcher.todo[k] => i = k
        /\ \A j \in watcher.seen : \/ emitted[j].seq <= watcher.min
                                   \/ \E k \in 1..Len(stream) : k <= watcher.pos /\ stream[k] = j
        /\ watcher.pos <= Len(stream)
        /\ watcher.pc = "replay" => watcher.pos = 0
        /\ watcher.pc \in {"live", "done"} => watcher.todo = <<>>
    BY <1>0 DEF ShownOnce
  <2>3. \A j \in watcher.seen : \/ emitted'[j].seq <= watcher.min
                                \/ \E k \in 1..Len(stream') : k <= watcher.pos /\ stream'[k] = j
    BY <1>1, <1>2, <1>3, <2>2
  <2>4. watcher.pos <= Len(stream')
    BY <1>0, <1>1, <2>2 DEF WatcherType
  <2> QED BY <1>2, <2>2, <2>3, <2>4
<1>6. NoneMissed'
  <2> SUFFICES ASSUME Following, InOrder1'
               PROVE  /\ watcher.min = 0 \/ watcher.min \in DOMAIN events'
                      /\ \A j \in 1..watcher.min : j \in watcher.seen \/ j \in ToReplay \/ Unwritten(j)'
                      /\ watcher.pc = "live" =>
                           \A k \in 1..Len(stream') :
                              k <= watcher.pos /\ emitted'[stream'[k]].seq > watcher.min => stream'[k] \in watcher.seen
                      /\ watcher.ended => \E r \in Ids' : emitted'[r].type = "result" /\ r <= watcher.min
                      /\ watcher.pc = "done" => ResultSeen'
    BY <1>4 DEF NoneMissed
  <2>1. InOrder1 /\ \A j \in 1..watcher.min : Unwritten(j) => Unwritten(j)'
    BY DEF RunGrows
  <2>2. /\ watcher.min = 0 \/ watcher.min \in DOMAIN events
        /\ \A j \in 1..watcher.min : j \in watcher.seen \/ j \in ToReplay \/ Unwritten(j)
        /\ watcher.pc = "live" =>
              \A k \in 1..Len(stream) :
                 k <= watcher.pos /\ emitted[stream[k]].seq > watcher.min => stream[k] \in watcher.seen
        /\ watcher.ended => \E r \in Ids : emitted[r].type = "result" /\ r <= watcher.min
        /\ watcher.pc = "done" => ResultSeen
    BY <1>0, <2>1 DEF NoneMissed
  <2>3. watcher.min = 0 \/ watcher.min \in DOMAIN events'
    BY <2>2 DEF RunGrows
  <2>4. ASSUME watcher.pc = "live", NEW k \in 1..Len(stream'), k <= watcher.pos,
               emitted'[stream'[k]].seq > watcher.min
        PROVE  stream'[k] \in watcher.seen
    <3>1. watcher.pos <= M /\ watcher.pos \in Nat
      BY <1>0, <1>1 DEF ShownOnce, WatcherType
    <3>2. k \in 1..M
      BY <1>1, <2>4, <3>1
    <3>3. stream'[k] = stream[k] /\ stream[k] \in Ids
      BY <1>0, <1>1, <1>3, <3>2 DEF SentOnce
    <3>4. emitted'[stream'[k]] = emitted[stream[k]]
      BY <1>2, <3>3
    <3> QED BY <1>1, <2>2, <2>4, <3>2, <3>3, <3>4
  <2>5. watcher.ended => \E r \in Ids' : emitted'[r].type = "result" /\ r <= watcher.min
    BY <1>2, <2>2
  <2>6. watcher.pc = "done" => ResultSeen'
    <3>1. ASSUME ResultSeen PROVE ResultSeen'
      <4>1. PICK r \in DOMAIN emitted : emitted[r].type = "result" /\ 1..r \subseteq watcher.seen
        BY <3>1 DEF ResultSeen
      <4>2. r \in Ids /\ DOMAIN emitted' = Ids'
        BY <1>0, <4>1 DEF StreamTypes, Ids
      <4>3. r \in DOMAIN emitted' /\ emitted'[r].type = "result"
        BY <1>2, <4>1, <4>2
      <4> QED BY <1>4, <4>1, <4>3 DEF ResultSeen
    <3> QED BY <2>2, <3>1
  <2> QED BY <2>1, <2>2, <2>3, <2>4, <2>5, <2>6
<1> QED BY <1>0, <1>4, <1>5, <1>6 DEF WatchInv

\* A step that makes an envelope.
LEMMA MadeGrows ==
  ASSUME WatchInv, NEW p, NEW s, NEW type, Made(p, s, type), p \in Publishers,
         UNCHANGED <<events, stream, faults, watcher>>, build'.n = build.n
  PROVE  RunGrows
<1>0. StreamTypes /\ SentOnce /\ TableOK
  BY DEF WatchInv, RunSide
<1>1. \A j : Unwritten(j) => Unwritten(j)'
  BY <1>0, MadeSends
<1>2. Len(emitted') >= Len(emitted) /\ Len(stream') >= Len(stream)
  BY <1>0 DEF Made, StreamTypes
<1>3. InOrder1' => InOrder1
  BY DEF InOrder1
<1> QED BY <1>1, <1>2, <1>3 DEF RunGrows, Made

LEMMA RunStepsKeep ==
  ASSUME WatchInv,
         \/ _default_graph_factory \/ filter_graph_event \/ _invoke_streaming \/ _flush_stream
         \/ \E p \in Sinks : _steering_event_sink(p)
  PROVE  WatchInv'
<1>0. RunSide /\ StreamTypes
  BY DEF WatchInv, RunSide
<1>1. CASE _default_graph_factory
  <2>1. RunSide' /\ build'.n = build.n + 1 /\ build.n \in Nat
    BY <1>0, <1>1, FactoryRuns
  <2>2. UNCHANGED <<emitted, sending, events, stream, faults, watcher>>
    BY <1>1 DEF _default_graph_factory
  <2>3. InOrder1' => InOrder1
    BY <2>1, <2>2 DEF InOrder1
  <2>4. \A j : Unwritten(j)' <=> Unwritten(j)
    BY <2>2 DEF Unwritten
  <2>5. Len(emitted) \in Nat /\ Len(stream) \in Nat
    BY <1>0 DEF StreamTypes
  <2>6. RunGrows
    BY <2>2, <2>3, <2>4, <2>5 DEF RunGrows
  <2> QED BY <2>1, <2>6, RunKeepsWatcher
<1>2. ASSUME NEW p \in Sinks \cup {"graph"}, build.pc = "running",
             seqNext.run < MaxFrames, Makes(p, seqNext.run + 1, "frame"),
             seqNext' = [seqNext EXCEPT !.run = @ + 1], UNCHANGED <<build, events, stream, faults, watcher>>
      PROVE  WatchInv'
  <2>1. p \in Publishers
    BY DEF Publishers
  <2>2. RunSide' /\ Made(p, seqNext.run + 1, "frame")
    BY <1>0, <1>2, <2>1, FrameRuns
  <2>3. RunGrows
    BY <1>2, <2>1, <2>2, MadeGrows
  <2> QED BY <2>2, <2>3, RunKeepsWatcher
<1>3. CASE filter_graph_event
  BY <1>2, <1>3 DEF filter_graph_event
<1>4. ASSUME NEW p \in Sinks, _steering_event_sink(p) PROVE WatchInv'
  BY <1>2, <1>4 DEF _steering_event_sink
<1>5. CASE _invoke_streaming
  <2>1. "graph" \in Publishers
    BY DEF Publishers
  <2>2. RunSide' /\ Made("graph", seqNext.run + 1, "result")
    BY <1>0, <1>5, ResultRuns
  <2>3. UNCHANGED <<events, stream, faults, watcher>> /\ build'.n = build.n
    BY <1>0, <1>5 DEF _invoke_streaming, StreamTypes
  <2>4. RunGrows
    BY <2>1, <2>2, <2>3, MadeGrows
  <2> QED BY <2>2, <2>4, RunKeepsWatcher
<1>6. CASE _flush_stream
  <2>1. "audit" \in Publishers
    BY DEF Publishers
  <2>2. RunSide' /\ Made("audit", seqNext.audit + 1, "frame")
    BY <1>0, <1>6, FlushRuns
  <2>3. UNCHANGED <<build, events, stream, faults, watcher>>
    BY <1>6 DEF _flush_stream
  <2>4. RunGrows
    BY <2>1, <2>2, <2>3, MadeGrows
  <2> QED BY <2>2, <2>4, RunKeepsWatcher
<1> QED BY <1>1, <1>3, <1>4, <1>5, <1>6

LEMMA TeeStepsKeep ==
  ASSUME WatchInv, NEW p \in Publishers, PublisherStep(p)
  PROVE  WatchInv'
<1>0. RunSide /\ StreamTypes /\ SentOnce /\ Len(emitted) \in Nat /\ Len(stream) \in Nat
  BY DEF WatchInv, RunSide, StreamTypes
<1>1. CASE append(p)
  <2>1. /\ RunSide' /\ DOMAIN events \subseteq DOMAIN events'
        /\ \A j : Unwritten(j)' <=> Unwritten(j) /\ j # sending[p].id
    BY <1>0, <1>1, AppendRuns
  <2>2. UNCHANGED <<build, emitted, stream, watcher>>
    BY <1>1 DEF append
  <2>3. faults'.lost = faults.lost
        /\ (~faults'.overtaken => ~faults.overtaken /\ \A s \in DOMAIN events : ~(events[s] > sending[p].id))
    <3>1. faults' = [faults EXCEPT !.overtaken = faults.overtaken \/ \E s \in DOMAIN events : events[s] > sending[p].id]
      BY <1>1 DEF append
    <3>2. faults \in [lost: BOOLEAN, overtaken: BOOLEAN]
      BY <1>0 DEF StreamTypes
    <3>3. faults'.lost = faults.lost /\ faults'.overtaken = (faults.overtaken \/ \E s \in DOMAIN events : events[s] > sending[p].id)
      BY <3>1, <3>2
    <3> QED BY <3>3
  <2>4. InOrder1' => InOrder1
    BY <2>2, <2>3 DEF InOrder1
  <2>5. ASSUME InOrder1', Following, NEW j \in 1..watcher.min, Unwritten(j) PROVE Unwritten(j)'
    <3> SUFFICES ASSUME j = sending[p].id PROVE FALSE
      BY <2>1, <2>5
    <3>1. InOrder1 /\ FirstBuild /\ NothingLost /\ NoneMissed
      BY <1>0, <2>4, <2>5 DEF InOrder1, RunSide, WatchInv
    <3>2. watcher.min \in Nat
      BY DEF WatchInv, WatcherType
    <3>3. watcher.min \in DOMAIN events
      BY <2>5, <3>1, <3>2 DEF NoneMissed
    <3>4. events[watcher.min] = watcher.min /\ watcher.min \in 1..seqNext.run
      BY <3>1, <3>3 DEF NothingLost
    <3>5. ~(watcher.min > j)
      BY <2>3, <2>5, <3>3, <3>4 DEF InOrder1
    <3>6. j = watcher.min
      BY <3>2, <3>5
    <3> QED BY <2>5, <3>1, <3>3, <3>4, <3>6 DEF NothingLost
  <2>6. RunGrows
    BY <1>0, <2>1, <2>2, <2>4, <2>5 DEF RunGrows
  <2> QED BY <2>1, <2>6, RunKeepsWatcher
<1>2. CASE publish(p)
  <2>1. /\ RunSide'
        /\ Len(stream') = Len(stream) + 1 /\ \A k \in 1..Len(stream) : stream'[k] = stream[k]
        /\ \A j : Unwritten(j)' <=> Unwritten(j)
    BY <1>0, <1>2, PublishRuns
  <2>2. UNCHANGED <<build, emitted, events, faults, watcher>>
    BY <1>2 DEF publish
  <2>3. RunGrows
    BY <1>0, <2>1, <2>2 DEF RunGrows, InOrder1
  <2> QED BY <2>1, <2>3, RunKeepsWatcher
<1>3. CASE AppendFails(p) \/ PublishFails(p)
  <2>1. RunSide' /\ TeeOnly /\ UNCHANGED <<events, stream>> /\ faults'.lost
    BY <1>0, <1>3, FailureRuns
  <2>2. UNCHANGED watcher
    BY <1>3 DEF AppendFails, PublishFails
  <2>3. ~InOrder1'
    BY <2>1 DEF InOrder1
  <2>4. RunGrows
    BY <1>0, <2>1, <2>2, <2>3 DEF RunGrows, TeeOnly
  <2> QED BY <2>1, <2>4, RunKeepsWatcher
<1> QED BY <1>1, <1>2, <1>3 DEF PublisherStep

LEMMA OnlyWatcher ==
  ASSUME WatchInv, WatcherOnly
  PROVE  /\ RunSide' /\ Ids' = Ids /\ (InOrder1' <=> InOrder1)
         /\ \A j : Unwritten(j)' <=> Unwritten(j)
<1>1. RunSide'
  BY DEF WatchInv, RunSide, StreamTypes, SentOnce, TableOK, FirstBuild, NothingLost, WatcherOnly, Ids, Pending,
         Unwritten, Streamed
<1>2. Ids' = Ids /\ (InOrder1' <=> InOrder1) /\ \A j : Unwritten(j)' <=> Unwritten(j)
  BY DEF WatcherOnly, Ids, InOrder1, Unwritten
<1> QED BY <1>1, <1>2

\* The ticket, and a client that leaves.
LEMMA NotFollowing ==
  ASSUME WatchInv, WatcherOnly, watcher' \in WatcherType, watcher'.pc = "off" \/ ~watcher'.fresh,
         watcher'.fresh => ~watcher'.twice, \A j \in ToReplay' : j \in Ids
  PROVE  WatchInv'
<1>1. RunSide' /\ Ids' = Ids
  BY OnlyWatcher
<1>2. ~Following'
  BY DEF Following
<1> QED BY <1>1, <1>2 DEF WatchInv, ShownOnce, NoneMissed

LEMMA TicketKeeps == ASSUME WatchInv, issue_ticket PROVE WatchInv'
<1>1. watcher \in WatcherType /\ watcher.pc = "off" /\ (watcher.fresh => ~watcher.twice) /\ WatcherOnly
  BY DEF WatchInv, ShownOnce, issue_ticket
<1>2. watcher' = [watcher EXCEPT !.ticket = TRUE]
  BY DEF issue_ticket
<1>3. watcher' \in WatcherType /\ watcher'.pc = "off" /\ watcher'.fresh = watcher.fresh /\ watcher'.twice = watcher.twice
  BY <1>1, <1>2 DEF WatcherType
<1>4. \A j \in ToReplay' : j \in Ids
  <2>1. watcher'.todo = watcher.todo
    BY <1>1, <1>2 DEF WatcherType
  <2> QED BY <2>1 DEF WatchInv, ShownOnce, ToReplay
<1> QED BY <1>1, <1>3, <1>4, NotFollowing

LEMMA LeavingKeeps == ASSUME WatchInv, WatcherLeaves PROVE WatchInv'
<1>1. watcher \in WatcherType /\ (watcher.fresh => ~watcher.twice) /\ WatcherOnly
  BY DEF WatchInv, ShownOnce, WatcherLeaves
<1>0. <<>> \in Seq(Nat) /\ Len(<<>>) = 0
  OBVIOUS
<1>2. PICK e \in Seq(Nat) : e = <<>> /\ Len(e) = 0
  BY <1>0
<1>3. watcher' = [watcher EXCEPT !.pc = "off", !.todo = e]
  BY <1>2 DEF WatcherLeaves
<1>4. watcher' \in WatcherType /\ watcher'.pc = "off" /\ watcher'.fresh = watcher.fresh /\ watcher'.twice = watcher.twice
  BY <1>1, <1>3 DEF WatcherType
<1>5. \A j \in ToReplay' : j \in Ids
  <2>1. watcher'.todo = e
    BY <1>1, <1>3 DEF WatcherType
  <2>2. 1..Len(e) = {}
    BY <1>2
  <2> QED BY <2>1, <2>2 DEF ToReplay
<1> QED BY <1>1, <1>4, <1>5, NotFollowing

\* A client opens the stream.
LEMMA OpeningKeeps == ASSUME WatchInv, stream_events PROVE WatchInv'
<1>0. watcher \in WatcherType /\ RunSide /\ TableOK /\ WatcherOnly /\ watcher.last \in Nat
  BY DEF WatchInv, RunSide, stream_events, WatcherType
<1>1. PICK last \in {0, watcher.last} :
        LET rows == list_after(last) IN
        watcher' = [watcher EXCEPT !.pc = "replay", !.ticket = FALSE, !.last = last, !.fresh = (last = 0),
                                   !.min = min_live_seq(last, rows), !.pos = 0, !.ended = FALSE,
                                   !.todo = [i \in DOMAIN rows |-> events[rows[i]]],
                                   !.seen = IF last = 0 THEN {} ELSE @, !.twice = FALSE]
  BY DEF stream_events
<1>2. last \in Nat
  BY <1>0
<1> DEFINE rows == list_after(last)
           todo == [i \in DOMAIN rows |-> events[rows[i]]]
           min  == min_live_seq(last, rows)
           seen == IF last = 0 THEN {} ELSE watcher.seen
<1>3. watcher' = [watcher EXCEPT !.pc = "replay", !.ticket = FALSE, !.last = last, !.fresh = (last = 0),
                                 !.min = min, !.pos = 0, !.ended = FALSE, !.todo = todo, !.seen = seen, !.twice = FALSE]
  BY <1>1
<1>4. PICK n \in Nat :
         /\ rows \in Seq(Nat) /\ Len(rows) = n
         /\ \A i \in 1..n : rows[i] \in DOMAIN events /\ rows[i] \in Nat
         /\ \A i, k \in 1..n : i < k => rows[i] < rows[k]
         /\ \A s \in DOMAIN events : n > 0 /\ s > last /\ s <= rows[n] => \E i \in 1..n : rows[i] = s
  BY <1>0, <1>2, RowsInOrder
<1> HIDE DEF rows
<1>5. todo \in Seq(Nat) /\ Len(todo) = n /\ \A i \in 1..n : todo[i] = events[rows[i]] /\ todo[i] \in Ids
  <2>1. DOMAIN rows = 1..n
    BY <1>4
  <2>2. \A i \in 1..n : events[rows[i]] \in Ids /\ events[rows[i]] \in Nat
    BY <1>0, <1>4 DEF TableOK, Ids
  <2> QED BY <1>4, <2>1, <2>2
<1>6. min \in Nat /\ (last = 0 => min = IF n = 0 THEN 0 ELSE rows[n])
  <2>1. n = 0 <=> rows = <<>>
    BY <1>4
  <2>2. CASE n = 0
    BY <1>2, <2>1, <2>2 DEF min_live_seq
  <2>3. CASE n # 0
    <3>1. n \in 1..n
      BY <2>3
    <3> QED BY <1>2, <1>4, <2>1, <2>3, <3>1 DEF min_live_seq
  <2> QED BY <2>2, <2>3
<1>7. seen \in SUBSET Nat
  BY <1>0 DEF WatcherType
<1> HIDE DEF todo, min
<1>8. watcher' \in WatcherType
  BY <1>0, <1>2, <1>3, <1>5, <1>6, <1>7 DEF WatcherType
<1>9. /\ watcher'.pc = "replay" /\ watcher'.fresh = (last = 0) /\ watcher'.min = min /\ watcher'.pos = 0
      /\ watcher'.ended = FALSE /\ watcher'.todo = todo /\ watcher'.seen = seen /\ watcher'.twice = FALSE
  BY <1>0, <1>3 DEF WatcherType
<1>t. \A j \in ToReplay' : j \in Ids
  BY <1>5, <1>9 DEF ToReplay
<1>10. CASE last # 0
  BY <1>0, <1>8, <1>9, <1>10, <1>t, NotFollowing
<1>11. CASE last = 0
  <2>1. RunSide' /\ Ids' = Ids /\ (InOrder1' <=> InOrder1) /\ \A j : Unwritten(j)' <=> Unwritten(j)
    BY <1>0, OnlyWatcher
  <2>2. seen = {} /\ min = IF n = 0 THEN 0 ELSE rows[n]
    BY <1>6, <1>11
  <2>3. \A j : j \in ToReplay' <=> \E i \in 1..n : todo[i] = j
    BY <1>5, <1>9 DEF ToReplay
  <2>4. ASSUME NEW i \in 1..n PROVE rows[i] <= min /\ emitted[todo[i]].seq = rows[i]
    <3>1. n # 0 /\ n \in 1..n /\ min = rows[n] /\ rows[i] \in Nat /\ rows[n] \in Nat
      BY <1>4, <2>2
    <3>2. i < n => rows[i] < rows[n]
      BY <1>4, <3>1
    <3>3. rows[i] <= min
      BY <1>4, <3>1, <3>2
    <3>4. emitted[todo[i]].seq = rows[i]
      BY <1>0, <1>4, <1>5 DEF TableOK
    <3> QED BY <3>3, <3>4
  <2>5. ASSUME NEW i \in 1..n, NEW k \in 1..n, todo[i] = todo[k] PROVE i = k
    <3>1. rows[i] = rows[k] /\ rows[i] \in Nat
      BY <1>4, <2>4, <2>5
    <3>2. ~(i < k) /\ ~(k < i)
      BY <1>4, <3>1
    <3> QED BY <1>4, <3>2
  <2>6. ShownOnce'
    <3>1. \A j \in ToReplay' : j \in Ids /\ emitted[j].seq <= min
      BY <1>5, <2>3, <2>4
    <3>2. emitted' = emitted /\ stream' = stream /\ 0 <= Len(stream)
      BY <1>0 DEF WatcherOnly, RunSide, StreamTypes
    <3>3. \A i, k \in 1..Len(watcher'.todo) : watcher'.todo[i] = watcher'.todo[k] => i = k
      BY <1>5, <1>9, <2>5
    <3> QED BY <1>9, <2>1, <2>2, <3>1, <3>2, <3>3 DEF ShownOnce
  <2>7. ASSUME InOrder1
        PROVE  /\ min = 0 \/ min \in DOMAIN events
               /\ \A j \in 1..min : (\E i \in 1..n : todo[i] = j) \/ Unwritten(j)
    <3>0. FirstBuild /\ NothingLost
      BY <1>0, <2>7 DEF RunSide, InOrder1
    <3>1. CASE n = 0
      BY <2>2, <3>1
    <3>2. CASE n # 0
      <4>1. n \in 1..n /\ min = rows[n] /\ min \in DOMAIN events
        BY <1>4, <2>2, <3>2
      <4>2. min \in 1..seqNext.run
        BY <3>0, <4>1 DEF NothingLost
      <4>3. ASSUME NEW j \in 1..min, ~Unwritten(j) PROVE \E i \in 1..n : todo[i] = j
        <5>1. seqNext.run \in Nat
          BY <1>0 DEF RunSide, StreamTypes
        <5>2. j \in 1..seqNext.run
          BY <4>2, <5>1
        <5>3. j \in DOMAIN events
          BY <3>0, <4>3, <5>2 DEF NothingLost
        <5>4. n > 0 /\ j > last /\ j <= rows[n]
          BY <1>6, <1>11, <3>2, <4>1
        <5>5. PICK i \in 1..n : rows[i] = j
          BY <1>4, <5>3, <5>4
        <5>6. todo[i] = events[j] /\ events[j] = j
          BY <1>5, <3>0, <5>3, <5>5 DEF NothingLost
        <5> QED BY <5>6
      <4> QED BY <4>1, <4>3
    <3> QED BY <3>1, <3>2
  <2>8. NoneMissed'
    <3>1. events' = events
      BY <1>0 DEF WatcherOnly
    <3> QED BY <1>9, <2>1, <2>3, <2>7, <3>1 DEF NoneMissed
  <2> QED BY <1>8, <2>1, <2>6, <2>8 DEF WatchInv
<1> QED BY <1>10, <1>11

\* Showing an envelope that was not shown.
LEMMA ShownFacts ==
  ASSUME NEW w \in WatcherType, NEW id \in Ids, StreamTypes
  PROVE  /\ Shown(w, id) \in WatcherType
         /\ Shown(w, id).seen = w.seen \cup {id} /\ Shown(w, id).twice = (w.twice \/ id \in w.seen)
         /\ Shown(w, id).pc = w.pc /\ Shown(w, id).fresh = w.fresh /\ Shown(w, id).min = w.min
         /\ Shown(w, id).todo = w.todo /\ Shown(w, id).pos = w.pos /\ Shown(w, id).ended = w.ended
<1>1. emitted[id].seq \in Nat /\ id \in Nat
  <2>1. emitted \in Seq(Frames) /\ id \in 1..Len(emitted)
    BY DEF StreamTypes, Ids
  <2>2. emitted[id] \in Frames
    BY <2>1
  <2> QED BY <2>1, <2>2 DEF Frames
<1> DEFINE t == w.twice \/ id \in w.seen
           z == w.seen \cup {id}
           l == emitted[id].seq
<1>2. t \in BOOLEAN /\ z \in SUBSET Nat /\ l \in Nat
  BY <1>1 DEF WatcherType
<1>3. Shown(w, id) = [w EXCEPT !.seen = z, !.twice = t, !.last = l]
  BY DEF Shown, WatcherType
<1> HIDE DEF t, z, l
<1>4. /\ Shown(w, id) \in WatcherType
      /\ Shown(w, id).seen = z /\ Shown(w, id).twice = t
      /\ Shown(w, id).pc = w.pc /\ Shown(w, id).fresh = w.fresh /\ Shown(w, id).min = w.min
      /\ Shown(w, id).todo = w.todo /\ Shown(w, id).pos = w.pos /\ Shown(w, id).ended = w.ended
  BY <1>2, <1>3 DEF WatcherType
<1> QED BY <1>4 DEF t, z

\* The next row of the replay is shown.
LEMMA ReplayKeeps == ASSUME WatchInv, Replay PROVE WatchInv'
<1>0. /\ watcher \in WatcherType /\ RunSide /\ StreamTypes /\ ShownOnce /\ NoneMissed /\ WatcherOnly
      /\ watcher.pc = "replay" /\ watcher.todo # <<>> /\ watcher.todo \in Seq(Nat)
  BY DEF WatchInv, RunSide, Replay, WatcherType
<1>1. PICK todo \in Seq(Nat), n \in Nat : todo = watcher.todo /\ n = Len(todo) /\ n > 0
  BY <1>0
<1>2. PICK id \in Nat, rest \in Seq(Nat) :
         /\ id = Head(todo) /\ id = todo[1] /\ rest = Tail(todo) /\ Len(rest) = n - 1
         /\ \A i \in 1..(n - 1) : rest[i] = todo[i + 1]
  <2>1. Head(todo) = todo[1] /\ todo[1] \in Nat /\ Tail(todo) \in Seq(Nat) /\ Len(Tail(todo)) = n - 1
    BY <1>1
  <2>2. \A i \in 1..(n - 1) : Tail(todo)[i] = todo[i + 1]
    BY <1>1
  <2> QED BY <2>1, <2>2
<1>3. id \in ToReplay /\ id \in Ids
  BY <1>0, <1>1, <1>2 DEF ToReplay, ShownOnce
<1> DEFINE s == Shown(watcher, id)
           en == s.ended \/ emitted[id].type = "result"
<1>4. /\ s \in WatcherType /\ s.seen = watcher.seen \cup {id} /\ s.twice = (watcher.twice \/ id \in watcher.seen)
      /\ s.pc = watcher.pc /\ s.fresh = watcher.fresh /\ s.min = watcher.min
      /\ s.todo = watcher.todo /\ s.pos = watcher.pos /\ s.ended = watcher.ended
  BY <1>0, <1>3, ShownFacts
<1>5. watcher' = [s EXCEPT !.todo = rest, !.ended = en]
  <2>1. watcher' = [s EXCEPT !.todo = Tail(s.todo), !.ended = s.ended \/ emitted[id].type = "result"]
    BY <1>1, <1>2 DEF Replay
  <2> QED BY <1>1, <1>2, <1>4, <2>1
<1>e. en \in BOOLEAN /\ (en <=> watcher.ended \/ emitted[id].type = "result")
  BY <1>4 DEF WatcherType
<1> HIDE DEF s, en
<1>6. /\ watcher' \in WatcherType /\ watcher'.seen = watcher.seen \cup {id}
      /\ watcher'.twice = (watcher.twice \/ id \in watcher.seen)
      /\ watcher'.pc = "replay" /\ watcher'.fresh = watcher.fresh /\ watcher'.min = watcher.min
      /\ watcher'.todo = rest /\ watcher'.pos = watcher.pos /\ watcher'.ended = en
  BY <1>0, <1>4, <1>5, <1>e DEF WatcherType
<1>7. RunSide' /\ Ids' = Ids /\ (InOrder1' <=> InOrder1) /\ \A j : Unwritten(j)' <=> Unwritten(j)
  BY <1>0, OnlyWatcher
<1>8. \A j : j \in ToReplay' <=> \E i \in 2..n : todo[i] = j
  <2>1. ToReplay' = {rest[i] : i \in 1..(n - 1)}
    BY <1>2, <1>6 DEF ToReplay
  <2>2. \A i \in 2..n : i - 1 \in 1..(n - 1) /\ rest[i - 1] = todo[i]
    BY <1>1, <1>2
  <2>3. \A i \in 1..(n - 1) : i + 1 \in 2..n /\ rest[i] = todo[i + 1]
    BY <1>1, <1>2
  <2>4. \A j : j \in ToReplay' <=> \E i \in 1..(n - 1) : rest[i] = j
    BY <2>1
  <2>5. ASSUME NEW j, NEW i \in 2..n, todo[i] = j PROVE \E k \in 1..(n - 1) : rest[k] = j
    BY <2>2, <2>5
  <2>6. ASSUME NEW j, NEW i \in 1..(n - 1), rest[i] = j PROVE \E k \in 2..n : todo[k] = j
    BY <2>3, <2>6
  <2> QED BY <2>4, <2>5, <2>6
<1>9. \A j : j \in ToReplay <=> j = id \/ j \in ToReplay'
  <2>1. \A i \in 1..n : i = 1 \/ i \in 2..n
    BY <1>1
  <2>2. \A i \in 2..n : i \in 1..n
    BY <1>1
  <2>3. \A j : j \in ToReplay <=> \E i \in 1..n : todo[i] = j
    BY <1>1 DEF ToReplay
  <2>4. 1 \in 1..n
    BY <1>1
  <2>5. ASSUME NEW j PROVE (\E i \in 1..n : todo[i] = j) <=> j = todo[1] \/ (\E i \in 2..n : todo[i] = j)
    BY <2>1, <2>2, <2>4
  <2> QED BY <1>2, <1>8, <2>3, <2>5
<1>10. Following' <=> Following
  BY <1>0, <1>6 DEF Following
<1>11. ShownOnce'
  <2>1. \A j \in ToReplay' : j \in Ids
    BY <1>0, <1>9 DEF ShownOnce
  <2>2. ASSUME watcher.fresh
        PROVE  /\ ~watcher'.twice
               /\ \A j \in watcher'.seen : j \in Ids
               /\ \A j \in ToReplay' : j \notin watcher'.seen /\ emitted[j].seq <= watcher.min
               /\ \A i, k \in 1..(n - 1) : rest[i] = rest[k] => i = k
               /\ \A j \in watcher'.seen : \/ emitted[j].seq <= watcher.min
                                           \/ \E k \in 1..Len(stream) : k <= watcher.pos /\ stream[k] = j
               /\ watcher.pos <= Len(stream) /\ watcher.pos = 0
    <3>0. Following
      BY <1>0, <2>2 DEF Following
    <3>1. /\ ~watcher.twice
          /\ \A j \in watcher.seen : j \in Ids
          /\ \A j \in ToReplay : j \notin watcher.seen /\ emitted[j].seq <= watcher.min
          /\ \A i, k \in 1..n : todo[i] = todo[k] => i = k
          /\ \A j \in watcher.seen : \/ emitted[j].seq <= watcher.min
                                     \/ \E k \in 1..Len(stream) : k <= watcher.pos /\ stream[k] = j
          /\ watcher.pos <= Len(stream) /\ watcher.pos = 0
      BY <1>0, <1>1, <2>2, <3>0 DEF ShownOnce
    <3>2. id \notin watcher.seen /\ emitted[id].seq <= watcher.min
      BY <1>3, <3>1
    <3>3. id \notin ToReplay'
      <4>1. \A i \in 2..n : todo[i] # todo[1]
        BY <1>1, <3>1
      <4> QED BY <1>2, <1>8, <4>1
    <3>4. \A i, k \in 1..(n - 1) : rest[i] = rest[k] => i = k
      <4> SUFFICES ASSUME NEW i \in 1..(n - 1), NEW k \in 1..(n - 1), rest[i] = rest[k] PROVE i = k
        OBVIOUS
      <4>1. i + 1 \in 1..n /\ k + 1 \in 1..n /\ todo[i + 1] = todo[k + 1]
        BY <1>1, <1>2
      <4>2. i + 1 = k + 1
        BY <3>1, <4>1
      <4> QED BY <4>2
    <3>5. \A j \in ToReplay' : j \notin watcher'.seen /\ emitted[j].seq <= watcher.min
      BY <1>6, <1>9, <3>1, <3>3
    <3>6. ~watcher'.twice
      BY <1>6, <3>1, <3>2
    <3> QED BY <1>3, <1>6, <3>1, <3>2, <3>4, <3>5, <3>6
  <2>3. emitted' = emitted /\ stream' = stream
    BY <1>0 DEF WatcherOnly
  <2>4. Len(watcher'.todo) = n - 1
    BY <1>2, <1>6
  <2> QED BY <1>6, <1>7, <2>1, <2>2, <2>3, <2>4 DEF ShownOnce, Following
<1>12. NoneMissed'
  <2> SUFFICES ASSUME Following, InOrder1
               PROVE  /\ watcher.min = 0 \/ watcher.min \in DOMAIN events
                      /\ \A j \in 1..watcher.min : j \in watcher'.seen \/ j \in ToReplay' \/ Unwritten(j)
                      /\ en => \E r \in Ids : emitted[r].type = "result" /\ r <= watcher.min
    <3>1. emitted' = emitted /\ events' = events
      BY <1>0 DEF WatcherOnly
    <3> QED BY <1>6, <1>7, <1>10, <3>1 DEF NoneMissed
  <2>1. /\ watcher.min = 0 \/ watcher.min \in DOMAIN events
        /\ \A j \in 1..watcher.min : j \in watcher.seen \/ j \in ToReplay \/ Unwritten(j)
        /\ watcher.ended => \E r \in Ids : emitted[r].type = "result" /\ r <= watcher.min
    BY <1>0 DEF NoneMissed
  <2>2. ASSUME emitted[id].type = "result" PROVE id <= watcher.min
    <3>1. emitted[id].seq <= watcher.min
      BY <1>0, <1>3 DEF ShownOnce
    <3>2. FirstBuild /\ seqNext.run \in Nat
      BY <1>0 DEF RunSide, InOrder1, StreamTypes
    <3>3. id = seqNext.run /\ id \in 1..seqNext.run
      BY <1>3, <2>2, <3>2 DEF FirstBuild, Ids
    <3>4. emitted[id].seq = id
      BY <3>2, <3>3 DEF FirstBuild
    <3> QED BY <3>1, <3>4
  <2> QED BY <1>3, <1>6, <1>9, <1>e, <2>1, <2>2
<1> QED BY <1>6, <1>7, <1>11, <1>12 DEF WatchInv

\* Nothing before the result is still being written.
LEMMA ResultIsLast ==
  ASSUME RunSide, InOrder1, NEW r \in Ids, emitted[r].type = "result"
  PROVE  /\ build.pc \in {"paused", "ended"} /\ r = seqNext.run /\ r \in Nat
         /\ \A j \in 1..r : j < r => ~Unwritten(j)
<1>1. FirstBuild /\ NothingLost /\ StreamTypes /\ seqNext.run \in Nat
  BY DEF RunSide, InOrder1, StreamTypes
<1>2. build.pc \in {"paused", "ended"} /\ r = seqNext.run
  BY <1>1 DEF FirstBuild
<1>3. ASSUME NEW j \in 1..r, j < r PROVE ~Unwritten(j)
  BY <1>1, <1>2, <1>3 DEF NothingLost
<1> QED BY <1>1, <1>2, <1>3

LEMMA ReplayEndKeeps == ASSUME WatchInv, ReplayEnds PROVE WatchInv'
<1>0. /\ watcher \in WatcherType /\ RunSide /\ StreamTypes /\ ShownOnce /\ NoneMissed /\ WatcherOnly
      /\ watcher.pc = "replay" /\ watcher.todo = <<>>
  BY DEF WatchInv, RunSide, ReplayEnds
<1>1. PICK pc \in {"live", "done"} : watcher' = [watcher EXCEPT !.pc = pc] /\ (pc = "done" => watcher.ended)
  BY DEF ReplayEnds
<1>2. /\ watcher' \in WatcherType /\ watcher'.seen = watcher.seen /\ watcher'.twice = watcher.twice
      /\ watcher'.pc = pc /\ watcher'.fresh = watcher.fresh /\ watcher'.min = watcher.min
      /\ watcher'.todo = watcher.todo /\ watcher'.pos = watcher.pos /\ watcher'.ended = watcher.ended
  BY <1>0, <1>1 DEF WatcherType
<1>3. RunSide' /\ Ids' = Ids /\ (InOrder1' <=> InOrder1) /\ \A j : Unwritten(j)' <=> Unwritten(j)
  BY <1>0, OnlyWatcher
<1>4. emitted' = emitted /\ stream' = stream /\ events' = events
  BY <1>0 DEF WatcherOnly
<1>5. (Following' <=> Following) /\ ToReplay' = ToReplay
  BY <1>0, <1>2 DEF Following, ToReplay
<1>6. ShownOnce'
  BY <1>0, <1>2, <1>3, <1>4, <1>5 DEF ShownOnce
<1>7. NoneMissed'
  <2> SUFFICES ASSUME Following, InOrder1 PROVE NoneMissed'
    BY <1>3, <1>5 DEF NoneMissed
  <2>1. /\ watcher.min = 0 \/ watcher.min \in DOMAIN events
        /\ \A j \in 1..watcher.min : j \in watcher.seen \/ j \in ToReplay \/ Unwritten(j)
        /\ watcher.ended => \E r \in Ids : emitted[r].type = "result" /\ r <= watcher.min
    BY <1>0 DEF NoneMissed
  <2>2. watcher.pos = 0
    BY <1>0 DEF ShownOnce
  <2>3. \A k \in 1..Len(stream) : ~(k <= watcher.pos)
    BY <2>2
  <2>4. ASSUME pc = "done" PROVE ResultSeen'
    <3>1. PICK r \in Ids : emitted[r].type = "result" /\ r <= watcher.min
      BY <1>1, <2>1, <2>4
    <3>2. /\ r = seqNext.run /\ r \in Nat /\ build.pc \in {"paused", "ended"}
          /\ \A j \in 1..r : j < r => ~Unwritten(j)
      BY <1>0, <3>1, ResultIsLast
    <3>3. watcher.min \in Nat
      BY <1>0 DEF WatcherType
    <3>4. ToReplay = {}
      BY <1>0 DEF ToReplay
    <3>5. FirstBuild /\ NothingLost
      BY <1>0 DEF RunSide, InOrder1
    <3>6. watcher.min <= r
      <4>1. watcher.min = 0 \/ watcher.min \in 1..seqNext.run
        BY <2>1, <3>5 DEF NothingLost
      <4> QED BY <3>2, <3>3, <4>1
    <3>7. r \in DOMAIN events
      <4>1. watcher.min = r /\ r # 0
        BY <3>1, <3>2, <3>3, <3>6 DEF Ids
      <4> QED BY <2>1, <4>1
    <3>8. ~Unwritten(r)
      <4>1. r \in 1..seqNext.run
        BY <3>1, <3>2 DEF Ids
      <4> QED BY <3>5, <3>7, <4>1 DEF NothingLost
    <3>9. \A j \in 1..r : ~Unwritten(j)
      BY <3>2, <3>8
    <3>10. 1..r \subseteq watcher.seen
      <4>1. \A j \in 1..r : j \in 1..watcher.min
        BY <3>1, <3>2, <3>3
      <4> QED BY <2>1, <3>4, <3>9, <4>1
    <3>11. r \in DOMAIN emitted'
      BY <1>0, <1>4, <3>1 DEF StreamTypes, Ids
    <3> QED BY <1>2, <1>4, <3>1, <3>10, <3>11 DEF ResultSeen
  <2> QED BY <1>2, <1>3, <1>4, <1>5, <2>1, <2>3, <2>4 DEF NoneMissed
<1> QED BY <1>2, <1>3, <1>6, <1>7 DEF WatchInv

\* The first build's envelopes fit in the stream.
LEMMA StreamIsWhole ==
  ASSUME RunSide, InOrder1, Fits
  PROVE  Len(stream) <= StreamLimit
<1>0. StreamTypes /\ SentOnce /\ FirstBuild
  BY DEF RunSide, InOrder1
<1>1. PICK L \in Nat, M \in Nat, run \in Nat, a \in Nat :
        L = Len(emitted) /\ M = Len(stream) /\ run = seqNext.run /\ a = seqNext.audit
  BY <1>0 DEF StreamTypes
<1>2. stream \in Injection(1..M, 1..L)
  <2>1. stream \in [1..M -> 1..L]
    BY <1>0, <1>1 DEF StreamTypes, SentOnce, Ids
  <2>2. \A k, m \in 1..M : stream[k] = stream[m] => k = m
    BY <1>0, <1>1 DEF SentOnce
  <2> QED BY <2>1, <2>2 DEF Injection, IsInjective
<1>3. M <= L
  <2>1. IsFiniteSet(1..L) /\ Cardinality(1..L) = IF 1 > L THEN 0 ELSE L - 1 + 1
    BY FS_Interval
  <2>2. Cardinality(1..M) = IF 1 > M THEN 0 ELSE M - 1 + 1
    BY FS_Interval
  <2>3. Cardinality(1..M) <= Cardinality(1..L)
    BY <1>2, <2>1, FS_Injection
  <2>4. Cardinality(1..L) = L /\ Cardinality(1..M) = M
    BY <2>1, <2>2
  <2> QED BY <2>3, <2>4
<1>4. L = run + a /\ (a = 0 \/ a < run) /\ run <= MaxFrames
  BY <1>0, <1>1 DEF FirstBuild
<1>5. MaxFrames \in Nat /\ StreamLimit \in Nat /\ 2 * MaxFrames <= StreamLimit + 1
  BY StreamsAssumption DEF Fits
<1>6. L <= 2 * MaxFrames - 1 \/ L = 0
  BY <1>4, <1>5
<1>7. L <= StreamLimit
  BY <1>5, <1>6
<1> QED BY <1>1, <1>3, <1>5, <1>7

\* The watcher takes the next message of the stream.
LEMMA SubscribeKeeps == ASSUME WatchInv, Fits, subscribe PROVE WatchInv'
<1>0. /\ watcher \in WatcherType /\ RunSide /\ StreamTypes /\ SentOnce /\ ShownOnce /\ NoneMissed /\ WatcherOnly
      /\ watcher.pc = "live" /\ watcher.pos \in Nat /\ watcher.min \in Nat
  BY DEF WatchInv, RunSide, subscribe, WatcherType
<1>1. PICK M \in Nat : M = Len(stream)
  BY <1>0 DEF StreamTypes
<1>o. PICK oldest \in Nat : oldest = IF M > StreamLimit THEN M - StreamLimit ELSE 0
  BY <1>1, StreamsAssumption
<1>2. PICK pos \in Nat : pos = IF watcher.pos > oldest THEN watcher.pos ELSE oldest
  BY <1>0
<1>3. pos < M /\ watcher.pos <= pos
  BY <1>0, <1>1, <1>o, <1>2 DEF subscribe
<1>4. PICK id : id = stream[pos + 1] /\ pos + 1 \in 1..M /\ id \in Ids
  BY <1>0, <1>1, <1>3 DEF SentOnce
<1> DEFINE s == Shown(watcher, id)
           pc == IF emitted[id].type = "result" THEN "done" ELSE "live"
<1>5. watcher' = IF Skipped(emitted[id].seq) THEN [watcher EXCEPT !.pos = pos + 1]
                 ELSE [s EXCEPT !.pos = pos + 1, !.pc = pc]
  BY <1>1, <1>o, <1>2, <1>4 DEF subscribe
<1>6. RunSide' /\ Ids' = Ids /\ (InOrder1' <=> InOrder1) /\ \A j : Unwritten(j)' <=> Unwritten(j)
  BY <1>0, OnlyWatcher
<1>7. emitted' = emitted /\ stream' = stream /\ events' = events
  BY <1>0 DEF WatcherOnly
<1>8. /\ s \in WatcherType /\ s.seen = watcher.seen \cup {id} /\ s.twice = (watcher.twice \/ id \in watcher.seen)
      /\ s.pc = watcher.pc /\ s.fresh = watcher.fresh /\ s.min = watcher.min
      /\ s.todo = watcher.todo /\ s.pos = watcher.pos /\ s.ended = watcher.ended
  BY <1>0, <1>4, ShownFacts
<1>9. emitted[id].seq \in Nat /\ emitted[id].type \in {"frame", "result"}
  <2>1. emitted[id] \in Frames
    BY <1>0, <1>4 DEF StreamTypes, Ids
  <2> QED BY <2>1 DEF Frames
<1>10. pc \in {"live", "done"} /\ (pc = "done" <=> emitted[id].type = "result")
  OBVIOUS
<1> HIDE DEF s, pc
<1>11. InOrder1 => pos = watcher.pos
  <2> SUFFICES ASSUME InOrder1 PROVE pos = watcher.pos
    OBVIOUS
  <2>1. M <= StreamLimit /\ StreamLimit \in Nat
    BY <1>0, <1>1, StreamIsWhole, StreamsAssumption
  <2>2. oldest = 0
    BY <1>o, <2>1
  <2> QED BY <1>0, <1>2, <2>2
<1>12. CASE Skipped(emitted[id].seq)
  <2>1. watcher' = [watcher EXCEPT !.pos = pos + 1]
    BY <1>5, <1>12
  <2>2. /\ watcher' \in WatcherType /\ watcher'.seen = watcher.seen /\ watcher'.twice = watcher.twice
        /\ watcher'.pc = "live" /\ watcher'.fresh = watcher.fresh /\ watcher'.min = watcher.min
        /\ watcher'.todo = watcher.todo /\ watcher'.pos = pos + 1 /\ watcher'.ended = watcher.ended
    BY <1>0, <2>1 DEF WatcherType
  <2>3. (Following' <=> Following) /\ ToReplay' = ToReplay
    BY <1>0, <2>2 DEF Following, ToReplay
  <2>4. emitted[id].seq <= watcher.min
    BY <1>12 DEF Skipped
  <2>5. ShownOnce'
    <3>1. ASSUME Following, NEW j \in watcher.seen
          PROVE  \/ emitted[j].seq <= watcher.min
                 \/ \E k \in 1..Len(stream) : k <= pos + 1 /\ stream[k] = j
      <4>1. \/ emitted[j].seq <= watcher.min
            \/ \E k \in 1..Len(stream) : k <= watcher.pos /\ stream[k] = j
        BY <1>0, <3>1 DEF ShownOnce
      <4>2. \A k \in 1..Len(stream) : k <= watcher.pos => k <= pos + 1
        BY <1>0, <1>3
      <4> QED BY <4>1, <4>2
    <3>2. pos + 1 <= Len(stream)
      BY <1>1, <1>3
    <3> QED BY <1>0, <1>6, <1>7, <2>2, <2>3, <3>1, <3>2 DEF ShownOnce
  <2>6. NoneMissed'
    <3> SUFFICES ASSUME Following, InOrder1 PROVE NoneMissed'
      BY <1>6, <2>3 DEF NoneMissed
    <3>1. pos = watcher.pos
      BY <1>11
    <3>2. ASSUME NEW k \in 1..Len(stream), k <= pos + 1, emitted[stream[k]].seq > watcher.min
          PROVE  stream[k] \in watcher.seen
      <4>1. k # pos + 1
        BY <1>0, <1>4, <1>9, <2>4, <3>2
      <4>2. k <= watcher.pos
        BY <1>0, <3>1, <3>2, <4>1
      <4> QED BY <1>0, <3>2, <4>2 DEF NoneMissed
    <3> QED BY <1>0, <1>6, <1>7, <2>2, <2>3, <3>2 DEF NoneMissed
  <2> QED BY <1>6, <2>2, <2>5, <2>6 DEF WatchInv
<1>13. CASE ~Skipped(emitted[id].seq)
  <2>1. watcher' = [s EXCEPT !.pos = pos + 1, !.pc = pc]
    BY <1>5, <1>13
  <2>2. /\ watcher' \in WatcherType /\ watcher'.seen = watcher.seen \cup {id}
        /\ watcher'.twice = (watcher.twice \/ id \in watcher.seen)
        /\ watcher'.pc = pc /\ watcher'.fresh = watcher.fresh /\ watcher'.min = watcher.min
        /\ watcher'.todo = watcher.todo /\ watcher'.pos = pos + 1 /\ watcher'.ended = watcher.ended
    <3>1. PICK w \in WatcherType : w = s
      BY <1>8
    <3>2. PICK ps \in Nat : ps = pos + 1
      OBVIOUS
    <3>3. PICK c \in {"live", "done"} : c = pc
      BY <1>10
    <3>4. watcher' = [w EXCEPT !.pos = ps, !.pc = c]
      BY <2>1, <3>1, <3>2, <3>3
    <3>5. /\ watcher' \in WatcherType /\ watcher'.seen = w.seen /\ watcher'.twice = w.twice
          /\ watcher'.pc = c /\ watcher'.fresh = w.fresh /\ watcher'.min = w.min
          /\ watcher'.todo = w.todo /\ watcher'.pos = ps /\ watcher'.ended = w.ended
      BY <3>4 DEF WatcherType
    <3> QED BY <1>8, <3>1, <3>2, <3>3, <3>5
  <2>3. (Following' <=> Following) /\ ToReplay' = ToReplay
    BY <1>0, <1>10, <2>2 DEF Following, ToReplay
  <2>4. ~(emitted[id].seq <= watcher.min)
    BY <1>13 DEF Skipped
  <2>5. Following => id \notin watcher.seen
    <3> SUFFICES ASSUME Following, id \in watcher.seen PROVE FALSE
      OBVIOUS
    <3>1. \/ emitted[id].seq <= watcher.min
          \/ \E k \in 1..Len(stream) : k <= watcher.pos /\ stream[k] = id
      BY <1>0 DEF ShownOnce
    <3>2. PICK k \in 1..M : k <= watcher.pos /\ stream[k] = id
      BY <1>1, <2>4, <3>1
    <3>3. k = pos + 1
      BY <1>0, <1>1, <1>4, <3>2 DEF SentOnce
    <3> QED BY <1>0, <1>3, <3>2, <3>3
  <2>6. ShownOnce'
    <3>1. ASSUME Following, NEW j \in watcher.seen \cup {id}
          PROVE  \/ emitted[j].seq <= watcher.min
                 \/ \E k \in 1..Len(stream) : k <= pos + 1 /\ stream[k] = j
      <4>1. CASE j = id
        BY <1>1, <1>4, <4>1
      <4>2. CASE j \in watcher.seen
        <5>1. \/ emitted[j].seq <= watcher.min
              \/ \E k \in 1..Len(stream) : k <= watcher.pos /\ stream[k] = j
          BY <1>0, <3>1, <4>2 DEF ShownOnce
        <5>2. \A k \in 1..Len(stream) : k <= watcher.pos => k <= pos + 1
          BY <1>0, <1>3
        <5> QED BY <5>1, <5>2
      <4> QED BY <4>1, <4>2
    <3>2. pos + 1 <= Len(stream)
      BY <1>1, <1>3
    <3>3. Following => watcher.todo = <<>>
      BY <1>0 DEF ShownOnce
    <3>4. Following => ToReplay = {} /\ \A i, k \in 1..Len(watcher.todo) : watcher.todo[i] = watcher.todo[k] => i = k
      BY <3>3 DEF ToReplay
    <3>5. watcher'.fresh => ~watcher'.twice
      BY <1>0, <2>2, <2>5 DEF ShownOnce, Following
    <3>6. \A j \in ToReplay' : j \in Ids'
      BY <1>0, <1>6, <2>3 DEF ShownOnce
    <3>7. Following => \A j \in watcher'.seen : j \in Ids'
      BY <1>0, <1>4, <1>6, <2>2 DEF ShownOnce
    <3> QED BY <1>7, <1>10, <2>2, <2>3, <3>1, <3>2, <3>3, <3>4, <3>5, <3>6, <3>7 DEF ShownOnce
  <2>7. NoneMissed'
    <3> SUFFICES ASSUME Following, InOrder1 PROVE NoneMissed'
      BY <1>6, <2>3 DEF NoneMissed
    <3>1. pos = watcher.pos /\ watcher.todo = <<>>
      BY <1>0, <1>11 DEF ShownOnce
    <3>2. ASSUME NEW k \in 1..Len(stream), k <= pos + 1, emitted[stream[k]].seq > watcher.min
          PROVE  stream[k] \in watcher'.seen
      <4>1. CASE k = pos + 1
        BY <1>4, <2>2, <4>1
      <4>2. CASE k # pos + 1
        <5>1. k <= watcher.pos
          BY <1>0, <3>1, <3>2, <4>2
        <5> QED BY <1>0, <2>2, <3>2, <5>1 DEF NoneMissed
      <4> QED BY <4>1, <4>2
    <3>3. ASSUME pc = "done" PROVE ResultSeen'
      <4>1. emitted[id].type = "result"
        BY <1>10, <3>3
      <4>2. /\ build.pc \in {"paused", "ended"} /\ id = seqNext.run /\ id \in Nat
            /\ \A j \in 1..id : j < id => ~Unwritten(j)
        BY <1>0, <1>4, <4>1, ResultIsLast
      <4>3. FirstBuild /\ NothingLost
        BY <1>0 DEF RunSide, InOrder1
      <4>4. ASSUME NEW j \in 1..id, j < id PROVE j \in watcher.seen
        <5>1. Streamed(j) /\ \A k, m \in 1..Len(stream) : stream[k] = id /\ stream[m] = j => m < k
          BY <4>2, <4>3, <4>4 DEF NothingLost
        <5>2. PICK m \in 1..M : stream[m] = j
          BY <1>1, <5>1 DEF Streamed
        <5>3. m < pos + 1
          BY <1>1, <1>4, <5>1, <5>2
        <5>4. emitted[j].seq = j
          BY <4>2, <4>3, <4>4 DEF FirstBuild
        <5>5. CASE j > watcher.min
          <6>1. m <= watcher.pos
            BY <1>0, <3>1, <5>2, <5>3
          <6> QED BY <1>0, <1>1, <5>2, <5>4, <5>5, <6>1 DEF NoneMissed
        <5>6. CASE ~(j > watcher.min)
          <6>1. j \in 1..watcher.min
            BY <1>0, <4>2, <5>6
          <6>2. ToReplay = {}
            BY <3>1 DEF ToReplay
          <6> QED BY <1>0, <4>2, <4>4, <6>1, <6>2 DEF NoneMissed
        <5> QED BY <5>5, <5>6
      <4>5. 1..id \subseteq watcher'.seen
        <5>1. \A j \in 1..id : j = id \/ j < id
          BY <4>2
        <5> QED BY <2>2, <4>4, <5>1
      <4>6. id \in DOMAIN emitted'
        BY <1>0, <1>4, <1>7 DEF StreamTypes, Ids
      <4> QED BY <1>7, <4>1, <4>5, <4>6 DEF ResultSeen
    <3>4. \A j \in 1..watcher.min : j \in watcher'.seen \/ j \in ToReplay' \/ Unwritten(j)
      BY <1>0, <2>2, <2>3 DEF NoneMissed
    <3>5. /\ watcher.min = 0 \/ watcher.min \in DOMAIN events
          /\ watcher.ended => \E r \in Ids : emitted[r].type = "result" /\ r <= watcher.min
      BY <1>0 DEF NoneMissed
    <3> QED BY <1>6, <1>7, <1>10, <2>2, <2>3, <3>2, <3>3, <3>4, <3>5 DEF NoneMissed
  <2> QED BY <1>6, <2>2, <2>6, <2>7 DEF WatchInv
<1> QED BY <1>12, <1>13

LEMMA WatchStarts == StreamsInit => WatchInv
<1> SUFFICES ASSUME StreamsInit PROVE WatchInv
  OBVIOUS
<1>0. emitted = <<>> /\ stream = <<>> /\ <<>> \in Seq(Frames) /\ <<>> \in Seq(Nat) /\ Len(<<>>) = 0 /\ DOMAIN events = {}
  BY DEF StreamsInit
<1>1. StreamTypes
  <2>1. NoFrame \in [pc: {"idle", "append", "xadd"}, id: Nat]
    BY DEF NoFrame
  <2> QED BY <1>0, <2>1 DEF StreamsInit, StreamTypes
<1>2. Len(emitted) = 0 /\ Len(stream) = 0 /\ Ids = {} /\ 1..Len(stream) = {}
  BY <1>0 DEF Ids
<1>3. \A p \in Publishers : sending[p].pc = "idle"
  BY DEF StreamsInit, NoFrame
<1>4. SentOnce
  BY <1>2, <1>3 DEF SentOnce
<1>5. TableOK
  BY <1>0 DEF TableOK
<1>6. FirstBuild
  BY <1>2, <1>3, StreamsAssumption DEF FirstBuild, StreamsInit
<1>7. NothingLost
  BY <1>0, <1>2 DEF NothingLost, StreamsInit
<1>8. watcher \in WatcherType
  BY <1>0 DEF StreamsInit, NoWatcher, WatcherType
<1>9. watcher.pc = "off" /\ ~watcher.twice /\ Len(watcher.todo) = 0
  BY <1>0 DEF StreamsInit, NoWatcher
<1>10. ToReplay = {}
  BY <1>9 DEF ToReplay
<1> QED BY <1>1, <1>4, <1>5, <1>6, <1>7, <1>8, <1>9, <1>10 DEF WatchInv, RunSide, ShownOnce, NoneMissed, Following

LEMMA WatchSteps ==
  ASSUME Fits
  PROVE  WatchInv /\ [StreamsNext]_streamVars => WatchInv'
<1> SUFFICES ASSUME WatchInv, [StreamsNext]_streamVars PROVE WatchInv'
  OBVIOUS
<1>1. CASE UNCHANGED streamVars
  <2>1. RunSide' /\ Ids' = Ids /\ (InOrder1' <=> InOrder1) /\ \A j : Unwritten(j)' <=> Unwritten(j)
    BY <1>1, OnlyWatcher DEF streamVars, WatcherOnly
  <2>2. UNCHANGED <<emitted, stream, events, watcher>>
    BY <1>1 DEF streamVars
  <2>3. ShownOnce' /\ NoneMissed' /\ watcher' \in WatcherType
    BY <2>1, <2>2 DEF WatchInv, ShownOnce, NoneMissed, Following, ToReplay, ResultSeen
  <2> QED BY <2>1, <2>3 DEF WatchInv
<1>2. CASE StreamsNext
  BY <1>2, RunStepsKeep, TeeStepsKeep, TicketKeeps, OpeningKeeps, ReplayKeeps, ReplayEndKeeps, SubscribeKeeps,
     LeavingKeeps DEF StreamsNext
<1> QED BY <1>1, <1>2

\* For any number of callbacks, builds and frames, any replay limit, and with or
\* without failing writes, while the envelopes of one build fit in the stream: a
\* watcher without a Last-Event-ID is shown no envelope twice, and is told the first
\* build's result only after everything before it, if the writes kept their order
\* (stream_events of app/api/routes/workflows.py, the tee of
\* app/composition/workflows.py).
THEOREM WatchersSeeAllOnce ==
  ASSUME Fits
  PROVE  StreamsSpec => []WatcherSeesAllOnce
<1>1. WatchInv => WatcherSeesAllOnce
  BY DEF WatchInv, ShownOnce, NoneMissed, Following, InOrder1, ResultSeen, WatcherSeesAllOnce
<1> QED BY <1>1, WatchStarts, WatchSteps, PTL DEF StreamsSpec
=============================================================================
