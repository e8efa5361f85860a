------------------------------ MODULE Support ------------------------------
(***************************************************************************)
(* Support questions from Slack and Discord: linking a workspace to an     *)
(* organisation (app/api/routes/slack.py, discord.py), the Discord gateway *)
(* (integrations/discord/gateway.py), the message handlers and their       *)
(* in-process duplicate guard (integrations/*/app.py), the worker queue    *)
(* (app/composition/rq_jobs.py), the run's claim, reply and receipt        *)
(* (workflows/runner.py, persistence/repositories/slack.py, discord.py),   *)
(* and the review buttons of both platforms.                               *)
(***************************************************************************)
EXTENDS Naturals, FiniteSets

CONSTANTS
    Questions,      \* messages that users post
    PlatformOf,     \* the platform each is posted on
    Orgs,           \* organisations
    NoOrg,
    MaxDeliveries,  \* times Slack hands over one message (app_mention and message, redelivery)
    MaxProcessed,   \* _MAX_PROCESSED_TS, _MAX_PROCESSED
    MaxRetries,     \* Retry(max=...)
    MaxDelay        \* how often the reconnect delay doubles before its cap

ASSUME SupportAssumption ==
    /\ PlatformOf \in [Questions -> {"slack", "discord"}]
    /\ MaxDeliveries \in Nat \ {0} /\ MaxProcessed \in Nat /\ MaxRetries \in Nat /\ MaxDelay \in Nat

Platforms  == {"slack", "discord"}
Deliveries == {d \in Questions \X (1..MaxDeliveries) : PlatformOf[d[1]] = "discord" => d[2] = 1}

VARIABLES
    gateway,    \* the Discord socket, its heartbeat task and the reconnect delay
    processed,  \* _processed_ts, _processed_ids
    delivery,   \* each handing over of a message, from its handler to its job
    claimed,    \* status of the message's row in events
    replies,    \* runs whose agent posted a reply to the asker
    receipt,    \* slack_workflows, discord_workflows by source message
    linked,     \* organisations whose row names the workspace or guild
    oauth,      \* authorisations under way
    button      \* a review's decision, and what the asker of it was shown

supportVars == <<gateway, processed, delivery, claimed, replies, receipt, linked, oauth, button>>

NoDelivery == [pc |-> "none", org |-> NoOrg, tries |-> 0]
NoOAuth    == [pc |-> "none", on |-> "slack"]

SupportInit ==
    /\ gateway   = [socket |-> "down", heartbeat |-> "none", delay |-> 0]
    /\ processed = [p \in Platforms |-> {}]
    /\ delivery  = [d \in Deliveries |-> NoDelivery]
    /\ claimed   = [q \in Questions |-> "none"]
    /\ replies   = [q \in Questions |-> 0]
    /\ receipt   = [q \in Questions |-> "none"]
    /\ linked    = [p \in Platforms |-> {}]
    /\ oauth     = [o \in Orgs |-> NoOAuth]
    /\ button    = [decision |-> "pending", shown |-> "none"]

-----------------------------------------------------------------------------
(* Linking.                                                                *)

LinkOnly == UNCHANGED <<gateway, processed, delivery, claimed, replies, receipt, button>>

\* The authorisation state is deleted as it is read.
consume_state(o, p, pc) == oauth[o].pc = "none" /\ oauth' = [oauth EXCEPT ![o] = [pc |-> pc, on |-> p]]

\* The owner is read before the link is written.
Unowned(o, p) == IF linked[p] \ {o} = {} THEN "save" ELSE "refused"

\* Slack's code exchange fails, or the workspace's owner decides.
slack_oauth_callback(o) ==
    /\ \E pc \in {"refused", Unowned(o, "slack")} : consume_state(o, "slack", pc)
    /\ UNCHANGED linked /\ LinkOnly

\* Discord's guild and bot checks come before the state is consumed.
discord_oauth_callback(o) ==
    /\ consume_state(o, "discord", Unowned(o, "discord"))
    /\ UNCHANGED linked /\ LinkOnly

\* slack_installations has one row per team, which the later writer takes.
async_save(o) ==
    /\ oauth[o].pc = "save" /\ oauth[o].on = "slack"
    /\ linked' = [linked EXCEPT !["slack"] = {o}]
    /\ oauth'  = [oauth EXCEPT ![o].pc = "done"]
    /\ LinkOnly

\* organizations has a guild column per organisation, without a unique index.
SaveGuild(o) ==
    /\ oauth[o].pc = "save" /\ oauth[o].on = "discord"
    /\ linked' = [linked EXCEPT !["discord"] = @ \cup {o}]
    /\ oauth'  = [oauth EXCEPT ![o].pc = "done"]
    /\ LinkOnly

unlink_discord(o) ==
    /\ o \in linked["discord"]
    /\ linked' = [linked EXCEPT !["discord"] = @ \ {o}]
    /\ UNCHANGED oauth /\ LinkOnly

delete_slack_installation(o) ==
    /\ o \in linked["slack"]
    /\ linked' = [linked EXCEPT !["slack"] = @ \ {o}]
    /\ UNCHANGED oauth /\ LinkOnly

-----------------------------------------------------------------------------
(* The Discord gateway.                                                    *)

GatewayOnly == UNCHANGED <<processed, delivery, claimed, replies, receipt, linked, oauth, button>>

Connect == /\ gateway.socket = "down"
           /\ gateway' = [gateway EXCEPT !.socket = "open"]
           /\ GatewayOnly

\* HELLO cancels the heartbeat of the last socket, starts one and identifies.
Hello == /\ gateway.socket = "open" /\ gateway.heartbeat # "current"
         /\ gateway' = [gateway EXCEPT !.heartbeat = "current"]
         /\ GatewayOnly

\* READY names the bot and resets the delay; it answers the identify.
Ready == /\ gateway.socket = "open" /\ gateway.heartbeat = "current"
         /\ gateway' = [gateway EXCEPT !.socket = "ready", !.delay = 0]
         /\ GatewayOnly

\* A reconnect request, an invalid session or a lost connection. The next
\* connection identifies again, so what was posted in between never arrives.
Disconnect ==
    /\ gateway.socket # "down"
    /\ gateway' = [socket |-> "down", delay |-> IF gateway.delay < MaxDelay THEN gateway.delay + 1 ELSE MaxDelay,
                   heartbeat |-> IF gateway.heartbeat = "current" THEN "stale" ELSE gateway.heartbeat]
    /\ GatewayOnly

\* A heartbeat on a closed socket ends its task.
_heartbeat_loop ==
    /\ gateway.heartbeat = "stale"
    /\ gateway' = [gateway EXCEPT !.heartbeat = "none"]
    /\ GatewayOnly

-----------------------------------------------------------------------------
(* The message handlers.                                                   *)

Advance(d, pc) == delivery' = [delivery EXCEPT ![d].pc = pc]

\* The guard is marked first; once over its limit it is emptied, its newest
\* entry included. An unsuitable message is dropped after that.
Marked(S, q) == IF Cardinality(S \cup {q}) > MaxProcessed THEN {} ELSE S \cup {q}

Receive(d, p) ==
    LET q == d[1] IN
    /\ PlatformOf[q] = p /\ delivery[d].pc = "none"
    /\ IF q \in processed[p]
       THEN Advance(d, "dropped") /\ UNCHANGED processed
       ELSE /\ processed' = [processed EXCEPT ![p] = Marked(@, q)]
            /\ Advance(d, "enrich") \/ Advance(d, "dropped")
    /\ UNCHANGED <<gateway, claimed, replies, receipt, linked, oauth, button>>

\* Dropped: nothing but the mention, or the runtime has not started.
_dispatch_message(d) == Receive(d, "slack")

\* Dropped: no mention of the bot, or outside the trigger channels.
handle_message_create(d) == gateway.socket = "ready" /\ Receive(d, "discord")

enrich_support_event(d) ==
    LET p == PlatformOf[d[1]] IN
    /\ delivery[d].pc = "enrich"
    /\ IF linked[p] = {} THEN Advance(d, "dropped")
       ELSE \E o \in linked[p] : delivery' = [delivery EXCEPT ![d].pc = "enqueue", ![d].org = o]
    /\ UNCHANGED <<gateway, processed, claimed, replies, receipt, linked, oauth, button>>

\* Redis may refuse; the handler raises and the guard keeps the message.
enqueue_support_event(d) ==
    /\ delivery[d].pc = "enqueue"
    /\ Advance(d, "queued") \/ Advance(d, "dropped")
    /\ UNCHANGED <<gateway, processed, claimed, replies, receipt, linked, oauth, button>>

-----------------------------------------------------------------------------
(* The run.                                                                *)

JobOnly == UNCHANGED <<gateway, processed, linked, oauth, button>>

\* Mutant: the insert takes over a row that is there.
ClaimsAgain(d) ==
    /\ delivery[d].pc = "queued"
    /\ claimed' = [claimed EXCEPT ![d[1]] = "running"]
    /\ Advance(d, "check")
    /\ UNCHANGED <<replies, receipt>> /\ JobOnly

\* The event id is made of the channel and the message, so every handing over
\* of a message makes the same claim.
try_claim(d) ==
    /\ delivery[d].pc = "queued"
    /\ IF claimed[d[1]] # "none"
       THEN Advance(d, "duplicate") /\ UNCHANGED claimed
       ELSE Advance(d, "check") /\ claimed' = [claimed EXCEPT ![d[1]] = "running"]
    /\ UNCHANGED <<replies, receipt>> /\ JobOnly

\* The newest row of the source message, one of a failed delivery too.
get_support_delivery_by_source(q) == receipt[q]

_existing_support_delivery(d) ==
    /\ delivery[d].pc = "check"
    /\ Advance(d, IF get_support_delivery_by_source(d[1]) # "none" THEN "duplicate" ELSE "graph")
    /\ UNCHANGED <<claimed, replies, receipt>> /\ JobOnly

\* The delivery agent posts the answer, with one call of its tool or with several.
PostReply(d) ==
    /\ delivery[d].pc = "graph"
    /\ replies' = [replies EXCEPT ![d[1]] = @ + 1]
    /\ Advance(d, "persist")
    /\ UNCHANGED <<claimed, receipt>> /\ JobOnly

\* A gap to document, or a reply that the platform refused.
NoReply(d) ==
    /\ delivery[d].pc = "graph"
    /\ Advance(d, "persist_failed") \/ Advance(d, "finish")
    /\ UNCHANGED <<claimed, replies, receipt>> /\ JobOnly

save_support_delivery(q, st) == receipt' = [receipt EXCEPT ![q] = st]

\* A receipt that cannot be saved is logged, and the run goes on.
_persist_support_delivery(d) ==
    /\ delivery[d].pc \in {"persist", "persist_failed"}
    /\ \/ save_support_delivery(d[1], IF delivery[d].pc = "persist" THEN "delivered" ELSE "failed")
       \/ UNCHANGED receipt
    /\ Advance(d, "finish")
    /\ UNCHANGED <<claimed, replies>> /\ JobOnly

FinishRun(d) ==
    /\ delivery[d].pc = "finish"
    /\ claimed' = [claimed EXCEPT ![d[1]] = "completed"]
    /\ Advance(d, "done")
    /\ UNCHANGED <<replies, receipt>> /\ JobOnly

\* A job that raises, or whose worker stops, is run again from its beginning.
JobPhases == {"check", "graph", "persist", "persist_failed", "finish"}

RetryJob(d) ==
    /\ delivery[d].pc \in JobPhases
    /\ IF delivery[d].tries < MaxRetries
       THEN delivery' = [delivery EXCEPT ![d].pc = "queued", ![d].tries = @ + 1]
       ELSE Advance(d, "dropped")
    /\ UNCHANGED <<claimed, replies, receipt>> /\ JobOnly

\* The API process restarts: handlers that have not enqueued are gone, the
\* guards are empty, the gateway is down.
RestartApi ==
    /\ processed' = [p \in Platforms |-> {}]
    /\ delivery'  = [d \in Deliveries |-> IF delivery[d].pc \in {"enrich", "enqueue"}
                                           THEN [delivery[d] EXCEPT !.pc = "dropped"] ELSE delivery[d]]
    /\ gateway'   = [socket |-> "down", heartbeat |-> "none", delay |-> 0]
    /\ oauth'     = [o \in Orgs |-> IF oauth[o].pc = "save" THEN [oauth[o] EXCEPT !.pc = "refused"] ELSE oauth[o]]
    /\ UNCHANGED <<claimed, replies, receipt, linked, button>>

-----------------------------------------------------------------------------
(* Review buttons.                                                         *)

Buttons   == {"approved", "rejected", "needs_changes"}
Decided(b) == IF b = "approved" THEN "approved" ELSE "rejected"

\* resume_review_decision is told whether the button was the approval, and
\* refuses a review that is decided.
_handle_review_action ==
    /\ button.decision = "pending"
    /\ \E b \in Buttons : button' = [decision |-> Decided(b), shown |-> "none"]
    /\ UNCHANGED <<gateway, processed, delivery, claimed, replies, receipt, linked, oauth>>

\* Discord's answer shows the button's own status.
handle_interactions ==
    /\ button.decision = "pending"
    /\ \E b \in Buttons : button' = [decision |-> Decided(b), shown |-> b]
    /\ UNCHANGED <<gateway, processed, delivery, claimed, replies, receipt, linked, oauth>>

-----------------------------------------------------------------------------

DeliveryStep(d) ==
    \/ _dispatch_message(d) \/ handle_message_create(d) \/ enrich_support_event(d) \/ enqueue_support_event(d)
    \/ try_claim(d) \/ _existing_support_delivery(d) \/ PostReply(d) \/ NoReply(d)
    \/ _persist_support_delivery(d) \/ FinishRun(d) \/ RetryJob(d)

SupportNext ==
    \/ \E d \in Deliveries : DeliveryStep(d)
    \/ \E o \in Orgs : \/ slack_oauth_callback(o) \/ discord_oauth_callback(o)
                      \/ async_save(o) \/ SaveGuild(o) \/ unlink_discord(o) \/ delete_slack_installation(o)
    \/ Connect \/ Hello \/ Ready \/ Disconnect \/ _heartbeat_loop
    \/ RestartApi \/ _handle_review_action \/ handle_interactions

SupportSpec == SupportInit /\ [][SupportNext]_supportVars

-----------------------------------------------------------------------------
(* Properties.                                                             *)

\* However often a message is handed over, the guard emptied, the process
\* restarted or the job retried, one run at most answers its asker.
OneReplyPerMessage == \A q \in Questions : replies[q] <= 1
=============================================================================
