--------------------------- MODULE ReviewNotices ----------------------------
(***************************************************************************)
(* The reviewers (app/api/routes/reviewers.py) and their notification      *)
(* about one pending review (review/notifier.py,                           *)
(* persistence/repositories/review_notifications.py).  Several attempts of *)
(* the runner may notify about the same review.                            *)
(***************************************************************************)
EXTENDS Naturals

CONSTANTS
    Reviewers,     \* users who may be reviewers
    Channels,      \* notification platforms: "slack", "discord", "email"
    Notifiers      \* runner attempts that notify about the review

Legs == Channels \X Reviewers

VARIABLES
    undecided, \* the review's row is pending
    reviewer,  \* reviewers: whether each is active and its channels
    notice,    \* status in review_notification_deliveries
    inbox,     \* notifications a provider has confirmed, per recipient
    notifier   \* each attempt: the legs to do, the leg in hand

noticeVars == <<undecided, reviewer, notice, inbox, notifier>>

NoReviewer == [row |-> FALSE, active |-> FALSE, channels |-> {}]
NoNotifier == [pc |-> "idle", legs |-> {}, leg |-> <<>>]

NoticesInit ==
    /\ undecided = TRUE
    /\ reviewer  = [u \in Reviewers |-> NoReviewer]
    /\ notice    = [l \in Legs |-> "none"]
    /\ inbox     = [l \in Legs |-> 0]
    /\ notifier  = [k \in Notifiers |-> NoNotifier]

\* Somebody decides the review (RunLifecycle).
ReviewDecided ==
    /\ undecided
    /\ undecided' = FALSE
    /\ UNCHANGED <<reviewer, notice, inbox, notifier>>

-----------------------------------------------------------------------------
(* Reviewers.                                                              *)

ReviewersOnly == UNCHANGED <<undecided, notice, inbox, notifier>>

\* The indexes allow a user one row, whoever creates it.
create_reviewer(u, cs) ==
    /\ ~reviewer[u].row
    /\ reviewer' = [reviewer EXCEPT ![u] = [row |-> TRUE, active |-> TRUE, channels |-> cs]]

update_reviewer(u, r) ==
    /\ reviewer[u].row
    /\ reviewer' = [reviewer EXCEPT ![u] = r]

\* A user registers, or an administrator adds the user.
register_as_reviewer(u) == (\E cs \in SUBSET Channels : create_reviewer(u, cs)) /\ ReviewersOnly

CreateByAdmin(u) == (\E cs \in SUBSET Channels : create_reviewer(u, cs)) /\ ReviewersOnly

\* The reviewer may change the channels, an administrator is_active as well.
UpdateRoute(u) ==
    /\ \/ \E cs \in SUBSET Channels : update_reviewer(u, [reviewer[u] EXCEPT !.channels = cs])
       \/ update_reviewer(u, [reviewer[u] EXCEPT !.active = ~@])
    /\ ReviewersOnly

delete_reviewer(u) ==
    /\ reviewer[u].row
    /\ reviewer' = [reviewer EXCEPT ![u] = NoReviewer]
    /\ ReviewersOnly

-----------------------------------------------------------------------------
(* Notification.                                                           *)

NotifierOnly == UNCHANGED <<undecided, reviewer>>

\* The legs are those of the reviewers active now.
_targets_for(u) == {l \in Legs : l[2] = u /\ reviewer[u].active /\ l[1] \in reviewer[u].channels}

notify_reviewers(k) ==
    /\ notifier[k].pc = "idle" /\ undecided
    /\ notifier' = [notifier EXCEPT ![k] = [pc |-> "next", legs |-> UNION {_targets_for(u) : u \in Reviewers}, leg |-> <<>>]]
    /\ UNCHANGED <<notice, inbox>> /\ NotifierOnly

NextLeg(k) ==
    /\ notifier[k].pc = "next" /\ notifier[k].legs # {}
    /\ \E l \in notifier[k].legs :
          notifier' = [notifier EXCEPT ![k] = [pc |-> "claim", legs |-> notifier[k].legs \ {l}, leg |-> l]]
    /\ UNCHANGED <<notice, inbox>> /\ NotifierOnly

\* Mutant: a row that is claimed may be claimed again.
ClaimsAnyRow(k) ==
    /\ notifier[k].pc = "claim"
    /\ notice'   = [notice EXCEPT ![notifier[k].leg] = "claimed"]
    /\ notifier' = [notifier EXCEPT ![k].pc = "send"]
    /\ UNCHANGED inbox /\ NotifierOnly

\* An insert, or an update of a failed row; each is one statement.
claim_leg(k) ==
    /\ notifier[k].pc = "claim"
    /\ IF notice[notifier[k].leg] \in {"none", "failed"}
       THEN /\ notice'   = [notice EXCEPT ![notifier[k].leg] = "claimed"]
            /\ notifier' = [notifier EXCEPT ![k].pc = "send"]
       ELSE /\ notifier' = [notifier EXCEPT ![k].pc = "next"]
            /\ UNCHANGED notice
    /\ UNCHANGED inbox /\ NotifierOnly

Arrives(k) == inbox' = [inbox EXCEPT ![notifier[k].leg] = @ + 1]
NotifierGoes(k, pc) == notifier' = [notifier EXCEPT ![k].pc = pc]

SendSucceeds(k) ==
    /\ notifier[k].pc = "send"
    /\ Arrives(k) /\ NotifierGoes(k, "mark_sent")
    /\ UNCHANGED notice /\ NotifierOnly

\* Slack and Discord raise when the provider does not confirm the message.  One whose
\* confirmation was lost is in no inbox here, and reaches its reviewer again when retried.
SendRaises(k) ==
    /\ notifier[k].pc = "send"
    /\ NotifierGoes(k, "mark_failed")
    /\ UNCHANGED <<notice, inbox>> /\ NotifierOnly

\* send_email answers with ok = False, which nobody reads.
send_email(k) ==
    /\ notifier[k].pc = "send" /\ notifier[k].leg[1] = "email"
    /\ NotifierGoes(k, "mark_sent")
    /\ UNCHANGED <<notice, inbox>> /\ NotifierOnly

\* A mark that cannot be written ends the attempt.
mark_sent(k) ==
    /\ notifier[k].pc = "mark_sent"
    /\ notice' = [notice EXCEPT ![notifier[k].leg] = "sent"]
    /\ NotifierGoes(k, "next")
    /\ UNCHANGED inbox /\ NotifierOnly

mark_failed(k) ==
    /\ notifier[k].pc = "mark_failed"
    /\ notice' = [notice EXCEPT ![notifier[k].leg] = "failed"]
    /\ NotifierGoes(k, "next")
    /\ UNCHANGED inbox /\ NotifierOnly

\* The loop is over, or a statement fails, or the worker stops.
AttemptEnds(k) ==
    /\ notifier[k].pc # "idle"
    /\ notifier' = [notifier EXCEPT ![k] = NoNotifier]
    /\ UNCHANGED <<notice, inbox>> /\ NotifierOnly

-----------------------------------------------------------------------------

NotifierStep(k) ==
    \/ notify_reviewers(k) \/ NextLeg(k) \/ claim_leg(k) \/ SendSucceeds(k) \/ SendRaises(k)
    \/ send_email(k) \/ mark_sent(k) \/ mark_failed(k) \/ AttemptEnds(k)

NoticesNext ==
    \/ ReviewDecided
    \/ \E u \in Reviewers : register_as_reviewer(u) \/ CreateByAdmin(u) \/ UpdateRoute(u) \/ delete_reviewer(u)
    \/ \E k \in Notifiers : NotifierStep(k)

NoticesSpec == NoticesInit /\ [][NoticesNext]_noticeVars

-----------------------------------------------------------------------------
(* Properties.                                                             *)

\* "concurrent runner retries can never double-notify": however attempts overlap,
\* fail and are repeated, a notification is confirmed once for a recipient.
NotifiedOnce == \A l \in Legs : inbox[l] <= 1
=============================================================================
