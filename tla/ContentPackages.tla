--------------------------- MODULE ContentPackages ---------------------------
(***************************************************************************)
(* The content packages of one source event: their generation, directly    *)
(* (workflows/content/content_generation.py) or by the content graph       *)
(* (orchestration/graphs/content_graph.py), and the review of what it      *)
(* produced (app/api/routes/content.py, and the graph's own gate), over    *)
(* the tables of persistence/repositories/content.py.                      *)
(*                                                                         *)
(* No method opens a transaction: every statement is a step, and a request *)
(* may end after any of them.                                              *)
(***************************************************************************)
EXTENDS Naturals, Sequences, FiniteSets

CONSTANTS
  Generations,     \* generations for the source event (a bound)
  ContentReviews,  \* review requests (a bound)
  ContentChannels  \* the channels a generation writes, in order

ASSUME ContentAssumption == ContentChannels # <<>>

VARIABLES
  pkg,      \* content_packages: status of the source event's package, or "none"
  variantRows, \* content_variants: channel, revision, and whether evaluation blocked it
  revisionRows, \* content_revisions: revision_number -> who made it
  decisions, \* content_review_events
  gen,      \* the generations, and what a human answered at the gate of each
  rev       \* the review requests

contentVars == <<pkg, variantRows, revisionRows, decisions, gen, rev>>

\* Without a runner a request generates directly; the review policy stops a
\* graph before its delivery ("gated") or lets it through.
GenerationKinds == {"direct", "gated", "ungated"}

ContentInitFor(kinds) ==
  /\ pkg = "none"
  /\ variantRows = {}
  /\ revisionRows = <<>>
  /\ decisions = {}
  /\ gen \in [Generations -> [pc : {"new"}, at : {1}, kind : kinds, answer : {"none"}]]
  /\ rev = [r \in ContentReviews |-> [pc |-> "new", decision |-> "none", number |-> 0]]

ContentInit == ContentInitFor(GenerationKinds)

-----------------------------------------------------------------------------
(* The statements of the repository.                                       *)

\* INSERT ... ON CONFLICT (source) DO UPDATE SET updated_at: an existing package
\* keeps its id and its status.
create_or_get == pkg' = IF pkg = "none" THEN "draft" ELSE pkg

\* ON CONFLICT (package_id, revision_number) DO NOTHING.  Numbers are never
\* skipped: a caller writes 1, or one more than a number it read.
save_revision(number, author) ==
  revisionRows' = IF number \in DOMAIN revisionRows THEN revisionRows ELSE Append(revisionRows, author)

update_status(status) == pkg' = IF pkg = "none" THEN pkg ELSE status

-----------------------------------------------------------------------------
(* run_content_generation, and the content graph: evaluate, persist,       *)
(* deliver.                                                                *)

GenStep(g, pc) == gen' = [gen EXCEPT ![g].pc = pc]

CreatePackage(g) ==
  /\ gen[g].pc = "new"
  /\ create_or_get
  /\ GenStep(g, "revision")
  /\ UNCHANGED <<variantRows, revisionRows, decisions, rev>>

\* The revision keeps the id made here even when the row was not inserted.
CreateRevision(g) ==
  /\ gen[g].pc = "revision"
  /\ save_revision(1, g)
  /\ GenStep(g, "variants")
  /\ UNCHANGED <<pkg, variantRows, decisions, rev>>

\* evaluate_content_variant is abstracted to its verdict.  The graph evaluates
\* first, and persists only when every variant passed (eval_passed).
save_variant(g) ==
  /\ gen[g].pc = "variants" /\ gen[g].at <= Len(ContentChannels)
  /\ \E blocked \in BOOLEAN :
       /\ blocked => gen[g].kind = "direct"
       /\ variantRows' = variantRows \cup
            {[channel |-> ContentChannels[gen[g].at], revision |-> g, blocked |-> blocked]}
  /\ gen' = [gen EXCEPT ![g].at = @ + 1]
  /\ UNCHANGED <<pkg, revisionRows, decisions, rev>>

ReviewReady(g) ==
  /\ gen[g].pc = "variants" /\ gen[g].at > Len(ContentChannels)
  /\ update_status("in_review")
  /\ GenStep(g, IF gen[g].kind = "direct" THEN "done" ELSE "gate")
  /\ UNCHANGED <<variantRows, revisionRows, decisions, rev>>

\* A human answers the paused graph, whatever the package says by then.
AnswerGate(g) ==
  /\ gen[g].pc = "gate" /\ gen[g].kind = "gated" /\ gen[g].answer = "none"
  /\ \E answer \in {"approve", "reject"} : gen' = [gen EXCEPT ![g].answer = answer]
  /\ UNCHANGED <<pkg, variantRows, revisionRows, decisions, rev>>

Deliver(g, open) ==
  /\ gen[g].pc = "gate" /\ open
  /\ update_status("approved")
  /\ GenStep(g, "delivered")
  /\ UNCHANGED <<variantRows, revisionRows, decisions, rev>>

\* ReviewGate before ContentApprovalNode, which keeps no review event.
ContentApproval(g) == Deliver(g, gen[g].kind = "gated" => gen[g].answer = "approve")

\* Any exception: the state is returned as failed, the rows stay.  A rejection
\* at the gate cancels the deliver node, which raises.
GenerationFails(g) ==
  /\ gen[g].pc \in {"revision", "variants", "gate"}
  /\ GenStep(g, "failed")
  /\ UNCHANGED <<pkg, variantRows, revisionRows, decisions, rev>>

-----------------------------------------------------------------------------
(* review_content.  No state of the package refuses a decision.            *)

Blocked == \E v \in variantRows : v.blocked

\* request_changes without a comment is refused before anything is written.
review_content(r) ==
  /\ rev[r].pc = "new" /\ pkg # "none"
  /\ \E d \in {"approve", "reject", "request_changes"} :
       /\ d = "approve" => ~Blocked
       /\ rev' = [rev EXCEPT ![r] =
                    [pc |-> IF d = "request_changes" THEN "revise" ELSE "event",
                     decision |-> d, number |-> Len(revisionRows) + 1]]
  /\ UNCHANGED <<pkg, variantRows, revisionRows, decisions, gen>>

RequestRevision(r) ==
  /\ rev[r].pc = "revise"
  /\ save_revision(rev[r].number, r)
  /\ rev' = [rev EXCEPT ![r].pc = "event"]
  /\ UNCHANGED <<pkg, variantRows, decisions, gen>>

StatusOf(decision) ==
  CASE decision = "approve" -> "approved" [] decision = "reject" -> "rejected" [] OTHER -> "draft"

\* Mutant of append_review_event: the package is decided before the event is kept.
DecidesFirst(r) ==
  /\ rev[r].pc = "event"
  /\ update_status(StatusOf(rev[r].decision))
  /\ rev' = [rev EXCEPT ![r].pc = "status"]
  /\ UNCHANGED <<variantRows, revisionRows, decisions, gen>>

append_review_event(r) ==
  /\ rev[r].pc = "event"
  /\ decisions' = decisions \cup {<<r, rev[r].decision>>}
  /\ rev' = [rev EXCEPT ![r].pc = "status"]
  /\ UNCHANGED <<pkg, variantRows, revisionRows, gen>>

Decide(r) ==
  /\ rev[r].pc = "status"
  /\ update_status(StatusOf(rev[r].decision))
  /\ rev' = [rev EXCEPT ![r].pc = "done"]
  /\ UNCHANGED <<variantRows, revisionRows, decisions, gen>>

RequestEnds(r) ==
  /\ rev[r].pc \in {"revise", "event", "status"}
  /\ rev' = [rev EXCEPT ![r].pc = "failed"]
  /\ UNCHANGED <<pkg, variantRows, revisionRows, decisions, gen>>

-----------------------------------------------------------------------------
GenerationStep(g) ==
  \/ CreatePackage(g) \/ CreateRevision(g) \/ save_variant(g) \/ ReviewReady(g)
  \/ AnswerGate(g) \/ ContentApproval(g) \/ GenerationFails(g)

ReviewStep(r) ==
  review_content(r) \/ RequestRevision(r) \/ append_review_event(r) \/ Decide(r) \/ RequestEnds(r)

ContentNext == (\E g \in Generations : GenerationStep(g)) \/ (\E r \in ContentReviews : ReviewStep(r))

ContentSpec == ContentInit /\ [][ContentNext]_contentVars

-----------------------------------------------------------------------------
\* Graph g was let through to its deliver node, by a human if the policy stops it.
LetThrough(g) == gen[g].pc = "delivered" /\ (gen[g].kind = "gated" => gen[g].answer = "approve")

\* A package that says "approved" or "rejected" was decided: by a review of the
\* route, whose event is appended before the status is written, so that a request
\* that ends between the two leaves no decision without one (review_content in
\* app/api/routes/content.py); or, approved only, by the gate of a content graph,
\* whose deliver node writes the status and no event (ContentApprovalNode).
DecisionHasAuthor ==
  pkg \in {"approved", "rejected"} =>
    \/ \E e \in decisions : StatusOf(e[2]) = pkg
    \/ pkg = "approved" /\ \E g \in Generations : LetThrough(g)
=============================================================================
