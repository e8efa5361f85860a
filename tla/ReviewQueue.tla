---------------------------- MODULE ReviewQueue -----------------------------
(***************************************************************************)
(* The rows of the reviews table and the dashboard's paged list of the     *)
(* pending ones (persistence/repositories/reviews.py,                      *)
(* app/api/routes/reviews.py).  How a decision resumes its run is          *)
(* RunLifecycle's.                                                         *)
(***************************************************************************)
EXTENDS Naturals, FiniteSets

CONSTANTS
    ReviewCount,   \* reviews are 1..ReviewCount, in the order of (created_at, id)
    PageLimit      \* the list's limit

ASSUME ReviewQueueAssumption == ReviewCount \in Nat /\ PageLimit \in Nat \ {0}

Reviews == 1..ReviewCount

VARIABLES
    review,    \* status in reviews; "writing" is an insert under way
    pages      \* a client walking the pending reviews

queueVars == <<review, pages>>

NoWalk == [pc |-> "idle", cursor |-> 0, seen |-> {}, stable |-> {}, twice |-> FALSE]

QueueInit ==
    /\ review = [r \in Reviews |-> "none"]
    /\ pages  = NoWalk

-----------------------------------------------------------------------------
(* The rows.                                                               *)

\* created_at is taken before the insert is sent, so rows may become visible
\* in another order than the list's.
store_interrupt(r) ==
    /\ review[r] = "none"
    /\ r > 1 => review[r - 1] # "none"
    /\ review' = [review EXCEPT ![r] = "writing"]
    /\ UNCHANGED pages

InsertCommits(r) ==
    /\ review[r] = "writing"
    /\ review' = [review EXCEPT ![r] = "pending"]
    /\ UNCHANGED pages

\* A walk no longer owes the client a row that is not pending.
Leaves(r, st) ==
    /\ review[r] = "pending"
    /\ review' = [review EXCEPT ![r] = st]
    /\ pages'  = [pages EXCEPT !.stable = @ \ {r}]

record_decision(r) == \E st \in {"approved", "rejected", "needs_changes"} : Leaves(r, st)

\* One statement over every row past its expiry, whichever these are.
expire_old_reviews ==
    \E old \in SUBSET {r \in Reviews : review[r] = "pending"} \ {{}} :
        /\ review' = [r \in Reviews |-> IF r \in old THEN "expired" ELSE review[r]]
        /\ pages'  = [pages EXCEPT !.stable = @ \ old]

-----------------------------------------------------------------------------
(* The list of pending reviews, page by page.                              *)

\* One row more than the limit, after the cursor.
list_reviews(cursor) ==
    LET after == {r \in Reviews : review[r] = "pending" /\ r > cursor} IN
    {r \in after : Cardinality({x \in after : x < r}) < PageLimit + 1}

Newest(S) == CHOOSE r \in S : \A x \in S : x <= r

\* Mutant: the cursor is the row that was read to see whether there are more.
CursorOfExtra(found) == Newest(found)

\* The cursor is the last row of the page.
_encode_cursor(found) == Newest(found \ {Newest(found)})

StartWalk ==
    /\ pages.pc = "idle"
    /\ pages' = [NoWalk EXCEPT !.pc = "walk", !.stable = {r \in Reviews : review[r] = "pending"}]
    /\ UNCHANGED review

list_reviews_page ==
    LET found == list_reviews(pages.cursor)
        more  == Cardinality(found) > PageLimit
        page  == IF more THEN found \ {Newest(found)} ELSE found
    IN
    /\ pages.pc = "walk"
    /\ pages' = [pages EXCEPT !.seen = @ \cup page, !.twice = @ \/ page \cap pages.seen # {},
                              !.cursor = IF more THEN _encode_cursor(found) ELSE @,
                              !.pc = IF more THEN "walk" ELSE "end"]
    /\ UNCHANGED review

EndWalk ==
    /\ pages.pc = "end"
    /\ pages' = NoWalk
    /\ UNCHANGED review

-----------------------------------------------------------------------------

QueueNext ==
    \/ \E r \in Reviews : store_interrupt(r) \/ InsertCommits(r) \/ record_decision(r)
    \/ expire_old_reviews
    \/ StartWalk \/ list_reviews_page \/ EndWalk

QueueSpec == QueueInit /\ [][QueueNext]_queueVars

-----------------------------------------------------------------------------
(* Properties.                                                             *)

\* A walk through the pages shows every review that was pending from its start to
\* its end, and no review twice, while others are added, decided and expired.
WalkIsComplete == /\ pages.pc = "end" => pages.stable \subseteq pages.seen
                  /\ ~pages.twice
=============================================================================
