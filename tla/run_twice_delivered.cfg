\* Two approvals of the same review.
SPECIFICATION Spec
CONSTANTS
  Workers = {w1, w2, w3}
  Sweepers = {s1}
  Limit <- TwoApprovals
  MaxAsks = 0
  Keys = {"own"}
  NeedsReview = TRUE
  CanCrash = FALSE
  CanRaise = FALSE
  CanLose = FALSE
INVARIANTS OneDelivery
SYMMETRY Symmetry
