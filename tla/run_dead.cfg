\* The worker of a run dies anywhere; the sweep must notice.
SPECIFICATION FairSpec
CONSTANTS
  Workers = {w1, w2}
  Sweepers = {s1}
  Limit <- Once
  MaxAsks = 0
  Keys = {"own"}
  NeedsReview = TRUE
  CanCrash = TRUE
  CanRaise = TRUE
  CanLose = FALSE
PROPERTIES DeadRunsAreFailed
