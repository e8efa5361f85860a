\* Redeliveries, a retry and an approval; processes die and writes are lost.
SPECIFICATION Spec
CONSTANTS
  Workers = {w1, w2, w3}
  Sweepers = {}
  Limit <- Calls
  MaxAsks = 0
  Keys = {"own"}
  NeedsReview = TRUE
  CanCrash = TRUE
  CanRaise = FALSE
  CanLose = TRUE
SYMMETRY Symmetry
INVARIANTS OneRunPerEvent
