\* Answers to the gate and to interventions, a cancellation and the sweep around one run.
SPECIFICATION Spec
CONSTANTS
  Workers = {w1, w2, w3}
  Sweepers = {s1}
  Limit <- Answers
  MaxAsks = 1
  Keys = {"default", "own"}
  NeedsReview = TRUE
  CanCrash = FALSE
  CanRaise = TRUE
  CanLose = FALSE
SYMMETRY Symmetry
INVARIANTS ApprovalWasConfirmed GateIsNotBypassed InterventionResumedOnce
PROPERTIES SweepSparesFinished
