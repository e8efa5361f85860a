\* One executor, two pages; any handler step may raise.
CONSTANTS
    Pages = {p1, p2}
    NoEvidence = {}
    Workers = {w1}
    MaxAttempts = 2
    BatchLimit = 10
    WriteConcurrency = 3
    EvaluationConcurrency = 3
    Decisions = {"approve", "request_changes", "reject"}
    CanFail = TRUE
    CanCrash = FALSE
    MaxOverruns = 0
SPECIFICATION Spec
SYMMETRY Symmetry
INVARIANTS AutomaticBudget OutcomeIsTrue
PROPERTIES PassedWasReviewed
