\* The node and two review decisions; each process may die half way.
CONSTANTS
    Pages = {p1, p2}
    NoEvidence = {}
    Workers = {w1, w2, w3}
    MaxAttempts = 2
    BatchLimit = 10
    WriteConcurrency = 3
    EvaluationConcurrency = 3
    Decisions = {"approve", "request_changes", "reject"}
    CanFail = FALSE
    CanCrash = TRUE
    MaxOverruns = 0
SPECIFICATION Spec
SYMMETRY Symmetry
INVARIANTS PassedWasJudged NoDoubleRun NoAbandonedPage
