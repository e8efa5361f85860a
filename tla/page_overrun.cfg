\* Three request_changes calls share a run, one handler outlasts its lease.
CONSTANTS
    Pages = {p1}
    NoEvidence = {p1}
    Workers = {w1, w2, w3, w4}
    MaxAttempts = 1
    BatchLimit = 10
    WriteConcurrency = 3
    EvaluationConcurrency = 3
    Decisions = {"request_changes"}
    CanFail = FALSE
    CanCrash = FALSE
    MaxOverruns = 1
SPECIFICATION Spec
SYMMETRY Symmetry
PROPERTIES LateCompletionsLose
