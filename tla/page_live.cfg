\* Every call ends, whatever fails and dies on the way.
CONSTANTS
    Pages = {p1}
    NoEvidence = {}
    Workers = {w1, w2}
    MaxAttempts = 2
    BatchLimit = 10
    WriteConcurrency = 3
    EvaluationConcurrency = 3
    Decisions = {"approve", "request_changes", "reject"}
    CanFail = TRUE
    CanCrash = TRUE
    MaxOverruns = 0
SPECIFICATION FairSpec
PROPERTIES EveryCallEnds
