\* Evaluation, memory, support, reviews, streams, audit, definitions and the process, one at a time.
SPECIFICATION Spec
CONSTANTS
  EvalRequests = {r1, r2}
  EvalKeys = {"k1"}
  EvalBodies = {"b", "live"}
  LiveBodies = {"live"}
  Concepts = {"x"}
  Datasets <- Golden
  MemoryIds = {m1, m2}
  CandidateRows = 2
  Curators = {k1, k2}
  CurationBatch = 2
  GroundingItems = 2
  CurationFails = TRUE
  Questions = {"s", "d"}
  PlatformOf <- PlatformsOf
  Orgs = {o1}
  NoOrg = NoOrg
  MaxDeliveries = 2
  MaxProcessed = 1
  MaxRetries = 1
  MaxDelay = 0
  ReviewCount = 4
  PageLimit = 1
  Reviewers = {u1}
  Channels = {"slack", "email"}
  Notifiers = {n1, n2}
  Sinks = {"progress"}
  MaxFrames = 3
  MaxBuilds = 1
  ReplayLimit = 2
  StreamLimit = 5
  WritesFail = FALSE
  Viewers = {v1}
  MaxChanges = 6
  DashLimit = 2
  MaxInvocations = 2
  MaxSteps = 2
  AuditFails = TRUE
  Defs = {"a"}
  DefaultDef = "def"
  Tasked = {"a"}
  RunCalls = {c1}
  SameKey = {"a"}
  Keys = {1}
  Hooks = {1}
  MaxRuns = 2
  AppJobs = {j1, j2}
  AppModes = {"api", "agentcore"}
  StepsFail = TRUE
INVARIANTS OneRunPerKey DecisionAppliedOnce OneReplyPerMessage WalkIsComplete NotifiedOnce WatcherSeesAllOnce DashboardIsExact AuditSurvivesTeardown StoppedHoldsNothing
CHECK_DEADLOCK FALSE
