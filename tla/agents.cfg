\* Steering, guards, routing, catalogue, graphs and sessions, one at a time.
SPECIFICATION Spec
CONSTANTS
  Calls = {c1, c2}
  Agents = {"d", "w"}
  RoleOf <- Assigned
  GuidesPerTool = 1
  GuidesPerTurn = 1
  GuidesPerAgent = 1
  JudgeCacheLimit = 1
  StoreFails = TRUE
  JudgeHangs = TRUE
  PageWriters = {w1}
  Researchers = {r1}
  Files = {"f"}
  Listings = {"docs"}
  MaxReads = 1
  MaxToolCalls = 2
  MaxRepeats = 1
  MaxGuides = 1
  MaxBurst = 1
  MaxEntries = 1
  MaxTurns = 3
  Providers = {"a", "b", "c"}
  Priority <- Priorities
  Capable = {"a", "b", "c"}
  EnabledProviders = {"a", "b"}
  SpaceOf <- Spaces
  ModelCalls = {m1}
  ResolveCalls = {v1}
  EmbedCalls = {e1, e2}
  FailureThreshold = 1
  MaxFailovers = 2
  MaxAttemptsOf = 2
  Allowlists <- Deployed
  MaxDown = 2
  MaxCooling = 1
  GraphKinds = {"documentation", "unresearched", "issue", "support", "content", "feedback", "evaluation"}
  max_node_executions = 15
  max_iterations = 2
  WriteTasks = {t1}
  MaxWriteAttempts = 3
  MaxTracked = 1
  MaxClaims = 3
  MaxMessages = 6
  SessionTimesOut = TRUE
INVARIANTS GuideBudgetHolds PausedIsInInbox ResearchIsBounded FailoverIsContained RolesSurviveOutages NodeBudgetSuffices DeliveredWasJudged HistoryIsWhole
CHECK_DEADLOCK FALSE
