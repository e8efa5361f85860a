\* Connections, tokens, onboarding, extraction, documents, drafts and content, one at a time.
SPECIFICATION Spec
CONSTANTS
  ConnOrgs = {o1, o2}
  Installations = {"i1"}
  AccountOf <- OneAccount
  Workspace = "ws"
  Nonces = {n1, n2}
  Callbacks = {c1, c2}
  NoOrg = NoOrg
  TokenInstalls = {"i1"}
  TokenCallers = {k1, k2, k3}
  TokenTTL = 3
  TokenLife = 4
  MaxQuarters = 8
  Requests = {q1}
  InitRuns = {i1, i2}
  NoInitRun = NoInitRun
  RqModes = {TRUE, FALSE}
  PublicDocs = TRUE
  MaxInitFaults = 1
  Groups <- PageGroups
  ExtractWorkers = {x1, x2}
  PersistGroups = 2
  CreditBudget = 2
  DocPaths = {"p"}
  SyncJobs = {j1}
  Editors = {e1, e2}
  Versions = {"v1", "v2", "plain"}
  Chunkless = {"plain"}
  NoContent = NoContent
  MaxRevisions = 2
  SyncFails = TRUE
  DraftIds = {d1, d2}
  NoDraft = NoDraft
  Scopes <- DraftScopes
  Callers = {t1}
  DraftTexts = {"text", "blank"}
  BlankTexts = {"blank"}
  MaxChunks = 2
  Generations = {g1, g2}
  ContentReviews = {r1, r2}
  ContentChannels <- OneChannel
INVARIANTS OneLiveToken OnePipeline HandedOutRunHasJob EveryChunkAccounted EditsAreNotLost DecisionHasAuthor
PROPERTIES OwnerIsKept ImplementsArtifactStore
SYMMETRY ContentSymmetry
CHECK_DEADLOCK FALSE
