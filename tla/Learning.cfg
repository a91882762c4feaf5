SPECIFICATION LearningSpec
CONSTANTS
  Handlers = {h1, h2}
  Requests = {r1, r2}
  MaxAttempts = 2
  MaxTokens = 2
  MaxExpiries = 1
  Callers = {c1, c2}
  MaxPlans = 3
  MaxTasks = 3
  MaxAdjustments = 2
  McpRequests = {q1, q2}
  Commands = {k1, k2}
  Tools = {t1}
  MaxToolRows = 1
  Curated = {d1}
  Own = {d2}
  Foreign = {d3}
  Passages = {1, 2, 3}
  SharedPassages = {1}
  LongPassages = {2}
  MaxIndexVersions = 2
  TopKs = {1, 2}
  MaxChunks = 3
  CharBudget = 5
  Separator = 1
  MinTokens = 4
  TokenLimit = 8
  FallbackTokens = 3
  Columns = 2
  MaxBlocks = 3
  MaxLines = 3
VIEW FocusView
SYMMETRY Symmetry
INVARIANTS
  GradedOnce
  ClaimKeptUnderLease
  AnswersMatchPayload
  PlanBasis
  WorkNotRepeated
  StartedIsConfirmed
  ContextFaithful
  StatusTruthful
  ChunksFaithful
  NoTinyLeft
CHECK_DEADLOCK FALSE
