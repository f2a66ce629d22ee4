SPECIFICATION OperationsSpec
CONSTANTS
  Parts = {"verification"}
  Handler = {h1, h2}
  OperationName <- EveryOperation
  Process = {p1, p2}
  Audit = {1, 2}
  Request = {11, 12}
  LegacyAudits = {1, 2}
  LegacyRequests = {11, 12}
  MaxVersion = 4
  MaxCrashes = 2
  Account = {"admin", "alice"}
  Admin = "admin"
  Operator = "admin"
  Hash = {"h1", "h2"}
  Stake = {3}
  Response = {40, 99, 101}
  MaxAgents = 2
  MaxResponses = 2
  Auditor = {"ana", "ben"}
  PublishedUnder <- TwoPolicies
  MaxRecords = 3
  Report <- TwoFindings
  RawPolicies <- SentPolicies
  Challenges <- SentChallenges
  Content <- Bundles
  Passes <- PassingBlocks
  Signals <- Words
  Extracted <- Answers
  Blocks = {0, 5, 7}
  ChainId = 1
  Backends <- ThreeBackends
  MaxServed = 1
  RequestThread = {h1, h2}
  AuditId = {a1, a2}
  Family <- Families
  ScopeOf <- Scopes
  Setups <- DemoOnly
  Submissions <- TwoFixtures
  Implementation = {i1}
  MaxBlock = 2
  Presentable = {"k1", "k2"}
  Host = {"a", "b"}
  Environments <- SixEnvironments
  Limit = 2
  Window = 2
  TableLimit = 1
  MaxTime = 4
INVARIANT RunsAtTheSnapshot
CHECK_DEADLOCK FALSE
