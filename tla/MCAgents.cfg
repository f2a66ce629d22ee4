SPECIFICATION AgentsSpec
CONSTANTS
  Request = {1, 2}
  Target <- OneTarget
  Service = {"me", "you"}
  Handler = {h1, h2}
  RequiredStake = 1
  Filters <- RequestFilters
  Directories <- ThreeDirectories
  Publisher = "publisher"
  Buyer = "buyer"
  Stakes = {1, 2}
  MaxTransfers = 1
  MaxDrafts = 2
  MaxApiFaults = 1
  Self = "me"
  Terms <- RequestTerms
  Capacity = 1
  MaxAgentCrashes = 1
  PublishedClaim = {1, 2}
  Author <- Authors
  ReportedCount <- OneFinding
  MaxFindings = 2
  Overrides = {"none"}
  Personas <- Manifest
  Limit = 2
  MaxWatchFaults = 1
INVARIANTS
  MarketInvariant
  ParticipationInvariant
  ChallengesAreTrue
  WatchInvariant
PROPERTIES
  OpenRequestsAreDecided
  FeedIsActedOn
CHECK_DEADLOCK FALSE
