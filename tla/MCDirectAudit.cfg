SPECIFICATION DirectSpec
CONSTANTS
  Alice = Alice
  Bob = Bob
  Judge = Judge
  Address = {Alice, Bob, Judge}
  NoAddress = NoAddress
  Refusers = {Bob}
  Arbiter = Judge
  Treasury = Judge
  RequiredStake = 3
  RequiredChallengeBond = 2
  ChallengeWindow = 2
  ChallengeResolutionWindow = 1
  ProtocolFeeBps = 0
  ResolutionFeeBps = 0
  MsgValues = {2, 3}
  LastOpening = 2
  MaxTime = 6
  MaxAudits = 3
INVARIANTS
  DirectSystemTypeOK
  DirectSolvency
  VerdictsAreEarned
PROPERTIES
  UnchallengedStakeReturns
  DirectAuditsFollowLifecycle
  AuditHistoryIsKept
CHECK_DEADLOCK FALSE
