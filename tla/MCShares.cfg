SPECIFICATION RequestSafetySpec
CONSTANTS
  Alice = Alice
  Bob = Bob
  Judge = Judge
  Agents = Agents
  Address = {Alice, Bob, Judge}
  NoAddress = NoAddress
  Refusers = {}
  Arbiter = Judge
  Treasury = Judge
  RequiredStake = 3
  RequiredChallengeBond = 9
  ChallengeWindow = 1
  ChallengeResolutionWindow = 1
  ProtocolFeeBps = 2500
  ResolutionFeeBps = 2500
  MsgValues = {3, 4, 7}
  LastOpening = 1
  MaxTime = 4
  Registry = {Agents}
  AgentId = {1, 2, 3}
  InitialOwner <- OwnerOf
  Transferable <- AgentOne
  Bounties = {7}
  ResponseWindows = {1}
  Eligibilities <- OpenRules
  BatchSizes = {1, 2}
  MaxRequests = 1
  MaxClaims = 3
INVARIANTS
  SharesAreSettled
  OneClaimPerIdentity
PROPERTIES
  FinalizedFiguresAreFixed
CHECK_DEADLOCK FALSE
