SPECIFICATION Spec
CONSTANTS
  Alice = Alice
  Bob = Bob
  Judge = Judge
  Agents = Agents
  Address = {Alice, Bob, Judge}
  NoAddress = NoAddress
  Refusers = {}
  Arbiter = Judge
  Treasury = Judge
  RequiredStake = 3
  RequiredChallengeBond = 2
  ChallengeWindow = 1
  ChallengeResolutionWindow = 1
  ProtocolFeeBps = 2500
  ResolutionFeeBps = 2500
  MsgValues = {2, 3}
  LastOpening = 1
  MaxTime = 4
  Registry = {Agents}
  AgentId = {1, 2}
  InitialOwner <- OwnerOf
  Transferable <- Nobody
  Bounties = {3}
  ResponseWindows = {1}
  Eligibilities <- OpenRules
  BatchSizes = {1, 2}
  MaxRequests = 1
  MaxClaims = 2
  MaxAudits = 1
INVARIANTS
  EscrowIsSound
PROPERTIES
  DuesStand
CHECK_DEADLOCK FALSE
