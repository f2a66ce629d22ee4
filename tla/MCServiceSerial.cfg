SPECIFICATION SmallerSpec
CONSTANTS
  ours = ours
  theirs = theirs
  t1 = t1
  t2 = t2
  Audits = {1, 2}
  Claims = {3, 4}
  Audit = {ours, theirs}
  Handler = {t1}
  Challengeable = {theirs}
  NoAudit = NoAudit
  NoEntry = NoEntry
  FaultSets = {{}, {"lost", "late", "crash", "read", "verifier", "others"}}
  MaxLate = 1
INVARIANTS
  OneStakePerReport
  QuietRecordsMatchChain
PROPERTIES
  StatusAdvances
CHECK_DEADLOCK FALSE
