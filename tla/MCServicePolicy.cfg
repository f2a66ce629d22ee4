SPECIFICATION ServiceSpec
CONSTANTS
  ours = ours
  theirs = theirs
  t1 = t1
  t2 = t2
  Audits = {1}
  Claims = {2}
  Audit = {theirs}
  Handler = {t1, t2}
  Challengeable = {theirs}
  NoAudit = NoAudit
  NoEntry = NoEntry
  FaultSets = {{}}
  MaxLate = 0
INVARIANTS
  PolicyBeforeVerdict
CHECK_DEADLOCK FALSE
