SPECIFICATION ServiceSpec
CONSTANTS
  ours = ours
  theirs = theirs
  t1 = t1
  t2 = t2
  Audits = {1}
  Claims = {2}
  Audit = {theirs}
  Handler = {t1, t2}
  Challengeable = {theirs}
  NoAudit = NoAudit
  NoEntry = NoEntry
  FaultSets = {{"lost", "crash", "read", "verifier", "others"}}
  MaxLate = 0
SYMMETRY Threads
INVARIANTS
  NothingRunsAhead
CHECK_DEADLOCK FALSE
