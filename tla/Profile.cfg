CONSTANTS
  Requests = {t1, t2, t3}
  Jobs <- MCJobs
  FirstFacts <- Able
  FirstSheet <- Bold
  MaxFaults = 1
  MaxExpired = 1

SPECIFICATION Spec
SYMMETRY RequestSymmetry
CHECK_DEADLOCK FALSE

INVARIANTS
  CacheWasCommitted
  StaleCopyIsExplained
  CreatedOnce
  AuditMatchesRow
  NeverUnsuitable
