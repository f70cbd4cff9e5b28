SPECIFICATION SafetySpec
CONSTANTS
  r1 = r1
  r2 = r2
  e1 = e1
  Replicas <- MCReplicas
  Lasting = {r2}
  Events = {e1}
  Repeatable = {e1}
  Lease = 1
  MaxTime = 1
  MaxSends = 1
  MaxBoots = 1
  MaxFaults = 1
CHECK_DEADLOCK FALSE
INVARIANTS
  LeaseIsExclusive
  EffectsAreSpaced
  CompletedWasApplied
  SentIsOnStream
  CopiesAreBounded
