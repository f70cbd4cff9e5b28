SPECIFICATION Spec
CONSTANTS
  r1 = r1
  r2 = r2
  e1 = e1
  Replicas = {r1}
  Lasting = {}
  Events = {e1}
  Repeatable = {e1}
  Lease = 1
  MaxTime = 1
  MaxSends = 2
  MaxBoots = 2
  MaxFaults = 2
CHECK_DEADLOCK FALSE
INVARIANTS
  NothingLeaks
  TasksHaveConnections
PROPERTIES
  ShutdownEnds
  OutboxDrains
