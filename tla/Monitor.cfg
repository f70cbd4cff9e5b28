CONSTANTS
  Calls = {c1, c2, c3}
  Transactions <- MCTransactions
  Modes = {"mock", "off"}
  RecentMax = 1
  MaxFaults = 1
  MaxStops = 1

SPECIFICATION Spec
SYMMETRY CallSymmetry
CHECK_DEADLOCK FALSE

INVARIANTS
  MarkedWhenAnnounced
  OneClient
PROPERTY
  ColumnsKept
