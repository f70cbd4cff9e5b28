SPECIFICATION Spec
CONSTANTS
  h1 = h1
  h2 = h2
  m1 = m1
  small = small
  large = large
  Handlers <- MCHandlers
  Monitors <- MCMonitors
  Traffic = {"create", "riskResult"}
  Params <- MCParams
  LargeParams <- MCLarge
  NoParams = NoParams
  MaxVersion = 1
  MaxDeadlines = 1
  MaxFaults = 0
SYMMETRY Symmetry
INVARIANTS
  FailedHasNoEffect
