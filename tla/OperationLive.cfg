SPECIFICATION FairSpec
CONSTANTS
  h1 = h1
  h2 = h2
  m1 = m1
  small = small
  large = large
  Handlers <- MCOneHandler
  Monitors <- MCMonitors
  Traffic = {"create", "riskResult", "confirm", "reconcile"}
  Params <- MCParams
  LargeParams <- MCLarge
  NoParams = NoParams
  MaxVersion = 1
  MaxDeadlines = 3
  MaxFaults = 1
PROPERTIES
  ApprovedGoesOn
  ConfirmedGoesOn
  OfferEnds
  ExecutionSettles
  RequestedReviewEnds
