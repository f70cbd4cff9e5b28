SPECIFICATION Spec
CONSTANTS
  o1 = o1
  o2 = o2
  o3 = o3
  s1 = s1
  s2 = s2
  LastNumber = 999999
  Customers <- MCCustomers
  InitialBalance <- MCInitialBalance
  BaseShares <- MCBaseShares
  Operations <- MCOperations
  Sessions <- MCSessions
  Amounts = {1, 2}
  MaxFaults = 0
SYMMETRY Symmetry
INVARIANTS
  NoOverRedemption
