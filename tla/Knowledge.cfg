CONSTANTS
  Calls = {c1, c2, c3}
  Types = {"faq", "product"}
  TopK = 1
  MaxFaults = 1
  MaxStops = 1

SPECIFICATION Spec
SYMMETRY CallSymmetry
CHECK_DEADLOCK FALSE

INVARIANTS
  StoresAgree
  ShownWasPublished
