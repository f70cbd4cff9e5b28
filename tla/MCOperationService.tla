------------------------- MODULE MCOperationService -------------------------
EXTENDS OperationService, TLC

CONSTANTS h1, h2, m1, small, large

MCHandlers == {h1, h2}
MCOneHandler == {h1}
MCMonitors == {m1}
MCParams == {small, large}
MCLarge == {large}
Symmetry == Permutations(MCHandlers)
=============================================================================
