------------------------ MODULE MCBusinessRepository ------------------------
EXTENDS BusinessRepository, TLC

CONSTANTS o1, o2, o3, s1, s2

MCCustomers == {1, 2}
MCInitialBalance == (1 :> 2) @@ (2 :> 1)
MCBaseShares == (1 :> 2) @@ (2 :> 0)
MCOperations == {o1, o2}
MCThreeOperations == {o1, o2, o3}
MCSessions == {s1, s2}
Symmetry == Permutations({o1, o2, o3}) \cup Permutations(MCSessions)
=============================================================================
