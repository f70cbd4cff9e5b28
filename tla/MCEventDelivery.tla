--------------------------- MODULE MCEventDelivery ---------------------------
EXTENDS EventDelivery

CONSTANTS r1, r2, e1

MCReplicas == {r1, r2}

\* The safety runs need no fairness.
SafetySpec == Init /\ [][Next]_vars
=============================================================================
