---------------------------- MODULE MCRiskMonitor ----------------------------
EXTENDS RiskMonitor, TLC

Plain ==
  [amount |-> 1000, country |-> "US", pep |-> FALSE, pep_related |-> FALSE,
   new_overseas |-> FALSE, pattern_change |-> None, in_sources |-> None,
   outbound |-> None, concentration |-> None, large_inbound |-> FALSE,
   out_targets |-> None, below_ctr |-> FALSE, linked |-> None,
   aggregation |-> None, same_target |-> FALSE, small_in |-> FALSE,
   integer_out |-> FALSE, night_in |-> FALSE]

\* No rule, two of them.
MCTransactions ==
  {Plain,
   [Plain EXCEPT !.pep_related = TRUE, !.new_overseas = TRUE, !.linked = 3,
                 !.same_target = TRUE, !.aggregation = 300000]}

CallSymmetry == Permutations(Calls)
=============================================================================
