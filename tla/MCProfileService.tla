-------------------------- MODULE MCProfileService --------------------------
EXTENDS ProfileService, TLC

Able ==
  [age |-> 45, education |-> "MASTER_OR_ABOVE", occupation |-> "MANAGEMENT",
   annual_income |-> 600000, investable_assets |-> 6000000,
   investment_years |-> 12, product_types |-> 5, trading_frequency |-> "HIGH",
   historical_return |-> 20, loss_tolerance |-> "D", active_high_risk |-> FALSE]

\* A student without income: no product above R2, though the level is C3.
Poor ==
  [age |-> 26, education |-> "MASTER_OR_ABOVE", occupation |-> "STUDENT",
   annual_income |-> 0, investable_assets |-> 0,
   investment_years |-> 3, product_types |-> 2, trading_frequency |-> "LOW",
   historical_return |-> NoReturn, loss_tolerance |-> "C",
   active_high_risk |-> FALSE]

Cautious == [q \in Questions |-> "A"]
Bold == [q \in Questions |-> "D"]

MCJobs ==
  {[kind |-> "create", trigger |-> "first", facts |-> Poor, source |-> "KYC"],
   [kind |-> "submit", answers |-> Cautious],
   [kind |-> "submit", answers |-> Bold],
   [kind |-> "update", source |-> "MANUAL_VERIFIED",
    fields |-> {"investment_experience", "annual_income_range"}],
   [kind |-> "update", source |-> "KYC",
    fields |-> {"investment_experience", "product_preference"}],
   [kind |-> "get"],
   [kind |-> "check", product |-> 3]}

RequestSymmetry == Permutations(Requests)
=============================================================================
