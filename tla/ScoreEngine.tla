----------------------------- MODULE ScoreEngine -----------------------------
(***************************************************************************)
(* The scores behind a customer's risk level: the questionnaire            *)
(* (service/risk/questionnaire.py, scoring.py) and the four dimensions of  *)
(* a profile with its restrictions (service/profile/score_engine.py).      *)
(*                                                                         *)
(* Scores are hundredths, as the code rounds them; money is in whole yuan, *)
(* rates of return in whole per cent.                                      *)
(***************************************************************************)
EXTENDS Integers, FiniteSets, Functions

\* Which of the bands that the limits separate a value lies in, from 1.
Band(x, limits) == 1 + Cardinality({l \in limits : l =< x})

\* a / b to the next whole number, a half upwards.
RoundHalfUp(a, b) == (2 * a + b) \div (2 * b)

Least(a, b) == IF a < b THEN a ELSE b

-----------------------------------------------------------------------------
(* The questionnaire: sixteen questions with four answers each.            *)

Questions == 1..16
OptionScore == [A |-> 0, B |-> 33, C |-> 67, D |-> 100]
Sheets == [Questions -> DOMAIN OptionScore]

Score(sheet) ==
  RoundHalfUp(100 * FoldFunction(LAMBDA a, sum : OptionScore[a] + sum, 0, sheet),
              Cardinality(Questions))

Levels == 1..5   \* C1 to C5

\* A score on the limit of two levels belongs to the lower one.
map_score_to_level(score) == Band(score, {2001, 4001, 6001, 8001})

conservative_merge(official, model) == Least(official, model)

-----------------------------------------------------------------------------
(* The dimensions.                                                         *)

EducationScore ==
  [JUNIOR_OR_BELOW |-> 2, HIGH_SCHOOL |-> 4, ASSOCIATE |-> 6, BACHELOR |-> 8,
   MASTER_OR_ABOVE |-> 10]
OccupationScore ==
  [UNEMPLOYED |-> 0, STUDENT |-> 2, FREELANCER |-> 5, EMPLOYEE |-> 7,
   PROFESSIONAL |-> 8, MANAGEMENT |-> 10, PUBLIC_SECTOR |-> 8]
FrequencyScore == [NONE |-> 0, LOW |-> 4, MEDIUM |-> 7, HIGH |-> 10]
LossAdjustment == [A |-> 0, B |-> 167, C |-> 333, D |-> 500]

AgeScore(age) ==
  <<0, 4, 8, 10, 7, 4, 0>>[Band(age, {18, 26, 41, 61, 71, 81})]
IncomeScore(income) ==
  <<0, 2, 4, 6, 8, 10>>[Band(income, {1, 50000, 100000, 300000, 500000})]
AssetScore(assets) ==
  <<1, 3, 5, 7, 9, 10>>[Band(assets, {10000, 100000, 500000, 1000000, 5000000})]
ExperienceYearScore(years) == <<0, 4, 6, 8, 10>>[Band(years, {1, 3, 5, 10})]

NoReturn == -1000   \* of a customer without a history; no rate is as low
HistoricalReturnScore(rate) ==
  IF rate = NoReturn THEN 2 ELSE <<3, 5, 8, 10>>[Band(rate, {0, 5, 15})]

\* Each item counts up to 10, the items of a dimension together up to 25.
Basic(facts) ==
  RoundHalfUp(2500 * (AgeScore(facts.age) + EducationScore[facts.education]
                + OccupationScore[facts.occupation]
                + IncomeScore(facts.annual_income)
                + AssetScore(facts.investable_assets)), 50)

Experience(facts) ==
  RoundHalfUp(2500 * (ExperienceYearScore(facts.investment_years)
                + Least(2 * facts.product_types, 10)
                + FrequencyScore[facts.trading_frequency]
                + HistoricalReturnScore(facts.historical_return)), 40)

\* A quarter of the questionnaire and the adjustment, 30 at most.
Tolerance(facts, questionnaire) ==
  Least(3000,
        RoundHalfUp(questionnaire + 4 * LossAdjustment[facts.loss_tolerance], 4))

Conduct(facts) == IF facts.active_high_risk THEN 0 ELSE 2000

Total(facts, questionnaire) ==
  Basic(facts) + Experience(facts) + Tolerance(facts, questionnaire)
    + Conduct(facts)

LowCapacity(facts) ==
  facts.annual_income = 0 /\ facts.investable_assets < 10000

\* maximum_product_risk is R2 for a customer of low capacity, whatever the
\* level: the suitability check takes the lower of the two.
evaluate_profile(facts, official, questionnaire) ==
  LET model == map_score_to_level(Total(facts, questionnaire))
      effective == conservative_merge(official, model)
  IN [model |-> model, effective |-> effective,
      maximum |-> IF LowCapacity(facts) THEN 2 ELSE effective]
=============================================================================
