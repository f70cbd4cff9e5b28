------------------------------ MODULE RiskRules ------------------------------
(***************************************************************************)
(* The money-laundering rules: which of them a transaction meets, the      *)
(* level and confidence of its alert (tool/risk/, service/risk/engine.py,  *)
(* grader.py), and what a language model may add to it                     *)
(* (service/risk/reason_llm.py).                                           *)
(*                                                                         *)
(* Amounts are whole yuan, ratios per cent, weights tenths and confidence  *)
(* hundredths; what a transaction leaves open is None, below every limit.  *)
(* Countries are given in capitals; the names in Chinese are aliases like  *)
(* the English ones.                                                       *)
(***************************************************************************)
EXTENDS Integers, FiniteSets, FiniteSetsExt

None == -1

Sanctioned == {"IR", "KP", "SY", "CU", "SD", "MM", "YE", "SS"}
Aliases == [IRAN |-> "IR", NORTH_KOREA |-> "KP", SYRIA |-> "SY"]

normalize_country(name) ==
  IF name \in DOMAIN Aliases THEN Aliases[name] ELSE name

-----------------------------------------------------------------------------
(* The rules.                                                              *)

DisperseInConcentrateOut(t) ==   \* RW-004
  t.in_sources >= 5 /\ t.outbound >= 200000 /\ t.concentration >= 80

ConcentrateInDisperseOut(t) ==   \* RW-005
  t.large_inbound /\ t.out_targets >= 5 /\ t.below_ctr

HighRiskCountry(t) ==            \* RW-011
  normalize_country(t.country) \in Sanctioned /\ t.amount >= 10000

PepAbnormal(t) ==                \* RW-013
  /\ t.pep \/ t.pep_related
  /\ t.amount >= 200000 \/ t.new_overseas \/ t.pattern_change > 50

MultiAccountAggregation(t) ==    \* RW-018
  t.linked >= 3 /\ t.same_target /\ t.aggregation >= 300000

GamblingFraud(t) ==              \* RW-019
  t.small_in /\ t.integer_out /\ t.night_in

Met(t) ==
  {r \in {"RW004", "RW005", "RW011", "RW013", "RW018", "RW019"} :
     [RW004 |-> DisperseInConcentrateOut(t),
      RW005 |-> ConcentrateInDisperseOut(t),
      RW011 |-> HighRiskCountry(t),
      RW013 |-> PepAbnormal(t),
      RW018 |-> MultiAccountAggregation(t),
      RW019 |-> GamblingFraud(t)][r]}

Priority ==
  [RW004 |-> 2, RW005 |-> 2, RW011 |-> 1, RW013 |-> 1, RW018 |-> 1, RW019 |-> 1]
Weight ==
  [RW004 |-> 14, RW005 |-> 14, RW011 |-> 15, RW013 |-> 15, RW018 |-> 15,
   RW019 |-> 16]
Severity == [r \in DOMAIN Priority |-> "high"]

-----------------------------------------------------------------------------
(* The engine and the grades.                                              *)

CORE_MAX_PRIORITY == 2
SHALLOW_AMOUNT_THRESHOLD == 50000

Core == {r \in DOMAIN Priority : Priority[r] =< CORE_MAX_PRIORITY}

\* The rules that are not core are only run after a core rule was met, or
\* for an amount that is not small.
evaluate_with_gate(t) ==
  LET skip == Met(t) \cap Core = {} /\ t.amount < SHALLOW_AMOUNT_THRESHOLD
  IN [hits |-> IF skip THEN {} ELSE Met(t), skip_full |-> skip]

AlertLevels == {"low", "medium", "high"}
severity_to_alert_level ==
  [high |-> "high", medium_high |-> "medium", medium |-> "medium", low |-> "low"]
Rank == [low |-> 1, medium |-> 2, high |-> 3]

grade_alert_level(hits) ==
  LET levels == {severity_to_alert_level[Severity[r]] : r \in hits}
  IN CHOOSE l \in levels : \A k \in levels : Rank[k] =< Rank[l]

\* 0.55 + 0.12 for each rule + 0.08 for each unit of weight, rounded.
compute_confidence(hits, skip_full) ==
  LET weight == MapThenSumSet(LAMBDA r : Weight[r], hits)
      score == (550 + 120 * Cardinality(hits) + 8 * weight + 5) \div 10
  IN IF hits = {} THEN IF skip_full THEN 90 ELSE 85
     ELSE IF score < 99 THEN score ELSE 99

-----------------------------------------------------------------------------
(* The second opinion.  It never touches the level.                        *)

Reviews == {"agree", "human", "suspicious"}
NoReview == "none"

mock_review(level, hits) ==
  IF level = "high" /\ Cardinality(hits) >= 2 THEN "suspicious"
  ELSE IF level \in {"high", "medium"} THEN "human" ELSE "agree"

adjust_confidence(base, review) ==
  CASE review = "agree" -> IF base > 2 THEN base - 2 ELSE 0
    [] review = "suspicious" -> IF base < 94 THEN base + 5 ELSE 99
    [] OTHER -> base

\* A model that sees no risk where the rules do asks for a human.
detect_conflict(level, review, disagrees) ==
  IF disagrees /\ level \in {"medium", "high"}
  THEN [review |-> "human", conflict |-> TRUE]
  ELSE [review |-> review, conflict |-> FALSE]

Enriched(base, opinion) ==
  [review |-> opinion.review, conflict |-> opinion.conflict,
   confidence |-> adjust_confidence(base, opinion.review)]

Template(base) == Enriched(base, [review |-> NoReview, conflict |-> FALSE])

\* What a model of a mode may come to; an answer without a known review
\* counts as "human", a failed call leaves the template.
enrich(mode, hits, level, base) ==
  CASE mode = "off" -> {Template(base)}
    [] mode = "mock" ->
         {Enriched(base, detect_conflict(level, mock_review(level, hits), FALSE))}
    [] mode = "http" ->
         {Template(base)} \cup
         {Enriched(base, detect_conflict(level, review, disagrees)) :
            review \in Reviews, disagrees \in BOOLEAN}
=============================================================================
