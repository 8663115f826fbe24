---------------------------- MODULE StrengthenSpec ----------------------------
(***************************************************************************)
(* How an executable rule is tightened (rules/strengthen_spec.py).  Values *)
(* are whole steps of a grid, the one round(x, 6) leaves: Grain steps make *)
(* one per cent, one piece, one day, one point or 10^8 won, the units the  *)
(* table below is written in.  A switch is 0 or 1, a ladder is climbed by  *)
(* its index.  Between current value and rounding the code computes with   *)
(* fractions: here with numbers of 400ths of a grid step ("fine" values),  *)
(* exact for quartiles and for steps in per cent.                          *)
(***************************************************************************)
EXTENDS Integers, Sequences

CONSTANTS
  Grain,     \* grid steps per unit
  NoValue    \* None

ASSUME StrengthenAssumption == Grain \in Nat \ {0} /\ NoValue \notin Int

Fine == 400
Abs(n) == IF n < 0 THEN -n ELSE n

(* _numeric, _boolean, _enum, _enforcement *)
Numeric(bound, low, high, step, unit, values) ==
  [kind |-> "NUMERIC", bound |-> bound, low |-> low * Grain, high |-> high * Grain,
   step |-> step, unit |-> unit, values |-> values]
Switch(strict) == [kind |-> "BOOLEAN", strict |-> strict]
Ladder(rungs) == [kind |-> "ENUM", top |-> rungs - 1]
Enforcement == [kind |-> "NOT_TUNABLE"]

RULE_STRENGTHEN_SPEC(rule) ==
  CASE rule = "universe.min_market_cap" -> Numeric("LOWER", 100, 10000, 25, "KRW", "REAL")
    [] rule = "universe.min_daily_trading_value" -> Numeric("LOWER", 1, 1000, 25, "KRW", "REAL")
    [] rule = "universe.exclude_halted" -> Switch(1)
    [] rule = "universe.exclude_administrative" -> Switch(1)
    [] rule = "universe.allowed_markets" -> Enforcement
    [] rule = "selection.min_passing_score" -> Numeric("LOWER", 50, 95, 10, "SCORE", "REAL")
    [] rule = "selection.factor_weights" -> Enforcement
    [] rule = "entry.max_5day_return" -> Numeric("UPPER", 5, 30, 25, "RATE", "REAL")
    [] rule = "entry.require_positive_disclosure" -> Switch(1)
    [] rule = "entry.moving_average_condition" -> Ladder(4)
    [] rule = "additional_buy.allowed" -> Switch(0)
    [] rule = "additional_buy.max_additional_count" -> Numeric("UPPER", 0, 5, 34, "COUNT", "WHOLE")
    [] rule = "additional_buy.trigger_drop_rate" -> Numeric("UPPER", -30, -2, 25, "RATE", "REAL")
    [] rule = "additional_buy.additional_weight" -> Numeric("UPPER", 1, 20, 25, "RATE", "REAL")
    [] rule = "portfolio.max_position_count" -> Numeric("UPPER", 1, 20, 20, "COUNT", "WHOLE")
    [] rule = "portfolio.max_single_position_weight" -> Numeric("UPPER", 5, 40, 20, "RATE", "REAL")
    [] rule = "portfolio.max_sector_weight" -> Numeric("UPPER", 10, 70, 20, "RATE", "REAL")
    [] rule = "exit.stop_loss_rate" -> Numeric("LOWER", -30, -3, 25, "RATE", "REAL")
    [] rule = "exit.take_profit_rate" -> Numeric("UPPER", 5, 50, 20, "RATE", "REAL")
    [] rule = "exit.max_holding_days" -> Numeric("UPPER", 5, 365, 20, "DAYS", "WHOLE")
    [] rule = "exit.sell_on_negative_disclosure" -> Switch(1)
    [] rule = "rebalance.period" -> Enforcement
    [] rule = "rebalance.min_holding_days_before_rebalance" -> Enforcement

-----------------------------------------------------------------------------
(* a is at least as strict as b (_is_stricter_or_equal) *)
AsStrict(bound, a, b) == IF bound = "UPPER" THEN a <= b ELSE a >= b

(* _clamp, on fine values *)
Clamp(spec, x) ==
  IF x > Fine * spec.high THEN Fine * spec.high
  ELSE IF x < Fine * spec.low THEN Fine * spec.low ELSE x

(* round(x, 6); a tie goes up here, to the even neighbour in the code *)
Round(x) == (2 * x + Fine) \div (2 * Fine)

(* The quartile of a sorted sample that lets three quarters of it pass,    *)
(* interpolated between neighbours (_percentile with FOLLOWED_COVERAGE).   *)
Quartile(bound, sample) ==
  LET quarters == (Len(sample) - 1) * (IF bound = "UPPER" THEN 3 ELSE 1)
      at == 1 + quarters \div 4
      next == IF at = Len(sample) THEN at ELSE at + 1
  IN 100 * (4 * sample[at] + (sample[next] - sample[at]) * (quarters % 4))

(* One step of spec.step per cent of the current value; from 0 one step of *)
(* the raw unit, in which a rate of 100% is 1.                             *)
FixedStep(spec, current) ==
  LET size == IF current # 0 THEN 4 * Abs(current) * spec.step
              ELSE (IF spec.unit = "RATE" THEN Fine ELSE 4) * spec.step * Grain
  IN IF spec.bound = "UPPER" THEN Fine * current - size ELSE Fine * current + size

(* int() towards zero for an upper bound, the ceiling for a lower one *)
Whole(spec, x) ==
  LET one == Fine * Grain IN
  IF spec.values = "REAL" THEN x
  ELSE IF spec.bound = "LOWER" THEN -((-x) \div one) * one
  ELSE IF x >= 0 THEN (x \div one) * one ELSE -((-x) \div one) * one

(* Evidence counts only if it does not loosen the rule. *)
Candidate(spec, current, evidence) ==
  IF evidence # NoValue /\ AsStrict(spec.bound, evidence, Fine * current)
  THEN evidence ELSE FixedStep(spec, current)

(* The threshold proposed for a current value (_numeric_proposal), or      *)
(* NoValue if clamping leaves nothing to tighten.                          *)
Threshold(spec, current, evidence) ==
  LET x == Clamp(spec, Whole(spec, Clamp(spec, Candidate(spec, current, evidence))))
  IN IF AsStrict(spec.bound, x, Fine * current) THEN Round(x) ELSE NoValue

(* A rule that never had a value takes the evidence, without rounding to a *)
(* whole number.                                                           *)
FirstThreshold(spec, evidence) ==
  IF evidence = NoValue THEN NoValue ELSE Round(Clamp(spec, evidence))

Reinforce(current) == [changeType |-> "ENFORCEMENT_REINFORCEMENT", proposed |-> current]
Change(type, value) == [changeType |-> type, proposed |-> value]

NumericProposal(spec, current, followed) ==
  LET evidence == IF Len(followed) < 2 THEN NoValue ELSE Quartile(spec.bound, followed)
      value == IF current = NoValue THEN FirstThreshold(spec, evidence)
               ELSE Threshold(spec, current, evidence)
  IN IF value = NoValue \/ value = current THEN Reinforce(current)
     ELSE Change("THRESHOLD_ADJUSTMENT", value)

SwitchProposal(spec, current) ==
  IF (IF current = NoValue THEN 0 ELSE current) = spec.strict THEN Reinforce(current)
  ELSE Change("SWITCH_TO_STRICT", spec.strict)

LadderProposal(spec, current) ==
  LET index == IF current = NoValue THEN 0 ELSE current
  IN IF index >= spec.top THEN Reinforce(current)
     ELSE Change("CONDITION_TIGHTENED", index + 1)

(* build_strengthen_proposal of a known rule *)
StrengthenProposal(rule, current, followed) ==
  LET spec == RULE_STRENGTHEN_SPEC(rule) IN
  CASE spec.kind = "NUMERIC" -> NumericProposal(spec, current, followed)
    [] spec.kind = "BOOLEAN" -> SwitchProposal(spec, current)
    [] spec.kind = "ENUM" -> LadderProposal(spec, current)
    [] OTHER -> Reinforce(current)

-----------------------------------------------------------------------------
(* b restricts strictly more than a, as the evaluator reads the rule. *)
Tighter(rule, a, b) ==
  LET spec == RULE_STRENGTHEN_SPEC(rule) IN
  CASE spec.kind = "NUMERIC" -> a # b /\ AsStrict(spec.bound, b, a)
    [] spec.kind = "BOOLEAN" -> a # spec.strict /\ b = spec.strict
    [] spec.kind = "ENUM" -> b > a
    [] OTHER -> FALSE

Allowed(rule, v) ==
  LET spec == RULE_STRENGTHEN_SPEC(rule) IN
  CASE spec.kind = "NUMERIC" -> /\ v \in spec.low..spec.high
                                /\ spec.values = "WHOLE" => v % Grain = 0
    [] spec.kind = "BOOLEAN" -> v \in {0, 1}
    [] spec.kind = "ENUM" -> v \in 0..spec.top
    [] OTHER -> FALSE

(* From allowedMinimum to allowedMaximum, fractions of whole units too. *)
InRange(rule, v) ==
  LET spec == RULE_STRENGTHEN_SPEC(rule) IN
  CASE spec.kind = "NUMERIC" -> v \in spec.low..spec.high
    [] spec.kind = "BOOLEAN" -> v \in 0..1
    [] spec.kind = "ENUM" -> v \in 0..spec.top
    [] OTHER -> v = 0

(* The bound a tighter value moves: strengthDirection is DECREASE for      *)
(* UPPER, INCREASE for LOWER, of a rule with values in order.              *)
Direction(rule) ==
  LET spec == RULE_STRENGTHEN_SPEC(rule) IN
  IF spec.kind = "NUMERIC" THEN spec.bound
  ELSE IF spec.kind = "BOOLEAN" /\ spec.strict = 0 THEN "UPPER" ELSE "LOWER"
=============================================================================
