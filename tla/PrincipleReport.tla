--------------------------- MODULE PrincipleReport ---------------------------
(***************************************************************************)
(* How the report of a run judges its trades by the user's principles and  *)
(* which tightening it proposes (analytics/report_analysis.py).  A rule is *)
(* a function from dotted paths to values, NoValue where the JSON has no   *)
(* such key; a measured trade is its side, the value each path looks at    *)
(* and whether a DELAYED_STOP_LOSS pattern names it.  Of a tie between     *)
(* rules broken equally often the code takes the greater name, the model   *)
(* any one.                                                                *)
(***************************************************************************)
EXTENDS StrengthenSpec, FiniteSetsExt, Functions

CONSTANTS
  Paths,        \* dotted rule paths in use
  Texts,        \* principle sentences in use
  Interpreted,  \* the compiler's readings; review: its status is not CONFIRMED
  Schema        \* the compiled bot's value for each path

Exits == {"exit.stop_loss_rate", "exit.take_profit_rate", "exit.max_holding_days"}
AdditionalBuys ==
  {"additional_buy.allowed", "additional_buy.max_additional_count",
   "additional_buy.trigger_drop_rate", "additional_buy.additional_weight"}

(* Judged by a value measured on the trade: the score is judged by the     *)
(* bot's own threshold, disclosures and rebalancing are never judged, and  *)
(* the moving-average conditions are not ordered.                          *)
Judged == Exits \cup AdditionalBuys \cup
  {"universe.min_market_cap", "universe.min_daily_trading_value",
   "universe.exclude_halted", "universe.exclude_administrative",
   "entry.max_5day_return", "portfolio.max_position_count",
   "portfolio.max_single_position_weight", "portfolio.max_sector_weight"}

Values == Int \cup {NoValue}
Rules == [Paths -> Values]
NoRule == [p \in Paths |-> NoValue]
RulePaths(rule) == {p \in Paths : rule[p] # NoValue}
RuleSpec(path) == RULE_STRENGTHEN_SPEC(path)
Trades == [side : STRING, late : BOOLEAN, value : Rules]

ASSUME ReportAssumption ==
  /\ Paths \subseteq Judged
  /\ Interpreted \in
       Seq([text : Texts, paths : Seq(Paths), stated : SUBSET Paths, review : BOOLEAN])
  /\ Schema \in Rules

-----------------------------------------------------------------------------
(* Judging one trade by one rule *)

Sides(path) ==
  IF path \in Exits THEN {"SELL", "REDUCE"}
  ELSE IF path \in AdditionalBuys THEN {"ADD"} ELSE {"BUY", "ADD"}

Assessable(path, current, trade) ==
  /\ trade.side \in Sides(path)
  /\ trade.value[path] # NoValue
  /\ RuleSpec(path).kind = "NUMERIC" => current # NoValue

Late(path, trade) ==
  path = "exit.stop_loss_rate" /\ trade.late /\ trade.side \in Sides(path)

(* A sale that the exit rule triggered follows it. *)
Triggered(path, current, trade) == AsStrict(RuleSpec(path).bound, current, trade.value[path])

(* A purchase follows a numeric rule if it stays within the threshold. *)
Within(path, current, trade) == AsStrict(RuleSpec(path).bound, trade.value[path], current)

(* A switch is broken by a trade of the excluded kind while it is strict. *)
Excluded(path, current, trade) ==
  /\ (IF current = NoValue THEN 0 ELSE current) = RuleSpec(path).strict
  /\ trade.value[path] = 1

Followed(path, current, trade) ==
  /\ Assessable(path, current, trade) /\ ~Late(path, trade)
  /\ CASE RuleSpec(path).kind = "BOOLEAN" -> ~Excluded(path, current, trade)
       [] path \in Exits -> Triggered(path, current, trade)
       [] OTHER -> Within(path, current, trade)

(* A sale the rule did not trigger is not held against it. *)
Violated(path, current, trade) ==
  \/ Late(path, trade)
  \/ /\ Assessable(path, current, trade) /\ path \notin Exits
     /\ ~Followed(path, current, trade)

-----------------------------------------------------------------------------
(* The catalog of principles *)

(* The first reading of the same sentence, or else of a rule the item sets *)
Reading(text, rule) ==
  LET same == {k \in DOMAIN Interpreted : Interpreted[k].text = text}
      own == {k \in DOMAIN Interpreted :
                /\ Interpreted[k].paths # <<>>
                /\ Head(Interpreted[k].paths) \in RulePaths(rule)}
  IN IF same # {} THEN Interpreted[Min(same)]
     ELSE IF own # {} THEN Interpreted[Min(own)]
     ELSE [text |-> text, paths |-> <<>>, stated |-> {}, review |-> FALSE]

TargetRules(text, rule) ==
  LET mapped == Reading(text, rule).paths IN
  IF mapped # <<>> THEN mapped
  ELSE IF Cardinality(RulePaths(rule)) = 1 THEN <<CHOOSE p \in RulePaths(rule) : TRUE>>
  ELSE <<>>

Stated(text, rule) == Reading(text, rule).stated

(* What the user confirmed, else the principle's rule, else the bot's. *)
CurrentValue(path, rule, confirmed) ==
  IF confirmed[path] # NoValue THEN confirmed[path]
  ELSE IF rule[path] # NoValue THEN rule[path] ELSE Schema[path]

AIInferred(path, text, rule, confirmed) ==
  /\ confirmed[path] = NoValue /\ rule[path] = NoValue /\ Schema[path] # NoValue
  /\ path \notin Stated(text, rule)

-----------------------------------------------------------------------------
(* The verdict on a principle, and what is proposed *)

(* Any broken rule breaks the principle for that trade. *)
BreaksPrinciple(targets, current, trade) ==
  \E p \in Range(targets) : Violated(p, current[p], trade)
KeepsPrinciple(targets, current, trade) ==
  /\ \E p \in Range(targets) : Followed(p, current[p], trade)
  /\ ~BreaksPrinciple(targets, current, trade)

(* Two trades and 40% of those assessed break it. *)
Strengthens(targets, current, trades) ==
  LET bad == Cardinality({k \in DOMAIN trades : BreaksPrinciple(targets, current, trades[k])})
      good == Cardinality({k \in DOMAIN trades : KeepsPrinciple(targets, current, trades[k])})
  IN bad >= 2 /\ 10 * bad >= 4 * (bad + good)

(* The rule to tighten: the one broken most of those the item declares. *)
SuggestionRule(targets, rule, current, trades) ==
  LET broken(p) == Cardinality({k \in DOMAIN trades : Violated(p, current[p], trades[k])})
      own == {p \in Range(targets) :
                /\ broken(p) > 0
                /\ p \in (IF RulePaths(rule) = {} THEN {Head(targets)} ELSE RulePaths(rule))}
  IN IF own = {} THEN Head(targets)
     ELSE CHOOSE p \in own : \A q \in own : broken(q) <= broken(p)

(* The values of f on S, the smallest first. *)
Ascending(f, S) ==
  LET n == Cardinality(S)
      order == CHOOSE b \in Bijection(1..n, S) :
                 \A i, j \in 1..n : i < j => f[b[i]] <= f[b[j]]
  IN [i \in 1..n |-> f[order[i]]]

(* The measured values of the trades that followed a numeric rule. *)
FollowedValues(path, current, trades) ==
  IF RuleSpec(path).kind # "NUMERIC" THEN <<>>
  ELSE Ascending([k \in DOMAIN trades |-> trades[k].value[path]],
                 {k \in DOMAIN trades : Followed(path, current, trades[k])})

(* The proposal for the n-th principle (_build_principle_evaluations): at  *)
(* most one; an enforcement patches nothing, as long as it is not narrated.*)
Suggestions(n, i, row, confirmed, trades) ==
  LET targets == TargetRules(row.text, row.rule)
      current == [p \in Paths |-> CurrentValue(p, row.rule, confirmed)]
      path == SuggestionRule(targets, row.rule, current, trades)
      change == StrengthenProposal(path, current[path],
                                   FollowedValues(path, current[path], trades))
  IN IF \/ targets = <<>> \/ Reading(row.text, row.rule).review
        \/ ~Strengthens(targets, current, trades)
        \/ AIInferred(path, row.text, row.rule, confirmed)
     THEN {}
     ELSE {[rec |-> n, type |-> "REINFORCEMENT", item |-> i, text |-> row.text,
            path |-> path, current |-> current[path],
            value |-> IF change.changeType = "ENFORCEMENT_REINFORCEMENT"
                      THEN NoValue ELSE change.proposed]}
=============================================================================
