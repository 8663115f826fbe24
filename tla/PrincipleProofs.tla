--------------------------- MODULE PrincipleProofs ---------------------------
(***************************************************************************)
(* Theorems about PrincipleProposals, for any number of requests, runs,    *)
(* items, sets, trades, values and model answers: what the rule engine     *)
(* proposes is allowed and strictly tighter, and what a narrative makes of *)
(* it is in range and not looser; the tables, the reports and what the     *)
(* requests have read stay in order (BookInv); a key is locked by the      *)
(* request that is working on it, a proposal is carried out once and all   *)
(* its answers agree (AcceptInv); and an acceptance changes one value of   *)
(* one rule.                                                               *)
(***************************************************************************)
EXTENDS PrincipleProposals, SetSums, TLAPS

-----------------------------------------------------------------------------
(* The table of strengthenings *)

(* A row of the table with limits; the limits are in whole units.          *)
NumericSpecs ==
  [kind : {"NUMERIC"}, bound : {"UPPER", "LOWER"}, low : Int, high : Int,
   step : Nat, unit : {"RATE", "COUNT", "DAYS", "SCORE", "KRW"}, values : {"WHOLE", "REAL"}]

(* Whole units are whole numbers of grid steps. *)
WholeUnits(v) == \E k \in Int : v = k * Grain
NumericRow(s) ==
  s \in NumericSpecs /\ s.low <= s.high /\ WholeUnits(s.low) /\ WholeUnits(s.high)

(* The table is written in whole units. *)
LEMMA NumericIsRow ==
  ASSUME NEW bound \in {"UPPER", "LOWER"}, NEW low \in Int, NEW high \in Int, low <= high,
         NEW step \in Nat, NEW unit \in {"RATE", "COUNT", "DAYS", "SCORE", "KRW"},
         NEW values \in {"WHOLE", "REAL"}
  PROVE  NumericRow(Numeric(bound, low, high, step, unit, values))
<1>1. low * Grain \in Int /\ high * Grain \in Int /\ low * Grain <= high * Grain
  BY StrengthenAssumption
<1> QED
  BY <1>1 DEF NumericRow, NumericSpecs, Numeric, WholeUnits

(* Every rule trades are judged by has limits, or is a switch. *)
LEMMA SpecIs ==
  ASSUME NEW path \in Judged
  PROVE  \/ NumericRow(RuleSpec(path))
         \/ \E strict \in {0, 1} : RuleSpec(path) = Switch(strict)
<1>1. /\ RuleSpec("universe.min_market_cap") = Numeric("LOWER", 100, 10000, 25, "KRW", "REAL")
      /\ RuleSpec("universe.min_daily_trading_value") = Numeric("LOWER", 1, 1000, 25, "KRW", "REAL")
      /\ RuleSpec("universe.exclude_halted") = Switch(1)
      /\ RuleSpec("universe.exclude_administrative") = Switch(1)
      /\ RuleSpec("entry.max_5day_return") = Numeric("UPPER", 5, 30, 25, "RATE", "REAL")
      /\ RuleSpec("portfolio.max_position_count") = Numeric("UPPER", 1, 20, 20, "COUNT", "WHOLE")
      /\ RuleSpec("portfolio.max_single_position_weight") = Numeric("UPPER", 5, 40, 20, "RATE", "REAL")
      /\ RuleSpec("portfolio.max_sector_weight") = Numeric("UPPER", 10, 70, 20, "RATE", "REAL")
  BY DEF RuleSpec, RULE_STRENGTHEN_SPEC
<1>2. /\ RuleSpec("additional_buy.allowed") = Switch(0)
      /\ RuleSpec("additional_buy.max_additional_count") = Numeric("UPPER", 0, 5, 34, "COUNT", "WHOLE")
      /\ RuleSpec("additional_buy.trigger_drop_rate") = Numeric("UPPER", -30, -2, 25, "RATE", "REAL")
      /\ RuleSpec("additional_buy.additional_weight") = Numeric("UPPER", 1, 20, 25, "RATE", "REAL")
  BY DEF RuleSpec, RULE_STRENGTHEN_SPEC
<1>3. /\ RuleSpec("exit.stop_loss_rate") = Numeric("LOWER", -30, -3, 25, "RATE", "REAL")
      /\ RuleSpec("exit.take_profit_rate") = Numeric("UPPER", 5, 50, 20, "RATE", "REAL")
      /\ RuleSpec("exit.max_holding_days") = Numeric("UPPER", 5, 365, 20, "DAYS", "WHOLE")
  BY DEF RuleSpec, RULE_STRENGTHEN_SPEC
<1>4. CASE path \in Exits
  BY <1>3, <1>4, NumericIsRow DEF Exits
<1>5. CASE path \in AdditionalBuys
  BY <1>2, <1>5, NumericIsRow DEF AdditionalBuys
<1>6. CASE path \notin Exits \cup AdditionalBuys
  BY <1>1, <1>6, NumericIsRow DEF Judged
<1> QED
  BY <1>4, <1>5, <1>6

(* Whole units are what the allowed range asks of a count. *)
LEMMA WholeIsDivisible ==
  ASSUME NEW v, WholeUnits(v)
  PROVE  v \in Int /\ v % Grain = 0
<1>1. PICK k \in Int : v = k * Grain
  BY DEF WholeUnits
<1>2. Grain \in Nat \ {0}
  BY StrengthenAssumption
<1> QED
  BY <1>1, <1>2

(* The quartile of whole values is one. *)
LEMMA QuartileIsInt ==
  ASSUME NEW bound, NEW n \in Nat \ {0}, NEW sample \in [1..n -> Int]
  PROVE  Quartile(bound, sample) \in Int
<1> DEFINE quarters == (Len(sample) - 1) * (IF bound = "UPPER" THEN 3 ELSE 1)
           at == 1 + quarters \div 4
           next == IF at = Len(sample) THEN at ELSE at + 1
<1>1. Len(sample) = n
  OBVIOUS
<1>2. quarters \in Nat /\ quarters <= 3 * (n - 1)
  BY <1>1
<1> HIDE DEF quarters
<1>3. at \in 1..n /\ quarters % 4 \in Int
  BY <1>2
<1> HIDE DEF at
<1>4. next \in 1..n
  BY <1>1, <1>3
<1> HIDE DEF next
<1>5. sample[at] \in Int /\ sample[next] \in Int
  BY <1>3, <1>4
<1>6. Quartile(bound, sample) = 100 * (4 * sample[at] + (sample[next] - sample[at]) * (quarters % 4))
  BY DEF Quartile, quarters, at, next
<1> QED
  BY <1>3, <1>5, <1>6

-----------------------------------------------------------------------------
(* The values trades have, in their order *)

(* A function has a highest value on a finite set. *)
LEMMA HighestExists ==
  ASSUME NEW S, IsFiniteSet(S), S # {}, NEW f, \A x \in S : f[x] \in Int
  PROVE  \E x \in S : \A y \in S : f[y] <= f[x]
<1> DEFINE P == {T \in SUBSET S : T # {} => \E x \in T : \A y \in T : f[y] <= f[x]}
<1>1. {} \in P
  OBVIOUS
<1>2. ASSUME NEW T \in SUBSET S, T # {}, \A x \in T : T \ {x} \in P PROVE T \in P
  <2>1. PICK z \in T : T \ {z} \in P
    BY <1>2
  <2>2. CASE T \ {z} = {}
    BY <2>2
  <2>3. CASE T \ {z} # {}
    <3>1. PICK x \in T \ {z} : \A y \in T \ {z} : f[y] <= f[x]
      BY <2>1, <2>3
    <3>2. CASE f[z] <= f[x]
      BY <3>1, <3>2
    <3>3. CASE f[x] <= f[z]
      BY <3>1, <3>3
    <3> QED
      BY <3>2, <3>3
  <2> QED
    BY <2>2, <2>3
<1> HIDE DEF P
<1>3. S \in P
  BY <1>1, <1>2, AllSubsets
<1> QED
  BY <1>3 DEF P

(* b lists S by the values of f, the smallest first. *)
InOrder(f, S, b) ==
  \A i, j \in 1..Cardinality(S) : i < j => f[b[i]] <= f[b[j]]

(* A finite set can be listed by the values on it: the highest is last.    *)
LEMMA OrderExists ==
  ASSUME NEW S, IsFiniteSet(S), NEW f, \A x \in S : f[x] \in Int
  PROVE  \E b \in Bijection(1..Cardinality(S), S) : InOrder(f, S, b)
<1> DEFINE P == {T \in SUBSET S : \E b \in Bijection(1..Cardinality(T), T) : InOrder(f, T, b)}
<1>1. {} \in P
  <2>1. Cardinality({}) = 0
    BY FS_EmptySet
  <2>2. <<>> \in Bijection(1..0, {}) /\ InOrder(f, {}, <<>>)
    BY <2>1 DEF Bijection, Injection, Surjection, IsInjective, InOrder
  <2> QED
    BY <2>1, <2>2
<1>2. ASSUME NEW T \in SUBSET S, T # {}, \A x \in T : T \ {x} \in P PROVE T \in P
  <2>1. IsFiniteSet(T)
    BY FS_Subset
  <2>2. PICK x \in T : \A y \in T : f[y] <= f[x]
    BY <1>2, <2>1, HighestExists
  <2> DEFINE R == T \ {x}
             n == Cardinality(T)
  <2>3. n \in Nat /\ n > 0 /\ Cardinality(R) = n - 1
    BY <2>1, FS_RemoveElement, FS_CardinalityType, FS_EmptySet
  <2>4. PICK b \in Bijection(1..(n - 1), R) : InOrder(f, R, b)
    BY <1>2, <2>3
  <2> HIDE DEF n
  <2> DEFINE c == [i \in 1..n |-> IF i = n THEN x ELSE b[i]]
  <2>5. \A i \in 1..n : i = n \/ i \in 1..(n - 1)
    BY <2>3
  <2>6. /\ b \in [1..(n - 1) -> R]
        /\ \A i, j \in 1..(n - 1) : b[i] = b[j] => i = j
        /\ \A y \in R : \E i \in 1..(n - 1) : b[i] = y
    BY <2>4 DEF Bijection, Injection, Surjection, IsInjective
  <2>7. c \in [1..n -> T]
    BY <2>5, <2>6
  <2>8. \A i, j \in 1..n : c[i] = c[j] => i = j
    BY <2>5, <2>6
  <2>9. \A y \in T : \E i \in 1..n : c[i] = y
    <3>1. n \in 1..n /\ c[n] = x
      BY <2>3
    <3>2. \A i \in 1..(n - 1) : i \in 1..n /\ c[i] = b[i]
      BY <2>3
    <3> QED
      BY <2>6, <3>1, <3>2
  <2>10. c \in Bijection(1..n, T)
    BY <2>7, <2>8, <2>9 DEF Bijection, Injection, Surjection, IsInjective
  <2>11. \A i, j \in 1..n : i < j => f[c[i]] <= f[c[j]]
    <3> SUFFICES ASSUME NEW i \in 1..n, NEW j \in 1..n, i < j PROVE f[c[i]] <= f[c[j]]
      OBVIOUS
    <3>1. i \in 1..(n - 1) /\ c[i] = b[i] /\ b[i] \in T
      BY <2>3, <2>6
    <3>2. CASE j = n
      BY <2>2, <3>1, <3>2
    <3>3. CASE j # n
      <4>1. j \in 1..(n - 1) /\ c[j] = b[j]
        BY <2>5, <3>3
      <4> QED
        BY <2>3, <2>4, <3>1, <4>1 DEF InOrder
    <3> QED
      BY <3>2, <3>3
  <2> QED
    BY <2>10, <2>11 DEF InOrder, n
<1> HIDE DEF P
<1>3. S \in P
  BY <1>1, <1>2, AllSubsets
<1> QED
  BY <1>3 DEF P

(* What is listed are values of f, as many as the set has elements. *)
LEMMA AscendingIs ==
  ASSUME NEW S, IsFiniteSet(S), NEW f, \A x \in S : f[x] \in Int
  PROVE  Cardinality(S) \in Nat /\ Ascending(f, S) \in [1..Cardinality(S) -> Int]
<1> DEFINE order == CHOOSE b \in Bijection(1..Cardinality(S), S) :
                      \A i, j \in 1..Cardinality(S) : i < j => f[b[i]] <= f[b[j]]
<1>1. order \in Bijection(1..Cardinality(S), S)
  BY OrderExists DEF InOrder
<1>2. order \in [1..Cardinality(S) -> S]
  BY <1>1 DEF Bijection, Injection
<1> HIDE DEF order
<1>3. Ascending(f, S) = [i \in 1..Cardinality(S) |-> f[order[i]]]
  BY DEF Ascending, order
<1> QED
  BY <1>2, <1>3, FS_CardinalityType

(* The measured values of trades are whole numbers of grid steps. *)
LEMMA FollowedIsSample ==
  ASSUME NEW path \in Paths, NEW current \in Values, NEW trades \in Seq(Trades)
  PROVE  \E n \in Nat : FollowedValues(path, current, trades) \in [1..n -> Int]
<1> DEFINE S == {k \in DOMAIN trades : Followed(path, current, trades[k])}
           f == [k \in DOMAIN trades |-> trades[k].value[path]]
<1>1. CASE RuleSpec(path).kind # "NUMERIC"
  <2>1. FollowedValues(path, current, trades) = <<>> /\ <<>> \in [1..0 -> Int]
    BY <1>1 DEF FollowedValues
  <2> QED
    BY <2>1
<1>2. CASE RuleSpec(path).kind = "NUMERIC"
  <2>1. IsFiniteSet(S)
    <3>1. Len(trades) \in Nat /\ DOMAIN trades = 1..Len(trades)
      OBVIOUS
    <3>2. IsFiniteSet(DOMAIN trades) /\ S \in SUBSET DOMAIN trades
      BY <3>1, FS_Interval
    <3> HIDE DEF S
    <3> QED
      BY <3>2, FS_Subset
  <2>2. \A k \in S : f[k] \in Int
    <3> SUFFICES ASSUME NEW k \in S PROVE f[k] \in Int
      OBVIOUS
    <3>1. trades[k] \in Trades /\ trades[k].value[path] # NoValue
      BY DEF Followed, Assessable
    <3> QED
      BY <3>1 DEF Trades, Rules, Values
  <2>3. FollowedValues(path, current, trades) = Ascending(f, S)
    BY <1>2 DEF FollowedValues
  <2> HIDE DEF f, S
  <2> QED
    BY <2>1, <2>2, <2>3, AscendingIs
<1> QED
  BY <1>1, <1>2

(* Nothing is followed where a numeric rule has no value. *)
LEMMA NothingToFollow ==
  ASSUME NEW path \in Paths, NEW trades \in Seq(Trades)
  PROVE  Len(FollowedValues(path, NoValue, trades)) = 0
<1> DEFINE f == [k \in DOMAIN trades |-> trades[k].value[path]]
<1>1. CASE RuleSpec(path).kind # "NUMERIC"
  BY <1>1 DEF FollowedValues
<1>2. CASE RuleSpec(path).kind = "NUMERIC"
  <2>1. {k \in DOMAIN trades : Followed(path, NoValue, trades[k])} = {}
    BY <1>2 DEF Followed, Assessable
  <2>2. FollowedValues(path, NoValue, trades) = Ascending(f, {})
    BY <1>2, <2>1 DEF FollowedValues
  <2>3. Cardinality({}) = 0 /\ Ascending(f, {}) \in [1..0 -> Int]
    BY AscendingIs, FS_EmptySet
  <2> QED
    BY <2>2, <2>3
<1> QED
  BY <1>1, <1>2

-----------------------------------------------------------------------------
(* The arithmetic of a proposal *)

(* Rounding to the grid cannot leave the side of a grid value it is on. *)
LEMMA RoundKeepsSide ==
  ASSUME NEW x \in Int, NEW g \in Int
  PROVE  /\ Round(x) \in Int
         /\ x <= Fine * g => Round(x) <= g
         /\ x >= Fine * g => Round(x) >= g
<1>1. 2 * x + Fine \in Int /\ 2 * Fine = 800 /\ Fine = 400
  BY DEF Fine
<1>2. PICK q \in Int, r \in 0..799 : 2 * x + 400 = 800 * q + r /\ Round(x) = q
  BY <1>1 DEF Round
<1> QED
  BY <1>1, <1>2

(* A clamped value is within the limits. *)
LEMMA ClampInRange ==
  ASSUME NEW s \in NumericSpecs, NEW x \in Int, s.low <= s.high
  PROVE  /\ Clamp(s, x) \in Int
         /\ Fine * s.low <= Clamp(s, x) /\ Clamp(s, x) <= Fine * s.high
         /\ Clamp(s, x) \in {x, Fine * s.low, Fine * s.high}
<1>1. s.low \in Int /\ s.high \in Int
  BY DEF NumericSpecs
<1> QED
  BY <1>1 DEF Clamp, Fine

(* A rule in whole units gets whole units. *)
LEMMA WholeIsInt ==
  ASSUME NEW s \in NumericSpecs, NEW x \in Int, NEW c \in Int
  PROVE  /\ Whole(s, x) \in Int /\ FixedStep(s, c) \in Int
         /\ s.values = "WHOLE" => \E k \in Int : Whole(s, x) = k * (Fine * Grain)
<1>1. s.step \in Int /\ Grain \in Int /\ Fine * Grain \in Int /\ Fine * Grain > 0
  BY StrengthenAssumption DEF NumericSpecs, Fine
<1> DEFINE one == Fine * Grain
           up == (-x) \div one
           down == x \div one
<1>2. up \in Int /\ down \in Int /\ -up \in Int
  BY <1>1
<1>3. one \in Int
  BY <1>1
<1>4. /\ Whole(s, x) \in {x, (-up) * one, down * one}
      /\ s.values = "WHOLE" => Whole(s, x) \in {(-up) * one, down * one}
  BY <1>1, <1>2 DEF Whole
<1>6. Whole(s, x) \in Int
  BY <1>2, <1>3, <1>4
<1>7. ASSUME s.values = "WHOLE" PROVE \E k \in Int : Whole(s, x) = k * one
  <2> HIDE DEF one, up, down
  <2> QED BY <1>2, <1>3, <1>4, <1>7
<1>8. Abs(c) \in Int
  BY DEF Abs
<1>5. FixedStep(s, c) \in Int
  BY <1>1, <1>8 DEF FixedStep, Fine
<1> QED
  BY <1>5, <1>6, <1>7

(* A proposed threshold lies in the allowed range and never admits a value *)
(* that the current one refuses, whatever the evidence (_numeric_proposal, *)
(* strengthen_spec.py:281-314).                                            *)
THEOREM ThresholdNeverLoosens ==
  ASSUME NEW s \in NumericSpecs, s.low <= s.high,
         NEW current \in Int, NEW evidence \in Int \cup {NoValue},
         Threshold(s, current, evidence) # NoValue
  PROVE  /\ Threshold(s, current, evidence) \in s.low..s.high
         /\ AsStrict(s.bound, Threshold(s, current, evidence), current)
<1> DEFINE y == Whole(s, Clamp(s, Candidate(s, current, evidence)))
           x == Clamp(s, y)
<1>1. Candidate(s, current, evidence) \in Int
  BY WholeIsInt DEF Candidate
<1>2. y \in Int
  BY <1>1, ClampInRange, WholeIsInt
<1>3. x \in Int /\ Fine * s.low <= x /\ x <= Fine * s.high
  BY <1>2, ClampInRange
<1>4. s.low \in Int /\ s.high \in Int /\ s.bound \in {"UPPER", "LOWER"}
  BY DEF NumericSpecs
<1>5. Threshold(s, current, evidence) =
        IF AsStrict(s.bound, x, Fine * current) THEN Round(x) ELSE NoValue
  BY DEF Threshold
<1>6. AsStrict(s.bound, x, Fine * current)
  BY <1>5
<1>7. Threshold(s, current, evidence) = Round(x)
  BY <1>5, <1>6
<1> HIDE DEF x
<1>8. Round(x) \in Int /\ s.low <= Round(x) /\ Round(x) <= s.high
  BY <1>3, <1>4, RoundKeepsSide
<1>9. AsStrict(s.bound, Round(x), current)
  BY <1>3, <1>4, <1>6, RoundKeepsSide DEF AsStrict
<1> QED
  BY <1>4, <1>7, <1>8, <1>9

(* A rule in whole units is proposed whole units. *)
LEMMA ThresholdIsWhole ==
  ASSUME NEW s, NumericRow(s), s.values = "WHOLE",
         NEW current \in Int, NEW evidence \in Int \cup {NoValue},
         Threshold(s, current, evidence) # NoValue
  PROVE  WholeUnits(Threshold(s, current, evidence))
<1> DEFINE y == Whole(s, Clamp(s, Candidate(s, current, evidence)))
           x == Clamp(s, y)
<1>1. s \in NumericSpecs /\ s.low <= s.high
  BY DEF NumericRow
<1>2. Clamp(s, Candidate(s, current, evidence)) \in Int
  BY <1>1, WholeIsInt, ClampInRange DEF Candidate
<1>3. PICK k \in Int : y = k * (Fine * Grain)
  BY <1>1, <1>2, WholeIsInt
<1>4. PICK l \in Int, h \in Int : s.low = l * Grain /\ s.high = h * Grain
  BY DEF NumericRow, WholeUnits
<1>5. y \in Int
  BY <1>1, <1>2, WholeIsInt
<1>6. x \in {y, Fine * s.low, Fine * s.high} /\ x \in Int
  BY <1>1, <1>5, ClampInRange
<1>7. Grain \in Int /\ Fine = 400
  BY StrengthenAssumption DEF Fine
<1>8. Threshold(s, current, evidence) = Round(x)
  BY DEF Threshold
<1> HIDE DEF x, y
<1>9. PICK m \in Int : x = Fine * (m * Grain)
  <2>1. CASE x = y
    BY <1>3, <1>7, <2>1
  <2>2. CASE x = Fine * s.low
    BY <1>4, <2>2
  <2>3. CASE x = Fine * s.high
    BY <1>4, <2>3
  <2> QED
    BY <1>6, <2>1, <2>2, <2>3
<1>10. m * Grain \in Int
  BY <1>7
<1>11. Round(x) = m * Grain
  <2> DEFINE g == m * Grain
  <2>1. g \in Int /\ x = Fine * g
    BY <1>9, <1>10
  <2> HIDE DEF g
  <2>2. x <= Fine * g /\ x >= Fine * g
    BY <1>7, <2>1
  <2>3. Round(x) = g
    BY <1>6, <2>1, <2>2, RoundKeepsSide
  <2> QED
    BY <2>3 DEF g
<1> QED
  BY <1>8, <1>11 DEF WholeUnits

(* What is proposed for a numeric rule that has a value. *)
LEMMA NumericTightens ==
  ASSUME NEW s, NumericRow(s), NEW current \in Int,
         NEW n \in Nat, NEW followed \in [1..n -> Int],
         NEW change, change = NumericProposal(s, current, followed),
         change.changeType # "ENFORCEMENT_REINFORCEMENT"
  PROVE  /\ change.proposed \in s.low..s.high
         /\ s.values = "WHOLE" => change.proposed % Grain = 0
         /\ change.proposed # current /\ AsStrict(s.bound, change.proposed, current)
<1> DEFINE evidence == IF Len(followed) < 2 THEN NoValue ELSE Quartile(s.bound, followed)
           value == Threshold(s, current, evidence)
<1>1. evidence \in Int \cup {NoValue}
  <2>1. Len(followed) = n
    OBVIOUS
  <2>2. CASE n < 2
    BY <2>1, <2>2
  <2>3. CASE n >= 2
    BY <2>1, <2>3, QuartileIsInt
  <2> QED
    BY <2>2, <2>3
<1>2. current # NoValue
  BY StrengthenAssumption
<1>3. change = IF value = NoValue \/ value = current THEN Reinforce(current)
               ELSE Change("THRESHOLD_ADJUSTMENT", value)
  BY <1>2 DEF NumericProposal
<1> HIDE DEF evidence, value
<1>4. value # NoValue /\ value # current /\ change.proposed = value
  BY <1>3 DEF Reinforce, Change
<1>5. value \in s.low..s.high /\ AsStrict(s.bound, value, current)
  BY <1>1, <1>4, ThresholdNeverLoosens DEF NumericRow, value
<1>6. s.values = "WHOLE" => WholeUnits(value)
  BY <1>1, <1>4, ThresholdIsWhole DEF value
<1> QED
  BY <1>4, <1>5, <1>6, WholeIsDivisible

(* Whatever the trades, what is proposed for a rule by its current value   *)
(* lies in the allowed range and is strictly tighter, unless it changes no *)
(* value.                                                                  *)
LEMMA ProposalTightens ==
  ASSUME NEW path \in Paths, NEW current \in Values, NEW trades \in Seq(Trades),
         NEW change,
         change = StrengthenProposal(path, current, FollowedValues(path, current, trades)),
         change.changeType # "ENFORCEMENT_REINFORCEMENT"
  PROVE  /\ change.proposed \in Int /\ Allowed(path, change.proposed)
         /\ Tighter(path, current, change.proposed)
<1> DEFINE s == RuleSpec(path)
           followed == FollowedValues(path, current, trades)
<1>1. NumericRow(s) \/ \E strict \in {0, 1} : s = Switch(strict)
  BY SpecIs, ReportAssumption
<1>2. CASE NumericRow(s)
  <2>1. s.kind = "NUMERIC" /\ s.low \in Int /\ s.high \in Int
    BY <1>2 DEF NumericRow, NumericSpecs
  <2>2. change = NumericProposal(s, current, followed)
    BY <2>1 DEF StrengthenProposal, RuleSpec
  <2>3. PICK n \in Nat : followed \in [1..n -> Int]
    BY FollowedIsSample
  <2>4. current \in Int
    <3>1. SUFFICES ASSUME current = NoValue PROVE FALSE
      BY DEF Values
    <3>2. Len(followed) = 0
      BY <3>1, NothingToFollow
    <3> HIDE DEF followed
    <3>3. change = Reinforce(current)
      BY <2>2, <3>1, <3>2 DEF NumericProposal, FirstThreshold
    <3> QED
      BY <3>3 DEF Reinforce
  <2> HIDE DEF followed
  <2>5. /\ change.proposed \in s.low..s.high
        /\ s.values = "WHOLE" => change.proposed % Grain = 0
        /\ change.proposed # current /\ AsStrict(s.bound, change.proposed, current)
    <3> HIDE DEF s
    <3> QED
      BY <1>2, <2>2, <2>3, <2>4, NumericTightens
  <2> QED
    BY <2>1, <2>5 DEF Allowed, Tighter, RuleSpec
<1>3. CASE \E strict \in {0, 1} : s = Switch(strict)
  <2>1. PICK strict \in {0, 1} : s = Switch(strict)
    BY <1>3
  <2>2. s.kind = "BOOLEAN" /\ s.strict = strict
    BY <2>1 DEF Switch
  <2>3. change = SwitchProposal(s, current)
    BY <2>2 DEF StrengthenProposal, RuleSpec
  <2>4. change.proposed = strict /\ (IF current = NoValue THEN 0 ELSE current) # strict
    BY <2>2, <2>3 DEF SwitchProposal, Reinforce, Change
  <2>5. current # strict
    BY <2>4, StrengthenAssumption
  <2> QED
    BY <2>2, <2>4, <2>5 DEF Allowed, Tighter, RuleSpec
<1> QED
  BY <1>1, <1>2, <1>3

-----------------------------------------------------------------------------
(* What a report proposes *)

(* The least number of a set is one of it. *)
LEMMA MinIsOne ==
  ASSUME NEW T \in SUBSET Nat, T # {}
  PROVE  Min(T) \in T
<1>1. \E m \in T : \A n \in T : m <= n
  BY LeastNumber
<1> QED
  BY <1>1 DEF Min

(* A reading names rules in use. *)
LEMMA ReadingIs ==
  ASSUME NEW text, NEW rule
  PROVE  Reading(text, rule).paths \in Seq(Paths)
<1> DEFINE same == {k \in DOMAIN Interpreted : Interpreted[k].text = text}
           own == {k \in DOMAIN Interpreted :
                     /\ Interpreted[k].paths # <<>>
                     /\ Head(Interpreted[k].paths) \in RulePaths(rule)}
           none == [text |-> text, paths |-> <<>>, stated |-> {}, review |-> FALSE]
<1>1. DOMAIN Interpreted \subseteq Nat
  BY ReportAssumption
<1>2. \A k \in DOMAIN Interpreted : Interpreted[k].paths \in Seq(Paths)
  <2> DEFINE R == [text : Texts, paths : Seq(Paths), stated : SUBSET Paths, review : BOOLEAN]
  <2>1. Interpreted \in Seq(R) /\ \A r \in R : r.paths \in Seq(Paths)
    BY ReportAssumption
  <2> HIDE DEF R
  <2> QED
    BY <2>1
<1>3. none.paths \in Seq(Paths)
  OBVIOUS
<1>4. Reading(text, rule) = IF same # {} THEN Interpreted[Min(same)]
                            ELSE IF own # {} THEN Interpreted[Min(own)] ELSE none
  BY DEF Reading
<1>5. same \in SUBSET DOMAIN Interpreted /\ own \in SUBSET DOMAIN Interpreted
  OBVIOUS
<1> HIDE DEF same, own, none
<1>6. /\ same # {} => Min(same) \in DOMAIN Interpreted
      /\ own # {} => Min(own) \in DOMAIN Interpreted
  BY <1>1, <1>5, MinIsOne
<1> QED
  BY <1>2, <1>3, <1>4, <1>6

(* So do the rules a principle is judged by. *)
LEMMA TargetsAre ==
  ASSUME NEW text, NEW rule
  PROVE  TargetRules(text, rule) \in Seq(Paths)
<1> DEFINE one == CHOOSE p \in RulePaths(rule) : TRUE
<1>1. RulePaths(rule) \subseteq Paths
  BY DEF RulePaths
<1>2. Cardinality(RulePaths(rule)) = 1 => RulePaths(rule) # {}
  BY FS_EmptySet
<1>3. Cardinality(RulePaths(rule)) = 1 => one \in Paths
  BY <1>1, <1>2
<1> HIDE DEF one
<1>4. Cardinality(RulePaths(rule)) = 1 => <<one>> \in Seq(Paths)
  BY <1>3
<1>5. TargetRules(text, rule) =
        IF Reading(text, rule).paths # <<>> THEN Reading(text, rule).paths
        ELSE IF Cardinality(RulePaths(rule)) = 1 THEN <<one>> ELSE <<>>
  BY DEF TargetRules, one
<1>6. <<>> \in Seq(Paths)
  OBVIOUS
<1> QED
  BY <1>4, <1>5, <1>6, ReadingIs

(* The rule to tighten is one of the principle's. *)
LEMMA SuggestionRuleIs ==
  ASSUME NEW targets \in Seq(Paths), targets # <<>>, NEW rule, NEW current,
         NEW trades \in Seq(Trades)
  PROVE  SuggestionRule(targets, rule, current, trades) \in Paths
<1> DEFINE broken(p) == Cardinality({k \in DOMAIN trades : Violated(p, current[p], trades[k])})
           own == {p \in Range(targets) :
                     /\ broken(p) > 0
                     /\ p \in (IF RulePaths(rule) = {} THEN {Head(targets)} ELSE RulePaths(rule))}
           f == [p \in own |-> broken(p)]
<1>1. Range(targets) \subseteq Paths /\ Head(targets) \in Paths
  BY DEF Range
<1>2. IsFiniteSet(own)
  <2>1. DOMAIN targets = 1..Len(targets) /\ Len(targets) \in Nat
    OBVIOUS
  <2>2. IsFiniteSet(DOMAIN targets)
    BY <2>1, FS_Interval
  <2>3. IsFiniteSet({targets[x] : x \in DOMAIN targets})
    BY <2>2, ValuesAreFinite
  <2>4. own \in SUBSET Range(targets)
    OBVIOUS
  <2> HIDE DEF own
  <2> QED
    BY <2>3, <2>4, FS_Subset DEF Range
<1>3. \A p \in own : f[p] \in Int
  <2> SUFFICES ASSUME NEW p \in own PROVE f[p] \in Int
    OBVIOUS
  <2> DEFINE S == {k \in DOMAIN trades : Violated(p, current[p], trades[k])}
  <2>1. DOMAIN trades = 1..Len(trades) /\ Len(trades) \in Nat
    OBVIOUS
  <2>2. IsFiniteSet(DOMAIN trades)
    BY <2>1, FS_Interval
  <2>3. S \in SUBSET DOMAIN trades
    OBVIOUS
  <2>4. f[p] = Cardinality(S)
    OBVIOUS
  <2> HIDE DEF S, f
  <2> QED
    BY <2>2, <2>3, <2>4, FS_Subset, FS_CardinalityType
<1>4. own \subseteq Paths
  BY <1>1
<1>5. own # {} => \E p \in own : \A q \in own : f[q] <= f[p]
  <2> HIDE DEF own, f
  <2> QED
    BY <1>2, <1>3, HighestExists
<1>6. own # {} => (CHOOSE p \in own : \A q \in own : broken(q) <= broken(p)) \in own
  BY <1>5
<1>7. SuggestionRule(targets, rule, current, trades) =
        IF own = {} THEN Head(targets)
        ELSE CHOOSE p \in own : \A q \in own : broken(q) <= broken(p)
  BY DEF SuggestionRule
<1> HIDE DEF own, f
<1> QED
  BY <1>1, <1>4, <1>6, <1>7

(* What the rule engine proposes. *)
Drafted(p) == p.type = "REINFORCEMENT" /\ Tightens(p)

(* Each principle yields at most one proposal, a reinforcement of the item *)
(* which tightens.                                                         *)
LEMMA SuggestionIs ==
  ASSUME NEW n \in Recs, NEW i \in Items, NEW row, row.text \in Texts, row.rule \in Rules,
         NEW conf \in Rules, NEW trades \in Seq(Trades),
         NEW p \in Suggestions(n, i, row, conf, trades)
  PROVE  Proposal(p) /\ Drafted(p)
<1> DEFINE targets == TargetRules(row.text, row.rule)
           current == [q \in Paths |-> CurrentValue(q, row.rule, conf)]
           path == SuggestionRule(targets, row.rule, current, trades)
           change == StrengthenProposal(path, current[path],
                                        FollowedValues(path, current[path], trades))
           new == IF change.changeType = "ENFORCEMENT_REINFORCEMENT"
                  THEN NoValue ELSE change.proposed
<1>1. /\ p = [rec |-> n, type |-> "REINFORCEMENT", item |-> i, text |-> row.text,
              path |-> path, current |-> current[path], value |-> new]
      /\ targets # <<>>
  BY DEF Suggestions
<1>2. current \in Rules
  BY ReportAssumption DEF CurrentValue, Rules
<1>3. path \in Paths
  BY <1>1, TargetsAre, SuggestionRuleIs
<1>4. current[path] \in Values
  BY <1>2, <1>3 DEF Rules
<1> HIDE DEF path, current
<1>5. change.changeType # "ENFORCEMENT_REINFORCEMENT" =>
        /\ change.proposed \in Int /\ Allowed(path, change.proposed)
        /\ Tighter(path, current[path], change.proposed)
  BY <1>3, <1>4, ProposalTightens
<1> HIDE DEF change, targets
<1>6. new # NoValue => Allowed(path, new) /\ Tighter(path, current[path], new)
  BY <1>5
<1>7. new \in Values
  BY <1>5 DEF Values
<1> HIDE DEF new
<1>8. Proposal(p)
  BY <1>1, <1>3, <1>4, <1>7 DEF Proposal
<1>9. /\ p.type = "REINFORCEMENT" /\ p.path = path
      /\ p.current = current[path] /\ p.value = new
  BY <1>1
<1> QED
  BY <1>6, <1>8, <1>9 DEF Drafted, Tightens

-----------------------------------------------------------------------------
(* What a narrative makes of a proposal *)

(* A value that is at least as strict in the direction of a rule is not    *)
(* looser.                                                                 *)
LEMMA StrictIsNotLooser ==
  ASSUME NEW path \in Paths, NEW v \in Int, NEW current \in Int,
         InRange(path, v), AsStrict(Direction(path), v, current)
  PROVE  ~Tighter(path, v, current)
<1> DEFINE s == RuleSpec(path)
<1>1. CASE NumericRow(s)
  <2>1. s.kind = "NUMERIC" /\ s.bound \in {"UPPER", "LOWER"}
    BY <1>1 DEF NumericRow, NumericSpecs
  <2>2. AsStrict(s.bound, v, current)
    BY <2>1 DEF Direction, RuleSpec
  <2>3. Tighter(path, v, current) <=> v # current /\ AsStrict(s.bound, current, v)
    BY <2>1 DEF Tighter, RuleSpec
  <2> QED
    BY <2>1, <2>2, <2>3 DEF AsStrict
<1>2. ASSUME NEW strict \in {0, 1}, s = Switch(strict)
      PROVE  ~Tighter(path, v, current)
  <2>1. s.kind = "BOOLEAN" /\ s.strict = strict
    BY <1>2 DEF Switch
  <2>2. v \in 0..1 /\ AsStrict(IF strict = 0 THEN "UPPER" ELSE "LOWER", v, current)
    BY <2>1 DEF InRange, Direction, RuleSpec
  <2>3. Tighter(path, v, current) <=> v # strict /\ current = strict
    BY <2>1 DEF Tighter, RuleSpec
  <2> QED
    BY <2>2, <2>3 DEF AsStrict
<1> QED
  BY <1>1, <1>2, SpecIs, ReportAssumption

(* What tightens stays in range and is not looser. *)
LEMMA TightIsKept ==
  ASSUME NEW p, Proposal(p), Tightens(p)
  PROVE  Keeps(p)
<1> SUFFICES ASSUME p.value # NoValue PROVE Keeps(p)
  BY DEF Keeps
<1> DEFINE path == p.path
           v == p.value
           s == RuleSpec(path)
<1>1. path \in Paths /\ v \in Int /\ p.current \in Values
  BY DEF Proposal, Values
<1>2. Allowed(path, v) /\ (p.current # NoValue => Tighter(path, p.current, v))
  BY DEF Tightens
<1>3. ASSUME NumericRow(s)
      PROVE  InRange(path, v) /\ (p.current # NoValue => ~Tighter(path, v, p.current))
  <2>1. s.kind = "NUMERIC" /\ s.bound \in {"UPPER", "LOWER"}
    BY <1>3 DEF NumericRow, NumericSpecs
  <2>2. InRange(path, v)
    BY <1>2, <2>1 DEF Allowed, InRange, RuleSpec
  <2>3. \A a, b : Tighter(path, a, b) <=> a # b /\ AsStrict(s.bound, b, a)
    BY <2>1 DEF Tighter, RuleSpec
  <2> QED
    BY <1>1, <1>2, <2>1, <2>2, <2>3 DEF AsStrict, Values
<1>4. ASSUME NEW strict \in {0, 1}, s = Switch(strict)
      PROVE  InRange(path, v) /\ (p.current # NoValue => ~Tighter(path, v, p.current))
  <2>1. s.kind = "BOOLEAN" /\ s.strict = strict
    BY <1>4 DEF Switch
  <2>2. InRange(path, v)
    BY <1>2, <2>1 DEF Allowed, InRange, RuleSpec
  <2>3. \A a, b : Tighter(path, a, b) <=> a # strict /\ b = strict
    BY <2>1 DEF Tighter, RuleSpec
  <2> QED
    BY <1>2, <2>2, <2>3
<1> QED
  BY <1>1, <1>3, <1>4, SpecIs, ReportAssumption DEF Keeps

(* A narrative leaves a proposal a proposal, for the same recommendation,  *)
(* and one the rule engine made in range and not looser.                   *)
LEMMA NarrationIs ==
  ASSUME NEW p, Proposal(p), NEW q \in Narrations(p)
  PROVE  Proposal(q) /\ (Drafted(p) => Keeps(q))
<1>1. PICK w \in IF p.type = "DISCOVERY" THEN {[p EXCEPT !.text = t] : t \in Texts} ELSE {p},
           v \in {p.value} \cup {v \in Answers[p.path] : Mergeable(p, v)} :
        q = [w EXCEPT !.value = v]
  BY DEF Narrations
<1>2. p.path \in Paths /\ p.current \in Values /\ p.value \in Values
  BY DEF Proposal
<1>3. Answers[p.path] \subseteq Int
  BY <1>2, PrincipleAssumption
<1>4. Proposal(w) /\ v \in Values
  BY <1>1, <1>2, <1>3 DEF Proposal, Values
<1>5. Proposal(q)
  BY <1>1, <1>4 DEF Proposal
<1>6. ASSUME Drafted(p) PROVE Keeps(q)
  <2>1. w = p /\ p.type = "REINFORCEMENT"
    BY <1>1, <1>6 DEF Drafted
  <2>2. q.path = p.path /\ q.current = p.current /\ q.value = v
    BY <1>1, <2>1 DEF Proposal
  <2>3. CASE v = p.value
    <3>1. Tightens(q)
      BY <1>6, <2>2, <2>3 DEF Drafted, Tightens
    <3> QED
      BY <1>5, <3>1, TightIsKept
  <2>4. CASE v \in Answers[p.path] /\ Mergeable(p, v)
    <3>1. /\ v \in Int /\ InRange(p.path, v)
          /\ p.current # NoValue => AsStrict(Direction(p.path), v, p.current)
      BY <1>3, <2>1, <2>4 DEF Mergeable
    <3>2. p.current # NoValue => ~Tighter(p.path, v, p.current)
      BY <1>2, <3>1, StrictIsNotLooser DEF Values
    <3> QED
      BY <2>2, <3>1, <3>2 DEF Keeps
  <2> QED
    BY <1>1, <2>3, <2>4
<1> QED
  BY <1>5, <1>6

-----------------------------------------------------------------------------
(* The tables *)

RowOK(r, n) ==
  /\ r = Row(r.set, r.origin, r.text, r.rule, r.sort)
  /\ r.set \in 1..n /\ r.text \in Texts /\ r.rule \in Rules /\ r.sort \in Nat

(* Rows of the sets up to n, in the table or in what a transaction sees.   *)
Formed(table, n) ==
  /\ table = [i \in Ids(table) |-> table[i]]
  /\ Ids(table) \subseteq Nat /\ IsFiniteSet(Ids(table))
  /\ \A i \in Ids(table) : RowOK(table[i], n)

TablesOK ==
  /\ sets \in 1..MaxSets /\ Formed(item, sets) /\ Ids(item) \subseteq Items
  /\ confirmed \in Rules

(* A run's reports hold proposals: those built without a model, unless an  *)
(* earlier version did, what the rule engine drafts; the stored one what a *)
(* narrative may leave of that.                                            *)
ReportsOK ==
  /\ drafts = [s \in Sims |-> drafts[s]] /\ report = [s \in Sims |-> report[s]]
  /\ \A s \in Sims :
       /\ \A draft \in drafts[s] : \A p \in draft :
            Proposal(p) /\ (~Inherited(s) => Drafted(p))
       /\ \A p \in report[s] \ NoReport : Proposal(p) /\ (~Inherited(s) => Keeps(p))
       /\ report[s] # NoReport => drafts[s] # {}

(* A request accepts a proposal a stored report held, and what it has read *)
(* is there still.                                                         *)
Reinforcing(c) == client[c].pc = "write" /\ client[c].proposal.type = "REINFORCEMENT"
RequestOK(c) ==
  /\ client[c].pc \in {"idle", "claim", "read", "write", "save"}
  /\ client[c].pc \in {"claim", "read", "write"} =>
       /\ client[c].sim \in Sims /\ drafts[client[c].sim] # {}
       /\ Proposal(client[c].proposal)
       /\ ~Inherited(client[c].sim) => Keeps(client[c].proposal)
  /\ client[c].pc = "write" /\ client[c].proposal.type = "DISCOVERY" =>
       client[c].set \in 1..sets /\ client[c].sort \in Nat
  /\ Reinforcing(c) =>
       /\ client[c].found \in Ids(item) /\ client[c].seen \in Rules
       /\ client[c].proposal.item \in {client[c].found, NoItem}
  /\ client[c].pc = "save" =>
       /\ client[c].set \in 1..sets /\ client[c].list \in SaveLists
       /\ Formed(client[c].view, sets)
RequestsOK == client = [c \in Clients |-> client[c]] /\ \A c \in Clients : RequestOK(c)

BookInv == TablesOK /\ ReportsOK /\ RequestsOK

-----------------------------------------------------------------------------
(* What is written keeps the form of a table *)

(* A row is replaced, or added to the others. *)
LEMMA PutFormed ==
  ASSUME NEW n \in Nat, NEW table, Formed(table, n), NEW id \in Nat, NEW row, RowOK(row, n)
  PROVE  /\ Formed(Put(table, id, row), n)
         /\ Ids(Put(table, id, row)) = Ids(table) \cup {id}
<1>1. Ids(Put(table, id, row)) = Ids(table) \cup {id}
  BY DEF Ids, Put
<1>2. IsFiniteSet(Ids(table) \cup {id})
  BY FS_AddElement DEF Formed
<1>3. \A i \in Ids(table) \cup {id} :
        Put(table, id, row)[i] = IF i = id THEN row ELSE table[i]
  BY DEF Put
<1>4. Put(table, id, row) = [i \in Ids(Put(table, id, row)) |-> Put(table, id, row)[i]]
  BY <1>1, <1>3 DEF Put
<1> QED
  BY <1>1, <1>2, <1>3, <1>4 DEF Formed

(* The id the next row gets is a number. *)
LEMMA NextIsNat ==
  ASSUME NEW n, NEW table, Formed(table, n)
  PROVE  NextId(table) \in Nat
BY FS_CardinalityType DEF Formed, NextId

(* A row of typed columns. *)
LEMMA RowIs ==
  ASSUME NEW n, NEW set \in 1..n, NEW origin, NEW text \in Texts, NEW rule \in Rules, NEW sort \in Nat
  PROVE  RowOK(Row(set, origin, text, rule, sort), n)
BY DEF RowOK, Row

(* Sets are added behind those there are. *)
LEMMA FormedStays ==
  ASSUME NEW n \in Nat, NEW m \in Nat, n <= m, NEW table, Formed(table, n)
  PROVE  Formed(table, m)
BY DEF Formed, RowOK

(* The rule that holds only the value a proposal asks for. *)
LEMMA PatchIsRule == ASSUME NEW p, Proposal(p) PROVE Patch(p) \in Rules
BY DEF Patch, Proposal, NoRule, Rules, Values

-----------------------------------------------------------------------------
(* POST /principles *)

(* What a save writes and sees, from the items it found on. *)
Seen(both, n, first) ==
  Formed(both.table, n) /\ Formed(both.view, n) /\ Ids(first) \subseteq Ids(both.table)

(* An entry adds a row or writes one over. *)
LEMMA SaveEntryFormed ==
  ASSUME NEW n \in Nat, NEW set \in 1..n, NEW entry, entry.text \in Texts, entry.rule \in Rules,
         entry.sort \in Nat, NEW both, NEW first, Seen(both, n, first)
  PROVE  Seen(SaveEntry(set, entry, both), n, first)
<1> DEFINE old == Existing(both.view, set, entry)
           id == IF old = {} THEN NextId(both.table) ELSE Min(old)
           origin == IF old = {} THEN entry.rec ELSE both.view[id].origin
           row == Row(set, origin, entry.text, entry.rule, entry.sort)
<1>1. old \subseteq Ids(both.view)
  BY DEF Existing
<1>2. old \in SUBSET Nat
  BY <1>1 DEF Seen, Formed
<1>3. id \in Nat
  BY <1>2, MinIsOne, NextIsNat DEF Seen
<1>4. RowOK(row, n)
  BY RowIs
<1>5. SaveEntry(set, entry, both) =
        [table |-> Put(both.table, id, row), view |-> Put(both.view, id, row)]
  BY DEF SaveEntry
<1> HIDE DEF id, row
<1> QED
  BY <1>3, <1>4, <1>5, PutFormed DEF Seen

(* And so does the list of them, entry by entry. *)
LEMMA SavedFormed ==
  ASSUME NEW n \in Nat, NEW r, r.set \in 1..n, r.list \in SaveLists,
         Formed(item, n), Formed(r.view, n)
  PROVE  Formed(Saved(r), n) /\ Ids(item) \subseteq Ids(Saved(r))
<1> DEFINE first == [table |-> item, view |-> r.view]
           Rec(f, m) == f = [k \in 0..m |-> IF k = 0 THEN first
                                           ELSE SaveEntry(r.set, r.list[k], f[k - 1])]
           last == Len(r.list)
           after == CHOOSE f : Rec(f, last)
<1>1. r.list \in Seq([rec : Nat \cup {NoItem}, text : Texts, rule : Rules, sort : Nat])
  BY PrincipleAssumption
<1>2. last \in Nat /\ \A k \in 1..last :
        r.list[k].text \in Texts /\ r.list[k].rule \in Rules /\ r.list[k].sort \in Nat
  <2> DEFINE E == [rec : Nat \cup {NoItem}, text : Texts, rule : Rules, sort : Nat]
  <2>1. r.list \in Seq(E) /\ \A e \in E : e.text \in Texts /\ e.rule \in Rules /\ e.sort \in Nat
    BY <1>1
  <2> HIDE DEF E
  <2> QED
    BY <2>1
<1>3. \A m \in Nat : \E f : Rec(f, m)
  <2> DEFINE S == {m \in Nat : \E f : Rec(f, m)}
  <2>1. 0 \in S
    <3> DEFINE f == [k \in 0..0 |-> first]
    <3>1. f = [k \in 0..0 |-> IF k = 0 THEN first ELSE SaveEntry(r.set, r.list[k], f[k - 1])]
      <4> HIDE DEF first
      <4> QED
        OBVIOUS
    <3> QED
      BY <3>1
  <2>2. ASSUME NEW m \in Nat, m \in S PROVE m + 1 \in S
    <3>1. PICK f : Rec(f, m)
      BY <2>2
    <3> DEFINE g == [k \in 0..(m + 1) |->
                       IF k = m + 1 THEN SaveEntry(r.set, r.list[m + 1], f[m]) ELSE f[k]]
    <3>2. \A k \in 0..(m + 1) : k = m + 1 \/ k \in 0..m
      OBVIOUS
    <3>3. ASSUME NEW k \in 0..(m + 1)
          PROVE  g[k] = IF k = 0 THEN first ELSE SaveEntry(r.set, r.list[k], g[k - 1])
      <4>1. CASE k = m + 1
        <5>1. g[k] = SaveEntry(r.set, r.list[m + 1], f[m]) /\ g[k - 1] = f[m] /\ k # 0
          BY <4>1
        <5> QED
          BY <4>1, <5>1
      <4>2. CASE k # m + 1
        <5>1. k \in 0..m /\ g[k] = f[k] /\ (k # 0 => g[k - 1] = f[k - 1])
          BY <3>2, <4>2
        <5>2. f[k] = IF k = 0 THEN first ELSE SaveEntry(r.set, r.list[k], f[k - 1])
          BY <3>1, <5>1
        <5> HIDE DEF first, g
        <5> QED
          BY <5>1, <5>2
      <4> QED
        BY <4>1, <4>2
    <3>4. Rec(g, m + 1)
      <4>1. g = [k \in 0..(m + 1) |-> g[k]]
        OBVIOUS
      <4> HIDE DEF g, first
      <4> QED
        BY <3>3, <4>1
    <3> HIDE DEF g, Rec
    <3>5. \E f2 : Rec(f2, m + 1)
      BY <3>4
    <3> QED
      BY <3>5
  <2> HIDE DEF S
  <2>3. \A m \in Nat : m \in S
    BY <2>1, <2>2, AllNumbers
  <2> QED
    BY <2>3 DEF S
<1>4. Rec(after, last)
  BY <1>2, <1>3
<1>5. Saved(r) = after[last].table
  BY DEF Saved
<1> HIDE DEF after
<1>6. /\ after[0] = first
      /\ \A k \in 1..last : after[k] = SaveEntry(r.set, r.list[k], after[k - 1])
  <2>1. last \in Nat /\ Rec(after, last)
    BY <1>2, <1>4
  <2> HIDE DEF last, first
  <2>2. 0 \in 0..last /\ \A k \in 1..last : k \in 0..last /\ k # 0
    BY <2>1
  <2> QED
    BY <2>1, <2>2
<1>7. Seen(first, n, item)
  BY DEF Seen
<1> HIDE DEF first, last, Rec
<1> DEFINE G == {m \in Nat : m <= last => Seen(after[m], n, item)}
<1>8. 0 \in G
  BY <1>6, <1>7
<1>9. ASSUME NEW m \in Nat, m \in G PROVE m + 1 \in G
  <2> SUFFICES ASSUME m + 1 <= last PROVE Seen(after[m + 1], n, item)
    OBVIOUS
  <2>1. m + 1 \in 1..last /\ Seen(after[m], n, item) /\ (m + 1) - 1 = m
    BY <1>2, <1>9
  <2>2. after[m + 1] = SaveEntry(r.set, r.list[m + 1], after[m])
    BY <1>6, <2>1
  <2> QED
    BY <1>2, <2>1, <2>2, SaveEntryFormed
<1> HIDE DEF G
<1>10. \A m \in Nat : m \in G
  BY <1>8, <1>9, AllNumbers
<1>11. Seen(after[last], n, item)
  BY <1>2, <1>10 DEF G
<1> QED
  BY <1>5, <1>11 DEF Seen

-----------------------------------------------------------------------------
(* Places in the catalog and in a set *)

(* An active item's place in the catalog is the number of a principle. *)
LEMMA PlaceIsRec ==
  ASSUME TablesOK, NEW i \in Active
  PROVE  Place(i) \in Recs /\ i \in Items
<1> DEFINE S == {j \in Active : \/ item[j].sort < item[i].sort
                                \/ item[j].sort = item[i].sort /\ j <= i}
<1>1. i \in S /\ S \subseteq Items /\ i \in Items
  BY DEF TablesOK, Formed, RowOK, Active
<1>2. MaxItems \in Nat /\ IsFiniteSet(Items) /\ Cardinality(Items) = MaxItems
  BY FS_Interval, PrincipleAssumption DEF Items
<1>3. Place(i) = Cardinality(S)
  BY DEF Place
<1> HIDE DEF S
<1>4. IsFiniteSet(S) /\ Cardinality(S) <= MaxItems
  BY <1>1, <1>2, FS_Subset
<1>5. Cardinality(S) \in Nat /\ Cardinality(S) # 0
  BY <1>1, <1>4, FS_CardinalityType, FS_EmptySet
<1> QED
  BY <1>1, <1>2, <1>3, <1>4, <1>5 DEF Recs

(* The place behind the items of a set. *)
LEMMA NextSortIs ==
  ASSUME TablesOK, NEW set
  PROVE  NextSort(set) \in Nat
<1> DEFINE own == {j \in Ids(item) : item[j].set = set}
           sorts == {item[i].sort : i \in own}
           f == [n \in sorts |-> n]
<1>1. IsFiniteSet(own)
  BY FS_Subset DEF TablesOK, Formed
<1>2. IsFiniteSet(sorts)
  <2> DEFINE g == [i \in own |-> item[i].sort]
  <2>1. IsFiniteSet({g[i] : i \in own})
    BY <1>1, ValuesAreFinite
  <2>2. sorts = {g[i] : i \in own}
    OBVIOUS
  <2> QED
    BY <2>1, <2>2
<1>3. sorts \in SUBSET Nat
  BY DEF TablesOK, Formed, RowOK
<1>4. NextSort(set) = IF sorts = {} THEN 1 ELSE Max(sorts) + 1
  BY DEF NextSort
<1> HIDE DEF sorts
<1>5. \A n \in sorts : f[n] = n /\ f[n] \in Int
  BY <1>3
<1> HIDE DEF f
<1>6. sorts # {} => \E m \in sorts : \A n \in sorts : f[n] <= f[m]
  BY <1>2, <1>5, HighestExists
<1>7. sorts # {} => \E m \in sorts : \A n \in sorts : n <= m
  BY <1>5, <1>6
<1>8. sorts # {} => Max(sorts) \in Nat
  BY <1>3, <1>7 DEF Max
<1> QED
  BY <1>4, <1>8

-----------------------------------------------------------------------------
(* The invariant of the tables, the reports and the requests *)

(* The user starts with a set of items, and nothing under way. *)
LEMMA InitBookInv == Init => BookInv
<1> SUFFICES ASSUME Init PROVE BookInv
  OBVIOUS
<1>1. PICK first \in FirstItems :
        item = [i \in 1..Len(first) |-> Row(1, NoItem, first[i].text, first[i].rule, i)]
  BY DEF Init
<1> DEFINE E == [text : Texts, rule : Rules]
<1>2. first \in Seq(E) /\ Len(first) \in Items /\ \A e \in E : e.text \in Texts /\ e.rule \in Rules
  BY PrincipleAssumption
<1> HIDE DEF E
<1>3. Ids(item) = 1..Len(first) /\ Len(first) \in 1..MaxItems /\ MaxItems \in Nat
  BY <1>1, <1>2, PrincipleAssumption DEF Ids, Items
<1>4. \A i \in Ids(item) : RowOK(item[i], 1)
  <2> SUFFICES ASSUME NEW i \in Ids(item) PROVE RowOK(item[i], 1)
    OBVIOUS
  <2>1. item[i] = Row(1, NoItem, first[i].text, first[i].rule, i) /\ i \in Nat /\ first[i] \in E
    BY <1>1, <1>2, <1>3
  <2>2. first[i].text \in Texts /\ first[i].rule \in Rules /\ 1 \in 1..1
    BY <1>2, <2>1
  <2> QED
    BY <2>1, <2>2, RowIs
<1>5. Formed(item, 1)
  <2>1. item = [i \in Ids(item) |-> item[i]]
    BY <1>1, <1>3
  <2>2. Ids(item) \subseteq Nat /\ IsFiniteSet(Ids(item))
    BY <1>3, FS_Interval
  <2> QED
    BY <1>4, <2>1, <2>2 DEF Formed
<1>6. TablesOK
  <2>1. sets = 1 /\ 1 \in 1..MaxSets
    BY PrincipleAssumption DEF Init
  <2>2. Ids(item) \subseteq Items
    BY <1>3 DEF Items
  <2>3. confirmed \in Rules
    BY DEF Init, NoRule, Rules, Values
  <2> QED
    BY <1>5, <2>1, <2>2, <2>3 DEF TablesOK
<1>7. ReportsOK
  BY DEF Init, ReportsOK, NoReport
<1>8. RequestsOK
  BY DEF Init, RequestsOK, RequestOK, Reinforcing, Idle
<1> QED
  BY <1>6, <1>7, <1>8 DEF BookInv

(* Items and sets are only added, and a run is judged once. *)
Grows ==
  /\ Ids(item) \subseteq Ids(item') /\ sets \in Nat /\ sets' \in Nat /\ sets <= sets'
  /\ \A s \in Sims : drafts[s] # {} => drafts'[s] = drafts[s]

(* Then a request that does nothing is as good as before. *)
LEMMA RequestStays ==
  ASSUME Grows, NEW c \in Clients, RequestOK(c), client'[c] = client[c]
  PROVE  RequestOK(c)'
<1>1. \A n : n \in 1..sets => n \in 1..sets'
  BY DEF Grows
<1>2. \A table : Formed(table, sets) => Formed(table, sets')
  BY FormedStays DEF Grows
<1>3. client[c].pc \in {"claim", "read", "write"} =>
        drafts'[client[c].sim] = drafts[client[c].sim]
  BY DEF Grows, RequestOK
<1>4. (/\ client[c].pc \in {"claim", "read", "write"} =>
            /\ client[c].sim \in Sims /\ drafts[client[c].sim] # {}
            /\ Proposal(client[c].proposal)
            /\ ~Inherited(client[c].sim) => Keeps(client[c].proposal))'
  BY <1>3 DEF RequestOK, Inherited
<1> QED
  BY <1>1, <1>2, <1>4 DEF Grows, RequestOK, Reinforcing

(* So a step of one request has only this one to account for. *)
LEMMA OneRequest ==
  ASSUME BookInv, Grows, NEW c \in Clients, client' = [client EXCEPT ![c] = client'[c]],
         RequestOK(c)'
  PROVE  RequestsOK'
<1>1. client' = [d \in Clients |-> client'[d]] /\ \A d \in Clients \ {c} : client'[d] = client[d]
  BY DEF BookInv, RequestsOK
<1>2. \A d \in Clients \ {c} : RequestOK(d)'
  BY <1>1, RequestStays DEF BookInv, RequestsOK
<1> QED
  BY <1>1, <1>2 DEF RequestsOK

(* A step that leaves the tables and the reports alone. *)
LEMMA OnlyRequest ==
  ASSUME BookInv, UNCHANGED <<tables, reports>>, NEW c \in Clients, NEW r,
         client' = [client EXCEPT ![c] = r], client'[c] = r => RequestOK(c)'
  PROVE  BookInv'
<1>1. Grows
  BY PrincipleAssumption DEF BookInv, TablesOK, Grows, tables, reports
<1>2. client'[c] = r
  BY DEF BookInv, RequestsOK
<1>3. RequestsOK'
  BY <1>1, <1>2, OneRequest
<1>4. TablesOK' /\ ReportsOK'
  BY DEF BookInv, TablesOK, ReportsOK, Inherited, tables, reports, Formed, RowOK
<1> QED
  BY <1>3, <1>4 DEF BookInv

(* A step that writes the items, or adds a set. *)
LEMMA TablesWritten ==
  ASSUME BookInv, TablesOK', Ids(item) \subseteq Ids(item'), sets <= sets',
         UNCHANGED reports, NEW c \in Clients,
         client' = client \/ client' = [client EXCEPT ![c] = Idle]
  PROVE  BookInv'
<1>1. Grows
  BY PrincipleAssumption DEF BookInv, TablesOK, Grows, reports
<1>2. ReportsOK'
  BY DEF BookInv, ReportsOK, Inherited, reports
<1>3. RequestsOK'
  <2>1. CASE client' = client
    BY <1>1, <2>1, RequestStays DEF BookInv, RequestsOK
  <2>2. CASE client' = [client EXCEPT ![c] = Idle]
    <3>1. client'[c] = Idle
      BY <2>2 DEF BookInv, RequestsOK
    <3>2. RequestOK(c)'
      BY <3>1 DEF RequestOK, Reinforcing, Idle
    <3> QED
      BY <1>1, <2>2, <3>1, <3>2, OneRequest
  <2> QED
    BY <2>1, <2>2
<1> QED
  BY <1>2, <1>3 DEF BookInv

-----------------------------------------------------------------------------
(* One step of each kind *)

(* A step that writes the reports alone. *)
LEMMA ReportsWritten ==
  ASSUME BookInv, ReportsOK', UNCHANGED <<tables, client>>,
         \A s \in Sims : drafts[s] # {} => drafts'[s] = drafts[s]
  PROVE  BookInv'
<1>1. Grows
  BY PrincipleAssumption DEF BookInv, TablesOK, Grows, tables
<1>2. RequestsOK'
  BY <1>1, RequestStays DEF BookInv, RequestsOK
<1>3. TablesOK'
  BY DEF BookInv, TablesOK, Formed, RowOK, tables
<1> QED
  BY <1>2, <1>3 DEF BookInv

(* A run's own proposals tighten, whatever trades were measured. *)
LEMMA EvaluateKeepsBook ==
  ASSUME BookInv, NEW s \in Sims, Evaluate(s)
  PROVE  BookInv'
<1> DEFINE drafted == {Proposed(trades) : trades \in Measurements}
<1>1. /\ drafts[s] = {} /\ UNCHANGED <<tables, report, client>>
      /\ drafts' = [drafts EXCEPT ![s] = drafted]
  BY DEF Evaluate
<1>2. \A draft \in drafted : \A p \in draft : Proposal(p) /\ Drafted(p)
  <2> SUFFICES ASSUME NEW trades \in Measurements, NEW p \in Proposed(trades)
               PROVE  Proposal(p) /\ Drafted(p)
    OBVIOUS
  <2>1. PICK i \in Active : p \in Suggestions(Place(i), i, item[i], confirmed, trades)
    BY DEF Proposed
  <2>2. Place(i) \in Recs /\ i \in Items
    BY PlaceIsRec DEF BookInv
  <2>3. item[i].text \in Texts /\ item[i].rule \in Rules /\ confirmed \in Rules
    BY DEF BookInv, TablesOK, Formed, RowOK, Active
  <2>4. trades \in Seq(Trades)
    BY PrincipleAssumption
  <2> QED
    BY <2>1, <2>2, <2>3, <2>4, SuggestionIs
<1> HIDE DEF drafted
<1>3. /\ drafts' = [d \in Sims |-> drafts'[d]]
      /\ drafts'[s] = drafted /\ \A d \in Sims \ {s} : drafts'[d] = drafts[d]
  BY <1>1 DEF BookInv, ReportsOK
<1>4. report[s] = NoReport
  BY <1>1 DEF BookInv, ReportsOK
<1>5. ReportsOK'
  BY <1>1, <1>2, <1>3, <1>4 DEF BookInv, ReportsOK, Inherited, NoReport
<1> QED
  BY <1>1, <1>3, <1>5, ReportsWritten

(* An earlier version's report holds proposals. *)
LEMMA InheritKeepsBook ==
  ASSUME BookInv, NEW s \in Sims, Inherit(s)
  PROVE  BookInv'
<1>1. PICK old \in OldProposals :
        drafts' = [drafts EXCEPT ![s] = {old}] /\ report' = [report EXCEPT ![s] = old]
  BY DEF Inherit
<1>2. drafts[s] = {} /\ UNCHANGED <<tables, client>>
  BY DEF Inherit
<1>3. /\ drafts' = [d \in Sims |-> drafts'[d]] /\ report' = [d \in Sims |-> report'[d]]
      /\ drafts'[s] = {old} /\ report'[s] = old
      /\ \A d \in Sims \ {s} : drafts'[d] = drafts[d] /\ report'[d] = report[d]
  BY <1>1 DEF BookInv, ReportsOK
<1>4. \A p \in old : Proposal(p)
  BY PrincipleAssumption
<1>5. ReportsOK'
  BY <1>3, <1>4 DEF BookInv, ReportsOK, Inherited, NoReport
<1> QED
  BY <1>2, <1>3, <1>5, ReportsWritten

(* A step that stores a report of a run over the one there is. *)
LEMMA StoreKeepsBook ==
  ASSUME BookInv, NEW s \in Sims, drafts[s] # {}, NEW stored,
         report' = [report EXCEPT ![s] = stored], UNCHANGED <<tables, drafts, client>>,
         \A p \in stored : Proposal(p) /\ (~Inherited(s) => Keeps(p))
  PROVE  BookInv'
<1>1. /\ report' = [d \in Sims |-> report'[d]]
      /\ report'[s] = stored /\ \A d \in Sims \ {s} : report'[d] = report[d]
  BY DEF BookInv, ReportsOK
<1>2. ReportsOK'
  BY <1>1 DEF BookInv, ReportsOK, Inherited, NoReport
<1> QED
  BY <1>2, ReportsWritten

(* The job or a GET stores what the rule engine drafts. *)
LEMMA ReportKeepsBook ==
  ASSUME BookInv, NEW s \in Sims, Report(s)
  PROVE  BookInv'
<1>1. PICK draft \in drafts[s] : report' = [report EXCEPT ![s] = draft]
  BY DEF Report
<1>2. ~Inherited(s) /\ UNCHANGED <<tables, drafts, client>>
  BY DEF Report
<1>3. \A p \in draft : Proposal(p) /\ Drafted(p)
  BY <1>2 DEF BookInv, ReportsOK
<1>4. \A p \in draft : Proposal(p) /\ Keeps(p)
  BY <1>3, TightIsKept DEF Drafted
<1> QED
  BY <1>1, <1>2, <1>4, StoreKeepsBook

(* A narrative stores what the model's answers make of that. *)
LEMMA NarrateKeepsBook ==
  ASSUME BookInv, NEW s \in Sims, Narrate(s)
  PROVE  BookInv'
<1>1. PICK draft \in drafts[s] :
        \E answer \in [draft -> UNION {Narrations(p) : p \in draft}] :
          /\ \A p \in draft : answer[p] \in Narrations(p)
          /\ report' = [report EXCEPT ![s] = Range(answer)]
  BY DEF Narrate
<1>2. PICK answer \in [draft -> UNION {Narrations(p) : p \in draft}] :
        /\ \A p \in draft : answer[p] \in Narrations(p)
        /\ report' = [report EXCEPT ![s] = Range(answer)]
  BY <1>1
<1>3. UNCHANGED <<tables, drafts, client>>
  BY DEF Narrate
<1>4. \A p \in draft : Proposal(p) /\ (~Inherited(s) => Drafted(p))
  BY DEF BookInv, ReportsOK
<1>5. ASSUME NEW q \in Range(answer) PROVE Proposal(q) /\ (~Inherited(s) => Keeps(q))
  <2>1. PICK p \in draft : q = answer[p]
    BY DEF Range
  <2> QED
    BY <1>2, <1>4, <2>1, NarrationIs
<1> QED
  BY <1>2, <1>3, <1>5, StoreKeepsBook

(* A request takes a proposal of a stored report. *)
LEMMA AskKeepsBook ==
  ASSUME BookInv, NEW c \in Clients, Ask(c)
  PROVE  BookInv'
<1>1. PICK s \in Sims : \E p \in report[s] \ NoReport :
        client' = [client EXCEPT ![c] = [pc |-> "claim", sim |-> s, proposal |-> p]]
  BY DEF Ask
<1>2. PICK p \in report[s] \ NoReport :
        client' = [client EXCEPT ![c] = [pc |-> "claim", sim |-> s, proposal |-> p]]
  BY <1>1
<1>3. UNCHANGED <<tables, reports>>
  BY DEF Ask
<1>4. ASSUME client'[c] = [pc |-> "claim", sim |-> s, proposal |-> p] PROVE RequestOK(c)'
  <2>1. drafts' = drafts /\ drafts[s] # {} /\ Proposal(p) /\ (~Inherited(s) => Keeps(p))
    BY <1>2, <1>3 DEF BookInv, ReportsOK, NoReport, reports
  <2> QED
    BY <1>4, <2>1 DEF RequestOK, Reinforcing, Inherited
<1> QED
  BY <1>2, <1>3, <1>4, OnlyRequest

(* It keeps the proposal when it has claimed the key. *)
LEMMA ClaimKeepsBook ==
  ASSUME BookInv, NEW c \in Clients, Claim(c)
  PROVE  BookInv'
<1> DEFINE r == [pc |-> "read", sim |-> client[c].sim, proposal |-> client[c].proposal]
<1>1. client[c].pc = "claim" /\ UNCHANGED <<tables, reports>>
  BY DEF Claim
<1>2. client' = [client EXCEPT ![c] = r]
  BY DEF Claim
<1>3. ASSUME client'[c] = r PROVE RequestOK(c)'
  BY <1>1, <1>3 DEF BookInv, RequestsOK, RequestOK, Reinforcing, Inherited, reports
<1> HIDE DEF r
<1> QED
  BY <1>1, <1>2, <1>3, OnlyRequest

(* A request that is over. *)
LEMMA OverKeepsBook ==
  ASSUME BookInv, UNCHANGED <<tables, reports>>, NEW c \in Clients,
         client' = [client EXCEPT ![c] = Idle]
  PROVE  BookInv'
<1>1. ASSUME client'[c] = Idle PROVE RequestOK(c)'
  BY <1>1 DEF RequestOK, Reinforcing, Idle
<1> QED
  BY <1>1, OnlyRequest

(* The place of a discovery is in a set there is. *)
LEMMA ReadPlaceKeepsBook ==
  ASSUME BookInv, NEW c \in Clients, ReadPlace(c)
  PROVE  BookInv'
<1> DEFINE r == [pc |-> "write", sim |-> client[c].sim, proposal |-> client[c].proposal,
                 set |-> sets, sort |-> NextSort(sets)]
<1>1. /\ client[c].pc = "read" /\ client[c].proposal.type = "DISCOVERY"
      /\ UNCHANGED <<tables, reports>>
  BY DEF ReadPlace
<1>2. client' = [client EXCEPT ![c] = r]
  BY DEF ReadPlace
<1>3. sets \in 1..sets /\ NextSort(sets) \in Nat
  BY NextSortIs DEF BookInv, TablesOK
<1>4. ASSUME client'[c] = r PROVE RequestOK(c)'
  BY <1>1, <1>3, <1>4
     DEF BookInv, RequestsOK, RequestOK, Reinforcing, Inherited, tables, reports
<1> HIDE DEF r
<1> QED
  BY <1>1, <1>2, <1>4, OnlyRequest

(* The item found is the one the proposal names, if it names one. *)
LEMMA ReadItemKeepsBook ==
  ASSUME BookInv, NEW c \in Clients, ReadItem(c)
  PROVE  BookInv'
<1>1. /\ client[c].pc = "read" /\ client[c].proposal.type = "REINFORCEMENT"
      /\ UNCHANGED <<tables, reports>>
  BY DEF ReadItem
<1>2. PICK i \in Candidates(client[c].proposal) :
        client' = [client EXCEPT ![c] =
          [pc |-> "write", sim |-> client[c].sim, proposal |-> client[c].proposal,
           found |-> i, seen |-> item[i].rule]]
  BY DEF ReadItem
<1> DEFINE r == [pc |-> "write", sim |-> client[c].sim, proposal |-> client[c].proposal,
                 found |-> i, seen |-> item[i].rule]
<1>3. i \in Ids(item) /\ client[c].proposal.item \in {i, NoItem}
  BY DEF Candidates, Active
<1>4. item[i].rule \in Rules
  BY <1>3 DEF BookInv, TablesOK, Formed, RowOK
<1>5. ASSUME client'[c] = r PROVE RequestOK(c)'
  BY <1>1, <1>3, <1>4, <1>5
     DEF BookInv, RequestsOK, RequestOK, Reinforcing, Inherited, tables, reports
<1>6. client' = [client EXCEPT ![c] = r]
  BY <1>2
<1> HIDE DEF r
<1> QED
  BY <1>1, <1>5, <1>6, OnlyRequest

(* A new item in the set that was read, or a rule of an item there is. *)
LEMMA ApplyKeepsBook ==
  ASSUME BookInv, NEW c \in Clients, Apply(c)
  PROVE  BookInv'
<1> DEFINE r == client[c]
           p == client[c].proposal
<1>1. /\ r.pc = "write" /\ WrittenId(r) \in Items /\ item' = Written(r)
      /\ client' = [client EXCEPT ![c] = Idle]
      /\ UNCHANGED <<sets, confirmed, reports>>
  BY DEF Apply
<1>2. Proposal(p)
  BY <1>1 DEF BookInv, RequestsOK, RequestOK
<1>3. sets \in Nat /\ Formed(item, sets) /\ Ids(item) \subseteq Items /\ Items \subseteq Nat
  BY PrincipleAssumption DEF BookInv, TablesOK, Items
<1>6. sets <= sets' /\ UNCHANGED reports
  BY <1>1, <1>3
<1>4. CASE p.type = "DISCOVERY"
  <2> DEFINE row == Row(r.set, NoItem, p.text, Patch(p), r.sort)
             id == NextId(item)
  <2>1. item' = Put(item, id, row) /\ id \in Items
    BY <1>1, <1>4 DEF Written, WrittenId
  <2>2. r.set \in 1..sets /\ r.sort \in Nat
    BY <1>1, <1>4 DEF BookInv, RequestsOK, RequestOK
  <2>3. p.text \in Texts /\ Patch(p) \in Rules
    BY <1>2, PatchIsRule DEF Proposal
  <2>4. RowOK(row, sets)
    BY <2>2, <2>3, RowIs
  <2> HIDE DEF row, id
  <2>5. Formed(item', sets) /\ Ids(item') = Ids(item) \cup {id}
    BY <1>3, <2>1, <2>4, PutFormed
  <2>6. TablesOK'
    BY <1>1, <1>3, <2>1, <2>5 DEF BookInv, TablesOK, Items
  <2> QED
    BY <1>1, <1>6, <2>5, <2>6, TablesWritten
<1>5. CASE p.type = "REINFORCEMENT"
  <2> DEFINE i == r.found
             merged == MergeRule(r.seen, Patch(p))
  <2>1. item' = [item EXCEPT ![i].rule = merged] /\ i \in Ids(item) /\ r.seen \in Rules
    BY <1>1, <1>5 DEF Written, BookInv, RequestsOK, RequestOK, Reinforcing
  <2>2. Patch(p) \in Rules
    BY <1>2, PatchIsRule
  <2>3. merged \in Rules
    BY <2>1, <2>2 DEF MergeRule, Rules
  <2> HIDE DEF i, merged
  <2>4. Ids(item') = Ids(item) /\ item' = [j \in Ids(item') |-> item'[j]]
    BY <2>1 DEF Ids
  <2>5. \A j \in Ids(item) : item'[j] = IF j = i THEN [item[i] EXCEPT !.rule = merged] ELSE item[j]
    BY <2>1 DEF Ids
  <2>6. RowOK([item[i] EXCEPT !.rule = merged], sets)
    BY <1>3, <2>1, <2>3 DEF Formed, RowOK, Row
  <2>7. \A j \in Ids(item) : RowOK(item'[j], sets)
    BY <1>3, <2>5, <2>6 DEF Formed
  <2>8. Formed(item', sets)
    BY <1>3, <2>4, <2>7 DEF Formed
  <2>9. TablesOK'
    BY <1>1, <1>3, <2>4, <2>8 DEF BookInv, TablesOK, Items
  <2> QED
    BY <1>1, <1>6, <2>4, <2>9, TablesWritten
<1> QED
  BY <1>2, <1>4, <1>5 DEF Proposal

(* What a transaction sees is the table it began with. *)
LEMMA SaveReadKeepsBook ==
  ASSUME BookInv, NEW c \in Clients, SaveRead(c)
  PROVE  BookInv'
<1>1. PICK set \in 1..sets, list \in SaveLists :
        client' = [client EXCEPT ![c] =
          [pc |-> "save", set |-> set, list |-> list, view |-> item]]
  BY DEF SaveRead
<1> DEFINE r == [pc |-> "save", set |-> set, list |-> list, view |-> item]
<1>2. UNCHANGED <<tables, reports>>
  BY DEF SaveRead
<1>3. ASSUME client'[c] = r PROVE RequestOK(c)'
  BY <1>2, <1>3 DEF BookInv, TablesOK, RequestOK, Reinforcing, Formed, RowOK, tables
<1>4. client' = [client EXCEPT ![c] = r]
  BY <1>1
<1> HIDE DEF r
<1> QED
  BY <1>2, <1>3, <1>4, OnlyRequest

(* The list is written to the set that was read. *)
LEMMA SaveWriteKeepsBook ==
  ASSUME BookInv, NEW c \in Clients, SaveWrite(c)
  PROVE  BookInv'
<1>1. /\ client[c].pc = "save" /\ item' = Saved(client[c]) /\ Ids(item') \subseteq Items
      /\ client' = [client EXCEPT ![c] = Idle]
      /\ UNCHANGED <<sets, confirmed, reports>>
  BY DEF SaveWrite
<1>2. sets \in Nat /\ Formed(item, sets)
  BY PrincipleAssumption DEF BookInv, TablesOK
<1>3. /\ client[c].set \in 1..sets /\ client[c].list \in SaveLists
      /\ Formed(client[c].view, sets)
  BY <1>1 DEF BookInv, RequestsOK, RequestOK
<1>4. Formed(item', sets) /\ Ids(item) \subseteq Ids(item')
  BY <1>1, <1>2, <1>3, SavedFormed
<1>5. TablesOK'
  BY <1>1, <1>4 DEF BookInv, TablesOK, Items
<1>6. sets <= sets' /\ UNCHANGED reports
  BY <1>1, <1>2
<1> QED
  BY <1>1, <1>4, <1>5, <1>6, TablesWritten

(* A confirmed threshold is a value of its rule. *)
LEMMA ConfirmKeepsBook ==
  ASSUME BookInv, NEW path \in Paths, Confirm(path)
  PROVE  BookInv'
<1>1. PICK v \in Confirmable[path] : confirmed' = [confirmed EXCEPT ![path] = v]
  BY DEF Confirm
<1>2. UNCHANGED <<sets, item, reports, client>>
  BY DEF Confirm
<1>3. confirmed' \in Rules
  BY <1>1, PrincipleAssumption DEF BookInv, TablesOK, Rules
<1>4. TablesOK'
  BY <1>2, <1>3 DEF BookInv, TablesOK, Formed, RowOK
<1>5. ReportsOK'
  BY <1>2 DEF BookInv, ReportsOK, Inherited, reports
<1>6. RequestsOK'
  BY <1>2 DEF BookInv, RequestsOK, RequestOK, Reinforcing, Inherited, reports, Formed, RowOK
<1> QED
  BY <1>4, <1>5, <1>6 DEF BookInv

(* A new set begins with one item. *)
LEMMA NewSetKeepsBook ==
  ASSUME BookInv, NewSet
  PROVE  BookInv'
<1>1. PICK first \in FirstItems :
        item' = Put(item, NextId(item), Row(sets', NoItem, first[1].text, first[1].rule, 1))
  BY DEF NewSet
<1>2. /\ sets < MaxSets /\ NextId(item) \in Items /\ sets' = sets + 1
      /\ UNCHANGED <<confirmed, reports, client>>
  BY DEF NewSet
<1>3. sets \in Nat /\ sets' \in 1..MaxSets /\ sets' \in 1..sets' /\ Formed(item, sets)
  BY <1>2, PrincipleAssumption DEF BookInv, TablesOK
<1>4. first[1].text \in Texts /\ first[1].rule \in Rules
  <2> DEFINE E == [text : Texts, rule : Rules]
  <2>1. first \in Seq(E) /\ Len(first) \in Items /\ \A e \in E : e.text \in Texts /\ e.rule \in Rules
    BY PrincipleAssumption
  <2> HIDE DEF E
  <2>2. first[1] \in E
    BY <2>1 DEF Items
  <2> QED
    BY <2>1, <2>2
<1>5. Formed(item, sets')
  BY <1>2, <1>3, FormedStays
<1> DEFINE row == Row(sets', NoItem, first[1].text, first[1].rule, 1)
           id == NextId(item)
<1>6. RowOK(row, sets')
  BY <1>3, <1>4, RowIs
<1>7. id \in Items /\ id \in Nat /\ item' = Put(item, id, row)
  BY <1>1, <1>2 DEF Items
<1> HIDE DEF row, id
<1>8. Formed(item', sets') /\ Ids(item') = Ids(item) \cup {id}
  BY <1>3, <1>5, <1>6, <1>7, PutFormed
<1>9. TablesOK'
  BY <1>2, <1>3, <1>7, <1>8 DEF BookInv, TablesOK, Items
<1> QED
  <2>1. Grows
    BY <1>2, <1>3, <1>8, PrincipleAssumption DEF Grows, reports
  <2>2. RequestsOK'
    BY <1>2, <2>1, RequestStays DEF BookInv, RequestsOK
  <2> QED
    BY <1>2, <1>9, <2>2 DEF BookInv, ReportsOK, Inherited, reports

(* Every step keeps the tables, the reports and the requests in order. *)
LEMMA NextKeepsBook == BookInv /\ [Next]_vars => BookInv'
<1> SUFFICES ASSUME BookInv, [Next]_vars PROVE BookInv'
  OBVIOUS
<1>1. CASE \E s \in Sims : Evaluate(s) \/ Inherit(s) \/ Report(s) \/ Narrate(s)
  BY <1>1, EvaluateKeepsBook, InheritKeepsBook, ReportKeepsBook, NarrateKeepsBook
<1>2. CASE \E c \in Clients : Ask(c) \/ SaveRead(c) \/ Claim(c) \/ ReadPlace(c) \/ ReadItem(c)
                               \/ Apply(c) \/ SaveWrite(c)
  BY <1>2, AskKeepsBook, SaveReadKeepsBook, ClaimKeepsBook, ReadPlaceKeepsBook,
     ReadItemKeepsBook, ApplyKeepsBook, SaveWriteKeepsBook
<1>3. CASE \E c \in Clients : Replay(c) \/ Rollback(c) \/ SaveRaises(c)
  <2>1. PICK c \in Clients : client' = [client EXCEPT ![c] = Idle]
    BY <1>3 DEF Replay, Rollback, SaveRaises
  <2>2. UNCHANGED <<tables, reports>>
    BY <1>3 DEF Replay, Rollback, SaveRaises
  <2> QED
    BY <2>1, <2>2, OverKeepsBook
<1>4. CASE (\E path \in Paths : Confirm(path)) \/ NewSet
  BY <1>4, ConfirmKeepsBook, NewSetKeepsBook
<1>5. CASE UNCHANGED vars
  <2>1. UNCHANGED <<sets, item, confirmed, drafts, report, client>>
    BY <1>5 DEF vars, tables, reports
  <2>2. TablesOK' /\ ReportsOK'
    BY <2>1 DEF BookInv, TablesOK, ReportsOK, Inherited, Formed, RowOK
  <2>3. RequestsOK'
    BY <2>1 DEF BookInv, RequestsOK, RequestOK, Reinforcing, Inherited, Formed, RowOK
  <2> QED
    BY <2>2, <2>3 DEF BookInv
<1> QED
  BY <1>1, <1>2, <1>3, <1>4, <1>5 DEF Next, Step

(* What the rule engine drafts tightens, what narratives and rebuilt       *)
(* reports leave of it in the store, or in a request that read it, is in   *)
(* range and not looser, and the rows a transaction has read stay: the     *)
(* inductive invariant of the tables.                                      *)
THEOREM BookInvariant == Spec => []BookInv
BY InitBookInv, NextKeepsBook, PTL DEF Spec

-----------------------------------------------------------------------------
(* The strengthening of AppliedOnce and AnswersAgree *)

(* The part of the state the acceptances work on is well typed. *)
AcceptType ==
  /\ client = [c \in Clients |-> client[c]]
  /\ \A c \in Clients : client[c].pc \in {"idle", "claim", "read", "write", "save"}
  /\ \A c \in Clients : client[c].pc \in {"claim", "read", "write"} =>
       Key(client[c]) \in Keys
  /\ app \in [Keys -> Items \cup {NoItem}]
  /\ keyLock \in [Keys -> Clients \cup {NoClient}]
  /\ effects \in [Keys -> Nat]
  /\ told \subseteq Keys \X Items

(* Whoever has claimed a key works on an application that is not there. *)
ClaimIsNew ==
  \A c \in Clients : client[c].pc \in {"read", "write"} => app[Key(client[c])] = NoItem

AcceptInv ==
  /\ AcceptType /\ KeysHeldInFlight /\ ClaimIsNew /\ AppliedOnce /\ AnswersAgree

(* No request is under way and no proposal applied. *)
LEMMA InitAcceptInv == Init => AcceptInv
<1> SUFFICES ASSUME Init PROVE AcceptInv
  OBVIOUS
<1>1. AcceptType
  BY DEF Init, AcceptType, Idle, NoReport
<1>2. KeysHeldInFlight /\ ClaimIsNew
  BY PrincipleAssumption DEF Init, KeysHeldInFlight, ClaimIsNew, Idle
<1>3. AppliedOnce /\ AnswersAgree
  BY DEF Init, AppliedOnce, AnswersAgree
<1> QED
  BY <1>1, <1>2, <1>3 DEF AcceptInv

(* A request that begins, or saves, or is over without an answer, holds no *)
(* key before and after.                                                   *)
LEMMA OutsideKeepsInv ==
  ASSUME AcceptInv, NEW c \in Clients,
         client[c].pc \in {"idle", "save"},
         client' = [client EXCEPT ![c] = client'[c]],
         client'[c].pc \in {"idle", "save", "claim"},
         client'[c].pc = "claim" => Key(client'[c]) \in Keys,
         UNCHANGED <<app, keyLock, told, effects>>
  PROVE  AcceptInv'
<1>1. AcceptType'
  BY DEF AcceptInv, AcceptType
<1>2. KeysHeldInFlight'
  BY DEF AcceptInv, AcceptType, KeysHeldInFlight
<1>3. ClaimIsNew' /\ AppliedOnce' /\ AnswersAgree'
  BY DEF AcceptInv, AcceptType, ClaimIsNew, AppliedOnce, AnswersAgree
<1> QED
  BY <1>1, <1>2, <1>3 DEF AcceptInv

(* The lock goes to a request whose application is not there. *)
LEMMA ClaimKeepsInv ==
  ASSUME AcceptInv, NEW c \in Clients, Claim(c)
  PROVE  AcceptInv'
<1> DEFINE k == Key(client[c])
<1>1. /\ k \in Keys /\ keyLock[k] = NoClient /\ app[k] = NoItem
      /\ keyLock' = [keyLock EXCEPT ![k] = c]
      /\ client' = [client EXCEPT ![c] =
           [pc |-> "read", sim |-> @.sim, proposal |-> @.proposal]]
      /\ client[c].pc = "claim"
      /\ UNCHANGED <<app, told, effects>>
  BY DEF Claim, AcceptInv, AcceptType
<1>2. /\ client'[c].pc = "read" /\ client'[c].sim = client[c].sim
      /\ client'[c].proposal = client[c].proposal
      /\ \A d \in Clients \ {c} : client'[d] = client[d]
  BY <1>1 DEF AcceptInv, AcceptType
<1>3. Key(client'[c]) = k /\ \A d \in Clients \ {c} : Key(client'[d]) = Key(client[d])
  BY <1>2 DEF Key
<1>4. AcceptType'
  BY <1>1, <1>2, <1>3 DEF AcceptInv, AcceptType
<1>5. KeysHeldInFlight'
  BY <1>1, <1>2, <1>3, PrincipleAssumption DEF AcceptInv, AcceptType, KeysHeldInFlight
<1>6. ClaimIsNew' /\ AppliedOnce' /\ AnswersAgree'
  BY <1>1, <1>2, <1>3 DEF AcceptInv, AcceptType, ClaimIsNew, AppliedOnce, AnswersAgree
<1> QED
  BY <1>4, <1>5, <1>6 DEF AcceptInv

(* The repeated answer is the recorded one. *)
LEMMA ReplayKeepsInv ==
  ASSUME AcceptInv, NEW c \in Clients, Replay(c)
  PROVE  AcceptInv'
<1> DEFINE k == Key(client[c])
<1>1. /\ k \in Keys /\ keyLock[k] = NoClient /\ app[k] \in Items
      /\ told' = told \cup {<<k, app[k]>>}
      /\ client' = [client EXCEPT ![c] = Idle]
      /\ client[c].pc = "claim"
      /\ UNCHANGED <<app, keyLock, effects>>
  BY DEF Replay, AcceptInv, AcceptType
<1>2. AcceptType'
  BY <1>1 DEF AcceptInv, AcceptType, Idle
<1>3. KeysHeldInFlight'
  BY <1>1 DEF AcceptInv, AcceptType, KeysHeldInFlight, Idle
<1>4. ClaimIsNew' /\ AppliedOnce' /\ AnswersAgree'
  BY <1>1 DEF AcceptInv, AcceptType, ClaimIsNew, AppliedOnce, AnswersAgree, Idle
<1> QED
  BY <1>2, <1>3, <1>4 DEF AcceptInv

(* Reading moves the request on, with the same key. *)
LEMMA ReadKeepsInv ==
  ASSUME AcceptInv, NEW c \in Clients, ReadPlace(c) \/ ReadItem(c)
  PROVE  AcceptInv'
<1>1. PICK r : /\ client' = [client EXCEPT ![c] = r]
               /\ r.pc = "write" /\ Key(r) = Key(client[c])
  BY DEF ReadPlace, ReadItem, Key
<1>2. client[c].pc = "read" /\ UNCHANGED <<app, keyLock, told, effects>>
  BY DEF ReadPlace, ReadItem
<1>3. client'[c] = r /\ \A d \in Clients \ {c} : client'[d] = client[d]
  BY <1>1 DEF AcceptInv, AcceptType
<1>4. AcceptType'
  BY <1>1, <1>2, <1>3 DEF AcceptInv, AcceptType
<1>5. KeysHeldInFlight'
  BY <1>1, <1>2, <1>3 DEF AcceptInv, AcceptType, KeysHeldInFlight
<1>6. ClaimIsNew' /\ AppliedOnce' /\ AnswersAgree'
  BY <1>1, <1>2, <1>3 DEF AcceptInv, AcceptType, ClaimIsNew, AppliedOnce, AnswersAgree
<1> QED
  BY <1>4, <1>5, <1>6 DEF AcceptInv

(* A rollback releases the key. *)
LEMMA RollbackKeepsInv ==
  ASSUME AcceptInv, NEW c \in Clients, Rollback(c)
  PROVE  AcceptInv'
<1>1. /\ keyLock' = [k \in Keys |-> IF keyLock[k] = c THEN NoClient ELSE keyLock[k]]
      /\ client' = [client EXCEPT ![c] = Idle]
      /\ client'[c].pc = "idle" /\ \A d \in Clients \ {c} : client'[d] = client[d]
      /\ UNCHANGED <<app, told, effects>>
  BY DEF Rollback, AcceptInv, AcceptType, Idle
<1>2. AcceptType'
  BY <1>1 DEF AcceptInv, AcceptType
<1>3. KeysHeldInFlight'
  BY <1>1, PrincipleAssumption DEF AcceptInv, AcceptType, KeysHeldInFlight
<1>4. ClaimIsNew' /\ AppliedOnce' /\ AnswersAgree'
  BY <1>1 DEF AcceptInv, AcceptType, ClaimIsNew, AppliedOnce, AnswersAgree
<1> QED
  BY <1>2, <1>3, <1>4 DEF AcceptInv

(* The commit records the application of a key nobody else holds. *)
LEMMA ApplyKeepsInv ==
  ASSUME AcceptInv, NEW c \in Clients, Apply(c)
  PROVE  AcceptInv'
<1> DEFINE k == Key(client[c])
           w == WrittenId(client[c])
<1>1. /\ k \in Keys /\ app[k] = NoItem /\ keyLock[k] = c /\ w \in Items
      /\ app' = [app EXCEPT ![k] = w]
      /\ effects' = [effects EXCEPT ![k] = @ + 1]
      /\ told' = told \cup {<<k, w>>}
      /\ keyLock' = [keyLock EXCEPT ![k] = NoClient]
      /\ client' = [client EXCEPT ![c] = Idle]
  BY DEF Apply, AcceptInv, AcceptType, ClaimIsNew, KeysHeldInFlight
<1>2. client'[c].pc = "idle" /\ \A d \in Clients \ {c} : client'[d] = client[d]
  BY <1>1 DEF AcceptInv, AcceptType, Idle
<1>3. \A d \in Clients \ {c} : client[d].pc \in {"read", "write"} => Key(client[d]) # k
  BY <1>1 DEF AcceptInv, KeysHeldInFlight
<1>4. NoItem \notin Items
  BY PrincipleAssumption DEF Items
<1> HIDE DEF k, w
<1>5. AcceptType'
  BY <1>1, <1>2 DEF AcceptInv, AcceptType
<1>6. KeysHeldInFlight'
  BY <1>1, <1>2, <1>3, PrincipleAssumption DEF AcceptInv, AcceptType, KeysHeldInFlight
<1>7. ClaimIsNew'
  BY <1>1, <1>2, <1>3 DEF AcceptInv, AcceptType, ClaimIsNew
<1>8. AppliedOnce'
  BY <1>1, <1>4 DEF AcceptInv, AcceptType, AppliedOnce
<1>9. AnswersAgree'
  <2>1. \A answer \in told : answer[1] # k
    BY <1>1, <1>4 DEF AcceptInv, AcceptType, AnswersAgree
  <2> QED
    BY <1>1, <2>1 DEF AcceptInv, AcceptType, AnswersAgree
<1> QED
  BY <1>5, <1>6, <1>7, <1>8, <1>9 DEF AcceptInv

(* Every step keeps the invariant. *)
LEMMA NextKeepsInv == BookInv /\ AcceptInv /\ [Next]_vars => AcceptInv'
<1> SUFFICES ASSUME BookInv, AcceptInv, [Next]_vars PROVE AcceptInv'
  OBVIOUS
<1>1. ASSUME NEW c \in Clients, Ask(c) PROVE AcceptInv'
  <2>1. PICK s \in Sims : \E p \in report[s] \ NoReport :
          client' = [client EXCEPT ![c] = [pc |-> "claim", sim |-> s, proposal |-> p]]
    BY <1>1 DEF Ask
  <2>2. PICK p \in report[s] \ NoReport :
          client' = [client EXCEPT ![c] = [pc |-> "claim", sim |-> s, proposal |-> p]]
    BY <2>1
  <2> DEFINE r == [pc |-> "claim", sim |-> s, proposal |-> p]
  <2>3. r.pc = "claim" /\ Key(r) \in Keys
    BY DEF BookInv, ReportsOK, Proposal, Key, Keys
  <2>4. client'[c] = r /\ client' = [client EXCEPT ![c] = client'[c]]
    BY <2>2 DEF AcceptInv, AcceptType
  <2> HIDE DEF r
  <2>5. client[c].pc = "idle" /\ UNCHANGED <<app, keyLock, told, effects>>
    BY <1>1 DEF Ask
  <2> QED
    BY <2>3, <2>4, <2>5, OutsideKeepsInv
<1>2. ASSUME NEW c \in Clients, SaveRead(c) PROVE AcceptInv'
  <2>1. PICK set \in 1..sets, list \in SaveLists :
          client' = [client EXCEPT ![c] =
            [pc |-> "save", set |-> set, list |-> list, view |-> item]]
    BY <1>2 DEF SaveRead
  <2> DEFINE r == [pc |-> "save", set |-> set, list |-> list, view |-> item]
  <2>2. /\ r.pc = "save" /\ client'[c] = r
        /\ client' = [client EXCEPT ![c] = client'[c]]
    BY <2>1 DEF AcceptInv, AcceptType
  <2> HIDE DEF r
  <2>3. client[c].pc = "idle" /\ UNCHANGED <<app, keyLock, told, effects>>
    BY <1>2 DEF SaveRead
  <2> QED
    BY <2>2, <2>3, OutsideKeepsInv
<1>3. ASSUME NEW c \in Clients, SaveWrite(c) \/ SaveRaises(c) PROVE AcceptInv'
  <2>1. /\ client[c].pc = "save" /\ client' = [client EXCEPT ![c] = Idle]
        /\ UNCHANGED <<app, keyLock, told, effects>>
    BY <1>3 DEF SaveWrite, SaveRaises
  <2>2. client'[c].pc = "idle" /\ client' = [client EXCEPT ![c] = client'[c]]
    BY <2>1 DEF Idle, AcceptInv, AcceptType
  <2> QED
    BY <2>1, <2>2, OutsideKeepsInv
<1>4. CASE \E c \in Clients : Claim(c) \/ Replay(c) \/ ReadPlace(c) \/ ReadItem(c)
                               \/ Rollback(c) \/ Apply(c)
  BY <1>4, ClaimKeepsInv, ReplayKeepsInv, ReadKeepsInv, RollbackKeepsInv, ApplyKeepsInv
<1>5. CASE \/ \E s \in Sims : Evaluate(s) \/ Inherit(s) \/ Report(s) \/ Narrate(s)
           \/ NewSet \/ (\E path \in Paths : Confirm(path)) \/ UNCHANGED vars
  <2>1. UNCHANGED <<app, keyLock, client, told, effects>>
    BY <1>5 DEF Evaluate, Inherit, Report, Narrate, NewSet, Confirm, vars
  <2> QED
    BY <2>1 DEF AcceptInv, AcceptType, KeysHeldInFlight, ClaimIsNew, AppliedOnce,
                AnswersAgree
<1> QED
  BY <1>1, <1>2, <1>3, <1>4, <1>5 DEF Next, Step

(* The inductive invariant of the acceptances. *)
THEOREM AcceptInvariant == Spec => []AcceptInv
BY InitAcceptInv, NextKeepsInv, BookInvariant, PTL DEF Spec

(* A key is locked exactly by the request working on it                    *)
(* (principles.py:141-178, 295-308).                                       *)
THEOREM KeysAreHeldInFlight == Spec => []KeysHeldInFlight
<1>1. AcceptInv => KeysHeldInFlight
  BY DEF AcceptInv
<1> QED
  BY <1>1, AcceptInvariant, PTL

(* A proposal is carried out once (principles.py:126-178, 273-285). *)
THEOREM ProposalsApplyOnce == Spec => []AppliedOnce
<1>1. AcceptInv => AppliedOnce
  BY DEF AcceptInv
<1> QED
  BY <1>1, AcceptInvariant, PTL

(* All answers to a proposal name the recorded item (165-177, 286-294). *)
THEOREM AllAnswersAgree == Spec => []AnswersAgree
<1>1. AcceptInv => AnswersAgree
  BY DEF AcceptInv
<1> QED
  BY <1>1, AcceptInvariant, PTL

-----------------------------------------------------------------------------
(* Types, and what an acceptance does to its item *)

(* The tables, the requests and the history are well formed: no step, and  *)
(* no arithmetic of a proposal, leaves the columns' domains                *)
(* (principles.py:114-308, 378-418; strengthen_spec.py:258-338).           *)
THEOREM PrinciplesAreTyped == Spec => []PrincipleTypeOK
<1>1. BookInv /\ AcceptInv => PrincipleTypeOK
  <2> SUFFICES ASSUME BookInv, AcceptInv PROVE PrincipleTypeOK
    OBVIOUS
  <2>1. /\ sets \in 1..MaxSets /\ Ids(item) \subseteq Items /\ confirmed \in Rules
        /\ \A i \in Ids(item) : RowOK(item[i], sets)
    BY DEF BookInv, TablesOK, Formed
  <2>2. \A s \in Sims : /\ \A draft \in drafts[s] : \A p \in draft : Proposal(p)
                        /\ \A p \in report[s] \ NoReport : Proposal(p)
    BY DEF BookInv, ReportsOK
  <2>3. /\ app \in [Keys -> Items \cup {NoItem}] /\ keyLock \in [Keys -> Clients \cup {NoClient}]
        /\ \A c \in Clients : client[c].pc \in {"idle", "claim", "read", "write", "save"}
        /\ told \subseteq Keys \X Items /\ effects \in [Keys -> Nat]
    BY DEF AcceptInv, AcceptType
  <2>4. \A i \in Ids(item) :
          /\ item[i].set \in 1..sets /\ item[i].text \in Texts
          /\ item[i].rule \in Rules /\ item[i].sort \in Nat
    BY <2>1 DEF RowOK
  <2> QED
    BY <2>1, <2>2, <2>3, <2>4 DEF PrincipleTypeOK
<1> QED
  BY <1>1, BookInvariant, AcceptInvariant, PTL

(* Whatever the trades, the principles and the confirmed values, the rule  *)
(* engine proposes only what is allowed and strictly tighter, and whatever *)
(* a model answers, and however often reports are stored again, a stored   *)
(* proposal of such a run is in range and never looser than the value it   *)
(* was judged by (strengthen_spec.py:258-338, report_analysis.py:509-590,  *)
(* report_generator.py:328-351).                                           *)
THEOREM StoredNeverLoosen == Spec => []ProposalsNeverLoosen
<1>1. BookInv => ProposalsNeverLoosen
  BY DEF BookInv, ReportsOK, ProposalsNeverLoosen, Drafted
<1> QED
  BY <1>1, BookInvariant, PTL

(* The request that finishes while an application appears is the one that  *)
(* applies it.                                                             *)
LEMMA OnlyApplyReinforces ==
  ASSUME BookInv, [Next]_vars, NEW c \in Clients, Reinforces(c)
  PROVE  Apply(c)
<1>1. PICK d \in Clients : Apply(d)
  BY DEF Reinforces, Next, Step, Evaluate, Inherit, Report, Narrate, Ask, SaveRead, Claim, Replay, ReadPlace, ReadItem,
         Rollback, SaveWrite, SaveRaises, Confirm, NewSet, vars
<1>2. client' = [client EXCEPT ![d] = Idle]
  BY <1>1 DEF Apply
<1>3. c # d => client'[c] = client[c]
  BY <1>2 DEF BookInv, RequestsOK
<1>4. client[c].pc = "write" /\ client'[c].pc = "idle"
  BY DEF Reinforces, Idle
<1> QED
  BY <1>1, <1>3, <1>4

(* It changes one value of one item's rule, to one that is not looser if   *)
(* the item was as the report and the transaction saw it.                  *)
LEMMA ApplyReinforces ==
  ASSUME BookInv, NEW c \in Clients, Apply(c), client[c].proposal.type = "REINFORCEMENT"
  PROVE  LET p == client[c].proposal
             old == item[client[c].found]
             new == item'[client[c].found]
         IN /\ p.item \in {client[c].found, NoItem}
            /\ \A i \in Ids(item) \ {client[c].found} : item'[i] = item[i]
            /\ new = [old EXCEPT !.rule = new.rule]
            /\ /\ ~Inherited(client[c].sim) /\ p.value # NoValue
               /\ p.current # NoValue /\ old.rule[p.path] = p.current
               => ~Tighter(p.path, new.rule[p.path], p.current)
            /\ client[c].seen = old.rule =>
                 \A q \in Paths \ {p.path} : new.rule[q] = old.rule[q]
<1> DEFINE p == client[c].proposal
           found == client[c].found
           merged == MergeRule(client[c].seen, Patch(p))
<1>1. client[c].pc = "write" /\ item' = [item EXCEPT ![found].rule = merged]
  BY DEF Apply, Written
<1>2. found \in Ids(item) /\ p.item \in {found, NoItem}
  BY <1>1 DEF BookInv, RequestsOK, RequestOK, Reinforcing
<1>3. Proposal(p) /\ (~Inherited(client[c].sim) => Keeps(p))
  BY <1>1 DEF BookInv, RequestsOK, RequestOK
<1>4. \A q \in Paths :
        merged[q] = IF q = p.path /\ p.value # NoValue THEN p.value ELSE client[c].seen[q]
  BY <1>3 DEF MergeRule, Patch, NoRule, Proposal
<1>5. ~Inherited(client[c].sim) /\ p.value # NoValue /\ p.current # NoValue =>
        ~Tighter(p.path, p.value, p.current)
  BY <1>3 DEF Keeps
<1>6. item[found] = Row(item[found].set, item[found].origin, item[found].text,
                        item[found].rule, item[found].sort)
  BY <1>2 DEF BookInv, TablesOK, Formed, RowOK
<1> HIDE DEF merged
<1>7. /\ item'[found] = [item[found] EXCEPT !.rule = merged]
      /\ \A i \in Ids(item) \ {found} : item'[i] = item[i]
  BY <1>1, <1>2 DEF Ids
<1>8. item'[found].rule = merged
  BY <1>6, <1>7 DEF Row
<1>9. p.path \in Paths
  BY <1>3 DEF Proposal
<1> QED
  BY <1>2, <1>4, <1>5, <1>7, <1>8, <1>9

(* An acceptance changes only the rule of the item its proposal names, in  *)
(* the one value it proposes, and if nobody has changed that since, to one *)
(* that is not looser, whatever the model answered                         *)
(* (principles.py:188-193, 227-272; report_generator.py:328-351).          *)
THEOREM FreshAcceptsNeverLoosen == Spec => FreshAcceptNeverLoosens
<1> DEFINE Fresh(c) ==
      LET p == client[c].proposal
          old == item[client[c].found]
          new == item'[client[c].found]
      IN /\ p.item \in {client[c].found, NoItem}
         /\ \A i \in Ids(item) \ {client[c].found} : item'[i] = item[i]
         /\ new = [old EXCEPT !.rule = new.rule]
         /\ /\ ~Inherited(client[c].sim) /\ p.value # NoValue
            /\ p.current # NoValue /\ old.rule[p.path] = p.current
            => ~Tighter(p.path, new.rule[p.path], p.current)
         /\ client[c].seen = old.rule =>
              \A q \in Paths \ {p.path} : new.rule[q] = old.rule[q]
<1>1. ASSUME BookInv, [Next]_vars, NEW c \in Clients, Reinforces(c) PROVE Fresh(c)
  <2>1. Apply(c) /\ client[c].proposal.type = "REINFORCEMENT"
    BY <1>1, OnlyApplyReinforces DEF Reinforces
  <2> QED
    BY <1>1, <2>1, ApplyReinforces
<1>2. BookInv /\ [Next]_vars => [\A c \in Clients : Reinforces(c) => Fresh(c)]_vars
  BY <1>1
<1> QED
  BY <1>2, BookInvariant, PTL DEF Spec, FreshAcceptNeverLoosens
=============================================================================
