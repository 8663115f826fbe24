--------------------------- MODULE HoldingSnapshots ---------------------------
(***************************************************************************)
(* holding_snapshots of one account: the broker's sync writes the days it  *)
(* has run, holding_snapshot_service.py rebuilds the others from the       *)
(* trades, and load_initial_snapshot reads what a simulation starts with.  *)
(* Days are numbers, quantities naturals; costs and values are left out,   *)
(* prices are positive.  A transaction is one step, what a script carries  *)
(* from one transaction to the next is its state.  The source does not     *)
(* show whether the table has a unique key on security and day: both.      *)
(***************************************************************************)
EXTENDS Integers, FiniteSets, FiniteSetsExt, Functions, Sequences

CONSTANTS
  Securities,
  LastDay,     \* bound: days are 1..LastDay
  Tradable,    \* trades the importer may find: records
  MaxTrades,   \* bound: trades of the account
  MaxCopies,   \* bound: rows for one security and day
  Calendars,   \* daily prices there may be: sets of <<security, day>>
  SyncDays,    \* days the broker's sync runs
  Reports,     \* what it may report: functions from securities
  Jobs         \* runs of a backfill at one time

Days == 1..LastDay
Broker == 0

ASSUME SnapshotAssumption ==
  /\ LastDay \in Nat \ {0} /\ MaxTrades \in Nat /\ MaxCopies \in Nat \ {0}
  /\ \A t \in Tradable :
       /\ t.sec \in Securities /\ t.side \in {"BUY", "SELL"}
       /\ t.day \in Days /\ t.qty \in Nat \ {0}
  /\ Calendars \subseteq SUBSET (Securities \X Days)
  /\ SyncDays \subseteq Days
  /\ IsFiniteSet(Securities)
  /\ \A r \in Reports : DOMAIN r \subseteq Securities /\ \A s \in DOMAIN r : r[s] \in Nat

VARIABLES
  trades,  \* the trades table, by trade_id
  closes,  \* security_daily_prices
  keyed,   \* whether the table has a unique key
  table,   \* holding_snapshots; build: the trades a row was rebuilt from
  job

vars == <<trades, closes, keyed, table, job>>
Idle == [pc |-> "idle"]

Init ==
  /\ trades = <<>> /\ closes \in Calendars /\ keyed \in BOOLEAN
  /\ table = {} /\ job = [j \in Jobs |-> Idle]

-----------------------------------------------------------------------------
(* Reconstruction from the trades *)

TradingDays == {c[2] : c \in closes}

(* Mutant: in the order of trade_id. *)
BeforeById(a, b) == a < b

(* By date, of one date by trade_id: not by the time of the day. *)
Before(a, b) ==
  \/ trades[a].day < trades[b].day
  \/ trades[a].day = trades[b].day /\ a < b

Latest(S) == CHOOSE i \in S : \A k \in S : k = i \/ Before(k, i)

Least(a, b) == IF a < b THEN a ELSE b

(* Mutant: a sale of more than is held is reported but not carried out. *)
AppliedOrSkipped(p, t) ==
  IF t.side = "BUY" THEN [p EXCEPT !.qty = @ + t.qty]
  ELSE IF t.qty > p.qty THEN [p EXCEPT !.short = @ + t.qty - p.qty]
  ELSE [p EXCEPT !.qty = @ - t.qty]

(* A sale of more than is held leaves nothing, and an adjustment.          *)
Applied(p, t) ==
  IF t.side = "BUY" THEN [p EXCEPT !.qty = @ + t.qty]
  ELSE [qty |-> p.qty - Least(p.qty, t.qty),
        short |-> p.short + t.qty - Least(p.qty, t.qty)]

(* What a set of trades comes to, carried out one after the other. *)
Replayed[S \in SUBSET DOMAIN trades] ==
  IF S = {} THEN [qty |-> 0, short |-> 0]
  ELSE Applied(Replayed[S \ {Latest(S)}], trades[Latest(S)])

TradesOf(sec, day) == {i \in DOMAIN trades : trades[i].sec = sec /\ trades[i].day <= day}

(* A security's position at the end of a day, with its shortfalls so far. *)
Position(sec, day) == Replayed[TradesOf(sec, day)]

(* Days with prices, and those of the trades before them. *)
SnapshotDays ==
  IF TradingDays = {} THEN {}
  ELSE TradingDays \cup {d \in {trades[i].day : i \in DOMAIN trades} : d < Min(TradingDays)}

(* Mutant: positions that were closed stay in the snapshot. *)
ForwardWithClosed ==
  {[sec |-> s, day |-> d, qty |-> Position(s, d).qty] : s \in Securities, d \in SnapshotDays}

(* reconstruct_holding_snapshots_forward *)
Forward ==
  {r \in {[sec |-> s, day |-> d, qty |-> Position(s, d).qty] :
            s \in Securities, d \in SnapshotDays} : r.qty > 0}

Traded(side, sec, days) ==
  SumFunctionOnSet([i \in DOMAIN trades |-> trades[i].qty],
    {i \in DOMAIN trades :
      trades[i].side = side /\ trades[i].sec = sec /\ trades[i].day \in days})

(* An earlier day's quantity, from the holdings at the end of a later day. *)
Reversed(anchor, holding, sec, day) ==
  holding[sec] - Traded("BUY", sec, (day + 1)..anchor)
               + Traded("SELL", sec, (day + 1)..anchor)

(* reconstruct_holding_snapshots refuses a history that is negative on any *)
(* day with prices, and yields the securities that have a price that day.  *)
Backward(anchor, holding) ==
  LET days == {d \in TradingDays : d < anchor}
      rows == {[sec |-> s, day |-> d, qty |-> Reversed(anchor, holding, s, d)] :
                 s \in Securities, d \in days}
  IN [refused |-> \E r \in rows : r.qty < 0,
      rows |-> {r \in rows : r.qty > 0 /\ <<r.sec, r.day>> \in closes}]

-----------------------------------------------------------------------------
(* trade_matches: sales matched with the earliest open purchases *)

Total(rows) == SumFunction([r \in rows |-> r.qty])
Matched(matches, i) == Total({m \in matches : i \in {m.buy, m.sell}})

(* A sale, and an earlier purchase of the same security. *)
Matchable ==
  {p \in (DOMAIN trades) \X (DOMAIN trades) :
    /\ trades[p[1]].side = "SELL" /\ trades[p[2]].side = "BUY"
    /\ trades[p[1]].sec = trades[p[2]].sec /\ Before(p[2], p[1])}

LatestPair(P) ==
  CHOOSE p \in P : \A q \in P :
    q = p \/ Before(q[1], p[1]) \/ (q[1] = p[1] /\ Before(q[2], p[2]))

MatchPair(matches, p) ==
  LET part == Least(trades[p[1]].qty - Matched(matches, p[1]),
                    trades[p[2]].qty - Matched(matches, p[2]))
  IN IF part = 0 THEN matches
     ELSE matches \cup {[sell |-> p[1], buy |-> p[2], qty |-> part]}

Matches[P \in SUBSET Matchable] ==
  IF P = {} THEN {} ELSE MatchPair(Matches[P \ {LatestPair(P)}], LatestPair(P))

TradeMatches == Matches[Matchable]

-----------------------------------------------------------------------------
(* What a simulation starts with *)

(* Mutant: less what any sale was matched to. *)
RemainingEver(sec, start) ==
  Traded("BUY", sec, 1..(start - 1)) -
  Total({m \in TradeMatches : trades[m.buy].sec = sec /\ trades[m.buy].day < start})

(* Purchases before the start, less what sales before it were matched to. *)
Remaining(sec, start) ==
  Traded("BUY", sec, 1..(start - 1)) -
  Total({m \in TradeMatches : /\ trades[m.buy].sec = sec /\ trades[m.buy].day < start
                              /\ trades[m.sell].day < start})

Bought(start) == \E s \in Securities : Traded("BUY", s, 1..(start - 1)) > 0

Refused(error) == [error |-> error]

(* _reconstruct_initial_snapshot_from_trade_matches *)
FromMatches(start) ==
  IF ~Bought(start) THEN Refused("INITIAL_HOLDINGS_NOT_FOUND")
  ELSE IF \A s \in Securities : Remaining(s, start) = 0 THEN Refused("INITIAL_CAPITAL_EMPTY")
  ELSE [error |-> "none", day |-> start - 1,
        qty |-> [s \in Securities |-> Remaining(s, start)]]

DayRows(day) == {r \in table : r.day = day}
Quantity(rows, sec) == Total({r \in rows : r.sec = sec})

(* load_initial_snapshot: the rows of the last day before the start that   *)
(* has any, or else the trades.                                            *)
Loaded(start) ==
  LET days == {r.day : r \in {x \in table : x.day < start}} IN
  IF days = {} THEN FromMatches(start)
  ELSE IF \A r \in DayRows(Max(days)) : r.qty = 0 THEN Refused("INITIAL_CAPITAL_EMPTY")
  ELSE [error |-> "none", day |-> Max(days),
        qty |-> [s \in Securities |-> Quantity(DayRows(Max(days)), s)]]

(* InitialCapitalCalculator.calculate *)
InitialCapital(start) ==
  LET l == Loaded(start) IN
  IF l.error = "none" /\ l.day >= start THEN Refused("INITIAL_SNAPSHOT_NOT_BEFORE_START")
  ELSE l

-----------------------------------------------------------------------------
(* The importer and the broker's sync *)
ImportTrade ==
  /\ Len(trades) < MaxTrades
  /\ \E t \in Tradable : trades' = Append(trades, t)
  /\ UNCHANGED <<closes, keyed, table, job>>

Row(sec, day, qty, build, copy) ==
  [sec |-> sec, day |-> day, qty |-> qty, build |-> build, copy |-> copy]
Copies(tab, r) == {x \in tab : x.sec = r.sec /\ x.day = r.day}

ReportDay(day) ==
  /\ \E report \in Reports :
       table' = {r \in table : r.day # day \/ r.sec \notin DOMAIN report}
                  \cup {Row(s, day, report[s], Broker, 1) : s \in DOMAIN report}
  /\ UNCHANGED <<trades, closes, keyed, job>>

-----------------------------------------------------------------------------
(* The backfill *)

(* build: needs an anchor, and replays all trades. *)
Build(j) ==
  /\ job[j].pc = "idle" /\ table # {}
  /\ job' = [job EXCEPT ![j] = [pc |-> "built", rows |-> Forward, build |-> Len(trades)]]
  /\ UNCHANGED <<trades, closes, keyed, table>>

End(j) == job' = [job EXCEPT ![j] = [pc |-> "done"]]

(* The script looks which days have rows, unless it overwrites, and goes   *)
(* on if anything is left and it was told to apply.                        *)
ReadSynced(j) ==
  /\ job[j].pc = "built"
  /\ \E synced \in {{}, {r.day : r \in table}} :
       LET pending == {r \in job[j].rows : r.day \notin synced} IN
       IF pending = {} THEN End(j)
       ELSE job' = [job EXCEPT ![j] = [pc |-> "insert", rows |-> pending, build |-> @.build]]
  /\ UNCHANGED <<trades, closes, keyed, table>>

Preview(j) ==
  /\ job[j].pc = "built" /\ End(j)
  /\ UNCHANGED <<trades, closes, keyed, table>>

Added(tab, rows, build) ==
  tab \cup {Row(r.sec, r.day, r.qty, build, Cardinality(Copies(tab, r)) + 1) : r \in rows}

Insert(j) ==
  /\ job[j].pc = "insert"
  /\ ~(keyed /\ \E r \in job[j].rows : Copies(table, r) # {})
  /\ \A r \in job[j].rows : Cardinality(Copies(table, r)) < MaxCopies
  /\ table' = Added(table, job[j].rows, job[j].build)
  /\ End(j)
  /\ UNCHANGED <<trades, closes, keyed>>

(* A duplicate key, or any other error: rolled back. *)
Raise(j) ==
  /\ job[j].pc \in {"built", "insert"} /\ End(j)
  /\ UNCHANGED <<trades, closes, keyed, table>>

(* persist: updates a row of the security and day, or inserts one. *)
Persist(j) ==
  LET old == {r \in table : r.copy = 1 /\ \E n \in job[j].rows : r \in Copies(table, n)}
  IN
  /\ job[j].pc = "built"
  /\ table' = (table \ old)
       \cup {Row(r.sec, r.day, r.qty, job[j].build, 1) : r \in job[j].rows}
  /\ End(j)
  /\ UNCHANGED <<trades, closes, keyed>>

(* Mutant: nothing to put in their place is no reason to keep the rows. *)
ReplaceUnchecked(j) ==
  /\ job[j].pc = "built"
  /\ table' = Added({}, job[j].rows, job[j].build)
  /\ End(j)
  /\ UNCHANGED <<trades, closes, keyed>>

(* replace_account_snapshots: deletes and inserts in one transaction. *)
Replace(j) ==
  /\ job[j].pc = "built" /\ job[j].rows # {}
  /\ table' = Added({}, job[j].rows, job[j].build)
  /\ End(j)
  /\ UNCHANGED <<trades, closes, keyed>>

Next ==
  \/ ImportTrade
  \/ \E d \in SyncDays : ReportDay(d)
  \/ \E j \in Jobs :
       \/ Build(j) \/ ReadSynced(j) \/ Preview(j) \/ Insert(j) \/ Raise(j)
       \/ Persist(j) \/ Replace(j)

Spec == Init /\ [][Next]_vars

-----------------------------------------------------------------------------
(* A row of a rebuild has a positive quantity, and no row has a copy when  *)
(* the key forbids it.                                                     *)
SnapshotTypeOK ==
  /\ trades \in Seq(Tradable) /\ Len(trades) <= MaxTrades
  /\ \A r \in table :
       /\ r.sec \in Securities /\ r.day \in Days /\ r.qty \in Nat
       /\ r.build \in 0..MaxTrades /\ r.copy \in 1..MaxCopies
       /\ r.build # Broker => r.qty > 0
       /\ keyed => r.copy = 1
  /\ \A j \in Jobs : job[j].pc \in {"idle", "built", "insert", "done"}

Held(sec, day) == Traded("BUY", sec, 1..day) - Traded("SELL", sec, 1..day)
NoShortfall == \A s \in Securities : Position(s, LastDay).short = 0

(* For a history without shortfalls the three reconstructions agree: the   *)
(* replay, the reversal from any later day, and the matches of trades      *)
(* (holding_snapshot_service.py:24-225, repository.py:846-980).            *)
ReconstructionsAgree ==
  NoShortfall =>
    /\ \A s \in Securities, d \in Days :
         /\ Position(s, d).qty = Held(s, d)
         /\ Remaining(s, d + 1) = Held(s, d)
    /\ \A anchor \in Days :
         LET b == Backward(anchor, [s \in Securities |-> Position(s, anchor).qty])
         IN /\ ~b.refused
            /\ b.rows = {r \in Forward : r.day < anchor /\ <<r.sec, r.day>> \in closes}

Net(S) ==
  SumFunctionOnSet([i \in DOMAIN trades |->
    IF trades[i].side = "BUY" THEN trades[i].qty ELSE -trades[i].qty], S)
Prefixes(S) == {{}} \cup {{k \in S : k = i \/ Before(k, i)} : i \in S}

(* The adjustments of a security add up to the least opening holding that  *)
(* would explain its trades, and a position is what was traded plus them   *)
(* (holding_snapshot_service.py:185-201).                                  *)
ShortfallsExplain ==
  \A s \in Securities, d \in Days :
    /\ Position(s, d).qty = Held(s, d) + Position(s, d).short
    /\ Position(s, d).short = -Min({Net(S) : S \in Prefixes(TradesOf(s, d))})

(* What a simulation starts with precedes its first day.  It is what the   *)
(* account holds just before that day, from the trades when no day before  *)
(* has rows, and from the last day that has them if they were rebuilt from *)
(* all the trades and nothing was traded since: selling everything also    *)
(* leaves no rows, see LoadIsHeldAtStart (repository.py:772-980,           *)
(* capital_calculator.py:36-56).                                           *)
Rebuilds(rows) == \A r \in rows : r.build = Len(trades) /\ r.build # Broker /\ r.copy = 1
Settled(day, start) ==
  Rebuilds(DayRows(day)) /\ \A i \in DOMAIN trades : trades[i].day \notin (day + 1)..(start - 1)
LoadIsHeld ==
  \A start \in 1..(LastDay + 1) :
    LET c == InitialCapital(start)
        days == {r.day : r \in {x \in table : x.day < start}}
    IN
    /\ c.error # "INITIAL_SNAPSHOT_NOT_BEFORE_START"
    /\ NoShortfall /\ (days = {} \/ Settled(Max(days), start)) =>
         \A s \in Securities :
           IF c.error = "none" THEN c.qty[s] = Held(s, start - 1) ELSE Held(s, start - 1) = 0

Plain(tab) == {[sec |-> r.sec, day |-> r.day, qty |-> r.qty] : r \in tab}
(* "Resolve the account's holdings just before period_start"               *)
(* (repository.py:773): with every day rebuilt from all the trades, and    *)
(* prices on the days of the trades and the day before the start, a        *)
(* simulation starts with what is held at the end of that day.             *)
LoadIsHeldAtStart ==
  \A start \in 2..(LastDay + 1) :
    LET c == InitialCapital(start) IN
    /\ NoShortfall /\ Plain(table) = Forward /\ Rebuilds(table)
    /\ {start - 1} \cup {trades[i].day : i \in DOMAIN trades} \subseteq TradingDays
    /\ c.error = "none"
    => \A s \in Securities : c.qty[s] = Held(s, start - 1)

(* A day that loses its rows loses them to a whole reconstruction: the     *)
(* account is never left without rows (359-422).                           *)
ReplaceIsWhole ==
  [][(\E r \in table : r.day \notin {x.day : x \in table'}) =>
       /\ table' # {}
       /\ \E j \in Jobs : job[j].pc = "built" /\ Plain(table') = job[j].rows]_vars
=============================================================================
