--------------------------- MODULE BacktestEngine ---------------------------
(***************************************************************************)
(* BacktestEngine.run: day by day, the bots' orders of the day before fill *)
(* at the open, the prices move to the close, the user's recorded trades   *)
(* fill at once, the bots signal for the next day, and every portfolio is  *)
(* valued.  A recorded purchase the account cannot pay is topped up, and   *)
(* the same sum is paid into every portfolio.                              *)
(* Money is a whole number; slippage and fees are a spread per share.  The *)
(* strategies are left open: a bot may order anything.  ADD and REDUCE     *)
(* orders fill as BUY and SELL do.                                         *)
(***************************************************************************)
EXTENDS Integers, Sequences, FiniteSets, FiniteSetsExt, Functions

CONSTANTS
  Actual,      \* the ACTUAL_USER variant
  Bots,        \* the other variants
  Universe,    \* securities an order names; one the database does not know never has a quote
  Quotes,      \* [open, close] pairs a day may bring
  NoQuote,     \* no row in daily_prices
  Quantities,  \* shares an order may ask for
  Spread,      \* slippage and fee per share of a bot's fill
  Fees,        \* costs recorded with the user's trades
  Capital,     \* initial capital of a bot
  Endowment,   \* shares of each security the user starts with
  Days,        \* trading days of the period
  MaxOrders    \* bound: orders issued

Variants == {Actual} \cup Bots
OrderIds == 1..MaxOrders

ASSUME EngineAssumption ==
  /\ Actual \notin Bots
  /\ IsFiniteSet(Universe)
  /\ Quotes \subseteq [open : Nat \ {0}, close : Nat \ {0}] /\ NoQuote \notin Quotes
  /\ \A q \in Quotes : Spread <= q.open    \* the rates are far below one
  /\ Quantities \subseteq Nat \ {0} /\ Fees \subseteq Nat
  /\ Spread \in Nat /\ Capital \in Nat /\ Endowment \in Nat
  /\ Days \in Nat \ {0} /\ MaxOrders \in Nat

VARIABLES
  day, phase,   \* "open", "fill", "trade", "end"
  quote,        \* prices_today
  mark,         \* last known close, the current_price of the positions
  cash,         \* cash_balance
  hold,         \* positions, as shares
  inflow,       \* total_cash_inflow
  flow,         \* cash_flows_today
  booked,       \* sum of the snapshots' net_cash_flow
  peak,         \* peak_equities
  pending,      \* pending_orders
  orders,       \* every order issued, by id
  audit,        \* order_audits, by order
  best          \* history: highest daily equity, deposits taken out

bookVars   == <<cash, hold, inflow, flow>>
marketVars == <<quote, mark>>
valueVars  == <<booked, peak, best>>
vars == <<day, phase, marketVars, bookVars, valueVars, pending, orders, audit>>

Equity(v) == cash[v] + SumFunction([s \in Universe |-> hold[v][s] * mark[s]])

Init ==
  /\ day = 1 /\ phase = "open"
  /\ quote = [s \in Universe |-> NoQuote]
  /\ mark \in [Universe -> {q.close : q \in Quotes}]
  /\ cash = [v \in Variants |-> IF v = Actual THEN 0 ELSE Capital]
  /\ hold = [v \in Variants |-> [s \in Universe |-> IF v = Actual THEN Endowment ELSE 0]]
  /\ inflow = [v \in Variants |-> 0]
  /\ flow = [v \in Variants |-> 0]
  /\ booked = [v \in Variants |-> 0]
  /\ peak = [v \in Variants |-> Equity(v)]
  /\ best = [v \in Variants |-> Equity(v)]
  /\ pending = [v \in Bots |-> <<>>]
  /\ orders = <<>>
  /\ audit = [i \in OrderIds |-> <<>>]

-----------------------------------------------------------------------------
(* _execute_orders: how one order fills *)

Quoted(s) == quote[s] # NoQuote
Ask(s) == quote[s].open + Spread
Bid(s) == quote[s].open - Spread

(* At a recorded fill the fee is a sum of its own, else it is in the spread.*)
Cost(o, q) == IF o.variant = Actual THEN q * o.price + o.fee ELSE q * Ask(o.sec)
Proceeds(o, q) == IF o.variant = Actual THEN q * o.price - o.fee ELSE q * Bid(o.sec)

(* Only the user's account is topped up. *)
Deficit(o) == IF o.variant = Actual /\ cash[Actual] < Cost(o, o.qty)
              THEN Cost(o, o.qty) - cash[Actual] ELSE 0

(* Mutant: the fee is forgotten when the quantity is cut. *)
AffordableAtOpen(o) ==
  IF cash[o.variant] + Deficit(o) >= Cost(o, o.qty) THEN o.qty
  ELSE cash[o.variant] \div quote[o.sec].open

(* The quantity a buyer can pay, cut to what the cash covers. *)
Affordable(o) ==
  IF cash[o.variant] + Deficit(o) >= Cost(o, o.qty) THEN o.qty
  ELSE cash[o.variant] \div Ask(o.sec)

Record(o, id, status, q) ==
  audit' = [audit EXCEPT ![id] = Append(@, [status |-> status, day |-> day, qty |-> q])]

Verdict(o, q) == IF q < o.qty THEN "ADJUSTED" ELSE "EXECUTED"

Rejected(o, id) ==
  /\ \/ ~Quoted(o.sec)
     \/ Quoted(o.sec) /\ o.side = "BUY" /\ Affordable(o) <= 0
     \/ Quoted(o.sec) /\ o.side = "SELL" /\ hold[o.variant][o.sec] = 0
  /\ Record(o, id, "REJECTED", 0)
  /\ UNCHANGED bookVars

(* Mutant: only the user's own account is topped up. *)
DepositToActual(d) ==
  /\ inflow' = [inflow EXCEPT ![Actual] = @ + d]
  /\ flow' = [flow EXCEPT ![Actual] = @ + d]

(* Mutant: the flow is reported for the acting portfolio alone. *)
DepositUnreported(d) ==
  /\ inflow' = [v \in Variants |-> inflow[v] + d]
  /\ flow' = [flow EXCEPT ![Actual] = @ + d]

(* add_cash on every portfolio, reported as an external flow of each. *)
Deposit(d) ==
  /\ inflow' = [v \in Variants |-> inflow[v] + d]
  /\ flow' = [v \in Variants |-> flow[v] + d]

(* Mutant: the order is audited with the quantity it asked for. *)
BoughtAsRequested(o, id) ==
  LET q == Affordable(o) IN
  /\ Quoted(o.sec) /\ o.side = "BUY" /\ q > 0
  /\ Deposit(Deficit(o))
  /\ cash' = [v \in Variants |-> cash[v] + Deficit(o)
                                 - (IF v = o.variant THEN Cost(o, q) ELSE 0)]
  /\ hold' = [hold EXCEPT ![o.variant][o.sec] = @ + q]
  /\ Record(o, id, Verdict(o, q), o.qty)

Bought(o, id) ==
  LET q == Affordable(o) IN
  /\ Quoted(o.sec) /\ o.side = "BUY" /\ q > 0
  /\ Deposit(Deficit(o))
  /\ cash' = [v \in Variants |-> cash[v] + Deficit(o)
                                 - (IF v = o.variant THEN Cost(o, q) ELSE 0)]
  /\ hold' = [hold EXCEPT ![o.variant][o.sec] = @ + q]
  /\ Record(o, id, Verdict(o, q), q)

(* Mutant: a sale is not cut to the shares held. *)
SoldAsRequested(o, id) ==
  /\ Quoted(o.sec) /\ o.side = "SELL" /\ hold[o.variant][o.sec] > 0
  /\ cash' = [cash EXCEPT ![o.variant] = @ + Proceeds(o, o.qty)]
  /\ hold' = [hold EXCEPT ![o.variant][o.sec] = @ - o.qty]
  /\ Record(o, id, "EXECUTED", o.qty)
  /\ UNCHANGED <<inflow, flow>>

Sold(o, id) ==
  LET q == Min({o.qty, hold[o.variant][o.sec]}) IN
  /\ Quoted(o.sec) /\ o.side = "SELL" /\ q > 0
  /\ cash' = [cash EXCEPT ![o.variant] = @ + Proceeds(o, q)]
  /\ hold' = [hold EXCEPT ![o.variant][o.sec] = @ - q]
  /\ Record(o, id, Verdict(o, q), q)
  /\ UNCHANGED <<inflow, flow>>

Execute(o, id) == Rejected(o, id) \/ Bought(o, id) \/ Sold(o, id)

-----------------------------------------------------------------------------
(* run: the event loop *)

(* A day exists because some security, one of these or not, has a price. *)
OpenDay ==
  /\ phase = "open" /\ day <= Days
  /\ quote' \in [Universe -> Quotes \cup {NoQuote}]
  /\ flow' = [v \in Variants |-> 0]
  /\ phase' = "fill"
  /\ UNCHANGED <<day, mark, cash, hold, inflow, valueVars, pending, orders, audit>>

(* Bots share nothing, so the order among them is immaterial. *)
FillPending(v) ==
  /\ phase = "fill" /\ pending[v] # <<>>
  /\ Execute(orders[Head(pending[v])], Head(pending[v]))
  /\ pending' = [pending EXCEPT ![v] = Tail(@)]
  /\ UNCHANGED <<day, phase, marketVars, valueVars, orders>>

UpdatePrices ==
  /\ phase = "fill" /\ \A v \in Bots : pending[v] = <<>>
  /\ mark' = [s \in Universe |-> IF Quoted(s) THEN quote[s].close ELSE mark[s]]
  /\ phase' = "trade"
  /\ UNCHANGED <<day, quote, bookVars, valueVars, pending, orders, audit>>

(* A recorded trade fills on its own day, at its own price. *)
ReplayTrade ==
  /\ phase = "trade" /\ Len(orders) < MaxOrders
  /\ \E s \in Universe, side \in {"BUY", "SELL"}, n \in Quantities,
        p \in {q.close : q \in Quotes}, f \in Fees :
       LET o == [variant |-> Actual, sec |-> s, side |-> side, qty |-> n,
                 price |-> p, fee |-> f, day |-> day]
       IN  orders' = Append(orders, o) /\ Execute(o, Len(orders) + 1)
  /\ UNCHANGED <<day, phase, marketVars, valueVars, pending>>

(* Mutant: a bot's order fills at the open of the day it was signalled on. *)
SignalFillsToday(v) ==
  /\ phase = "trade" /\ Len(orders) < MaxOrders
  /\ \E s \in Universe, side \in {"BUY", "SELL"}, n \in Quantities :
       LET o == [variant |-> v, sec |-> s, side |-> side, qty |-> n,
                 price |-> 0, fee |-> 0, day |-> day]
       IN  orders' = Append(orders, o) /\ Execute(o, Len(orders) + 1)
  /\ UNCHANGED <<day, phase, marketVars, valueVars, pending>>

(* The fill price is not known yet: the order waits for the next day. *)
Signal(v) ==
  /\ phase = "trade" /\ Len(orders) < MaxOrders
  /\ \E s \in Universe, side \in {"BUY", "SELL"}, n \in Quantities :
       orders' = Append(orders, [variant |-> v, sec |-> s, side |-> side, qty |-> n,
                                 price |-> 0, fee |-> 0, day |-> day])
  /\ pending' = [pending EXCEPT ![v] = Append(@, Len(orders'))]
  /\ UNCHANGED <<day, phase, marketVars, bookVars, valueVars, audit>>

(* Mutant: the deposit is not added to the peak. *)
RaisedPeakIgnoringFlow(v) ==
  IF day = 1 THEN Equity(v) ELSE Max({peak[v], Equity(v)})

(* The first day is the baseline; afterwards a deposit lifts the peak too. *)
RaisedPeak(v) ==
  IF day = 1 THEN Equity(v) ELSE Max({peak[v] + flow[v], Equity(v)})

CloseDay ==
  /\ phase = "trade"
  /\ peak' = [v \in Variants |-> RaisedPeak(v)]
  /\ booked' = [v \in Variants |-> booked[v] + flow[v]]
  /\ best' = [v \in Variants |->
       LET own == Equity(v) - inflow[v] IN
       IF day = 1 THEN own ELSE Max({best[v], own})]
  /\ day' = day + 1
  /\ phase' = "open"
  /\ UNCHANGED <<marketVars, bookVars, pending, orders, audit>>

(* Mutant: the orders left over are dropped without a record. *)
FinishSilently ==
  /\ phase = "open" /\ day = Days + 1
  /\ phase' = "end"
  /\ pending' = [v \in Bots |-> <<>>]
  /\ UNCHANGED <<day, marketVars, bookVars, valueVars, orders, audit>>

(* NO_NEXT_TRADING_DAY; the list of pending orders itself is left as it is.*)
Finish ==
  /\ phase = "open" /\ day = Days + 1
  /\ phase' = "end"
  /\ audit' = [i \in OrderIds |->
       IF \E v \in Bots : \E k \in 1..Len(pending[v]) : pending[v][k] = i
       THEN Append(audit[i], [status |-> "REJECTED", day |-> 0, qty |-> 0])
       ELSE audit[i]]
  /\ UNCHANGED <<day, marketVars, bookVars, valueVars, pending, orders>>

Next ==
  \/ OpenDay \/ UpdatePrices \/ ReplayTrade \/ CloseDay \/ Finish
  \/ \E v \in Bots : FillPending(v) \/ Signal(v)

Spec == Init /\ [][Next]_vars

-----------------------------------------------------------------------------
Orders == [variant : Variants, sec : Universe, side : {"BUY", "SELL"},
           qty : Quantities, price : Nat, fee : Nat, day : 1..Days]
Audits == [status : {"EXECUTED", "ADJUSTED", "REJECTED"}, day : 0..Days, qty : Nat]

TypeOK ==
  /\ day \in 1..(Days + 1) /\ phase \in {"open", "fill", "trade", "end"}
  /\ quote \in [Universe -> Quotes \cup {NoQuote}] /\ mark \in [Universe -> Nat]
  /\ cash \in [Variants -> Int] /\ hold \in [Variants -> [Universe -> Nat]]
  /\ inflow \in [Variants -> Nat] /\ flow \in [Variants -> Nat]
  /\ booked \in [Variants -> Nat]
  /\ peak \in [Variants -> Int] /\ best \in [Variants -> Int]
  /\ pending \in [Bots -> Seq(OrderIds)]
  /\ orders \in Seq(Orders) /\ audit \in [OrderIds -> Seq(Audits)]

(* A bot never spends cash it does not have, slippage and fee included,    *)
(* however many orders it placed on the strength of the same cash: each    *)
(* fill sees what the earlier ones of the batch left (_execute_orders).    *)
BotsStayFunded == \A v \in Bots : cash[v] >= 0

(* The comparison stays fair: whatever the user's trades need, every       *)
(* portfolio has been paid the same sum (the deficit branch).              *)
DepositsAreEqual == \A v, w \in Variants : inflow[v] = inflow[w]

(* What the snapshots subtract as net_cash_flow is what was paid in: no    *)
(* deposit is missed or counted twice, so none appears as performance.     *)
DepositsAreBooked ==
  phase \in {"open", "end"} => \A v \in Variants : booked[v] = inflow[v]

(* run, above the peak: "a deposit is not performance, so the peak gets    *)
(* the same amount": the peak is the best equity the portfolio reached by  *)
(* itself plus what was paid in.                                           *)
PeakIgnoresDeposits ==
  day > 1 /\ phase \in {"open", "end"} =>
    \A v \in Variants : peak[v] = best[v] + inflow[v]

(* No order is lost and none is settled twice: at the end each has exactly *)
(* one audit, and until then exactly those that wait have none.            *)
EveryOrderAuditedOnce ==
  \A i \in OrderIds :
    LET waits == \E v \in Bots : \E k \in 1..Len(pending[v]) : pending[v][k] = i IN
    Len(audit[i]) = IF i > Len(orders) \/ (waits /\ phase # "end") THEN 0 ELSE 1

(* No look-ahead: a bot's order, decided on a close, fills on a later day; *)
(* a recorded trade fills on its own.                                      *)
FillsFollowSignals ==
  \A i \in 1..Len(orders) : \A k \in 1..Len(audit[i]) :
    audit[i][k].status # "REJECTED" =>
      IF orders[i].variant = Actual THEN audit[i][k].day = orders[i].day
                                    ELSE audit[i][k].day > orders[i].day

Approved(i) == SumFunction([k \in 1..Len(audit[i]) |-> audit[i][k].qty])

OrdersOf(v, s, side) ==
  {i \in 1..Len(orders) :
    orders[i].variant = v /\ orders[i].sec = s /\ orders[i].side = side}

Traded(v, s, side) ==
  SumFunctionOnSet([i \in OrderIds |-> Approved(i)], OrdersOf(v, s, side))

(* The audit trail explains the portfolio: what was approved, bought less  *)
(* sold, is what is held beyond the endowment (order_audits, positions).   *)
AuditsExplainHoldings ==
  \A v \in Variants, s \in Universe :
    hold[v][s] = (IF v = Actual THEN Endowment ELSE 0)
                   + Traded(v, s, "BUY") - Traded(v, s, "SELL")
=============================================================================
