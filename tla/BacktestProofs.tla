--------------------------- MODULE BacktestProofs ---------------------------
(***************************************************************************)
(* Theorems about BacktestEngine, for every number of bots, securities,    *)
(* days and orders, every price and every strategy: bots never overdraw,   *)
(* deposits are equal, booked and kept out of the peak, no order fills     *)
(* before it was decided, each is audited once, and the audits account for *)
(* every share held.                                                       *)
(***************************************************************************)
EXTENDS BacktestEngine, SetSums, TLAPS

-----------------------------------------------------------------------------
(* Types of everything but the valuations *)

BookTypes ==
  /\ day \in 1..(Days + 1) /\ phase \in {"open", "fill", "trade", "end"}
  /\ phase \in {"fill", "trade"} => day <= Days
  /\ quote \in [Universe -> Quotes \cup {NoQuote}]
  /\ cash \in [Variants -> Int] /\ hold \in [Variants -> [Universe -> Nat]]
  /\ inflow \in [Variants -> Nat] /\ flow \in [Variants -> Nat]
  /\ booked \in [Variants -> Nat]
  /\ pending \in [Bots -> Seq(OrderIds)]
  /\ orders \in Seq(Orders) /\ Len(orders) <= MaxOrders
  /\ audit \in [OrderIds -> Seq(Audits)]

(* What is bought with a cut order costs no more than the cash. *)
LEMMA CutFits ==
  ASSUME NEW a \in Nat, NEW b \in Nat \ {0}
  PROVE  a \div b \in Nat /\ (a \div b) * b <= a
OBVIOUS

(* The smaller of two numbers is one of them. *)
LEMMA MinOfTwo ==
  ASSUME NEW a \in Nat, NEW b \in Nat
  PROVE  Min({a, b}) \in {a, b} /\ Min({a, b}) <= a /\ Min({a, b}) <= b
<1>1. \E x \in {a, b} : \A y \in {a, b} : x <= y
  OBVIOUS
<1> QED BY <1>1 DEF Min

-----------------------------------------------------------------------------
(* What one order does *)

(* A fill moves integral sums and whole shares, pays the same into every   *)
(* portfolio, writes one audit of the day, and never overdraws a bot.      *)
LEMMA ExecuteEffect ==
  ASSUME BookTypes, day <= Days, NEW o \in Orders, NEW id \in OrderIds, Execute(o, id)
  PROVE  /\ cash' \in [Variants -> Int] /\ hold' \in [Variants -> [Universe -> Nat]]
         /\ \E d \in Nat : Deposit(d)
         /\ \E a \in Audits : a.day = day /\ audit' = [audit EXCEPT ![id] = Append(@, a)]
         /\ (\A v \in Bots : cash[v] >= 0) => \A v \in Bots : cash'[v] >= 0
<1> DEFINE Goal ==
      /\ cash' \in [Variants -> Int] /\ hold' \in [Variants -> [Universe -> Nat]]
      /\ \E d \in Nat : Deposit(d)
      /\ \E a \in Audits : a.day = day /\ audit' = [audit EXCEPT ![id] = Append(@, a)]
      /\ (\A v \in Bots : cash[v] >= 0) => \A v \in Bots : cash'[v] >= 0
<1> USE EngineAssumption DEF EngineAssumption
<1>1. /\ o.variant \in Variants /\ o.sec \in Universe /\ o.qty \in Nat \ {0}
      /\ o.price \in Nat /\ o.fee \in Nat
      /\ cash[o.variant] \in Int /\ hold[o.variant][o.sec] \in Nat
  <2>1. /\ o.variant \in Variants /\ o.sec \in Universe /\ o.qty \in Quantities
        /\ o.price \in Nat /\ o.fee \in Nat
    BY DEF Orders
  <2>2. hold[o.variant] \in [Universe -> Nat] /\ cash[o.variant] \in Int
    BY <2>1 DEF BookTypes
  <2> QED BY <2>1, <2>2
<1>2. ASSUME Quoted(o.sec)
      PROVE  /\ Ask(o.sec) \in Nat \ {0} /\ Bid(o.sec) \in Nat
  <2>1. quote[o.sec] \in Quotes
    BY <1>1, <1>2 DEF Quoted, BookTypes
  <2>2. quote[o.sec].open \in Nat \ {0} /\ Spread <= quote[o.sec].open
    BY <2>1
  <2> QED BY <2>2 DEF Ask, Bid
<1>3. ASSUME NEW st \in {"EXECUTED", "ADJUSTED", "REJECTED"}, NEW q \in Nat, Record(o, id, st, q)
      PROVE  \E a \in Audits : a.day = day /\ audit' = [audit EXCEPT ![id] = Append(@, a)]
  <2>1. [status |-> st, day |-> day, qty |-> q] \in Audits
    BY DEF Audits, BookTypes
  <2> QED BY <1>3, <2>1 DEF Record
<1>4. ASSUME UNCHANGED <<inflow, flow>> PROVE \E d \in Nat : Deposit(d)
  <2>1. inflow' = [v \in Variants |-> inflow[v] + 0] /\ flow' = [v \in Variants |-> flow[v] + 0]
    BY <1>4 DEF BookTypes
  <2> QED BY <2>1 DEF Deposit
<1>5. ASSUME NEW q \in Nat PROVE Verdict(o, q) \in {"EXECUTED", "ADJUSTED", "REJECTED"}
  BY DEF Verdict
<1>6. CASE Rejected(o, id)
  BY <1>6, <1>3, <1>4 DEF Rejected, bookVars, BookTypes
<1>7. CASE Bought(o, id)
  <2> DEFINE q == Affordable(o)
             d == Deficit(o)
             paid == Cost(o, q)
  <2>1. q \in Int /\ d \in Nat /\ Cost(o, o.qty) \in Nat
    BY <1>1, <1>2, <1>7 DEF Bought, Affordable, Deficit, Cost
  <2>2. q > 0 /\ q \in Nat
    BY <2>1, <1>7 DEF Bought
  <2>3. paid \in Int
    BY <1>1, <1>2, <1>7, <2>2 DEF Bought, Cost
  <2>4. o.variant \in Bots /\ cash[o.variant] >= 0 => d = 0 /\ paid <= cash[o.variant]
    <3> SUFFICES ASSUME o.variant \in Bots, cash[o.variant] >= 0
                 PROVE  d = 0 /\ paid <= cash[o.variant]
      OBVIOUS
    <3>1. o.variant # Actual
      OBVIOUS
    <3>4. d = 0 /\ paid = q * Ask(o.sec)
      BY <3>1 DEF Deficit, Cost
    <3>2. CASE cash[o.variant] + d >= Cost(o, o.qty)
      <4>1. paid = Cost(o, o.qty)
        BY <3>2 DEF Affordable
      <4> HIDE DEF d, paid
      <4> QED BY <4>1, <3>2, <3>4, <1>1, <2>1
    <3>3. CASE ~(cash[o.variant] + d >= Cost(o, o.qty))
      <4>1. q = cash[o.variant] \div Ask(o.sec)
        BY <3>3 DEF Affordable
      <4> HIDE DEF q
      <4> QED BY <4>1, <3>4, <1>1, <1>2, <1>7, CutFits DEF Bought
    <3> QED BY <3>2, <3>3
  <2>5. /\ Deposit(d)
        /\ cash' = [v \in Variants |-> cash[v] + d - (IF v = o.variant THEN paid ELSE 0)]
        /\ hold' = [hold EXCEPT ![o.variant][o.sec] = @ + q]
        /\ Record(o, id, Verdict(o, q), q)
    BY <1>7 DEF Bought
  <2> HIDE DEF q, d, paid
  <2>6. cash' \in [Variants -> Int]
    <3>1. \A v \in Variants : cash[v] \in Int
      BY DEF BookTypes
    <3> QED BY <3>1, <2>1, <2>3, <2>5
  <2>7. hold' \in [Variants -> [Universe -> Nat]]
    <3>1. hold \in [Variants -> [Universe -> Nat]] /\ hold[o.variant] \in [Universe -> Nat]
      BY <1>1 DEF BookTypes
    <3>2. [hold[o.variant] EXCEPT ![o.sec] = @ + q] \in [Universe -> Nat]
      BY <3>1, <2>2, <1>1
    <3> QED BY <3>1, <3>2, <2>5
  <2>8. ASSUME \A v \in Bots : cash[v] >= 0, NEW v \in Bots PROVE cash'[v] >= 0
    <3>1. v \in Variants /\ cash[v] \in Int /\ cash[v] >= 0
      BY <2>8 DEF BookTypes, Variants
    <3> QED BY <3>1, <2>1, <2>3, <2>4, <2>5
  <2>9. \E a \in Audits : a.day = day /\ audit' = [audit EXCEPT ![id] = Append(@, a)]
    BY <2>2, <2>5, <1>3, <1>5
  <2> QED BY <2>1, <2>5, <2>6, <2>7, <2>8, <2>9
<1>8. CASE Sold(o, id)
  <2> DEFINE q == Min({o.qty, hold[o.variant][o.sec]})
             got == Proceeds(o, q)
  <2>1. q \in Nat /\ q <= hold[o.variant][o.sec]
    BY <1>1, MinOfTwo
  <2>2. got \in Int /\ (o.variant \in Bots => got >= 0)
    BY <1>1, <1>2, <1>8, <2>1 DEF Sold, Proceeds
  <2>3. /\ cash' = [cash EXCEPT ![o.variant] = @ + got]
        /\ hold' = [hold EXCEPT ![o.variant][o.sec] = @ - q]
        /\ Record(o, id, Verdict(o, q), q)
        /\ UNCHANGED <<inflow, flow>>
    BY <1>8 DEF Sold
  <2> HIDE DEF q, got
  <2>4. cash' \in [Variants -> Int]
    <3>1. cash \in [Variants -> Int] /\ cash[o.variant] + got \in Int
      BY <2>2, <1>1 DEF BookTypes
    <3> QED BY <3>1, <2>3
  <2>5. hold' \in [Variants -> [Universe -> Nat]]
    <3>1. hold \in [Variants -> [Universe -> Nat]] /\ hold[o.variant] \in [Universe -> Nat]
      BY <1>1 DEF BookTypes
    <3>2. [hold[o.variant] EXCEPT ![o.sec] = @ - q] \in [Universe -> Nat]
      BY <3>1, <2>1, <1>1
    <3> QED BY <3>1, <3>2, <2>3
  <2>6. ASSUME \A v \in Bots : cash[v] >= 0, NEW v \in Bots PROVE cash'[v] >= 0
    <3>1. v \in Variants /\ cash[v] \in Int /\ cash[v] >= 0
      BY <2>6 DEF BookTypes, Variants
    <3> QED BY <3>1, <2>2, <2>3 DEF BookTypes
  <2> QED BY <2>1, <2>3, <2>4, <2>5, <2>6, <1>3, <1>4, <1>5
<1> QED BY <1>6, <1>7, <1>8 DEF Execute

-----------------------------------------------------------------------------
(* The queues of waiting orders *)

(* What waits has been issued, by that bot, and before the day it fills on.*)
WaitingOrders ==
  \A v \in Bots : \A k \in 1..Len(pending[v]) :
    /\ pending[v][k] \in 1..Len(orders)
    /\ orders[pending[v][k]].variant = v
    /\ orders[pending[v][k]].day <= day
    /\ phase # "trade" => orders[pending[v][k]].day < day

(* Nothing waits twice. *)
PendingDistinct ==
  \A v \in Bots : \A j, k \in 1..Len(pending[v]) :
    pending[v][j] = pending[v][k] => j = k

QueueInv == BookTypes /\ WaitingOrders /\ PendingDistinct

(* The initial state: nothing paid in, nothing ordered. *)
LEMMA InitQueue == Init => QueueInv
<1> SUFFICES ASSUME Init PROVE QueueInv
  OBVIOUS
<1> USE EngineAssumption DEF EngineAssumption, Init
<1>1. pending \in [Bots -> Seq(OrderIds)] /\ orders \in Seq(Orders) /\ Len(orders) = 0
  OBVIOUS
<1>2. audit \in [OrderIds -> Seq(Audits)]
  OBVIOUS
<1>3. BookTypes
  BY <1>1, <1>2 DEF BookTypes
<1>4. WaitingOrders /\ PendingDistinct
  BY DEF WaitingOrders, PendingDistinct
<1> QED BY <1>3, <1>4 DEF QueueInv

(* The order at the head of a queue has been issued, by that bot; the rest *)
(* of the queue is what waited behind it.                                  *)
LEMMA HeadWaits ==
  ASSUME QueueInv, NEW v \in Bots, pending[v] # <<>>
  PROVE  LET id == Head(pending[v]) IN
         /\ pending[v] \in Seq(OrderIds) /\ id = pending[v][1]
         /\ id \in OrderIds /\ id \in 1..Len(orders)
         /\ orders[id] \in Orders /\ orders[id].variant = v /\ orders[id].day <= day
         /\ phase # "trade" => orders[id].day < day
         /\ Tail(pending[v]) \in Seq(OrderIds)
         /\ Len(Tail(pending[v])) = Len(pending[v]) - 1
         /\ \A k \in 1..(Len(pending[v]) - 1) : Tail(pending[v])[k] = pending[v][k + 1]
<1>1. pending[v] \in Seq(OrderIds) /\ orders \in Seq(Orders)
  BY DEF QueueInv, BookTypes
<1>2. /\ Head(pending[v]) = pending[v][1] /\ Len(pending[v]) \in Nat /\ Len(pending[v]) >= 1
      /\ Tail(pending[v]) \in Seq(OrderIds)
      /\ Len(Tail(pending[v])) = Len(pending[v]) - 1
      /\ \A k \in 1..(Len(pending[v]) - 1) : Tail(pending[v])[k] = pending[v][k + 1]
  BY <1>1
<1>3. /\ pending[v][1] \in OrderIds /\ pending[v][1] \in 1..Len(orders)
      /\ orders[pending[v][1]].variant = v /\ orders[pending[v][1]].day <= day
      /\ phase # "trade" => orders[pending[v][1]].day < day
  BY <1>1, <1>2 DEF QueueInv, WaitingOrders
<1>4. orders[pending[v][1]] \in Orders
  BY <1>1, <1>3
<1> QED BY <1>1, <1>2, <1>3, <1>4

(* An order taken off its queue leaves the others where they were. *)
LEMMA PopKeepsQueues ==
  ASSUME QueueInv, NEW v \in Bots, pending[v] # <<>>,
         pending' = [pending EXCEPT ![v] = Tail(@)], UNCHANGED <<orders, day, phase>>
  PROVE  /\ pending' \in [Bots -> Seq(OrderIds)] /\ WaitingOrders' /\ PendingDistinct'
<1> USE DEF QueueInv
<1>1. pending \in [Bots -> Seq(OrderIds)]
  BY DEF BookTypes
<1>2. pending' \in [Bots -> Seq(OrderIds)]
  BY <1>1, HeadWaits
<1>3. /\ \A w \in Bots \ {v} : pending'[w] = pending[w]
      /\ pending'[v] = Tail(pending[v])
  BY <1>1
<1>4. /\ Len(pending[v]) \in Nat /\ Len(pending'[v]) = Len(pending[v]) - 1
      /\ \A k \in 1..(Len(pending[v]) - 1) : pending'[v][k] = pending[v][k + 1]
  BY <1>1, <1>3, HeadWaits
<1>5. ASSUME NEW w \in Bots, NEW k \in 1..Len(pending'[w])
      PROVE  \E j \in 1..Len(pending[w]) : pending'[w][k] = pending[w][j]
  BY <1>3, <1>4
<1>6. WaitingOrders'
  <2> SUFFICES ASSUME NEW w \in Bots, NEW k \in 1..Len(pending'[w])
               PROVE  /\ pending'[w][k] \in 1..Len(orders)
                      /\ orders[pending'[w][k]].variant = w
                      /\ orders[pending'[w][k]].day <= day
                      /\ phase # "trade" => orders[pending'[w][k]].day < day
    BY DEF WaitingOrders
  <2>1. PICK j \in 1..Len(pending[w]) : pending'[w][k] = pending[w][j]
    BY <1>5
  <2> QED BY <2>1 DEF WaitingOrders
<1>7. ASSUME NEW w \in Bots, NEW j \in 1..Len(pending'[w]), NEW k \in 1..Len(pending'[w]),
             pending'[w][j] = pending'[w][k]
      PROVE  j = k
  <2>1. CASE w = v
    BY <2>1, <1>4, <1>7 DEF PendingDistinct
  <2>2. CASE w # v
    BY <2>2, <1>3, <1>7 DEF PendingDistinct
  <2> QED BY <2>1, <2>2
<1> QED BY <1>2, <1>6, <1>7 DEF PendingDistinct

(* A new order lengthens the list and leaves the earlier ones in place. *)
LEMMA AppendOrder ==
  ASSUME BookTypes, Len(orders) < MaxOrders, NEW o \in Orders, orders' = Append(orders, o)
  PROVE  /\ orders' \in Seq(Orders) /\ Len(orders) \in Nat
         /\ Len(orders') = Len(orders) + 1 /\ Len(orders') <= MaxOrders
         /\ Len(orders') \in OrderIds /\ orders'[Len(orders')] = o
         /\ \A i \in 1..Len(orders) : orders'[i] = orders[i]
<1>1. orders \in Seq(Orders) /\ MaxOrders \in Nat
  BY EngineAssumption DEF BookTypes, EngineAssumption
<1>2. /\ orders' \in Seq(Orders) /\ Len(orders) \in Nat /\ Len(orders') = Len(orders) + 1
      /\ orders'[Len(orders) + 1] = o /\ \A i \in 1..Len(orders) : orders'[i] = orders[i]
  BY <1>1
<1> QED BY <1>1, <1>2 DEF OrderIds

(* What a replayed trade does: it issues an order and executes it. *)
LEMMA ReplayIssues ==
  ASSUME QueueInv, ReplayTrade
  PROVE  \E o \in Orders : /\ o.variant = Actual /\ o.day = day
                           /\ orders' = Append(orders, o) /\ Execute(o, Len(orders) + 1)
<1> USE EngineAssumption DEF EngineAssumption
<1>1. PICK s \in Universe, side \in {"BUY", "SELL"}, n \in Quantities,
           p \in {q.close : q \in Quotes}, f \in Fees :
        LET o == [variant |-> Actual, sec |-> s, side |-> side, qty |-> n,
                  price |-> p, fee |-> f, day |-> day]
        IN  orders' = Append(orders, o) /\ Execute(o, Len(orders) + 1)
  BY DEF ReplayTrade
<1> DEFINE o == [variant |-> Actual, sec |-> s, side |-> side, qty |-> n,
                 price |-> p, fee |-> f, day |-> day]
<1>2. o \in Orders
  <2>1. p \in Nat /\ f \in Nat /\ Actual \in Variants
    BY DEF Variants
  <2>2. day \in 1..Days
    BY DEF QueueInv, BookTypes, ReplayTrade
  <2> QED BY <2>1, <2>2 DEF Orders
<1> QED BY <1>1, <1>2

(* A signal: the order is issued and waits behind the others of its bot. *)
LEMMA SignalQueues ==
  ASSUME QueueInv, NEW v \in Bots, Signal(v)
  PROVE  QueueInv'
<1> USE EngineAssumption DEF EngineAssumption, QueueInv
<1>1. PICK s \in Universe, side \in {"BUY", "SELL"}, n \in Quantities :
        orders' = Append(orders, [variant |-> v, sec |-> s, side |-> side, qty |-> n,
                                  price |-> 0, fee |-> 0, day |-> day])
  BY DEF Signal
<1> DEFINE o == [variant |-> v, sec |-> s, side |-> side, qty |-> n,
                 price |-> 0, fee |-> 0, day |-> day]
<1>2. o \in Orders /\ o.variant = v /\ o.day = day
  <2>1. v \in Variants
    BY DEF Variants
  <2>2. day \in 1..Days
    BY DEF BookTypes, Signal
  <2> QED BY <2>1, <2>2 DEF Orders
<1>3. /\ orders' \in Seq(Orders) /\ Len(orders) \in Nat
      /\ Len(orders') = Len(orders) + 1 /\ Len(orders') <= MaxOrders
      /\ Len(orders') \in OrderIds /\ orders'[Len(orders')] = o
      /\ \A i \in 1..Len(orders) : orders'[i] = orders[i]
  <2> HIDE DEF o
  <2> QED BY <1>1, <1>2, AppendOrder DEF Signal, o
<1> HIDE DEF o
<1>4. /\ pending \in [Bots -> Seq(OrderIds)] /\ phase' = "trade" /\ phase = "trade" /\ day' = day
      /\ pending' = [pending EXCEPT ![v] = Append(@, Len(orders'))]
  BY DEF BookTypes, Signal
<1>5. /\ pending' \in [Bots -> Seq(OrderIds)]
      /\ \A w \in Bots \ {v} : pending'[w] = pending[w]
      /\ pending'[v] = Append(pending[v], Len(orders'))
  BY <1>3, <1>4
<1>6. /\ Len(pending[v]) \in Nat /\ Len(pending'[v]) = Len(pending[v]) + 1
      /\ pending'[v][Len(pending[v]) + 1] = Len(orders')
      /\ \A k \in 1..Len(pending[v]) : pending'[v][k] = pending[v][k]
  <2>1. pending[v] \in Seq(OrderIds)
    BY <1>4
  <2> QED BY <2>1, <1>3, <1>5
<1>7. ASSUME NEW w \in Bots, NEW k \in 1..Len(pending'[w])
      PROVE  \/ k \in 1..Len(pending[w]) /\ pending'[w][k] = pending[w][k]
             \/ w = v /\ k = Len(pending[v]) + 1 /\ pending'[w][k] = Len(orders')
  <2>1. CASE w = v
    BY <2>1, <1>6
  <2>2. CASE w # v
    BY <2>2, <1>5
  <2> QED BY <2>1, <2>2
<1>8. BookTypes'
  BY <1>3, <1>5 DEF BookTypes, Signal, marketVars, bookVars, valueVars
<1>9. WaitingOrders'
  <2> SUFFICES ASSUME NEW w \in Bots, NEW k \in 1..Len(pending'[w])
               PROVE  /\ pending'[w][k] \in 1..Len(orders')
                      /\ orders'[pending'[w][k]].variant = w
                      /\ orders'[pending'[w][k]].day <= day
    BY <1>4 DEF WaitingOrders
  <2>1. CASE k \in 1..Len(pending[w]) /\ pending'[w][k] = pending[w][k]
    BY <2>1, <1>3 DEF WaitingOrders
  <2>2. CASE w = v /\ pending'[w][k] = Len(orders')
    <3>1. day <= day
      BY DEF BookTypes
    <3> QED BY <2>2, <3>1, <1>2, <1>3
  <2> QED BY <1>7, <2>1, <2>2
<1>10. PendingDistinct'
  <2> SUFFICES ASSUME NEW w \in Bots, NEW j \in 1..Len(pending'[w]), NEW k \in 1..Len(pending'[w]),
                      pending'[w][j] = pending'[w][k]
               PROVE  j = k
    BY DEF PendingDistinct
  <2>1. \A i \in 1..Len(pending[w]) :
          pending[w][i] \in 1..Len(orders) /\ pending[w][i] # Len(orders')
    BY <1>3 DEF WaitingOrders
  <2>2. \/ j \in 1..Len(pending[w]) /\ pending'[w][j] = pending[w][j]
        \/ j = Len(pending[v]) + 1 /\ pending'[w][j] = Len(orders')
    BY <1>7
  <2>3. \/ k \in 1..Len(pending[w]) /\ pending'[w][k] = pending[w][k]
        \/ k = Len(pending[v]) + 1 /\ pending'[w][k] = Len(orders')
    BY <1>7
  <2> QED BY <2>1, <2>2, <2>3 DEF PendingDistinct
<1> QED BY <1>8, <1>9, <1>10

(* The types are kept when an order is executed. *)
LEMMA ExecuteKeepsTypes ==
  ASSUME BookTypes, day <= Days, NEW o \in Orders, NEW id \in OrderIds, Execute(o, id),
         UNCHANGED <<day, phase, quote, booked>>,
         pending' \in [Bots -> Seq(OrderIds)],
         orders' \in Seq(Orders), Len(orders') <= MaxOrders
  PROVE  BookTypes'
<1>1. /\ cash' \in [Variants -> Int] /\ hold' \in [Variants -> [Universe -> Nat]]
      /\ \E d \in Nat : Deposit(d)
      /\ \E a \in Audits : a.day = day /\ audit' = [audit EXCEPT ![id] = Append(@, a)]
  BY ExecuteEffect
<1>2. PICK d \in Nat : Deposit(d)
  BY <1>1
<1>3. inflow' \in [Variants -> Nat] /\ flow' \in [Variants -> Nat]
  <2>1. \A v \in Variants : inflow[v] + d \in Nat /\ flow[v] + d \in Nat
    BY DEF BookTypes
  <2> QED BY <1>2, <2>1 DEF Deposit
<1>4. PICK a \in Audits : audit' = [audit EXCEPT ![id] = Append(@, a)]
  BY <1>1
<1>5. audit' \in [OrderIds -> Seq(Audits)]
  <2>1. audit[id] \in Seq(Audits) /\ audit \in [OrderIds -> Seq(Audits)]
    BY DEF BookTypes
  <2>2. Append(audit[id], a) \in Seq(Audits)
    BY <2>1
  <2> QED BY <1>4, <2>1, <2>2
<1> QED BY <1>1, <1>3, <1>5 DEF BookTypes

(* Every step keeps the queues. *)
LEMMA NextQueue == ASSUME QueueInv, [Next]_vars PROVE QueueInv'
<1> USE EngineAssumption DEF EngineAssumption, QueueInv
<1>1. CASE OpenDay
  <2>1. BookTypes'
    BY <1>1 DEF OpenDay, BookTypes, valueVars
  <2>2. WaitingOrders' /\ PendingDistinct'
    BY <1>1 DEF OpenDay, WaitingOrders, PendingDistinct
  <2> QED BY <2>1, <2>2
<1>2. ASSUME NEW v \in Bots, FillPending(v) PROVE QueueInv'
  <2> DEFINE id == Head(pending[v])
  <2>1. id \in OrderIds /\ orders[id] \in Orders
    BY <1>2, HeadWaits DEF FillPending
  <2>2. pending' \in [Bots -> Seq(OrderIds)] /\ WaitingOrders' /\ PendingDistinct'
    BY <1>2, PopKeepsQueues DEF FillPending
  <2>3. /\ Execute(orders[id], id) /\ UNCHANGED <<day, phase, quote, booked, orders>>
        /\ phase = "fill"
    BY <1>2 DEF FillPending, marketVars, valueVars
  <2> HIDE DEF id
  <2>4. BookTypes'
    BY <2>1, <2>2, <2>3, ExecuteKeepsTypes DEF BookTypes
  <2> QED BY <2>2, <2>4
<1>3. CASE UpdatePrices
  <2>1. BookTypes'
    BY <1>3 DEF UpdatePrices, BookTypes, bookVars, valueVars
  <2>2. WaitingOrders' /\ PendingDistinct'
    BY <1>3 DEF UpdatePrices, WaitingOrders, PendingDistinct
  <2> QED BY <2>1, <2>2
<1>4. CASE ReplayTrade
  <2>1. PICK o \in Orders : orders' = Append(orders, o) /\ Execute(o, Len(orders) + 1)
    BY <1>4, ReplayIssues
  <2>2. /\ Len(orders) < MaxOrders /\ phase = "trade"
        /\ UNCHANGED <<day, phase, quote, booked, pending>>
    BY <1>4 DEF ReplayTrade, marketVars, valueVars
  <2>3. /\ orders' \in Seq(Orders) /\ Len(orders') <= MaxOrders /\ Len(orders) + 1 \in OrderIds
        /\ Len(orders) \in Nat /\ Len(orders') = Len(orders) + 1
        /\ \A i \in 1..Len(orders) : orders'[i] = orders[i]
    BY <2>1, <2>2, AppendOrder
  <2>4. BookTypes'
    BY <2>1, <2>2, <2>3, ExecuteKeepsTypes DEF BookTypes
  <2>5. WaitingOrders' /\ PendingDistinct'
    BY <2>2, <2>3 DEF WaitingOrders, PendingDistinct
  <2> QED BY <2>4, <2>5
<1>5. CASE CloseDay
  <2>1. booked' \in [Variants -> Nat]
    <3>1. \A v \in Variants : booked[v] + flow[v] \in Nat
      BY DEF BookTypes
    <3> QED BY <1>5, <3>1 DEF CloseDay
  <2>2. BookTypes'
    BY <1>5, <2>1 DEF CloseDay, BookTypes, bookVars, marketVars
  <2>3. PendingDistinct'
    BY <1>5 DEF CloseDay, PendingDistinct
  <2>4. WaitingOrders'
    <3>1. UNCHANGED <<pending, orders>> /\ day' = day + 1
      BY <1>5 DEF CloseDay
    <3>2. day \in Int /\ \A i \in 1..Len(orders) : orders[i].day \in Int
      <4>1. day \in Int /\ orders \in Seq(Orders)
        BY DEF BookTypes
      <4>2. \A i \in 1..Len(orders) : orders[i] \in Orders
        BY <4>1
      <4> QED BY <4>1, <4>2 DEF Orders
    <3>3. ASSUME NEW w \in Bots, NEW k \in 1..Len(pending[w])
          PROVE  /\ pending[w][k] \in 1..Len(orders) /\ orders[pending[w][k]].variant = w
                 /\ orders[pending[w][k]].day <= day
      BY DEF WaitingOrders
    <3>4. ASSUME NEW w \in Bots, NEW k \in 1..Len(pending[w])
          PROVE  orders[pending[w][k]].day <= day + 1 /\ orders[pending[w][k]].day < day + 1
      <4> DEFINE i == pending[w][k]
      <4>1. i \in 1..Len(orders) /\ orders[i].day <= day
        BY <3>3
      <4> HIDE DEF i
      <4>2. orders[i].day \in Int
        BY <4>1, <3>2
      <4> QED BY <4>1, <4>2, <3>2 DEF i
    <3> QED BY <3>1, <3>3, <3>4 DEF WaitingOrders
  <2> QED BY <2>2, <2>3, <2>4
<1>6. CASE Finish
  <2>1. audit' \in [OrderIds -> Seq(Audits)]
    <3>1. [status |-> "REJECTED", day |-> 0, qty |-> 0] \in Audits
      BY DEF Audits
    <3>2. \A i \in OrderIds : audit[i] \in Seq(Audits)
      BY DEF BookTypes
    <3>3. \A i \in OrderIds :
            Append(audit[i], [status |-> "REJECTED", day |-> 0, qty |-> 0]) \in Seq(Audits)
      BY <3>1, <3>2
    <3> QED BY <1>6, <3>2, <3>3 DEF Finish
  <2>2. BookTypes'
    BY <1>6, <2>1 DEF Finish, BookTypes, bookVars, marketVars, valueVars
  <2>3. WaitingOrders' /\ PendingDistinct'
    BY <1>6 DEF Finish, WaitingOrders, PendingDistinct
  <2> QED BY <2>2, <2>3
<1>7. CASE UNCHANGED vars
  BY <1>7 DEF vars, bookVars, marketVars, valueVars, BookTypes, WaitingOrders, PendingDistinct
<1> QED BY <1>1, <1>2, <1>3, <1>4, <1>5, <1>6, <1>7, SignalQueues DEF Next

-----------------------------------------------------------------------------
(* Money *)

(* What was paid in has been booked, but for the deposits of the day. *)
FlowsAddUp ==
  \A v \in Variants :
    inflow[v] = booked[v] + (IF phase \in {"fill", "trade"} THEN flow[v] ELSE 0)

MoneyInv == QueueInv /\ BotsStayFunded /\ DepositsAreEqual /\ FlowsAddUp

(* The initial state: nothing paid in. *)
LEMMA InitMoney == Init => BotsStayFunded /\ DepositsAreEqual /\ FlowsAddUp
<1> USE EngineAssumption DEF EngineAssumption, Init
<1>1. Init => BotsStayFunded
  BY DEF BotsStayFunded, Variants
<1>2. Init => DepositsAreEqual /\ FlowsAddUp
  BY DEF DepositsAreEqual, FlowsAddUp
<1> QED BY <1>1, <1>2

(* A fill keeps the money invariant, whichever order it is. *)
LEMMA FillKeepsMoney ==
  ASSUME MoneyInv, phase \in {"fill", "trade"}, phase' = phase, booked' = booked,
         \E d \in Nat : Deposit(d),
         (\A v \in Bots : cash[v] >= 0) => \A v \in Bots : cash'[v] >= 0
  PROVE  BotsStayFunded' /\ DepositsAreEqual' /\ FlowsAddUp'
<1>1. PICK d \in Nat : Deposit(d)
  OBVIOUS
<1>2. \A v \in Variants : /\ inflow[v] \in Nat /\ flow[v] \in Nat /\ booked[v] \in Nat
                          /\ inflow'[v] = inflow[v] + d /\ flow'[v] = flow[v] + d
  BY <1>1 DEF MoneyInv, QueueInv, BookTypes, Deposit
<1>3. BotsStayFunded'
  BY DEF MoneyInv, BotsStayFunded
<1>4. DepositsAreEqual'
  BY <1>2 DEF MoneyInv, DepositsAreEqual
<1>5. FlowsAddUp'
  BY <1>2 DEF MoneyInv, FlowsAddUp
<1> QED BY <1>3, <1>4, <1>5

(* Every step keeps the money invariant. *)
LEMMA NextMoney == ASSUME MoneyInv, [Next]_vars PROVE MoneyInv'
<1>0. QueueInv' /\ QueueInv /\ BookTypes
  BY NextQueue DEF MoneyInv, QueueInv
<1>a. ASSUME NEW o \in Orders, NEW id \in OrderIds, Execute(o, id), phase \in {"fill", "trade"},
             phase' = phase, booked' = booked
      PROVE  MoneyInv'
  <2>1. day <= Days
    BY <1>0, <1>a DEF BookTypes
  <2>2. /\ \E d \in Nat : Deposit(d)
        /\ (\A v \in Bots : cash[v] >= 0) => \A v \in Bots : cash'[v] >= 0
    BY <2>1, <1>0, <1>a, ExecuteEffect
  <2> QED BY <2>2, <1>0, <1>a, FillKeepsMoney DEF MoneyInv
<1>1. CASE OpenDay
  <2>1. BotsStayFunded' /\ DepositsAreEqual'
    BY <1>1 DEF OpenDay, BotsStayFunded, DepositsAreEqual, MoneyInv
  <2>2. FlowsAddUp'
    BY <1>0, <1>1 DEF OpenDay, FlowsAddUp, valueVars, BookTypes, MoneyInv
  <2> QED BY <1>0, <2>1, <2>2 DEF MoneyInv
<1>2. ASSUME NEW v \in Bots, FillPending(v) PROVE MoneyInv'
  <2>1. Head(pending[v]) \in OrderIds /\ orders[Head(pending[v])] \in Orders
    BY <1>0, <1>2, HeadWaits DEF FillPending
  <2> QED BY <2>1, <1>2, <1>a DEF FillPending, valueVars
<1>3. CASE UpdatePrices
  BY <1>0, <1>3 DEF UpdatePrices, bookVars, valueVars, MoneyInv, BotsStayFunded,
                    DepositsAreEqual, FlowsAddUp
<1>4. CASE ReplayTrade
  <2>1. PICK o \in Orders : orders' = Append(orders, o) /\ Execute(o, Len(orders) + 1)
    BY <1>0, <1>4, ReplayIssues
  <2>2. Len(orders) + 1 \in OrderIds
    BY <2>1, <1>0, <1>4, AppendOrder DEF ReplayTrade
  <2> QED BY <2>1, <2>2, <1>4, <1>a DEF ReplayTrade, valueVars
<1>5. CASE CloseDay
  <2>1. BotsStayFunded' /\ DepositsAreEqual'
    BY <1>5 DEF CloseDay, bookVars, BotsStayFunded, DepositsAreEqual, MoneyInv
  <2>2. \A v \in Variants : inflow[v] = booked[v] + flow[v]
    BY <1>5 DEF CloseDay, FlowsAddUp, MoneyInv
  <2>3. FlowsAddUp'
    BY <1>0, <1>5, <2>2 DEF CloseDay, bookVars, FlowsAddUp, BookTypes
  <2> QED BY <1>0, <2>1, <2>3 DEF MoneyInv
<1>6. CASE Finish
  BY <1>0, <1>6 DEF Finish, bookVars, valueVars, MoneyInv, BotsStayFunded,
                    DepositsAreEqual, FlowsAddUp
<1>7. ASSUME NEW v \in Bots, Signal(v) PROVE MoneyInv'
  BY <1>0, <1>7 DEF Signal, bookVars, valueVars, MoneyInv, BotsStayFunded,
                    DepositsAreEqual, FlowsAddUp
<1>8. CASE UNCHANGED vars
  BY <1>0, <1>8 DEF vars, bookVars, valueVars, MoneyInv, BotsStayFunded,
                    DepositsAreEqual, FlowsAddUp
<1> QED BY <1>1, <1>2, <1>3, <1>4, <1>5, <1>6, <1>7, <1>8 DEF Next

-----------------------------------------------------------------------------
(* Orders and their audits *)

Waits(i) == \E v \in Bots : \E k \in 1..Len(pending[v]) : pending[v][k] = i

AuditInv == QueueInv /\ EveryOrderAuditedOnce /\ FillsFollowSignals

(* EveryOrderAuditedOnce, one order at a time. *)
LEMMA AuditCount ==
  EveryOrderAuditedOnce <=>
    \A i \in OrderIds :
      Len(audit[i]) = IF i > Len(orders) \/ (Waits(i) /\ phase # "end") THEN 0 ELSE 1
BY DEF EveryOrderAuditedOnce, Waits

(* Where nothing is said of the audits, they stand. *)
LEMMA AuditsStand ==
  ASSUME AuditInv, UNCHANGED <<audit, orders, pending>>, (phase = "end") <=> (phase' = "end")
  PROVE  EveryOrderAuditedOnce' /\ FillsFollowSignals'
BY DEF AuditInv, EveryOrderAuditedOnce, FillsFollowSignals

(* An audit of the day is the first of its order, and the order may fill   *)
(* on this day.                                                            *)
LEMMA FirstAudit ==
  ASSUME AuditInv, NEW id \in OrderIds, NEW a \in Audits, a.day = day, Len(audit[id]) = 0,
         audit' = [audit EXCEPT ![id] = Append(@, a)],
         id \in 1..Len(orders'),
         \A i \in 1..Len(orders') : i = id \/ (i \in 1..Len(orders) /\ orders'[i] = orders[i]),
         IF orders'[id].variant = Actual THEN day = orders'[id].day ELSE day > orders'[id].day
  PROVE  /\ Len(audit'[id]) = 1 /\ \A i \in OrderIds \ {id} : audit'[i] = audit[i]
         /\ FillsFollowSignals'
<1>1. audit \in [OrderIds -> Seq(Audits)] /\ audit[id] \in Seq(Audits)
  BY DEF AuditInv, QueueInv, BookTypes
<1>2. audit'[id] = Append(audit[id], a) /\ \A i \in OrderIds \ {id} : audit'[i] = audit[i]
  BY <1>1
<1>3. Len(audit'[id]) = 1 /\ audit'[id][1] = a
  BY <1>1, <1>2
<1>4. FillsFollowSignals'
  <2> SUFFICES ASSUME NEW i \in 1..Len(orders'), NEW k \in 1..Len(audit'[i]),
                      audit'[i][k].status # "REJECTED"
               PROVE  IF orders'[i].variant = Actual THEN audit'[i][k].day = orders'[i].day
                                                     ELSE audit'[i][k].day > orders'[i].day
    BY DEF FillsFollowSignals
  <2>1. CASE i = id
    BY <2>1, <1>3
  <2>2. CASE i # id
    <3>1. i \in 1..Len(orders) /\ orders'[i] = orders[i]
      BY <2>2
    <3>2. i \in OrderIds
      BY <3>1, EngineAssumption DEF AuditInv, QueueInv, BookTypes, OrderIds, EngineAssumption
    <3>3. audit'[i] = audit[i]
      BY <3>2, <2>2, <1>2
    <3> QED BY <3>1, <3>3 DEF AuditInv, FillsFollowSignals
  <2> QED BY <2>1, <2>2
<1> QED BY <1>2, <1>3, <1>4

(* Taken off its queue, the order waits no more; the others still do.     *)
LEMMA PopEndsWaiting ==
  ASSUME QueueInv, NEW v \in Bots, pending[v] # <<>>, pending' = [pending EXCEPT ![v] = Tail(@)]
  PROVE  /\ Waits(Head(pending[v]))
         /\ \A i : Waits(i)' <=> Waits(i) /\ i # Head(pending[v])
<1> DEFINE id == Head(pending[v])
<1>1. /\ pending \in [Bots -> Seq(OrderIds)] /\ pending[v] \in Seq(OrderIds)
      /\ Len(pending[v]) \in Nat \ {0} /\ pending[v][1] = id
      /\ Len(Tail(pending[v])) = Len(pending[v]) - 1
      /\ \A k \in 1..(Len(pending[v]) - 1) : Tail(pending[v])[k] = pending[v][k + 1]
  <2>1. pending \in [Bots -> Seq(OrderIds)] /\ pending[v] \in Seq(OrderIds)
    BY DEF QueueInv, BookTypes
  <2> QED BY <2>1, HeadWaits
<1>2. pending'[v] = Tail(pending[v]) /\ \A w \in Bots \ {v} : pending'[w] = pending[w]
  BY <1>1
<1>3. Waits(id)
  BY <1>1 DEF Waits
<1>4. ASSUME NEW i, Waits(i)' PROVE Waits(i) /\ i # id
  <2>0. PICK w \in Bots : \E k \in 1..Len(pending'[w]) : pending'[w][k] = i
    BY <1>4 DEF Waits
  <2>1. PICK k \in 1..Len(pending'[w]) : pending'[w][k] = i
    BY <2>0
  <2>2. CASE w = v
    <3>1. k + 1 \in 1..Len(pending[v]) /\ pending[v][k + 1] = i
      BY <2>1, <2>2, <1>1, <1>2
    <3>2. i # id
      BY <3>1, <1>1 DEF QueueInv, PendingDistinct
    <3> QED BY <3>1, <3>2 DEF Waits
  <2>3. CASE w # v
    <3>1. k \in 1..Len(pending[w]) /\ pending[w][k] = i
      BY <2>1, <2>3, <1>2
    <3>2. orders[i].variant = w /\ orders[id].variant = v
      BY <3>1, <1>1 DEF QueueInv, WaitingOrders
    <3> QED BY <3>1, <3>2, <2>3 DEF Waits
  <2> QED BY <2>2, <2>3
<1>5. ASSUME NEW i, Waits(i), i # id PROVE Waits(i)'
  <2>0. PICK w \in Bots : \E k \in 1..Len(pending[w]) : pending[w][k] = i
    BY <1>5 DEF Waits
  <2>1. PICK k \in 1..Len(pending[w]) : pending[w][k] = i
    BY <2>0
  <2>2. CASE w = v
    <3>1. k # 1
      BY <2>1, <2>2, <1>1, <1>5
    <3>2. k - 1 \in 1..(Len(pending[v]) - 1) /\ pending'[v][k - 1] = i
      BY <3>1, <2>1, <2>2, <1>1, <1>2
    <3>3. k - 1 \in 1..Len(pending'[v])
      BY <3>2, <1>1, <1>2
    <3> QED BY <3>2, <3>3 DEF Waits
  <2>3. CASE w # v
    BY <2>1, <2>3, <1>2 DEF Waits
  <2> QED BY <2>2, <2>3
<1> QED BY <1>3, <1>4, <1>5

(* A new order is not waiting yet, and none of the earlier ones is new. *)
LEMMA NewIsNotWaiting ==
  ASSUME QueueInv, NEW i, i > Len(orders) PROVE ~Waits(i)
<1>1. Len(orders) \in Nat
  BY DEF QueueInv, BookTypes
<1> QED BY <1>1 DEF Waits, QueueInv, WaitingOrders

(* The initial state: nothing is ordered. *)
LEMMA InitAudit == Init => EveryOrderAuditedOnce /\ FillsFollowSignals
<1>1. Init => EveryOrderAuditedOnce
  BY EngineAssumption DEF Init, EveryOrderAuditedOnce, OrderIds, EngineAssumption
<1>2. Init => FillsFollowSignals
  BY DEF Init, FillsFollowSignals
<1> QED BY <1>1, <1>2

(* Every step keeps the audits in order. *)
LEMMA NextAudit == ASSUME AuditInv, [Next]_vars PROVE AuditInv'
<1>0. QueueInv' /\ QueueInv /\ BookTypes
  BY NextQueue DEF AuditInv, QueueInv
<1>b. /\ Len(orders) \in Nat /\ orders \in Seq(Orders) /\ audit \in [OrderIds -> Seq(Audits)]
      /\ day <= Days \/ phase \notin {"fill", "trade"}
      /\ \A i \in OrderIds : i \in Nat \ {0}
  BY <1>0, EngineAssumption DEF BookTypes, OrderIds, EngineAssumption
<1>1. CASE OpenDay
  <2>1. UNCHANGED <<audit, orders, pending>> /\ phase # "end" /\ phase' # "end"
    BY <1>1 DEF OpenDay
  <2> QED BY <2>1, <1>0, AuditsStand DEF AuditInv
<1>2. ASSUME NEW v \in Bots, FillPending(v) PROVE AuditInv'
  <2> DEFINE id == Head(pending[v])
  <2>1. /\ id \in OrderIds /\ id \in 1..Len(orders)
        /\ orders[id] \in Orders /\ orders[id].variant = v /\ orders[id].day < day
    BY <1>0, <1>2, HeadWaits DEF FillPending
  <2>2. Waits(id) /\ \A i : Waits(i)' <=> Waits(i) /\ i # id
    BY <1>0, <1>2, PopEndsWaiting DEF FillPending
  <2>3. /\ Execute(orders[id], id) /\ phase = "fill" /\ phase' = "fill" /\ orders' = orders
    BY <1>2 DEF FillPending
  <2> HIDE DEF id
  <2>4. PICK a \in Audits : a.day = day /\ audit' = [audit EXCEPT ![id] = Append(@, a)]
    BY <2>1, <2>3, <1>0, <1>b, ExecuteEffect
  <2>5. Len(audit[id]) = 0
    BY <2>1, <2>2, <2>3, AuditCount DEF AuditInv
  <2>6. v # Actual
    BY EngineAssumption DEF EngineAssumption
  <2>7. IF orders'[id].variant = Actual THEN day = orders'[id].day ELSE day > orders'[id].day
    BY <2>1, <2>3, <2>6, <1>b DEF Orders
  <2>8. /\ Len(audit'[id]) = 1 /\ \A i \in OrderIds \ {id} : audit'[i] = audit[i]
        /\ FillsFollowSignals'
    BY <2>1, <2>3, <2>4, <2>5, <2>7, FirstAudit
  <2>9. \A i \in OrderIds :
          Len(audit'[i]) = IF i > Len(orders') \/ (Waits(i)' /\ phase' # "end") THEN 0 ELSE 1
    <3> SUFFICES ASSUME NEW i \in OrderIds
                 PROVE  Len(audit'[i]) = IF i > Len(orders) \/ Waits(i)' THEN 0 ELSE 1
      BY <2>3
    <3>1. Len(audit[i]) = IF i > Len(orders) \/ Waits(i) THEN 0 ELSE 1
      BY <2>3, AuditCount DEF AuditInv
    <3>2. Waits(i)' <=> Waits(i) /\ i # id
      BY <2>2
    <3>3. CASE i = id
      BY <3>2, <3>3, <2>1, <2>8, <1>b
    <3>4. CASE i # id
      BY <3>1, <3>2, <3>4, <2>8
    <3> QED BY <3>3, <3>4
  <2>10. EveryOrderAuditedOnce'
    BY <2>9 DEF EveryOrderAuditedOnce, Waits
  <2> QED BY <2>8, <2>10, <1>0 DEF AuditInv
<1>3. CASE UpdatePrices
  <2>1. UNCHANGED <<audit, orders, pending>> /\ phase # "end" /\ phase' # "end"
    BY <1>3 DEF UpdatePrices
  <2> QED BY <2>1, <1>0, AuditsStand DEF AuditInv
<1>4. CASE ReplayTrade
  <2> DEFINE id == Len(orders) + 1
  <2>1. PICK o \in Orders : /\ o.variant = Actual /\ o.day = day
                            /\ orders' = Append(orders, o) /\ Execute(o, id)
    BY <1>0, <1>4, ReplayIssues
  <2>2. /\ Len(orders') = id /\ id \in OrderIds /\ orders'[id] = o
        /\ \A i \in 1..Len(orders) : orders'[i] = orders[i]
    BY <2>1, <1>0, <1>4, AppendOrder DEF ReplayTrade
  <2>3. phase = "trade" /\ phase' = "trade" /\ pending' = pending
    BY <1>4 DEF ReplayTrade
  <2>4. PICK a \in Audits : a.day = day /\ audit' = [audit EXCEPT ![id] = Append(@, a)]
    <3> HIDE DEF id
    <3> QED BY <2>1, <2>2, <2>3, <1>0, <1>b, ExecuteEffect
  <2>5. id > Len(orders) /\ Len(audit[id]) = 0 /\ ~Waits(id)
    <3>1. id > Len(orders)
      BY <1>b
    <3> HIDE DEF id
    <3>2. ~Waits(id)
      BY <3>1, <1>0, NewIsNotWaiting
    <3>3. Len(audit[id]) = 0
      BY <3>1, <2>2, AuditCount DEF AuditInv
    <3> QED BY <3>1, <3>2, <3>3
  <2>6. id \in 1..Len(orders')
        /\ \A i \in 1..Len(orders') : i = id \/ (i \in 1..Len(orders) /\ orders'[i] = orders[i])
    <3>1. Len(orders) \in Nat /\ id = Len(orders) + 1
      BY <1>b
    <3> HIDE DEF id
    <3>2. id \in 1..Len(orders') /\ \A i \in 1..Len(orders') : i = id \/ i \in 1..Len(orders)
      BY <3>1, <2>2
    <3>3. \A i \in 1..Len(orders) : orders'[i] = orders[i]
      BY <2>2
    <3> QED BY <3>2, <3>3
  <2> HIDE DEF id
  <2>7. /\ Len(audit'[id]) = 1 /\ \A i \in OrderIds \ {id} : audit'[i] = audit[i]
        /\ FillsFollowSignals'
    <3>1. IF orders'[id].variant = Actual THEN day = orders'[id].day ELSE day > orders'[id].day
      BY <2>1, <2>2
    <3> QED BY <3>1, <2>2, <2>4, <2>5, <2>6, FirstAudit
  <2>8. \A i \in OrderIds :
          Len(audit'[i]) = IF i > Len(orders') \/ (Waits(i)' /\ phase' # "end") THEN 0 ELSE 1
    <3> SUFFICES ASSUME NEW i \in OrderIds
                 PROVE  Len(audit'[i]) = IF i > id \/ Waits(i) THEN 0 ELSE 1
      BY <2>2, <2>3 DEF Waits
    <3>1. Len(audit[i]) = IF i > Len(orders) \/ Waits(i) THEN 0 ELSE 1
      BY <2>3, AuditCount DEF AuditInv
    <3>2. i > Len(orders) <=> i > id \/ i = id
      BY <1>b DEF id
    <3>3. ~(id > id)
      BY <1>b DEF id
    <3> QED BY <3>1, <3>2, <3>3, <2>5, <2>7
  <2>9. EveryOrderAuditedOnce'
    BY <2>8 DEF EveryOrderAuditedOnce, Waits
  <2> QED BY <2>7, <2>9, <1>0 DEF AuditInv
<1>5. CASE CloseDay
  <2>1. UNCHANGED <<audit, orders, pending>> /\ phase # "end" /\ phase' # "end"
    BY <1>5 DEF CloseDay
  <2> QED BY <2>1, <1>0, AuditsStand DEF AuditInv
<1>6. CASE Finish
  <2> DEFINE left == [status |-> "REJECTED", day |-> 0, qty |-> 0]
  <2>1. /\ phase = "open" /\ phase' = "end" /\ orders' = orders /\ pending' = pending
        /\ audit' = [i \in OrderIds |-> IF Waits(i) THEN Append(audit[i], left) ELSE audit[i]]
    BY <1>6 DEF Finish, Waits
  <2>2. left \in Audits /\ left.status = "REJECTED"
    BY EngineAssumption DEF Audits, EngineAssumption
  <2> HIDE DEF left
  <2>3. ASSUME NEW i \in OrderIds
        PROVE  /\ audit[i] \in Seq(Audits)
               /\ Len(audit[i]) = IF i > Len(orders) \/ Waits(i) THEN 0 ELSE 1
    BY <2>1, <1>b, AuditCount DEF AuditInv
  <2>4. ASSUME NEW i \in OrderIds, Waits(i)
        PROVE  ~(i > Len(orders)) /\ Len(audit'[i]) = 1 /\ audit'[i][1] = left
    <3>1. ~(i > Len(orders))
      BY <2>4, <1>0, NewIsNotWaiting
    <3>2. audit'[i] = Append(audit[i], left) /\ audit[i] \in Seq(Audits) /\ Len(audit[i]) = 0
      BY <2>1, <2>3, <2>4
    <3> QED BY <3>1, <3>2, <2>2
  <2>5. ASSUME NEW i \in OrderIds, ~Waits(i) PROVE audit'[i] = audit[i]
    BY <2>1, <2>5
  <2>6. \A i \in OrderIds : Len(audit'[i]) = IF i > Len(orders) THEN 0 ELSE 1
    BY <2>3, <2>4, <2>5
  <2>7. EveryOrderAuditedOnce'
    BY <2>6, <2>1 DEF EveryOrderAuditedOnce
  <2>8. FillsFollowSignals'
    <3> SUFFICES ASSUME NEW i \in 1..Len(orders), NEW k \in 1..Len(audit'[i]),
                        audit'[i][k].status # "REJECTED"
                 PROVE  IF orders[i].variant = Actual THEN audit'[i][k].day = orders[i].day
                                                      ELSE audit'[i][k].day > orders[i].day
      <4>1. orders' = orders
        BY <2>1
      <4> QED BY <4>1 DEF FillsFollowSignals
    <3>1. i \in OrderIds
      BY <1>0, EngineAssumption DEF BookTypes, OrderIds, EngineAssumption
    <3>2. ~Waits(i)
      BY <3>1, <2>2, <2>4
    <3>3. audit'[i] = audit[i]
      BY <3>1, <3>2, <2>5
    <3> QED BY <3>3 DEF AuditInv, FillsFollowSignals
  <2> QED BY <2>7, <2>8, <1>0 DEF AuditInv
<1>7. ASSUME NEW v \in Bots, Signal(v) PROVE AuditInv'
  <2> DEFINE id == Len(orders')
  <2>1. /\ phase = "trade" /\ phase' = "trade" /\ audit' = audit
        /\ pending' = [pending EXCEPT ![v] = Append(@, id)]
    BY <1>7 DEF Signal
  <2>2. id = Len(orders) + 1 /\ \A i \in 1..Len(orders) : orders'[i] = orders[i]
    BY <1>7, <1>b DEF Signal
  <2>3. \A i \in OrderIds : Waits(i)' <=> Waits(i) \/ i = id
    <3>1. /\ pending[v] \in Seq(OrderIds) /\ pending'[v] = Append(pending[v], id)
          /\ \A w \in Bots \ {v} : pending'[w] = pending[w]
      BY <1>0, <2>1 DEF BookTypes
    <3>0. id \in OrderIds
      BY <1>7, <2>2, <1>b, EngineAssumption DEF Signal, OrderIds, EngineAssumption
    <3> HIDE DEF id
    <3>2. /\ Len(pending[v]) \in Nat /\ Len(pending'[v]) = Len(pending[v]) + 1
          /\ pending'[v][Len(pending[v]) + 1] = id
          /\ \A k \in 1..Len(pending[v]) : pending'[v][k] = pending[v][k]
      BY <3>0, <3>1
    <3>3. \A w \in Bots : \A k \in 1..Len(pending'[w]) :
            pending'[w][k] = id \/ (k \in 1..Len(pending[w]) /\ pending'[w][k] = pending[w][k])
      <4> TAKE w \in Bots
      <4> TAKE k \in 1..Len(pending'[w])
      <4>1. CASE w = v
        <5>1. k = Len(pending[v]) + 1 \/ k \in 1..Len(pending[v])
          BY <4>1, <3>2
        <5> QED BY <5>1, <4>1, <3>2
      <4>2. CASE w # v
        BY <4>2, <3>1
      <4> QED BY <4>1, <4>2
    <3>4. \A w \in Bots : \A k \in 1..Len(pending[w]) :
            k \in 1..Len(pending'[w]) /\ pending'[w][k] = pending[w][k]
      <4> TAKE w \in Bots
      <4> TAKE k \in 1..Len(pending[w])
      <4>1. CASE w = v
        BY <4>1, <3>2
      <4>2. CASE w # v
        BY <4>2, <3>1
      <4> QED BY <4>1, <4>2
    <3>5. Len(pending[v]) + 1 \in 1..Len(pending'[v])
      BY <3>2
    <3>6. ASSUME NEW i, Waits(i)' PROVE Waits(i) \/ i = id
      BY <3>3, <3>6 DEF Waits
    <3>7. ASSUME NEW i, Waits(i) PROVE Waits(i)'
      BY <3>4, <3>7 DEF Waits
    <3>8. ASSUME NEW i, i = id PROVE Waits(i)'
      BY <3>2, <3>5, <3>8 DEF Waits
    <3> QED BY <3>6, <3>7, <3>8
  <2>4. \A i \in OrderIds :
          Len(audit'[i]) = IF i > Len(orders') \/ (Waits(i)' /\ phase' # "end") THEN 0 ELSE 1
    <3> SUFFICES ASSUME NEW i \in OrderIds
                 PROVE  Len(audit[i]) = IF i > id \/ Waits(i) \/ i = id THEN 0 ELSE 1
      BY <2>1, <2>3
    <3>1. Len(audit[i]) = IF i > Len(orders) \/ Waits(i) THEN 0 ELSE 1
      BY <2>1, AuditCount DEF AuditInv
    <3>2. i > Len(orders) <=> i > id \/ i = id
      BY <1>b, <2>2
    <3> QED BY <3>1, <3>2
  <2>5. EveryOrderAuditedOnce'
    BY <2>4 DEF EveryOrderAuditedOnce, Waits
  <2>6. FillsFollowSignals'
    <3> SUFFICES ASSUME NEW i \in 1..Len(orders'), NEW k \in 1..Len(audit[i]),
                        audit[i][k].status # "REJECTED"
                 PROVE  IF orders'[i].variant = Actual THEN audit[i][k].day = orders'[i].day
                                                       ELSE audit[i][k].day > orders'[i].day
      BY <2>1 DEF FillsFollowSignals
    <3>1. i \in OrderIds
      BY <1>0, EngineAssumption DEF QueueInv, BookTypes, OrderIds, EngineAssumption
    <3>2. i # id
      <4>1. Len(audit[i]) # 0
        OBVIOUS
      <4> QED BY <4>1, <3>1, <1>b, <2>2, AuditCount DEF AuditInv
    <3>3. i \in 1..Len(orders)
      BY <3>2, <2>2, <1>b
    <3> QED BY <3>3, <2>2 DEF AuditInv, FillsFollowSignals
  <2> QED BY <2>5, <2>6, <1>0 DEF AuditInv
<1>8. CASE UNCHANGED vars
  <2>1. UNCHANGED <<audit, orders, pending, phase>>
    BY <1>8 DEF vars
  <2> QED BY <2>1, <1>0, AuditsStand DEF AuditInv
<1> QED BY <1>1, <1>2, <1>3, <1>4, <1>5, <1>6, <1>7, <1>8 DEF Next

-----------------------------------------------------------------------------
(* Valuations *)

(* The larger of two numbers is one of them. *)
LEMMA MaxOfTwo ==
  ASSUME NEW a \in Int, NEW b \in Int
  PROVE  Max({a, b}) \in {a, b} /\ Max({a, b}) >= a /\ Max({a, b}) >= b
<1>1. \E x \in {a, b} : \A y \in {a, b} : x >= y
  OBVIOUS
<1> QED BY <1>1 DEF Max

(* Both sides of a comparison are moved by the same sum. *)
LEMMA MaxMoves ==
  ASSUME NEW a \in Int, NEW b \in Int, NEW d \in Int
  PROVE  Max({a + d, b}) = Max({a, b - d}) + d
<1>1. /\ Max({a, b - d}) \in {a, b - d} /\ Max({a, b - d}) >= a /\ Max({a, b - d}) >= b - d
      /\ Max({a + d, b}) \in {a + d, b} /\ Max({a + d, b}) >= a + d /\ Max({a + d, b}) >= b
  <2>1. a + d \in Int /\ b - d \in Int
    OBVIOUS
  <2> QED BY <2>1, MaxOfTwo
<1> QED BY <1>1

(* The market value of whole shares at known prices is a number. *)
LEMMA EquityIsInt ==
  ASSUME cash \in [Variants -> Int], hold \in [Variants -> [Universe -> Nat]],
         mark \in [Universe -> Nat], NEW v \in Variants
  PROVE  Equity(v) \in Int
<1> DEFINE worth == [s \in Universe |-> hold[v][s] * mark[s]]
<1>1. \A s \in Universe : worth[s] \in Int
  <2>1. \A s \in Universe : hold[v][s] \in Nat /\ mark[s] \in Nat
    OBVIOUS
  <2> QED BY <2>1
<1>2. DOMAIN worth = Universe /\ IsFiniteSet(Universe)
  BY EngineAssumption DEF EngineAssumption
<1>3. Equity(v) = cash[v] + SumFunctionOnSet(worth, DOMAIN worth)
  BY DEF Equity, SumFunction
<1> HIDE DEF worth
<1>4. SumFunctionOnSet(worth, Universe) \in Int
  BY <1>1, <1>2, SumIsInt
<1>5. cash[v] \in Int
  OBVIOUS
<1> QED BY <1>2, <1>3, <1>4, <1>5

ValueTypes ==
  mark \in [Universe -> Nat] /\ peak \in [Variants -> Int] /\ best \in [Variants -> Int]

(* Before the day is closed, its deposits are not in the peak yet. *)
PeakFollows ==
  day > 1 => \A v \in Variants :
    peak[v] = best[v] + inflow[v] - (IF phase \in {"fill", "trade"} THEN flow[v] ELSE 0)

ValueInv == MoneyInv /\ ValueTypes /\ PeakFollows

(* The initial state: everybody is valued, nothing is compared yet. *)
LEMMA InitValue == Init => ValueTypes /\ PeakFollows
<1> SUFFICES ASSUME Init PROVE ValueTypes /\ PeakFollows
  OBVIOUS
<1>1. /\ cash \in [Variants -> Int] /\ hold \in [Variants -> [Universe -> Nat]]
      /\ mark \in [Universe -> Nat]
  <2>1. cash \in [Variants -> Int] /\ hold \in [Variants -> [Universe -> Nat]]
    BY InitQueue DEF QueueInv, BookTypes
  <2>2. {q.close : q \in Quotes} \subseteq Nat
    BY EngineAssumption DEF EngineAssumption
  <2> QED BY <2>1, <2>2 DEF Init
<1>2. \A v \in Variants : Equity(v) \in Int
  BY <1>1, EquityIsInt
<1>3. ValueTypes
  BY <1>1, <1>2 DEF Init, ValueTypes
<1> QED BY <1>3 DEF Init, PeakFollows

(* A fill pays into the flow of the day what it pays in at all. *)
LEMMA FillKeepsPeak ==
  ASSUME ValueInv, \E d \in Nat : Deposit(d), phase \in {"fill", "trade"},
         UNCHANGED <<day, phase, mark, peak, best>>
  PROVE  ValueTypes' /\ PeakFollows'
<1>1. PICK d \in Nat : Deposit(d)
  OBVIOUS
<1>2. \A v \in Variants : /\ inflow[v] \in Nat /\ flow[v] \in Nat /\ best[v] \in Int
                          /\ inflow'[v] = inflow[v] + d /\ flow'[v] = flow[v] + d
  BY <1>1 DEF ValueInv, ValueTypes, MoneyInv, QueueInv, BookTypes, Deposit
<1>3. ValueTypes'
  BY DEF ValueInv, ValueTypes
<1> QED BY <1>2, <1>3 DEF ValueInv, PeakFollows

(* Closing a day compares the same two things for both peaks. *)
LEMMA CloseKeepsPeak ==
  ASSUME ValueInv, CloseDay
  PROVE  ValueTypes' /\ PeakFollows'
<1>1. /\ phase = "trade" /\ phase' = "open" /\ day \in Nat \ {0} /\ day' = day + 1
      /\ UNCHANGED <<mark, inflow>>
      /\ peak' = [v \in Variants |-> RaisedPeak(v)]
      /\ best' = [v \in Variants |->
           LET own == Equity(v) - inflow[v] IN IF day = 1 THEN own ELSE Max({best[v], own})]
  BY EngineAssumption
     DEF CloseDay, ValueInv, MoneyInv, QueueInv, BookTypes, marketVars, bookVars, EngineAssumption
<1>2. ASSUME NEW v \in Variants
      PROVE  peak'[v] \in Int /\ best'[v] \in Int /\ peak'[v] = best'[v] + inflow'[v]
  <2> DEFINE e == Equity(v)
             own == e - inflow[v]
  <2>1. /\ e \in Int /\ inflow[v] \in Nat /\ flow[v] \in Nat
        /\ peak[v] \in Int /\ best[v] \in Int
    BY EquityIsInt DEF ValueInv, ValueTypes, MoneyInv, QueueInv, BookTypes
  <2>2. peak'[v] = IF day = 1 THEN e ELSE Max({peak[v] + flow[v], e})
    BY <1>1 DEF RaisedPeak
  <2>3. best'[v] = IF day = 1 THEN own ELSE Max({best[v], own})
    BY <1>1
  <2>4. inflow'[v] = inflow[v]
    BY <1>1
  <2> HIDE DEF e
  <2>5. CASE day = 1
    BY <2>1, <2>2, <2>3, <2>4, <2>5
  <2>6. CASE day # 1
    <3>1. peak[v] = best[v] + inflow[v] - flow[v]
      BY <1>1, <2>6 DEF ValueInv, PeakFollows
    <3>2. peak[v] + flow[v] = best[v] + inflow[v]
      BY <3>1, <2>1
    <3>3. Max({best[v] + inflow[v], e}) = Max({best[v], own}) + inflow[v]
      BY <2>1, MaxMoves
    <3>4. Max({best[v], own}) \in {best[v], own} /\ own \in Int
      <4>1. own \in Int
        BY <2>1
      <4> QED BY <2>1, <4>1, MaxOfTwo
    <3> HIDE DEF own
    <3>5. best'[v] \in Int /\ peak'[v] = best'[v] + inflow[v]
      BY <2>1, <2>2, <2>3, <2>6, <3>2, <3>3, <3>4
    <3> QED BY <2>1, <2>4, <3>5
  <2> QED BY <2>5, <2>6
<1>3. ValueTypes'
  BY <1>1, <1>2 DEF ValueInv, ValueTypes
<1>4. PeakFollows'
  <2> SUFFICES ASSUME NEW v \in Variants PROVE peak'[v] = best'[v] + inflow'[v] - 0
    BY <1>1 DEF PeakFollows
  <2>1. inflow'[v] \in Nat
    BY <1>1 DEF ValueInv, MoneyInv, QueueInv, BookTypes
  <2> QED BY <1>2, <2>1
<1> QED BY <1>3, <1>4

(* Every step keeps the valuations. *)
LEMMA NextValue == ASSUME ValueInv, [Next]_vars PROVE ValueInv'
<1>0. MoneyInv' /\ MoneyInv /\ BookTypes /\ QueueInv
  BY NextMoney DEF ValueInv, MoneyInv, QueueInv
<1>a. ASSUME NEW o \in Orders, NEW id \in OrderIds, Execute(o, id), phase \in {"fill", "trade"},
             UNCHANGED <<day, phase, mark, peak, best>>
      PROVE  ValueTypes' /\ PeakFollows'
  <2>1. day <= Days
    BY <1>0, <1>a DEF BookTypes
  <2>2. \E d \in Nat : Deposit(d)
    BY <2>1, <1>0, <1>a, ExecuteEffect
  <2> QED BY <2>2, <1>a, FillKeepsPeak
<1>1. CASE OpenDay
  <2>1. /\ phase = "open" /\ phase' = "fill" /\ UNCHANGED <<day, mark, inflow, peak, best>>
        /\ flow' = [v \in Variants |-> 0]
    BY <1>1 DEF OpenDay, valueVars
  <2>2. \A v \in Variants : flow'[v] = 0
    BY <2>1
  <2> QED BY <2>1, <2>2, <1>0 DEF ValueInv, ValueTypes, PeakFollows
<1>2. ASSUME NEW v \in Bots, FillPending(v) PROVE ValueTypes' /\ PeakFollows'
  <2>1. Head(pending[v]) \in OrderIds /\ orders[Head(pending[v])] \in Orders
    BY <1>0, <1>2, HeadWaits DEF FillPending
  <2> QED BY <2>1, <1>2, <1>a DEF FillPending, marketVars, valueVars
<1>3. CASE UpdatePrices
  <2>1. /\ phase = "fill" /\ phase' = "trade" /\ UNCHANGED <<day, inflow, flow, peak, best>>
        /\ mark' = [s \in Universe |-> IF Quoted(s) THEN quote[s].close ELSE mark[s]]
    BY <1>3 DEF UpdatePrices, bookVars, valueVars
  <2>2. \A s \in Universe : Quoted(s) => quote[s].close \in Nat
    BY <1>0, EngineAssumption DEF Quoted, BookTypes, EngineAssumption
  <2>3. mark' \in [Universe -> Nat]
    BY <2>1, <2>2 DEF ValueInv, ValueTypes
  <2> QED BY <2>1, <2>3, <1>0 DEF ValueInv, ValueTypes, PeakFollows
<1>4. CASE ReplayTrade
  <2>1. PICK o \in Orders : orders' = Append(orders, o) /\ Execute(o, Len(orders) + 1)
    BY <1>0, <1>4, ReplayIssues
  <2>2. Len(orders) + 1 \in OrderIds
    BY <2>1, <1>0, <1>4, AppendOrder DEF ReplayTrade
  <2>3. phase = "trade" /\ UNCHANGED <<day, phase, mark, peak, best>>
    BY <1>4 DEF ReplayTrade, marketVars, valueVars
  <2> QED BY <2>1, <2>2, <2>3, <1>0, <1>a DEF ValueInv
<1>5. CASE CloseDay
  BY <1>0, <1>5, CloseKeepsPeak DEF ValueInv
<1>6. CASE Finish
  <2>1. /\ phase = "open" /\ phase' = "end" /\ UNCHANGED <<day, mark, inflow, peak, best>>
    BY <1>6 DEF Finish, marketVars, bookVars, valueVars
  <2> QED BY <2>1, <1>0 DEF ValueInv, ValueTypes, PeakFollows
<1>7. ASSUME NEW v \in Bots, Signal(v) PROVE ValueTypes' /\ PeakFollows'
  BY <1>0, <1>7 DEF Signal, marketVars, bookVars, valueVars, ValueInv, ValueTypes, PeakFollows
<1>8. CASE UNCHANGED vars
  BY <1>0, <1>8 DEF vars, marketVars, bookVars, valueVars, ValueInv, ValueTypes, PeakFollows
<1> QED BY <1>0, <1>1, <1>2, <1>3, <1>4, <1>5, <1>6, <1>7, <1>8 DEF Next, ValueInv

-----------------------------------------------------------------------------
(* What was approved and what is held *)

Amounts == [i \in OrderIds |-> Approved(i)]

HoldingInv == AuditInv /\ AuditsExplainHoldings

(* An order is approved what its one audit says. *)
LEMMA ApprovedIs ==
  ASSUME NEW i, audit[i] \in Seq(Audits)
  PROVE  /\ Len(audit[i]) = 0 => Approved(i) = 0
         /\ Len(audit[i]) = 1 => Approved(i) = audit[i][1].qty /\ Approved(i) \in Nat
<1> DEFINE n == Len(audit[i])
           f == [k \in 1..n |-> audit[i][k].qty]
<1>1. Approved(i) = SumFunctionOnSet(f, 1..n)
  BY DEF Approved, SumFunction
<1>2. ASSUME n = 0 PROVE Approved(i) = 0
  <2>1. 1..n = {}
    BY <1>2
  <2> HIDE DEF f, n
  <2> QED BY <1>1, <2>1, SumOfNothing
<1>3. ASSUME n = 1 PROVE Approved(i) = audit[i][1].qty /\ Approved(i) \in Nat
  <2>1. audit[i][1] \in Audits
    BY <1>3
  <2>2. f[1] = audit[i][1].qty /\ f[1] \in Nat
    BY <1>3, <2>1 DEF Audits
  <2>3. 1..n = {1}
    BY <1>3
  <2> HIDE DEF f, n
  <2>4. f[1] \in Int
    BY <2>2
  <2>5. SumFunctionOnSet(f, {1}) = f[1]
    BY <2>4, SumOfSingle
  <2> QED BY <1>1, <2>2, <2>3, <2>5
<1> QED BY <1>2, <1>3

(* What the audits approve is a number for every order. *)
AmountsAreAudited ==
  \A i \in OrderIds :
    /\ Amounts[i] = Approved(i) /\ Amounts[i] \in Nat
    /\ Len(audit[i]) = 0 => Amounts[i] = 0
    /\ Len(audit[i]) = 1 => Amounts[i] = audit[i][1].qty

LEMMA AmountsAreNat == AuditInv => AmountsAreAudited
<1> SUFFICES ASSUME AuditInv, NEW i \in OrderIds
             PROVE  /\ Amounts[i] = Approved(i) /\ Amounts[i] \in Nat
                    /\ Len(audit[i]) = 0 => Amounts[i] = 0
                    /\ Len(audit[i]) = 1 => Amounts[i] = audit[i][1].qty
  BY DEF AmountsAreAudited
<1>1. audit[i] \in Seq(Audits)
  BY DEF AuditInv, QueueInv, BookTypes
<1>2. Len(audit[i]) = 0 \/ Len(audit[i]) = 1
  BY AuditCount DEF AuditInv
<1>3. Amounts[i] = Approved(i)
  BY DEF Amounts
<1> QED BY <1>1, <1>2, <1>3, ApprovedIs

(* What was traded of a security is the sum over its orders. *)
TradedIsSummed ==
  \A v, s, side :
    /\ Traded(v, s, side) = SumFunctionOnSet(Amounts, OrdersOf(v, s, side))
    /\ IsFiniteSet(OrdersOf(v, s, side)) /\ OrdersOf(v, s, side) \subseteq OrderIds
    /\ Traded(v, s, side) \in Nat

LEMMA TradedIs == AuditInv => TradedIsSummed
<1> SUFFICES ASSUME AuditInv, NEW v, NEW s, NEW side
             PROVE  /\ Traded(v, s, side) = SumFunctionOnSet(Amounts, OrdersOf(v, s, side))
                    /\ IsFiniteSet(OrdersOf(v, s, side)) /\ OrdersOf(v, s, side) \subseteq OrderIds
                    /\ Traded(v, s, side) \in Nat
  BY DEF TradedIsSummed
<1>1. Len(orders) \in Nat /\ 1..Len(orders) \subseteq OrderIds
  BY EngineAssumption DEF AuditInv, QueueInv, BookTypes, OrderIds, EngineAssumption
<1>2. OrdersOf(v, s, side) \subseteq 1..Len(orders) /\ IsFiniteSet(1..Len(orders))
  BY <1>1, FS_Interval DEF OrdersOf
<1>3. IsFiniteSet(OrdersOf(v, s, side)) /\ OrdersOf(v, s, side) \subseteq OrderIds
  BY <1>1, <1>2, FS_Subset
<1>4. Traded(v, s, side) = SumFunctionOnSet(Amounts, OrdersOf(v, s, side))
  BY DEF Traded, Amounts
<1>5. \A i \in OrdersOf(v, s, side) : Amounts[i] \in Nat
  BY <1>3, AmountsAreNat DEF AmountsAreAudited
<1>6. SumFunctionOnSet(Amounts, OrdersOf(v, s, side)) \in Nat
  <2> HIDE DEF OrdersOf, Amounts
  <2> QED BY <1>3, <1>5, SumIsNat
<1> QED BY <1>3, <1>4, <1>6

(* The audits of one order change; it may be new.  What was traded of its  *)
(* security changes by what it is approved now, the rest stands.           *)
LEMMA OneOrderSettles ==
  ASSUME AuditInv, AuditInv', NEW id \in 1..Len(orders'), Len(audit[id]) = 0,
         \A i \in OrderIds \ {id} : audit'[i] = audit[i],
         \A i \in 1..Len(orders) : i \in 1..Len(orders') /\ orders'[i] = orders[i],
         \A i \in 1..Len(orders') : i = id \/ i \in 1..Len(orders),
         NEW v, NEW s, NEW side
  PROVE  Traded(v, s, side)' = Traded(v, s, side) +
           (IF orders'[id].variant = v /\ orders'[id].sec = s /\ orders'[id].side = side
            THEN Amounts'[id] ELSE 0)
<1> DEFINE S == OrdersOf(v, s, side)
           T == OrdersOf(v, s, side)'
           mine == orders'[id].variant = v /\ orders'[id].sec = s /\ orders'[id].side = side
<1>1. /\ Traded(v, s, side) = SumFunctionOnSet(Amounts, S) /\ IsFiniteSet(S)
      /\ S \subseteq OrderIds /\ Traded(v, s, side) \in Nat
  BY TradedIs DEF TradedIsSummed
<1>2. /\ Traded(v, s, side)' = SumFunctionOnSet(Amounts', T) /\ IsFiniteSet(T)
      /\ T \subseteq OrderIds
  <2>1. TradedIsSummed'
    BY TradedIs, PTL
  <2> QED BY <2>1 DEF TradedIsSummed
<1>3. /\ \A i \in OrderIds : Amounts[i] \in Nat /\ Amounts'[i] \in Nat
      /\ \A i \in OrderIds \ {id} : Amounts'[i] = Amounts[i]
  <2>1. \A i \in OrderIds : Amounts[i] \in Nat /\ Amounts[i] = Approved(i)
    BY AmountsAreNat DEF AmountsAreAudited
  <2>2. \A i \in OrderIds : Amounts'[i] \in Nat /\ Amounts'[i] = Approved(i)'
    <3>1. AmountsAreAudited'
      BY AmountsAreNat, PTL
    <3> QED BY <3>1 DEF AmountsAreAudited
  <2>3. \A i \in OrderIds \ {id} : Approved(i)' = Approved(i)
    BY DEF Approved
  <2> QED BY <2>1, <2>2, <2>3
<1>4. id \in OrderIds /\ Amounts[id] = 0
  <2>1. id \in OrderIds
    BY EngineAssumption DEF AuditInv, QueueInv, BookTypes, OrderIds, EngineAssumption
  <2> QED BY <2>1, AmountsAreNat DEF AmountsAreAudited
<1>5. T \ {id} = S \ {id} /\ (id \in T <=> mine)
  BY DEF OrdersOf
<1>6. id \in S => mine
  BY DEF OrdersOf
<1>7. CASE mine
  <2>1. id \in T
    BY <1>5, <1>7
  <2>2. \A i \in T : Amounts[i] \in Int /\ Amounts'[i] \in Int
    BY <1>2, <1>3
  <2>3. \A i \in T \ {id} : Amounts'[i] = Amounts[i]
    BY <1>2, <1>3
  <2> HIDE DEF S, T, Amounts
  <2>4. SumFunctionOnSet(Amounts', T) = SumFunctionOnSet(Amounts, S) + Amounts'[id]
    <3>1. Raised(Amounts, S, Amounts', T, id)
      BY <2>1, <2>2, <2>3, <1>1, <1>2, <1>4, <1>5 DEF Raised
    <3> QED BY <3>1, SumOfRaised
  <2> QED BY <2>4, <1>1, <1>2, <1>7
<1>8. CASE ~mine
  <2>1. T = S /\ id \notin S
    <3>1. id \notin S /\ id \notin T
      BY <1>5, <1>6, <1>8
    <3> HIDE DEF S, T
    <3>2. T = T \ {id} /\ S = S \ {id}
      BY <3>1
    <3> QED BY <3>1, <3>2, <1>5
  <2>2. \A i \in S : Amounts'[i] = Amounts[i]
    BY <2>1, <1>1, <1>3
  <2> HIDE DEF S, T, Amounts
  <2>3. SumFunctionOnSet(Amounts', T) = SumFunctionOnSet(Amounts, S)
    BY <2>1, <2>2, <1>1, SumOfSame
  <2> QED BY <2>3, <1>1, <1>2, <1>8
<1> QED BY <1>7, <1>8

(* A fill moves the shares its audit approves. *)
LEMMA ExecuteMoves ==
  ASSUME BookTypes, day <= Days, NEW o \in Orders, NEW id \in OrderIds, Execute(o, id)
  PROVE  \E a \in Audits :
           /\ audit' = [audit EXCEPT ![id] = Append(@, a)]
           /\ hold' = [hold EXCEPT ![o.variant][o.sec] =
                IF o.side = "BUY" THEN @ + a.qty ELSE @ - a.qty]
<1> USE EngineAssumption DEF EngineAssumption
<1> DEFINE Moves(q) ==
      hold' = [hold EXCEPT ![o.variant][o.sec] = IF o.side = "BUY" THEN @ + q ELSE @ - q]
<1>1. /\ o.variant \in Variants /\ o.sec \in Universe /\ o.qty \in Nat \ {0}
      /\ o.price \in Nat /\ o.fee \in Nat
      /\ hold \in [Variants -> [Universe -> Nat]] /\ hold[o.variant] \in [Universe -> Nat]
      /\ hold[o.variant][o.sec] \in Nat /\ cash[o.variant] \in Int
  <2>1. /\ o.variant \in Variants /\ o.sec \in Universe /\ o.qty \in Quantities
        /\ o.price \in Nat /\ o.fee \in Nat
    BY DEF Orders
  <2>2. /\ hold \in [Variants -> [Universe -> Nat]] /\ hold[o.variant] \in [Universe -> Nat]
        /\ cash[o.variant] \in Int
    BY <2>1 DEF BookTypes
  <2> QED BY <2>1, <2>2
<1>2. ASSUME NEW st \in {"EXECUTED", "ADJUSTED", "REJECTED"}, NEW q \in Nat,
             Record(o, id, st, q), Moves(q)
      PROVE  \E a \in Audits :
               /\ audit' = [audit EXCEPT ![id] = Append(@, a)]
               /\ hold' = [hold EXCEPT ![o.variant][o.sec] =
                    IF o.side = "BUY" THEN @ + a.qty ELSE @ - a.qty]
  <2> DEFINE a == [status |-> st, day |-> day, qty |-> q]
  <2>1. a \in Audits /\ a.qty = q
    BY DEF Audits, BookTypes
  <2>2. audit' = [audit EXCEPT ![id] = Append(@, a)]
    BY <1>2 DEF Record
  <2> HIDE DEF a
  <2>3. hold' = [hold EXCEPT ![o.variant][o.sec] =
                   IF o.side = "BUY" THEN @ + a.qty ELSE @ - a.qty]
    BY <1>2, <2>1
  <2> QED BY <2>1, <2>2, <2>3
<1>3. ASSUME NEW q \in Nat PROVE Verdict(o, q) \in {"EXECUTED", "ADJUSTED", "REJECTED"}
  BY DEF Verdict
<1>4. CASE Rejected(o, id)
  <2>1. Record(o, id, "REJECTED", 0) /\ hold' = hold
    BY <1>4 DEF Rejected, bookVars
  <2>2. Moves(0)
    BY <2>1, <1>1
  <2> HIDE DEF Moves
  <2> QED BY <2>1, <2>2, <1>2
<1>5. CASE Bought(o, id)
  <2> DEFINE q == Affordable(o)
  <2>1. q \in Nat
    <3>1. quote[o.sec] \in Quotes
      BY <1>1, <1>5 DEF Bought, Quoted, BookTypes
    <3>2. Ask(o.sec) \in Nat \ {0}
      BY <3>1 DEF Ask
    <3>3. q \in Int /\ q > 0
      BY <1>1, <1>5, <3>2 DEF Bought, Affordable
    <3> QED BY <3>3
  <2>2. /\ o.side = "BUY" /\ Record(o, id, Verdict(o, q), q)
        /\ hold' = [hold EXCEPT ![o.variant][o.sec] = @ + q]
    BY <1>5 DEF Bought
  <2> HIDE DEF q
  <2>3. Moves(q)
    BY <2>2
  <2> HIDE DEF Moves
  <2> QED BY <2>1, <2>2, <2>3, <1>2, <1>3
<1>6. CASE Sold(o, id)
  <2> DEFINE q == Min({o.qty, hold[o.variant][o.sec]})
  <2>1. q \in Nat
    BY <1>1, MinOfTwo
  <2>2. /\ o.side = "SELL" /\ Record(o, id, Verdict(o, q), q)
        /\ hold' = [hold EXCEPT ![o.variant][o.sec] = @ - q]
    BY <1>6 DEF Sold
  <2> HIDE DEF q
  <2>3. Moves(q)
    BY <2>2
  <2> HIDE DEF Moves
  <2> QED BY <2>1, <2>2, <2>3, <1>2, <1>3
<1> QED BY <1>4, <1>5, <1>6 DEF Execute

(* Nothing bought or sold: the audits explain the endowment. *)
LEMMA InitHolding == Init => AuditsExplainHoldings
<1> SUFFICES ASSUME Init, NEW v \in Variants, NEW s \in Universe
             PROVE  hold[v][s] = (IF v = Actual THEN Endowment ELSE 0)
                                   + Traded(v, s, "BUY") - Traded(v, s, "SELL")
  BY DEF AuditsExplainHoldings
<1>1. \A side : OrdersOf(v, s, side) = {}
  BY DEF Init, OrdersOf
<1>2. \A side : Traded(v, s, side) = 0
  BY <1>1, SumOfNothing DEF Traded
<1>3. hold[v][s] = IF v = Actual THEN Endowment ELSE 0
  BY DEF Init
<1>4. Endowment \in Nat
  BY EngineAssumption DEF EngineAssumption
<1> QED BY <1>2, <1>3, <1>4

(* A fill moves in one account what it lets the audits approve. *)
LEMMA FillExplains ==
  ASSUME HoldingInv, AuditInv', day <= Days, NEW o \in Orders, NEW id \in OrderIds,
         Execute(o, id), Len(audit[id]) = 0, id \in 1..Len(orders'), orders'[id] = o,
         \A i \in 1..Len(orders) : i \in 1..Len(orders') /\ orders'[i] = orders[i],
         \A i \in 1..Len(orders') : i = id \/ i \in 1..Len(orders)
  PROVE  AuditsExplainHoldings'
<1>0. AuditInv /\ BookTypes /\ AuditsExplainHoldings
  BY DEF HoldingInv, AuditInv, QueueInv
<1>1. PICK a \in Audits :
        /\ audit' = [audit EXCEPT ![id] = Append(@, a)]
        /\ hold' = [hold EXCEPT ![o.variant][o.sec] =
             IF o.side = "BUY" THEN @ + a.qty ELSE @ - a.qty]
  BY <1>0, ExecuteMoves
<1>2. /\ \A i \in OrderIds \ {id} : audit'[i] = audit[i]
      /\ Len(audit'[id]) = 1 /\ audit'[id][1] = a
  <2>1. audit \in [OrderIds -> Seq(Audits)] /\ audit[id] \in Seq(Audits)
    BY <1>0 DEF BookTypes
  <2>2. audit'[id] = Append(audit[id], a) /\ \A i \in OrderIds \ {id} : audit'[i] = audit[i]
    BY <1>1, <2>1
  <2> QED BY <2>1, <2>2
<1>3. Amounts'[id] = a.qty /\ a.qty \in Nat
  <2>1. AmountsAreAudited'
    BY AmountsAreNat, PTL
  <2> QED BY <2>1, <1>2 DEF AmountsAreAudited, Audits
<1>4. SUFFICES ASSUME NEW v \in Variants, NEW s \in Universe
               PROVE  hold'[v][s] = (IF v = Actual THEN Endowment ELSE 0)
                                      + Traded(v, s, "BUY")' - Traded(v, s, "SELL")'
  BY DEF AuditsExplainHoldings
<1> DEFINE mine == o.variant = v /\ o.sec = s
<1>5. \A side : Traded(v, s, side)' =
        Traded(v, s, side) + (IF mine /\ o.side = side THEN a.qty ELSE 0)
  <2> TAKE side
  <2>1. Traded(v, s, side)' = Traded(v, s, side) +
          (IF orders'[id].variant = v /\ orders'[id].sec = s /\ orders'[id].side = side
           THEN Amounts'[id] ELSE 0)
    BY <1>0, <1>2, OneOrderSettles
  <2> QED BY <2>1, <1>3
<1>6. hold'[v][s] = IF mine THEN (IF o.side = "BUY" THEN hold[v][s] + a.qty
                                                    ELSE hold[v][s] - a.qty)
                    ELSE hold[v][s]
  <2>1. hold \in [Variants -> [Universe -> Nat]] /\ hold[v] \in [Universe -> Nat]
    BY <1>0 DEF BookTypes
  <2>2. o.variant \in Variants /\ o.sec \in Universe
    BY DEF Orders
  <2> QED BY <1>1, <2>1, <2>2
<1>7. hold[v][s] = (IF v = Actual THEN Endowment ELSE 0)
                     + Traded(v, s, "BUY") - Traded(v, s, "SELL")
  BY <1>0 DEF AuditsExplainHoldings
<1>8. /\ \A side : Traded(v, s, side) \in Nat
      /\ o.side \in {"BUY", "SELL"} /\ Endowment \in Nat
  BY <1>0, TradedIs, EngineAssumption DEF TradedIsSummed, Orders, EngineAssumption
<1>9. /\ Traded(v, s, "BUY")' = Traded(v, s, "BUY") + (IF mine /\ o.side = "BUY" THEN a.qty ELSE 0)
      /\ Traded(v, s, "SELL")' = Traded(v, s, "SELL") + (IF mine /\ o.side = "SELL" THEN a.qty ELSE 0)
      /\ Traded(v, s, "BUY") \in Nat /\ Traded(v, s, "SELL") \in Nat
  BY <1>5, <1>8
<1> HIDE DEF mine
<1> QED BY <1>3, <1>6, <1>7, <1>8, <1>9

(* Every step keeps the holdings explained. *)
LEMMA NextHolding == ASSUME HoldingInv, [Next]_vars PROVE HoldingInv'
<1>0. AuditInv' /\ AuditInv /\ QueueInv /\ BookTypes /\ AuditsExplainHoldings
  BY NextAudit DEF HoldingInv, AuditInv, QueueInv
<1> SUFFICES AuditsExplainHoldings'
  BY <1>0 DEF HoldingInv
<1>a. ASSUME UNCHANGED <<audit, orders, hold>> PROVE AuditsExplainHoldings'
  BY <1>0, <1>a DEF AuditsExplainHoldings, Traded, Approved, OrdersOf
<1>b. Len(orders) \in Nat /\ (phase \in {"fill", "trade"} => day <= Days)
  BY <1>0 DEF BookTypes
<1>1. CASE OpenDay
  BY <1>1, <1>a DEF OpenDay
<1>2. ASSUME NEW v \in Bots, FillPending(v) PROVE AuditsExplainHoldings'
  <2> DEFINE id == Head(pending[v])
  <2>1. /\ id \in OrderIds /\ id \in 1..Len(orders) /\ orders[id] \in Orders
        /\ phase = "fill" /\ orders' = orders /\ Execute(orders[id], id)
    BY <1>0, <1>2, HeadWaits DEF FillPending
  <2>2. Waits(id)
    BY <1>0, <1>2, PopEndsWaiting DEF FillPending
  <2> HIDE DEF id
  <2>3. Len(audit[id]) = 0
    BY <2>1, <2>2, <1>0, AuditCount DEF AuditInv
  <2> QED BY <2>1, <2>3, <1>0, <1>b, FillExplains
<1>3. CASE UpdatePrices
  BY <1>3, <1>a DEF UpdatePrices, bookVars
<1>4. CASE ReplayTrade
  <2> DEFINE id == Len(orders) + 1
  <2>1. PICK o \in Orders : orders' = Append(orders, o) /\ Execute(o, id)
    BY <1>0, <1>4, ReplayIssues
  <2>2. /\ Len(orders') = id /\ id \in OrderIds /\ orders'[id] = o
        /\ \A i \in 1..Len(orders) : orders'[i] = orders[i]
    BY <2>1, <1>0, <1>4, AppendOrder DEF ReplayTrade
  <2>3. /\ id \in 1..Len(orders') /\ id > Len(orders)
        /\ \A i \in 1..Len(orders) : i \in 1..Len(orders')
        /\ \A i \in 1..Len(orders') : i = id \/ i \in 1..Len(orders)
    BY <2>2, <1>b
  <2>4. phase = "trade"
    BY <1>4 DEF ReplayTrade
  <2> HIDE DEF id
  <2>5. Len(audit[id]) = 0
    BY <2>2, <2>3, <1>0, AuditCount DEF AuditInv
  <2> QED BY <2>1, <2>2, <2>3, <2>4, <2>5, <1>0, <1>b, FillExplains
<1>5. CASE CloseDay
  BY <1>5, <1>a DEF CloseDay, bookVars
<1>6. CASE Finish
  <2> DEFINE left == [status |-> "REJECTED", day |-> 0, qty |-> 0]
  <2>1. /\ phase = "open" /\ UNCHANGED <<orders, hold>>
        /\ audit' = [i \in OrderIds |-> IF Waits(i) THEN Append(audit[i], left) ELSE audit[i]]
    BY <1>6 DEF Finish, Waits, bookVars
  <2>2. left.qty = 0
    OBVIOUS
  <2> HIDE DEF left
  <2>3. ASSUME NEW i \in OrderIds PROVE Amounts'[i] = Amounts[i]
    <3>1. CASE Waits(i)
      <4>1. Len(audit[i]) = 0 /\ audit[i] \in Seq(Audits)
        <5>1. ~(i > Len(orders))
          BY <3>1, <1>0, NewIsNotWaiting
        <5> QED BY <3>1, <5>1, <2>1, <1>0, AuditCount DEF AuditInv, BookTypes
      <4>2. audit'[i] = Append(audit[i], left)
        BY <2>1, <3>1
      <4>3. Len(audit'[i]) = 1 /\ audit'[i][1] = left
        BY <4>1, <4>2
      <4>4. AmountsAreAudited'
        BY <1>0, AmountsAreNat, PTL
      <4> QED BY <4>1, <4>3, <4>4, <2>2, <1>0, AmountsAreNat DEF AmountsAreAudited
    <3>2. CASE ~Waits(i)
      <4>1. audit'[i] = audit[i]
        BY <2>1, <3>2
      <4> QED BY <4>1 DEF Amounts, Approved
    <3> QED BY <3>1, <3>2
  <2>4. Amounts' = Amounts
    BY <2>3 DEF Amounts
  <2>5. \A v, s, side : Traded(v, s, side)' = Traded(v, s, side)
    BY <2>1, <2>4 DEF Traded, Amounts, OrdersOf
  <2> QED BY <2>1, <2>5, <1>0 DEF AuditsExplainHoldings
<1>7. ASSUME NEW v \in Bots, Signal(v) PROVE AuditsExplainHoldings'
  <2> DEFINE id == Len(orders')
  <2>1. /\ hold' = hold /\ audit' = audit /\ id = Len(orders) + 1
        /\ \A i \in 1..Len(orders) : orders'[i] = orders[i]
    <3>1. orders \in Seq(Orders)
      BY <1>0 DEF BookTypes
    <3> QED BY <3>1, <1>7 DEF Signal, bookVars
  <2>2. /\ id \in 1..Len(orders') /\ id > Len(orders)
        /\ \A i \in 1..Len(orders) : i \in 1..Len(orders')
        /\ \A i \in 1..Len(orders') : i = id \/ i \in 1..Len(orders)
    BY <2>1, <1>b
  <2>3. id \in OrderIds
    BY <1>0, <1>b, <2>1, EngineAssumption
       DEF AuditInv, QueueInv, BookTypes, OrderIds, EngineAssumption
  <2> HIDE DEF id
  <2>4. Len(audit[id]) = 0
    BY <2>2, <2>3, <1>0, AuditCount DEF AuditInv
  <2>5. Amounts'[id] = 0
    <3>1. AmountsAreAudited'
      BY <1>0, AmountsAreNat, PTL
    <3> QED BY <3>1, <2>1, <2>3, <2>4 DEF AmountsAreAudited
  <2>6. \A w, s, side : Traded(w, s, side)' = Traded(w, s, side)
    <3> TAKE w, s, side
    <3>1. Traded(w, s, side)' = Traded(w, s, side) +
            (IF orders'[id].variant = w /\ orders'[id].sec = s /\ orders'[id].side = side
             THEN Amounts'[id] ELSE 0)
      BY <2>1, <2>2, <2>4, <1>0, OneOrderSettles
    <3>2. Traded(w, s, side) \in Nat
      BY <1>0, TradedIs DEF TradedIsSummed
    <3> QED BY <3>1, <3>2, <2>5
  <2> QED BY <2>1, <2>6, <1>0 DEF AuditsExplainHoldings
<1>8. CASE UNCHANGED vars
  BY <1>8, <1>a DEF vars, bookVars
<1> QED BY <1>1, <1>2, <1>3, <1>4, <1>5, <1>6, <1>7, <1>8 DEF Next

-----------------------------------------------------------------------------
(* The theorems *)

BacktestInv == ValueInv /\ HoldingInv

(* The inductive invariant of a back-test, for every value of the          *)
(* constants (run and _execute_orders).                                    *)
THEOREM BacktestInvariant == Spec => []BacktestInv
<1>1. Init => BacktestInv
  BY InitQueue, InitMoney, InitValue, InitAudit, InitHolding
     DEF BacktestInv, ValueInv, MoneyInv, HoldingInv, AuditInv
<1>2. BacktestInv /\ [Next]_vars => BacktestInv'
  BY NextValue, NextHolding DEF BacktestInv
<1> QED BY <1>1, <1>2, PTL DEF Spec

(* Every variable keeps its type: shares and deposits are never negative,  *)
(* valuations are whole sums (run, Portfolio).                             *)
THEOREM BacktestIsTyped == Spec => []TypeOK
<1>1. BacktestInv => TypeOK
  BY DEF BacktestInv, ValueInv, MoneyInv, QueueInv, BookTypes, ValueTypes, TypeOK
<1> QED BY <1>1, BacktestInvariant, PTL

(* No bot's account is ever overdrawn (_execute_orders cuts a purchase to  *)
(* what the cash pays for).                                                *)
THEOREM BotsNeverOverdraw == Spec => []BotsStayFunded
<1>1. BacktestInv => BotsStayFunded
  BY DEF BacktestInv, ValueInv, MoneyInv
<1> QED BY <1>1, BacktestInvariant, PTL

(* Every portfolio has been paid the same deposits (_execute_orders).      *)
THEOREM DepositsStayEqual == Spec => []DepositsAreEqual
<1>1. BacktestInv => DepositsAreEqual
  BY DEF BacktestInv, ValueInv, MoneyInv
<1> QED BY <1>1, BacktestInvariant, PTL

(* Every deposit is in exactly one day's net cash flow (run).              *)
THEOREM DepositsStayBooked == Spec => []DepositsAreBooked
<1>1. BacktestInv => DepositsAreBooked
  <2> SUFFICES ASSUME BacktestInv, phase \in {"open", "end"}, NEW v \in Variants
               PROVE  booked[v] = inflow[v]
    BY DEF DepositsAreBooked
  <2>1. booked[v] \in Nat /\ inflow[v] = booked[v] + 0
    BY DEF BacktestInv, ValueInv, MoneyInv, QueueInv, BookTypes, FlowsAddUp
  <2> QED BY <2>1
<1> QED BY <1>1, BacktestInvariant, PTL

(* A bot's order never fills on the day it was decided on, a recorded      *)
(* trade only on its own (run).                                            *)
THEOREM NoLookAhead == Spec => []FillsFollowSignals
<1>1. BacktestInv => FillsFollowSignals
  BY DEF BacktestInv, HoldingInv, AuditInv
<1> QED BY <1>1, BacktestInvariant, PTL

(* No order is lost, none settled twice (run, order_audits).               *)
THEOREM OrdersSettleOnce == Spec => []EveryOrderAuditedOnce
<1>1. BacktestInv => EveryOrderAuditedOnce
  BY DEF BacktestInv, HoldingInv, AuditInv
<1> QED BY <1>1, BacktestInvariant, PTL

(* A deposit is not performance: the peak is the best equity a portfolio   *)
(* reached by itself, plus what was paid in (run).                         *)
THEOREM PeakTakesDepositsOut == Spec => []PeakIgnoresDeposits
<1>1. BacktestInv => PeakIgnoresDeposits
  <2> SUFFICES ASSUME BacktestInv, day > 1, phase \in {"open", "end"}, NEW v \in Variants
               PROVE  peak[v] = best[v] + inflow[v]
    BY DEF PeakIgnoresDeposits
  <2>1. peak[v] = best[v] + inflow[v] - 0 /\ best[v] \in Int /\ inflow[v] \in Nat
    BY DEF BacktestInv, ValueInv, ValueTypes, MoneyInv, QueueInv, BookTypes, PeakFollows
  <2> QED BY <2>1
<1> QED BY <1>1, BacktestInvariant, PTL

(* What is held beyond the endowment is what the audits approved, bought   *)
(* less sold (_execute_orders, order_audits, positions).                   *)
THEOREM AuditTrailIsComplete == Spec => []AuditsExplainHoldings
<1>1. BacktestInv => AuditsExplainHoldings
  BY DEF BacktestInv, HoldingInv
<1> QED BY <1>1, BacktestInvariant, PTL
=============================================================================
