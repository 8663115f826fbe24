------------------------- MODULE HoldingSnapshotProofs -------------------------
(***************************************************************************)
(* What HoldingSnapshots promises, for every account, calendar and report  *)
(* and any number of backfills.  First the history by itself: a replay of  *)
(* trades, by induction on the set of them, comes to what was traded plus  *)
(* its shortfalls; without shortfalls the matching of sales leaves none    *)
(* open, and the reversal arrives at the same positions.  Then the table:  *)
(* what is rebuilt from all the trades is whole days of a rebuild now      *)
(* (StoreInv), so a simulation starts with what the account held.          *)
(***************************************************************************)
EXTENDS HoldingSnapshots, SetSums, TLAPS


-----------------------------------------------------------------------------
(* Trades and their order *)

TradesOK == trades \in Seq(Tradable)

(* What is known of a trade. *)
LEMMA TradeIs ==
  ASSUME TradesOK, NEW i \in DOMAIN trades
  PROVE  /\ i \in Nat \ {0} /\ trades[i].sec \in Securities
         /\ trades[i].side \in {"BUY", "SELL"}
         /\ trades[i].day \in Days /\ trades[i].day \in Nat \ {0} /\ trades[i].day <= LastDay
         /\ trades[i].qty \in Nat \ {0}
<1>1. trades[i] \in Tradable /\ i \in Nat \ {0}
      BY DEF TradesOK
<1> QED BY <1>1, SnapshotAssumption DEF SnapshotAssumption, Days

LEMMA TradesAreFinite ==
  ASSUME TradesOK
  PROVE  /\ IsFiniteSet(DOMAIN trades)
         /\ \A S \in SUBSET DOMAIN trades : IsFiniteSet(S)
<1>1. DOMAIN trades = 1..Len(trades) /\ Len(trades) \in Nat
      BY DEF TradesOK
<1>2. IsFiniteSet(DOMAIN trades)
      BY <1>1, FS_Interval
<1> QED BY <1>2, FS_Subset

(* Trades are carried out one before the other. *)
LEMMA BeforeIsOrder ==
  ASSUME TradesOK
  PROVE  /\ \A a \in DOMAIN trades : ~Before(a, a)
         /\ \A a, b \in DOMAIN trades : Before(a, b) \/ a = b \/ Before(b, a)
         /\ \A a, b \in DOMAIN trades : Before(a, b) => ~Before(b, a) /\ a # b
         /\ \A a, b, c \in DOMAIN trades : Before(a, b) /\ Before(b, c) => Before(a, c)
         /\ \A a, b \in DOMAIN trades : Before(a, b) => trades[a].day <= trades[b].day
<1>1. \A a \in DOMAIN trades : a \in Nat /\ trades[a].day \in Nat
      BY TradeIs
<1> QED BY <1>1 DEF Before

IsLatest(l, S) == l \in S /\ \A k \in S : k = l \/ Before(k, l)

(* A set of trades has a last one. *)
LEMMA LatestIs ==
  ASSUME TradesOK, NEW S \in SUBSET DOMAIN trades, S # {}
  PROVE  IsLatest(Latest(S), S)
<1> DEFINE P == {T \in SUBSET S : T # {} => \E l : IsLatest(l, T)}
<1>1. {} \in P
      OBVIOUS
<1>2. ASSUME NEW T \in SUBSET S, T # {}, \A x \in T : T \ {x} \in P PROVE T \in P
  <2>1. PICK x \in T : TRUE
        BY <1>2
  <2>2. CASE T \ {x} = {}
    <3>1. IsLatest(x, T)
          BY <2>1, <2>2 DEF IsLatest
    <3> QED BY <3>1
  <2>3. CASE T \ {x} # {}
    <3>1. T \ {x} \in P
          BY <1>2, <2>1
    <3>2. PICK l : IsLatest(l, T \ {x})
          BY <2>3, <3>1
    <3>3. IsLatest(l, T) \/ IsLatest(x, T)
      <4>1. l \in DOMAIN trades /\ x \in DOMAIN trades /\ \A k \in T : k \in DOMAIN trades
            BY <2>1, <3>2 DEF IsLatest
      <4> HIDE DEF P
      <4> QED BY <4>1, <2>1, <3>2, BeforeIsOrder DEF IsLatest
    <3> QED BY <3>3
  <2> QED BY <2>2, <2>3
<1>3. IsFiniteSet(S)
      BY TradesAreFinite
<1>4. \A T \in SUBSET S : T \in P
  <2> HIDE DEF P
  <2> QED BY <1>1, <1>2, <1>3, AllSubsets
<1>5. \E l \in S : \A k \in S : k = l \/ Before(k, l)
      BY <1>4 DEF IsLatest
<1> QED BY <1>5 DEF Latest, IsLatest

-----------------------------------------------------------------------------
(* The replay *)

Nothing == [qty |-> 0, short |-> 0]
Positions == [qty : Int, short : Int]

(* The replay is what its definition says: the last trade after the rest.  *)
LEMMA ReplayedIs ==
  ASSUME TradesOK, NEW S \in SUBSET DOMAIN trades
  PROVE  Replayed[S] = IF S = {} THEN Nothing
                       ELSE Applied(Replayed[S \ {Latest(S)}], trades[Latest(S)])
<1> DEFINE U == DOMAIN trades
           pick == [s \in SUBSET U |-> Latest(s)]
           step == [c \in U \X Positions |-> Applied(c[2], trades[c[1]])]
           Rec(g) == g = [s \in SUBSET U |->
             IF s = {} THEN [qty |-> 0, short |-> 0]
             ELSE Applied(g[s \ {Latest(s)}], trades[Latest(s)])]
<1>1. \A s \in SUBSET U : s # {} => pick[s] \in s
      BY LatestIs DEF IsLatest
<1>2. ASSUME NEW x \in U, NEW w \in Positions PROVE step[<<x, w>>] \in Positions
  <2>1. Applied(w, trades[x]) \in Positions
    <3>1. trades[x].qty \in Int /\ w.qty \in Int /\ w.short \in Int /\ w \in Positions
          BY TradeIs DEF Positions
    <3>2. Least(w.qty, trades[x].qty) \in Int
          BY <3>1 DEF Least
    <3> QED BY <3>1, <3>2 DEF Applied, Positions
  <2> QED BY <2>1
<1>3. Nothing \in Positions
      BY DEF Nothing, Positions
<1>4. PICK g \in [SUBSET U -> Positions] : Computes(g, U, pick, Nothing, step)
  <2>1. IsFiniteSet(U)
        BY TradesAreFinite
  <2> HIDE DEF U, pick, step
  <2>2. CanStep(U, pick, Positions, Nothing, step)
        BY <1>1, <1>2, <1>3, <2>1 DEF CanStep
  <2> QED BY <2>2, RecursionExists
<1>5. Rec(g)
  <2>1. ASSUME NEW s \in SUBSET U, s # {}
        PROVE  g[s] = Applied(g[s \ {Latest(s)}], trades[Latest(s)])
    <3>1. g[s] = step[<<pick[s], g[s \ {pick[s]}]>>] /\ pick[s] = Latest(s)
          BY <1>4, <2>1 DEF Computes
    <3>2. Latest(s) \in U /\ g[s \ {Latest(s)}] \in Positions
          BY <1>1, <2>1
    <3> QED BY <3>1, <3>2
  <2>2. g[{}] = [qty |-> 0, short |-> 0]
        BY <1>4 DEF Nothing, Computes
  <2>3. g = [s \in SUBSET U |-> g[s]]
        OBVIOUS
  <2> HIDE DEF U
  <2> QED BY <2>1, <2>2, <2>3
<1>6. Rec(Replayed)
  <2>1. \E f : Rec(f)
        BY <1>5
  <2>2. Replayed = CHOOSE f : Rec(f)
        BY DEF Replayed
  <2> HIDE DEF Rec
  <2> QED BY <2>1, <2>2
<1>7. Replayed[S] = IF S = {} THEN [qty |-> 0, short |-> 0]
                    ELSE Applied(Replayed[S \ {Latest(S)}], trades[Latest(S)])
      BY <1>6
<1> QED BY <1>7 DEF Nothing

-----------------------------------------------------------------------------
(* A position is what was traded plus the shortfalls *)

Qty == [i \in DOMAIN trades |-> trades[i].qty]
Signed == [i \in DOMAIN trades |->
             IF trades[i].side = "BUY" THEN trades[i].qty ELSE -trades[i].qty]

LEMMA AmountsAreInt ==
  ASSUME TradesOK, NEW i \in DOMAIN trades
  PROVE  /\ Qty[i] = trades[i].qty /\ Qty[i] \in Int
         /\ Signed[i] = (IF trades[i].side = "BUY" THEN trades[i].qty ELSE -trades[i].qty)
         /\ Signed[i] \in Int
BY TradeIs DEF Qty, Signed

LEMMA NetIs ==
  ASSUME TradesOK, NEW S \in SUBSET DOMAIN trades
  PROVE  /\ Net(S) = SumFunctionOnSet(Signed, S) /\ Net(S) \in Int
         /\ \A i \in S : Net(S) = Signed[i] + Net(S \ {i})
<1>1. \A T : Net(T) = SumFunctionOnSet(Signed, T)
      BY DEF Net, Signed
<1>2. IsFiniteSet(S) /\ \A i \in S : Signed[i] \in Int
      BY TradesAreFinite, AmountsAreInt
<1>3. SumFunctionOnSet(Signed, S) \in Int
      BY <1>2, SumIsInt
<1>4. \A i \in S : SumFunctionOnSet(Signed, S) = Signed[i] + SumFunctionOnSet(Signed, S \ {i})
      BY <1>2, SumOfOne
<1> QED BY <1>1, <1>3, <1>4

LEMMA NetOfNothing == Net({}) = 0
BY SumOfNothing DEF Net

(* The sets of trades that come first: those of the rest, and the whole.  *)
LEMMA PrefixesGrow ==
  ASSUME TradesOK, NEW S \in SUBSET DOMAIN trades, S # {}
  PROVE  Prefixes(S) = Prefixes(S \ {Latest(S)}) \cup {S}
<1> DEFINE l == Latest(S)
           R == S \ {l}
           upTo(T, i) == {k \in T : k = i \/ Before(k, i)}
<1>1. l \in S /\ \A k \in S : k = l \/ Before(k, l)
      BY LatestIs DEF IsLatest
<1>2. upTo(S, l) = S
      BY <1>1
<1>3. ASSUME NEW i \in R PROVE upTo(S, i) = upTo(R, i)
  <2>1. Before(i, l) /\ i # l
        BY <1>1, <1>3
  <2>2. ~Before(l, i)
        BY <1>1, <2>1, BeforeIsOrder
  <2> HIDE DEF l
  <2> QED BY <2>1, <2>2
<1>4. \A T : Prefixes(T) = {{}} \cup {upTo(T, i) : i \in T}
      BY DEF Prefixes
<1>5. {upTo(S, i) : i \in S} = {upTo(R, i) : i \in R} \cup {S}
  <2> HIDE DEF l, upTo
  <2> QED BY <1>1, <1>2, <1>3
<1> HIDE DEF l, R, upTo
<1>6. Prefixes(S) = Prefixes(R) \cup {S}
      BY <1>4, <1>5
<1> QED BY <1>6 DEF l, R

(* x is the least that was traded after any of the first trades. *)
IsLow(S, x) ==
  /\ \E T \in Prefixes(S) : x = Net(T)
  /\ \A T \in Prefixes(S) : x <= Net(T)

Explained(S) ==
  /\ Replayed[S] \in [qty : Nat, short : Nat]
  /\ Replayed[S].qty = Net(S) + Replayed[S].short
  /\ IsLow(S, -Replayed[S].short)

(* The last trade carried out on an explained position. *)
LEMMA AppliedExplains ==
  ASSUME TradesOK, NEW S \in SUBSET DOMAIN trades, S # {},
         Explained(S \ {Latest(S)})
  PROVE  Explained(S)
<1> DEFINE l == Latest(S)
           R == S \ {l}
           t == trades[l]
           p == Replayed[R]
           n == Net(R)
<1>1. l \in S /\ l \in DOMAIN trades
      BY LatestIs DEF IsLatest
<1>2. /\ t.qty \in Nat \ {0} /\ t.side \in {"BUY", "SELL"}
      /\ Signed[l] = IF t.side = "BUY" THEN t.qty ELSE -t.qty
      BY <1>1, TradeIs, AmountsAreInt
<1>3. Replayed[S] = Applied(p, t)
      BY ReplayedIs
<1>4. n \in Int /\ Net(S) = Signed[l] + n
      BY <1>1, NetIs
<1>5. /\ p \in [qty : Nat, short : Nat] /\ p.qty = n + p.short /\ IsLow(R, -p.short)
      BY DEF Explained
<1>6. Prefixes(S) = Prefixes(R) \cup {S}
      BY PrefixesGrow
<1> HIDE DEF l, R, t, p, n
<1>7. p.qty \in Nat /\ p.short \in Nat
      BY <1>5
<1>8. \A T \in Prefixes(R) : -p.short <= Net(T) /\ Net(T) \in Int
  <2>1. \A T \in Prefixes(R) : T \in SUBSET DOMAIN trades
        BY DEF Prefixes, R
  <2>2. \A T \in Prefixes(R) : Net(T) \in Int
        BY <2>1, NetIs
  <2> QED BY <1>5, <2>2 DEF IsLow
<1>9. PICK T \in Prefixes(R) : -p.short = Net(T)
      BY <1>5 DEF IsLow
<1>10. CASE t.side = "BUY"
  <2>1. Replayed[S] = [qty |-> p.qty + t.qty, short |-> p.short]
        BY <1>3, <1>5, <1>10 DEF Applied
  <2>2. Net(S) = t.qty + n
        BY <1>2, <1>4, <1>10
  <2>3. IsLow(S, -p.short)
    <3>1. -p.short <= Net(S)
          BY <2>2, <1>2, <1>4, <1>5, <1>7
    <3> QED BY <3>1, <1>6, <1>8, <1>9 DEF IsLow
  <2> QED BY <2>1, <2>2, <2>3, <1>2, <1>4, <1>5, <1>7 DEF Explained
<1>11. CASE t.side = "SELL" /\ t.qty <= p.qty
  <2>1. Replayed[S] = [qty |-> p.qty - t.qty, short |-> p.short]
    <3>1. Least(p.qty, t.qty) = t.qty
          BY <1>2, <1>7, <1>11 DEF Least
    <3>2. p.short + t.qty - t.qty = p.short
          BY <1>2, <1>7
    <3> QED BY <1>3, <1>11, <3>1, <3>2 DEF Applied
  <2>2. Net(S) = -t.qty + n
        BY <1>2, <1>4, <1>11
  <2>3. IsLow(S, -p.short)
    <3>1. -p.short <= Net(S)
          BY <2>2, <1>2, <1>4, <1>5, <1>7, <1>11
    <3> QED BY <3>1, <1>6, <1>8, <1>9 DEF IsLow
  <2> QED BY <2>1, <2>2, <2>3, <1>2, <1>4, <1>5, <1>7, <1>11 DEF Explained
<1>12. CASE t.side = "SELL" /\ ~(t.qty <= p.qty)
  <2> DEFINE h == p.short + t.qty - p.qty
  <2>1. Replayed[S] = [qty |-> 0, short |-> h]
    <3>1. Least(p.qty, t.qty) = p.qty
          BY <1>2, <1>7, <1>12 DEF Least
    <3>2. p.qty - p.qty = 0
          BY <1>7
    <3> QED BY <1>3, <1>12, <3>1, <3>2 DEF Applied
  <2>2. Net(S) = -t.qty + n
        BY <1>2, <1>4, <1>12
  <2>3. h \in Nat /\ h > p.short /\ Net(S) = -h
        BY <2>2, <1>2, <1>4, <1>5, <1>7, <1>12
  <2> HIDE DEF h
  <2>4. \A U \in Prefixes(R) : -h <= Net(U)
        BY <2>3, <1>7, <1>8
  <2>5. -h <= Net(S)
        BY <2>3
  <2>6. IsLow(S, -h)
        BY <2>3, <2>4, <2>5, <1>6 DEF IsLow
  <2> QED BY <2>1, <2>3, <2>6 DEF Explained
<1> QED BY <1>2, <1>10, <1>11, <1>12

LEMMA ReplayExplains ==
  ASSUME TradesOK, NEW S \in SUBSET DOMAIN trades
  PROVE  Explained(S)
<1> DEFINE P == {T \in SUBSET S : Explained(T)}
<1>1. {} \in P
  <2>1. Replayed[{}] = Nothing
        BY ReplayedIs
  <2>2. Prefixes({}) = {{}}
        BY DEF Prefixes
  <2>3. IsLow({}, -0)
        BY <2>2, NetOfNothing DEF IsLow
  <2>4. Explained({})
        BY <2>1, <2>3, NetOfNothing DEF Explained, Nothing
  <2> QED BY <2>4
<1>2. ASSUME NEW T \in SUBSET S, T # {}, \A x \in T : T \ {x} \in P PROVE T \in P
  <2>1. Latest(T) \in T
        BY <1>2, LatestIs DEF IsLatest
  <2>2. Explained(T \ {Latest(T)})
        BY <1>2, <2>1
  <2>3. Explained(T)
        BY <1>2, <2>2, AppliedExplains
  <2> QED BY <2>3
<1>3. IsFiniteSet(S)
      BY TradesAreFinite
<1>4. \A T \in SUBSET S : T \in P
  <2> HIDE DEF P
  <2> QED BY <1>1, <1>2, <1>3, AllSubsets
<1> QED BY <1>4

(* The shares bought, less those sold. *)
SideOf(S, side) == {i \in S : trades[i].side = side}

LEMMA NetIsBoughtLessSold ==
  ASSUME TradesOK, NEW S \in SUBSET DOMAIN trades
  PROVE  /\ Net(S) = SumFunctionOnSet(Qty, SideOf(S, "BUY")) - SumFunctionOnSet(Qty, SideOf(S, "SELL"))
         /\ SumFunctionOnSet(Qty, SideOf(S, "BUY")) \in Nat
         /\ SumFunctionOnSet(Qty, SideOf(S, "SELL")) \in Nat
<1> DEFINE B == SideOf(S, "BUY")
           L == SideOf(S, "SELL")
           neg == [i \in DOMAIN trades |-> -trades[i].qty]
<1>1. S = B \cup L /\ B \cap L = {} /\ B \subseteq DOMAIN trades /\ L \subseteq DOMAIN trades
      BY TradeIs DEF SideOf
<1>2. IsFiniteSet(B) /\ IsFiniteSet(L)
      BY <1>1, TradesAreFinite
<1>3. /\ \A i \in S : Signed[i] \in Int /\ Qty[i] \in Nat
      /\ \A i \in B : Signed[i] = Qty[i]
      /\ \A i \in L : Signed[i] = -Qty[i]
      BY TradeIs, AmountsAreInt DEF SideOf
<1>4. /\ SumFunctionOnSet(Qty, B) \in Nat /\ SumFunctionOnSet(Qty, L) \in Nat
      /\ SumFunctionOnSet(Signed, L) \in Int
  <2> HIDE DEF B, L
  <2> QED BY <1>1, <1>2, <1>3, SumIsNat, SumIsInt
<1>5. SumFunctionOnSet(Signed, S) = SumFunctionOnSet(Signed, B) + SumFunctionOnSet(Signed, L)
  <2> HIDE DEF B, L
  <2> QED BY <1>1, <1>2, <1>3, SumOfUnion
<1>6. SumFunctionOnSet(Signed, B) = SumFunctionOnSet(Qty, B)
  <2> HIDE DEF B, L
  <2> QED BY <1>2, <1>3, SumOfSame
<1>7. SumFunctionOnSet(Signed, L) = -SumFunctionOnSet(Qty, L)
  <2> HIDE DEF B, L
  <2> QED BY <1>1, <1>2, <1>3, SumOfNegated
<1>8. Net(S) = SumFunctionOnSet(Signed, S)
      BY NetIs
<1> HIDE DEF B, L
<1>9. Net(S) = SumFunctionOnSet(Qty, B) - SumFunctionOnSet(Qty, L)
      BY <1>4, <1>5, <1>6, <1>7, <1>8
<1> QED BY <1>4, <1>9 DEF B, L

LEMMA HeldIsNet ==
  ASSUME TradesOK, NEW s, NEW d \in Nat
  PROVE  Held(s, d) = Net(TradesOf(s, d)) /\ Held(s, d) \in Int
<1> DEFINE S == TradesOf(s, d)
<1>1. S \in SUBSET DOMAIN trades
      BY DEF TradesOf
<1>2. \A side : {i \in DOMAIN trades : trades[i].side = side /\ trades[i].sec = s /\ trades[i].day \in 1..d}
                  = SideOf(S, side)
  <2>1. \A i \in DOMAIN trades : trades[i].day \in 1..d <=> trades[i].day <= d
        BY TradeIs
  <2> QED BY <2>1 DEF SideOf, TradesOf
<1>3. \A side : Traded(side, s, 1..d) = SumFunctionOnSet(Qty, SideOf(S, side))
      BY <1>2 DEF Traded, Qty
<1> HIDE DEF S
<1>4. Held(s, d) = Net(S) /\ Net(S) \in Int
      BY <1>1, <1>3, NetIsBoughtLessSold, NetIs DEF Held
<1> QED BY <1>4 DEF S

(* Every position, on any day: ShortfallsExplain for these trades. *)
LEMMA PositionIs ==
  ASSUME TradesOK, NEW s, NEW d \in Nat
  PROVE  /\ Position(s, d).qty \in Nat /\ Position(s, d).short \in Nat
         /\ Position(s, d).qty = Held(s, d) + Position(s, d).short
         /\ IsLow(TradesOf(s, d), -Position(s, d).short)
<1>1. TradesOf(s, d) \in SUBSET DOMAIN trades
      BY DEF TradesOf
<1>2. Explained(TradesOf(s, d))
      BY <1>1, ReplayExplains
<1>3. Held(s, d) = Net(TradesOf(s, d))
      BY HeldIsNet
<1> QED BY <1>2, <1>3 DEF Explained, Position

LEMMA ShortfallsAreExplained == TradesOK => ShortfallsExplain
<1> SUFFICES ASSUME TradesOK, NEW s \in Securities, NEW d \in Days
             PROVE  /\ Position(s, d).qty = Held(s, d) + Position(s, d).short
                    /\ Position(s, d).short = -Min({Net(S) : S \in Prefixes(TradesOf(s, d))})
      BY DEF ShortfallsExplain
<1>1. d \in Nat
      BY SnapshotAssumption DEF SnapshotAssumption, Days
<1> DEFINE F == Prefixes(TradesOf(s, d))
           h == Position(s, d).short
<1>2. h \in Nat /\ Position(s, d).qty = Held(s, d) + h /\ IsLow(TradesOf(s, d), -h)
      BY <1>1, PositionIs
<1> HIDE DEF h
<1>3. -h \in {Net(S) : S \in F} /\ \A x \in {Net(S) : S \in F} : -h <= x
      BY <1>2 DEF IsLow
<1>4. \A x \in {Net(S) : S \in F} : x \in Int
  <2>1. \A S \in F : S \in SUBSET DOMAIN trades
        BY DEF Prefixes, TradesOf
  <2> HIDE DEF F
  <2> QED BY <2>1, NetIs
<1> HIDE DEF F
<1>5. Min({Net(S) : S \in F}) = -h
      BY <1>2, <1>3, <1>4 DEF Min
<1> QED BY <1>2, <1>5 DEF F, h

-----------------------------------------------------------------------------
(* What rows come to *)

LEMMA TotalIs ==
  ASSUME NEW B, NEW R \in SUBSET B, IsFiniteSet(R)
  PROVE  Total(R) = SumFunctionOnSet([r \in B |-> r.qty], R)
<1> DEFINE f == [r \in R |-> r.qty]
           e == [r \in B |-> r.qty]
<1>1. Total(R) = SumFunctionOnSet(f, R)
      BY DEF Total, SumFunction, SumFunctionOnSet, FoldFunction
<1>2. \A r \in R : f[r] = e[r]
      OBVIOUS
<1> HIDE DEF f, e
<1>3. SumFunctionOnSet(f, R) = SumFunctionOnSet(e, R)
      BY <1>2, SumOfSame
<1> QED BY <1>1, <1>3 DEF e

LEMMA TotalOfNothing == Total({}) = 0
BY TotalIs, SumOfNothing, FS_EmptySet

LEMMA TotalIsInt ==
  ASSUME NEW R, IsFiniteSet(R), \A r \in R : r.qty \in Int
  PROVE  Total(R) \in Int
<1> DEFINE f == [r \in R |-> r.qty]
<1>1. \A r \in R : f[r] \in Int
      OBVIOUS
<1>2. Total(R) = SumFunctionOnSet(f, R)
      BY TotalIs
<1> HIDE DEF f
<1> QED BY <1>1, <1>2, SumIsInt

LEMMA TotalIsNat ==
  ASSUME NEW R, IsFiniteSet(R), \A r \in R : r.qty \in Nat
  PROVE  Total(R) \in Nat
<1> DEFINE f == [r \in R |-> r.qty]
<1>1. \A r \in R : f[r] \in Nat
      OBVIOUS
<1>2. Total(R) = SumFunctionOnSet(f, R)
      BY TotalIs
<1> HIDE DEF f
<1> QED BY <1>1, <1>2, SumIsNat

LEMMA TotalOfOneMore ==
  ASSUME NEW R, IsFiniteSet(R), NEW y, y \notin R, \A r \in R \cup {y} : r.qty \in Int
  PROVE  Total(R \cup {y}) = Total(R) + y.qty
<1> DEFINE B == R \cup {y}
           f == [r \in B |-> r.qty]
<1>1. IsFiniteSet(B)
      BY FS_AddElement
<1>2. Total(B) = SumFunctionOnSet(f, B) /\ Total(R) = SumFunctionOnSet(f, R)
      BY <1>1, TotalIs
<1>3. f[y] = y.qty /\ \A r \in R \cup {y} : f[r] \in Int
      OBVIOUS
<1> HIDE DEF f
<1>4. SumFunctionOnSet(f, R \cup {y}) = SumFunctionOnSet(f, R) + f[y]
      BY <1>3, SumOfOneMore
<1> QED BY <1>2, <1>3, <1>4

LEMMA TotalOfPart ==
  ASSUME NEW M, IsFiniteSet(M), \A r \in M : r.qty \in Nat, NEW R \in SUBSET M
  PROVE  Total(R) <= Total(M)
<1> DEFINE f == [r \in M |-> r.qty]
           D == M \ R
<1>1. IsFiniteSet(R) /\ IsFiniteSet(D)
      BY FS_Subset
<1>2. Total(M) = SumFunctionOnSet(f, M) /\ Total(R) = SumFunctionOnSet(f, R)
      BY <1>1, TotalIs
<1>3. \A r \in M : f[r] \in Nat /\ f[r] \in Int
      OBVIOUS
<1> HIDE DEF f
<1>4. SumFunctionOnSet(f, D) \in Nat /\ SumFunctionOnSet(f, R) \in Nat
      BY <1>1, <1>3, SumIsNat
<1>5. SumFunctionOnSet(f, R \cup D) = SumFunctionOnSet(f, R) + SumFunctionOnSet(f, D)
      BY <1>1, <1>3, SumOfUnion
<1>6. R \cup D = M
      OBVIOUS
<1>7. SumFunctionOnSet(f, M) = SumFunctionOnSet(f, R) + SumFunctionOnSet(f, D)
      BY <1>5, <1>6, Zenon
<1> HIDE DEF D
<1> QED BY <1>2, <1>4, <1>7

-----------------------------------------------------------------------------
(* The matches of trades *)

MatchRecords == [sell : DOMAIN trades, buy : DOMAIN trades, qty : Int]
MatchSets == {M \in SUBSET MatchRecords : IsFiniteSet(M)}

IsLatestPair(p, P) ==
  /\ p \in P
  /\ \A q \in P : q = p \/ Before(q[1], p[1]) \/ (q[1] = p[1] /\ Before(q[2], p[2]))

LEMMA LatestPairIs ==
  ASSUME TradesOK, NEW P \in SUBSET Matchable, P # {}
  PROVE  IsLatestPair(LatestPair(P), P)
<1> DEFINE sales == {p[1] : p \in P}
           sale == Latest(sales)
           buys == {p[2] : p \in {x \in P : x[1] = sale}}
           buy == Latest(buys)
<1>1. \A p \in P : /\ p = <<p[1], p[2]>>
                   /\ p[1] \in DOMAIN trades /\ p[2] \in DOMAIN trades
      BY DEF Matchable
<1>2. IsLatest(sale, sales)
  <2>1. sales \in SUBSET DOMAIN trades /\ sales # {}
        BY <1>1
  <2> HIDE DEF sales
  <2> QED BY <2>1, LatestIs
<1>3. IsLatest(buy, buys)
  <2>1. buys \in SUBSET DOMAIN trades /\ buys # {}
        BY <1>1, <1>2 DEF IsLatest
  <2> HIDE DEF buys
  <2> QED BY <2>1, LatestIs
<1>4. <<sale, buy>> \in P
  <2>1. PICK p \in P : p[1] = sale /\ p[2] = buy
        BY <1>3 DEF IsLatest
  <2> HIDE DEF sale, buy
  <2> QED BY <2>1, <1>1
<1>5. ASSUME NEW q \in P
      PROVE  q = <<sale, buy>> \/ Before(q[1], sale) \/ (q[1] = sale /\ Before(q[2], buy))
  <2>1. q[1] = sale \/ Before(q[1], sale)
        BY <1>2 DEF IsLatest
  <2>2. q[1] = sale => q[2] = buy \/ Before(q[2], buy)
        BY <1>3 DEF IsLatest
  <2> HIDE DEF sale, buy
  <2> QED BY <2>1, <2>2, <1>1
<1>6. IsLatestPair(<<sale, buy>>, P)
  <2> HIDE DEF sale, buy
  <2> QED BY <1>4, <1>5 DEF IsLatestPair
<1>7. \E p \in P : \A q \in P :
        q = p \/ Before(q[1], p[1]) \/ (q[1] = p[1] /\ Before(q[2], p[2]))
  <2> HIDE DEF sale, buy
  <2> QED BY <1>6 DEF IsLatestPair
<1> QED BY <1>7 DEF LatestPair, IsLatestPair

LEMMA MatchablesAre ==
  ASSUME TradesOK
  PROVE  /\ IsFiniteSet(Matchable)
         /\ \A P \in SUBSET Matchable : IsFiniteSet(P)
         /\ \A p \in Matchable :
              /\ p = <<p[1], p[2]>> /\ p[1] \in DOMAIN trades /\ p[2] \in DOMAIN trades
              /\ p[1] # p[2]
              /\ trades[p[1]].qty \in Nat \ {0} /\ trades[p[2]].qty \in Nat \ {0}
<1>1. IsFiniteSet((DOMAIN trades) \X (DOMAIN trades))
      BY TradesAreFinite, FS_Product
<1>2. Matchable \subseteq (DOMAIN trades) \X (DOMAIN trades)
      BY DEF Matchable
<1>3. IsFiniteSet(Matchable)
      BY <1>1, <1>2, FS_Subset
<1>4. \A P \in SUBSET Matchable : IsFiniteSet(P)
      BY <1>3, FS_Subset
<1>5. \A p \in Matchable :
        /\ p = <<p[1], p[2]>> /\ p[1] \in DOMAIN trades /\ p[2] \in DOMAIN trades
        /\ p[1] # p[2]
      BY DEF Matchable
<1> QED BY <1>3, <1>4, <1>5, TradeIs

LEMMA MatchedIsInt ==
  ASSUME NEW M \in MatchSets, NEW i
  PROVE  Matched(M, i) \in Int
<1> DEFINE R == {m \in M : i \in {m.buy, m.sell}}
<1>1. IsFiniteSet(R) /\ \A r \in R : r.qty \in Int
      BY FS_Subset DEF MatchSets, MatchRecords
<1> HIDE DEF R
<1>2. Total(R) \in Int
      BY <1>1, TotalIsInt
<1> QED BY <1>2 DEF R, Matched

LEMMA MatchPairIs ==
  ASSUME TradesOK, NEW M \in MatchSets, NEW p \in Matchable
  PROVE  MatchPair(M, p) \in MatchSets
<1> DEFINE a == trades[p[1]].qty - Matched(M, p[1])
           b == trades[p[2]].qty - Matched(M, p[2])
           part == Least(a, b)
           new == [sell |-> p[1], buy |-> p[2], qty |-> part]
<1>1. a \in Int /\ b \in Int
      BY MatchablesAre, MatchedIsInt
<1>2. part \in Int
  <2> HIDE DEF a, b
  <2> QED BY <1>1 DEF Least
<1>3. MatchPair(M, p) = IF part = 0 THEN M ELSE M \cup {new}
      BY DEF MatchPair
<1> HIDE DEF part
<1>4. new \in MatchRecords
      BY <1>2, MatchablesAre DEF MatchRecords
<1>5. IsFiniteSet(M \cup {new})
      BY FS_AddElement DEF MatchSets
<1> HIDE DEF new
<1> QED BY <1>3, <1>4, <1>5 DEF MatchSets

(* The matching is what its definition says: the last pair after the rest. *)
LEMMA MatchesIs ==
  ASSUME TradesOK, NEW P \in SUBSET Matchable
  PROVE  /\ Matches[P] \in MatchSets
         /\ Matches[P] = IF P = {} THEN {}
                         ELSE MatchPair(Matches[P \ {LatestPair(P)}], LatestPair(P))
<1> DEFINE U == Matchable
           pick == [s \in SUBSET U |-> LatestPair(s)]
           step == [c \in U \X MatchSets |-> MatchPair(c[2], c[1])]
           Rec(g) == g = [s \in SUBSET U |->
             IF s = {} THEN {}
             ELSE MatchPair(g[s \ {LatestPair(s)}], LatestPair(s))]
<1>1. \A s \in SUBSET U : s # {} => pick[s] \in s
      BY LatestPairIs DEF IsLatestPair
<1>2. ASSUME NEW x \in U, NEW w \in MatchSets PROVE step[<<x, w>>] \in MatchSets
      BY MatchPairIs
<1>3. {} \in MatchSets
      BY FS_EmptySet DEF MatchSets
<1>4. PICK g \in [SUBSET U -> MatchSets] : Computes(g, U, pick, {}, step)
  <2>1. IsFiniteSet(U)
        BY MatchablesAre
  <2> HIDE DEF U, pick, step
  <2>2. CanStep(U, pick, MatchSets, {}, step)
        BY <1>1, <1>2, <1>3, <2>1 DEF CanStep
  <2> QED BY <2>2, RecursionExists
<1>5. Rec(g)
  <2>1. ASSUME NEW s \in SUBSET U, s # {}
        PROVE  g[s] = MatchPair(g[s \ {LatestPair(s)}], LatestPair(s))
    <3>1. g[s] = step[<<pick[s], g[s \ {pick[s]}]>>] /\ pick[s] = LatestPair(s)
          BY <1>4, <2>1 DEF Computes
    <3>2. LatestPair(s) \in U /\ g[s \ {LatestPair(s)}] \in MatchSets
          BY <1>1, <2>1
    <3> QED BY <3>1, <3>2
  <2>2. g[{}] = {}
        BY <1>4 DEF Computes
  <2>3. g = [s \in SUBSET U |-> g[s]]
        OBVIOUS
  <2> HIDE DEF U
  <2> QED BY <2>1, <2>2, <2>3
<1>6. Rec(Matches)
  <2>1. \E f : Rec(f)
        BY <1>5
  <2>2. Matches = CHOOSE f : Rec(f)
        BY DEF Matches
  <2> HIDE DEF Rec
  <2> QED BY <2>1, <2>2
<1>7. ASSUME NEW s \in SUBSET U
      PROVE  Matches[s] = IF s = {} THEN {}
                          ELSE MatchPair(Matches[s \ {LatestPair(s)}], LatestPair(s))
      BY <1>6
<1>8. \A s \in SUBSET U : Matches[s] \in MatchSets
  <2> DEFINE Q == {s \in SUBSET U : Matches[s] \in MatchSets}
  <2>1. {} \in Q
        BY <1>3, <1>7
  <2>2. ASSUME NEW s \in SUBSET U, s # {}, \A x \in s : s \ {x} \in Q PROVE s \in Q
    <3>1. LatestPair(s) \in s /\ LatestPair(s) \in U
          BY <1>1, <2>2
    <3>2. Matches[s \ {LatestPair(s)}] \in MatchSets
          BY <2>2, <3>1
    <3>3. MatchPair(Matches[s \ {LatestPair(s)}], LatestPair(s)) \in MatchSets
          BY <3>1, <3>2, MatchPairIs
    <3>4. Matches[s] \in MatchSets
          BY <1>7, <2>2, <3>3
    <3> QED BY <3>4
  <2>3. IsFiniteSet(U)
        BY MatchablesAre
  <2>4. \A s \in SUBSET U : s \in Q
    <3> HIDE DEF Q, U
    <3> QED BY <2>1, <2>2, <2>3, AllSubsets
  <2> QED BY <2>4
<1> QED BY <1>7, <1>8
-----------------------------------------------------------------------------
(* A sale that the history covers is matched in full *)

(* Matches of some pairs: none of the pairs is left with something of both *)
(* to match, and no trade is matched with more than it has.                *)
Fair(P, M) ==
  /\ \A m \in M : <<m.sell, m.buy>> \in P /\ m.qty \in Nat
  /\ \A i \in DOMAIN trades : Matched(M, i) <= trades[i].qty
  /\ \A p \in P : \/ Matched(M, p[1]) = trades[p[1]].qty
                  \/ Matched(M, p[2]) = trades[p[2]].qty

(* One match more counts for the two trades it is of. *)
LEMMA MatchedMore ==
  ASSUME NEW M \in MatchSets, NEW m, m \notin M, m.qty \in Int, NEW i
  PROVE  Matched(M \cup {m}, i) = Matched(M, i) + (IF i \in {m.buy, m.sell} THEN m.qty ELSE 0)
<1> DEFINE R == {x \in M : i \in {x.buy, x.sell}}
           T == {x \in M \cup {m} : i \in {x.buy, x.sell}}
<1>1. IsFiniteSet(R) /\ \A r \in R \cup {m} : r.qty \in Int
      BY FS_Subset DEF MatchSets, MatchRecords
<1>2. Matched(M, i) = Total(R) /\ Matched(M \cup {m}, i) = Total(T) /\ m \notin R
      BY DEF Matched
<1>3. CASE i \in {m.buy, m.sell}
  <2>1. T = R \cup {m}
        BY <1>3
  <2> HIDE DEF R, T
  <2>2. Total(R \cup {m}) = Total(R) + m.qty
        BY <1>1, <1>2, TotalOfOneMore
  <2> QED BY <1>2, <1>3, <2>1, <2>2
<1>4. CASE i \notin {m.buy, m.sell}
  <2>1. T = R
        BY <1>4
  <2>2. Total(R) \in Int
    <3> HIDE DEF R
    <3> QED BY <1>1, TotalIsInt
  <2> HIDE DEF R, T
  <2> QED BY <1>2, <1>4, <2>1, <2>2
<1> QED BY <1>3, <1>4

LEMMA FairStep ==
  ASSUME TradesOK, NEW Q \in SUBSET Matchable, NEW l \in Matchable, l \notin Q,
         NEW M \in MatchSets, Fair(Q, M)
  PROVE  Fair(Q \cup {l}, MatchPair(M, l))
<1> DEFINE q(i) == trades[i].qty
           part == Least(q(l[1]) - Matched(M, l[1]), q(l[2]) - Matched(M, l[2]))
           m == [sell |-> l[1], buy |-> l[2], qty |-> part]
           N == MatchPair(M, l)
           more(i) == IF i \in {l[1], l[2]} THEN part ELSE 0
<1>1. /\ l = <<l[1], l[2]>> /\ l[1] \in DOMAIN trades /\ l[2] \in DOMAIN trades
      /\ \A p \in Q : p[1] \in DOMAIN trades /\ p[2] \in DOMAIN trades
      /\ \A i \in DOMAIN trades : q(i) \in Nat
      BY MatchablesAre, TradeIs
<1>2. N = IF part = 0 THEN M ELSE M \cup {m}
      BY DEF MatchPair
<1>3. \A i : Matched(M, i) \in Int
      BY MatchedIsInt
<1>4. /\ \A x \in M : <<x.sell, x.buy>> \in Q /\ x.qty \in Nat
      /\ \A i \in DOMAIN trades : Matched(M, i) <= q(i)
      /\ \A p \in Q : Matched(M, p[1]) = q(p[1]) \/ Matched(M, p[2]) = q(p[2])
      BY DEF Fair
<1> HIDE DEF q
<1>5. /\ part \in Nat
      /\ Matched(M, l[1]) + part <= q(l[1]) /\ Matched(M, l[2]) + part <= q(l[2])
      /\ Matched(M, l[1]) + part = q(l[1]) \/ Matched(M, l[2]) + part = q(l[2])
  <2>1. /\ Matched(M, l[1]) \in Int /\ q(l[1]) \in Nat /\ Matched(M, l[1]) <= q(l[1])
        /\ Matched(M, l[2]) \in Int /\ q(l[2]) \in Nat /\ Matched(M, l[2]) <= q(l[2])
        BY <1>1, <1>3, <1>4
  <2> QED BY <2>1 DEF Least
<1>6. m.sell = l[1] /\ m.buy = l[2] /\ m.qty = part
      OBVIOUS
<1> HIDE DEF part
<1>7. m \notin M
  <2>1. <<m.sell, m.buy>> \notin Q
        BY <1>1, <1>6
  <2> HIDE DEF m
  <2> QED BY <2>1, <1>4
<1> HIDE DEF m, N
<1>8. /\ \A i : Matched(N, i) = Matched(M, i) + more(i)
      /\ \A x \in N : x \in M \/ x = m
  <2>1. CASE part = 0
        BY <2>1, <1>2, <1>3
  <2>2. CASE part # 0
    <3>1. part \in Int
          BY <1>5
    <3>2. \A i : Matched(M \cup {m}, i) = Matched(M, i) + more(i)
          BY <3>1, <1>6, <1>7, MatchedMore
    <3> HIDE DEF more
    <3> QED BY <2>2, <3>2, <1>2
  <2> QED BY <2>1, <2>2
<1>9. \A i \in DOMAIN trades : Matched(N, i) <= q(i) /\ Matched(N, i) \in Int /\ Matched(M, i) <= Matched(N, i)
  <2> SUFFICES ASSUME NEW i \in DOMAIN trades
               PROVE  Matched(N, i) <= q(i) /\ Matched(N, i) \in Int /\ Matched(M, i) <= Matched(N, i)
      OBVIOUS
  <2>1. Matched(M, i) \in Int /\ Matched(M, i) <= q(i) /\ Matched(N, i) = Matched(M, i) + more(i)
        BY <1>3, <1>4, <1>8
  <2>2. CASE i \in {l[1], l[2]}
        BY <2>1, <2>2, <1>5
  <2>3. CASE i \notin {l[1], l[2]}
        BY <2>1, <2>3, <1>1
  <2> QED BY <2>2, <2>3
<1>10. ASSUME NEW p \in Q \cup {l}
       PROVE  Matched(N, p[1]) = q(p[1]) \/ Matched(N, p[2]) = q(p[2])
  <2>1. CASE p = l
    <3>1. /\ Matched(N, l[1]) = Matched(M, l[1]) + part
          /\ Matched(N, l[2]) = Matched(M, l[2]) + part
          BY <1>8
    <3> QED BY <2>1, <3>1, <1>5
  <2>2. CASE p \in Q
    <3>1. p[1] \in DOMAIN trades /\ p[2] \in DOMAIN trades
          BY <2>2, <1>1
    <3>2. Matched(M, p[1]) = q(p[1]) \/ Matched(M, p[2]) = q(p[2])
          BY <2>2, <1>4
    <3>3. \A i \in DOMAIN trades : Matched(M, i) = q(i) => Matched(N, i) = q(i)
          BY <1>1, <1>9
    <3> QED BY <3>1, <3>2, <3>3
  <2> QED BY <2>1, <2>2
<1>11. \A x \in N : <<x.sell, x.buy>> \in Q \cup {l} /\ x.qty \in Nat
      BY <1>1, <1>4, <1>5, <1>6, <1>8
<1> QED BY <1>9, <1>10, <1>11 DEF Fair, q, N

LEMMA MatchesAreFair ==
  ASSUME TradesOK, NEW P \in SUBSET Matchable
  PROVE  Fair(P, Matches[P])
<1> DEFINE F == {Q \in SUBSET Matchable : Fair(Q, Matches[Q])}
<1>1. {} \in F
  <2>1. Matches[{}] = {}
        BY MatchesIs
  <2>2. \A i : Matched({}, i) = 0
        BY TotalOfNothing DEF Matched
  <2>3. Fair({}, {})
        BY <2>2, TradeIs DEF Fair
  <2> QED BY <2>1, <2>3
<1>2. ASSUME NEW Q \in SUBSET Matchable, Q # {}, \A x \in Q : Q \ {x} \in F PROVE Q \in F
  <2> DEFINE l == LatestPair(Q)
             R == Q \ {l}
  <2>1. l \in Q /\ l \in Matchable /\ l \notin R /\ R \cup {l} = Q /\ R \in SUBSET Matchable
        BY <1>2, LatestPairIs DEF IsLatestPair
  <2>2. Fair(R, Matches[R])
        BY <1>2, <2>1
  <2>3. Matches[Q] = MatchPair(Matches[R], l)
        BY <1>2, MatchesIs
  <2> HIDE DEF l, R
  <2>4. Matches[R] \in MatchSets
        BY <2>1, MatchesIs
  <2>5. Fair(R \cup {l}, MatchPair(Matches[R], l))
        BY <2>1, <2>2, <2>4, FairStep
  <2>6. Fair(Q, Matches[Q])
        BY <2>1, <2>3, <2>5
  <2> QED BY <2>6
<1>3. IsFiniteSet(Matchable)
      BY MatchablesAre
<1>4. \A Q \in SUBSET Matchable : Q \in F
  <2> HIDE DEF F
  <2> QED BY <1>1, <1>2, <1>3, AllSubsets
<1> QED BY <1>4

(* The sales up to one are matched as if there were no others. *)
UpTo(P, x) == {p \in P : p[1] = x \/ Before(p[1], x)}

LEMMA EarlierMatchesStay ==
  ASSUME TradesOK, NEW P \in SUBSET Matchable, NEW x \in DOMAIN trades
  PROVE  Matches[UpTo(P, x)] \subseteq Matches[P]
<1> DEFINE F == {Q \in SUBSET Matchable : Matches[UpTo(Q, x)] \subseteq Matches[Q]}
<1>1. {} \in F
  <2>1. UpTo({}, x) = {}
        BY DEF UpTo
  <2> QED BY <2>1
<1>2. ASSUME NEW Q \in SUBSET Matchable, Q # {}, \A y \in Q : Q \ {y} \in F PROVE Q \in F
  <2> DEFINE l == LatestPair(Q)
             R == Q \ {l}
  <2>1. l \in Q /\ \A q \in Q : q = l \/ Before(q[1], l[1]) \/ q[1] = l[1]
        BY <1>2, LatestPairIs DEF IsLatestPair
  <2>2. CASE l[1] = x \/ Before(l[1], x)
    <3>1. \A q \in Q : q[1] \in DOMAIN trades
          BY MatchablesAre
    <3> HIDE DEF l
    <3>2. ASSUME NEW q \in Q PROVE q[1] = x \/ Before(q[1], x)
      <4>1. q[1] \in DOMAIN trades /\ l[1] \in DOMAIN trades
            BY <3>1, <2>1
      <4> QED BY <4>1, <2>1, <2>2, BeforeIsOrder
    <3>3. UpTo(Q, x) = Q
          BY <3>2 DEF UpTo
    <3> QED BY <3>3
  <2>3. CASE ~(l[1] = x \/ Before(l[1], x))
    <3>1. UpTo(Q, x) = UpTo(R, x)
      <4> HIDE DEF l
      <4> QED BY <2>1, <2>3 DEF UpTo
    <3>2. R \in F
          BY <1>2, <2>1
    <3>3. Matches[UpTo(R, x)] \subseteq Matches[R]
          BY <3>2
    <3>4. Matches[Q] = MatchPair(Matches[R], l)
          BY <1>2, MatchesIs
    <3> HIDE DEF l, R
    <3>5. Matches[R] \subseteq Matches[Q]
          BY <3>4 DEF MatchPair
    <3>6. Matches[UpTo(Q, x)] \subseteq Matches[Q]
          BY <3>1, <3>3, <3>5
    <3> QED BY <3>6
  <2> QED BY <2>2, <2>3
<1>3. IsFiniteSet(Matchable)
      BY MatchablesAre
<1>4. \A Q \in SUBSET Matchable : Q \in F
  <2> HIDE DEF F
  <2> QED BY <1>1, <1>2, <1>3, AllSubsets
<1> QED BY <1>4

(* The quantities matched for some sales, or for some purchases, are those *)
(* of their matches.                                                       *)
LEMMA MatchedOf ==
  ASSUME TradesOK, NEW P \in SUBSET Matchable, NEW S \in SUBSET DOMAIN trades
  PROVE  /\ (\A i \in S : trades[i].side = "SELL") =>
              SumFunctionOnSet([i \in DOMAIN trades |-> Matched(Matches[P], i)], S)
                = Total({m \in Matches[P] : m.sell \in S})
         /\ (\A i \in S : trades[i].side = "BUY") =>
              SumFunctionOnSet([i \in DOMAIN trades |-> Matched(Matches[P], i)], S)
                = Total({m \in Matches[P] : m.buy \in S})
<1> DEFINE M == Matches[P]
           f == [m \in M |-> m.qty]
           h == [i \in DOMAIN trades |-> Matched(M, i)]
<1>0. M \in MatchSets
      BY MatchesIs
<1>1. IsFiniteSet(M) /\ \A m \in M : m.qty \in Int
  <2> HIDE DEF M
  <2> QED BY <1>0 DEF MatchSets, MatchRecords
<1>2. IsFiniteSet(S)
      BY TradesAreFinite
<1>3. \A m \in M : /\ m.sell \in DOMAIN trades /\ trades[m.sell].side = "SELL"
                   /\ m.buy \in DOMAIN trades /\ trades[m.buy].side = "BUY"
  <2>1. \A m \in M : <<m.sell, m.buy>> \in Matchable
        BY MatchesAreFair DEF Fair
  <2> QED BY <2>1 DEF Matchable
<1>4. \A m \in M : f[m] \in Int
      BY <1>1
<1>5. ASSUME NEW R \in SUBSET M PROVE Total(R) = SumFunctionOnSet(f, R)
  <2>1. IsFiniteSet(R)
        BY <1>1, FS_Subset
  <2> HIDE DEF M
  <2> QED BY <2>1, TotalIs
<1>6. \A i \in S : h[i] = Total({m \in M : i \in {m.buy, m.sell}})
      BY DEF Matched
<1>7. ASSUME \A i \in S : trades[i].side = "SELL"
      PROVE  SumFunctionOnSet(h, S) = Total({m \in M : m.sell \in S})
  <2> DEFINE key == [m \in M |-> m.sell]
  <2>1. ASSUME NEW i \in S
        PROVE  h[i] = SumFunctionOnSet(f, {m \in M : key[m] = i})
    <3>1. {m \in M : i \in {m.buy, m.sell}} = {m \in M : key[m] = i}
          BY <1>3, <1>7
    <3> HIDE DEF M, f, key, h
    <3> QED BY <3>1, <1>5, <1>6
  <2>2. {m \in M : key[m] \in S} = {m \in M : m.sell \in S}
        OBVIOUS
  <2> HIDE DEF M, f, h, key
  <2>3. SumsByKey(h, S, f, M, key)
        BY <1>1, <1>2, <1>4, <2>1 DEF SumsByKey
  <2>4. SumFunctionOnSet(h, S) = SumFunctionOnSet(f, {m \in M : key[m] \in S})
        BY <2>3, SumOfFibers
  <2> QED BY <2>2, <2>4, <1>5
<1>8. ASSUME \A i \in S : trades[i].side = "BUY"
      PROVE  SumFunctionOnSet(h, S) = Total({m \in M : m.buy \in S})
  <2> DEFINE key == [m \in M |-> m.buy]
  <2>1. ASSUME NEW i \in S
        PROVE  h[i] = SumFunctionOnSet(f, {m \in M : key[m] = i})
    <3>1. {m \in M : i \in {m.buy, m.sell}} = {m \in M : key[m] = i}
          BY <1>3, <1>8
    <3> HIDE DEF M, f, key, h
    <3> QED BY <3>1, <1>5, <1>6
  <2>2. {m \in M : key[m] \in S} = {m \in M : m.buy \in S}
        OBVIOUS
  <2> HIDE DEF M, f, h, key
  <2>3. SumsByKey(h, S, f, M, key)
        BY <1>1, <1>2, <1>4, <2>1 DEF SumsByKey
  <2>4. SumFunctionOnSet(h, S) = SumFunctionOnSet(f, {m \in M : key[m] \in S})
        BY <2>3, SumOfFibers
  <2> QED BY <2>2, <2>4, <1>5
<1> QED BY <1>7, <1>8
-----------------------------------------------------------------------------
(* Without shortfalls a position is what was traded *)

(* What happened later does not undo a shortfall. *)
LEMMA NoShortfallIs ==
  ASSUME TradesOK, NoShortfall, NEW s \in Securities
  PROVE  /\ \A T \in Prefixes(TradesOf(s, LastDay)) : 0 <= Net(T)
         /\ \A d \in 0..LastDay : /\ Position(s, d).short = 0
                                  /\ Position(s, d).qty = Held(s, d)
                                  /\ Position(s, d).qty \in Nat
<1>1. LastDay \in Nat
      BY SnapshotAssumption DEF SnapshotAssumption
<1>2. \A T \in Prefixes(TradesOf(s, LastDay)) : 0 <= Net(T)
  <2>1. Position(s, LastDay).short = 0
        BY DEF NoShortfall
  <2>2. IsLow(TradesOf(s, LastDay), -Position(s, LastDay).short)
        BY <1>1, PositionIs
  <2> QED BY <2>1, <2>2 DEF IsLow
<1>3. ASSUME NEW d \in 0..LastDay
      PROVE  /\ Position(s, d).short = 0 /\ Position(s, d).qty = Held(s, d)
             /\ Position(s, d).qty \in Nat
  <2>1. d \in Nat /\ d <= LastDay
        BY <1>1
  <2>2. Prefixes(TradesOf(s, d)) \subseteq Prefixes(TradesOf(s, LastDay))
    <3>1. TradesOf(s, d) \subseteq TradesOf(s, LastDay) /\ TradesOf(s, LastDay) \subseteq DOMAIN trades
      <4>1. \A i \in DOMAIN trades : trades[i].day <= LastDay
            BY TradeIs
      <4> QED BY <4>1 DEF TradesOf
    <3>2. ASSUME NEW i \in TradesOf(s, d), NEW k \in TradesOf(s, LastDay), k = i \/ Before(k, i)
          PROVE  k \in TradesOf(s, d)
      <4>1. /\ i \in DOMAIN trades /\ k \in DOMAIN trades
            /\ trades[i].day <= d /\ trades[k].sec = s
            /\ trades[k].day \in Nat /\ trades[i].day \in Nat
            BY TradeIs DEF TradesOf
      <4>2. trades[k].day <= trades[i].day
            BY <3>2, <4>1, BeforeIsOrder
      <4>3. trades[k].day <= d
            BY <2>1, <4>1, <4>2
      <4> QED BY <4>1, <4>3 DEF TradesOf
    <3>3. \A i \in TradesOf(s, d) :
            {k \in TradesOf(s, d) : k = i \/ Before(k, i)}
              = {k \in TradesOf(s, LastDay) : k = i \/ Before(k, i)}
          BY <3>1, <3>2
    <3> QED BY <3>1, <3>3 DEF Prefixes
  <2>3. PICK T \in Prefixes(TradesOf(s, d)) : -Position(s, d).short = Net(T)
        BY <2>1, PositionIs DEF IsLow
  <2>4. 0 <= -Position(s, d).short
        BY <1>2, <2>2, <2>3
  <2>5. /\ Position(s, d).short \in Nat /\ Position(s, d).qty \in Nat /\ Held(s, d) \in Int
        /\ Position(s, d).qty = Held(s, d) + Position(s, d).short
        BY <2>1, PositionIs, HeldIsNet
  <2> QED BY <2>4, <2>5
<1> QED BY <1>2, <1>3

(* The matches: every sale is matched in full. *)
LEMMA SalesAreMatched ==
  ASSUME TradesOK, NoShortfall, NEW x \in DOMAIN trades, trades[x].side = "SELL"
  PROVE  Matched(TradeMatches, x) = trades[x].qty
<1> DEFINE s == trades[x].sec
           P == UpTo(Matchable, x)
           M == Matches[P]
           E == {k \in TradesOf(s, LastDay) : k = x \/ Before(k, x)}
           B == SideOf(E, "BUY")
           L == SideOf(E, "SELL")
           h == [i \in DOMAIN trades |-> Matched(M, i)]
<1>1. P \in SUBSET Matchable
      BY DEF UpTo
<1>2. M \in MatchSets /\ Fair(P, M)
      BY <1>1, MatchesIs, MatchesAreFair
<1>3. TradeMatches \in MatchSets /\ Fair(Matchable, TradeMatches)
      BY MatchesIs, MatchesAreFair DEF TradeMatches
<1>4. M \subseteq TradeMatches
      BY EarlierMatchesStay DEF TradeMatches
<1>5. /\ Matched(TradeMatches, x) \in Int /\ Matched(TradeMatches, x) <= trades[x].qty
      /\ trades[x].qty \in Nat /\ s \in Securities
      BY <1>3, MatchedIsInt, TradeIs DEF Fair
<1>6. Matched(M, x) <= Matched(TradeMatches, x)
  <2> DEFINE R == {m \in M : x \in {m.buy, m.sell}}
             T == {m \in TradeMatches : x \in {m.buy, m.sell}}
  <2>1. R \in SUBSET T
        BY <1>4
  <2>2. IsFiniteSet(T) /\ \A m \in T : m.qty \in Nat
        BY <1>3, FS_Subset DEF MatchSets, Fair
  <2>3. Matched(M, x) = Total(R) /\ Matched(TradeMatches, x) = Total(T)
        BY DEF Matched
  <2> HIDE DEF R, T, M
  <2>4. Total(R) <= Total(T)
        BY <2>1, <2>2, TotalOfPart
  <2> QED BY <2>3, <2>4
<1>7. E \in Prefixes(TradesOf(s, LastDay))
  <2>1. x \in TradesOf(s, LastDay)
        BY TradeIs DEF TradesOf
  <2> QED BY <2>1 DEF Prefixes
<1>8. /\ E \in SUBSET DOMAIN trades
      /\ B \in SUBSET DOMAIN trades /\ \A i \in B : trades[i].side = "BUY"
      /\ L \in SUBSET DOMAIN trades /\ \A i \in L : trades[i].side = "SELL"
      /\ x \in L
  <2>1. x \in TradesOf(s, LastDay)
        BY TradeIs DEF TradesOf
  <2> QED BY <2>1 DEF TradesOf, SideOf
<1>9. 0 <= Net(E)
      BY <1>5, <1>7, NoShortfallIs
<1>10. Net(E) = SumFunctionOnSet(Qty, B) - SumFunctionOnSet(Qty, L)
  <2> HIDE DEF E
  <2> QED BY <1>8, NetIsBoughtLessSold
<1>11. {m \in M : m.buy \in B} = {m \in M : m.sell \in L}
  <2>1. ASSUME NEW m \in M PROVE m.buy \in B <=> m.sell \in L
    <3> DEFINE b == m.buy
               a == m.sell
    <3>1. <<a, b>> \in P
          BY <1>2 DEF Fair
    <3>2. /\ a \in DOMAIN trades /\ b \in DOMAIN trades
          /\ trades[a].side = "SELL" /\ trades[b].side = "BUY"
          /\ trades[a].sec = trades[b].sec /\ Before(b, a)
          /\ a = x \/ Before(a, x)
          BY <3>1 DEF UpTo, Matchable
    <3> HIDE DEF a, b
    <3>3. Before(b, x)
          BY <3>2, BeforeIsOrder
    <3>4. trades[a].day <= LastDay /\ trades[b].day <= LastDay
          BY <3>2, TradeIs
    <3>5. b \in B <=> trades[b].sec = s
          BY <3>2, <3>3, <3>4 DEF SideOf, TradesOf
    <3>6. a \in L <=> trades[a].sec = s
          BY <3>2, <3>4 DEF SideOf, TradesOf
    <3>7. b \in B <=> a \in L
          BY <3>2, <3>5, <3>6
    <3> HIDE DEF B, L
    <3> QED BY <3>7 DEF a, b
  <2> HIDE DEF M, B, L
  <2> QED BY <2>1
<1>12. SumFunctionOnSet(h, B) = SumFunctionOnSet(h, L)
  <2> HIDE DEF B, L, P, s
  <2>1. SumFunctionOnSet(h, B) = Total({m \in M : m.buy \in B})
        BY <1>1, <1>8, MatchedOf
  <2>2. SumFunctionOnSet(h, L) = Total({m \in M : m.sell \in L})
        BY <1>1, <1>8, MatchedOf
  <2> HIDE DEF M, h
  <2> QED BY <1>11, <2>1, <2>2
<1>13. SUFFICES ASSUME Matched(M, x) # trades[x].qty PROVE FALSE
  <2> HIDE DEF M
  <2>1. Matched(M, x) \in Int
        BY <1>2, MatchedIsInt
  <2> QED BY <2>1, <1>5, <1>6
<1>14. IsFiniteSet(B) /\ IsFiniteSet(L) /\ IsFiniteSet(L \ {x})
  <2> HIDE DEF B, L
  <2>1. L \ {x} \in SUBSET DOMAIN trades
        BY <1>8
  <2> QED BY <1>8, <2>1, TradesAreFinite
<1>15. \A i \in DOMAIN trades : h[i] = Matched(M, i) /\ h[i] \in Int /\ Qty[i] \in Int /\ Qty[i] = trades[i].qty /\ h[i] <= Qty[i]
  <2>1. \A i \in DOMAIN trades : Matched(M, i) <= trades[i].qty
        BY <1>2 DEF Fair
  <2> HIDE DEF M
  <2>2. \A i : Matched(M, i) \in Int
        BY <1>2, MatchedIsInt
  <2> QED BY <2>1, <2>2, AmountsAreInt
<1>16. SumFunctionOnSet(h, B) = SumFunctionOnSet(Qty, B)
  <2>1. ASSUME NEW b \in B PROVE h[b] = Qty[b]
    <3>1. <<x, b>> \in P
      <4>1. b \in DOMAIN trades /\ trades[b].side = "BUY" /\ trades[b].sec = s /\ Before(b, x)
            BY <1>8 DEF SideOf, TradesOf
      <4> QED BY <4>1 DEF UpTo, Matchable
    <3>2. Matched(M, x) = trades[x].qty \/ Matched(M, b) = trades[b].qty
          BY <1>2, <3>1 DEF Fair
    <3>3. b \in DOMAIN trades
          BY <1>8
    <3> HIDE DEF M, B
    <3> QED BY <1>13, <1>15, <3>2, <3>3
  <2> HIDE DEF B, h
  <2> QED BY <1>14, <2>1, SumOfSame
<1>17. SumFunctionOnSet(h, L) < SumFunctionOnSet(Qty, L)
  <2> DEFINE K == L \ {x}
  <2>1. h[x] \in Int /\ Qty[x] \in Int /\ h[x] < Qty[x]
    <3> HIDE DEF M
    <3> QED BY <1>5, <1>13, <1>15
  <2>2. \A i \in L : h[i] \in Int /\ Qty[i] \in Int /\ h[i] <= Qty[i]
    <3> HIDE DEF L, h
    <3> QED BY <1>8, <1>15
  <2> HIDE DEF L, h
  <2>3. /\ SumFunctionOnSet(h, L) = h[x] + SumFunctionOnSet(h, K)
        /\ SumFunctionOnSet(Qty, L) = Qty[x] + SumFunctionOnSet(Qty, K)
        BY <1>8, <1>14, <2>2, SumOfOne
  <2>4. SumFunctionOnSet(h, K) <= SumFunctionOnSet(Qty, K)
        BY <1>14, <2>2, SumOfLess
  <2>5. SumFunctionOnSet(h, K) \in Int /\ SumFunctionOnSet(Qty, K) \in Int
        BY <1>14, <2>2, SumIsInt
  <2> QED BY <2>1, <2>3, <2>4, <2>5
<1>18. SumFunctionOnSet(Qty, L) \in Int /\ SumFunctionOnSet(h, L) \in Int
  <2>1. \A i \in L : h[i] \in Int /\ Qty[i] \in Int
    <3> HIDE DEF L, h
    <3> QED BY <1>8, <1>15
  <2> HIDE DEF L, h
  <2> QED BY <1>14, <2>1, SumIsInt
<1> HIDE DEF E, B, L, h
<1> QED BY <1>9, <1>10, <1>12, <1>16, <1>17, <1>18

(* What is left of the purchases is what is held. *)
LEMMA RemainingIsHeld ==
  ASSUME TradesOK, NoShortfall, NEW s, NEW d \in Nat
  PROVE  Remaining(s, d + 1) = Held(s, d)
<1> DEFINE S == SideOf(TradesOf(s, d), "SELL")
           M == TradeMatches
           h == [i \in DOMAIN trades |-> Matched(M, i)]
           R == {m \in M : /\ trades[m.buy].sec = s /\ trades[m.buy].day < d + 1
                           /\ trades[m.sell].day < d + 1}
<1>1. (d + 1) - 1 = d
      OBVIOUS
<1>2. Remaining(s, d + 1) = Traded("BUY", s, 1..d) - Total(R)
      BY <1>1 DEF Remaining
<1>3. R = {m \in M : m.sell \in S}
  <2>1. ASSUME NEW m \in M
        PROVE  (/\ trades[m.buy].sec = s /\ trades[m.buy].day < d + 1
                /\ trades[m.sell].day < d + 1) <=> m.sell \in S
    <3> DEFINE b == m.buy
               a == m.sell
    <3>1. <<a, b>> \in Matchable
          BY MatchesAreFair DEF Fair, TradeMatches
    <3>2. /\ a \in DOMAIN trades /\ b \in DOMAIN trades
          /\ trades[a].side = "SELL"
          /\ trades[a].sec = trades[b].sec /\ Before(b, a)
          BY <3>1 DEF Matchable
    <3> HIDE DEF a, b
    <3>3. trades[a].day \in Nat /\ trades[b].day \in Nat /\ trades[b].day <= trades[a].day
          BY <3>2, TradeIs, BeforeIsOrder
    <3>4. a \in S <=> trades[a].sec = s /\ trades[a].day <= d
          BY <3>2 DEF SideOf, TradesOf
    <3>5. (trades[b].sec = s /\ trades[b].day < d + 1 /\ trades[a].day < d + 1) <=> a \in S
          BY <3>2, <3>3, <3>4
    <3> QED BY <3>5 DEF a, b
  <2> HIDE DEF M, S
  <2> QED BY <2>1
<1>4. S \in SUBSET DOMAIN trades /\ \A i \in S : trades[i].side = "SELL" /\ i \in DOMAIN trades
      BY DEF SideOf, TradesOf
<1>5. SumFunctionOnSet(h, S) = Total({m \in M : m.sell \in S})
  <2> HIDE DEF S
  <2> QED BY <1>4, MatchedOf DEF TradeMatches
<1>6. SumFunctionOnSet(h, S) = SumFunctionOnSet(Qty, S)
  <2>1. \A i \in S : h[i] = Qty[i]
    <3> HIDE DEF S
    <3> QED BY <1>4, SalesAreMatched DEF Qty
  <2>2. IsFiniteSet(S)
    <3> HIDE DEF S
    <3> QED BY <1>4, TradesAreFinite
  <2> HIDE DEF S, h
  <2> QED BY <2>1, <2>2, SumOfSame
<1>7. Traded("SELL", s, 1..d) = SumFunctionOnSet(Qty, S)
  <2>1. \A i \in DOMAIN trades : trades[i].day \in 1..d <=> trades[i].day <= d
        BY TradeIs
  <2>2. {i \in DOMAIN trades : trades[i].side = "SELL" /\ trades[i].sec = s /\ trades[i].day \in 1..d} = S
        BY <2>1 DEF SideOf, TradesOf
  <2> QED BY <2>2 DEF Traded, Qty
<1> HIDE DEF S, M, h, R
<1> QED BY <1>2, <1>3, <1>5, <1>6, <1>7 DEF Held
-----------------------------------------------------------------------------
(* The reconstructions *)

CalendarOK == closes \in Calendars

(* What is rebuilt is on days that are, of a security that is held. *)
LEMMA ForwardIs ==
  ASSUME TradesOK, CalendarOK
  PROVE  /\ TradingDays \subseteq SnapshotDays /\ SnapshotDays \subseteq Days
         /\ IsFiniteSet(Forward)
         /\ \A r \in Forward :
              /\ r = [sec |-> r.sec, day |-> r.day, qty |-> r.qty]
              /\ r.sec \in Securities /\ r.day \in SnapshotDays
              /\ r.qty = Position(r.sec, r.day).qty /\ r.qty \in Nat \ {0}
         /\ \A s \in Securities, d \in SnapshotDays :
              Position(s, d).qty # 0 =>
                [sec |-> s, day |-> d, qty |-> Position(s, d).qty] \in Forward
<1>1. TradingDays \subseteq Days
  <2>1. closes \subseteq Securities \X Days
        BY SnapshotAssumption DEF SnapshotAssumption, CalendarOK
  <2> QED BY <2>1 DEF TradingDays
<1>2. TradingDays \subseteq SnapshotDays /\ SnapshotDays \subseteq Days
  <2>1. {trades[i].day : i \in DOMAIN trades} \subseteq Days
        BY TradeIs
  <2> QED BY <1>1, <2>1 DEF SnapshotDays
<1>3. \A d \in SnapshotDays : d \in Nat
      BY <1>2, SnapshotAssumption DEF SnapshotAssumption, Days
<1>4. \A s \in Securities, d \in SnapshotDays : Position(s, d).qty \in Nat
      BY <1>3, PositionIs
<1> DEFINE entry(c) == [sec |-> c[1], day |-> c[2], qty |-> Position(c[1], c[2]).qty]
           C == Securities \X SnapshotDays
<1>5. IsFiniteSet({entry(c) : c \in C})
  <2>1. IsFiniteSet(Days)
        BY FS_Interval, SnapshotAssumption DEF SnapshotAssumption, Days
  <2>2. IsFiniteSet(SnapshotDays)
        BY <1>2, <2>1, FS_Subset
  <2>3. IsFiniteSet(C)
        BY <2>2, FS_Product, SnapshotAssumption DEF SnapshotAssumption
  <2> DEFINE f == [c \in C |-> entry(c)]
  <2>4. {entry(c) : c \in C} = {f[c] : c \in C}
        OBVIOUS
  <2> HIDE DEF f, C
  <2> QED BY <2>3, <2>4, ValuesAreFinite
<1>6. Forward \subseteq {entry(c) : c \in C}
  <2> SUFFICES ASSUME NEW r \in Forward PROVE r \in {entry(c) : c \in C}
      OBVIOUS
  <2>1. PICK s \in Securities, d \in SnapshotDays :
          r = [sec |-> s, day |-> d, qty |-> Position(s, d).qty]
        BY DEF Forward
  <2>2. r = entry(<<s, d>>) /\ <<s, d>> \in C
        BY <2>1
  <2> HIDE DEF entry, C
  <2> QED BY <2>2
<1>7. IsFiniteSet(Forward)
      BY <1>5, <1>6, FS_Subset
<1>8. ASSUME NEW r \in Forward
      PROVE  /\ r = [sec |-> r.sec, day |-> r.day, qty |-> r.qty]
             /\ r.sec \in Securities /\ r.day \in SnapshotDays
             /\ r.qty = Position(r.sec, r.day).qty /\ r.qty \in Nat \ {0}
  <2>1. PICK s \in Securities, d \in SnapshotDays :
          r = [sec |-> s, day |-> d, qty |-> Position(s, d).qty]
        BY DEF Forward
  <2>2. r.qty > 0
        BY DEF Forward
  <2>3. Position(s, d).qty \in Nat
        BY <1>4
  <2> QED BY <2>1, <2>2, <2>3
<1>9. ASSUME NEW s \in Securities, NEW d \in SnapshotDays, Position(s, d).qty # 0
      PROVE  [sec |-> s, day |-> d, qty |-> Position(s, d).qty] \in Forward
      BY <1>4, <1>9 DEF Forward
<1> QED BY <1>2, <1>7, <1>8, <1>9

(* What was traded up to a day, and after it up to another. *)
LEMMA TradedIs ==
  ASSUME TradesOK, NEW side, NEW s, NEW d \in Nat, NEW e \in Nat, d <= e
  PROVE  /\ Traded(side, s, 1..d) \in Int /\ Traded(side, s, (d + 1)..e) \in Int
         /\ Traded(side, s, 1..e) = Traded(side, s, 1..d) + Traded(side, s, (d + 1)..e)
<1> DEFINE On(days) == {i \in DOMAIN trades :
                          trades[i].side = side /\ trades[i].sec = s /\ trades[i].day \in days}
           A == On(1..d)
           B == On((d + 1)..e)
<1>1. \A days : Traded(side, s, days) = SumFunctionOnSet(Qty, On(days))
      BY DEF Traded, Qty
<1>2. On(1..e) = A \cup B /\ A \cap B = {}
  <2>1. \A i \in DOMAIN trades : trades[i].day \in Nat
        BY TradeIs
  <2>2. \A i \in DOMAIN trades :
          /\ trades[i].day \in 1..e <=> trades[i].day \in 1..d \/ trades[i].day \in (d + 1)..e
          /\ ~(trades[i].day \in 1..d /\ trades[i].day \in (d + 1)..e)
        BY <2>1
  <2> QED BY <2>2
<1>3. IsFiniteSet(A) /\ IsFiniteSet(B)
      BY TradesAreFinite
<1>4. \A i \in A \cup B : Qty[i] \in Int
      BY AmountsAreInt
<1> HIDE DEF A, B
<1>5. SumFunctionOnSet(Qty, A) \in Int /\ SumFunctionOnSet(Qty, B) \in Int
      BY <1>3, <1>4, SumIsInt
<1>6. SumFunctionOnSet(Qty, A \cup B) = SumFunctionOnSet(Qty, A) + SumFunctionOnSet(Qty, B)
      BY <1>2, <1>3, <1>4, SumOfUnion
<1> QED BY <1>1, <1>2, <1>5, <1>6 DEF A, B

(* The reversal arrives at the position of the earlier day. *)
LEMMA ReversedIs ==
  ASSUME TradesOK, NoShortfall, NEW s \in Securities, NEW a \in Days, NEW d \in Days, d < a
  PROVE  Reversed(a, [x \in Securities |-> Position(x, a).qty], s, d) = Position(s, d).qty
<1>1. a \in 0..LastDay /\ d \in 0..LastDay /\ a \in Nat /\ d \in Nat /\ d <= a
      BY SnapshotAssumption DEF SnapshotAssumption, Days
<1>2. Position(s, a).qty = Held(s, a) /\ Position(s, d).qty = Held(s, d)
      BY <1>1, NoShortfallIs
<1> DEFINE b1 == Traded("BUY", s, 1..d)
           b2 == Traded("BUY", s, (d + 1)..a)
           s1 == Traded("SELL", s, 1..d)
           s2 == Traded("SELL", s, (d + 1)..a)
<1>3. /\ b1 \in Int /\ b2 \in Int /\ s1 \in Int /\ s2 \in Int
      /\ Traded("BUY", s, 1..a) = b1 + b2 /\ Traded("SELL", s, 1..a) = s1 + s2
  <2>1. \A side : /\ Traded(side, s, 1..d) \in Int /\ Traded(side, s, (d + 1)..a) \in Int
                  /\ Traded(side, s, 1..a) = Traded(side, s, 1..d) + Traded(side, s, (d + 1)..a)
        BY <1>1, TradedIs
  <2> QED BY <2>1
<1>4. Held(s, a) = (b1 + b2) - (s1 + s2) /\ Held(s, d) = b1 - s1
      BY <1>3 DEF Held
<1>5. Reversed(a, [x \in Securities |-> Position(x, a).qty], s, d) = Position(s, a).qty - b2 + s2
      BY DEF Reversed
<1> HIDE DEF b1, b2, s1, s2
<1> QED BY <1>2, <1>3, <1>4, <1>5

LEMMA BackwardIs ==
  ASSUME TradesOK, CalendarOK, NoShortfall, NEW a \in Days
  PROVE  LET b == Backward(a, [x \in Securities |-> Position(x, a).qty])
         IN /\ ~b.refused
            /\ b.rows = {r \in Forward : r.day < a /\ <<r.sec, r.day>> \in closes}
<1> DEFINE H == [x \in Securities |-> Position(x, a).qty]
           days == {d \in TradingDays : d < a}
           rows == {[sec |-> s, day |-> d, qty |-> Reversed(a, H, s, d)] :
                      s \in Securities, d \in days}
           kept == {r \in rows : r.qty > 0 /\ <<r.sec, r.day>> \in closes}
           fwd == {r \in Forward : r.day < a /\ <<r.sec, r.day>> \in closes}
<1>1. ASSUME NEW s \in Securities, NEW d \in days
      PROVE  /\ Reversed(a, H, s, d) = Position(s, d).qty
             /\ Position(s, d).qty \in Nat /\ d \in SnapshotDays /\ d < a
  <2>1. d \in Days /\ d \in SnapshotDays /\ d < a
        BY ForwardIs
  <2>2. d \in 0..LastDay
        BY <2>1, SnapshotAssumption DEF SnapshotAssumption, Days
  <2> QED BY <2>1, <2>2, ReversedIs, NoShortfallIs
<1> HIDE DEF H
<1>2. ASSUME NEW r \in rows
      PROVE  /\ r = [sec |-> r.sec, day |-> r.day, qty |-> Position(r.sec, r.day).qty]
             /\ r.sec \in Securities /\ r.day \in days /\ r.qty \in Nat
  <2>1. PICK s \in Securities, d \in days : r = [sec |-> s, day |-> d, qty |-> Reversed(a, H, s, d)]
        OBVIOUS
  <2>2. r = [sec |-> s, day |-> d, qty |-> Position(s, d).qty]
        BY <1>1, <2>1
  <2> HIDE DEF days
  <2> QED BY <1>1, <2>2
<1>3. \A r \in rows : ~(r.qty < 0)
  <2> HIDE DEF rows
  <2> QED BY <1>2
<1>4. kept \subseteq fwd
  <2> SUFFICES ASSUME NEW r \in kept PROVE r \in fwd
      OBVIOUS
  <2>1. r \in rows /\ r.qty > 0 /\ <<r.sec, r.day>> \in closes
        OBVIOUS
  <2> HIDE DEF rows, days
  <2>2. /\ r = [sec |-> r.sec, day |-> r.day, qty |-> Position(r.sec, r.day).qty]
        /\ r.sec \in Securities /\ r.day \in SnapshotDays /\ r.day < a /\ r.qty \in Nat
        BY <1>1, <1>2, <2>1
  <2>3. Position(r.sec, r.day).qty # 0
        BY <2>1, <2>2
  <2>4. r \in Forward
        BY <2>2, <2>3, ForwardIs
  <2> QED BY <2>1, <2>2, <2>4
<1>5. fwd \subseteq kept
  <2> SUFFICES ASSUME NEW r \in fwd PROVE r \in kept
      OBVIOUS
  <2>1. /\ r = [sec |-> r.sec, day |-> r.day, qty |-> r.qty]
        /\ r.sec \in Securities /\ r.qty = Position(r.sec, r.day).qty /\ r.qty > 0
        /\ r.day < a /\ <<r.sec, r.day>> \in closes
        BY ForwardIs
  <2>2. r.day \in days
        BY <2>1 DEF TradingDays
  <2> HIDE DEF days
  <2>3. r.qty = Reversed(a, H, r.sec, r.day)
        BY <1>1, <2>1, <2>2
  <2>4. r \in rows
        BY <2>1, <2>2, <2>3
  <2> QED BY <2>1, <2>4
<1>6. /\ Backward(a, H).refused = \E r \in rows : r.qty < 0
      /\ Backward(a, H).rows = kept
      BY DEF Backward
<1> HIDE DEF rows, kept, fwd
<1>7. ~Backward(a, H).refused /\ Backward(a, H).rows = fwd
      BY <1>3, <1>4, <1>5, <1>6
<1> QED BY <1>7 DEF H, fwd

LEMMA HistoriesAgree == TradesOK /\ CalendarOK => ReconstructionsAgree
<1> SUFFICES ASSUME TradesOK, CalendarOK, NoShortfall PROVE
      /\ \A s \in Securities, d \in Days :
           /\ Position(s, d).qty = Held(s, d)
           /\ Remaining(s, d + 1) = Held(s, d)
      /\ \A anchor \in Days :
           LET b == Backward(anchor, [s \in Securities |-> Position(s, anchor).qty])
           IN /\ ~b.refused
              /\ b.rows = {r \in Forward : r.day < anchor /\ <<r.sec, r.day>> \in closes}
    BY DEF ReconstructionsAgree
<1>1. ASSUME NEW s \in Securities, NEW d \in Days
      PROVE  Position(s, d).qty = Held(s, d) /\ Remaining(s, d + 1) = Held(s, d)
  <2>1. d \in Nat /\ d \in 0..LastDay
        BY SnapshotAssumption DEF SnapshotAssumption, Days
  <2> QED BY <2>1, NoShortfallIs, RemainingIsHeld
<1> QED BY <1>1, BackwardIs
-----------------------------------------------------------------------------
(* The stored rows *)

Entry(r) == [sec |-> r.sec, day |-> r.day, qty |-> r.qty]

IsRow(r) ==
  /\ r = Row(r.sec, r.day, r.qty, r.build, r.copy)
  /\ r.sec \in Securities /\ r.day \in Days /\ r.qty \in Nat
  /\ r.build \in 0..Len(trades) /\ r.copy \in 1..MaxCopies
  /\ r.build # Broker => r.qty > 0
  /\ keyed => r.copy = 1

RowsOK(tab) == IsFiniteSet(tab) /\ \A r \in tab : IsRow(r)

(* Rows rebuilt from all the trades are those of a rebuild now, and a day  *)
(* that has no others has them all.                                        *)
Rebuilt(r) == r.build = Len(trades) /\ r.build # Broker
Follows(tab) ==
  /\ \A r \in tab : Rebuilt(r) => Entry(r) \in Forward
  /\ \A r \in tab : (\A x \in tab : x.day = r.day => Rebuilt(x)) =>
       \A e \in Forward : e.day = r.day => \E x \in tab : x.day = e.day /\ x.sec = e.sec

(* A backfill carries whole days, of a rebuild now if no trade has come in *)
(* since it began.                                                         *)
CarriesDays(rows) ==
  \A r \in rows : r \in Forward /\ \A e \in Forward : e.day = r.day => e \in rows
Carried(rows, build) ==
  /\ build \in 0..Len(trades) /\ IsFiniteSet(rows)
  /\ \A r \in rows :
       r = Entry(r) /\ r.sec \in Securities /\ r.day \in Days /\ r.qty \in Nat \ {0}
  /\ build = Len(trades) => CarriesDays(rows)
JobOK(j) ==
  /\ job[j].pc \in {"idle", "built", "insert", "done"}
  /\ job[j].pc \in {"built", "insert"} => Carried(job[j].rows, job[j].build)
HasJobs == job = [j \in Jobs |-> job[j]]
JobsOK == HasJobs /\ \A j \in Jobs : JobOK(j)

HistoryOK == TradesOK /\ Len(trades) <= MaxTrades /\ CalendarOK /\ keyed \in BOOLEAN
StoreInv == HistoryOK /\ RowsOK(table) /\ Follows(table) /\ JobsOK

LEMMA ForwardStays == ASSUME UNCHANGED <<trades, closes>> PROVE Forward' = Forward
<1>1. trades' = trades /\ closes' = closes
      OBVIOUS
<1>2. Replayed' = Replayed
      BY <1>1 DEF Replayed, Latest, Before, Applied, Least
<1> QED BY <1>1, <1>2 DEF Forward, Position, TradesOf, SnapshotDays, TradingDays

(* While trades and prices stay, what is carried and what follows stay so. *)
LEMMA MeaningStays ==
  ASSUME UNCHANGED <<trades, closes, keyed>>
  PROVE  /\ \A rows, build : Carried(rows, build)' <=> Carried(rows, build)
         /\ \A tab : RowsOK(tab)' <=> RowsOK(tab)
         /\ \A tab : Follows(tab)' <=> Follows(tab)
         /\ HistoryOK' <=> HistoryOK
<1>1. trades' = trades /\ closes' = closes /\ keyed' = keyed /\ Forward' = Forward
      BY ForwardStays
<1>2. \A rows, build : Carried(rows, build)' <=> Carried(rows, build)
      BY <1>1 DEF Carried, CarriesDays
<1>3. \A tab : RowsOK(tab)' <=> RowsOK(tab)
      BY <1>1 DEF RowsOK, IsRow
<1>4. \A tab : Follows(tab)' <=> Follows(tab)
      BY <1>1 DEF Follows, Rebuilt
<1>5. HistoryOK' <=> HistoryOK
      BY <1>1 DEF HistoryOK, TradesOK, CalendarOK
<1> QED BY <1>2, <1>3, <1>4, <1>5
-----------------------------------------------------------------------------
(* Steps of a backfill *)

LEMMA StoreInit == Init => StoreInv
<1> SUFFICES ASSUME Init PROVE StoreInv
    OBVIOUS
<1>1. HistoryOK
      BY SnapshotAssumption DEF Init, SnapshotAssumption, HistoryOK, TradesOK, CalendarOK
<1>2. RowsOK(table) /\ Follows(table)
      BY FS_EmptySet DEF Init, RowsOK, Follows
<1>3. JobsOK
      BY DEF Init, Idle, JobsOK, JobOK, HasJobs
<1> QED BY <1>1, <1>2, <1>3 DEF StoreInv

LEMMA JobsStay ==
  ASSUME JobsOK, UNCHANGED <<trades, closes, keyed, job>>
  PROVE  JobsOK'
<1>1. \A rows, build : Carried(rows, build)' <=> Carried(rows, build)
      BY MeaningStays
<1>2. \A j \in Jobs : JobOK(j)'
      BY <1>1 DEF JobsOK, JobOK
<1> QED BY <1>2 DEF JobsOK, HasJobs

LEMMA EndKeepsJobs ==
  ASSUME JobsOK, UNCHANGED <<trades, closes, keyed>>, NEW j \in Jobs, End(j)
  PROVE  JobsOK'
<1>1. \A rows, build : Carried(rows, build)' <=> Carried(rows, build)
      BY MeaningStays
<1>2. job' = [job EXCEPT ![j] = [pc |-> "done"]]
      BY DEF End
<1>3. HasJobs'
      BY <1>2 DEF JobsOK, HasJobs
<1>4. ASSUME NEW k \in Jobs PROVE JobOK(k)'
  <2>1. CASE k = j
    <3>1. job'[k].pc = "done"
          BY <1>2, <2>1 DEF JobsOK, HasJobs
    <3> QED BY <3>1 DEF JobOK
  <2>2. CASE k # j
    <3>1. job'[k] = job[k]
          BY <1>2, <2>2 DEF JobsOK, HasJobs
    <3> QED BY <3>1, <1>1 DEF JobOK, JobsOK
  <2> QED BY <2>1, <2>2
<1> QED BY <1>3, <1>4 DEF JobsOK

(* A job gets rows that may be carried. *)
LEMMA CarryKeepsJobs ==
  ASSUME JobsOK, UNCHANGED <<trades, closes, keyed>>, NEW j \in Jobs,
         NEW pc \in {"built", "insert"}, NEW rows, NEW build, Carried(rows, build),
         job' = [job EXCEPT ![j] = [pc |-> pc, rows |-> rows, build |-> build]]
  PROVE  JobsOK'
<1>1. \A r, b : Carried(r, b)' <=> Carried(r, b)
      BY MeaningStays
<1>2. HasJobs'
      BY DEF JobsOK, HasJobs
<1>3. ASSUME NEW k \in Jobs PROVE JobOK(k)'
  <2>1. CASE k = j
    <3>1. job'[k] = [pc |-> pc, rows |-> rows, build |-> build]
          BY <2>1 DEF JobsOK, HasJobs
    <3>2. job'[k].pc = pc /\ job'[k].rows = rows /\ job'[k].build = build
          BY <3>1
    <3> QED BY <3>2, <1>1 DEF JobOK
  <2>2. CASE k # j
    <3>1. job'[k] = job[k]
          BY <2>2 DEF JobsOK, HasJobs
    <3> QED BY <3>1, <1>1 DEF JobOK, JobsOK
  <2> QED BY <2>1, <2>2
<1> QED BY <1>2, <1>3 DEF JobsOK

LEMMA RebuildIsCarried ==
  ASSUME HistoryOK
  PROVE  Carried(Forward, Len(trades))
<1>1. Len(trades) \in Nat /\ Len(trades) \in 0..Len(trades)
      BY DEF HistoryOK, TradesOK
<1>2. \A r \in Forward :
        r = Entry(r) /\ r.sec \in Securities /\ r.day \in Days /\ r.qty \in Nat \ {0}
      BY ForwardIs DEF HistoryOK, Entry
<1>3. IsFiniteSet(Forward)
      BY ForwardIs DEF HistoryOK
<1> QED BY <1>1, <1>2, <1>3 DEF Carried, CarriesDays

LEMMA BuildKeeps ==
  ASSUME StoreInv, NEW j \in Jobs, Build(j)
  PROVE  StoreInv'
<1>1. JobsOK'
  <2>1. job' = [job EXCEPT ![j] = [pc |-> "built", rows |-> Forward, build |-> Len(trades)]]
        BY DEF Build
  <2>2. Carried(Forward, Len(trades))
        BY RebuildIsCarried DEF StoreInv
  <2> QED BY <2>1, <2>2, CarryKeepsJobs DEF StoreInv, Build
<1>2. UNCHANGED <<trades, closes, keyed>> /\ table' = table
      BY DEF Build
<1> QED BY <1>1, <1>2, MeaningStays DEF StoreInv

LEMMA ReadSyncedKeeps ==
  ASSUME StoreInv, NEW j \in Jobs, ReadSynced(j)
  PROVE  StoreInv'
<1>1. UNCHANGED <<trades, closes, keyed>> /\ table' = table /\ job[j].pc = "built"
      BY DEF ReadSynced
<1>2. JobsOK'
  <2>1. PICK synced \in {{}, {r.day : r \in table}} :
          LET pending == {r \in job[j].rows : r.day \notin synced} IN
          IF pending = {} THEN End(j)
          ELSE job' = [job EXCEPT ![j] = [pc |-> "insert", rows |-> pending, build |-> @.build]]
        BY DEF ReadSynced
  <2> DEFINE pending == {r \in job[j].rows : r.day \notin synced}
  <2>2. CASE pending = {}
        BY <2>1, <2>2, <1>1, EndKeepsJobs DEF StoreInv
  <2>3. CASE pending # {}
    <3>1. job' = [job EXCEPT ![j] = [pc |-> "insert", rows |-> pending, build |-> job[j].build]]
          BY <2>1, <2>3
    <3>2. Carried(job[j].rows, job[j].build)
          BY <1>1 DEF StoreInv, JobsOK, JobOK
    <3>3. IsFiniteSet(pending)
          BY <3>2, FS_Subset DEF Carried
    <3>4. CarriesDays(job[j].rows) => CarriesDays(pending)
          BY DEF CarriesDays
    <3>5. Carried(pending, job[j].build)
          BY <3>2, <3>3, <3>4 DEF Carried
    <3> HIDE DEF pending
    <3> QED BY <1>1, <3>1, <3>5, CarryKeepsJobs DEF StoreInv
  <2> QED BY <2>2, <2>3
<1> QED BY <1>1, <1>2, MeaningStays DEF StoreInv

-----------------------------------------------------------------------------
(* Steps that write the table *)

(* A write of carried rows: what stays of another day stays whole. *)
Writes(rows, build, tab) ==
  /\ \A r \in tab : r \in table \/ \E n \in rows : r = Row(n.sec, n.day, n.qty, build, r.copy)
  /\ \A n \in rows : \E r \in tab : r.sec = n.sec /\ r.day = n.day /\ r.build = build
  /\ \A r \in tab, x \in table :
       x.day = r.day /\ (\A n \in rows : n.day # r.day) => x \in tab

LEMMA WrittenFollows ==
  ASSUME Follows(table), NEW rows, NEW build, Carried(rows, build),
         NEW tab, Writes(rows, build, tab)
  PROVE  Follows(tab)
<1>1. ASSUME NEW r \in tab, Rebuilt(r) PROVE Entry(r) \in Forward
  <2>1. CASE r \in table
        BY <1>1, <2>1 DEF Follows
  <2>2. ASSUME NEW n \in rows, r = Row(n.sec, n.day, n.qty, build, r.copy)
        PROVE  Entry(r) \in Forward
    <3>1. r.sec = n.sec /\ r.day = n.day /\ r.qty = n.qty /\ r.build = build
          BY <2>2 DEF Row
    <3>2. n \in Forward
          BY <1>1, <3>1 DEF Rebuilt, Carried, CarriesDays
    <3>3. n = Entry(n)
          BY DEF Carried
    <3>4. Entry(r) = Entry(n)
          BY <3>1 DEF Entry
    <3> QED BY <3>2, <3>3, <3>4
  <2> QED BY <2>1, <2>2 DEF Writes
<1>2. ASSUME NEW r \in tab, \A x \in tab : x.day = r.day => Rebuilt(x),
             NEW e \in Forward, e.day = r.day
      PROVE  \E x \in tab : x.day = e.day /\ x.sec = e.sec
  <2>1. CASE \E n \in rows : n.day = r.day
    <3>1. PICK n \in rows : n.day = r.day
          BY <2>1
    <3>2. build = Len(trades)
          BY <1>2, <3>1 DEF Rebuilt, Writes
    <3>3. e \in rows
          BY <1>2, <3>1, <3>2 DEF Carried, CarriesDays
    <3> QED BY <3>3 DEF Writes
  <2>2. CASE \A n \in rows : n.day # r.day
    <3>1. r \in table
      <4>1. ASSUME NEW n \in rows, r = Row(n.sec, n.day, n.qty, build, r.copy) PROVE FALSE
        <5>1. r.day = n.day
              BY <4>1 DEF Row
        <5> QED BY <5>1, <2>2
      <4> QED BY <4>1 DEF Writes
    <3>2. \A x \in table : x.day = r.day => Rebuilt(x)
          BY <1>2, <2>2 DEF Writes
    <3>3. PICK x \in table : x.day = e.day /\ x.sec = e.sec
          BY <1>2, <3>1, <3>2 DEF Follows
    <3>4. x \in tab
          BY <1>2, <2>2, <3>3 DEF Writes
    <3> QED BY <3>3, <3>4
  <2> QED BY <2>1, <2>2
<1> QED BY <1>1, <1>2 DEF Follows

LEMMA PersistKeeps ==
  ASSUME StoreInv, NEW j \in Jobs, Persist(j)
  PROVE  StoreInv'
<1> DEFINE rows == job[j].rows
           build == job[j].build
           old == {r \in table : r.copy = 1 /\ \E n \in rows : r \in Copies(table, n)}
           new(n) == Row(n.sec, n.day, n.qty, build, 1)
           news == {new(n) : n \in rows}
           tab == (table \ old) \cup news
<1>1. UNCHANGED <<trades, closes, keyed>> /\ job[j].pc = "built" /\ End(j) /\ table' = tab
      BY DEF Persist
<1>2. Carried(rows, build)
      BY <1>1 DEF StoreInv, JobsOK, JobOK
<1>3. \A n \in rows : /\ new(n).sec = n.sec /\ new(n).day = n.day /\ new(n).qty = n.qty
                      /\ new(n).build = build /\ new(n).copy = 1
      BY DEF Row
<1>4. \A n \in rows : IsRow(new(n))
      BY <1>2, SnapshotAssumption DEF Carried, IsRow, Row, SnapshotAssumption
<1>5. IsFiniteSet(tab)
  <2> DEFINE f == [n \in rows |-> new(n)]
  <2>1. {f[n] : n \in rows} = news
        OBVIOUS
  <2>2. IsFiniteSet({f[n] : n \in rows})
    <3> HIDE DEF f, rows
    <3> QED BY <1>2, ValuesAreFinite DEF Carried
  <2> HIDE DEF f, news, old
  <2>3. IsFiniteSet(table \ old)
        BY FS_Subset DEF StoreInv, RowsOK
  <2> QED BY <2>1, <2>2, <2>3, FS_Union
<1>6. RowsOK(tab)
  <2> HIDE DEF old, new
  <2> QED BY <1>4, <1>5 DEF RowsOK, StoreInv
<1>7. Writes(rows, build, tab)
  <2>1. ASSUME NEW r \in tab
        PROVE  r \in table \/ \E n \in rows : r = Row(n.sec, n.day, n.qty, build, r.copy)
    <3>1. CASE r \in table
          BY <3>1
    <3>2. CASE r \in news
      <4>1. PICK n \in rows : r = new(n)
            BY <3>2
      <4>2. r.copy = 1
            BY <1>3, <4>1
      <4>3. r = Row(n.sec, n.day, n.qty, build, r.copy)
            BY <4>1, <4>2
      <4> QED BY <4>3
    <3> HIDE DEF news, old
    <3> QED BY <3>1, <3>2
  <2>2. ASSUME NEW n \in rows PROVE \E r \in tab : r.sec = n.sec /\ r.day = n.day /\ r.build = build
    <3>1. new(n) \in tab
          OBVIOUS
    <3> HIDE DEF new, tab
    <3> QED BY <1>3, <3>1
  <2>3. ASSUME NEW x \in table, \A n \in rows : n.day # x.day PROVE x \in tab
    <3>1. x \notin old
          BY <2>3 DEF Copies
    <3> QED BY <3>1
  <2> HIDE DEF tab, rows, build
  <2>4. \A r \in tab, x \in table : x.day = r.day /\ (\A n \in rows : n.day # r.day) => x \in tab
        BY <2>3
  <2> QED BY <2>1, <2>2, <2>4 DEF Writes
<1> HIDE DEF tab, rows, build
<1>8. Follows(tab)
      BY <1>2, <1>7, WrittenFollows DEF StoreInv
<1>9. JobsOK'
      BY <1>1, EndKeepsJobs DEF StoreInv
<1> QED BY <1>1, <1>6, <1>8, <1>9, MeaningStays DEF StoreInv

(* Insert and Replace add rows with the next number of a copy. *)
LEMMA AddedKeeps ==
  ASSUME StoreInv, NEW j \in Jobs, NEW tab, RowsOK(tab), NEW T,
         job[j].pc \in {"built", "insert"},
         T = Added(tab, job[j].rows, job[j].build),
         \A n \in job[j].rows : Cardinality(Copies(tab, n)) < MaxCopies,
         keyed => \A n \in job[j].rows : Copies(tab, n) = {},
         tab = table \/ tab = {}
  PROVE  RowsOK(T) /\ Follows(T)
<1> DEFINE rows == job[j].rows
           build == job[j].build
           new(n) == Row(n.sec, n.day, n.qty, build, Cardinality(Copies(tab, n)) + 1)
           news == {new(n) : n \in rows}
<1>1. T = tab \cup news
      BY DEF Added
<1>2. Carried(rows, build)
      BY DEF StoreInv, JobsOK, JobOK
<1>3. \A n \in rows : /\ new(n).sec = n.sec /\ new(n).day = n.day /\ new(n).qty = n.qty
                      /\ new(n).build = build
                      /\ new(n) = Row(n.sec, n.day, n.qty, build, new(n).copy)
                      /\ new(n).copy = Cardinality(Copies(tab, n)) + 1
      BY DEF Row
<1>4. ASSUME NEW n \in rows
      PROVE  new(n).copy \in 1..MaxCopies /\ (keyed => new(n).copy = 1)
  <2>1. IsFiniteSet(Copies(tab, n))
        BY FS_Subset DEF RowsOK, Copies
  <2>2. Cardinality(Copies(tab, n)) \in Nat
        BY <2>1, FS_CardinalityType
  <2>3. keyed => Cardinality(Copies(tab, n)) = 0
        BY FS_EmptySet
  <2>4. MaxCopies \in Nat /\ Cardinality(Copies(tab, n)) < MaxCopies
        BY SnapshotAssumption DEF SnapshotAssumption
  <2>5. new(n).copy = Cardinality(Copies(tab, n)) + 1
        BY <1>3
  <2> HIDE DEF new
  <2> QED BY <2>2, <2>3, <2>4, <2>5
<1>5. \A n \in rows : IsRow(new(n))
  <2> HIDE DEF new, build
  <2> QED BY <1>2, <1>3, <1>4 DEF Carried, IsRow, Row
<1>6. IsFiniteSet(T)
  <2> DEFINE f == [n \in rows |-> new(n)]
  <2>1. {f[n] : n \in rows} = news
        OBVIOUS
  <2>2. IsFiniteSet({f[n] : n \in rows})
    <3> HIDE DEF f, rows
    <3> QED BY <1>2, ValuesAreFinite DEF Carried
  <2>3. IsFiniteSet(tab)
        BY DEF RowsOK
  <2> HIDE DEF f, news, rows
  <2>4. IsFiniteSet(tab \cup news)
        BY <2>1, <2>2, <2>3, FS_Union
  <2> QED BY <1>1, <2>4
<1>7. RowsOK(T)
  <2> HIDE DEF new
  <2> QED BY <1>1, <1>5, <1>6 DEF RowsOK
<1>8. Writes(rows, build, T)
  <2> HIDE DEF new, build
  <2>1. \A r \in T : r \in table \/ \E n \in rows : r = Row(n.sec, n.day, n.qty, build, r.copy)
        BY <1>1, <1>3
  <2>2. \A n \in rows : \E r \in T : r.sec = n.sec /\ r.day = n.day /\ r.build = build
        BY <1>1, <1>3
  <2>3. \A r \in T, x \in table : x.day = r.day /\ (\A n \in rows : n.day # r.day) => x \in T
        BY <1>1, <1>3
  <2> HIDE DEF rows
  <2> QED BY <2>1, <2>2, <2>3 DEF Writes
<1> HIDE DEF rows, build
<1>9. Follows(T)
      BY <1>2, <1>8, WrittenFollows DEF StoreInv
<1> QED BY <1>7, <1>9

LEMMA InsertKeeps ==
  ASSUME StoreInv, NEW j \in Jobs, Insert(j)
  PROVE  StoreInv'
<1>1. UNCHANGED <<trades, closes, keyed>> /\ job[j].pc = "insert" /\ End(j)
      BY DEF Insert
<1>2. /\ table' = Added(table, job[j].rows, job[j].build)
      /\ \A n \in job[j].rows : Cardinality(Copies(table, n)) < MaxCopies
      /\ keyed => \A n \in job[j].rows : Copies(table, n) = {}
      BY DEF Insert
<1>3. RowsOK(table') /\ Follows(table')
  <2> DEFINE T == Added(table, job[j].rows, job[j].build)
  <2>1. T = Added(table, job[j].rows, job[j].build) /\ RowsOK(table)
        BY DEF StoreInv
  <2> HIDE DEF T
  <2>2. RowsOK(T) /\ Follows(T)
        BY <1>1, <1>2, <2>1, AddedKeeps
  <2> QED BY <1>2, <2>1, <2>2
<1>4. JobsOK'
      BY <1>1, EndKeepsJobs DEF StoreInv
<1> QED BY <1>1, <1>3, <1>4, MeaningStays DEF StoreInv

LEMMA ReplaceKeeps ==
  ASSUME StoreInv, NEW j \in Jobs, Replace(j)
  PROVE  StoreInv'
<1>1. UNCHANGED <<trades, closes, keyed>> /\ job[j].pc = "built" /\ End(j)
      BY DEF Replace
<1>2. table' = Added({}, job[j].rows, job[j].build)
      BY DEF Replace
<1>3. RowsOK(table') /\ Follows(table')
  <2> DEFINE T == Added({}, job[j].rows, job[j].build)
  <2>1. RowsOK({})
        BY FS_EmptySet DEF RowsOK
  <2>2. \A n \in job[j].rows : Copies({}, n) = {} /\ Cardinality(Copies({}, n)) < MaxCopies
    <3>1. \A n \in job[j].rows : Copies({}, n) = {}
          BY DEF Copies
    <3>2. Cardinality({}) = 0 /\ 0 < MaxCopies
          BY FS_EmptySet, SnapshotAssumption DEF SnapshotAssumption
    <3> QED BY <3>1, <3>2
  <2>3. T = Added({}, job[j].rows, job[j].build)
        OBVIOUS
  <2> HIDE DEF T
  <2>4. RowsOK(T) /\ Follows(T)
        BY <1>1, <2>1, <2>2, <2>3, AddedKeeps
  <2> QED BY <1>2, <2>3, <2>4
<1>4. JobsOK'
      BY <1>1, EndKeepsJobs DEF StoreInv
<1> QED BY <1>1, <1>3, <1>4, MeaningStays DEF StoreInv

LEMMA ReportKeeps ==
  ASSUME StoreInv, NEW day \in SyncDays, ReportDay(day)
  PROVE  StoreInv'
<1>1. PICK report \in Reports :
        table' = {r \in table : r.day # day \/ r.sec \notin DOMAIN report}
                   \cup {Row(s, day, report[s], Broker, 1) : s \in DOMAIN report}
      BY DEF ReportDay
<1> DEFINE new(s) == Row(s, day, report[s], Broker, 1)
           kept == {r \in table : r.day # day \/ r.sec \notin DOMAIN report}
           news == {new(s) : s \in DOMAIN report}
           tab == kept \cup news
<1>2. table' = tab /\ UNCHANGED <<trades, closes, keyed, job>>
      BY <1>1 DEF ReportDay
<1>3. \A s \in DOMAIN report : /\ s \in Securities /\ day \in Days /\ report[s] \in Nat
                               /\ new(s).day = day /\ new(s).build = Broker
      BY SnapshotAssumption DEF SnapshotAssumption, Row
<1>4. \A s \in DOMAIN report : IsRow(new(s))
  <2>1. 0 \in 0..Len(trades) /\ 1 \in 1..MaxCopies
        BY SnapshotAssumption DEF SnapshotAssumption, StoreInv, HistoryOK, TradesOK
  <2> QED BY <1>3, <2>1 DEF IsRow, Row, Broker
<1>5. IsFiniteSet(tab)
  <2> DEFINE f == [s \in DOMAIN report |-> new(s)]
  <2>1. {f[s] : s \in DOMAIN report} = news
        OBVIOUS
  <2>2. IsFiniteSet(DOMAIN report)
        BY FS_Subset, SnapshotAssumption DEF SnapshotAssumption
  <2>3. IsFiniteSet({f[s] : s \in DOMAIN report})
    <3> HIDE DEF f
    <3> QED BY <2>2, ValuesAreFinite
  <2>4. IsFiniteSet(kept)
        BY FS_Subset DEF StoreInv, RowsOK
  <2> HIDE DEF f, news, kept
  <2> QED BY <2>1, <2>3, <2>4, FS_Union
<1>6. RowsOK(tab)
  <2> HIDE DEF new
  <2> QED BY <1>4, <1>5 DEF RowsOK, StoreInv
<1>7. Follows(tab)
  <2>1. \A r \in tab : Rebuilt(r) => r \in kept
    <3> HIDE DEF new, kept
    <3> QED BY <1>3 DEF Rebuilt
  <2>2. \A r \in tab : Rebuilt(r) => Entry(r) \in Forward
        BY <2>1 DEF StoreInv, Follows
  <2>3. ASSUME NEW r \in tab, \A x \in tab : x.day = r.day => Rebuilt(x),
               NEW e \in Forward, e.day = r.day
        PROVE  \E x \in tab : x.day = e.day /\ x.sec = e.sec
    <3>1. r \in kept
      <4> HIDE DEF kept, news
      <4> QED BY <2>1, <2>3
    <3>2. \A x \in table : x.day = r.day => x \in kept
      <4>1. CASE DOMAIN report = {}
            BY <4>1
      <4>2. CASE r.day # day
            BY <4>2
      <4>3. ASSUME NEW s \in DOMAIN report, r.day = day PROVE FALSE
        <5>1. new(s) \in tab
              OBVIOUS
        <5> HIDE DEF new, tab
        <5> QED BY <1>3, <2>3, <4>3, <5>1 DEF Rebuilt
      <4> QED BY <4>1, <4>2, <4>3
    <3> HIDE DEF news, kept
    <3>3. r \in table /\ \A x \in table : x.day = r.day => Rebuilt(x)
          BY <2>3, <3>1, <3>2 DEF kept
    <3>4. PICK x \in table : x.day = e.day /\ x.sec = e.sec
          BY <2>3, <3>3 DEF StoreInv, Follows
    <3> QED BY <2>3, <3>2, <3>4
  <2> HIDE DEF tab
  <2> QED BY <2>2, <2>3 DEF Follows
<1>8. JobsOK'
      BY <1>2, JobsStay DEF StoreInv
<1> HIDE DEF tab
<1> QED BY <1>2, <1>6, <1>7, <1>8, MeaningStays DEF StoreInv

LEMMA ImportKeeps ==
  ASSUME StoreInv, ImportTrade
  PROVE  StoreInv'
<1>1. PICK t \in Tradable : trades' = Append(trades, t)
      BY DEF ImportTrade
<1>2. UNCHANGED <<closes, keyed, table, job>> /\ Len(trades) < MaxTrades
      BY DEF ImportTrade
<1>3. /\ trades \in Seq(Tradable) /\ Len(trades) \in Nat /\ MaxTrades \in Nat
      /\ trades' \in Seq(Tradable) /\ Len(trades') = Len(trades) + 1
      BY <1>1, SnapshotAssumption DEF StoreInv, HistoryOK, TradesOK, SnapshotAssumption
<1>4. HistoryOK'
      BY <1>2, <1>3 DEF StoreInv, HistoryOK, TradesOK, CalendarOK
<1>5. \A b : b \in 0..Len(trades) => b \in 0..Len(trades') /\ b # Len(trades')
      BY <1>3
<1>6. RowsOK(table)'
      BY <1>2, <1>5 DEF StoreInv, RowsOK, IsRow
<1>7. \A r \in table : r.build \in 0..Len(trades)
      BY DEF StoreInv, RowsOK, IsRow
<1>8. Follows(table)'
      BY <1>2, <1>5, <1>7 DEF Follows, Rebuilt
<1>9. JobsOK'
  <2>1. \A rows, build : Carried(rows, build) => Carried(rows, build)'
        BY <1>5 DEF Carried
  <2>2. \A j \in Jobs : JobOK(j) => JobOK(j)'
        BY <1>2, <2>1 DEF JobOK
  <2> QED BY <1>2, <2>2 DEF StoreInv, JobsOK, HasJobs
<1> QED BY <1>4, <1>6, <1>8, <1>9 DEF StoreInv

LEMMA StoreStep == StoreInv /\ [Next]_vars => StoreInv'
<1> SUFFICES ASSUME StoreInv, [Next]_vars PROVE StoreInv'
    OBVIOUS
<1>1. CASE UNCHANGED vars
  <2>1. UNCHANGED <<trades, closes, keyed, job>> /\ table' = table
        BY <1>1 DEF vars
  <2>2. JobsOK'
        BY <2>1, JobsStay DEF StoreInv
  <2> QED BY <2>1, <2>2, MeaningStays DEF StoreInv
<1>2. ASSUME NEW j \in Jobs, Preview(j) \/ Raise(j) PROVE StoreInv'
  <2>1. UNCHANGED <<trades, closes, keyed>> /\ table' = table /\ End(j)
        BY <1>2 DEF Preview, Raise
  <2>2. JobsOK'
        BY <2>1, EndKeepsJobs DEF StoreInv
  <2> QED BY <2>1, <2>2, MeaningStays DEF StoreInv
<1> QED BY <1>1, <1>2, ImportKeeps, ReportKeeps, BuildKeeps, ReadSyncedKeeps,
           PersistKeeps, InsertKeeps, ReplaceKeeps DEF Next

(* The rows of holding_snapshots, of every account, calendar, report and   *)
(* number of backfills: what is rebuilt from all the trades is what a      *)
(* rebuild yields now, whole days of it.                                   *)
THEOREM SnapshotInvariant == Spec => []StoreInv
BY StoreInit, StoreStep, PTL DEF Spec

(* The type invariant: a rebuilt row has a positive quantity, no row has a *)
(* copy when the key forbids it.                                           *)
THEOREM SnapshotsAreTyped == Spec => []SnapshotTypeOK
<1>1. StoreInv => SnapshotTypeOK
  <2> SUFFICES ASSUME StoreInv PROVE SnapshotTypeOK
      OBVIOUS
  <2>1. trades \in Seq(Tradable) /\ Len(trades) <= MaxTrades
        BY DEF StoreInv, HistoryOK, TradesOK
  <2>2. Len(trades) \in Nat /\ MaxTrades \in Nat /\ 0..Len(trades) \subseteq 0..MaxTrades
        BY <2>1, SnapshotAssumption DEF SnapshotAssumption
  <2>3. \A r \in table : IsRow(r)
        BY DEF StoreInv, RowsOK
  <2>4. \A j \in Jobs : job[j].pc \in {"idle", "built", "insert", "done"}
        BY DEF StoreInv, JobsOK, JobOK
  <2> QED BY <2>1, <2>2, <2>3, <2>4 DEF SnapshotTypeOK, IsRow
<1> QED BY <1>1, SnapshotInvariant, PTL

(* For every history: a position is what was traded plus the adjustments,  *)
(* and these add up to the least opening holding that explains the trades. *)
THEOREM ShortfallsAlwaysExplain == Spec => []ShortfallsExplain
<1>1. StoreInv => ShortfallsExplain
      BY ShortfallsAreExplained DEF StoreInv, HistoryOK
<1> QED BY <1>1, SnapshotInvariant, PTL

(* For every history without shortfalls: the replay, the reversal from any *)
(* later day and the matches of the trades arrive at the same holdings.    *)
THEOREM HistoriesAlwaysAgree == Spec => []ReconstructionsAgree
<1>1. StoreInv => ReconstructionsAgree
      BY HistoriesAgree DEF StoreInv, HistoryOK
<1> QED BY <1>1, SnapshotInvariant, PTL

-----------------------------------------------------------------------------
(* What a simulation starts with *)

LEMMA LastDayIs ==
  ASSUME NEW D \in SUBSET Days, D # {}
  PROVE  Max(D) \in D
<1> DEFINE T == {n \in Nat : \E d \in D : n = LastDay - d}
<1>1. LastDay \in Nat /\ \A d \in D : d \in 1..LastDay
      BY SnapshotAssumption DEF SnapshotAssumption, Days
<1>2. T # {}
  <2>1. PICK d \in D : TRUE
        OBVIOUS
  <2>2. LastDay - d \in Nat
        BY <1>1
  <2> QED BY <2>2
<1>3. PICK n \in T : \A k \in T : n <= k
  <2> HIDE DEF T
  <2>1. T \in SUBSET Nat
        BY DEF T
  <2> QED BY <1>2, <2>1, LeastNumber
<1>4. PICK d \in D : n = LastDay - d
      BY <1>3
<1>5. \A e \in D : d >= e
  <2> SUFFICES ASSUME NEW e \in D PROVE d >= e
      OBVIOUS
  <2>1. LastDay - e \in T /\ d \in 1..LastDay /\ e \in 1..LastDay
        BY <1>1
  <2>2. LastDay - d <= LastDay - e
        BY <1>3, <1>4, <2>1
  <2> QED BY <1>1, <2>1, <2>2
<1> QED BY <1>5 DEF Max

(* The rows of a day rebuilt from all the trades add up to the positions.  *)
LEMMA QuantityIs ==
  ASSUME HistoryOK, RowsOK(table), Follows(table),
         NEW d, Rebuilds(DayRows(d)), NEW r0 \in table, r0.day = d, NEW s \in Securities
  PROVE  Quantity(DayRows(d), s) = Position(s, d).qty
<1> DEFINE R == {r \in DayRows(d) : r.sec = s}
           q == Position(s, d).qty
<1>1. \A r \in table : r.day = d => Rebuilt(r) /\ Entry(r) \in Forward
      BY DEF Rebuilds, DayRows, Rebuilt, Follows
<1>2. d \in SnapshotDays
  <2>1. Entry(r0).day = d /\ Entry(r0) \in Forward
        BY <1>1 DEF Entry
  <2> HIDE DEF R, q
  <2> QED BY <2>1, ForwardIs DEF HistoryOK
<1>3. ASSUME NEW r \in R
      PROVE  r = Row(s, d, q, Len(trades), 1) /\ q \in Nat \ {0}
  <2>1. r \in table /\ r.day = d /\ r.sec = s
        BY DEF DayRows
  <2>2. /\ Entry(r) \in Forward /\ r.build = Len(trades) /\ r.copy = 1
        /\ r = Row(r.sec, r.day, r.qty, r.build, r.copy)
        BY <1>1, <2>1 DEF RowsOK, IsRow, Rebuilds, DayRows
  <2>3. Entry(r).sec = s /\ Entry(r).day = d /\ Entry(r).qty = r.qty
        BY <2>1 DEF Entry
  <2>4. r.qty = q /\ q \in Nat \ {0}
        BY <2>2, <2>3, ForwardIs DEF HistoryOK
  <2> HIDE DEF q
  <2> QED BY <2>1, <2>2, <2>4
<1>4. CASE q = 0
  <2>1. R = {}
        BY <1>3, <1>4
  <2>2. Quantity(DayRows(d), s) = Total({})
    <3> HIDE DEF q
    <3> QED BY <2>1 DEF Quantity
  <2> QED BY <1>4, <2>2, TotalOfNothing
<1>5. CASE q # 0
  <2>1. [sec |-> s, day |-> d, qty |-> q] \in Forward
        BY <1>2, <1>5, ForwardIs DEF HistoryOK
  <2>2. \A x \in table : x.day = r0.day => Rebuilt(x)
        BY <1>1
  <2>3. \A e \in Forward : e.day = r0.day => \E x \in table : x.day = e.day /\ x.sec = e.sec
        BY <2>2 DEF Follows
  <2> HIDE DEF q
  <2>4. PICK x \in table : x.day = d /\ x.sec = s
        BY <2>1, <2>3
  <2>5. x \in R
        BY <2>4 DEF DayRows
  <2>6. R = {x} /\ x.qty = q /\ q \in Nat
    <3> HIDE DEF R
    <3> QED BY <1>3, <2>5 DEF Row
  <2>7. Total({} \cup {x}) = Total({}) + x.qty
    <3>1. \A r \in {} \cup {x} : r.qty \in Int
          BY <2>6
    <3> QED BY <3>1, TotalOfOneMore, FS_EmptySet
  <2>8. Total({x}) = q
    <3>1. {} \cup {x} = {x} /\ 0 + q = q
          BY <2>6
    <3> QED BY <2>6, <2>7, <3>1, TotalOfNothing
  <2>9. Quantity(DayRows(d), s) = Total(R)
        BY DEF Quantity
  <2> QED BY <2>6, <2>8, <2>9 DEF q
<1> QED BY <1>4, <1>5

LEMMA TradedIsNat ==
  ASSUME TradesOK, NEW side, NEW s, NEW days
  PROVE  Traded(side, s, days) \in Nat
<1> DEFINE On == {i \in DOMAIN trades :
                    trades[i].side = side /\ trades[i].sec = s /\ trades[i].day \in days}
<1>1. Traded(side, s, days) = SumFunctionOnSet(Qty, On)
      BY DEF Traded, Qty
<1>2. On \in SUBSET DOMAIN trades
      OBVIOUS
<1>3. \A i \in DOMAIN trades : Qty[i] \in Nat
      BY TradeIs, AmountsAreInt
<1> HIDE DEF On
<1>4. IsFiniteSet(On) /\ \A i \in On : Qty[i] \in Nat
      BY <1>2, <1>3, TradesAreFinite
<1> QED BY <1>1, <1>4, SumIsNat

(* Who has bought nothing holds nothing. *)
LEMMA NothingBought ==
  ASSUME TradesOK, NoShortfall, NEW s \in Securities, NEW d \in 0..LastDay,
         ~(Traded("BUY", s, 1..d) > 0)
  PROVE  Held(s, d) = 0
<1>1. Held(s, d) \in Nat
      BY NoShortfallIs
<1>2. Traded("BUY", s, 1..d) \in Nat /\ Traded("SELL", s, 1..d) \in Nat
      BY TradedIsNat
<1> QED BY <1>1, <1>2 DEF Held

(* Between days without trades what is held stays. *)
LEMMA HeldStays ==
  ASSUME TradesOK, NEW s, NEW d \in Nat, NEW e \in Nat, d <= e,
         \A i \in DOMAIN trades : trades[i].day \notin (d + 1)..e
  PROVE  Held(s, d) = Held(s, e)
<1>1. \A i \in DOMAIN trades : trades[i].day <= d <=> trades[i].day <= e
      BY TradeIs
<1>2. TradesOf(s, d) = TradesOf(s, e)
      BY <1>1 DEF TradesOf
<1> QED BY <1>2, HeldIsNet

(* What is loaded is of the trades, or of the last day that has rows. *)
LEMMA LoadedIs ==
  ASSUME StoreInv, NEW start \in 1..(LastDay + 1)
  PROVE  LET days == {r.day : r \in {x \in table : x.day < start}} IN
         \/ days = {} /\ Loaded(start) = FromMatches(start)
         \/ /\ days # {}
            /\ \E r0 \in table :
                 /\ r0.day = Max(days) /\ r0.day < start
                 /\ Loaded(start) =
                      IF \A r \in DayRows(r0.day) : r.qty = 0
                      THEN Refused("INITIAL_CAPITAL_EMPTY")
                      ELSE [error |-> "none", day |-> r0.day,
                            qty |-> [s \in Securities |-> Quantity(DayRows(r0.day), s)]]
<1> DEFINE days == {r.day : r \in {x \in table : x.day < start}}
<1>1. CASE days = {}
      BY <1>1 DEF Loaded
<1>2. CASE days # {}
  <2>1. days \in SUBSET Days
        BY DEF StoreInv, RowsOK, IsRow
  <2>2. Max(days) \in days
    <3> HIDE DEF days
    <3> QED BY <1>2, <2>1, LastDayIs
  <2>3. PICK r0 \in table : r0.day = Max(days) /\ r0.day < start
        BY <2>2
  <2>4. Loaded(start) =
          IF \A r \in DayRows(Max(days)) : r.qty = 0 THEN Refused("INITIAL_CAPITAL_EMPTY")
          ELSE [error |-> "none", day |-> Max(days),
                qty |-> [s \in Securities |-> Quantity(DayRows(Max(days)), s)]]
        BY <1>2 DEF Loaded
  <2> HIDE DEF days
  <2> QED BY <1>2, <2>3, <2>4 DEF days
<1> QED BY <1>1, <1>2

(* What the trades before the start leave. *)
LEMMA FromMatchesIsHeld ==
  ASSUME StoreInv, NEW start \in 1..(LastDay + 1)
  PROVE  LET c == FromMatches(start) IN
         /\ c.error # "INITIAL_SNAPSHOT_NOT_BEFORE_START"
         /\ c.error = "none" => c.day = start - 1
         /\ NoShortfall =>
              \A s \in Securities :
                IF c.error = "none" THEN c.qty[s] = Held(s, start - 1) ELSE Held(s, start - 1) = 0
<1> DEFINE c == FromMatches(start)
<1>1. start - 1 \in 0..LastDay /\ start - 1 \in Nat /\ (start - 1) + 1 = start
      BY SnapshotAssumption DEF SnapshotAssumption
<1>2. ASSUME NoShortfall, NEW s \in Securities PROVE Remaining(s, start) = Held(s, start - 1)
  <2>1. Remaining(s, (start - 1) + 1) = Held(s, start - 1)
        BY <1>1, <1>2, RemainingIsHeld DEF StoreInv, HistoryOK
  <2> QED BY <1>1, <2>1
<1>3. CASE ~Bought(start)
  <2>1. c.error = "INITIAL_HOLDINGS_NOT_FOUND"
        BY <1>3 DEF FromMatches, Refused
  <2>2. ASSUME NoShortfall, NEW s \in Securities PROVE Held(s, start - 1) = 0
        BY <1>1, <1>3, <2>2, NothingBought DEF Bought, StoreInv, HistoryOK
  <2> HIDE DEF c
  <2> QED BY <2>1, <2>2 DEF c
<1>4. CASE Bought(start) /\ \A s \in Securities : Remaining(s, start) = 0
  <2>1. c.error = "INITIAL_CAPITAL_EMPTY"
        BY <1>4 DEF FromMatches, Refused
  <2>2. ASSUME NoShortfall, NEW s \in Securities PROVE Held(s, start - 1) = 0
        BY <1>2, <1>4, <2>2
  <2> HIDE DEF c
  <2> QED BY <2>1, <2>2 DEF c
<1>5. CASE Bought(start) /\ ~(\A s \in Securities : Remaining(s, start) = 0)
  <2>1. c = [error |-> "none", day |-> start - 1,
             qty |-> [s \in Securities |-> Remaining(s, start)]]
        BY <1>5 DEF FromMatches
  <2>2. /\ c.error = "none" /\ c.day = start - 1
        /\ \A s \in Securities : c.qty[s] = Remaining(s, start)
        BY <2>1
  <2> HIDE DEF c
  <2> QED BY <1>2, <2>2 DEF c
<1> QED BY <1>3, <1>4, <1>5

(* LoadIsHeld, of every start. *)
LEMMA LoadIsWhatIsHeld == StoreInv => LoadIsHeld
<1> DEFINE days(start) == {r.day : r \in {x \in table : x.day < start}}
           Agrees(c, start) == \A s \in Securities :
             IF c.error = "none" THEN c.qty[s] = Held(s, start - 1) ELSE Held(s, start - 1) = 0
<1> SUFFICES ASSUME StoreInv, NEW start \in 1..(LastDay + 1)
             PROVE  LET c == InitialCapital(start) IN
                    /\ c.error # "INITIAL_SNAPSHOT_NOT_BEFORE_START"
                    /\ NoShortfall /\ (days(start) = {} \/ Settled(Max(days(start)), start)) =>
                         Agrees(c, start)
    BY DEF LoadIsHeld
<1> DEFINE c == Loaded(start)
<1>1. LastDay \in Nat /\ start \in Nat /\ start - 1 \in Nat /\ start - 1 \in 0..LastDay
      BY SnapshotAssumption DEF SnapshotAssumption
<1>2. CASE days(start) = {} /\ c = FromMatches(start)
  <2>1. /\ c.error # "INITIAL_SNAPSHOT_NOT_BEFORE_START"
        /\ c.error = "none" => c.day = start - 1
        /\ NoShortfall => Agrees(c, start)
    <3> HIDE DEF c
    <3> QED BY <1>2, FromMatchesIsHeld
  <2> HIDE DEF c, Agrees
  <2>2. InitialCapital(start) = c
        BY <1>1, <2>1 DEF InitialCapital, c
  <2> QED BY <2>1, <2>2
<1>3. ASSUME NEW r0 \in table, r0.day = Max(days(start)), r0.day < start,
             c = IF \A r \in DayRows(r0.day) : r.qty = 0 THEN Refused("INITIAL_CAPITAL_EMPTY")
                 ELSE [error |-> "none", day |-> r0.day,
                       qty |-> [s \in Securities |-> Quantity(DayRows(r0.day), s)]],
             days(start) # {}
      PROVE  LET k == InitialCapital(start) IN
             /\ k.error # "INITIAL_SNAPSHOT_NOT_BEFORE_START"
             /\ NoShortfall /\ (days(start) = {} \/ Settled(Max(days(start)), start)) =>
                  Agrees(k, start)
  <2>1. r0.day \in Nat /\ r0.day \in 0..LastDay /\ r0.day <= start - 1 /\ ~(r0.day >= start)
    <3>1. r0.day \in Days
          BY DEF StoreInv, RowsOK, IsRow
    <3> QED BY <3>1, <1>1, <1>3 DEF Days
  <2>2. CASE \A r \in DayRows(r0.day) : r.qty = 0
    <3>1. c.error = "INITIAL_CAPITAL_EMPTY"
          BY <1>3, <2>2 DEF Refused
    <3>2. ~Rebuilds(DayRows(r0.day))
      <4>1. r0 \in DayRows(r0.day) /\ r0.qty = 0
            BY <2>2 DEF DayRows
      <4>2. r0.build = Broker
            BY <4>1 DEF StoreInv, RowsOK, IsRow
      <4> QED BY <4>1, <4>2 DEF Rebuilds
    <3> HIDE DEF c, Agrees, days
    <3>3. InitialCapital(start) = c
          BY <3>1 DEF InitialCapital, c
    <3> QED BY <1>3, <3>1, <3>2, <3>3 DEF Settled
  <2>3. CASE ~(\A r \in DayRows(r0.day) : r.qty = 0)
    <3>1. /\ c.error = "none" /\ c.day = r0.day
          /\ \A s \in Securities : c.qty[s] = Quantity(DayRows(r0.day), s)
          BY <1>3, <2>3
    <3>2. ASSUME NoShortfall, Settled(r0.day, start), NEW s \in Securities
          PROVE  Quantity(DayRows(r0.day), s) = Held(s, start - 1)
      <4> USE DEF StoreInv, HistoryOK
      <4>1. Quantity(DayRows(r0.day), s) = Position(s, r0.day).qty
            BY <3>2, QuantityIs DEF Settled
      <4>2. Position(s, r0.day).qty = Held(s, r0.day)
            BY <2>1, <3>2, NoShortfallIs
      <4>3. Held(s, r0.day) = Held(s, start - 1)
            BY <1>1, <2>1, <3>2, HeldStays DEF Settled
      <4> QED BY <4>1, <4>2, <4>3
    <3>3. NoShortfall /\ Settled(r0.day, start) => Agrees(c, start)
      <4> HIDE DEF c
      <4> QED BY <3>1, <3>2
    <3> HIDE DEF c, Agrees, days
    <3>4. InitialCapital(start) = c
          BY <2>1, <3>1 DEF InitialCapital, c
    <3> QED BY <1>3, <3>1, <3>3, <3>4
  <2> QED BY <2>2, <2>3
<1>4. \/ days(start) = {} /\ c = FromMatches(start)
      \/ /\ days(start) # {}
         /\ \E r0 \in table :
              /\ r0.day = Max(days(start)) /\ r0.day < start
              /\ c = IF \A r \in DayRows(r0.day) : r.qty = 0 THEN Refused("INITIAL_CAPITAL_EMPTY")
                     ELSE [error |-> "none", day |-> r0.day,
                           qty |-> [s \in Securities |-> Quantity(DayRows(r0.day), s)]]
      BY LoadedIs
<1> HIDE DEF c, days, Agrees
<1> QED BY <1>2, <1>3, <1>4

(* What a simulation starts with precedes its first day, and is what the   *)
(* account holds just before it: from the trades, or from rows rebuilt     *)
(* from all of them if nothing was traded after their day.                 *)
THEOREM LoadIsAlwaysHeld == Spec => []LoadIsHeld
BY LoadIsWhatIsHeld, SnapshotInvariant, PTL

-----------------------------------------------------------------------------
(* The days that have rows *)

LEMMA ReportKeepsDays ==
  ASSUME NEW day, ReportDay(day), NEW r \in table
  PROVE  \E x \in table' : x.day = r.day
<1>1. PICK report \in Reports :
        table' = {x \in table : x.day # day \/ x.sec \notin DOMAIN report}
                   \cup {Row(s, day, report[s], Broker, 1) : s \in DOMAIN report}
      BY DEF ReportDay
<1>2. CASE r.day # day \/ r.sec \notin DOMAIN report
      BY <1>1, <1>2
<1>3. CASE r.day = day /\ r.sec \in DOMAIN report
  <2>1. Row(r.sec, day, report[r.sec], Broker, 1) \in table'
        BY <1>1, <1>3
  <2> QED BY <2>1, <1>3 DEF Row
<1> QED BY <1>2, <1>3

LEMMA PersistKeepsDays ==
  ASSUME NEW j \in Jobs, Persist(j), NEW r \in table
  PROVE  \E x \in table' : x.day = r.day
<1> DEFINE old == {x \in table : x.copy = 1 /\ \E n \in job[j].rows : x \in Copies(table, n)}
<1>1. table' = (table \ old)
                 \cup {Row(x.sec, x.day, x.qty, job[j].build, 1) : x \in job[j].rows}
      BY DEF Persist
<1>2. CASE r \notin old
      BY <1>1, <1>2
<1>3. CASE r \in old
  <2>1. PICK n \in job[j].rows : n.day = r.day
        BY <1>3 DEF Copies
  <2>2. Row(n.sec, n.day, n.qty, job[j].build, 1) \in table'
        BY <1>1
  <2> QED BY <2>1, <2>2 DEF Row
<1> QED BY <1>2, <1>3

LEMMA ReplaceIsReconstruction ==
  ASSUME StoreInv, NEW j \in Jobs, Replace(j)
  PROVE  table' # {} /\ job[j].pc = "built" /\ Plain(table') = job[j].rows
<1> DEFINE put(r) == Row(r.sec, r.day, r.qty, job[j].build, Cardinality(Copies({}, r)) + 1)
<1>1. job[j].pc = "built" /\ job[j].rows # {} /\ table' = {put(r) : r \in job[j].rows}
      BY DEF Replace, Added
<1>2. ASSUME NEW r \in job[j].rows
      PROVE  [sec |-> put(r).sec, day |-> put(r).day, qty |-> put(r).qty] = r
      BY <1>1, <1>2 DEF StoreInv, JobsOK, JobOK, Carried, Entry, Row
<1> HIDE DEF put
<1> QED BY <1>1, <1>2 DEF Plain

(* The action property of HoldingSnapshots: a day loses its rows only to a *)
(* whole reconstruction, which is not empty.                               *)
THEOREM DaysAreReplacedWhole == Spec => ReplaceIsWhole
<1> DEFINE Whole ==
      (\E r \in table : r.day \notin {x.day : x \in table'}) =>
        /\ table' # {}
        /\ \E j \in Jobs : job[j].pc = "built" /\ Plain(table') = job[j].rows
<1>1. StoreInv /\ [Next]_vars => [Whole]_vars
  <2> SUFFICES ASSUME StoreInv, Next PROVE Whole
      OBVIOUS
  <2>1. CASE table \subseteq table'
        BY <2>1
  <2>2. ASSUME NEW d \in SyncDays, ReportDay(d) PROVE Whole
        BY <2>2, ReportKeepsDays
  <2>3. ASSUME NEW j \in Jobs, Persist(j) PROVE Whole
        BY <2>3, PersistKeepsDays
  <2>4. ASSUME NEW j \in Jobs, Replace(j) PROVE Whole
        BY <2>4, ReplaceIsReconstruction
  <2>5. ASSUME NEW j \in Jobs,
               Build(j) \/ ReadSynced(j) \/ Preview(j) \/ Insert(j) \/ Raise(j)
        PROVE  table \subseteq table'
        BY <2>5 DEF Build, ReadSynced, Preview, Insert, Raise, Added
  <2>6. ImportTrade => table \subseteq table'
        BY DEF ImportTrade
  <2> QED BY <2>1, <2>2, <2>3, <2>4, <2>5, <2>6 DEF Next
<1> QED BY <1>1, SnapshotInvariant, PTL DEF Spec, ReplaceIsWhole
=============================================================================
