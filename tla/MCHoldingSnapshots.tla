-------------------------- MODULE MCHoldingSnapshots --------------------------
(* Two securities, three days; prices for all days but one, or from the    *)
(* second day on.                                                          *)
EXTENDS HoldingSnapshots, TLC

CONSTANTS alpha, beta, j1

Trade(sec, side, day, qty) == [sec |-> sec, side |-> side, day |-> day, qty |-> qty]
MCTradable ==
  {Trade(alpha, "BUY", d, 2) : d \in 1..3} \cup {Trade(alpha, "SELL", d, 1) : d \in 1..3}
    \cup {Trade(alpha, "SELL", d, 2) : d \in 2..3}
    \cup {Trade(beta, "BUY", 1, 1), Trade(beta, "SELL", 2, 1)}
MCCalendars == {{<<alpha, 1>>, <<beta, 1>>, <<alpha, 3>>}, {<<alpha, 2>>, <<beta, 2>>, <<beta, 3>>}}
MCReports == {(alpha :> 1) @@ (beta :> 0)}
=============================================================================
