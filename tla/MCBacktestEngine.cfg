SPECIFICATION Spec
CONSTANTS
  Actual = actual
  Bots = {bot}
  Universe = {s1}
  Quotes <- MCQuotes
  NoQuote = NoQuote
  Quantities = {1, 2}
  Spread = 1
  Fees = {2}
  Capital = 5
  Endowment = 1
  Days = 3
  MaxOrders = 3
INVARIANTS
  TypeOK
  BotsStayFunded
  DepositsAreEqual
  DepositsAreBooked
  PeakIgnoresDeposits
  EveryOrderAuditedOnce
  FillsFollowSignals
  AuditsExplainHoldings
CHECK_DEADLOCK FALSE
