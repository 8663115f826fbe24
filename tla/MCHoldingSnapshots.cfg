SPECIFICATION Spec
CONSTANTS
  alpha = alpha
  beta = beta
  j1 = j1
  Securities = {alpha, beta}
  LastDay = 3
  Tradable <- MCTradable
  MaxTrades = 3
  MaxCopies = 2
  Calendars <- MCCalendars
  SyncDays = {1, 3}
  Reports <- MCReports
  Jobs = {j1}
INVARIANTS SnapshotTypeOK ReconstructionsAgree ShortfallsExplain LoadIsHeld
PROPERTIES ReplaceIsWhole
CHECK_DEADLOCK FALSE
