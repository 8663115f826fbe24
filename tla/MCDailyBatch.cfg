SPECIFICATION Spec
CONSTANTS
  annual = annual
  notice = notice
  foreign = foreign
  listed = listed
  other = other
  Workers = {w1, w2}
  Filings = {annual, notice, foreign}
  Company <- MCCompany
  ReportName <- MCReportName
  Securities = {listed}
  Periodic = {annual, foreign}
  PageSize = 2
  CallLimit = 1
  Faults = {"connect", "fetch", "analysis", "reports", "session", "process"}
  MaxDate = 2
  MaxStarts = 2
  NoWorker = NoWorker
INVARIANTS BatchTypeOK OneBatchAtATime
PROPERTIES TimelyFilingStored
CHECK_DEADLOCK FALSE
