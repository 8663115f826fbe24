----------------------------- MODULE MCDailyBatch -----------------------------
(* Two processes; two filings of a listed company, one of them a periodic  *)
(* report, and one of a company that is not in the master table.  With one *)
(* model call the first two are too many for one day.                      *)
EXTENDS DailyBatch
CONSTANTS annual, notice, foreign, listed, other

MCReportName == [f \in Filings |-> IF f = notice THEN notice ELSE annual]
MCCompany == [f \in Filings |-> IF f = foreign THEN other ELSE listed]
=============================================================================
