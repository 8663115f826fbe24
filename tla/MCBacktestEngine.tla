-------------------------- MODULE MCBacktestEngine --------------------------
(* Model-checking constants of BacktestEngine: one price that rises during  *)
(* the day and one that falls.                                              *)
EXTENDS BacktestEngine

MCQuotes == {[open |-> 2, close |-> 3], [open |-> 3, close |-> 1]}
=============================================================================
