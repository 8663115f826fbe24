--------------------------- MODULE MCSimulationRun ---------------------------
(* Model-checking constants of SimulationRun. *)
EXTENDS SimulationRun

AllFaults == FaultPoints

(* Every stage may raise, only the marking of the failure may not. *)
StageFaults == FaultPoints \ {"mark"}
=============================================================================
