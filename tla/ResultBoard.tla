---------------------------- MODULE ResultBoard ----------------------------
(***************************************************************************)
(* What POST /run and GET /{id}/status promise a polling client, with the  *)
(* queue, the workers, the request threads and the process itself hidden:  *)
(* a run is opened once, its results are published before it is called    *)
(* COMPLETED, and FAILED is the last word.                                 *)
(***************************************************************************)
CONSTANT Runs

VARIABLES
  board,      \* run -> the status the client polls
  readable    \* run -> are its result rows committed?

boardVars == <<board, readable>>

BoardInit ==
  /\ board = [r \in Runs |-> "ABSENT"]
  /\ readable = [r \in Runs |-> FALSE]

Open(r) ==
  /\ board[r] = "ABSENT"
  /\ board' = [board EXCEPT ![r] = "RUNNING"]
  /\ UNCHANGED readable

Publish(r) ==
  /\ board[r] = "RUNNING"
  /\ readable' = [readable EXCEPT ![r] = TRUE]
  /\ UNCHANGED board

Complete(r) ==
  /\ board[r] = "RUNNING"
  /\ readable[r]
  /\ board' = [board EXCEPT ![r] = "COMPLETED"]
  /\ UNCHANGED readable

(* A run may fail after it was COMPLETED: the report is built later. *)
Fail(r) ==
  /\ board[r] \in {"RUNNING", "COMPLETED"}
  /\ board' = [board EXCEPT ![r] = "FAILED"]
  /\ UNCHANGED readable

BoardNext == \E r \in Runs : Open(r) \/ Publish(r) \/ Complete(r) \/ Fail(r)

BoardSpec == BoardInit /\ [][BoardNext]_boardVars
=============================================================================
