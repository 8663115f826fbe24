--------------------------- MODULE SimulationRun ---------------------------
(***************************************************************************)
(* The life of a simulation run: POST /run resolves its inputs, looks for  *)
(* a completed run that already answers the question, otherwise reserves a *)
(* RUNNING row and queues the rest on a bounded thread pool; a worker      *)
(* computes, persists in two transactions and reports.  Any stage may      *)
(* raise, the process may be shut down or die, and the rows survive it.    *)
(* The report, the in-memory cache and the readers are ReportNarrative's,  *)
(* which extends this module and completes the actions that touch them.    *)
(***************************************************************************)
EXTENDS Naturals, Sequences, FiniteSets

CONSTANTS
  Requests,      \* POST /run calls; each is made once
  Conditions,    \* (user, period, initial capital) combinations
  Participants,  \* participant types a client may ask for
  PersonalBot,   \* the one that needs a compiled bot
  Workers,       \* SIMULATION_RUN_WORKERS
  Faults,        \* the stages that may raise
  MaxRuns,       \* bound: rows AUTO_INCREMENT may hand out
  MaxBots,       \* bound: personal bots compiled meanwhile
  MaxRestarts    \* bound: process deaths

FaultPoints == {"lookup", "reserve", "load", "compute", "save", "complete",
                "report", "saveReport", "schedule", "respond", "mark",
                "loadDetail", "enrich"}

ASSUME RunAssumption ==
  /\ Workers \in Nat \ {0}
  /\ MaxRuns \in Nat /\ MaxBots \in Nat /\ MaxRestarts \in Nat
  /\ Faults \subseteq FaultPoints
  /\ Conditions # {}

Runs == 1..MaxRuns

VARIABLES
  row,       \* simulation_runs.run_status, "ABSENT" before the INSERT
  results,   \* variants, trades and daily performance committed?
  asked,     \* the question the row was reserved for
  nextRun,   \* AUTO_INCREMENT
  bot,       \* newest personal_bot_versions row of the user, 0: none
  job,       \* stage of the run's job
  queue,     \* the executor's work queue
  req,       \* POST /run calls: stage, question, run
  server,    \* "up", or "draining" after the shutdown hook
  restarts

dbVars   == <<row, results, asked, nextRun>>
hostVars == <<server, restarts>>
vars     == <<row, results, asked, nextRun, bot, job, queue, req, server, restarts>>

Statuses == {"ABSENT", "RUNNING", "COMPLETED", "FAILED"}
Busy     == {"load", "compute", "save", "complete", "report", "saveReport",
             "schedule", "respond", "fail"}
InFlight == Busy \cup {"queued"}
Stages   == InFlight \cup {"none", "done", "unmarked", "lost"}
Answered == {"completed", "accepted", "refused"}
ReqPCs   == {"idle", "check", "hit", "reserve", "submit"} \cup Answered

Question == [cond : Conditions, parts : SUBSET Participants, bot : 0..MaxBots]
NoQuestion == [cond |-> CHOOSE c \in Conditions : TRUE, parts |-> {}, bot |-> 0]

Init ==
  /\ row = [r \in Runs |-> "ABSENT"]
  /\ results = [r \in Runs |-> FALSE]
  /\ asked = [r \in Runs |-> NoQuestion]
  /\ nextRun = 1
  /\ bot = 0
  /\ job = [r \in Runs |-> "none"]
  /\ queue = <<>>
  /\ req = [q \in Requests |-> [pc |-> "idle", ask |-> NoQuestion, run |-> 0]]
  /\ server = "up"
  /\ restarts = 0

Goto(q, from, to) == req[q].pc = from /\ req' = [req EXCEPT ![q].pc = to]
TakeRun(q, to, r) == req' = [req EXCEPT ![q] = [@ EXCEPT !.pc = to, !.run = r]]
Advance(r, from, to) == job[r] = from /\ job' = [job EXCEPT ![r] = to]

-----------------------------------------------------------------------------
(* run_sync_phase, in the request's own thread *)

(* Resolve account, capital and bot.  Without a compiled bot the personal   *)
(* bot is dropped from the participants unless the client named a bot.      *)
Resolve(q) ==
  /\ server = "up"
  /\ req[q].pc = "idle"
  /\ \E c \in Conditions, P \in SUBSET Participants :
       LET kept == IF bot = 0 THEN P \ {PersonalBot} ELSE P IN
       /\ kept # {}
       /\ \E b \in (IF PersonalBot \in kept THEN 1..bot ELSE {0}) :
            req' = [req EXCEPT ![q] = [pc |-> "check", run |-> 0,
                      ask |-> [cond |-> c, parts |-> kept, bot |-> b]]]
  /\ UNCHANGED <<dbVars, bot, job, queue, hostVars>>

(* INVALID_PERIOD, INVALID_PARTICIPANT_TYPE, an unknown account or bot id,  *)
(* NO_RUNNABLE_PARTICIPANTS: 422, and nothing was written.                  *)
Refuse(q) ==
  /\ server = "up"
  /\ Goto(q, "idle", "refused")
  /\ UNCHANGED <<dbVars, bot, job, queue, hostVars>>

(* Mutant: the bot that the stored run used is not compared. *)
ReusableAnyBot(r, ask) ==
  /\ row[r] = "COMPLETED" /\ asked[r].cond = ask.cond
  /\ ask.parts \subseteq asked[r].parts
  /\ results[r]

(* Only the newest completed run under the same conditions is considered. *)
Reusable(r, ask) ==
  /\ row[r] = "COMPLETED" /\ asked[r].cond = ask.cond
  /\ \A s \in Runs : row[s] = "COMPLETED" /\ asked[s].cond = ask.cond => s <= r
  /\ ask.parts \subseteq asked[r].parts
  /\ PersonalBot \in ask.parts => asked[r].bot = ask.bot
  /\ results[r]

LookupHit(q) ==
  /\ req[q].pc = "check"
  /\ \E r \in Runs :
       /\ Reusable(r, req[q].ask)
       /\ TakeRun(q, "hit", r)
  /\ UNCHANGED <<dbVars, bot, job, queue, hostVars>>

(* find_existing_simulation_from_db answers None to every exception, so a  *)
(* failed lookup is a miss.                                                *)
LookupMiss(q) ==
  /\ "lookup" \in Faults \/ \A r \in Runs : ~Reusable(r, req[q].ask)
  /\ Goto(q, "check", "reserve")
  /\ UNCHANGED <<dbVars, bot, job, queue, hostVars>>

ServeHit(q) ==
  /\ Goto(q, "hit", "completed")
  /\ UNCHANGED <<dbVars, bot, job, queue, hostVars>>

(* Mutant: the id of the inserted row is not handed on. *)
ReserveForgetsId(q) ==
  /\ req[q].pc = "reserve"
  /\ nextRun <= MaxRuns
  /\ row' = [row EXCEPT ![nextRun] = "RUNNING"]
  /\ asked' = [asked EXCEPT ![nextRun] = req[q].ask]
  /\ nextRun' = nextRun + 1
  /\ req' = [req EXCEPT ![q].pc = "submit"]
  /\ UNCHANGED <<results, bot, job, queue, hostVars>>

Reserve(q) ==
  /\ req[q].pc = "reserve"
  /\ nextRun <= MaxRuns
  /\ row' = [row EXCEPT ![nextRun] = "RUNNING"]
  /\ asked' = [asked EXCEPT ![nextRun] = req[q].ask]
  /\ nextRun' = nextRun + 1
  /\ TakeRun(q, "submit", nextRun)
  /\ UNCHANGED <<results, bot, job, queue, hostVars>>

(* No ACTIVE principle set, or the INSERT failed: rolled back, 500. *)
ReserveFails(q) ==
  /\ "reserve" \in Faults
  /\ Goto(q, "reserve", "refused")
  /\ UNCHANGED <<dbVars, bot, job, queue, hostVars>>

Submit(q) ==
  /\ Goto(q, "submit", "accepted")
  /\ queue' = Append(queue, req[q].run)
  /\ job' = [job EXCEPT ![req[q].run] = "queued"]
  /\ UNCHANGED <<dbVars, bot, hostVars>>

-----------------------------------------------------------------------------
(* run_async_phase, in one of the pool's threads *)

StartJob ==
  /\ queue # <<>>
  /\ Cardinality({r \in Runs : job[r] \in Busy}) < Workers
  /\ Advance(Head(queue), "queued", "load")
  /\ queue' = Tail(queue)
  /\ UNCHANGED <<dbVars, bot, req, hostVars>>

LoadData(r) ==
  /\ Advance(r, "load", "compute")
  /\ UNCHANGED <<dbVars, bot, queue, req, hostVars>>

(* Backtest, Monte Carlo and analytics: processor only, no shared state. *)
Compute(r) ==
  /\ Advance(r, "compute", "save")
  /\ UNCHANGED <<dbVars, bot, queue, req, hostVars>>

(* Mutant: the two transactions are swapped. *)
SaveStatusFirst(r) ==
  /\ Advance(r, "save", "complete")
  /\ row' = [row EXCEPT ![r] = "COMPLETED"]
  /\ UNCHANGED <<results, asked, nextRun, bot, queue, req, hostVars>>

(* First commit: variants, orders, trades, daily performance, analytics. *)
SaveResults(r) ==
  /\ Advance(r, "save", "complete")
  /\ results' = [results EXCEPT ![r] = TRUE]
  /\ UNCHANGED <<row, asked, nextRun, bot, queue, req, hostVars>>

(* Second commit, a transaction of its own: run_status = COMPLETED. *)
SaveCompleted(r) ==
  /\ Advance(r, "complete", "report")
  /\ row' = [row EXCEPT ![r] = "COMPLETED"]
  /\ UNCHANGED <<results, asked, nextRun, bot, queue, req, hostVars>>

(* The save's own handler rolls back, tries to set FAILED, and re-raises. *)
SaveRaises(r) ==
  /\ \E stage \in {"save", "complete"} \cap Faults : Advance(r, stage, "fail")
  /\ \/ row' = [row EXCEPT ![r] = "FAILED"]
     \/ "mark" \in Faults /\ UNCHANGED row
  /\ UNCHANGED <<results, asked, nextRun, bot, queue, req, hostVars>>

BuildReport(r) ==
  /\ Advance(r, "report", "saveReport")
  /\ UNCHANGED <<dbVars, bot, queue, req, hostVars>>

SaveReport(r) ==
  /\ Advance(r, "saveReport", "schedule")
  /\ UNCHANGED <<dbVars, bot, queue, req, hostVars>>

ScheduleNarrative(r) ==
  /\ Advance(r, "schedule", "respond")
  /\ UNCHANGED <<dbVars, bot, queue, req, hostVars>>

BuildResponse(r) ==
  /\ Advance(r, "respond", "done")
  /\ UNCHANGED <<dbVars, bot, queue, req, hostVars>>

(* Mutant: the exception leaves the job without reaching the handler. *)
RaiseUnhandled(r) ==
  /\ \E stage \in {"load", "compute", "report", "schedule", "respond"} \cap Faults :
       Advance(r, stage, "done")
  /\ UNCHANGED <<dbVars, bot, queue, req, hostVars>>

(* Any other stage raises; saving the report answers False instead. *)
Raise(r) ==
  /\ \E stage \in {"load", "compute", "report", "schedule", "respond"} \cap Faults :
       Advance(r, stage, "fail")
  /\ UNCHANGED <<dbVars, bot, queue, req, hostVars>>

(* Mutant: the marking is not committed. *)
MarkUncommitted(r) ==
  /\ Advance(r, "fail", "done")
  /\ UNCHANGED <<dbVars, bot, queue, req, hostVars>>

MarkFailed(r) ==
  /\ Advance(r, "fail", "done")
  /\ row' = [row EXCEPT ![r] = "FAILED"]
  /\ UNCHANGED <<results, asked, nextRun, bot, queue, req, hostVars>>

(* The failure of the marking itself is only logged. *)
MarkRaises(r) ==
  /\ "mark" \in Faults
  /\ Advance(r, "fail", "unmarked")
  /\ UNCHANGED <<dbVars, bot, queue, req, hostVars>>

-----------------------------------------------------------------------------
(* The process *)

(* The shutdown hook runs once the server has drained its connections: the *)
(* jobs that no worker has taken are cancelled, those running go on.       *)
Shutdown ==
  /\ server = "up" /\ restarts < MaxRestarts
  /\ \A q \in Requests : req[q].pc \in {"idle"} \cup Answered
  /\ server' = "draining"
  /\ queue' = <<>>
  /\ job' = [r \in Runs |-> IF job[r] = "queued" THEN "lost" ELSE job[r]]
  /\ UNCHANGED <<dbVars, bot, req, restarts>>

(* The process ends, at a shutdown or by a crash, and a new one starts: it *)
(* finds the rows and nothing else, and takes none of them up again.       *)
Restart ==
  /\ restarts < MaxRestarts
  /\ restarts' = restarts + 1
  /\ server' = "up"
  /\ queue' = <<>>
  /\ job' = [r \in Runs |->
               IF job[r] \in InFlight \/ (job[r] = "none" /\ row[r] # "ABSENT")
               THEN "lost" ELSE job[r]]
  /\ req' = [q \in Requests |->
               IF req[q].pc \in {"idle"} \cup Answered THEN req[q]
               ELSE [req[q] EXCEPT !.pc = "refused"]]
  /\ UNCHANGED <<dbVars, bot>>

(* POST /bots/compile finishes meanwhile (module CompileJob). *)
CompileBot ==
  /\ bot < MaxBots
  /\ bot' = bot + 1
  /\ UNCHANGED <<dbVars, job, queue, req, hostVars>>

-----------------------------------------------------------------------------
RequestStep(q) ==
  \/ LookupHit(q) \/ LookupMiss(q) \/ ServeHit(q)
  \/ Reserve(q) \/ ReserveFails(q) \/ Submit(q)

JobStep(r) ==
  \/ LoadData(r) \/ Compute(r) \/ SaveResults(r) \/ SaveCompleted(r)
  \/ SaveRaises(r) \/ BuildReport(r) \/ SaveReport(r)
  \/ ScheduleNarrative(r) \/ BuildResponse(r) \/ Raise(r)
  \/ MarkFailed(r) \/ MarkRaises(r)

Next ==
  \/ \E q \in Requests : Resolve(q) \/ Refuse(q) \/ RequestStep(q)
  \/ StartJob
  \/ \E r \in Runs : JobStep(r)
  \/ Shutdown \/ Restart \/ CompileBot

(* Threads that have work run; clients, crashes and compiles owe nothing. *)
Fairness ==
  /\ \A q \in Requests : WF_vars(RequestStep(q))
  /\ WF_vars(StartJob)
  /\ \A r \in Runs : WF_vars(JobStep(r))

Spec == Init /\ [][Next]_vars /\ Fairness

-----------------------------------------------------------------------------
TypeOK ==
  /\ row \in [Runs -> Statuses]
  /\ results \in [Runs -> BOOLEAN]
  /\ asked \in [Runs -> Question]
  /\ nextRun \in 1..(MaxRuns + 1)
  /\ bot \in 0..MaxBots
  /\ job \in [Runs -> Stages]
  /\ queue \in Seq(Runs)
  /\ req \in [Requests -> [pc : ReqPCs, ask : Question, run : 0..MaxRuns]]
  /\ server \in {"up", "draining"}
  /\ restarts \in 0..MaxRestarts

(* A row that says RUNNING is somebody's to settle: a request thread about *)
(* to submit it, the queue, or a worker, whatever raised on the way.  Only *)
(* the death of the process, or of the marking itself, may orphan it       *)
(* (run_async_phase's except block, mark_simulation_run_failed).           *)
RunningIsOwned ==
  \A r \in Runs : row[r] = "RUNNING" =>
    \/ \E q \in Requests : req[q].pc = "submit" /\ req[q].run = r
    \/ job[r] \in InFlight
    \/ job[r] \in {"lost", "unmarked"}

(* A client answered COMPLETED by the cache was given a run whose rows are *)
(* committed and which answers its question: the same conditions, at least *)
(* its participants, the bot it resolved to, whatever was compiled, stored *)
(* or failed in between (find_existing_simulation_from_db, _check_cache).  *)
HitServesQuestion ==
  \A q \in Requests : req[q].pc = "completed" =>
    LET r == req[q].run IN
    /\ row[r] \in {"COMPLETED", "FAILED"} /\ results[r]
    /\ asked[r].cond = req[q].ask.cond
    /\ req[q].ask.parts \subseteq asked[r].parts
    /\ PersonalBot \in req[q].ask.parts => asked[r].bot = req[q].ask.bot

(* The polled status and the readable results move as ResultBoard says:    *)
(* results before COMPLETED, FAILED final (save_simulation_run_to_db,      *)
(* mark_simulation_run_failed, reserve_simulation_run_to_db).              *)
Board == INSTANCE ResultBoard WITH board <- row, readable <- results
ImplementsBoard == Board!BoardSpec

(* Every RUNNING row is settled, whatever stage raises, as long as its     *)
(* process and the marking of the failure live (run_async_phase).          *)
RunSettlesInProcess ==
  \A r \in Runs :
    row[r] = "RUNNING" ~> \/ row[r] \in {"COMPLETED", "FAILED"}
                          \/ job[r] \in {"lost", "unmarked"}

(* README, Failure State Persistence: a client never polls RUNNING for     *)
(* ever; an exception at any stage ends in FAILED.                         *)
RunSettles ==
  \A r \in Runs : row[r] = "RUNNING" ~> row[r] \in {"COMPLETED", "FAILED"}
=============================================================================
