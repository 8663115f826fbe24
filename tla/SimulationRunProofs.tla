------------------------ MODULE SimulationRunProofs ------------------------
(***************************************************************************)
(* Theorems about SimulationRun, for every number of requests, runs,       *)
(* workers and restarts and every set of faults: type correctness, the     *)
(* ownership of RUNNING rows, what a cache hit may answer, and that the    *)
(* pipeline implements ResultBoard.                                        *)
(***************************************************************************)
EXTENDS SimulationRun, TLAPS

-----------------------------------------------------------------------------
(* The strengthening that makes the safety properties inductive *)

(* AUTO_INCREMENT has handed out the ids below nextRun and no other. *)
RowsAhead == \A r \in Runs : r >= nextRun => row[r] = "ABSENT"

(* No job exists for a row that does not. *)
NoEarlyJob == \A r \in Runs : row[r] = "ABSENT" => job[r] = "none"

(* Which status a row has at each stage of its job. *)
JobMatchesRow ==
  \A r \in Runs :
    /\ job[r] \in {"queued", "load", "compute", "save", "complete"} => row[r] = "RUNNING"
    /\ job[r] \in {"complete", "report", "saveReport", "schedule", "respond"} => results[r]
    /\ job[r] \in {"report", "saveReport", "schedule", "respond"} => row[r] = "COMPLETED"

(* A request about to submit holds a fresh RUNNING row, alone. *)
SubmitHoldsRow ==
  \A q \in Requests : req[q].pc = "submit" =>
    /\ req[q].run \in Runs
    /\ row[req[q].run] = "RUNNING"
    /\ job[req[q].run] = "none"
    /\ \A p \in Requests : req[p].pc = "submit" /\ req[p].run = req[q].run => p = q

(* A row calls itself COMPLETED only with its results committed. *)
CompletedHasResults == \A r \in Runs : row[r] = "COMPLETED" => results[r]

(* The run found by the lookup goes on answering the question. *)
Answers(r, ask) ==
  /\ row[r] \in {"COMPLETED", "FAILED"} /\ results[r]
  /\ asked[r].cond = ask.cond
  /\ ask.parts \subseteq asked[r].parts
  /\ PersonalBot \in ask.parts => asked[r].bot = ask.bot

HitAnswers ==
  \A q \in Requests : req[q].pc \in {"hit", "completed"} =>
    req[q].run \in Runs /\ Answers(req[q].run, req[q].ask)

RunInv ==
  /\ TypeOK
  /\ RowsAhead
  /\ NoEarlyJob
  /\ JobMatchesRow
  /\ SubmitHoldsRow
  /\ CompletedHasResults
  /\ RunningIsOwned
  /\ HitAnswers
-----------------------------------------------------------------------------
(* Type correctness *)

(* A question without participants, for some conditions, is a question. *)
LEMMA NoQuestionType == NoQuestion \in Question
  BY RunAssumption DEF NoQuestion, Question, RunAssumption

(* The initial state is well-typed. *)
LEMMA InitTypeOK == Init => TypeOK
  BY NoQuestionType, RunAssumption
  DEF Init, TypeOK, Runs, Statuses, Stages, InFlight, Busy, ReqPCs, Answered, RunAssumption

(* A request moved to a stage, and to a run, is a request. *)
LEMMA TakeRunType ==
  ASSUME TypeOK, NEW q \in Requests, NEW pc \in ReqPCs, NEW r \in 0..MaxRuns,
         TakeRun(q, pc, r)
  PROVE  req' \in [Requests -> [pc : ReqPCs, ask : Question, run : 0..MaxRuns]]
<1> DEFINE Req == [pc : ReqPCs, ask : Question, run : 0..MaxRuns]
<1>1. req \in [Requests -> Req]
  BY DEF TypeOK
<1>2. [req[q] EXCEPT !.pc = pc, !.run = r] \in Req
  BY <1>1
<1> QED BY <1>1, <1>2 DEF TakeRun

(* Every step of a request keeps the types: the question it forms, the id  *)
(* it takes from the counter, the queue it appends to.                     *)
LEMMA RequestTypeOK ==
  ASSUME TypeOK, SubmitHoldsRow, NEW q \in Requests,
         Resolve(q) \/ Refuse(q) \/ RequestStep(q)
  PROVE  TypeOK'
<1> USE RunAssumption DEF TypeOK, RunAssumption, dbVars, hostVars
<1>1. CASE Resolve(q)
  <2>1. PICK c \in Conditions, P \in SUBSET Participants :
          LET kept == IF bot = 0 THEN P \ {PersonalBot} ELSE P IN
          \E b \in (IF PersonalBot \in kept THEN 1..bot ELSE {0}) :
            req' = [req EXCEPT ![q] = [pc |-> "check", run |-> 0,
                      ask |-> [cond |-> c, parts |-> kept, bot |-> b]]]
    BY <1>1 DEF Resolve
  <2> DEFINE kept == IF bot = 0 THEN P \ {PersonalBot} ELSE P
  <2>2. PICK b \in (IF PersonalBot \in kept THEN 1..bot ELSE {0}) :
            req' = [req EXCEPT ![q] = [pc |-> "check", run |-> 0,
                      ask |-> [cond |-> c, parts |-> kept, bot |-> b]]]
    BY <2>1
  <2> DEFINE asks == [cond |-> c, parts |-> kept, bot |-> b]
  <2>3. b \in 0..MaxBots
    OBVIOUS
  <2>4. kept \in SUBSET Participants
    OBVIOUS
  <2>5. asks \in Question
    BY <2>3, <2>4 DEF Question
  <2>6. req' = [req EXCEPT ![q] = [pc |-> "check", run |-> 0, ask |-> asks]]
    BY <2>2
  <2> HIDE DEF kept, asks
  <2>7. [pc |-> "check", run |-> 0, ask |-> asks]
          \in [pc : ReqPCs, ask : Question, run : 0..MaxRuns]
    BY <2>5 DEF ReqPCs
  <2> QED BY <1>1, <2>6, <2>7 DEF Resolve
<1>2. CASE Refuse(q)
  BY <1>2 DEF Refuse, Goto, ReqPCs, Answered
<1>3. CASE LookupHit(q)
  BY <1>3, TakeRunType DEF LookupHit, ReqPCs, Runs
<1>4. CASE LookupMiss(q)
  BY <1>4 DEF LookupMiss, Goto, ReqPCs
<1>5. CASE ServeHit(q)
  BY <1>5 DEF ServeHit, Goto, ReqPCs, Answered
<1>6. CASE Reserve(q)
  <2>1. nextRun \in 0..MaxRuns /\ nextRun \in Runs
    BY <1>6 DEF Reserve, Runs
  <2>2. req' \in [Requests -> [pc : ReqPCs, ask : Question, run : 0..MaxRuns]]
    BY <1>6, <2>1, TakeRunType DEF Reserve, ReqPCs
  <2>3. row' \in [Runs -> Statuses] /\ nextRun' \in 1..(MaxRuns + 1)
    BY <1>6, <2>1 DEF Reserve, Statuses
  <2>4. asked' \in [Runs -> Question]
    BY <1>6, <2>1 DEF Reserve
  <2> QED BY <1>6, <2>2, <2>3, <2>4 DEF Reserve
<1>7. CASE ReserveFails(q)
  BY <1>7 DEF ReserveFails, Goto, ReqPCs, Answered
<1>8. CASE Submit(q)
  <2>1. req[q].run \in Runs
    BY <1>8 DEF Submit, Goto, SubmitHoldsRow
  <2>2. queue' \in Seq(Runs) /\ job' \in [Runs -> Stages]
    BY <1>8, <2>1 DEF Submit, Stages, InFlight
  <2>3. req' \in [Requests -> [pc : ReqPCs, ask : Question, run : 0..MaxRuns]]
    BY <1>8 DEF Submit, Goto, ReqPCs, Answered
  <2> QED BY <1>8, <2>2, <2>3 DEF Submit
<1> QED BY <1>1, <1>2, <1>3, <1>4, <1>5, <1>6, <1>7, <1>8 DEF RequestStep

(* Every stage of a job, and every failure in it, keeps the types. *)
LEMMA JobTypeOK ==
  ASSUME TypeOK, NEW r \in Runs, JobStep(r)
  PROVE  TypeOK'
<1> USE DEF TypeOK, dbVars, hostVars, Advance
<1>1. CASE LoadData(r) \/ Compute(r) \/ BuildReport(r) \/ SaveReport(r)
           \/ ScheduleNarrative(r) \/ BuildResponse(r)
  BY <1>1 DEF LoadData, Compute, BuildReport, SaveReport, ScheduleNarrative,
              BuildResponse, Stages, InFlight, Busy
<1>2. CASE SaveResults(r) \/ SaveCompleted(r)
  BY <1>2 DEF SaveResults, SaveCompleted, Stages, InFlight, Busy, Statuses
<1>3. CASE SaveRaises(r) \/ Raise(r)
  BY <1>3 DEF SaveRaises, Raise, Stages, InFlight, Busy, Statuses
<1>4. CASE MarkFailed(r) \/ MarkRaises(r)
  BY <1>4 DEF MarkFailed, MarkRaises, Stages, Statuses
<1> QED BY <1>1, <1>2, <1>3, <1>4 DEF JobStep

(* Dispatching, shutting down, restarting and compiling keep the types. *)
LEMMA ProcessTypeOK ==
  ASSUME TypeOK, StartJob \/ Shutdown \/ Restart \/ CompileBot
  PROVE  TypeOK'
<1> USE RunAssumption DEF TypeOK, dbVars, hostVars, RunAssumption
<1>1. CASE StartJob
  <2>1. Tail(queue) \in Seq(Runs)
    BY <1>1 DEF StartJob
  <2>2. job' \in [Runs -> Stages]
    BY <1>1 DEF StartJob, Advance, Stages, InFlight, Busy
  <2> QED BY <1>1, <2>1, <2>2 DEF StartJob
<1>2. CASE Shutdown
  BY <1>2 DEF Shutdown, Stages
<1>3. CASE Restart
  <2>1. job' \in [Runs -> Stages]
    BY <1>3 DEF Restart, Stages
  <2>2. req' \in [Requests -> [pc : ReqPCs, ask : Question, run : 0..MaxRuns]]
    BY <1>3 DEF Restart, ReqPCs, Answered
  <2> QED BY <1>3, <2>1, <2>2 DEF Restart
<1>4. CASE CompileBot
  BY <1>4 DEF CompileBot
<1> QED BY <1>1, <1>2, <1>3, <1>4

-----------------------------------------------------------------------------
(* The safety invariant *)

(* The initial state satisfies the strengthened invariant. *)
LEMMA InitRunInv == Init => RunInv
  BY InitTypeOK
  DEF Init, RunInv, RowsAhead, NoEarlyJob, JobMatchesRow, SubmitHoldsRow,
      CompletedHasResults, RunningIsOwned, HitAnswers

(* A request preserves it: a lookup finds what it needs, a reservation     *)
(* opens a fresh row, and a submission hands that row to the queue.        *)
LEMMA RequestRunInv ==
  ASSUME RunInv, NEW q \in Requests, Resolve(q) \/ Refuse(q) \/ RequestStep(q)
  PROVE  RunInv'
<1> USE DEF RunInv, dbVars, hostVars
<1>1. TypeOK'
  BY RequestTypeOK
<1>2. CASE Resolve(q) \/ Refuse(q) \/ LookupMiss(q) \/ ReserveFails(q)
  <2>1. /\ UNCHANGED <<dbVars, bot, job, queue, hostVars>>
        /\ req'[q].pc \notin {"submit", "hit", "completed"}
        /\ req[q].pc # "submit"
        /\ \A p \in Requests : p # q => req'[p] = req[p]
    BY <1>2 DEF TypeOK, Resolve, Refuse, LookupMiss, ReserveFails, Goto
  <2>2. RowsAhead' /\ NoEarlyJob' /\ JobMatchesRow' /\ CompletedHasResults'
    BY <2>1 DEF RowsAhead, NoEarlyJob, JobMatchesRow, CompletedHasResults
  <2>3. SubmitHoldsRow'
    BY <2>1 DEF SubmitHoldsRow
  <2>4. RunningIsOwned'
    BY <2>1 DEF RunningIsOwned
  <2>5. HitAnswers'
    BY <2>1 DEF HitAnswers, Answers
  <2> QED BY <1>1, <2>2, <2>3, <2>4, <2>5
<1>3. CASE LookupHit(q) \/ ServeHit(q)
  <2>1. /\ UNCHANGED <<dbVars, bot, job, queue, hostVars>>
        /\ req'[q].pc \in {"hit", "completed"}
        /\ req[q].pc # "submit"
        /\ req'[q].run \in Runs /\ Answers(req'[q].run, req'[q].ask)
        /\ \A p \in Requests : p # q => req'[p] = req[p]
    <3>1. CASE LookupHit(q)
      <4>1. PICK r \in Runs : Reusable(r, req[q].ask) /\ TakeRun(q, "hit", r)
        BY <3>1 DEF LookupHit
      <4>2. Answers(r, req[q].ask)
        BY <4>1 DEF Reusable, Answers
      <4>3. /\ req'[q] = [req[q] EXCEPT !.pc = "hit", !.run = r]
            /\ \A p \in Requests : p # q => req'[p] = req[p]
        BY <4>1 DEF TypeOK, TakeRun
      <4>4. req'[q].pc = "hit" /\ req'[q].run = r /\ req'[q].ask = req[q].ask
        BY <4>3 DEF TypeOK
      <4>5. Answers(req'[q].run, req'[q].ask)
        BY <4>2, <4>4
      <4> QED BY <3>1, <4>3, <4>4, <4>5 DEF LookupHit
    <3>2. CASE ServeHit(q)
      BY <3>2 DEF TypeOK, ServeHit, Goto, HitAnswers
    <3> QED BY <1>3, <3>1, <3>2
  <2>2. RowsAhead' /\ NoEarlyJob' /\ JobMatchesRow' /\ CompletedHasResults'
    BY <2>1 DEF RowsAhead, NoEarlyJob, JobMatchesRow, CompletedHasResults
  <2>3. SubmitHoldsRow'
    BY <2>1 DEF SubmitHoldsRow
  <2>4. RunningIsOwned'
    BY <2>1 DEF RunningIsOwned
  <2>5. HitAnswers'
    BY <2>1 DEF HitAnswers, Answers
  <2> QED BY <1>1, <2>2, <2>3, <2>4, <2>5
<1>4. CASE Reserve(q)
  <2>1. /\ nextRun \in Runs /\ row[nextRun] = "ABSENT" /\ job[nextRun] = "none"
        /\ row' = [row EXCEPT ![nextRun] = "RUNNING"]
        /\ asked' = [asked EXCEPT ![nextRun] = req[q].ask]
        /\ nextRun' = nextRun + 1
        /\ req'[q].pc = "submit" /\ req'[q].run = nextRun /\ req[q].pc = "reserve"
        /\ \A p \in Requests : p # q => req'[p] = req[p]
        /\ UNCHANGED <<results, bot, job, queue, hostVars>>
    BY <1>4, RunAssumption DEF TypeOK, Reserve, TakeRun, RowsAhead, NoEarlyJob, Runs, RunAssumption
  <2>2. /\ row'[nextRun] = "RUNNING"
        /\ \A s \in Runs \ {nextRun} : row'[s] = row[s] /\ asked'[s] = asked[s]
    BY <2>1 DEF TypeOK
  <2>3. RowsAhead'
    <3>1. nextRun \in Nat /\ Runs \subseteq Nat
      BY RunAssumption DEF TypeOK, Runs, RunAssumption
    <3> SUFFICES ASSUME NEW r \in Runs, r >= nextRun + 1
                 PROVE  row'[r] = "ABSENT"
      BY <2>1 DEF RowsAhead
    <3>2. r # nextRun /\ r >= nextRun
      BY <3>1
    <3> QED BY <2>2, <3>2 DEF RowsAhead
  <2>4. NoEarlyJob'
    BY <2>1, <2>2 DEF NoEarlyJob
  <2>5. JobMatchesRow' /\ CompletedHasResults'
    BY <2>1, <2>2 DEF JobMatchesRow, CompletedHasResults
  <2>6. SubmitHoldsRow'
    <3> SUFFICES ASSUME NEW p \in Requests, req'[p].pc = "submit"
                 PROVE  /\ req'[p].run \in Runs
                        /\ row'[req'[p].run] = "RUNNING"
                        /\ job'[req'[p].run] = "none"
                        /\ \A o \in Requests : req'[o].pc = "submit" /\ req'[o].run = req'[p].run
                                              => o = p
      BY DEF SubmitHoldsRow
    <3>1. \A o \in Requests \ {q} : req'[o].pc = "submit" =>
            req'[o] = req[o] /\ req[o].run # nextRun
      BY <2>1 DEF SubmitHoldsRow
    <3>2. CASE p = q
      BY <2>1, <2>2, <3>1, <3>2
    <3>3. CASE p # q
      BY <2>1, <2>2, <3>1, <3>3 DEF SubmitHoldsRow
    <3> QED BY <3>2, <3>3
  <2>7. RunningIsOwned'
    BY <2>1, <2>2 DEF RunningIsOwned
  <2>8. HitAnswers'
    BY <2>1, <2>2 DEF HitAnswers, Answers
  <2> QED BY <1>1, <2>3, <2>4, <2>5, <2>6, <2>7, <2>8
<1>5. CASE Submit(q)
  <2> DEFINE r == req[q].run
  <2>1. /\ r \in Runs /\ row[r] = "RUNNING" /\ job[r] = "none"
        /\ job' = [job EXCEPT ![r] = "queued"]
        /\ req[q].pc = "submit"
        /\ req'[q].pc = "accepted"
        /\ \A p \in Requests : p # q => req'[p] = req[p]
        /\ \A p \in Requests : p # q /\ req[p].pc = "submit" => req[p].run # r
        /\ UNCHANGED <<dbVars, bot, hostVars>>
    BY <1>5 DEF TypeOK, Submit, Goto, SubmitHoldsRow
  <2> HIDE DEF r
  <2>2. RowsAhead' /\ NoEarlyJob' /\ JobMatchesRow' /\ CompletedHasResults'
    BY <2>1 DEF RowsAhead, NoEarlyJob, JobMatchesRow, CompletedHasResults, TypeOK
  <2>3. SubmitHoldsRow'
    <3>1. \A p \in Requests : req'[p].pc = "submit" =>
            p # q /\ req'[p] = req[p] /\ req[p].pc = "submit"
      BY <2>1
    <3>2. \A p \in Requests : req'[p].pc = "submit" =>
            /\ req[p].run \in Runs /\ row'[req[p].run] = "RUNNING"
            /\ job'[req[p].run] = "none"
      BY <2>1, <3>1 DEF SubmitHoldsRow, TypeOK
    <3> QED BY <3>1, <3>2 DEF SubmitHoldsRow
  <2>4. RunningIsOwned'
    BY <2>1 DEF RunningIsOwned, TypeOK, InFlight, r
  <2>5. HitAnswers'
    BY <2>1 DEF HitAnswers, Answers
  <2> QED BY <1>1, <2>2, <2>3, <2>4, <2>5
<1> QED BY <1>2, <1>3, <1>4, <1>5 DEF RequestStep

(* A job preserves it: it touches its own row and stage only, and leaves   *)
(* the row settled whenever it ends in "done".                             *)
LEMMA JobRunInv ==
  ASSUME RunInv, NEW r \in Runs, JobStep(r)
  PROVE  RunInv'
<1> USE DEF RunInv
<1>1. TypeOK'
  BY JobTypeOK
<1>2. /\ UNCHANGED <<asked, nextRun, bot, queue, req, hostVars>>
      /\ \A s \in Runs \ {r} :
           row'[s] = row[s] /\ results'[s] = results[s] /\ job'[s] = job[s]
      /\ job[r] \in Busy
  <2> USE DEF TypeOK, dbVars, hostVars, Advance, Busy
  <2>1. CASE LoadData(r) \/ Compute(r) \/ SaveResults(r) \/ SaveCompleted(r)
    BY <2>1 DEF LoadData, Compute, SaveResults, SaveCompleted
  <2>2. CASE SaveRaises(r) \/ Raise(r) \/ MarkFailed(r) \/ MarkRaises(r)
    BY <2>2 DEF SaveRaises, Raise, MarkFailed, MarkRaises
  <2>3. CASE BuildReport(r) \/ SaveReport(r) \/ ScheduleNarrative(r) \/ BuildResponse(r)
    BY <2>3 DEF BuildReport, SaveReport, ScheduleNarrative, BuildResponse
  <2> QED BY <2>1, <2>2, <2>3 DEF JobStep
<1>3. row[r] # "ABSENT" /\ job[r] # "none" /\ job[r] # "lost" /\ job[r] # "unmarked"
  BY <1>2 DEF NoEarlyJob, Busy
(* What the step does to the job's own row, whatever the step. *)
<1>4. /\ row'[r] # "ABSENT" /\ job'[r] # "none" /\ job'[r] # "queued"
      /\ job'[r] \in {"load", "compute", "save", "complete"} => row'[r] = "RUNNING"
      /\ job'[r] \in {"complete", "report", "saveReport", "schedule", "respond"} => results'[r]
      /\ job'[r] \in {"report", "saveReport", "schedule", "respond"} => row'[r] = "COMPLETED"
      /\ row'[r] = "COMPLETED" => results'[r]
      /\ row'[r] = "RUNNING" => job'[r] \in InFlight \cup {"lost", "unmarked"}
      /\ row[r] \in {"COMPLETED", "FAILED"} => row'[r] \in {"COMPLETED", "FAILED"}
      /\ results[r] => results'[r]
  <2> USE <1>3 DEF TypeOK, dbVars, Advance, JobMatchesRow, CompletedHasResults, InFlight, Busy, Statuses
  <2>1. CASE LoadData(r) \/ Compute(r)
    BY <2>1 DEF LoadData, Compute
  <2>2. CASE SaveResults(r)
    BY <2>2 DEF SaveResults
  <2>3. CASE SaveCompleted(r)
    BY <2>3 DEF SaveCompleted
  <2>4. CASE SaveRaises(r)
    BY <2>4 DEF SaveRaises
  <2>5. CASE BuildReport(r) \/ SaveReport(r) \/ ScheduleNarrative(r)
    BY <2>5 DEF BuildReport, SaveReport, ScheduleNarrative
  <2>6. CASE BuildResponse(r)
    BY <2>6 DEF BuildResponse
  <2>7. CASE Raise(r)
    BY <2>7 DEF Raise
  <2>8. CASE MarkFailed(r)
    BY <2>8 DEF MarkFailed
  <2>9. CASE MarkRaises(r)
    BY <2>9 DEF MarkRaises
  <2> QED BY <2>1, <2>2, <2>3, <2>4, <2>5, <2>6, <2>7, <2>8, <2>9 DEF JobStep
<1>5. RowsAhead' /\ NoEarlyJob'
  BY <1>2, <1>3, <1>4 DEF RowsAhead, NoEarlyJob
<1>6. JobMatchesRow' /\ CompletedHasResults'
  BY <1>2, <1>4 DEF JobMatchesRow, CompletedHasResults
<1>7. SubmitHoldsRow'
  BY <1>2, <1>3 DEF SubmitHoldsRow
<1>8. RunningIsOwned'
  BY <1>2, <1>4 DEF RunningIsOwned
<1>9. HitAnswers'
  BY <1>2, <1>4 DEF HitAnswers, Answers
<1> QED BY <1>1, <1>5, <1>6, <1>7, <1>8, <1>9

(* Dispatch, shutdown, restart and compilation preserve it: no row changes,*)
(* and a job that is not done becomes "lost", never "done".                *)
LEMMA ProcessRunInv ==
  ASSUME RunInv, StartJob \/ Shutdown \/ Restart \/ CompileBot
  PROVE  RunInv'
<1> USE DEF RunInv
<1>1. TypeOK'
  BY ProcessTypeOK
<1>2. UNCHANGED dbVars
  BY DEF StartJob, Shutdown, Restart, CompileBot
<1>3. \A r \in Runs :
        \/ job'[r] = job[r]
        \/ job[r] = "queued" /\ job'[r] = "load"
        \/ job'[r] = "lost" /\ row[r] # "ABSENT"
  <2>1. CASE StartJob
    BY <2>1 DEF StartJob, Advance, TypeOK
  <2>2. CASE Shutdown
    BY <2>2 DEF Shutdown, NoEarlyJob
  <2>3. CASE Restart
    BY <2>3 DEF Restart, NoEarlyJob, InFlight, Busy
  <2>4. CASE CompileBot
    BY <2>4 DEF CompileBot
  <2> QED BY <2>1, <2>2, <2>3, <2>4
<1>4. \A q \in Requests : req'[q] = req[q] \/ req'[q].pc = "refused"
  BY DEF StartJob, Shutdown, Restart, CompileBot, TypeOK
<1>5. RowsAhead' /\ NoEarlyJob' /\ JobMatchesRow' /\ CompletedHasResults'
  BY <1>2, <1>3 DEF RowsAhead, NoEarlyJob, JobMatchesRow, CompletedHasResults, dbVars
(* A request about to submit survives no restart, and nothing else takes   *)
(* its row's job away.                                                     *)
<1>6. \A q \in Requests : req'[q].pc = "submit" =>
        req'[q] = req[q] /\ job'[req[q].run] = job[req[q].run]
  <2> SUFFICES ASSUME NEW q \in Requests, req'[q].pc = "submit"
               PROVE  req'[q] = req[q] /\ job'[req[q].run] = job[req[q].run]
    OBVIOUS
  <2>0. req'[q] = req[q] /\ req[q].run \in Runs /\ job[req[q].run] = "none"
    BY <1>4 DEF SubmitHoldsRow
  <2>1. CASE StartJob
    BY <2>0, <2>1 DEF StartJob, Advance, TypeOK
  <2>2. CASE Shutdown
    BY <2>0, <2>2 DEF Shutdown
  <2>3. CASE Restart
    BY <2>0, <2>3 DEF Restart, TypeOK, Answered
  <2>4. CASE CompileBot
    BY <2>0, <2>4 DEF CompileBot
  <2> QED BY <2>1, <2>2, <2>3, <2>4
<1>7. SubmitHoldsRow'
  BY <1>2, <1>6 DEF SubmitHoldsRow, dbVars
<1>8. RunningIsOwned'
  <2> SUFFICES ASSUME NEW r \in Runs, row[r] = "RUNNING"
               PROVE  \/ \E q \in Requests : req'[q].pc = "submit" /\ req'[q].run = r
                      \/ job'[r] \in InFlight \cup {"lost", "unmarked"}
    BY <1>2 DEF RunningIsOwned, dbVars
  <2>1. CASE job[r] \in InFlight \cup {"lost", "unmarked"}
    BY <2>1, <1>3 DEF InFlight, Busy
  <2>2. CASE \E q \in Requests : req[q].pc = "submit" /\ req[q].run = r
    <3>1. PICK q \in Requests : req[q].pc = "submit" /\ req[q].run = r
      BY <2>2
    <3>2. CASE StartJob \/ Shutdown \/ CompileBot
      BY <3>1, <3>2 DEF StartJob, Shutdown, CompileBot
    <3>3. CASE Restart
      BY <3>1, <3>3 DEF Restart, SubmitHoldsRow
    <3> QED BY <3>2, <3>3
  <2> QED BY <2>1, <2>2 DEF RunningIsOwned
<1>9. HitAnswers'
  BY <1>2, <1>4 DEF HitAnswers, Answers, dbVars
<1> QED BY <1>1, <1>5, <1>7, <1>8, <1>9

(* No step at all changes nothing. *)
LEMMA StutterRunInv ==
  ASSUME RunInv, UNCHANGED vars
  PROVE  RunInv'
  BY DEF RunInv, vars, dbVars, hostVars, TypeOK, RowsAhead, NoEarlyJob, JobMatchesRow,
         SubmitHoldsRow, CompletedHasResults, RunningIsOwned, HitAnswers, Answers

-----------------------------------------------------------------------------
(* The strengthened invariant is inductive. *)
LEMMA NextRunInv == RunInv /\ [Next]_vars => RunInv'
  BY RequestRunInv, JobRunInv, ProcessRunInv, StutterRunInv DEF Next

(* The strengthened invariant holds in every state of every behaviour.     *)
THEOREM RunInvariant == Spec => []RunInv
  BY InitRunInv, NextRunInv, PTL DEF Spec

(* Type correctness: every row, job, queue entry and request is what its   *)
(* column or variable may hold, for any number of requests and runs.       *)
THEOREM TypeCorrect == Spec => []TypeOK
<1>1. RunInv => TypeOK
  BY DEF RunInv
<1> QED BY <1>1, RunInvariant, PTL

(* No exception path forgets a RUNNING row: run_async_phase's handler, the *)
(* save's own handler and the hand-over from request to queue to worker    *)
(* leave every RUNNING row with somebody who will settle it, except where  *)
(* the process, or the marking of the failure, dies.                       *)
THEOREM RunningRowsAreOwned == Spec => []RunningIsOwned
<1>1. RunInv => RunningIsOwned
  BY DEF RunInv
<1> QED BY <1>1, RunInvariant, PTL

(* A POST /run answered COMPLETED from stored results was given a run that *)
(* answers its question, for any number of concurrent runs and failures.   *)
THEOREM HitsServeTheQuestion == Spec => []HitServesQuestion
<1>1. RunInv => HitServesQuestion
  BY DEF RunInv, HitAnswers, Answers, HitServesQuestion
<1> QED BY <1>1, RunInvariant, PTL

-----------------------------------------------------------------------------
(* The pipeline implements the board *)

(* A request's step opens a run or leaves the board alone. *)
LEMMA RequestRefines ==
  ASSUME RunInv, NEW q \in Requests, Resolve(q) \/ Refuse(q) \/ RequestStep(q)
  PROVE  [Board!BoardNext]_<<row, results>>
<1>1. CASE Reserve(q)
  <2>1. nextRun \in Runs /\ row[nextRun] = "ABSENT"
    BY <1>1, RunAssumption DEF RunInv, TypeOK, RowsAhead, Reserve, Runs, RunAssumption
  <2>2. Board!Open(nextRun)
    BY <1>1, <2>1 DEF Reserve, Board!Open
  <2> QED BY <2>1, <2>2 DEF Board!BoardNext
<1>2. CASE ~Reserve(q)
  BY <1>2 DEF RequestStep, Resolve, Refuse, LookupHit, LookupMiss, ServeHit,
              ReserveFails, Submit, dbVars
<1> QED BY <1>1, <1>2

(* A job's step publishes, completes, fails or leaves the board alone. *)
LEMMA JobRefines ==
  ASSUME RunInv, NEW r \in Runs, JobStep(r)
  PROVE  [Board!BoardNext]_<<row, results>>
<1> USE DEF RunInv, JobMatchesRow, Advance
<1>1. CASE SaveResults(r)
  <2>1. Board!Publish(r)
    BY <1>1 DEF SaveResults, Board!Publish
  <2> QED BY <2>1 DEF Board!BoardNext
<1>2. CASE SaveCompleted(r)
  <2>1. Board!Complete(r)
    BY <1>2 DEF SaveCompleted, Board!Complete
  <2> QED BY <2>1 DEF Board!BoardNext
<1>3. CASE SaveRaises(r)
  <2>1. row[r] = "RUNNING"
    BY <1>3 DEF SaveRaises
  <2>2. Board!Fail(r) \/ UNCHANGED <<row, results>>
    BY <1>3, <2>1 DEF SaveRaises, Board!Fail
  <2> QED BY <2>2 DEF Board!BoardNext
<1>4. CASE MarkFailed(r)
  <2>1. row[r] \in {"RUNNING", "COMPLETED", "FAILED"}
    BY <1>4 DEF MarkFailed, NoEarlyJob, TypeOK, Statuses
  <2>2. CASE row[r] = "FAILED"
    BY <1>4, <2>2 DEF MarkFailed, TypeOK
  <2>3. CASE row[r] # "FAILED"
    <3>1. Board!Fail(r)
      BY <1>4, <2>1, <2>3 DEF MarkFailed, Board!Fail
    <3> QED BY <3>1 DEF Board!BoardNext
  <2> QED BY <2>2, <2>3
<1>5. CASE \/ LoadData(r) \/ Compute(r) \/ BuildReport(r) \/ SaveReport(r)
           \/ ScheduleNarrative(r) \/ BuildResponse(r) \/ Raise(r) \/ MarkRaises(r)
  BY <1>5 DEF LoadData, Compute, BuildReport, SaveReport, ScheduleNarrative,
              BuildResponse, Raise, MarkRaises, dbVars
<1> QED BY <1>1, <1>2, <1>3, <1>4, <1>5 DEF JobStep

(* So does every other step leave it alone. *)
LEMMA NextRefines == RunInv /\ [Next]_vars => [Board!BoardNext]_<<row, results>>
<1> SUFFICES ASSUME RunInv, [Next]_vars
             PROVE  [Board!BoardNext]_<<row, results>>
  OBVIOUS
<1>1. CASE UNCHANGED vars
  BY <1>1 DEF vars
<1>2. CASE StartJob \/ Shutdown \/ Restart \/ CompileBot
  BY <1>2 DEF StartJob, Shutdown, Restart, CompileBot, dbVars
<1> QED BY <1>1, <1>2, RequestRefines, JobRefines DEF Next

(* What a client polls follows ResultBoard: a run is opened once, its      *)
(* results are committed before it is COMPLETED, and FAILED is final -     *)
(* whatever interleaving, exception, shutdown or crash occurs.             *)
THEOREM ImplementsResultBoard == Spec => ImplementsBoard
<1>1. Init => Board!BoardInit
  BY DEF Init, Board!BoardInit
<1> QED BY <1>1, NextRefines, RunInvariant, PTL
        DEF Spec, ImplementsBoard, Board!BoardSpec, Board!boardVars
=============================================================================
