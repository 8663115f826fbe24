-------------------------- MODULE NarrativeProofs --------------------------
(***************************************************************************)
(* Theorems about ReportNarrative, for every number of requests, runs,     *)
(* readers, narrative threads and restarts: with the cache, the readers    *)
(* and the narratives around it the run service behaves as SimulationRun   *)
(* says, one narrative at a time works on a run and nothing uncommitted is *)
(* served from the cache, whatever raises; a scheduled narrative is alive  *)
(* where threads can be started, and comes after its deterministic report  *)
(* where the report column can be written.                                 *)
(***************************************************************************)
EXTENDS ReportNarrative, SimulationRunProofs

-----------------------------------------------------------------------------
(* The strengthening *)

ThreadState ==
  [pc : {"idle", "call", "save", "fetch", "publish", "clear"},
   run : 0..MaxRuns, held : BOOLEAN]
ReaderState ==
  [pc : {"idle", "load", "store", "have", "attach", "schedule"},
   kind : {"detail", "report"}, run : 0..MaxRuns, held : BOOLEAN, val : Reports]

(* Whoever works on a run has its id in the set, and works on it alone. *)
ThreadInv ==
  /\ thread \in [Threads -> ThreadState]
  /\ inProgress \subseteq Runs
  /\ \A t \in Threads : thread[t].pc # "idle" => thread[t].run \in inProgress
  /\ OneNarrativeAtATime

(* An entry that somebody holds is in the cache; what is in the cache, or  *)
(* about to be stored there, has its results committed.                    *)
ThreadsHoldEntries ==
  \A t \in Threads : thread[t].held =>
    thread[t].pc # "idle" /\ cache[thread[t].run] # "absent"
ReadersHoldEntries ==
  \A x \in Readers :
    /\ reader[x].pc # "idle" => reader[x].run \in Runs
    /\ reader[x].held => reader[x].pc # "idle" /\ cache[reader[x].run] # "absent"
StoresAreBacked ==
  \A x \in Readers : reader[x].pc = "store" => results[reader[x].run]

CacheTyped ==
  /\ report \in [Runs -> Reports]
  /\ cache \in [Runs -> Reports \cup {"absent"}]
  /\ reader \in [Readers -> ReaderState]
  /\ snap \in [Requests -> Reports]
CacheInv ==
  /\ CacheTyped
  /\ ThreadsHoldEntries /\ ReadersHoldEntries
  /\ StoresAreBacked /\ CacheIsBacked

NarrativeInv == RunInv /\ ThreadInv /\ CacheInv

-----------------------------------------------------------------------------
(* The run service is still SimulationRun *)

(* Readers and narrative threads leave its state alone, and each of its    *)
(* actions is one of SimulationRun's.                                      *)
LEMMA StepsOfRun ==
  ASSUME [NarrativeNext]_allVars
  PROVE  [Next]_vars
<1>1. CASE \E q \in Requests : RequestStepAll(q)
  BY <1>1 DEF RequestStepAll, HitWithReport, CacheHit, Next, RequestStep
<1>2. CASE \E r \in Runs : JobStepAll(r)
  BY <1>2 DEF JobStepAll, StoreReport, JobSchedules, JobRaises, CacheResponse, Next, JobStep
<1>3. CASE RunOnly \/ StartJobAll \/ DrainAndShutdown \/ RestartAll
  BY <1>3 DEF RunOnly, StartJobAll, DrainAndShutdown, RestartAll, Next
<1>4. CASE \E t \in Threads : ThreadStep(t)
  BY <1>4 DEF ThreadStep, CallModel, SaveEnriched, FetchEntry, PublishEnriched, ClearInProgress
<1>5. CASE \E x \in Readers : ReaderStep(x)
  BY <1>5 DEF ReaderStep, LoadDetail, StoreDetail, AnswerReport, RebuildReport,
              AttachReport, ReaderSchedules
<1>6. CASE \E x \in Readers, r \in Runs, kind \in {"detail", "report"} : OpenDetail(x, r, kind)
  BY <1>6 DEF OpenDetail
<1>7. CASE UNCHANGED allVars
  BY <1>7 DEF allVars
<1> QED
  BY <1>1, <1>2, <1>3, <1>4, <1>5, <1>6, <1>7 DEF NarrativeNext

LEMMA RunInvStep ==
  ASSUME RunInv, [NarrativeNext]_allVars
  PROVE  RunInv'
BY StepsOfRun, NextRunInv

(* Committed results stay. *)
LEMMA ResultsStay ==
  ASSUME RunInv, [Next]_vars, NEW r \in Runs, results[r]
  PROVE  results'[r]
<1>1. CASE \E s \in Runs : JobStep(s)
  <2>1. PICK s \in Runs : JobStep(s)
    BY <1>1
  <2>2. results' = results \/ results' = [results EXCEPT ![s] = TRUE]
    BY <2>1 DEF JobStep, LoadData, Compute, SaveResults, SaveCompleted, SaveRaises,
         BuildReport, SaveReport, ScheduleNarrative, BuildResponse, Raise, MarkFailed,
         MarkRaises, dbVars
  <2> QED
    BY <2>2 DEF RunInv, TypeOK
<1>2. CASE \/ \E q \in Requests : Resolve(q) \/ Refuse(q) \/ RequestStep(q)
           \/ StartJob \/ Shutdown \/ Restart \/ CompileBot
  BY <1>2 DEF Resolve, Refuse, RequestStep, LookupHit, LookupMiss, ServeHit, Reserve,
       ReserveFails, Submit, StartJob, Shutdown, Restart, CompileBot, dbVars
<1>3. CASE UNCHANGED vars
  BY <1>3 DEF vars
<1> QED
  BY <1>1, <1>2, <1>3 DEF Next

-----------------------------------------------------------------------------
(* Narrative threads and the set *)

(* What a step may do to the threads and the set. *)
SameThreads ==
  /\ \A t \in Threads :
       thread'[t].run = thread[t].run /\ (thread'[t].pc = "idle" <=> thread[t].pc = "idle")
  /\ UNCHANGED inProgress
Begins(r) ==
  /\ r \notin inProgress /\ inProgress' = inProgress \cup {r}
  /\ \E t \in Threads :
       /\ thread[t].pc = "idle"
       /\ thread' = [thread EXCEPT ![t] = [pc |-> "call", run |-> r, held |-> FALSE]]
Leaks(r) == "schedule" \in Faults /\ inProgress' = inProgress \cup {r} /\ UNCHANGED thread
Ends(t) ==
  /\ thread[t].pc = "clear" /\ inProgress' = inProgress \ {thread[t].run}
  /\ thread' = [thread EXCEPT ![t] = IdleThread]
Dies ==
  /\ inProgress' = {} /\ thread' = [t \in Threads |-> IdleThread]

ThreadsMove ==
  \/ SameThreads \/ Dies
  \/ \E r \in Runs : Begins(r) \/ Leaks(r)
  \/ \E t \in Threads : Ends(t)

(* Scheduling a run begins a thread unless one is at it. *)
LEMMA ScheduleMoves ==
  ASSUME NEW r \in Runs, ScheduleEnrichment(r) \/ ScheduleRaises(r)
  PROVE  ThreadsMove
BY DEF ScheduleEnrichment, ScheduleRaises, ThreadsMove, SameThreads, Begins, Leaks

(* Replacing an entry takes it out of the threads' hands, no more. *)
LEMMA DropMoves ==
  ASSUME ThreadInv, NEW r, UNCHANGED inProgress,
         thread' = [t \in Threads |->
           IF thread[t].run = r THEN [thread[t] EXCEPT !.held = FALSE] ELSE thread[t]]
  PROVE  SameThreads /\ thread' \in [Threads -> ThreadState]
<1>1. \A t \in Threads : thread[t] \in ThreadState
  BY DEF ThreadInv
<1> QED
  BY <1>1 DEF SameThreads, ThreadState

(* The threads' own steps. *)
LEMMA ThreadStepMoves ==
  ASSUME ThreadInv, NEW t \in Threads, ThreadStep(t)
  PROVE  ThreadsMove /\ thread' \in [Threads -> ThreadState]
<1>0. thread[t] \in ThreadState
  BY DEF ThreadInv
<1>1. CASE CallModel(t) \/ SaveEnriched(t) \/ PublishEnriched(t)
  BY <1>0, <1>1 DEF CallModel, SaveEnriched, PublishEnriched, ThreadGoto, ThreadInv,
       ThreadState, ThreadsMove, SameThreads
<1>2. CASE FetchEntry(t)
  BY <1>0, <1>2 DEF FetchEntry, ThreadInv, ThreadState, ThreadsMove, SameThreads
<1>3. CASE ClearInProgress(t)
  <2>1. IdleThread \in ThreadState
    BY RunAssumption DEF IdleThread, ThreadState, RunAssumption
  <2> QED
    BY <1>3, <2>1 DEF ClearInProgress, ThreadInv, ThreadsMove, Ends
<1> QED
  BY <1>1, <1>2, <1>3 DEF ThreadStep

(* A scheduled run is one, so the threads keep their type. *)
LEMMA ScheduleTyped ==
  ASSUME ThreadInv, NEW r \in Runs, ScheduleEnrichment(r) \/ ScheduleRaises(r)
  PROVE  thread' \in [Threads -> ThreadState]
<1>1. [pc |-> "call", run |-> r, held |-> FALSE] \in ThreadState
  BY RunAssumption DEF ThreadState, Runs, RunAssumption
<1> QED
  BY <1>1 DEF ThreadInv, ScheduleEnrichment, ScheduleRaises

(* A reader's step schedules the run it reads, replaces an entry, or       *)
(* leaves the threads alone.                                               *)
LEMMA ReaderStepMoves ==
  ASSUME ThreadInv, ReadersHoldEntries, NEW x \in Readers, ReaderStep(x)
  PROVE  ThreadsMove /\ thread' \in [Threads -> ThreadState]
<1>1. CASE LoadDetail(x) \/ RebuildReport(x) \/ AttachReport(x)
  BY <1>1 DEF LoadDetail, RebuildReport, AttachReport, ThreadsMove, SameThreads, ThreadInv
<1>2. CASE StoreDetail(x)
  BY <1>2, DropMoves DEF StoreDetail, ThreadsMove
<1>3. CASE AnswerReport(x)
  <2>1. reader[x].run \in Runs
    BY <1>3 DEF AnswerReport, ReadersHoldEntries
  <2>2. CASE Held(x) = "PENDING"
    BY <1>3, <2>1, <2>2, ScheduleMoves, ScheduleTyped DEF AnswerReport
  <2>3. CASE Held(x) # "PENDING"
    BY <1>3, <2>3 DEF AnswerReport, ThreadsMove, SameThreads, ThreadInv
  <2> QED
    BY <2>2, <2>3
<1>4. CASE ReaderSchedules(x)
  <2>1. reader[x].run \in Runs
    BY <1>4 DEF ReaderSchedules, ReadersHoldEntries
  <2> QED
    BY <1>4, <2>1, ScheduleMoves, ScheduleTyped DEF ReaderSchedules
<1> QED
  BY <1>1, <1>2, <1>3, <1>4 DEF ReaderStep

(* A job schedules its own run. *)
LEMMA JobStepMoves ==
  ASSUME ThreadInv, NEW r \in Runs, JobStepAll(r)
  PROVE  ThreadsMove /\ thread' \in [Threads -> ThreadState]
<1>1. CASE JobSchedules(r)
  BY <1>1, ScheduleMoves, ScheduleTyped DEF JobSchedules
<1>2. CASE JobRaises(r)
  <2>1. CASE job[r] = "schedule"
    BY <1>2, <2>1, ScheduleMoves, ScheduleTyped DEF JobRaises
  <2>2. CASE job[r] # "schedule"
    BY <1>2, <2>2 DEF JobRaises, ThreadsMove, SameThreads, ThreadInv
  <2> QED
    BY <2>1, <2>2
<1>3. CASE CacheResponse(r)
  BY <1>3, DropMoves DEF CacheResponse, Replace, ThreadsMove
<1>4. CASE ~JobSchedules(r) /\ ~JobRaises(r) /\ ~CacheResponse(r)
  BY <1>4 DEF JobStepAll, StoreReport, narrativeVars, ThreadsMove, SameThreads, ThreadInv
<1> QED
  BY <1>1, <1>2, <1>3, <1>4

(* Every step moves the threads in one of these ways. *)
LEMMA StepMoves ==
  ASSUME ThreadInv, ReadersHoldEntries, [NarrativeNext]_allVars
  PROVE  ThreadsMove /\ thread' \in [Threads -> ThreadState]
<1>1. CASE UNCHANGED narrativeVars
  BY <1>1 DEF narrativeVars, ThreadsMove, SameThreads, ThreadInv
<1>2. ASSUME NEW q \in Requests, RequestStepAll(q)
      PROVE  ThreadsMove /\ thread' \in [Threads -> ThreadState]
  <2>1. CASE CacheHit(q)
    BY <2>1, DropMoves DEF CacheHit, Replace, ThreadsMove
  <2>2. CASE ~CacheHit(q)
    BY <1>2, <2>2 DEF RequestStepAll, HitWithReport, narrativeVars, ThreadsMove, SameThreads,
         ThreadInv
  <2> QED
    BY <2>1, <2>2
<1>3. CASE RestartAll
  <2>1. IdleThread \in ThreadState
    BY RunAssumption DEF IdleThread, ThreadState, RunAssumption
  <2> QED
    BY <1>3, <2>1 DEF RestartAll, ThreadsMove, Dies
<1>4. ASSUME NEW x \in Readers, NEW r \in Runs, NEW kind \in {"detail", "report"},
             OpenDetail(x, r, kind)
      PROVE  ThreadsMove /\ thread' \in [Threads -> ThreadState]
  BY <1>4 DEF OpenDetail, ThreadsMove, SameThreads, ThreadInv
<1>5. CASE RunOnly \/ StartJobAll \/ DrainAndShutdown
  BY <1>1, <1>5 DEF RunOnly, StartJobAll, DrainAndShutdown
<1>6. CASE UNCHANGED allVars
  BY <1>1, <1>6 DEF allVars
<1> QED
  BY <1>2, <1>3, <1>4, <1>5, <1>6, ThreadStepMoves, ReaderStepMoves, JobStepMoves
     DEF NarrativeNext

(* None of these ways lets two threads at a run. *)
LEMMA ThreadInvStep ==
  ASSUME ThreadInv, ThreadsMove, thread' \in [Threads -> ThreadState]
  PROVE  ThreadInv'
<1> USE DEF ThreadInv, OneNarrativeAtATime
<1>1. CASE SameThreads
  BY <1>1 DEF SameThreads
<1>2. CASE Dies
  BY <1>2 DEF Dies, IdleThread
<1>3. ASSUME NEW r \in Runs, Begins(r) PROVE ThreadInv'
  <2>1. PICK t \in Threads :
          /\ thread[t].pc = "idle"
          /\ thread' = [thread EXCEPT ![t] = [pc |-> "call", run |-> r, held |-> FALSE]]
    BY <1>3 DEF Begins
  <2>2. thread'[t].run = r /\ \A s \in Threads : s # t => thread'[s] = thread[s]
    BY <2>1
  <2>3. inProgress' \subseteq Runs
    BY <1>3 DEF Begins
  <2>4. \A s \in Threads : s # t /\ thread'[s].pc # "idle" =>
          thread'[s].run \in inProgress /\ thread'[s].run # r
    BY <1>3, <2>2 DEF Begins
  <2>5. OneNarrativeAtATime'
    BY <2>2, <2>4
  <2> QED
    BY <1>3, <2>2, <2>3, <2>4, <2>5 DEF Begins
<1>4. ASSUME NEW r \in Runs, Leaks(r) PROVE ThreadInv'
  BY <1>4 DEF Leaks
<1>5. ASSUME NEW t \in Threads, Ends(t) PROVE ThreadInv'
  <2>1. thread'[t].pc = "idle" /\ \A s \in Threads : s # t => thread'[s] = thread[s]
    BY <1>5 DEF Ends, IdleThread
  <2>2. \A s \in Threads : thread'[s].pc # "idle" => s # t /\ thread'[s] = thread[s]
    BY <2>1
  <2>3. \A s \in Threads : thread'[s].pc # "idle" => thread[s].run # thread[t].run
    BY <1>5, <2>2 DEF Ends
  <2> QED
    BY <1>5, <2>2, <2>3 DEF Ends
<1> QED
  BY <1>1, <1>2, <1>3, <1>4, <1>5 DEF ThreadsMove

-----------------------------------------------------------------------------
(* The cache and whoever holds its entries *)

ResultsGrow == \A r \in Runs : results[r] => results'[r]

(* What touches neither the cache nor a reader, and gives no thread an     *)
(* entry, keeps the cache backed.                                          *)
LEMMA ElsewhereKeepsCache ==
  ASSUME ThreadInv, CacheInv, ResultsGrow, UNCHANGED <<cache, reader>>,
         report' \in [Runs -> Reports], snap' \in [Requests -> Reports],
         \A t \in Threads : thread'[t].held =>
           thread[t].held /\ thread'[t].pc # "idle" /\ thread'[t].run = thread[t].run
  PROVE  CacheInv'
<1> USE DEF CacheInv
<1>1. CacheTyped'
  BY DEF CacheTyped
<1>2. ThreadsHoldEntries' /\ ReadersHoldEntries'
  BY DEF ThreadsHoldEntries, ReadersHoldEntries
<1>3. StoresAreBacked' /\ CacheIsBacked'
  BY DEF StoresAreBacked, CacheIsBacked, ResultsGrow, ReadersHoldEntries
<1> QED
  BY <1>1, <1>2, <1>3

(* A new entry, of committed results: holders of the old one keep that.    *)
LEMMA ReplaceKeepsCache ==
  ASSUME ThreadInv, CacheInv, ResultsGrow, NEW r \in Runs, NEW v \in Reports,
         results[r], Replace(r, v), UNCHANGED <<report, snap>>
  PROVE  CacheInv'
<1> USE DEF CacheInv
<1>1. cache' \in [Runs -> Reports \cup {"absent"}] /\ cache'[r] = v /\ v # "absent"
      /\ \A s \in Runs : s # r => cache'[s] = cache[s]
  BY DEF Replace, CacheTyped, Reports
<1>2. \A x \in Readers :
        reader'[x] = IF reader[x].run = r /\ reader[x].held
                     THEN [reader[x] EXCEPT !.held = FALSE, !.val = cache[r]] ELSE reader[x]
  BY DEF Replace
<1>3. \A x \in Readers :
        /\ reader'[x] \in ReaderState
        /\ reader'[x].pc = reader[x].pc /\ reader'[x].run = reader[x].run
        /\ reader'[x].held => reader[x].held
  <2> SUFFICES ASSUME NEW x \in Readers
               PROVE  /\ reader'[x] \in ReaderState
                      /\ reader'[x].pc = reader[x].pc /\ reader'[x].run = reader[x].run
                      /\ reader'[x].held => reader[x].held
    OBVIOUS
  <2>1. reader[x] \in ReaderState
    BY DEF CacheTyped
  <2>2. reader[x].run = r /\ reader[x].held => cache[r] \in Reports
    BY DEF CacheTyped, ReadersHoldEntries
  <2> QED
    BY <1>2, <2>1, <2>2 DEF ReaderState
<1>4. CacheTyped'
  BY <1>1, <1>3 DEF CacheTyped, Replace
<1>5. \A t \in Threads : thread'[t].held =>
        thread[t].held /\ thread'[t].pc = thread[t].pc /\ thread'[t].run = thread[t].run
  BY DropMoves DEF Replace, ThreadInv, ThreadState
<1>6. ThreadsHoldEntries'
  <2>1. \A t \in Threads : thread[t].pc # "idle" => thread[t].run \in Runs
    BY DEF ThreadInv
  <2> QED
    BY <1>1, <1>5, <2>1 DEF ThreadsHoldEntries
<1>7. ReadersHoldEntries' /\ StoresAreBacked'
  BY <1>1, <1>3 DEF ReadersHoldEntries, StoresAreBacked, ResultsGrow
<1>8. CacheIsBacked'
  BY <1>1 DEF CacheIsBacked, ResultsGrow
<1> QED
  BY <1>4, <1>6, <1>7, <1>8

(* The requests: a hit reads the report of a run with results, and puts it *)
(* into the cache.                                                         *)
LEMMA RequestKeepsCache ==
  ASSUME NarrativeInv, ResultsGrow, NEW q \in Requests, RequestStepAll(q)
  PROVE  CacheInv'
<1> USE DEF NarrativeInv
<1>1. CASE HitWithReport(q)
  <2>1. PICK r \in Runs : TakeRun(q, "hit", r)
    BY <1>1 DEF HitWithReport, LookupHit
  <2>2. req'[q].run = r
    BY <2>1 DEF TakeRun, RunInv, TypeOK
  <2>3. snap' \in [Requests -> Reports]
    BY <1>1, <2>2 DEF HitWithReport, CacheInv, CacheTyped
  <2> QED
    BY <1>1, <2>3, ElsewhereKeepsCache DEF HitWithReport, CacheInv, CacheTyped, ThreadsHoldEntries
<1>2. CASE CacheHit(q)
  <2>1. req[q].run \in Runs /\ results[req[q].run]
    BY <1>2 DEF CacheHit, ServeHit, Goto, RunInv, HitAnswers, Answers
  <2>2. snap[q] \in Reports
    BY DEF CacheInv, CacheTyped
  <2> QED
    BY <1>2, <2>1, <2>2, ReplaceKeepsCache DEF CacheHit
<1>3. CASE UNCHANGED narrativeVars
  BY <1>3, ElsewhereKeepsCache DEF narrativeVars, CacheInv, CacheTyped, ThreadsHoldEntries
<1> QED
  BY <1>1, <1>2, <1>3 DEF RequestStepAll

(* Scheduling gives nobody an entry. *)
LEMMA ScheduleTakesNothing ==
  ASSUME NEW r, ScheduleEnrichment(r) \/ ScheduleRaises(r), NEW t \in Threads,
         ThreadInv, ThreadsHoldEntries, thread'[t].held
  PROVE  thread[t].held /\ thread'[t].pc # "idle" /\ thread'[t].run = thread[t].run
BY DEF ScheduleEnrichment, ScheduleRaises, ThreadInv, ThreadsHoldEntries

(* The job stores its report, schedules, and caches its response. *)
LEMMA JobKeepsCache ==
  ASSUME NarrativeInv, ResultsGrow, NEW r \in Runs, JobStepAll(r)
  PROVE  CacheInv'
<1> USE DEF NarrativeInv
<1>1. CASE StoreReport(r)
  <2>1. report' \in [Runs -> Reports]
    BY <1>1 DEF StoreReport, CacheInv, CacheTyped, Reports
  <2> QED
    BY <1>1, <2>1, ElsewhereKeepsCache DEF StoreReport, CacheInv, CacheTyped, ThreadsHoldEntries
<1>2. CASE JobSchedules(r)
  BY <1>2, ScheduleTakesNothing, ElsewhereKeepsCache DEF JobSchedules, CacheInv, CacheTyped
<1>3. CASE JobRaises(r)
  <2>1. thread' = thread
    BY <1>3 DEF JobRaises, ScheduleRaises
  <2> QED
    BY <1>3, <2>1, ElsewhereKeepsCache DEF JobRaises, CacheInv, CacheTyped, ThreadsHoldEntries
<1>4. CASE CacheResponse(r)
  <2>1. results[r]
    BY <1>4 DEF CacheResponse, BuildResponse, Advance, RunInv, JobMatchesRow
  <2> QED
    BY <1>4, <2>1, ReplaceKeepsCache DEF CacheResponse, Reports
<1>5. CASE UNCHANGED narrativeVars
  BY <1>5, ElsewhereKeepsCache DEF narrativeVars, CacheInv, CacheTyped, ThreadsHoldEntries
<1> QED
  BY <1>1, <1>2, <1>3, <1>4, <1>5 DEF JobStepAll

(* A narrative thread updates an entry it holds, which is in the cache. *)
LEMMA ThreadKeepsCache ==
  ASSUME NarrativeInv, ResultsGrow, NEW t \in Threads, ThreadStep(t)
  PROVE  CacheInv'
<1> USE DEF NarrativeInv
<1>0. thread[t] \in ThreadState
  BY DEF ThreadInv
<1>1. CASE CallModel(t) \/ SaveEnriched(t) \/ ClearInProgress(t)
  <2>1. \A s \in Threads : thread'[s].held =>
          thread[s].held /\ thread'[s].pc # "idle" /\ thread'[s].run = thread[s].run
    BY <1>0, <1>1 DEF CallModel, SaveEnriched, ClearInProgress, ThreadGoto, IdleThread,
         ThreadInv, ThreadState, CacheInv, ThreadsHoldEntries
  <2>2. report' \in [Runs -> Reports]
    BY <1>1 DEF CallModel, SaveEnriched, ClearInProgress, CacheInv, CacheTyped, Reports
  <2> QED
    BY <1>1, <2>1, <2>2, ElsewhereKeepsCache
       DEF CallModel, SaveEnriched, ClearInProgress, CacheInv, CacheTyped
<1>2. CASE FetchEntry(t)
  <2>1. ThreadsHoldEntries'
    BY <1>0, <1>2 DEF FetchEntry, ThreadInv, ThreadState, CacheInv, ThreadsHoldEntries
  <2>2. CacheTyped' /\ ReadersHoldEntries' /\ StoresAreBacked' /\ CacheIsBacked'
    BY <1>2 DEF FetchEntry, CacheInv, CacheTyped, ReadersHoldEntries, StoresAreBacked,
         CacheIsBacked, ResultsGrow
  <2> QED
    BY <2>1, <2>2 DEF CacheInv
<1>3. CASE PublishEnriched(t)
  <2> DEFINE r == thread[t].run
  <2>1. r \in Runs /\ (thread[t].held => cache[r] # "absent")
    BY <1>3 DEF PublishEnriched, ThreadGoto, ThreadInv, CacheInv, ThreadsHoldEntries
  <2>2. /\ cache' \in [Runs -> Reports \cup {"absent"}]
        /\ \A s \in Runs : cache'[s] = "absent" <=> cache[s] = "absent"
    BY <1>3, <2>1 DEF PublishEnriched, CacheInv, CacheTyped, Reports
  <2>3. ThreadsHoldEntries'
    <3>1. \A s \in Threads : /\ thread'[s].held = thread[s].held /\ thread'[s].run = thread[s].run
                             /\ thread[s].pc # "idle" => thread'[s].pc # "idle"
      BY <1>3 DEF PublishEnriched, ThreadGoto, ThreadInv, ThreadState
    <3>2. \A s \in Threads : thread[s].pc # "idle" => thread[s].run \in Runs
      BY DEF ThreadInv
    <3> QED
      BY <2>2, <3>1, <3>2 DEF CacheInv, ThreadsHoldEntries
  <2>4. CacheTyped' /\ ReadersHoldEntries' /\ StoresAreBacked' /\ CacheIsBacked'
    BY <1>3, <2>2 DEF PublishEnriched, CacheInv, CacheTyped, ReadersHoldEntries, StoresAreBacked,
         CacheIsBacked, ResultsGrow
  <2> QED
    BY <2>3, <2>4 DEF CacheInv
<1> QED
  BY <1>1, <1>2, <1>3 DEF ThreadStep

(* A reader that changes only itself. *)
LEMMA LoneReader ==
  ASSUME NarrativeInv, ResultsGrow, NEW x \in Readers, NEW s \in ReaderState,
         reader' = [reader EXCEPT ![x] = s], UNCHANGED <<cache, snap>>,
         report' \in [Runs -> Reports],
         s.pc # "idle" => s.run \in Runs,
         s.held => s.pc # "idle" /\ cache[s.run] # "absent",
         s.pc = "store" => results'[s.run],
         \A t \in Threads : thread'[t].held =>
           thread[t].held /\ thread'[t].pc # "idle" /\ thread'[t].run = thread[t].run
  PROVE  CacheInv'
<1> USE DEF NarrativeInv, CacheInv
<1>1. reader'[x] = s /\ \A y \in Readers : y # x => reader'[y] = reader[y]
  BY DEF CacheTyped
<1>2. CacheTyped'
  BY DEF CacheTyped
<1>3. ThreadsHoldEntries'
  BY DEF ThreadsHoldEntries
<1>4. ReadersHoldEntries'
  BY <1>1 DEF ReadersHoldEntries
<1>5. StoresAreBacked'
  BY <1>1 DEF StoresAreBacked, ReadersHoldEntries, ResultsGrow
<1>6. CacheIsBacked'
  BY DEF CacheIsBacked, ResultsGrow
<1> QED
  BY <1>2, <1>3, <1>4, <1>5, <1>6

LEMMA IdleReaderTyped == IdleReader \in ReaderState
BY RunAssumption DEF IdleReader, ReaderState, Reports, RunAssumption

(* The details a reader stores have results, the report it attaches goes   *)
(* into an entry that is there.                                            *)
LEMMA ReaderKeepsCache ==
  ASSUME NarrativeInv, ResultsGrow, NEW x \in Readers, ReaderStep(x)
  PROVE  CacheInv'
<1> USE DEF NarrativeInv
<1> DEFINE r == reader[x].run
           old == reader[x]
<1>0. /\ old \in ReaderState
      /\ old.pc # "idle" => r \in Runs
      /\ old.held => cache[r] # "absent"
  BY DEF CacheInv, CacheTyped, ReadersHoldEntries
<1>00. \A t \in Threads : thread' = thread /\ thread'[t].held =>
         thread[t].held /\ thread'[t].pc # "idle" /\ thread'[t].run = thread[t].run
  BY DEF CacheInv, ThreadsHoldEntries
<1>1. CASE LoadDetail(x)
  <2>1. r \in Runs /\ report[r] \in Reports
    BY <1>0, <1>1 DEF LoadDetail, CacheInv, CacheTyped
  <2>2. CASE /\ results[r]
             /\ reader' = [reader EXCEPT ![x].pc = "store", ![x].val = report[r]]
    <3> DEFINE s == [old EXCEPT !.pc = "store", !.val = report[r]]
    <3>1. s \in ReaderState /\ s.run = r /\ s.pc = "store" /\ s.held = old.held
      BY <1>0, <2>1 DEF ReaderState
    <3>2. reader' = [reader EXCEPT ![x] = s]
      BY <2>2 DEF CacheInv, CacheTyped
    <3>3. results'[r] /\ report' \in [Runs -> Reports]
      BY <1>1, <2>1, <2>2 DEF ResultsGrow, LoadDetail, CacheInv, CacheTyped
    <3> HIDE DEF s
    <3> QED
      BY <1>0, <1>00, <1>1, <2>1, <3>1, <3>2, <3>3, LoneReader DEF LoadDetail
  <2>3. CASE reader' = [reader EXCEPT ![x] = IdleReader]
    <3>1. report' \in [Runs -> Reports]
      BY <1>1 DEF LoadDetail, CacheInv, CacheTyped
    <3> QED
      BY <1>00, <1>1, <2>3, <3>1, IdleReaderTyped, LoneReader DEF LoadDetail, IdleReader
  <2> QED
    BY <1>1, <2>2, <2>3 DEF LoadDetail
<1>2. CASE StoreDetail(x)
  <2>1. r \in Runs /\ results[r] /\ old.val \in Reports
    BY <1>0, <1>2 DEF StoreDetail, CacheInv, StoresAreBacked, ReaderState
  <2>2. /\ cache' \in [Runs -> Reports \cup {"absent"}]
        /\ cache'[r] # "absent" /\ \A s \in Runs : s # r => cache'[s] = cache[s]
    BY <1>2, <2>1 DEF StoreDetail, CacheInv, CacheTyped, Reports
  <2>3. /\ reader'[x] \in ReaderState
        /\ reader'[x].pc \in {"idle", "have"}
        /\ reader'[x].held => reader'[x].pc = "have"
        /\ reader'[x].pc = "have" => reader'[x].run = r
    BY <1>0, <1>2, IdleReaderTyped DEF StoreDetail, ReaderState, IdleReader
  <2>4. ASSUME NEW y \in Readers, y # x
        PROVE  /\ reader'[y] \in ReaderState
               /\ reader'[y].pc = reader[y].pc /\ reader'[y].run = reader[y].run
               /\ reader'[y].held => reader[y].held
    <3>1. reader'[y] = IF reader[y].run = r /\ reader[y].held
                       THEN [reader[y] EXCEPT !.held = FALSE, !.val = cache[r]] ELSE reader[y]
      BY <1>2, <2>4 DEF StoreDetail
    <3>2. reader[y] \in ReaderState
      BY DEF CacheInv, CacheTyped
    <3>3. reader[y].run = r /\ reader[y].held => cache[r] \in Reports
      BY <2>1 DEF CacheInv, CacheTyped, ReadersHoldEntries
    <3> QED
      BY <3>1, <3>2, <3>3 DEF ReaderState
  <2>5. CacheTyped'
    <3>1. \A y \in Readers : reader'[y] \in ReaderState
      BY <2>3, <2>4
    <3>2. reader' \in [Readers -> ReaderState]
      BY <1>2, <3>1 DEF StoreDetail
    <3> QED
      BY <1>2, <2>2, <3>2 DEF StoreDetail, CacheInv, CacheTyped
  <2>6. ThreadsHoldEntries'
    <3>1. \A t \in Threads : thread'[t].held =>
            thread[t].held /\ thread'[t].pc = thread[t].pc /\ thread'[t].run = thread[t].run
      BY <1>2, DropMoves DEF StoreDetail, ThreadInv, ThreadState
    <3>2. \A t \in Threads : thread[t].pc # "idle" => thread[t].run \in Runs
      BY DEF ThreadInv
    <3> QED
      BY <2>2, <3>1, <3>2 DEF CacheInv, ThreadsHoldEntries
  <2>7. ReadersHoldEntries' /\ StoresAreBacked'
    BY <2>1, <2>2, <2>3, <2>4 DEF CacheInv, ReadersHoldEntries, StoresAreBacked, ResultsGrow
  <2>8. CacheIsBacked'
    BY <2>1, <2>2 DEF CacheInv, CacheIsBacked, ResultsGrow
  <2> QED
    BY <2>5, <2>6, <2>7, <2>8 DEF CacheInv
<1>3. CASE AnswerReport(x) \/ ReaderSchedules(x)
  <2>1. \A t \in Threads : thread'[t].held =>
          thread[t].held /\ thread'[t].pc # "idle" /\ thread'[t].run = thread[t].run
    BY <1>00, <1>3, ScheduleTakesNothing DEF AnswerReport, ReaderSchedules, CacheInv
  <2>2. report' \in [Runs -> Reports]
    BY <1>3 DEF AnswerReport, ReaderSchedules, CacheInv, CacheTyped
  <2> QED
    BY <1>3, <2>1, <2>2, IdleReaderTyped, LoneReader DEF AnswerReport, ReaderSchedules, IdleReader
<1>4. CASE RebuildReport(x)
  <2> DEFINE s == [old EXCEPT !.pc = "attach"]
  <2>1. s \in ReaderState /\ s.run = r /\ s.pc = "attach" /\ s.held = old.held
    BY <1>0 DEF ReaderState
  <2>2. reader' = [reader EXCEPT ![x] = s] /\ old.pc = "have"
    BY <1>4 DEF RebuildReport, ReaderGoto, CacheInv, CacheTyped
  <2>3. report' \in [Runs -> Reports]
    BY <1>4 DEF RebuildReport, CacheInv, CacheTyped, Reports
  <2> HIDE DEF s
  <2> QED
    BY <1>0, <1>00, <1>4, <2>1, <2>2, <2>3, LoneReader DEF RebuildReport
<1>5. CASE AttachReport(x)
  <2>1. r \in Runs /\ old.pc = "attach"
    BY <1>0, <1>5 DEF AttachReport, ReaderGoto
  <2>2. /\ cache' \in [Runs -> Reports \cup {"absent"}]
        /\ \A s \in Runs : cache'[s] = "absent" <=> cache[s] = "absent"
    BY <1>0, <1>5, <2>1 DEF AttachReport, CacheInv, CacheTyped, Reports
  <2>3. /\ reader' \in [Readers -> ReaderState]
        /\ \A y \in Readers : /\ reader'[y].run = reader[y].run /\ reader'[y].held = reader[y].held
                              /\ reader'[y].pc # "idle" <=> reader[y].pc # "idle"
                              /\ reader'[y].pc = "store" <=> reader[y].pc = "store"
    BY <1>0, <1>5, <2>1 DEF AttachReport, ReaderGoto, CacheInv, CacheTyped, ReaderState
  <2>4. CacheTyped'
    BY <1>5, <2>2, <2>3 DEF AttachReport, CacheInv, CacheTyped
  <2>5. ThreadsHoldEntries'
    BY <1>5, <2>2 DEF AttachReport, ThreadInv, CacheInv, ThreadsHoldEntries
  <2>6. ReadersHoldEntries' /\ StoresAreBacked'
    BY <2>2, <2>3 DEF CacheInv, ReadersHoldEntries, StoresAreBacked, ResultsGrow
  <2>7. CacheIsBacked'
    BY <2>2 DEF CacheInv, CacheIsBacked, ResultsGrow
  <2> QED
    BY <2>4, <2>5, <2>6, <2>7 DEF CacheInv
<1> QED
  BY <1>1, <1>2, <1>3, <1>4, <1>5 DEF ReaderStep

(* A GET call finds the entry it goes on with. *)
LEMMA OpenKeepsCache ==
  ASSUME NarrativeInv, ResultsGrow, NEW x \in Readers, NEW r \in Runs,
         NEW kind \in {"detail", "report"}, OpenDetail(x, r, kind)
  PROVE  CacheInv'
<1> USE DEF NarrativeInv
<1> DEFINE load == [IdleReader EXCEPT !.pc = "load", !.kind = kind, !.run = r]
           have == [IdleReader EXCEPT !.pc = "have", !.kind = kind, !.run = r, !.held = TRUE]
<1>1. /\ load \in ReaderState /\ load.run = r /\ load.pc = "load" /\ ~load.held
      /\ have \in ReaderState /\ have.run = r /\ have.pc = "have"
  <2>1. r \in 0..MaxRuns
    BY RunAssumption DEF Runs, RunAssumption
  <2>2. IdleReader \in ReaderState /\ ~IdleReader.held
    BY IdleReaderTyped DEF IdleReader
  <2> QED
    BY <2>1, <2>2 DEF ReaderState
<1>2. \A t \in Threads : thread'[t].held =>
        thread[t].held /\ thread'[t].pc # "idle" /\ thread'[t].run = thread[t].run
  BY DEF OpenDetail, CacheInv, ThreadsHoldEntries
<1>3. report' \in [Runs -> Reports] /\ UNCHANGED <<cache, snap>>
  BY DEF OpenDetail, CacheInv, CacheTyped
<1>4. \/ reader' = [reader EXCEPT ![x] = load]
      \/ cache[r] # "absent" /\ reader' = [reader EXCEPT ![x] = have]
  BY DEF OpenDetail
<1> HIDE DEF load, have
<1> QED
  BY <1>1, <1>2, <1>3, <1>4, LoneReader

(* A new process starts with an empty cache. *)
LEMMA RestartKeepsCache ==
  ASSUME NarrativeInv, RestartAll
  PROVE  CacheInv'
<1>1. CacheTyped'
  BY IdleReaderTyped DEF RestartAll, NarrativeInv, CacheInv, CacheTyped
<1> QED
  BY <1>1 DEF RestartAll, CacheInv, ThreadsHoldEntries, ReadersHoldEntries, StoresAreBacked,
       CacheIsBacked, IdleThread, IdleReader

LEMMA CacheInvStep ==
  ASSUME NarrativeInv, [NarrativeNext]_allVars
  PROVE  CacheInv'
<1>1. ResultsGrow
  BY StepsOfRun, ResultsStay DEF ResultsGrow, NarrativeInv
<1>2. CASE UNCHANGED narrativeVars
  BY <1>1, <1>2, ElsewhereKeepsCache
     DEF narrativeVars, NarrativeInv, CacheInv, CacheTyped, ThreadsHoldEntries
<1>3. CASE RunOnly \/ StartJobAll \/ DrainAndShutdown \/ UNCHANGED allVars
  BY <1>2, <1>3 DEF RunOnly, StartJobAll, DrainAndShutdown, allVars
<1> QED
  BY <1>1, <1>3, RestartKeepsCache, RequestKeepsCache, JobKeepsCache, ThreadKeepsCache,
     ReaderKeepsCache, OpenKeepsCache DEF NarrativeNext

-----------------------------------------------------------------------------
(* The invariant of the whole *)

LEMMA NarrativeInvInit == NarrativeInit => NarrativeInv
<1> SUFFICES ASSUME NarrativeInit PROVE NarrativeInv
  OBVIOUS
<1>1. RunInv
  BY InitRunInv DEF NarrativeInit
<1>2. IdleThread \in ThreadState /\ IdleReader \in ReaderState
  BY IdleReaderTyped, RunAssumption DEF IdleThread, ThreadState, RunAssumption
<1>3. ThreadInv
  BY <1>2 DEF NarrativeInit, ThreadInv, OneNarrativeAtATime, IdleThread
<1>4. CacheTyped
  BY <1>2 DEF NarrativeInit, CacheTyped, Reports
<1> QED
  BY <1>1, <1>3, <1>4 DEF NarrativeInit, NarrativeInv, CacheInv, ThreadsHoldEntries,
     ReadersHoldEntries, StoresAreBacked, CacheIsBacked, IdleThread, IdleReader

LEMMA NarrativeInvStep == NarrativeInv /\ [NarrativeNext]_allVars => NarrativeInv'
<1> SUFFICES ASSUME NarrativeInv, [NarrativeNext]_allVars PROVE NarrativeInv'
  OBVIOUS
<1>1. RunInv'
  BY RunInvStep DEF NarrativeInv
<1>2. ThreadInv'
  BY StepMoves, ThreadInvStep DEF NarrativeInv, CacheInv
<1> QED
  BY <1>1, <1>2, CacheInvStep DEF NarrativeInv

(* The strengthened invariant holds in every state of every behaviour. *)
THEOREM NarrativeInvariant == NarrativeSpec => []NarrativeInv
BY NarrativeInvInit, NarrativeInvStep, PTL DEF NarrativeSpec

(* Rows, cache, threads and readers are what they may be. *)
THEOREM NarrativesAreTyped == NarrativeSpec => []NarrativeTypeOK
<1>1. NarrativeInv => NarrativeTypeOK
  BY DEF NarrativeInv, RunInv, ThreadInv, CacheInv, CacheTyped, NarrativeTypeOK,
     ThreadState, ReaderState
<1> QED
  BY <1>1, NarrativeInvariant, PTL

(* Two narrative threads never work on one run, whoever scheduled them,    *)
(* also where an id was left in the set (_schedule_report_enrichment).     *)
THEOREM NarrativesAreExclusive == NarrativeSpec => []OneNarrativeAtATime
<1>1. NarrativeInv => OneNarrativeAtATime
  BY DEF NarrativeInv, ThreadInv
<1> QED
  BY <1>1, NarrativeInvariant, PTL

(* What the cache serves as COMPLETED has committed result rows            *)
(* (_check_cache, _build_response, get_simulation_detail).                 *)
THEOREM CacheStaysBacked == NarrativeSpec => []CacheIsBacked
<1>1. NarrativeInv => CacheIsBacked
  BY DEF NarrativeInv, CacheInv
<1> QED
  BY <1>1, NarrativeInvariant, PTL

(* With narratives, cache and readers around it the service still moves    *)
(* status and results as ResultBoard says.                                 *)
THEOREM NarrativesKeepTheBoard == NarrativeSpec => ImplementsBoard
<1>1. NarrativeInit => Board!BoardInit
  BY DEF NarrativeInit, Init, Board!BoardInit
<1>2. NarrativeInv /\ [NarrativeNext]_allVars => [Board!BoardNext]_<<row, results>>
  BY StepsOfRun, NextRefines DEF NarrativeInv
<1> QED
  BY <1>1, <1>2, NarrativeInvariant, PTL
     DEF NarrativeSpec, ImplementsBoard, Board!BoardSpec, Board!boardVars

-----------------------------------------------------------------------------
(* Where a thread can be started, every id in the set has its thread *)

SetIsWorkedOn ==
  \A r \in inProgress : \E t \in Threads : thread[t].pc # "idle" /\ thread[t].run = r

(* A thread that begins takes up its run, one that ends leaves the others  *)
(* to theirs.                                                              *)
LEMMA SetIsWorkedOnStep ==
  ASSUME "schedule" \notin Faults, ThreadInv, SetIsWorkedOn, ThreadsMove
  PROVE  SetIsWorkedOn'
<1> USE DEF SetIsWorkedOn
<1>1. CASE SameThreads
  BY <1>1 DEF SameThreads
<1>2. CASE Dies
  BY <1>2 DEF Dies
<1>3. ASSUME NEW r \in Runs, Begins(r) PROVE SetIsWorkedOn'
  <2>1. PICK t \in Threads :
          /\ thread[t].pc = "idle"
          /\ thread' = [thread EXCEPT ![t] = [pc |-> "call", run |-> r, held |-> FALSE]]
    BY <1>3 DEF Begins
  <2>2. /\ thread'[t].pc = "call" /\ thread'[t].run = r
        /\ \A s \in Threads : s # t => thread'[s] = thread[s]
    BY <2>1 DEF ThreadInv
  <2> QED
    BY <1>3, <2>1, <2>2 DEF Begins
<1>4. ASSUME NEW r \in Runs, Leaks(r) PROVE SetIsWorkedOn'
  BY <1>4 DEF Leaks
<1>5. ASSUME NEW t \in Threads, Ends(t) PROVE SetIsWorkedOn'
  <2>1. \A s \in Threads : s # t => thread'[s] = thread[s]
    BY <1>5 DEF Ends
  <2> QED
    BY <1>5, <2>1 DEF Ends
<1> QED
  BY <1>1, <1>2, <1>3, <1>4, <1>5 DEF ThreadsMove

(* Where threads can be started the set and the threads agree, whatever    *)
(* else raises and whenever the process dies: the finally block always     *)
(* leaves the report open to another narrative                             *)
(* (_enrich_simulation_report_in_background).                              *)
THEOREM ScheduledIsAlive ==
  ASSUME "schedule" \notin Faults
  PROVE  NarrativeSpec => []InProgressIsAlive
<1>1. NarrativeInit => SetIsWorkedOn
  BY DEF NarrativeInit, SetIsWorkedOn
<1>2. NarrativeInv /\ SetIsWorkedOn /\ [NarrativeNext]_allVars => SetIsWorkedOn'
  BY StepMoves, SetIsWorkedOnStep DEF NarrativeInv, CacheInv
<1>3. NarrativeInv /\ SetIsWorkedOn => InProgressIsAlive
  BY DEF NarrativeInv, ThreadInv, SetIsWorkedOn, InProgressIsAlive
<1> QED
  BY <1>1, <1>2, <1>3, NarrativeInvariant, PTL DEF NarrativeSpec

-----------------------------------------------------------------------------
(* Where the report column can be written, no narrative precedes its       *)
(* deterministic report                                                    *)

(* Whatever shows a report, or is about to have one narrated, has it       *)
(* stored.                                                                 *)
CachedIsStored == \A r \in Runs : cache[r] \in {"PENDING", "FINAL"} => report[r] # "none"
NarratedIsStored == \A t \in Threads : thread[t].pc # "idle" => report[thread[t].run] # "none"
ReadIsStored ==
  \A x \in Readers :
    reader[x].pc # "idle" /\ (reader[x].val # "none" \/ reader[x].pc \in {"attach", "schedule"})
      => report[reader[x].run] # "none"
FoundIsStored ==
  \A q \in Requests : req[q].pc = "hit" /\ snap[q] # "none" => report[req[q].run] # "none"
JobHasStored == \A r \in Runs : job[r] \in {"schedule", "respond"} => report[r] # "none"
StoredInv ==
  CachedIsStored /\ NarratedIsStored /\ ReadIsStored /\ FoundIsStored /\ JobHasStored

(* A stored report stays one. *)
ReportsGrow == \A r \in Runs : report[r] # "none" => report'[r] # "none"
RequestsStay == \A q \in Requests : req'[q].pc = "hit" => req'[q] = req[q]
JobsStay ==
  \A r \in Runs : job'[r] \in {"schedule", "respond"} => job[r] \in {"schedule", "respond"}

(* The runs all of them work on. *)
LEMMA WorkedOnRuns ==
  ASSUME NarrativeInv
  PROVE  /\ \A t \in Threads : thread[t].pc # "idle" => thread[t].run \in Runs
         /\ \A x \in Readers : reader[x].pc # "idle" => reader[x].run \in Runs
         /\ \A q \in Requests : req[q].pc = "hit" => req[q].run \in Runs
BY DEF NarrativeInv, ThreadInv, CacheInv, ReadersHoldEntries, RunInv, HitAnswers

(* A report is stored, and the threads are moved without a new one. *)
LEMMA ElsewhereKeepsStored ==
  ASSUME NarrativeInv, StoredInv, ReportsGrow, RequestsStay, JobsStay,
         UNCHANGED <<cache, reader, snap>>,
         \A t \in Threads : thread'[t].pc # "idle" =>
           thread[t].pc # "idle" /\ thread'[t].run = thread[t].run
  PROVE  StoredInv'
<1> USE WorkedOnRuns DEF StoredInv, ReportsGrow
<1>1. CachedIsStored' /\ NarratedIsStored' /\ ReadIsStored'
  BY DEF CachedIsStored, NarratedIsStored, ReadIsStored
<1>2. FoundIsStored' /\ JobHasStored'
  BY DEF FoundIsStored, JobHasStored, RequestsStay, JobsStay
<1> QED
  BY <1>1, <1>2

(* An entry is replaced by one whose report is stored. *)
LEMMA ReplaceKeepsStored ==
  ASSUME NarrativeInv, StoredInv, RequestsStay, JobsStay, UNCHANGED <<report, snap>>,
         NEW r \in Runs, NEW v, v \in {"PENDING", "FINAL"} => report[r] # "none",
         Replace(r, v)
  PROVE  StoredInv'
<1> USE WorkedOnRuns DEF StoredInv
<1>1. cache'[r] = v /\ \A s \in Runs : s # r => cache'[s] = cache[s]
  BY DEF Replace, NarrativeInv, CacheInv, CacheTyped
<1>2. CachedIsStored'
  BY <1>1 DEF CachedIsStored
<1>3. NarratedIsStored'
  BY DropMoves DEF NarratedIsStored, Replace, SameThreads, NarrativeInv, ThreadInv, ThreadState
<1>4. ReadIsStored'
  <2> SUFFICES ASSUME NEW x \in Readers, reader'[x].pc # "idle",
                      reader'[x].val # "none" \/ reader'[x].pc \in {"attach", "schedule"}
               PROVE  report[reader'[x].run] # "none"
    BY DEF ReadIsStored
  <2>1. reader[x] \in ReaderState
    BY DEF NarrativeInv, CacheInv, CacheTyped
  <2>2. CASE reader'[x] = reader[x]
    BY <2>2 DEF ReadIsStored
  <2>3. CASE reader'[x] # reader[x]
    <3>1. /\ reader'[x] = [reader[x] EXCEPT !.held = FALSE, !.val = cache[r]]
          /\ reader[x].run = r /\ reader[x].held
      BY <2>3 DEF Replace
    <3>2. /\ reader'[x].pc = reader[x].pc /\ reader'[x].run = r /\ reader'[x].val = cache[r]
      BY <2>1, <3>1 DEF ReaderState
    <3>3. cache[r] \in {"PENDING", "FINAL", "none"}
      BY <3>1 DEF NarrativeInv, CacheInv, CacheTyped, ReadersHoldEntries, Reports
    <3>4. CASE cache[r] # "none"
      BY <3>2, <3>3, <3>4 DEF CachedIsStored
    <3>5. CASE cache[r] = "none"
      <4>1. reader[x].pc \in {"attach", "schedule"}
        BY <3>2, <3>5
      <4> QED
        BY <3>1, <3>2, <4>1 DEF ReadIsStored
    <3> QED
      BY <3>4, <3>5
  <2> QED
    BY <2>2, <2>3
<1>5. FoundIsStored' /\ JobHasStored'
  BY DEF FoundIsStored, JobHasStored, RequestsStay, JobsStay
<1> QED
  BY <1>2, <1>3, <1>4, <1>5

LEMMA RequestKeepsStored ==
  ASSUME NarrativeInv, StoredInv, NEW q \in Requests, RequestStepAll(q)
  PROVE  StoredInv' /\ ReportsGrow
<1>1. ReportsGrow /\ JobsStay
  <2>1. job' = job \/ \E r : job' = [job EXCEPT ![r] = "queued"]
    BY DEF RequestStepAll, HitWithReport, CacheHit, LookupHit, ServeHit, LookupMiss, Reserve,
         ReserveFails, Submit
  <2> QED
    BY <2>1 DEF RequestStepAll, HitWithReport, CacheHit, narrativeVars, ReportsGrow, JobsStay,
         NarrativeInv, RunInv, TypeOK
<1>2. CASE HitWithReport(q)
  <2>1. PICK r \in Runs : TakeRun(q, "hit", r)
    BY <1>2 DEF HitWithReport, LookupHit
  <2>2. /\ req'[q].run = r /\ snap'[q] = report[r]
        /\ \A p \in Requests : p # q => req'[p] = req[p] /\ snap'[p] = snap[p]
    BY <1>2, <2>1 DEF HitWithReport, TakeRun, NarrativeInv, RunInv, TypeOK, CacheInv, CacheTyped
  <2>3. FoundIsStored'
    BY <1>2, <2>2 DEF HitWithReport, StoredInv, FoundIsStored
  <2> QED
    BY <1>1, <1>2, <2>3 DEF HitWithReport, StoredInv, CachedIsStored, NarratedIsStored,
         ReadIsStored, JobHasStored, JobsStay
<1>3. CASE ~HitWithReport(q)
  <2>1. RequestsStay
    <3>1. req \in [Requests -> [pc : ReqPCs, ask : Question, run : 0..MaxRuns]]
      BY DEF NarrativeInv, RunInv, TypeOK
    <3>2. CASE CacheHit(q) \/ LookupMiss(q) \/ ReserveFails(q) \/ Submit(q)
      BY <3>1, <3>2 DEF CacheHit, ServeHit, LookupMiss, ReserveFails, Submit, Goto, RequestsStay
    <3>3. CASE Reserve(q)
      <4>1. req' = [req EXCEPT ![q] = [@ EXCEPT !.pc = "submit", !.run = nextRun]]
        BY <3>3 DEF Reserve, TakeRun
      <4>2. req'[q].pc = "submit" /\ \A p \in Requests : p # q => req'[p] = req[p]
        BY <3>1, <4>1
      <4> QED
        BY <4>2 DEF RequestsStay
    <3> QED
      BY <1>3, <3>2, <3>3 DEF RequestStepAll
  <2>2. CASE CacheHit(q)
    <3>1. req[q].pc = "hit" /\ req[q].run \in Runs
      BY <2>2, WorkedOnRuns DEF CacheHit, ServeHit, Goto
    <3>2. snap[q] \in {"PENDING", "FINAL"} => report[req[q].run] # "none"
      BY <3>1 DEF StoredInv, FoundIsStored
    <3> QED
      BY <1>1, <2>1, <2>2, <3>1, <3>2, ReplaceKeepsStored DEF CacheHit
  <2>3. CASE UNCHANGED narrativeVars
    BY <1>1, <2>1, <2>3, ElsewhereKeepsStored DEF narrativeVars
  <2> QED
    BY <1>1, <1>3, <2>2, <2>3 DEF RequestStepAll
<1> QED
  BY <1>2, <1>3

(* What is scheduled is narrated over its report. *)
LEMMA ScheduleKeepsNarrated ==
  ASSUME ThreadInv, NarratedIsStored, NEW r \in Runs, report[r] # "none", UNCHANGED report,
         ScheduleEnrichment(r) \/ ScheduleRaises(r)
  PROVE  NarratedIsStored'
<1> USE DEF ThreadInv, NarratedIsStored
<1>1. CASE UNCHANGED thread
  BY <1>1
<1>2. ASSUME NEW t \in Threads,
             thread' = [thread EXCEPT ![t] = [pc |-> "call", run |-> r, held |-> FALSE]]
      PROVE  NarratedIsStored'
  <2>1. thread'[t].run = r /\ \A s \in Threads : s # t => thread'[s] = thread[s]
    BY <1>2
  <2> QED
    BY <2>1
<1> QED
  BY <1>1, <1>2 DEF ScheduleEnrichment, ScheduleRaises

(* A job schedules and caches the report it has stored. *)
LEMMA JobKeepsStored ==
  ASSUME "saveReport" \notin Faults, NarrativeInv, StoredInv, NEW r \in Runs, JobStepAll(r)
  PROVE  StoredInv' /\ ReportsGrow
<1>0. job \in [Runs -> Stages] /\ report \in [Runs -> Reports]
  BY DEF NarrativeInv, RunInv, TypeOK, CacheInv, CacheTyped
<1>1. CASE StoreReport(r)
  <2>1. report' = [report EXCEPT ![r] = "PENDING"] /\ job' = [job EXCEPT ![r] = "schedule"]
    BY <1>1 DEF StoreReport, SaveReport, Advance
  <2>2. report'[r] = "PENDING" /\ job'[r] = "schedule"
        /\ \A s \in Runs : s # r => report'[s] = report[s] /\ job'[s] = job[s]
    BY <1>0, <2>1
  <2>3. ReportsGrow
    BY <2>2 DEF ReportsGrow
  <2>4. JobHasStored'
    BY <2>2 DEF JobHasStored, StoredInv
  <2>5. CachedIsStored' /\ NarratedIsStored' /\ ReadIsStored' /\ FoundIsStored'
    BY <1>1, <2>3, WorkedOnRuns DEF StoreReport, SaveReport, ReportsGrow, StoredInv,
       CachedIsStored, NarratedIsStored, ReadIsStored, FoundIsStored
  <2> QED
    BY <2>3, <2>4, <2>5 DEF StoredInv
<1>2. ASSUME ~StoreReport(r) PROVE UNCHANGED <<report, snap, req>> /\ JobsStay
  <2>1. UNCHANGED <<report, snap, req>>
    BY <1>2 DEF JobStepAll, JobSchedules, JobRaises, CacheResponse, narrativeVars, LoadData,
       Compute, SaveResults, SaveCompleted, SaveRaises, BuildReport, MarkFailed, MarkRaises,
       ScheduleNarrative, Raise, BuildResponse
  <2>2. \/ job[r] = "schedule"
        \/ \E to \in Stages \ {"schedule", "respond"} : job' = [job EXCEPT ![r] = to]
    BY <1>2 DEF JobStepAll, JobSchedules, JobRaises, CacheResponse, narrativeVars, LoadData,
       Compute, SaveResults, SaveCompleted, SaveRaises, BuildReport, MarkFailed, MarkRaises,
       ScheduleNarrative, Raise, BuildResponse, Advance, Stages, InFlight, Busy
  <2>3. \E to : job' = [job EXCEPT ![r] = to]
    BY <1>2 DEF JobStepAll, JobSchedules, JobRaises, CacheResponse, LoadData,
       Compute, SaveResults, SaveCompleted, SaveRaises, BuildReport, MarkFailed, MarkRaises,
       ScheduleNarrative, Raise, BuildResponse, Advance
  <2>4. JobsStay
    BY <1>0, <2>2, <2>3 DEF JobsStay
  <2> QED
    BY <2>1, <2>4
<1>3. CASE JobSchedules(r)
  <2>0. ~StoreReport(r)
    BY <1>3 DEF JobSchedules, ScheduleNarrative, StoreReport, SaveReport, Advance
  <2>1. report[r] # "none"
    BY <1>3 DEF JobSchedules, ScheduleNarrative, Advance, StoredInv, JobHasStored
  <2>2. NarratedIsStored'
    BY <1>3, <2>1, ScheduleKeepsNarrated DEF JobSchedules, NarrativeInv, StoredInv
  <2>3. CachedIsStored' /\ ReadIsStored' /\ FoundIsStored' /\ JobHasStored'
    BY <1>2, <1>3, <2>0 DEF JobSchedules, StoredInv, CachedIsStored, ReadIsStored, FoundIsStored,
       JobHasStored, JobsStay
  <2> QED
    BY <1>2, <2>0, <2>2, <2>3 DEF StoredInv, ReportsGrow
<1>4. CASE CacheResponse(r)
  <2>0. ~StoreReport(r) /\ report[r] # "none"
    BY <1>4 DEF CacheResponse, BuildResponse, StoreReport, SaveReport, Advance, StoredInv,
       JobHasStored
  <2> QED
    BY <1>2, <1>4, <2>0, ReplaceKeepsStored DEF CacheResponse, RequestsStay, ReportsGrow
<1>5. CASE ~StoreReport(r) /\ ~JobSchedules(r) /\ ~CacheResponse(r)
  <2>1. UNCHANGED <<cache, reader, thread>>
    BY <1>5 DEF JobStepAll, JobRaises, ScheduleRaises, narrativeVars
  <2> QED
    BY <1>2, <1>5, <2>1, ElsewhereKeepsStored DEF RequestsStay, ReportsGrow
<1> QED
  BY <1>1, <1>3, <1>4, <1>5

(* A narrative is stored over, and published beside, the report it is of. *)
LEMMA ThreadKeepsStored ==
  ASSUME "saveReport" \notin Faults, NarrativeInv, StoredInv, NEW t \in Threads, ThreadStep(t)
  PROVE  StoredInv' /\ ReportsGrow
<1> DEFINE r == thread[t].run
<1>0. /\ thread \in [Threads -> ThreadState] /\ thread[t] \in ThreadState
      /\ report \in [Runs -> Reports] /\ cache \in [Runs -> Reports \cup {"absent"}]
  BY DEF NarrativeInv, ThreadInv, CacheInv, CacheTyped
<1>1. thread[t].pc # "idle" /\ UNCHANGED <<vars, snap, reader>>
  BY DEF ThreadStep, CallModel, SaveEnriched, FetchEntry, PublishEnriched, ClearInProgress,
     ThreadGoto
<1>2. r \in Runs /\ report[r] # "none"
  BY <1>1, WorkedOnRuns DEF StoredInv, NarratedIsStored
<1>3. ReportsGrow
  BY <1>0 DEF ThreadStep, CallModel, SaveEnriched, FetchEntry, PublishEnriched, ClearInProgress,
     ReportsGrow
<1>4. \A s \in Threads : thread'[s].pc # "idle" =>
        thread[s].pc # "idle" /\ thread'[s].run = thread[s].run
  BY <1>0, <1>1 DEF ThreadStep, CallModel, SaveEnriched, FetchEntry, PublishEnriched,
     ClearInProgress, ThreadGoto, ThreadState, IdleThread
<1>5. RequestsStay /\ JobsStay
  BY <1>1 DEF vars, RequestsStay, JobsStay
<1>6. CASE UNCHANGED cache
  BY <1>1, <1>3, <1>4, <1>5, <1>6, ElsewhereKeepsStored
<1>7. CASE PublishEnriched(t) /\ cache' = [cache EXCEPT ![r] = "FINAL"]
  <2>1. UNCHANGED report
    BY <1>7 DEF PublishEnriched
  <2>2. CachedIsStored'
    BY <1>0, <1>2, <1>7, <2>1 DEF StoredInv, CachedIsStored
  <2>3. NarratedIsStored'
    BY <1>4, <2>1 DEF StoredInv, NarratedIsStored
  <2>4. ReadIsStored' /\ FoundIsStored' /\ JobHasStored'
    BY <1>1, <2>1 DEF vars, StoredInv, ReadIsStored, FoundIsStored, JobHasStored
  <2> QED
    BY <1>3, <2>2, <2>3, <2>4 DEF StoredInv
<1> QED
  BY <1>6, <1>7 DEF ThreadStep, CallModel, SaveEnriched, FetchEntry, PublishEnriched,
     ClearInProgress

(* A reader that changes only itself and what it schedules. *)
LEMMA LoneReaderKeepsStored ==
  ASSUME NarrativeInv, StoredInv, ReportsGrow, UNCHANGED <<vars, cache, snap>>, NarratedIsStored',
         NEW x \in Readers, NEW s, reader' = [reader EXCEPT ![x] = s],
         s.pc # "idle" /\ (s.val # "none" \/ s.pc \in {"attach", "schedule"})
           => report'[s.run] # "none"
  PROVE  StoredInv'
<1> USE WorkedOnRuns DEF StoredInv, ReportsGrow
<1>1. reader'[x] = s /\ \A y \in Readers : y # x => reader'[y] = reader[y]
  BY DEF NarrativeInv, CacheInv, CacheTyped
<1>2. ReadIsStored'
  BY <1>1 DEF ReadIsStored
<1>3. CachedIsStored' /\ FoundIsStored' /\ JobHasStored'
  BY DEF vars, CachedIsStored, FoundIsStored, JobHasStored
<1> QED
  BY <1>2, <1>3

(* What a reader stores it has read, what it attaches and schedules it has *)
(* stored.                                                                 *)
LEMMA ReaderKeepsStored ==
  ASSUME "saveReport" \notin Faults, NarrativeInv, StoredInv, NEW x \in Readers, ReaderStep(x)
  PROVE  StoredInv' /\ ReportsGrow
<1> DEFINE r == reader[x].run
           old == reader[x]
<1>0. /\ old \in ReaderState /\ reader \in [Readers -> ReaderState]
      /\ report \in [Runs -> Reports] /\ cache \in [Runs -> Reports \cup {"absent"}]
      /\ old.pc # "idle" => r \in Runs
      /\ old.held => cache[r] # "absent"
  BY DEF NarrativeInv, CacheInv, CacheTyped, ReadersHoldEntries
<1>1. /\ UNCHANGED <<vars, snap>> /\ r \in Runs /\ old.pc # "idle"
      /\ RequestsStay /\ JobsStay
  <2>1. UNCHANGED <<vars, snap>> /\ old.pc # "idle"
    BY DEF ReaderStep, LoadDetail, StoreDetail, AnswerReport, RebuildReport, AttachReport,
       ReaderSchedules, ReaderGoto
  <2> QED
    BY <1>0, <2>1 DEF vars, RequestsStay, JobsStay
<1>2. ReportsGrow
  BY <1>0, <1>1 DEF ReaderStep, LoadDetail, StoreDetail, AnswerReport, RebuildReport, AttachReport,
     ReaderSchedules, ReportsGrow
<1>3. thread' = thread /\ UNCHANGED report => NarratedIsStored'
  BY DEF StoredInv, NarratedIsStored
<1>4. CASE LoadDetail(x)
  <2>1. UNCHANGED <<report, cache, thread>>
    BY <1>4 DEF LoadDetail
  <2>2. CASE reader' = [reader EXCEPT ![x].pc = "store", ![x].val = report[r]]
    <3> DEFINE s == [old EXCEPT !.pc = "store", !.val = report[r]]
    <3>1. s.pc = "store" /\ s.run = r /\ s.val = report[r]
      BY <1>0 DEF ReaderState
    <3>2. reader' = [reader EXCEPT ![x] = s]
      BY <1>0, <2>2
    <3> HIDE DEF s
    <3> QED
      BY <1>1, <1>2, <1>3, <2>1, <3>1, <3>2, LoneReaderKeepsStored
  <2>3. CASE reader' = [reader EXCEPT ![x] = IdleReader]
    BY <1>1, <1>2, <1>3, <2>1, <2>3, LoneReaderKeepsStored DEF IdleReader
  <2> QED
    BY <1>4, <2>2, <2>3 DEF LoadDetail
<1>5. CASE AnswerReport(x) \/ ReaderSchedules(x)
  <2>1. UNCHANGED <<report, cache>> /\ reader' = [reader EXCEPT ![x] = IdleReader]
    BY <1>5 DEF AnswerReport, ReaderSchedules
  <2>2. CASE UNCHANGED thread
    BY <1>1, <1>2, <1>3, <2>1, <2>2, LoneReaderKeepsStored DEF IdleReader
  <2>3. CASE ~UNCHANGED thread
    <3>1. ScheduleEnrichment(r) \/ ScheduleRaises(r)
      BY <1>5, <2>3 DEF AnswerReport, ReaderSchedules
    <3>2. report[r] # "none"
      <4>1. CASE ReaderSchedules(x)
        BY <4>1 DEF ReaderSchedules, StoredInv, ReadIsStored
      <4>2. CASE AnswerReport(x)
        <5>1. Held(x) = "PENDING" /\ old.pc = "have"
          BY <2>3, <4>2 DEF AnswerReport
        <5>2. CASE old.held
          BY <1>1, <5>1, <5>2 DEF Held, StoredInv, CachedIsStored
        <5>3. CASE ~old.held
          BY <5>1, <5>3 DEF Held, StoredInv, ReadIsStored
        <5> QED
          BY <5>2, <5>3
      <4> QED
        BY <1>5, <4>1, <4>2
    <3>3. NarratedIsStored'
      BY <1>1, <2>1, <3>1, <3>2, ScheduleKeepsNarrated DEF NarrativeInv, StoredInv
    <3> QED
      BY <1>1, <1>2, <2>1, <3>3, LoneReaderKeepsStored DEF IdleReader
  <2> QED
    BY <2>2, <2>3
<1>6. CASE RebuildReport(x)
  <2> DEFINE s == [old EXCEPT !.pc = "attach"]
  <2>1. UNCHANGED <<cache, thread>> /\ report' = [report EXCEPT ![r] = "PENDING"]
    BY <1>6 DEF RebuildReport
  <2>2. s.run = r /\ report'[r] # "none"
    BY <1>0, <1>1, <2>1 DEF ReaderState
  <2>3. reader' = [reader EXCEPT ![x] = s]
    BY <1>0, <1>6 DEF RebuildReport, ReaderGoto
  <2>4. NarratedIsStored'
    BY <1>2, <2>1, WorkedOnRuns DEF StoredInv, NarratedIsStored, ReportsGrow
  <2> HIDE DEF s
  <2> QED
    BY <1>1, <1>2, <2>1, <2>2, <2>3, <2>4, LoneReaderKeepsStored
<1>7. CASE AttachReport(x)
  <2>1. UNCHANGED <<report, thread>> /\ old.pc = "attach" /\ report[r] # "none"
    BY <1>1, <1>7 DEF AttachReport, ReaderGoto, StoredInv, ReadIsStored
  <2>2. /\ reader'[x].run = r
        /\ \A y \in Readers : y # x => reader'[y] = reader[y]
    BY <1>0, <1>7 DEF AttachReport, ReaderGoto, ReaderState
  <2>3. CachedIsStored'
    BY <1>0, <1>1, <1>7, <2>1 DEF AttachReport, StoredInv, CachedIsStored
  <2>4. ReadIsStored'
    BY <2>1, <2>2 DEF StoredInv, ReadIsStored
  <2>5. FoundIsStored' /\ JobHasStored'
    BY <1>1, <2>1 DEF vars, StoredInv, FoundIsStored, JobHasStored
  <2> QED
    BY <1>2, <1>3, <2>1, <2>3, <2>4, <2>5 DEF StoredInv
<1>8. CASE StoreDetail(x)
  <2>1. UNCHANGED report /\ old.pc = "store"
    BY <1>8 DEF StoreDetail
  <2>2. CachedIsStored'
    <3>1. old.val # "none" => report[r] # "none"
      BY <2>1 DEF StoredInv, ReadIsStored
    <3>2. cache'[r] = old.val /\ \A s \in Runs : s # r => cache'[s] = cache[s]
      BY <1>0, <1>1, <1>8 DEF StoreDetail
    <3> QED
      BY <2>1, <3>1, <3>2 DEF StoredInv, CachedIsStored
  <2>3. NarratedIsStored'
    BY <1>8, <2>1, DropMoves DEF StoreDetail, NarrativeInv, ThreadInv, SameThreads, StoredInv,
       NarratedIsStored
  <2>4. ReadIsStored'
    <3> SUFFICES ASSUME NEW y \in Readers, reader'[y].pc # "idle",
                        reader'[y].val # "none" \/ reader'[y].pc \in {"attach", "schedule"}
                 PROVE  report[reader'[y].run] # "none"
      BY <2>1 DEF ReadIsStored
    <3>1. CASE y = x
      <4>1. reader'[x] = [old EXCEPT !.pc = "have", !.held = TRUE]
        BY <1>8, <3>1 DEF StoreDetail, IdleReader
      <4>2. reader'[x].pc = "have" /\ reader'[x].run = r /\ reader'[x].val = old.val
        BY <1>0, <4>1 DEF ReaderState
      <4> QED
        BY <2>1, <3>1, <4>2 DEF StoredInv, ReadIsStored
    <3>2. CASE y # x /\ reader'[y] = reader[y]
      BY <3>2 DEF StoredInv, ReadIsStored
    <3>3. CASE y # x /\ reader'[y] # reader[y]
      <4>1. /\ reader'[y] = [reader[y] EXCEPT !.held = FALSE, !.val = cache[r]]
            /\ reader[y].run = r /\ reader[y].held
        BY <1>8, <3>3 DEF StoreDetail
      <4>2. reader[y] \in ReaderState
        BY <1>0
      <4>3. reader'[y].pc = reader[y].pc /\ reader'[y].run = r /\ reader'[y].val = cache[r]
        BY <4>1, <4>2 DEF ReaderState
      <4>4. cache[r] \in {"PENDING", "FINAL", "none"}
        BY <1>0, <1>1, <4>1 DEF NarrativeInv, CacheInv, ReadersHoldEntries, Reports
      <4>5. CASE cache[r] # "none"
        BY <1>1, <4>3, <4>4, <4>5 DEF StoredInv, CachedIsStored
      <4>6. CASE cache[r] = "none"
        <5>1. reader[y].pc \in {"attach", "schedule"}
          BY <4>3, <4>6
        <5> QED
          BY <4>1, <4>3, <5>1 DEF StoredInv, ReadIsStored
      <4> QED
        BY <4>5, <4>6
    <3> QED
      BY <3>1, <3>2, <3>3
  <2>5. FoundIsStored' /\ JobHasStored'
    BY <1>1, <2>1 DEF vars, StoredInv, FoundIsStored, JobHasStored
  <2> QED
    BY <1>2, <2>2, <2>3, <2>4, <2>5 DEF StoredInv
<1> QED
  BY <1>4, <1>5, <1>6, <1>7, <1>8 DEF ReaderStep

(* A GET call starts with nothing read; a restart forgets everything but   *)
(* the stored reports.                                                     *)
LEMMA OpenKeepsStored ==
  ASSUME NarrativeInv, StoredInv, NEW x \in Readers, NEW r \in Runs,
         NEW kind \in {"detail", "report"}, OpenDetail(x, r, kind)
  PROVE  StoredInv' /\ ReportsGrow
<1> DEFINE load == [IdleReader EXCEPT !.pc = "load", !.kind = kind, !.run = r]
           have == [IdleReader EXCEPT !.pc = "have", !.kind = kind, !.run = r, !.held = TRUE]
<1>1. /\ load.pc = "load" /\ load.val = "none"
      /\ have.pc = "have" /\ have.val = "none"
  BY DEF IdleReader
<1>2. /\ UNCHANGED <<vars, report, cache, snap>>
      /\ reader' = [reader EXCEPT ![x] = load] \/ reader' = [reader EXCEPT ![x] = have]
  BY DEF OpenDetail
<1>3. ReportsGrow /\ NarratedIsStored'
  BY DEF OpenDetail, ReportsGrow, StoredInv, NarratedIsStored
<1> HIDE DEF load, have
<1> QED
  BY <1>1, <1>2, <1>3, LoneReaderKeepsStored

LEMMA RestartKeepsStored ==
  ASSUME NarrativeInv, StoredInv, RestartAll
  PROVE  StoredInv' /\ ReportsGrow
<1>1. CachedIsStored' /\ NarratedIsStored' /\ ReadIsStored' /\ ReportsGrow
  BY DEF RestartAll, CachedIsStored, NarratedIsStored, ReadIsStored, ReportsGrow, IdleThread,
     IdleReader
<1>2. FoundIsStored'
  <2>1. \A q \in Requests : req'[q].pc = "hit" => req'[q] = req[q]
    <3>1. req \in [Requests -> [pc : ReqPCs, ask : Question, run : 0..MaxRuns]]
      BY DEF NarrativeInv, RunInv, TypeOK
    <3> QED
      BY <3>1 DEF RestartAll, Restart
  <2> QED
    BY <2>1 DEF RestartAll, StoredInv, FoundIsStored
<1>3. JobHasStored'
  BY DEF RestartAll, Restart, StoredInv, JobHasStored
<1> QED
  BY <1>1, <1>2, <1>3 DEF StoredInv

LEMMA StoredInvStep ==
  ASSUME "saveReport" \notin Faults, NarrativeInv, StoredInv, [NarrativeNext]_allVars
  PROVE  StoredInv' /\ ReportsGrow
<1>0. /\ req \in [Requests -> [pc : ReqPCs, ask : Question, run : 0..MaxRuns]]
      /\ job \in [Runs -> Stages]
  BY DEF NarrativeInv, RunInv, TypeOK
<1>1. ASSUME UNCHANGED narrativeVars, RequestsStay, JobsStay
      PROVE  StoredInv' /\ ReportsGrow
  BY <1>1, ElsewhereKeepsStored DEF narrativeVars, ReportsGrow
<1>2. CASE RunOnly
  <2>1. UNCHANGED narrativeVars /\ JobsStay
    BY <1>2 DEF RunOnly, Resolve, Refuse, CompileBot, JobsStay
  <2>2. RequestsStay
    <3>1. ASSUME NEW q \in Requests, Resolve(q) PROVE RequestsStay
      <4>1. PICK ask : req' = [req EXCEPT ![q] = [pc |-> "check", run |-> 0, ask |-> ask]]
        BY <3>1 DEF Resolve
      <4>2. req'[q].pc = "check" /\ \A p \in Requests : p # q => req'[p] = req[p]
        BY <1>0, <4>1
      <4> QED
        BY <4>2 DEF RequestsStay
    <3>2. ASSUME NEW q \in Requests, Refuse(q) PROVE RequestsStay
      BY <1>0, <3>2 DEF Refuse, Goto, RequestsStay
    <3>3. CASE CompileBot
      BY <3>3 DEF CompileBot, RequestsStay
    <3> QED
      BY <1>2, <3>1, <3>2, <3>3 DEF RunOnly
  <2> QED
    BY <1>1, <2>1, <2>2
<1>3. CASE StartJobAll
  BY <1>0, <1>1, <1>3 DEF StartJobAll, StartJob, Advance, RequestsStay, JobsStay
<1>4. CASE DrainAndShutdown
  BY <1>0, <1>1, <1>4 DEF DrainAndShutdown, Shutdown, RequestsStay, JobsStay
<1>5. CASE UNCHANGED allVars
  BY <1>1, <1>5 DEF allVars, vars, RequestsStay, JobsStay
<1> QED
  BY <1>2, <1>3, <1>4, <1>5, RestartKeepsStored, RequestKeepsStored, JobKeepsStored,
     ThreadKeepsStored, ReaderKeepsStored, OpenKeepsStored DEF NarrativeNext

(* No narrative lands in a row without its deterministic report, through   *)
(* restarts, rebuilt reports and entries replaced under the narrative:     *)
(* what schedules one has stored or read a report, and reports stay        *)
(* (_run_async_phase, get_simulation_report, save_simulation_report).      *)
THEOREM NarrativeComesSecond ==
  ASSUME "saveReport" \notin Faults
  PROVE  NarrativeSpec => DeterministicFirst
<1>1. NarrativeInit => StoredInv
  BY DEF NarrativeInit, Init, StoredInv, CachedIsStored, NarratedIsStored, ReadIsStored,
     FoundIsStored, JobHasStored, IdleThread, IdleReader
<1>2. NarrativeInv /\ StoredInv /\ [NarrativeNext]_allVars => StoredInv'
  BY StoredInvStep
<1>3. NarrativeInv /\ StoredInv /\ [NarrativeNext]_allVars =>
        [\A r \in Runs : report[r] = "none" => report'[r] # "FINAL"]_allVars
  <2> SUFFICES ASSUME NarrativeInv, StoredInv, NarrativeNext, NEW r \in Runs, report[r] = "none"
               PROVE  report'[r] # "FINAL"
    BY DEF allVars, narrativeVars
  <2>0. report \in [Runs -> Reports]
    BY DEF NarrativeInv, CacheInv, CacheTyped
  <2>1. ASSUME NEW t \in Threads, SaveEnriched(t) PROVE report'[r] # "FINAL"
    <3>1. thread[t].run # r
      BY <2>1 DEF SaveEnriched, ThreadGoto, StoredInv, NarratedIsStored
    <3> QED
      BY <2>0, <2>1, <3>1 DEF SaveEnriched
  <2>2. CASE ~\E t \in Threads : SaveEnriched(t)
    <3>1. UNCHANGED report \/ \E s \in Runs : report' = [report EXCEPT ![s] = "PENDING"]
      <4>1. ASSUME NEW s \in Runs, JobStepAll(s)
            PROVE UNCHANGED report \/ \E u \in Runs : report' = [report EXCEPT ![u] = "PENDING"]
        BY <4>1 DEF JobStepAll, StoreReport, JobSchedules, JobRaises, CacheResponse, narrativeVars
      <4>2. ASSUME NEW x \in Readers, ReaderStep(x)
            PROVE UNCHANGED report \/ \E u \in Runs : report' = [report EXCEPT ![u] = "PENDING"]
        <5>1. UNCHANGED report \/ RebuildReport(x)
          BY <4>2 DEF ReaderStep, LoadDetail, StoreDetail, AnswerReport, AttachReport,
             ReaderSchedules
        <5>2. CASE RebuildReport(x)
          <6>1. reader[x].run \in Runs
            BY <5>2, WorkedOnRuns DEF RebuildReport, ReaderGoto
          <6> QED
            BY <5>2, <6>1 DEF RebuildReport
        <5> QED
          BY <5>1, <5>2
      <4>3. CASE \/ RunOnly \/ StartJobAll \/ DrainAndShutdown \/ RestartAll
                 \/ \E q \in Requests : RequestStepAll(q)
                 \/ \E x \in Readers, s \in Runs, kind \in {"detail", "report"} : OpenDetail(x, s, kind)
        BY <4>3 DEF RunOnly, StartJobAll, DrainAndShutdown, RestartAll, RequestStepAll,
           HitWithReport, CacheHit, OpenDetail, narrativeVars
      <4>4. CASE \E t \in Threads : ThreadStep(t)
        BY <2>2, <4>4 DEF ThreadStep, CallModel, FetchEntry, PublishEnriched, ClearInProgress
      <4> QED
        BY <4>1, <4>2, <4>3, <4>4 DEF NarrativeNext
    <3> QED
      BY <2>0, <3>1
  <2> QED
    BY <2>1, <2>2
<1> QED
  BY <1>1, <1>2, <1>3, NarrativeInvariant, PTL DEF NarrativeSpec, DeterministicFirst
=============================================================================
