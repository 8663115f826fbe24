-------------------------- MODULE ReportNarrative --------------------------
(***************************************************************************)
(* SimulationRun together with what it shares with the readers: the report *)
(* column of the row, the process-wide SIMULATION_RUN_CACHE, the daemon    *)
(* threads that let a model write the narrative, and the two GET endpoints *)
(* that fill the cache, rebuild a missing report and schedule a narrative. *)
(* Cache entries are mutable and shared: whoever fetched an entry sees its *)
(* updates until the entry is replaced, and is left with an orphan then.   *)
(***************************************************************************)
EXTENDS SimulationRun

CONSTANTS
  Readers,   \* GET calls in flight at one time
  Threads    \* bound: narrative threads alive at one time

VARIABLES
  report,      \* simulation_runs.report_json of the current REPORT_VERSION
  cache,       \* run -> "absent", or the report its cached entry carries
  inProgress,  \* REPORT_NARRATIVE_IN_PROGRESS
  thread,      \* narrative threads: stage, run, and still hold the entry?
  reader,      \* GET calls: stage, kind, run, entry held or orphaned value
  snap         \* POST /run calls: the report read with the reusable run

narrativeVars == <<report, cache, inProgress, thread, reader, snap>>
allVars == <<vars, narrativeVars>>

\* narrativeStatus: absent report, deterministic only, COMPLETED or FAILED
Reports == {"none", "PENDING", "FINAL"}

IdleThread == [pc |-> "idle", run |-> 0, held |-> FALSE]
IdleReader == [pc |-> "idle", kind |-> "detail", run |-> 0, held |-> FALSE,
               val |-> "none"]

NarrativeInit ==
  /\ Init
  /\ report = [r \in Runs |-> "none"]
  /\ cache = [r \in Runs |-> "absent"]
  /\ inProgress = {}
  /\ thread = [t \in Threads |-> IdleThread]
  /\ reader = [x \in Readers |-> IdleReader]
  /\ snap = [q \in Requests |-> "none"]

(* SIMULATION_RUN_CACHE[r] = a new entry; holders of the old one keep it. *)
Replace(r, v) ==
  /\ cache' = [cache EXCEPT ![r] = v]
  /\ reader' = [x \in Readers |->
       IF reader[x].run = r /\ reader[x].held
       THEN [reader[x] EXCEPT !.held = FALSE, !.val = cache[r]] ELSE reader[x]]
  /\ thread' = [t \in Threads |->
       IF thread[t].run = r THEN [thread[t] EXCEPT !.held = FALSE] ELSE thread[t]]

(* Mutant: the set is not looked at first. *)
ScheduleAlways(r) ==
  /\ inProgress' = inProgress \cup {r}
  /\ \E t \in Threads :
       /\ thread[t].pc = "idle"
       /\ thread' = [thread EXCEPT ![t] = [pc |-> "call", run |-> r, held |-> FALSE]]

(* Check-and-add under REPORT_NARRATIVE_LOCK, then start a daemon thread. *)
ScheduleEnrichment(r) ==
  IF r \in inProgress THEN UNCHANGED <<inProgress, thread>>
  ELSE /\ inProgress' = inProgress \cup {r}
       /\ \E t \in Threads :
            /\ thread[t].pc = "idle"
            /\ thread' = [thread EXCEPT ![t] = [pc |-> "call", run |-> r, held |-> FALSE]]

(* The thread cannot be started: the id is in the set, nobody removes it. *)
ScheduleRaises(r) ==
  /\ "schedule" \in Faults /\ r \notin inProgress
  /\ inProgress' = inProgress \cup {r}
  /\ UNCHANGED thread

-----------------------------------------------------------------------------
(* SimulationRun's actions, completed with what they do here *)

HitWithReport(q) ==
  /\ LookupHit(q)
  /\ snap' = [snap EXCEPT ![q] = report[req'[q].run]]
  /\ UNCHANGED <<report, cache, inProgress, thread, reader>>

(* _check_cache replaces the cached entry by what it read earlier. *)
CacheHit(q) ==
  /\ ServeHit(q)
  /\ Replace(req[q].run, snap[q])
  /\ UNCHANGED <<report, inProgress, snap>>

(* Mutant: the narrative is scheduled with no report stored. *)
StoreNothing(r) ==
  /\ SaveReport(r)
  /\ UNCHANGED <<report, cache, inProgress, thread, reader, snap>>

(* The deterministic report is stored; a failure is only printed. *)
StoreReport(r) ==
  /\ SaveReport(r)
  /\ \/ report' = [report EXCEPT ![r] = "PENDING"]
     \/ "saveReport" \in Faults /\ UNCHANGED report
  /\ UNCHANGED <<cache, inProgress, thread, reader, snap>>

JobSchedules(r) ==
  /\ ScheduleNarrative(r)
  /\ ScheduleEnrichment(r)
  /\ UNCHANGED <<report, cache, reader, snap>>

JobRaises(r) ==
  /\ Raise(r)
  /\ IF job[r] = "schedule" THEN ScheduleRaises(r)
     ELSE UNCHANGED <<inProgress, thread>>
  /\ UNCHANGED <<report, cache, reader, snap>>

(* The entry carries the job's own deterministic report. *)
CacheResponse(r) ==
  /\ BuildResponse(r)
  /\ Replace(r, "PENDING")
  /\ UNCHANGED <<report, inProgress, snap>>

DrainAndShutdown ==
  /\ Shutdown
  /\ \A x \in Readers : reader[x].pc = "idle"
  /\ UNCHANGED narrativeVars

(* The cache, the set and the threads die with the process. *)
RestartAll ==
  /\ Restart
  /\ cache' = [r \in Runs |-> "absent"]
  /\ inProgress' = {}
  /\ thread' = [t \in Threads |-> IdleThread]
  /\ reader' = [x \in Readers |-> IdleReader]
  /\ UNCHANGED <<report, snap>>

RunOnly ==
  /\ \/ \E q \in Requests : Resolve(q) \/ Refuse(q)
     \/ CompileBot
  /\ UNCHANGED narrativeVars

RequestStepAll(q) ==
  \/ HitWithReport(q)
  \/ CacheHit(q)
  \/ (LookupMiss(q) \/ Reserve(q) \/ ReserveFails(q) \/ Submit(q)) /\ UNCHANGED narrativeVars

StartJobAll == StartJob /\ UNCHANGED narrativeVars

JobStepAll(r) ==
  \/ StoreReport(r) \/ JobSchedules(r) \/ JobRaises(r) \/ CacheResponse(r)
  \/ /\ \/ LoadData(r) \/ Compute(r) \/ SaveResults(r) \/ SaveCompleted(r)
        \/ SaveRaises(r) \/ BuildReport(r) \/ MarkFailed(r) \/ MarkRaises(r)
     /\ UNCHANGED narrativeVars

-----------------------------------------------------------------------------
(* _enrich_simulation_report_in_background *)

ThreadGoto(t, from, to) ==
  thread[t].pc = from /\ thread' = [thread EXCEPT ![t].pc = to]

(* Mutant: an exception ends the thread without the finally block. *)
CallModelUnguarded(t) ==
  /\ \/ ThreadGoto(t, "call", "save")
     \/ "enrich" \in Faults /\ ThreadGoto(t, "call", "idle")
  /\ UNCHANGED <<vars, report, cache, inProgress, reader, snap>>

(* enrich_report answers COMPLETED, or FAILED if the model did not answer: *)
(* both are final.  Anything else that raises ends the thread.             *)
CallModel(t) ==
  /\ \/ ThreadGoto(t, "call", "save")
     \/ "enrich" \in Faults /\ ThreadGoto(t, "call", "clear")
  /\ UNCHANGED <<vars, report, cache, inProgress, reader, snap>>

SaveEnriched(t) ==
  /\ ThreadGoto(t, "save", "fetch")
  /\ \/ report' = [report EXCEPT ![thread[t].run] = "FINAL"]
     \/ "saveReport" \in Faults /\ UNCHANGED report
  /\ UNCHANGED <<vars, cache, inProgress, reader, snap>>

FetchEntry(t) ==
  /\ thread[t].pc = "fetch"
  /\ thread' = [thread EXCEPT ![t].pc = "publish",
                              ![t].held = (cache[thread[t].run] # "absent")]
  /\ UNCHANGED <<vars, report, cache, inProgress, reader, snap>>

PublishEnriched(t) ==
  /\ ThreadGoto(t, "publish", "clear")
  /\ IF thread[t].held THEN cache' = [cache EXCEPT ![thread[t].run] = "FINAL"]
                       ELSE UNCHANGED cache
  /\ UNCHANGED <<vars, report, inProgress, reader, snap>>

(* Mutant: the id stays in the set. *)
ClearNothing(t) ==
  /\ thread[t].pc = "clear"
  /\ thread' = [thread EXCEPT ![t] = IdleThread]
  /\ UNCHANGED <<vars, report, cache, inProgress, reader, snap>>

(* finally: discard the id under the lock. *)
ClearInProgress(t) ==
  /\ thread[t].pc = "clear"
  /\ inProgress' = inProgress \ {thread[t].run}
  /\ thread' = [thread EXCEPT ![t] = IdleThread]
  /\ UNCHANGED <<vars, report, cache, reader, snap>>

ThreadStep(t) ==
  CallModel(t) \/ SaveEnriched(t) \/ FetchEntry(t) \/ PublishEnriched(t) \/ ClearInProgress(t)

-----------------------------------------------------------------------------
(* GET /{id} and GET /{id}/report *)

ReaderGoto(x, from, to) ==
  reader[x].pc = from /\ reader' = [reader EXCEPT ![x].pc = to]

Held(x) == IF reader[x].held THEN cache[reader[x].run] ELSE reader[x].val

(* The row exists and is the caller's; then the cache decides.  A detail   *)
(* answered from the cache changes nothing.                                *)
OpenDetail(x, r, kind) ==
  /\ server = "up" /\ reader[x].pc = "idle" /\ row[r] # "ABSENT"
  /\ \/ /\ cache[r] = "absent"
        /\ reader' = [reader EXCEPT ![x] = [IdleReader EXCEPT !.pc = "load", !.kind = kind, !.run = r]]
     \/ /\ cache[r] # "absent" /\ kind = "report"
        /\ reader' = [reader EXCEPT ![x] =
             [IdleReader EXCEPT !.pc = "have", !.kind = kind, !.run = r, !.held = TRUE]]
  /\ UNCHANGED <<vars, report, cache, inProgress, thread, snap>>

(* Mutant: a run without variants is loaded all the same. *)
LoadDetailUnchecked(x) ==
  LET r == reader[x].run IN
  /\ reader[x].pc = "load"
  /\ reader' = [reader EXCEPT ![x].pc = "store", ![x].val = report[r]]
  /\ UNCHANGED <<vars, report, cache, inProgress, thread, snap>>

(* Mutant: the report is taken from the cache that has just missed. *)
LoadDetailFromCache(x) ==
  LET r == reader[x].run IN
  /\ reader[x].pc = "load"
  /\ \/ /\ results[r]
        /\ reader' = [reader EXCEPT ![x].pc = "store", ![x].val = cache[r]]
     \/ /\ ~results[r] \/ "loadDetail" \in Faults
        /\ reader' = [reader EXCEPT ![x] = IdleReader]
  /\ UNCHANGED <<vars, report, cache, inProgress, thread, snap>>

(* load_simulation_from_db_by_id asks for variants, not for run_status; no *)
(* variants, or any exception, is a 404.                                   *)
LoadDetail(x) ==
  LET r == reader[x].run IN
  /\ reader[x].pc = "load"
  /\ \/ /\ results[r]
        /\ reader' = [reader EXCEPT ![x].pc = "store", ![x].val = report[r]]
     \/ /\ ~results[r] \/ "loadDetail" \in Faults
        /\ reader' = [reader EXCEPT ![x] = IdleReader]
  /\ UNCHANGED <<vars, report, cache, inProgress, thread, snap>>

(* A detail call answers here; a report call goes on with the entry it put. *)
StoreDetail(x) ==
  LET r == reader[x].run IN
  /\ reader[x].pc = "store"
  /\ cache' = [cache EXCEPT ![r] = reader[x].val]
  /\ reader' = [y \in Readers |->
       IF y = x THEN IF reader[x].kind = "detail" THEN IdleReader
                     ELSE [reader[x] EXCEPT !.pc = "have", !.held = TRUE]
       ELSE IF reader[y].run = r /\ reader[y].held
       THEN [reader[y] EXCEPT !.held = FALSE, !.val = cache[r]] ELSE reader[y]]
  /\ thread' = [t \in Threads |->
       IF thread[t].run = r THEN [thread[t] EXCEPT !.held = FALSE] ELSE thread[t]]
  /\ UNCHANGED <<vars, report, inProgress, snap>>

(* A report without narrative is answered, and its narrative scheduled. *)
AnswerReport(x) ==
  /\ reader[x].pc = "have" /\ Held(x) # "none"
  /\ reader' = [reader EXCEPT ![x] = IdleReader]
  /\ IF Held(x) = "PENDING"
     THEN ScheduleEnrichment(reader[x].run) \/ ScheduleRaises(reader[x].run)
     ELSE UNCHANGED <<inProgress, thread>>
  /\ UNCHANGED <<vars, report, cache, snap>>

(* An entry without report: build the deterministic one and store it. *)
RebuildReport(x) ==
  /\ Held(x) = "none"
  /\ ReaderGoto(x, "have", "attach")
  /\ \/ report' = [report EXCEPT ![reader[x].run] = "PENDING"]
     \/ "saveReport" \in Faults /\ UNCHANGED report
  /\ UNCHANGED <<vars, cache, inProgress, thread, snap>>

AttachReport(x) ==
  /\ ReaderGoto(x, "attach", "schedule")
  /\ IF reader[x].held THEN cache' = [cache EXCEPT ![reader[x].run] = "PENDING"]
                       ELSE UNCHANGED cache
  /\ UNCHANGED <<vars, report, inProgress, thread, snap>>

ReaderSchedules(x) ==
  /\ reader[x].pc = "schedule"
  /\ reader' = [reader EXCEPT ![x] = IdleReader]
  /\ ScheduleEnrichment(reader[x].run) \/ ScheduleRaises(reader[x].run)
  /\ UNCHANGED <<vars, report, cache, snap>>

ReaderStep(x) ==
  \/ LoadDetail(x) \/ StoreDetail(x) \/ AnswerReport(x)
  \/ RebuildReport(x) \/ AttachReport(x) \/ ReaderSchedules(x)

-----------------------------------------------------------------------------
NarrativeNext ==
  \/ RunOnly \/ StartJobAll \/ DrainAndShutdown \/ RestartAll
  \/ \E q \in Requests : RequestStepAll(q)
  \/ \E r \in Runs : JobStepAll(r)
  \/ \E t \in Threads : ThreadStep(t)
  \/ \E x \in Readers : ReaderStep(x)
  \/ \E x \in Readers, r \in Runs, kind \in {"detail", "report"} : OpenDetail(x, r, kind)

(* As in SimulationRun; narrative threads and GET calls under way go on. *)
NarrativeFairness ==
  /\ \A q \in Requests : WF_allVars(RequestStepAll(q))
  /\ WF_allVars(StartJobAll)
  /\ \A r \in Runs : WF_allVars(JobStepAll(r))
  /\ \A t \in Threads : WF_allVars(ThreadStep(t))
  /\ \A x \in Readers : WF_allVars(ReaderStep(x))

NarrativeSpec == NarrativeInit /\ [][NarrativeNext]_allVars /\ NarrativeFairness

-----------------------------------------------------------------------------
NarrativeTypeOK ==
  /\ TypeOK
  /\ report \in [Runs -> Reports]
  /\ cache \in [Runs -> Reports \cup {"absent"}]
  /\ inProgress \subseteq Runs
  /\ thread \in [Threads -> [pc : {"idle", "call", "save", "fetch", "publish", "clear"},
                             run : 0..MaxRuns, held : BOOLEAN]]
  /\ reader \in [Readers -> [pc : {"idle", "load", "store", "have", "attach", "schedule"},
                             kind : {"detail", "report"}, run : 0..MaxRuns,
                             held : BOOLEAN, val : Reports]]
  /\ snap \in [Requests -> Reports]

(* README, Deterministic First: two narrative threads never work on one    *)
(* run at a time, whoever scheduled them - the job, two GET /report calls, *)
(* before or after a restart (REPORT_NARRATIVE_LOCK, _schedule_report_...).*)
OneNarrativeAtATime ==
  \A s, t \in Threads : s # t /\ thread[s].pc # "idle" /\ thread[t].pc # "idle"
                          => thread[s].run # thread[t].run

(* The set and the threads agree: an id left in the set without a thread   *)
(* would keep that report from ever being narrated again (the finally of   *)
(* _enrich_simulation_report_in_background).                               *)
InProgressIsAlive ==
  \A r \in Runs : r \in inProgress <=> \E t \in Threads : thread[t].pc # "idle" /\ thread[t].run = r

(* What the cache serves as COMPLETED has committed result rows, although  *)
(* neither the cache nor load_simulation_from_db_by_id looks at run_status.*)
CacheIsBacked == \A r \in Runs : cache[r] # "absent" => results[r]

(* Deterministic First, AI Second: no narrative is stored over a row that  *)
(* holds no deterministic report yet.                                      *)
DeterministicFirst ==
  [][\A r \in Runs : report[r] = "none" => report'[r] # "FINAL"]_allVars

(* A COMPLETED run gets its report, or is turned into FAILED. *)
CompletedGetsReport ==
  \A r \in Runs : row[r] = "COMPLETED" ~> report[r] # "none" \/ row[r] = "FAILED"

(* Every narrative under way ends and leaves the report open to another. *)
NarrativeEnds == \A r \in Runs : r \in inProgress ~> r \notin inProgress
=============================================================================
