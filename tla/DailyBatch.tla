------------------------------ MODULE DailyBatch ------------------------------
(***************************************************************************)
(* The daily batch (collectors/batch_cron.py): every server process has a  *)
(* scheduler thread that wakes at 16:30, a MySQL named lock lets one of    *)
(* them collect the disclosures of the day and then, from those stored,    *)
(* the fundamentals; the backfill scripts write the same tables.  Time is  *)
(* a date and whether its 16:30 is past.  A transaction is one step.       *)
(***************************************************************************)
EXTENDS Integers, FiniteSets

CONSTANTS
  Workers,    \* server processes
  Filings,    \* disclosures companies file
  Company,    \* the company of each
  ReportName, \* and its report's name
  Securities, \* the companies in the master table
  Periodic,   \* the filings that carry a periodic report
  PageSize,   \* disclosures on a page of the list
  CallLimit,  \* model calls of one collector
  Faults,     \* stages that may fail
  MaxDate,    \* bound: dates are 1..MaxDate
  MaxStarts,  \* bound: starts of processes
  NoWorker

ASSUME BatchAssumption ==
  /\ Periodic \subseteq Filings
  /\ PageSize \in Nat /\ CallLimit \in Nat
  /\ MaxDate \in Nat \ {0} /\ MaxStarts \in Nat
  /\ Faults \subseteq {"connect", "fetch", "analysis", "reports", "session", "process"}
  /\ NoWorker \notin Workers

VARIABLES
  date,
  closed,  \* 16:30 of the date is past
  worker,  \* scheduler threads
  lock,    \* holder of investory_daily_batch_job
  filed,   \* [date, early] of the filings published so far
  stored,  \* disclosure_events
  reports, \* security_fundamentals_daily, by the filing they come from
  starts,  \* history: starts of processes
  failed,  \* history: dates on which something failed
  lost     \* history: dates on which the holder's session broke

vars == <<date, closed, worker, lock, filed, stored, reports, starts, failed, lost>>
time == <<date, closed>>
data == <<filed, stored, reports>>
history == <<starts, failed, lost>>

Unfiled == [date |-> 0, early |-> FALSE]
Known == {f \in Filings : Company[f] \in Securities}
Today == {f \in Filings : filed[f].date = date}
Down == [pc |-> "down"]
Dead == [pc |-> "dead"]
Done == [pc |-> "report", items |-> {}]
AtWork == {w \in Workers :
             worker[w].pc \in {"fetch", "analyse", "read", "report"}}

(* seconds_until_next_run: today's 16:30, or tomorrow's once it is past. *)
Waiting == [pc |-> "wait", due |-> IF closed THEN date + 1 ELSE date]
Due(w) == worker[w].pc = "wait" /\ worker[w].due = date /\ closed

Init ==
  /\ date = 1 /\ closed = FALSE /\ lock = NoWorker
  /\ worker = [w \in Workers |-> Down]
  /\ filed = [f \in Filings |-> Unfiled]
  /\ stored = {} /\ reports = {}
  /\ starts = 0 /\ failed = {} /\ lost = {}

To(w, state) == worker' = [worker EXCEPT ![w] = state]
Failure == failed' = failed \cup {date} /\ UNCHANGED <<starts, lost>>
Fail(stage) == stage \in Faults /\ Failure

-----------------------------------------------------------------------------
(* Outside: the companies and the clock.  A night is longer than a batch:  *)
(* midnight waits for those that are due or at work.                       *)
File(f) ==
  /\ filed[f] = Unfiled
  /\ filed' = [filed EXCEPT ![f] = [date |-> date, early |-> ~closed]]
  /\ UNCHANGED <<time, worker, lock, stored, reports, history>>

Close ==
  /\ ~closed /\ closed' = TRUE
  /\ UNCHANGED <<date, worker, lock, data, history>>

Midnight ==
  /\ closed /\ date < MaxDate
  /\ \A w \in Workers : worker[w].pc \in {"down", "dead", "wait"} /\ ~Due(w)
  /\ date' = date + 1 /\ closed' = FALSE
  /\ UNCHANGED <<worker, lock, data, history>>

-----------------------------------------------------------------------------
(* The scheduler thread *)

(* startup_event, start_batch_scheduler *)
Start(w) ==
  /\ worker[w].pc = "down" /\ starts < MaxStarts
  /\ starts' = starts + 1
  /\ To(w, Waiting)
  /\ UNCHANGED <<time, lock, data, failed, lost>>

(* The wait times out; nothing catches a failing connect: the thread ends. *)
ConnectFails(w) ==
  /\ Due(w) /\ Fail("connect")
  /\ To(w, Dead)
  /\ UNCHANGED <<time, lock, data>>

(* Mutant: whether the lock was granted is not looked at. *)
AcquireAnyway(w) ==
  /\ Due(w)
  /\ lock' = w
  /\ To(w, [pc |-> "fetch"])
  /\ UNCHANGED <<time, data, history>>

(* GET_LOCK(name, 0) grants the lock or returns at once. *)
Acquire(w) ==
  /\ Due(w) /\ lock = NoWorker
  /\ lock' = w
  /\ To(w, [pc |-> "fetch"])
  /\ UNCHANGED <<time, data, history>>

Skip(w) ==
  /\ Due(w) /\ lock # NoWorker
  /\ To(w, Waiting)
  /\ UNCHANGED <<time, lock, data, history>>

-----------------------------------------------------------------------------
(* fetch_and_save_daily_dart_disclosures *)

(* The first page of the list of today, those of known securities.         *)
Fetch(w) ==
  /\ worker[w].pc = "fetch"
  /\ \E page \in SUBSET Today :
       /\ \/ Cardinality(page) = PageSize
          \/ page = Today /\ Cardinality(page) < PageSize
       /\ To(w, [pc |-> "analyse", items |-> page \cap Known])
  /\ UNCHANGED <<time, lock, data, history>>

FetchFails(w) ==
  /\ worker[w].pc = "fetch" /\ Fail("fetch")
  /\ To(w, [pc |-> "read"])
  /\ UNCHANGED <<time, lock, data>>

(* An analysis is remembered by the report's name. *)
Calls(items) == Cardinality({ReportName[f] : f \in items})

(* All of them are analysed by the model, upserted and committed.          *)
Store(w) ==
  /\ worker[w].pc = "analyse"
  /\ Calls(worker[w].items) <= CallLimit
  /\ stored' = stored \cup worker[w].items
  /\ To(w, [pc |-> "read"])
  /\ UNCHANGED <<time, lock, filed, reports, history>>

(* One analysis fails, or the limit of calls is reached: all are rolled    *)
(* back, and the collector swallows it.                                    *)
AnalysisFails(w) ==
  /\ worker[w].pc = "analyse" /\ worker[w].items # {}
  /\ "analysis" \in Faults \/ Calls(worker[w].items) > CallLimit
  /\ Failure
  /\ To(w, [pc |-> "read"])
  /\ UNCHANGED <<time, lock, data>>

-----------------------------------------------------------------------------
(* update_from_disclosure_date *)

(* Mutant: disclosures that name no report are not passed over. *)
ReadAll(w) ==
  /\ worker[w].pc = "read"
  /\ To(w, [pc |-> "report", items |-> stored \cap Today])
  /\ UNCHANGED <<time, lock, data, history>>

(* The stored disclosures of today that name a report. *)
ReadReports(w) ==
  /\ worker[w].pc = "read"
  /\ To(w, [pc |-> "report", items |-> stored \cap Today \cap Periodic])
  /\ UNCHANGED <<time, lock, data, history>>

(* Each report is fetched and committed by itself; there may be none.      *)
SaveReport(w) ==
  /\ worker[w].pc = "report"
  /\ \E f \in worker[w].items :
       /\ reports' \in {reports, reports \cup {f}}
       /\ To(w, [worker[w] EXCEPT !.items = @ \ {f}])
  /\ UNCHANGED <<time, lock, filed, stored, history>>

(* The first that fails ends the rest; _run_batch_job_locked swallows it.  *)
ReportFails(w) ==
  /\ worker[w].pc \in {"read", "report"} /\ Fail("reports")
  /\ To(w, Done)
  /\ UNCHANGED <<time, lock, data>>

-----------------------------------------------------------------------------
(* Mutant: the lock stays with the pooled connection. *)
ReleaseNothing(w) ==
  /\ worker[w] = Done /\ lock = w
  /\ To(w, Waiting)
  /\ UNCHANGED <<time, lock, data, history>>

Release(w) ==
  /\ worker[w] = Done /\ lock = w
  /\ lock' = NoWorker
  /\ To(w, Waiting)
  /\ UNCHANGED <<time, data, history>>

(* The session that holds the lock breaks: MySQL frees it, the collectors, *)
(* which use connections of their own, go on.                              *)
LoseSession(w) ==
  /\ lock = w /\ "session" \in Faults
  /\ lock' = NoWorker
  /\ failed' = failed \cup {date} /\ lost' = lost \cup {date}
  /\ UNCHANGED <<time, worker, data, starts>>

(* RELEASE_LOCK on it raises, and nothing catches that: the thread ends.   *)
ReleaseFails(w) ==
  /\ worker[w] = Done /\ lock # w
  /\ To(w, Dead)
  /\ UNCHANGED <<time, lock, data, history>>

(* Shutdown or death of the process: its thread is a daemon, and MySQL     *)
(* frees the lock of a lost connection.                                    *)
Kill(w) ==
  /\ worker[w].pc # "down" /\ Fail("process")
  /\ lock' = IF lock = w THEN NoWorker ELSE lock
  /\ To(w, Down)
  /\ UNCHANGED <<time, data>>

-----------------------------------------------------------------------------
(* The backfills, run by hand: fetch_and_save_dart_disclosures commits all *)
(* filings of a security at a time, the fundamentals a report at a time.   *)
(* An error ends the first and is counted by the second.                   *)
BackfillFilings(c) ==
  /\ stored' = stored \cup {f \in Known : Company[f] = c /\ filed[f] # Unfiled}
  /\ UNCHANGED <<time, worker, lock, filed, reports, history>>

BackfillReport(f) ==
  /\ f \in Known /\ filed[f] # Unfiled
  /\ reports' = reports \cup {f}
  /\ UNCHANGED <<time, worker, lock, filed, stored, history>>

Collect(w) ==
  \/ Fetch(w) \/ FetchFails(w) \/ Store(w) \/ AnalysisFails(w)
  \/ ReadReports(w) \/ SaveReport(w) \/ ReportFails(w)

Run(w) ==
  \/ ConnectFails(w) \/ Acquire(w) \/ Skip(w) \/ Collect(w)
  \/ Release(w) \/ ReleaseFails(w)

Next ==
  \/ Close \/ Midnight
  \/ \E f \in Filings : File(f)
  \/ \E w \in Workers : Start(w) \/ Run(w) \/ LoseSession(w) \/ Kill(w)
  \/ \E c \in Securities : BackfillFilings(c)
  \/ \E f \in Periodic : BackfillReport(f)

(* A thread that can run does. *)
Spec ==
  /\ Init /\ [][Next]_vars
  /\ \A w \in Workers : WF_vars(Run(w))

-----------------------------------------------------------------------------
(* The time, the threads and the tables are well formed; only disclosures  *)
(* of known securities are stored, only periodic ones make reports.        *)
Thread ==
  {Down, Dead, [pc |-> "fetch"], [pc |-> "read"]}
  \cup [pc : {"wait"}, due : 1..(MaxDate + 1)]
  \cup [pc : {"analyse"}, items : SUBSET Known]
  \cup [pc : {"report"}, items : SUBSET (Known \cap Periodic)]

BatchTypeOK ==
  /\ date \in 1..MaxDate /\ closed \in BOOLEAN
  /\ worker \in [Workers -> Thread]
  /\ lock \in Workers \cup {NoWorker}
  /\ filed \in [Filings -> [date : 0..MaxDate, early : BOOLEAN]]
  /\ stored \subseteq Known /\ reports \subseteq Known \cap Periodic
  /\ starts \in 0..MaxStarts
  /\ failed \subseteq 1..MaxDate /\ lost \subseteq failed

(* Of all the processes that wake at 16:30 two are at the batch together   *)
(* only when the session with the lock broke that day, and the lock never  *)
(* outlives its batch, be threads skipped, failing or killed at any moment *)
(* (batch_cron.py:22-46).                                                  *)
OneBatchAtATime ==
  /\ \A v, w \in AtWork : v = w \/ date \in lost
  /\ lock \in AtWork \cup {NoWorker}

(* A disclosure of a known security filed before 16:30 of a day with no    *)
(* more filings than a page is stored if a thread was waiting for that     *)
(* 16:30 and nothing failed that day: what failed, skipped or died on      *)
(* other days does not matter (batch_cron.py:30-87, dart_collector.py:180).*)
TimelyFilingStored ==
  \A f \in Known, d \in 1..MaxDate :
    LET crowded == Cardinality({g \in Filings : filed[g].date = d}) > PageSize IN
    ( /\ filed[f] = [date |-> d, early |-> TRUE]
      /\ date = d /\ \E w \in Workers : Due(w) )
    ~> f \in stored \/ d \in failed \/ crowded
=============================================================================
