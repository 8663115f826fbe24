# Verification of the investory simulation API

TLA+ models of the simulation backend in `src/`, checked with TLC on small
instances and proved with TLAPS for every value of the constants where section 4
says so. Every definition is translated from the source named in `PROJECT.json`
under `map`.

## 1. Inventory

| Component | State | Operations | What is hard |
|---|---|---|---|
| Run service (`simulation_run_service.py`) | `simulation_runs` rows, the thread pool's queue | `POST /run`: resolve, look for a reusable run, reserve, submit; a worker loads, computes, saves, reports | any stage may raise in a thread nobody waits for; shutdown cancels the queue; a crash loses everything but the rows |
| Run persistence (`db_persistence.py`) | `simulation_runs`, variants, trades, daily performance, `report_json` | reserve, two-commit save, mark failed, find existing, load by id, save report | two transactions per save; a save that fails half-way; readers between them |
| Detail cache and narratives (`simulation.py`, `report_generator.py`) | `SIMULATION_RUN_CACHE`, `REPORT_NARRATIVE_IN_PROGRESS`, daemon threads | `GET /{id}`, `GET /{id}/report`, background enrichment | mutable shared entries without a lock; three schedulers of one narrative; stale overwrites; a model that may rewrite the proposed values |
| Bot compilation (`simulation.py`, `repository.py`, `compiler.py`) | `COMPILE_JOB_CACHE`, `COMPILE_IN_PROGRESS`, `personal_bot_versions` | `POST /bots/compile`, background task, poll | check-then-act across two lock sections; unique index; restart empties the caches |
| Backtest engine (`backtest.py`, `models.py`) | portfolios, pending orders, audits, peaks | day loop, order execution, valuation | deposits must be fair and neutral; no look-ahead; every order audited once |
| Strategies (`strategies.py`, `evaluator.py`, `strategy_catalog.py`) | per-strategy memory | signals of a day | recorded trades moved to trading days; rule evaluation |
| Principles (`principles.py`, `report_analysis.py`, `strengthen_spec.py`) | `principle_set_items`, `principle_proposal_applications`, confirmations, the stored report | judge trades by rules, propose a tightening, have a model reword and revalue it, accept it (idempotent), save principles | concurrent acceptances and retries; a proposal accepted later than it was made, or rewritten in between; clamping and rounding of thresholds |
| Holding snapshots and initial capital (`holding_snapshot_service.py`, `repository.py`, `capital_calculator.py`, backfill script) | `holding_snapshots`, `trades`, `trade_matches` | rebuild backwards and forwards, persist, replace, load what a simulation starts with | sales of more than is held, trades imported late, days without a price, partial replacement |
| Daily batch and collectors (`collectors/`) | a thread per process, a MySQL named lock, disclosure and fundamentals tables; price and index tables | one batch a day, backfills | many processes wake together; one stage failing; a thread or a database session dying |
| Connection pool (`db_persistence.py`) | SQLAlchemy pool | checkout, return | requests that hold one connection and need a second |
| Analytics, report text, prompts, LLM client, formatting, auth, configuration | none of their own | pure functions and wiring | floating point; not modelled |

Interaction: an HTTP thread runs `run_sync_phase` and queues `run_async_phase`
on the pool; the worker writes the row a client polls, stores the report, and
starts a daemon thread for the narrative; readers share the process-wide cache
with the worker and with that thread. A compiled bot is an input of a run and
part of the question a stored run is reused for. The run's worker calls the
backtest engine, which is single-threaded, on the holdings and the capital that
snapshot loading yields. The report of a run stores the proposals that an
acceptance later applies to the user's principles, from which the next bot is
compiled; the narrative stores that report again, with the values the model
answered where they pass a check. The batch and the backfills fill the tables
the runs read.

What makes each correct is listed under the modules below; what could go wrong,
with the line where it bites, is listed in `PROJECT.json` under `hazards`.

## 2. Modules

- `ResultBoard` - the promise to a polling client: a run is opened once, its
  results are readable before it is called COMPLETED, FAILED is the last word.
- `SimulationRun` - the run service over it. `row`, `results`, `asked` and
  `nextRun` are the database; `job`, `queue`, `req` and `server` the process.
  One action per stage of `run_sync_phase` and `run_async_phase`; `Raise`,
  `SaveRaises` and `MarkRaises` are the exception paths, `Shutdown` and
  `Restart` the process. `Faults` names the stages that may raise in a run.
- `ReportNarrative` - extends `SimulationRun` with the report column, the cache,
  the in-progress set, the narrative threads and the readers. Each action of
  `SimulationRun` is taken with what it does to these (`CacheHit`,
  `StoreReport`, `CacheResponse`, ...). A cache entry is a mutable object: a
  thread or reader that fetched it holds it (`held`) until somebody replaces
  it, and works on an orphan then.
- `CompileJob` - `POST /bots/compile` and its background task: `Posts` are the
  calls and the jobs they may open. Look-up, check, registration, claim, model
  call, insert, recovery, publication and the release of the slot are separate
  steps, because other threads run between them.
- `BacktestEngine` - the day loop and order execution over arbitrary orders.
  Money is a whole number. A share costs a spread instead of percentages, which
  keeps what the properties depend on: a purchase costs more than the open, a
  sale brings less. Average prices and growth rates are left out.
- `StrengthenSpec` - `strengthen_spec.py` as operators: the table of tunable
  rules with their limits, and the value proposed for one from the current value
  and the evidence (quartile or relative step, clamp, rounding, the final
  refusal of what would not tighten). Values are steps of a grid, `Grain` to a
  unit; between reading and rounding the code computes with fractions, here with
  400ths of a grid step.
- `PrincipleReport` - extends it: which rules of a principle a measured trade can
  be judged by, which it violates, which rule the report singles out, and the
  proposals the rule engine makes for a run (`report_analysis.py`).
- `PrincipleProposals` - extends `PrincipleReport` with the stored reports, the
  tables and the requests. `Evaluate` is a run reading the principles it is
  judged by: `drafts` are the reports any later build of it may yield (a GET may
  measure the trades by other prices than the job did). `Report` stores one of
  them, over whatever is stored; `Narrate` stores one as `_merge_narratives`
  leaves it: `Mergeable` is its check of a model's value, which admits the
  current value, fractions of whole units and a value for a proposal that had
  none. `Inherit` gives a run a report an earlier version stored. A transaction
  of `POST /principles/proposals/accept` is its `INSERT IGNORE` (which waits for
  whoever holds the key), the snapshot its first plain SELECT opens, and its
  commit or rollback; the save of `POST /principles`, confirmations, new sets of
  the principle service and rewritten reports happen in between. The report
  lists a user's items by `sort_order` and id; an acceptance that names no item
  sorts by `sort_order` alone, so of a tie it may take either.
- `HoldingSnapshots` - the trades, the calendar of prices and the snapshot table
  of one account. `Forward`, `Backward` and `Remaining` are the three ways the
  code works out past holdings: a replay, recursive over the set of the trades
  carried out, its reversal, and the FIFO matching, recursive over pairs of a
  purchase and a sale. `Loaded` and `InitialCapital` are what a simulation
  starts with; `Build`, `ReadSynced`, `Insert`, `Persist` and
  `Replace` are the steps of the service and of its script. The broker's sync
  and the matching of sales with purchases are external: only their tables are
  known. Quantities only; costs and market values are left out.
- `DailyBatch` - the scheduler thread of every process, the 16:30 wait, the
  named lock, both collectors of the day and the backfills beside them. A
  thread goes from `wait` over `fetch`, `analyse`, `read` and `report` back to
  `wait`, or ends in `dead`. `LoseSession` breaks the session that holds the
  lock, `Kill` a process. `failed` and `lost` record the days of such faults.
  `Calls` counts the model calls a day's filings need: filings of one name share
  an answer.
- `SimulationRunProofs`, `NarrativeProofs`, `CompileJobProofs`,
  `BacktestProofs`, `PrincipleProofs`, `HoldingSnapshotProofs`,
  `DailyBatchProofs` - the theorems about the modules they are named after;
  `PrincipleProofs` also has those about `StrengthenSpec`, and `NarrativeProofs`
  is about `ReportNarrative` and extends `SimulationRunProofs`.
- `SetSums` - lemmas the proofs share: induction over numbers and over finite
  sets, functions recursive over the subsets of a set, sums over finite sets.
- `MCSimulationRun`, `MCReportNarrative`, `MCBacktestEngine`,
  `MCPrincipleProposals`, `MCHoldingSnapshots`, `MCDailyBatch` - constants for
  TLC.

Definitions whose comment begins with "Mutant:" are not part of a model. Each is
a plausible mistake in the definition that follows it; putting it in that
definition's place makes the property named in `PROJECT.json` fail, which shows
that the property depends on the code.

## 3. Runs and bounds

| Run | Question | Bounds |
|---|---|---|
| `run_safety` | Who owns a RUNNING row, what does a reused run answer, does the service implement `ResultBoard`, does a row whose process lives become COMPLETED or FAILED? | 2 calls, 1 worker, 2 rows, 2 bots compiled meanwhile, 1 restart, every stage may raise, the marking too |
| `run_orphan` | Is a row settled if the process does not live? No: finding 1 | 1 call, 1 restart |
| `narrative_restart` | Are set, threads, cache and rows in agreement, does a narrative end? | 2 calls, 1 row, 1 reader, 2 threads, 1 restart; a second call is answered from the stored run |
| `narrative_readers` | Who wins when two readers and the job schedule and store? | 1 call, 2 readers, 2 threads |
| `compile_jobs` | Is every job pollable, answered rightly and over at last? | 3 posts of one user, 2 inputs, 1 restart |
| `compile_race` | At most one compilation per user? No: finding 2 | 2 posts, 1 input |
| `backtest` | Are money, deposits, orders and audits accounted for? | 3 days, 3 orders, 1 security with two price shapes or no price, a bot and the user |
| `principles` | Is a proposal applied once and answered alike; does neither a stored proposal nor its acceptance by an unchanged rule loosen it, whatever the model answers? | 2 requests, 2 runs, 2 sets, 2 items, 1 list of measured trades, 2 old reports, 2 answers for one rule and 1 for another, 1 confirmed value, 1 save; clients and runs are symmetric |
| `principles_loosen` | Can an acceptance loosen a rule? Yes: finding 3 | 2 requests, 2 runs, 3 items, 2 lists of measured trades, a model that is not asked |
| `snapshots` | Do the reconstructions agree, what explains a shortfall, does a simulation start with what was held where nothing was traded after the rebuilt day it loads, is a replacement whole? | 2 securities, 3 days, up to 3 trades imported in any order, 2 calendars, the broker reporting day 1 or 3, 1 backfill, the table with and without a unique key |
| `snapshots_soldout` | Does it start with what was held just before it, whatever was traded? No: finding 4 | as above |
| `batch` | Is there one batch at a time, is a timely filing stored? | 2 processes, 2 dates, 3 filings of 2 names, pages of 2, 1 model call, 2 starts, every fault |

Why the bounds are enough to be interesting: two calls and two rows give a
completed run to reuse, a newer one that hides it, and a bot compiled between
question and reuse; one worker makes the queue fill. One restart reaches every
stage, as it may come at any point. Two narrative threads suffice to violate
`OneNarrativeAtATime`; two readers and the job are the three schedulers. Three
posts let a third arrive after the second has overwritten the first's slot. In
the backtest three orders suffice for two that compete for one balance and one
of the user's that needs a deposit, over a first day (the baseline), a middle
day and a last day whose orders never fill. Two runs' proposals for one rule of
one item suffice for an acceptance in the wrong order, and a second set and a
second item for a discovery and for a set that is new while a request is under
way. Of the model's answers one tightens the item's value or repeats the
confirmed one, and two are looser than any current value and refused. In
`principles` a save after a new set, which needs a third item, a report built
again from other measurements, and answers in fractions are outside the bounds;
the theorems cover them. Three trades on three days give a sale of more than is
held, before, between and after purchases, and trades imported after a rebuild.
Two processes contend for one lock; with two filings to a page and three filings
a day may be crowded, and with one model call for two names the limit of calls
is met; the second date shows whether what failed on the first matters.

Symmetry is used in `principles` only, which checks no liveness.

Runs stop (`CHECK_DEADLOCK FALSE`) because every model is finite: each call is
made once, the period of a backtest ends, and the bounds on rows and restarts
are reached.

Bounds on counters: `MaxRuns`, `MaxBots`, `MaxRestarts`, `MaxOrders`, `MaxSets`,
`MaxItems`, `LastDay`, `MaxTrades`, `MaxCopies`, `MaxDate`, `MaxStarts`, and the
size of `Threads`.

### Fairness

Weak fairness of each request's own steps, of the pool, of each job's steps, of
each narrative thread and of each reader: the operating system runs threads that
have work, and the calls they wait for (database, model) have timeouts, so they
answer or raise. No fairness for clients, for compilations, for a shutdown or a
crash. A fair step may be the failing one: which stage raises is never assumed.
In `DailyBatch` only a scheduler thread's own steps are fair, not the clock, the
companies, the starts and deaths of processes, lost sessions or backfills. One
assumption about time is in the model itself: midnight waits for threads that
are due or at work, that is, a night is longer than a batch.
`PrincipleProposals` and `HoldingSnapshots` check no liveness and state no
fairness.

### Findings

1. `run_orphan`: a shutdown cancels queued jobs and a crash loses running ones;
   no startup code settles their RUNNING rows. The README promises that a client
   never polls RUNNING for ever.
2. `compile_race`: the check and the claim of the user's compilation slot are
   two lock sections, so an impatient second click may call the model twice.
3. `principles_loosen`: an acceptance merges its stored patch into whatever rule
   the item has by then; a proposal of an older run, accepted after a tighter
   one, loosens the threshold, although a comment says it tightens it.
4. `snapshots_soldout`: a position of zero gets no row, so after selling
   everything the newest day with rows is the last one with shares; a simulation
   that starts later loads them, although `repository.py:773` speaks of the
   holdings just before its start.

Seen while modelling and not given a run of their own:

- a run may be narrated more than once, one narrative after the other: the job's
  cache entry may bring PENDING back after the narrative was stored
  (`simulation_run_service.py:704`), the thread has left the set by then
  (`simulation.py:157-159`), and the next `GET /report` schedules again (`:950`).
  The docstring at `simulation.py:102` says "at most one";
- the docstring of `_merge_narratives` (`report_generator.py:260`) says that
  numbers and rule JSON are never accepted; the code takes a `proposedValue` and
  writes `ruleJson` from it (328-351), as
  `test_existing_explicit_rule_is_reinforced_and_valid_llm_value_is_applied`
  expects. Such a value may equal the current one, may be a fraction where the
  rule counts whole units, and may give a patch to a proposal of which
  `report_analysis.py:646-647` says that it must not change the rule. A switch
  or threshold that has no current value takes any value in range, a switch
  thus the permissive one too. What the check does keep is
  `ProposalsNeverLoosen`;
- COMPLETED is committed before the report is stored, although a comment
  (`simulation_run_service.py:627`) says `GET /{id}` can read it right after
  COMPLETED;
- the comment at `batch_cron.py:22-26` promises one batch a day; a process that
  wakes once the lock has been given back runs it again, which stores the same;
- the script's `--overwrite-synced` only inserts, beside the rows that are there
  or into a duplicate key;
- the message at `dart_collector.py:41` announces that rules take over when the
  model fails; the caller rolls the whole day back instead.

## 4. What is proved

`SimulationRunProofs`, from `RunAssumption` (workers and bounds are natural
numbers, there is at least one worker, the faults are stages) and nothing else:

- `TypeCorrect`, `RunningRowsAreOwned`, `HitsServeTheQuestion`: the three
  invariants of `run_safety`, for any number of requests, workers, rows,
  restarts and participants;
- `ImplementsResultBoard`: `Spec => Board!BoardSpec`.

None of them is inductive alone. The inductive invariant `RunInv` adds
`RowsAhead` (an id not handed out yet is ABSENT), `NoEarlyJob` (an ABSENT row has
no job), `JobMatchesRow`
(a job before its second commit has a RUNNING row; past the first commit it has
results), `SubmitHoldsRow` (a request about to submit holds a RUNNING row that
no other request and no job has) and `CompletedHasResults`, which is what makes
a hit's results exist; `HitAnswers` says of a hit not yet served what
`HitServesQuestion` says of one that is. Each action is shown to preserve them in
a lemma or a step of its own; the refinement then reads off `RunInv` that the row
an action moves is in the state the board's action asks for.

`NarrativeProofs`, from `RunAssumption`, for any number of requests, rows,
readers, narrative threads and restarts:

- `NarrativesKeepTheBoard`: every step of `ReportNarrative` is one of
  `SimulationRun` or leaves its state alone (`StepsOfRun`), so `RunInv` and the
  refinement of `ResultBoard` carry over with the cache, readers and narratives
  around the service;
- `NarrativesAreTyped`, `NarrativesAreExclusive`, `CacheStaysBacked`: the
  invariants that hold whatever raises. `NarrativeInv` adds to `RunInv` that the
  run of every narrative thread is in the set, which is what excludes a second
  thread, that whoever holds a cache entry finds it in the cache (an orphan is
  nobody's), and that a reader about to store one has seen committed results;
- `ScheduledIsAlive`: where threads can be started, that is, under
  `"schedule" \notin Faults`, an id in the set has a thread. Without that it is
  false: a `Thread.start` that fails leaves its id in the set, which is a hazard
  without a property. `narrative_restart` makes the same assumption
  (`ThreadsStart`);
- `NarrativeComesSecond`: under `"saveReport" \notin Faults`, as in
  `narrative_readers` (`ReportsStored`), `DeterministicFirst`. The worker
  swallows a failed save of the report and schedules the narrative all the same,
  which then is the first thing stored. `StoredInv` says that whoever may
  schedule, and every cache entry with a report, has a report in its row, and
  that rows lose none.

`CompileJobProofs`, from `CompileAssumption`: `TypeCorrect`,
`PublishedBotsAnswer`, `ToldJobsAreKnown` and the action property
`SlotsReleasedByOwner`, for any number of posts, jobs and restarts. `CompileInv`
adds `NoEarlyTask` (a post has no task before it claimed the slot, and no cache
entry before it registered one), `PublisherHasBot` (a task about to publish has
found a stored bot of its own input), `CompletedIsOver` (once COMPLETED is
written the task touches its bot no more), `SlotIsKnown` (the job in a user's
slot has a cache entry, which a client told of it relies on) and `ToldOfJob`.

`BacktestProofs`, from `EngineAssumption`: `BacktestIsTyped`,
`BotsNeverOverdraw`, `DepositsStayEqual`, `DepositsStayBooked`,
`PeakTakesDepositsOut`, `NoLookAhead`, `OrdersSettleOnce` and
`AuditTrailIsComplete`, for any number of bots, securities, days and orders, any
prices and any strategy. The assumption that matters is that the spread is at
most the open: the slippage and fee rates of the code are far below one, so that
selling always brings something. The universe is finite because it is read from
a table. `ExecuteEffect` says once what a fill may do; the invariant
`BacktestInv` then has five parts. `QueueInv` keeps each queue free of
duplicates and of orders of other bots or of the same day (`PendingDistinct`,
`WaitingOrders`): without it an order could fill twice, or on its own day.
`MoneyInv` adds `FlowsAddUp` (deposits are booked but for those of the day).
`AuditInv` is `EveryOrderAuditedOnce` with `FillsFollowSignals`: an order's one
audit is written by the fill that takes it off its queue. `ValueInv` adds that
values and peaks are whole sums and that the peak is the best of the account's
own equity with all deposits but those of a day not yet closed (`PeakFollows`).
`HoldingInv` is `AuditsExplainHoldings`: a fill changes one holding by what its
audit approves, and of the sums over all orders of that security it changes one
term (`SetSums`).

`PrincipleProofs`, from `StrengthenAssumption`, `ReportAssumption` (the rules
in use are among those a trade can be judged by, whose table rows are numeric
or switches) and `PrincipleAssumption` (the bounds and the types of the inputs,
proposals of earlier versions included), for any number of requests, runs, sets,
items, trades and rules and any mix of acceptances, saves, confirmations and
rollbacks. First the proposals:

- `ThresholdNeverLoosens`: whatever the current value and the evidence, the
  threshold `_numeric_proposal` yields for a rule whose limits are whole grid
  steps lies within them and admits nothing the current one refuses. The lemmas
  say that rounding cannot leave the side of a grid value it is on, that a
  clamped value is within the limits, and that a count stays whole through
  clamping and rounding (`ThresholdIsWhole`), its limits being whole units;
- `StoredNeverLoosen`: every proposal the rule engine drafts is allowed and
  strictly tighter, or changes no value; every proposal in a stored report,
  whatever model answers were merged into it and whatever report it replaced, is
  in the rule's range and not looser than the value it was made for. That it
  tightens is claimed of the drafts only: a merged value may repeat the current
  one. Reports of an earlier version are exempt. `SpecIs` walks the table. A
  sorted sample exists for any finite number of trades (`OrderExists`), so the
  quartile is a whole fine value; a rule without a value has no sample to
  propose from (`NothingToFollow`), so `FirstThreshold`, which does not round to
  whole units, yields nothing for a rule a report judges.

Then the tables. `BookInv` has `TablesOK` (rows are those of a known set),
`ReportsOK` (a run's drafts tighten and its stored proposals do not loosen,
unless they are an earlier version's) and `RequestsOK` (the proposal a request
took from a report, which may have been replaced since, does not loosen, and the
set and the item it has read are there still). That last part depends on other
requests; `Grows` is what each of their steps guarantees: items and sets are
only added, and a run that has drafts keeps them.

- `PrinciplesAreTyped`; `SavedFormed` follows the list of `POST /principles`
  entry by entry;
- `FreshAcceptsNeverLoosen`: the request that finishes while an application
  appears is the one that applies it (`OnlyApplyReinforces`), and it changes one
  value of the rule of one item, the one its proposal names (`ApplyReinforces`).
  That this value is not looser is claimed, and true, only if it is still the
  one the proposal was made for; without that it fails (`principles_loosen`);
- `KeysAreHeldInFlight`, `ProposalsApplyOnce`, `AllAnswersAgree`. `AcceptInv`
  adds `AcceptType` and `ClaimIsNew` (a request between its INSERT and its commit
  works on an application not yet on record); with `KeysHeldInFlight` it gives
  that a commit never meets another of the same key. It is inductive relative to
  `BookInv`, which knows that a proposal's number is part of a key.

`HoldingSnapshotProofs`, from `SnapshotAssumption`, for any finite set of
securities, any trades, calendars, broker reports and number of backfills.
First the history by itself, in each state:

- `ShortfallsAlwaysExplain`: a replayed position is what was traded plus the
  adjustments, and these add up to the least opening holding the trades need. By
  induction on the set of trades carried out: each sale of more than is held
  raises the adjustments to the new low of the running balance;
- `HistoriesAlwaysAgree`: without shortfalls the replay, the reversal from any
  later day and the matches agree. `ReversedIs` says the reversal takes off what
  was traded since. For the matching, `Fair` bounds what a pair may take by what
  both still have, and `EarlierMatchesStay` that later pairs take nothing back;
  a sale left open would mean that all purchases before it are used up, and
  counting contradicts that nothing was short (`SalesAreMatched`).

Then the table. `StoreInv` has `HistoryOK` (trades and prices are those of a
known table), `RowsOK` (rows are of a day, a security and a quantity), `Follows`
(rows rebuilt from all the trades are whole days of a rebuild now) and `JobsOK`
(what a backfill carries from one transaction to the next does so too, or the
trades have changed since). From it `SnapshotsAreTyped`, `LoadIsAlwaysHeld`
(what a simulation starts with is what the account holds just before it, from
the trades or from the last day with rows, if that was rebuilt from all the
trades and nothing was traded after it; nothing if it is refused) and the action
property `DaysAreReplacedWhole`: the step that takes a day away puts a whole
reconstruction in its place, which is not empty.

`SetSums` has no theorem of the system. Operators with an operator parameter
cannot be used in proofs, so induction takes the form of a set: the set of those
n, or of those finite S, of which a claim holds contains 0, or {}, and is closed
under one step. That lets the recursive functions of `HoldingSnapshots` and the
sums of `BacktestEngine` be proved about.

`DailyBatchProofs`, from `BatchAssumption`: `BatchTypeInvariant` and
`BatchIsExclusive`, for any number of processes, filings and days and any
faults. `OneBatchAtATime` is not inductive alone, as it does not say which of
the threads has the lock: `BatchInv` adds `WorkersHold` (whoever is at the batch
holds the lock, or it was lost today) and `HolderWorks`.

Only model-checked:

- liveness (`RunSettlesInProcess`, `NarrativeEnds`, `CompletedGetsReport`,
  `PollEnds`, `SlotFrees`, `TimelyFilingStored`): the prover handles neither
  fairness nor ENABLED.

## 5. Not modelled, and what is left

- Analytics, charts, the wording of reports (the values a narrative changes are
  modelled), rationale snapshots, formatting,
  prompts: numbers in floating point or text, computed from finished runs
  without state of their own.
- The choices of the bots' strategies and the evaluator's scores: floating
  point over prices. The engine's properties hold for any orders, so for theirs.
  A recorded trade after the last trading day is never replayed
  (`strategies.py:120`); the engine's recorded trades are those with a day.
- The connection pool: SQLAlchemy's, whose checkout ends by a timeout of real
  time. That requests hold one connection and ask for a second is listed as a
  hazard.
- Lazy creation of the run executor without a lock, in the first requests of a
  process.
- The history list, the list of principles, and validation of a rule's JSON
  shape: they only read.
- Downloads of prices and indices, and the analysis of a disclosure: external
  data, upserted page after page.
- Configuration, authentication, metrics, the HTTP clients, mock data.
- Hazards without a property say in `PROJECT.json` why.

What a next step could add: the replay of recorded trades onto trading days as
a module that refines the open strategy of `BacktestEngine`.
