----------------------------- MODULE CompileJob -----------------------------
(***************************************************************************)
(* POST /bots/compile and its background task.  A bot compiled from the    *)
(* same input is reused; a post that finds a job of its user under way is  *)
(* told to poll that one; otherwise it registers a job of its own, whose   *)
(* task asks the model, saves an immutable bot under a unique              *)
(* (user, input hash) index and publishes the result for the poller.       *)
(* bot_version (MAX + 1, read before the insert) is not modelled.          *)
(***************************************************************************)
EXTENDS Naturals, FiniteSets

CONSTANTS
  Posts,        \* POST /bots/compile calls; also the ids of the jobs they open
  Users,
  Inputs,       \* fingerprints of principles, profile and trade history
  NoJob,        \* stands for None
  MaxRestarts   \* bound: process deaths

ASSUME CompileAssumption == NoJob \notin Posts /\ MaxRestarts \in Nat

VARIABLES
  post,        \* calls: stage, user, input, and the job they were told to poll
  task,        \* stage of the background task of the job
  cache,       \* COMPILE_JOB_CACHE status of the job
  bot,         \* the bot the task got, named by the COMPLETED entry
  inProgress,  \* COMPILE_IN_PROGRESS
  saved,       \* personal_bot_versions, by the job that inserted the row
  restarts

cacheVars == <<cache, bot>>
vars == <<post, task, cache, bot, inProgress, saved, restarts>>

Working == {"compile", "save", "recover", "publish", "fail", "clear"}
PostPCs == {"idle", "find", "check", "register", "claim",
            "reused", "told", "refused"}

Init ==
  /\ post \in [Posts -> {[pc |-> "idle", user |-> u, input |-> i, job |-> NoJob] :
                           u \in Users, i \in Inputs}]
  /\ task = [p \in Posts |-> "none"]
  /\ cache = [p \in Posts |-> "absent"]
  /\ bot = [p \in Posts |-> NoJob]
  /\ inProgress = [u \in Users |-> NoJob]
  /\ saved = {}
  /\ restarts = 0

Goto(p, from, to) == post[p].pc = from /\ post' = [post EXCEPT ![p].pc = to]
Advance(p, from, to) == task[p] = from /\ task' = [task EXCEPT ![p] = to]

SameInput(p, b) == post[p].user = post[b].user /\ post[p].input = post[b].input
BotsFor(p) == {b \in saved : SameInput(p, b)}

-----------------------------------------------------------------------------
(* compile_simulation_bot *)

(* Resolve the account, load principles, profile and trades, hash them. *)
Fingerprint(p) ==
  /\ Goto(p, "idle", "find")
  /\ UNCHANGED <<task, cacheVars, inProgress, saved, restarts>>

(* SimulationDataError: 422.  Anything else that raises: 500. *)
Refuse(p) ==
  /\ \/ Goto(p, "idle", "refused")
     \/ Goto(p, "find", "refused")
  /\ UNCHANGED <<task, cacheVars, inProgress, saved, restarts>>

(* A stored bot answers at once, under a JOB_REUSED_ id that every poll    *)
(* can rebuild from the row.                                               *)
Reuse(p) ==
  /\ BotsFor(p) # {}
  /\ Goto(p, "find", "reused")
  /\ UNCHANGED <<task, cacheVars, inProgress, saved, restarts>>

NothingToReuse(p) ==
  /\ BotsFor(p) = {}
  /\ Goto(p, "find", "check")
  /\ UNCHANGED <<task, cacheVars, inProgress, saved, restarts>>

(* The lock is held for the read alone. *)
CheckInProgress(p) ==
  LET j == inProgress[post[p].user] IN
  /\ post[p].pc = "check"
  /\ post' = [post EXCEPT ![p] =
       IF j # NoJob THEN [@ EXCEPT !.pc = "told", !.job = j]
                    ELSE [@ EXCEPT !.pc = "register"]]
  /\ UNCHANGED <<task, cacheVars, inProgress, saved, restarts>>

(* Mutant: the RUNNING entry is left to the task to write. *)
RegisterNothing(p) ==
  /\ Goto(p, "register", "claim")
  /\ UNCHANGED <<task, cacheVars, inProgress, saved, restarts>>

Register(p) ==
  /\ Goto(p, "register", "claim")
  /\ cache' = [cache EXCEPT ![p] = "RUNNING"]
  /\ UNCHANGED <<task, bot, inProgress, saved, restarts>>

(* Whoever claimed meanwhile is overwritten; the task starts once the      *)
(* answer is out.                                                          *)
Claim(p) ==
  /\ post[p].pc = "claim"
  /\ post' = [post EXCEPT ![p] = [@ EXCEPT !.pc = "told", !.job = p]]
  /\ inProgress' = [inProgress EXCEPT ![post[p].user] = p]
  /\ task' = [task EXCEPT ![p] = "compile"]
  /\ UNCHANGED <<cacheVars, saved, restarts>>

-----------------------------------------------------------------------------
(* _compile_personal_bot_in_background *)

(* Mutant: an exception of the model goes straight to the finally block. *)
CompileUnhandled(p) ==
  /\ Advance(p, "compile", "save") \/ Advance(p, "compile", "clear")
  /\ UNCHANGED <<post, cacheVars, inProgress, saved, restarts>>

(* The model answers a valid schema, or RuleCompilationError is raised. *)
Compile(p) ==
  /\ Advance(p, "compile", "save") \/ Advance(p, "compile", "fail")
  /\ UNCHANGED <<post, cacheVars, inProgress, saved, restarts>>

(* The unique index refuses a second bot for the input. *)
SaveBot(p) ==
  /\ BotsFor(p) = {}
  /\ Advance(p, "save", "publish")
  /\ saved' = saved \cup {p}
  /\ bot' = [bot EXCEPT ![p] = p]
  /\ UNCHANGED <<post, cache, inProgress, restarts>>

(* Refused by the index, or failed otherwise: rolled back. *)
SaveFails(p) ==
  /\ Advance(p, "save", "recover")
  /\ UNCHANGED <<post, cacheVars, inProgress, saved, restarts>>

(* Mutant: the user's bot is looked up without the input hash. *)
RecoverAnyBot(p) ==
  /\ task[p] = "recover"
  /\ \/ \E b \in {x \in saved : post[x].user = post[p].user} :
          task' = [task EXCEPT ![p] = "publish"] /\ bot' = [bot EXCEPT ![p] = b]
     \/ task' = [task EXCEPT ![p] = "fail"] /\ UNCHANGED bot
  /\ UNCHANGED <<post, cache, inProgress, saved, restarts>>

(* find_compiled_personal_bot_by_input_hash; no row, or it raises: re-raise.*)
Recover(p) ==
  /\ task[p] = "recover"
  /\ \/ \E b \in BotsFor(p) :
          task' = [task EXCEPT ![p] = "publish"] /\ bot' = [bot EXCEPT ![p] = b]
     \/ task' = [task EXCEPT ![p] = "fail"] /\ UNCHANGED bot
  /\ UNCHANGED <<post, cache, inProgress, saved, restarts>>

(* The bot is loaded again and _completed_compile_response writes the      *)
(* entry as its last effect; what raises in it raises before.              *)
Publish(p) ==
  /\ \/ Advance(p, "publish", "clear") /\ cache' = [cache EXCEPT ![p] = "COMPLETED"]
     \/ Advance(p, "publish", "fail") /\ UNCHANGED cache
  /\ UNCHANGED <<post, bot, inProgress, saved, restarts>>

(* Mutant: the entry gets a status no client knows. *)
FailJobUntyped(p) ==
  /\ Advance(p, "fail", "clear")
  /\ cache' = [cache EXCEPT ![p] = "ERROR"]
  /\ UNCHANGED <<post, bot, inProgress, saved, restarts>>

(* The outer handler: FAILED, with the error's message. *)
FailJob(p) ==
  /\ Advance(p, "fail", "clear")
  /\ cache' = [cache EXCEPT ![p] = "FAILED"]
  /\ UNCHANGED <<post, bot, inProgress, saved, restarts>>

(* Mutant: the slot is cleared without a look at whose it is. *)
ClearAnySlot(p) ==
  /\ Advance(p, "clear", "done")
  /\ inProgress' = [inProgress EXCEPT ![post[p].user] = NoJob]
  /\ UNCHANGED <<post, cacheVars, saved, restarts>>

(* Mutant: the slot is not cleared. *)
ClearNoSlot(p) ==
  /\ Advance(p, "clear", "done")
  /\ UNCHANGED <<post, cacheVars, inProgress, saved, restarts>>

(* finally: give the slot back, unless another job has it by now. *)
ClearSlot(p) ==
  /\ Advance(p, "clear", "done")
  /\ inProgress' = [inProgress EXCEPT ![post[p].user] = IF @ = p THEN NoJob ELSE @]
  /\ UNCHANGED <<post, cacheVars, saved, restarts>>

-----------------------------------------------------------------------------
(* The process dies: calls, tasks, cache and slots go, the bots stay. *)
Restart ==
  /\ restarts < MaxRestarts
  /\ restarts' = restarts + 1
  /\ post' = [p \in Posts |->
       IF post[p].pc \in {"idle", "reused", "told", "refused"} THEN post[p]
       ELSE [post[p] EXCEPT !.pc = "refused"]]
  /\ task' = [p \in Posts |-> IF cache[p] = "absent" THEN task[p] ELSE "lost"]
  /\ cache' = [p \in Posts |-> "absent"]
  /\ inProgress' = [u \in Users |-> NoJob]
  /\ UNCHANGED <<bot, saved>>

PostStep(p) ==
  \/ Refuse(p) \/ Reuse(p) \/ NothingToReuse(p)
  \/ CheckInProgress(p) \/ Register(p) \/ Claim(p)

TaskStep(p) ==
  \/ Compile(p) \/ SaveBot(p) \/ SaveFails(p) \/ Recover(p)
  \/ Publish(p) \/ FailJob(p) \/ ClearSlot(p)

Next ==
  \/ \E p \in Posts : Fingerprint(p) \/ PostStep(p) \/ TaskStep(p)
  \/ Restart

(* The model call has a timeout, so a task always goes on; so does a call  *)
(* once it has begun.  Clients need not post, and the process need not die.*)
Fairness == \A p \in Posts :
  WF_vars(post[p].pc # "idle" /\ PostStep(p)) /\ WF_vars(TaskStep(p))

Spec == Init /\ [][Next]_vars /\ Fairness

-----------------------------------------------------------------------------
TypeOK ==
  /\ post \in [Posts -> [pc : PostPCs, user : Users, input : Inputs,
                         job : Posts \cup {NoJob}]]
  /\ task \in [Posts -> Working \cup {"none", "done", "lost"}]
  /\ cache \in [Posts -> {"absent", "RUNNING", "COMPLETED", "FAILED"}]
  /\ bot \in [Posts -> Posts \cup {NoJob}]
  /\ inProgress \in [Users -> Posts \cup {NoJob}]
  /\ saved \subseteq Posts
  /\ restarts \in 0..MaxRestarts

(* A poller told COMPLETED is shown a stored bot of its user that was      *)
(* compiled from the job's own input, also when two jobs saved at once and *)
(* the index refused one of them (save_compiled_personal_bot).             *)
PublishedBotAnswersInput ==
  \A p \in Posts : cache[p] = "COMPLETED" => bot[p] \in saved /\ SameInput(p, bot[p])

(* A client told to poll a job can poll it until the process dies: the     *)
(* entry is there before the slot shows the job to others and is never     *)
(* taken away (get_compile_job_status answers 404 without one).            *)
ToldJobIsKnown ==
  \A p \in Posts : post[p].pc = "told" =>
    cache[post[p].job] # "absent" \/ task[post[p].job] = "lost"

(* A slot is given back only by the job it names, or by the process's      *)
(* death, although a later claim may have overwritten an earlier one.      *)
SlotReleasedByOwner ==
  [][\A u \in Users : inProgress[u] # NoJob /\ inProgress'[u] = NoJob
       => task[inProgress[u]] = "clear" \/ restarts' # restarts]_vars

(* "Never raises: ... every failure has to land in COMPILE_JOB_CACHE": a   *)
(* poller does not see RUNNING for ever.                                   *)
PollEnds == \A p \in Posts : cache[p] = "RUNNING" ~> cache[p] # "RUNNING"

(* A user is not told for ever to wait for the same job. *)
SlotFrees == \A u \in Users, p \in Posts : inProgress[u] = p ~> inProgress[u] # p

(* simulation.py, above COMPILE_IN_PROGRESS: "At most one in-flight compile*)
(* per user - a second POST while one is still running reuses the same job *)
(* instead of kicking off a duplicate LLM call".                           *)
AtMostOneCompile ==
  \A p, q \in Posts : p # q /\ post[p].user = post[q].user
    => ~(task[p] \in Working /\ task[q] \in Working)
=============================================================================
