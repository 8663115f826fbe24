-------------------------- MODULE CompileJobProofs --------------------------
(***************************************************************************)
(* Theorems about CompileJob, for every number of posts, users, inputs and *)
(* restarts: type correctness, that a published bot answers its input,     *)
(* that a job a client was told of is known, and who releases a slot.      *)
(***************************************************************************)
EXTENDS CompileJob, TLAPS

-----------------------------------------------------------------------------
(* The strengthening *)

Early == {"idle", "find", "check", "register", "claim"}

(* Until a call has claimed the slot its job has no task, and no entry     *)
(* before it registered one.                                               *)
NoEarlyTask ==
  \A p \in Posts : post[p].pc \in Early =>
    /\ task[p] = "none"
    /\ cache[p] = IF post[p].pc = "claim" THEN "RUNNING" ELSE "absent"

(* A task about to publish has found a bot that answers its input. *)
PublisherHasBot ==
  \A p \in Posts : task[p] = "publish" => bot[p] \in saved /\ SameInput(p, bot[p])

(* COMPLETED is written once the task will touch its bot no more. *)
CompletedIsOver ==
  \A p \in Posts : cache[p] = "COMPLETED" => task[p] \in {"clear", "done"}

(* A slot names a job that has an entry. *)
SlotIsKnown ==
  \A u \in Users : inProgress[u] # NoJob => cache[inProgress[u]] # "absent"

(* A told client was told of some job. *)
ToldOfJob == \A p \in Posts : post[p].pc = "told" => post[p].job \in Posts

CompileInv ==
  /\ TypeOK
  /\ NoEarlyTask
  /\ PublisherHasBot
  /\ CompletedIsOver
  /\ SlotIsKnown
  /\ ToldOfJob
  /\ PublishedBotAnswersInput
  /\ ToldJobIsKnown

-----------------------------------------------------------------------------
(* Nothing has happened yet. *)
LEMMA InitCompileInv == Init => CompileInv
<1> SUFFICES ASSUME Init PROVE CompileInv
  OBVIOUS
<1> DEFINE Fresh == {[pc |-> "idle", user |-> u, input |-> i, job |-> NoJob] :
                       u \in Users, i \in Inputs}
           Post == [pc : PostPCs, user : Users, input : Inputs, job : Posts \cup {NoJob}]
<1>1. post \in [Posts -> Fresh]
  BY DEF Init
<1>2. \A x \in Fresh : x.pc = "idle" /\ x \in Post
  BY DEF PostPCs
<1>3. post \in [Posts -> Post] /\ \A p \in Posts : post[p].pc = "idle"
  BY <1>1, <1>2
<1>4. TypeOK
  BY <1>3, CompileAssumption DEF Init, TypeOK, PostPCs, Working, CompileAssumption
<1> QED
  BY <1>3, <1>4 DEF Init, CompileInv, NoEarlyTask, PublisherHasBot, CompletedIsOver,
     SlotIsKnown, ToldOfJob, PublishedBotAnswersInput, ToldJobIsKnown, Early

(* No step changes what a call asked for. *)
LEMMA QuestionsStay ==
  ASSUME TypeOK, Next
  PROVE  \A p \in Posts : post'[p].user = post[p].user /\ post'[p].input = post[p].input
<1> USE DEF TypeOK, Goto, Advance
<1>1. ASSUME NEW p \in Posts, Fingerprint(p) \/ PostStep(p)
      PROVE  \A x \in Posts : post'[x].user = post[x].user /\ post'[x].input = post[x].input
  <2>1. CASE Fingerprint(p)
    BY <2>1 DEF Fingerprint
  <2>2. CASE Refuse(p)
    BY <2>2 DEF Refuse
  <2>3. CASE Reuse(p)
    BY <2>3 DEF Reuse
  <2>4. CASE NothingToReuse(p)
    BY <2>4 DEF NothingToReuse
  <2>5. CASE CheckInProgress(p)
    BY <2>5 DEF CheckInProgress
  <2>6. CASE Register(p)
    BY <2>6 DEF Register
  <2>7. CASE Claim(p)
    BY <2>7 DEF Claim
  <2> QED BY <1>1, <2>1, <2>2, <2>3, <2>4, <2>5, <2>6, <2>7 DEF PostStep
<1>2. ASSUME NEW p \in Posts, TaskStep(p) PROVE post' = post
  BY <1>2 DEF TaskStep, Compile, SaveBot, SaveFails, Recover, Publish, FailJob, ClearSlot
<1>3. CASE Restart
  BY <1>3 DEF Restart
<1> QED BY <1>1, <1>2, <1>3 DEF Next

(* Every step keeps the types. *)
LEMMA NextTypeOK == ASSUME TypeOK, ToldOfJob, Next PROVE TypeOK'
<1> USE CompileAssumption DEF TypeOK, CompileAssumption, PostPCs, Working, Goto, Advance
<1>1. ASSUME NEW p \in Posts, Fingerprint(p) \/ PostStep(p) PROVE TypeOK'
  <2>1. CASE Fingerprint(p)
    BY <2>1 DEF Fingerprint, cacheVars
  <2>2. CASE Refuse(p)
    BY <2>2 DEF Refuse, cacheVars
  <2>3. CASE Reuse(p)
    BY <2>3 DEF Reuse, cacheVars
  <2>4. CASE NothingToReuse(p)
    BY <2>4 DEF NothingToReuse, cacheVars
  <2>5. CASE CheckInProgress(p)
    <3>1. inProgress[post[p].user] \in Posts \cup {NoJob}
      OBVIOUS
    <3>2. CASE inProgress[post[p].user] # NoJob
      <4>1. post' = [post EXCEPT ![p] =
              [@ EXCEPT !.pc = "told", !.job = inProgress[post[p].user]]]
        BY <2>5, <3>2 DEF CheckInProgress
      <4>2. [post[p] EXCEPT !.pc = "told", !.job = inProgress[post[p].user]]
              \in [pc : PostPCs, user : Users, input : Inputs, job : Posts \cup {NoJob}]
        <5>1. post[p] \in [pc : PostPCs, user : Users, input : Inputs, job : Posts \cup {NoJob}]
          OBVIOUS
        <5>2. "told" \in PostPCs
          OBVIOUS
        <5> QED BY <3>1, <5>1, <5>2 DEF TypeOK
      <4>3. post' \in [Posts -> [pc : PostPCs, user : Users, input : Inputs,
                                job : Posts \cup {NoJob}]]
        BY <4>1, <4>2
      <4> QED BY <2>5, <4>3 DEF CheckInProgress, cacheVars
    <3>3. CASE inProgress[post[p].user] = NoJob
      <4>1. post' = [post EXCEPT ![p] = [@ EXCEPT !.pc = "register"]]
        BY <2>5, <3>3 DEF CheckInProgress
      <4> QED BY <2>5, <4>1 DEF CheckInProgress, cacheVars
    <3> QED BY <3>2, <3>3
  <2>6. CASE Register(p)
    BY <2>6 DEF Register
  <2>7. CASE Claim(p)
    <3>1. post' = [post EXCEPT ![p] = [@ EXCEPT !.pc = "told", !.job = p]]
      BY <2>7 DEF Claim
    <3>2. [post[p] EXCEPT !.pc = "told", !.job = p] \in
            [pc : PostPCs, user : Users, input : Inputs, job : Posts \cup {NoJob}]
      <4>1. post[p] \in [pc : PostPCs, user : Users, input : Inputs, job : Posts \cup {NoJob}]
        OBVIOUS
      <4>2. "told" \in PostPCs
        OBVIOUS
      <4> QED BY ONLY <4>1, <4>2
    <3>3. post' \in [Posts -> [pc : PostPCs, user : Users, input : Inputs,
                              job : Posts \cup {NoJob}]]
      BY <3>1, <3>2
    <3>4. task' \in [Posts -> Working \cup {"none", "done", "lost"}]
      BY <2>7 DEF Claim
    <3>5. inProgress' \in [Users -> Posts \cup {NoJob}]
      BY <2>7 DEF Claim
    <3>6. UNCHANGED <<cache, bot, saved, restarts>>
      BY <2>7 DEF Claim, cacheVars
    <3> QED BY <3>3, <3>4, <3>5, <3>6
  <2> QED BY <1>1, <2>1, <2>2, <2>3, <2>4, <2>5, <2>6, <2>7 DEF PostStep
<1>2. ASSUME NEW p \in Posts, TaskStep(p) PROVE TypeOK'
  <2>1. CASE Compile(p)
    BY <2>1 DEF Compile, cacheVars
  <2>2. CASE SaveBot(p)
    BY <2>2 DEF SaveBot
  <2>3. CASE SaveFails(p)
    BY <2>3 DEF SaveFails, cacheVars
  <2>4. CASE Recover(p)
    BY <2>4 DEF Recover, BotsFor
  <2>5. CASE Publish(p)
    BY <2>5 DEF Publish
  <2>6. CASE FailJob(p)
    BY <2>6 DEF FailJob
  <2>7. CASE ClearSlot(p)
    BY <2>7 DEF ClearSlot, cacheVars
  <2> QED BY <1>2, <2>1, <2>2, <2>3, <2>4, <2>5, <2>6, <2>7 DEF TaskStep
<1>3. CASE Restart
  BY <1>3 DEF Restart
<1> QED BY <1>1, <1>2, <1>3 DEF Next

(* Every step keeps the invariant, given the types after it. *)
LEMMA NextKeepsEntries ==
  ASSUME CompileInv, TypeOK', Next
  PROVE  NoEarlyTask' /\ CompletedIsOver' /\ SlotIsKnown' /\ ToldOfJob' /\ ToldJobIsKnown'
<1> USE CompileAssumption DEF CompileInv, TypeOK, CompileAssumption, NoEarlyTask, CompletedIsOver,
        SlotIsKnown, ToldOfJob, ToldJobIsKnown, Early, Goto, Advance, PostPCs, Working
<1>1. ASSUME NEW p \in Posts, Fingerprint(p) \/ PostStep(p)
      PROVE  NoEarlyTask' /\ CompletedIsOver' /\ SlotIsKnown' /\ ToldOfJob' /\ ToldJobIsKnown'
  <2>1. CASE Fingerprint(p)
    BY <2>1 DEF Fingerprint, cacheVars
  <2>2. CASE Refuse(p)
    <3>1. post[p].pc \in Early /\ post' = [post EXCEPT ![p].pc = "refused"]
      BY <2>2 DEF Refuse
    <3>2. /\ post'[p].pc = "refused"
          /\ \A x \in Posts : x # p => post'[x] = post[x]
      BY <3>1
    <3> QED BY SMTT(30), <2>2, <3>2 DEF Refuse, cacheVars
  <2>3. CASE Reuse(p)
    BY <2>3 DEF Reuse, cacheVars
  <2>4. CASE NothingToReuse(p)
    BY <2>4 DEF NothingToReuse, cacheVars
  <2>5. CASE CheckInProgress(p)
    <3>1. CASE inProgress[post[p].user] # NoJob
      <4>1. post' = [post EXCEPT ![p] =
              [@ EXCEPT !.pc = "told", !.job = inProgress[post[p].user]]]
        BY <2>5, <3>1 DEF CheckInProgress
      <4>2. /\ post'[p].pc = "told" /\ post'[p].job = inProgress[post[p].user]
            /\ \A x \in Posts : x # p => post'[x] = post[x]
        BY <4>1
      <4> QED BY <2>5, <3>1, <4>2 DEF CheckInProgress, cacheVars
    <3>2. CASE inProgress[post[p].user] = NoJob
      <4>1. post' = [post EXCEPT ![p] = [@ EXCEPT !.pc = "register"]]
        BY <2>5, <3>2 DEF CheckInProgress
      <4> QED BY <2>5, <4>1 DEF CheckInProgress, cacheVars
    <3> QED BY <3>1, <3>2
  <2>6. CASE Register(p)
    BY <2>6 DEF Register
  <2>7. CASE Claim(p)
    BY <2>7 DEF Claim, cacheVars
  <2> QED BY <1>1, <2>1, <2>2, <2>3, <2>4, <2>5, <2>6, <2>7 DEF PostStep
<1>2. ASSUME NEW p \in Posts, TaskStep(p)
      PROVE  NoEarlyTask' /\ CompletedIsOver' /\ SlotIsKnown' /\ ToldOfJob' /\ ToldJobIsKnown'
  <2>1. CASE Compile(p)
    BY <2>1 DEF Compile, cacheVars
  <2>2. CASE SaveBot(p)
    BY <2>2 DEF SaveBot
  <2>3. CASE SaveFails(p)
    BY <2>3 DEF SaveFails, cacheVars
  <2>4. CASE Recover(p)
    BY <2>4 DEF Recover
  <2>5. CASE Publish(p)
    BY <2>5 DEF Publish
  <2>6. CASE FailJob(p)
    BY <2>6 DEF FailJob
  <2>7. CASE ClearSlot(p)
    BY <2>7 DEF ClearSlot, cacheVars
  <2> QED BY <1>2, <2>1, <2>2, <2>3, <2>4, <2>5, <2>6, <2>7 DEF TaskStep
<1>3. CASE Restart
  BY <1>3 DEF Restart
<1> QED BY <1>1, <1>2, <1>3 DEF Next

(* Every step keeps what the published entries say of their bots: a task   *)
(* takes a bot only when it inserts it, or finds it under its own input.   *)
LEMMA NextKeepsBots ==
  ASSUME CompileInv, TypeOK', Next
  PROVE  PublisherHasBot' /\ PublishedBotAnswersInput'
<1>1. \A p, b \in Posts : SameInput(p, b)' <=> SameInput(p, b)
  BY QuestionsStay DEF CompileInv, SameInput
<1>2. saved \subseteq Posts /\ saved \subseteq saved'
  BY DEF CompileInv, TypeOK, Next, Fingerprint, PostStep, Refuse, Reuse, NothingToReuse,
     CheckInProgress, Register, Claim, TaskStep, Compile, SaveBot, SaveFails, Recover,
     Publish, FailJob, ClearSlot, Restart
<1> USE DEF CompileInv, TypeOK, PublisherHasBot, PublishedBotAnswersInput, CompletedIsOver,
        NoEarlyTask, Early, Goto, Advance
<1>3. ASSUME NEW p \in Posts, Fingerprint(p) \/ PostStep(p)
      PROVE  PublisherHasBot' /\ PublishedBotAnswersInput'
  <2>1. bot' = bot /\ \A x \in Posts : /\ cache'[x] = "COMPLETED" => cache[x] = "COMPLETED"
                                       /\ task'[x] = "publish" => task[x] = "publish"
    BY <1>3 DEF Fingerprint, PostStep, Refuse, Reuse, NothingToReuse, CheckInProgress,
       Register, Claim, cacheVars
  <2> QED BY <2>1, <1>1, <1>2
<1>4. ASSUME NEW p \in Posts, TaskStep(p)
      PROVE  PublisherHasBot' /\ PublishedBotAnswersInput'
  <2>1. CASE Compile(p)
    BY <2>1, <1>1, <1>2 DEF Compile, cacheVars
  <2>2. CASE SaveBot(p)
    <3>1. SameInput(p, p)
      BY DEF SameInput
    <3> QED BY <2>2, <3>1, <1>1, <1>2 DEF SaveBot
  <2>3. CASE SaveFails(p)
    BY <2>3, <1>1, <1>2 DEF SaveFails, cacheVars
  <2>4. CASE Recover(p)
    BY <2>4, <1>1, <1>2 DEF Recover, BotsFor
  <2>5. CASE Publish(p)
    BY <2>5, <1>1, <1>2 DEF Publish
  <2>6. CASE FailJob(p)
    BY <2>6, <1>1, <1>2 DEF FailJob
  <2>7. CASE ClearSlot(p)
    BY <2>7, <1>1, <1>2 DEF ClearSlot, cacheVars
  <2> QED BY <1>4, <2>1, <2>2, <2>3, <2>4, <2>5, <2>6, <2>7 DEF TaskStep
<1>5. CASE Restart
  BY <1>5, <1>1, <1>2 DEF Restart
<1> QED BY <1>3, <1>4, <1>5 DEF Next

(* CompileInv holds always. *)
THEOREM CompileInvariant == Spec => []CompileInv
<1>1. ASSUME CompileInv, Next PROVE CompileInv'
  <2>1. TypeOK'
    BY <1>1, NextTypeOK DEF CompileInv
  <2> QED BY <1>1, <2>1, NextKeepsEntries, NextKeepsBots DEF CompileInv
<1>2. ASSUME CompileInv, UNCHANGED vars PROVE CompileInv'
  BY <1>2 DEF CompileInv, vars, cacheVars, TypeOK, NoEarlyTask, PublisherHasBot, SameInput,
     CompletedIsOver, SlotIsKnown, ToldOfJob, PublishedBotAnswersInput, ToldJobIsKnown
<1> QED BY InitCompileInv, <1>1, <1>2, PTL DEF Spec

(* The state of the compilation service is well typed. *)
THEOREM TypeCorrect == Spec => []TypeOK
<1>1. CompileInv => TypeOK
  BY DEF CompileInv
<1> QED BY CompileInvariant, <1>1, PTL

(* A job that polls COMPLETED names a stored bot compiled from the job's   *)
(* own input, however many jobs saved it at once.                          *)
THEOREM PublishedBotsAnswer == Spec => []PublishedBotAnswersInput
<1>1. CompileInv => PublishedBotAnswersInput
  BY DEF CompileInv
<1> QED BY CompileInvariant, <1>1, PTL

(* A job a client was told to poll has an entry until the process dies. *)
THEOREM ToldJobsAreKnown == Spec => []ToldJobIsKnown
<1>1. CompileInv => ToldJobIsKnown
  BY DEF CompileInv
<1> QED BY CompileInvariant, <1>1, PTL

(* Only the job a slot names gives it back, or the death of the process. *)
THEOREM SlotsReleasedByOwner == Spec => SlotReleasedByOwner
<1>1. ASSUME TypeOK, Next, NEW u \in Users, inProgress[u] # NoJob, inProgress'[u] = NoJob
      PROVE  task[inProgress[u]] = "clear" \/ restarts' # restarts
  <2>1. ASSUME NEW p \in Posts, Fingerprint(p) \/ PostStep(p) PROVE inProgress'[u] # NoJob
    BY <1>1, <2>1, CompileAssumption
    DEF CompileAssumption, TypeOK, Fingerprint, PostStep, Refuse, Reuse, NothingToReuse,
        CheckInProgress, Register, Claim
  <2>2. ASSUME NEW p \in Posts, TaskStep(p) PROVE task[inProgress[u]] = "clear"
    <3>1. ClearSlot(p)
      BY <1>1, <2>2 DEF TaskStep, Compile, SaveBot, SaveFails, Recover, Publish, FailJob
    <3>2. inProgress[u] = p
      BY <1>1, <3>1 DEF ClearSlot, TypeOK
    <3> QED BY <3>1, <3>2 DEF ClearSlot, Advance
  <2>3. CASE Restart
    BY <1>1, <2>3, CompileAssumption DEF Restart, TypeOK, CompileAssumption
  <2> QED BY <1>1, <2>1, <2>2, <2>3 DEF Next
<1>2. TypeOK /\ [Next]_vars
        => [\A u \in Users : inProgress[u] # NoJob /\ inProgress'[u] = NoJob
              => task[inProgress[u]] = "clear" \/ restarts' # restarts]_vars
  <2>1. TypeOK /\ Next => \A u \in Users : inProgress[u] # NoJob /\ inProgress'[u] = NoJob
              => task[inProgress[u]] = "clear" \/ restarts' # restarts
    BY <1>1
  <2> QED BY <2>1
<1> QED BY TypeCorrect, <1>2, PTL DEF Spec, SlotReleasedByOwner
=============================================================================
