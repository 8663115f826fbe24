--------------------------- MODULE DailyBatchProofs ---------------------------
(***************************************************************************)
(* The batch of DailyBatch runs in one process at a time, for any number   *)
(* of processes, filings and days and any fault.                           *)
(***************************************************************************)
EXTENDS DailyBatch, TLAPS

(* Whoever is at the batch holds the lock, or lost it today. *)
WorkersHold == \A w \in AtWork : lock = w \/ date \in lost
HolderWorks == lock \in AtWork \cup {NoWorker}
BatchInv == BatchTypeOK /\ HolderWorks /\ WorkersHold

-----------------------------------------------------------------------------
(* What a thread can be *)

LEMMA ThreadForms ==
  /\ Down \in Thread /\ Dead \in Thread /\ Done \in Thread
  /\ [pc |-> "fetch"] \in Thread /\ [pc |-> "read"] \in Thread
  /\ \A d \in 1..(MaxDate + 1) : [pc |-> "wait", due |-> d] \in Thread
  /\ \A items \in SUBSET Known : [pc |-> "analyse", items |-> items] \in Thread
  /\ \A items \in SUBSET (Known \cap Periodic) :
       [pc |-> "report", items |-> items] \in Thread
BY DEF Thread, Down, Dead, Done

LEMMA AnalyseThread ==
  ASSUME NEW t \in Thread, t.pc = "analyse"
  PROVE  t.items \subseteq Known
BY DEF Thread, Down, Dead

LEMMA ReportThread ==
  ASSUME NEW t \in Thread, t.pc = "report"
  PROVE  /\ t = [pc |-> "report", items |-> t.items]
         /\ t.items \subseteq Known \cap Periodic
BY DEF Thread, Down, Dead

LEMMA Moves ==
  ASSUME NEW w \in Workers, NEW s, s \in Thread,
         worker \in [Workers -> Thread], To(w, s)
  PROVE  /\ worker' \in [Workers -> Thread]
         /\ worker'[w] = s
         /\ \A v \in Workers : v # w => worker'[v] = worker[v]
BY DEF To

LEMMA WaitingThread == BatchTypeOK => Waiting \in Thread
<1> SUFFICES ASSUME BatchTypeOK PROVE Waiting \in Thread
    OBVIOUS
<1>1. (IF closed THEN date + 1 ELSE date) \in 1..(MaxDate + 1)
      BY BatchAssumption DEF BatchTypeOK
<1> QED BY <1>1, ThreadForms DEF Waiting

-----------------------------------------------------------------------------
(* The types *)

LEMMA FailureTyped ==
  ASSUME BatchTypeOK, Failure
  PROVE  starts' \in 0..MaxStarts /\ failed' \subseteq 1..MaxDate /\ lost' \subseteq failed'
BY DEF BatchTypeOK, Failure

LEMMA InitTyped == Init => BatchTypeOK
<1> SUFFICES ASSUME Init PROVE BatchTypeOK
    OBVIOUS
<1>1. worker \in [Workers -> Thread]
      BY ThreadForms DEF Init
<1>2. filed \in [Filings -> [date : 0..MaxDate, early : BOOLEAN]]
      BY BatchAssumption DEF Init, Unfiled
<1>3. date \in 1..MaxDate /\ starts \in 0..MaxStarts /\ failed \subseteq 1..MaxDate
      BY BatchAssumption DEF Init
<1>4. closed \in BOOLEAN /\ lost \subseteq failed
      BY DEF Init
<1>5. /\ lock \in Workers \cup {NoWorker}
      /\ stored \subseteq Known /\ reports \subseteq Known \cap Periodic
      BY DEF Init
<1> QED BY <1>1, <1>2, <1>3, <1>4, <1>5 DEF BatchTypeOK

(* What a step of the thread leaves alone or writes by itself. *)
LEMMA RunTyped ==
  ASSUME BatchTypeOK, NEW w \in Workers, Run(w)
  PROVE  BatchTypeOK'
<1> USE DEF time, data, history
<1>0. /\ worker \in [Workers -> Thread] /\ worker[w] \in Thread
      /\ Waiting \in Thread
      BY WaitingThread DEF BatchTypeOK
<1>1. CASE ConnectFails(w)
  <2>1. worker' \in [Workers -> Thread]
        BY <1>0, <1>1, Moves, ThreadForms DEF ConnectFails
  <2> QED BY <1>1, <2>1, FailureTyped DEF ConnectFails, Fail, BatchTypeOK
<1>2. CASE Acquire(w)
  <2>1. worker' \in [Workers -> Thread]
        BY <1>0, <1>2, Moves, ThreadForms DEF Acquire
  <2> QED BY <1>2, <2>1 DEF Acquire, BatchTypeOK
<1>3. CASE Skip(w)
  <2>1. worker' \in [Workers -> Thread]
        BY <1>0, <1>3, Moves DEF Skip
  <2> QED BY <1>3, <2>1 DEF Skip, BatchTypeOK
<1>4. CASE Fetch(w)
  <2>1. PICK page \in SUBSET Today : To(w, [pc |-> "analyse", items |-> page \cap Known])
        BY <1>4 DEF Fetch
  <2>2. worker' \in [Workers -> Thread]
        BY <1>0, <2>1, Moves, ThreadForms
  <2> QED BY <1>4, <2>2 DEF Fetch, BatchTypeOK
<1>5. CASE FetchFails(w)
  <2>1. worker' \in [Workers -> Thread]
        BY <1>0, <1>5, Moves, ThreadForms DEF FetchFails
  <2> QED BY <1>5, <2>1, FailureTyped DEF FetchFails, Fail, BatchTypeOK
<1>6. CASE Store(w)
  <2>1. worker' \in [Workers -> Thread]
        BY <1>0, <1>6, Moves, ThreadForms DEF Store
  <2>2. stored' \subseteq Known
        BY <1>0, <1>6, AnalyseThread DEF Store, BatchTypeOK
  <2> QED BY <1>6, <2>1, <2>2 DEF Store, BatchTypeOK
<1>7. CASE AnalysisFails(w)
  <2>1. worker' \in [Workers -> Thread]
        BY <1>0, <1>7, Moves, ThreadForms DEF AnalysisFails
  <2> QED BY <1>7, <2>1, FailureTyped DEF AnalysisFails, BatchTypeOK
<1>8. CASE ReadReports(w)
  <2>1. stored \cap Today \cap Periodic \in SUBSET (Known \cap Periodic)
        BY DEF BatchTypeOK
  <2>2. worker' \in [Workers -> Thread]
        BY <1>0, <1>8, <2>1, Moves, ThreadForms DEF ReadReports
  <2> QED BY <1>8, <2>2 DEF ReadReports, BatchTypeOK
<1>9. CASE SaveReport(w)
  <2>1. PICK f \in worker[w].items :
          /\ reports' \in {reports, reports \cup {f}}
          /\ To(w, [worker[w] EXCEPT !.items = @ \ {f}])
        BY <1>9 DEF SaveReport
  <2>2. /\ worker[w] = [pc |-> "report", items |-> worker[w].items]
        /\ worker[w].items \subseteq Known \cap Periodic
        BY <1>0, <1>9, ReportThread DEF SaveReport
  <2>3. [worker[w] EXCEPT !.items = @ \ {f}]
          = [pc |-> "report", items |-> worker[w].items \ {f}]
        BY <2>2
  <2>4. worker' \in [Workers -> Thread]
        BY <1>0, <2>1, <2>2, <2>3, Moves, ThreadForms
  <2>5. reports' \subseteq Known \cap Periodic
        BY <2>1, <2>2 DEF BatchTypeOK
  <2> QED BY <1>9, <2>4, <2>5 DEF SaveReport, BatchTypeOK
<1>10. CASE ReportFails(w)
  <2>1. worker' \in [Workers -> Thread]
        BY <1>0, <1>10, Moves, ThreadForms DEF ReportFails
  <2> QED BY <1>10, <2>1, FailureTyped DEF ReportFails, Fail, BatchTypeOK
<1>11. CASE Release(w)
  <2>1. worker' \in [Workers -> Thread]
        BY <1>0, <1>11, Moves DEF Release
  <2> QED BY <1>11, <2>1 DEF Release, BatchTypeOK
<1>12. CASE ReleaseFails(w)
  <2>1. worker' \in [Workers -> Thread]
        BY <1>0, <1>12, Moves, ThreadForms DEF ReleaseFails
  <2> QED BY <1>12, <2>1 DEF ReleaseFails, BatchTypeOK
<1> QED
    BY <1>1, <1>2, <1>3, <1>4, <1>5, <1>6, <1>7, <1>8, <1>9, <1>10, <1>11, <1>12
    DEF Run, Collect

LEMMA StepTyped == BatchTypeOK /\ [Next]_vars => BatchTypeOK'
<1> SUFFICES ASSUME BatchTypeOK, [Next]_vars PROVE BatchTypeOK'
    OBVIOUS
<1> USE DEF time, data, history
<1>1. CASE Close
      BY <1>1 DEF Close, BatchTypeOK
<1>2. CASE Midnight
  <2>1. date' \in 1..MaxDate
        BY <1>2, BatchAssumption DEF Midnight, BatchTypeOK
  <2>2. closed' \in BOOLEAN
        BY <1>2 DEF Midnight
  <2> QED BY <1>2, <2>1, <2>2 DEF Midnight, BatchTypeOK
<1>3. ASSUME NEW f \in Filings, File(f) PROVE BatchTypeOK'
  <2>1. filed' \in [Filings -> [date : 0..MaxDate, early : BOOLEAN]]
        BY <1>3 DEF File, BatchTypeOK
  <2> QED BY <1>3, <2>1 DEF File, BatchTypeOK
<1>4. ASSUME NEW w \in Workers, Start(w) PROVE BatchTypeOK'
  <2>1. worker' \in [Workers -> Thread]
        BY <1>4, Moves, WaitingThread DEF Start, BatchTypeOK
  <2> QED BY <1>4, <2>1, BatchAssumption DEF Start, BatchTypeOK
<1>5. ASSUME NEW w \in Workers, Run(w) PROVE BatchTypeOK'
      BY <1>5, RunTyped
<1>6. ASSUME NEW w \in Workers, LoseSession(w) PROVE BatchTypeOK'
      BY <1>6 DEF LoseSession, BatchTypeOK
<1>7. ASSUME NEW w \in Workers, Kill(w) PROVE BatchTypeOK'
  <2>1. worker' \in [Workers -> Thread]
        BY <1>7, Moves, ThreadForms DEF Kill, BatchTypeOK
  <2> QED BY <1>7, <2>1, FailureTyped DEF Kill, Fail, BatchTypeOK
<1>8. ASSUME NEW c \in Securities, BackfillFilings(c) PROVE BatchTypeOK'
      BY <1>8 DEF BackfillFilings, BatchTypeOK
<1>9. ASSUME NEW f \in Periodic, BackfillReport(f) PROVE BatchTypeOK'
      BY <1>9 DEF BackfillReport, BatchTypeOK
<1>10. CASE UNCHANGED vars
       BY <1>10 DEF vars, BatchTypeOK
<1> QED BY <1>1, <1>2, <1>3, <1>4, <1>5, <1>6, <1>7, <1>8, <1>9, <1>10 DEF Next

(* DailyBatch's types and the tables' contents: only disclosures of known  *)
(* securities are stored and only periodic ones make reports.              *)
THEOREM BatchTypeInvariant == Spec => []BatchTypeOK
<1>1. Init => BatchTypeOK
      BY InitTyped
<1>2. BatchTypeOK /\ [Next]_vars => BatchTypeOK'
      BY StepTyped
<1> QED BY <1>1, <1>2, PTL DEF Spec

-----------------------------------------------------------------------------
(* The lock *)

(* Steps that keep the lock and the date, and bring nobody to the batch.   *)
LEMMA LockKept ==
  ASSUME HolderWorks, WorkersHold, AtWork' = AtWork, UNCHANGED <<lock, date>>,
         lost \subseteq lost'
  PROVE  HolderWorks' /\ WorkersHold'
BY DEF HolderWorks, WorkersHold

(* A thread already at the batch goes on with it. *)
LEMMA CollectKeeps ==
  ASSUME BatchTypeOK, NEW w \in Workers, Collect(w)
  PROVE  AtWork' = AtWork /\ UNCHANGED <<lock, date>> /\ lost' = lost
<1> USE DEF time, data, history, To, Done, Failure, Fail, AtWork
<1> worker \in [Workers -> Thread]
    BY DEF BatchTypeOK
<1>1. CASE Fetch(w) BY <1>1 DEF Fetch
<1>2. CASE FetchFails(w) BY <1>2 DEF FetchFails
<1>3. CASE Store(w) BY <1>3 DEF Store
<1>4. CASE AnalysisFails(w) BY <1>4 DEF AnalysisFails
<1>5. CASE ReadReports(w) BY <1>5 DEF ReadReports
<1>6. CASE SaveReport(w)
  <2>1. PICK f \in worker[w].items : To(w, [worker[w] EXCEPT !.items = @ \ {f}])
        BY <1>6 DEF SaveReport
  <2>2. worker[w] = [pc |-> "report", items |-> worker[w].items]
        BY <1>6, ReportThread DEF SaveReport
  <2>3. [worker[w] EXCEPT !.items = @ \ {f}]
          = [pc |-> "report", items |-> worker[w].items \ {f}]
        BY <2>2
  <2>4. worker'[w].pc = "report" /\ \A v \in Workers : v # w => worker'[v] = worker[v]
        BY <2>1, <2>3
  <2> QED BY <1>6, <2>4 DEF SaveReport
<1>7. CASE ReportFails(w) BY <1>7 DEF ReportFails
<1> QED BY <1>1, <1>2, <1>3, <1>4, <1>5, <1>6, <1>7 DEF Collect

LEMMA LockStep ==
  BatchInv /\ [Next]_vars => HolderWorks' /\ WorkersHold'
<1> SUFFICES ASSUME BatchInv, [Next]_vars PROVE HolderWorks' /\ WorkersHold'
    OBVIOUS
<1> USE DEF BatchInv, time, data, history
<1>0. worker \in [Workers -> Thread]
      BY DEF BatchTypeOK
<1>1. CASE Close
      BY <1>1, LockKept DEF Close, AtWork
<1>2. CASE Midnight
  <2>1. AtWork = {} /\ AtWork' = {} /\ lock' = lock
        BY <1>2 DEF Midnight, AtWork
  <2> QED BY <2>1 DEF HolderWorks, WorkersHold
<1>3. ASSUME NEW f \in Filings, File(f) PROVE HolderWorks' /\ WorkersHold'
      BY <1>3, LockKept DEF File, AtWork
<1>4. ASSUME NEW w \in Workers, Start(w) PROVE HolderWorks' /\ WorkersHold'
  <2>1. AtWork' = AtWork
        BY <1>0, <1>4 DEF Start, AtWork, To, Waiting
  <2> QED BY <1>4, <2>1, LockKept DEF Start
<1>5. ASSUME NEW w \in Workers, Run(w) PROVE HolderWorks' /\ WorkersHold'
  <2>1. CASE ConnectFails(w)
    <3>1. AtWork' = AtWork
          BY <1>0, <2>1 DEF ConnectFails, AtWork, To, Dead, Due
    <3> QED BY <2>1, <3>1, LockKept DEF ConnectFails, Fail, Failure
  <2>2. CASE Acquire(w)
    <3>1. AtWork' = AtWork \cup {w}
          BY <1>0, <2>2 DEF Acquire, AtWork, To
    <3>2. \A v \in AtWork : date \in lost
          BY <2>2, BatchAssumption DEF Acquire, WorkersHold, AtWork
    <3> QED BY <2>2, <3>1, <3>2 DEF Acquire, HolderWorks, WorkersHold
  <2>3. CASE Skip(w)
    <3>1. AtWork' = AtWork
          BY <1>0, <2>3 DEF Skip, AtWork, To, Waiting, Due
    <3> QED BY <2>3, <3>1, LockKept DEF Skip
  <2>4. CASE Collect(w)
        BY <2>4, CollectKeeps, LockKept
  <2>5. CASE Release(w)
    <3>1. AtWork' = AtWork \ {w}
          BY <1>0, <2>5 DEF Release, AtWork, To, Waiting
    <3> QED BY <2>5, <3>1 DEF Release, HolderWorks, WorkersHold
  <2>6. CASE ReleaseFails(w)
    <3>1. AtWork' = AtWork \ {w}
          BY <1>0, <2>6 DEF ReleaseFails, AtWork, To, Dead
    <3> QED BY <2>6, <3>1 DEF ReleaseFails, HolderWorks, WorkersHold
  <2> QED BY <1>5, <2>1, <2>2, <2>3, <2>4, <2>5, <2>6 DEF Run
<1>6. ASSUME NEW w \in Workers, LoseSession(w) PROVE HolderWorks' /\ WorkersHold'
  <2>1. AtWork' = AtWork
        BY <1>6 DEF LoseSession, AtWork
  <2> QED BY <1>6, <2>1 DEF LoseSession, HolderWorks, WorkersHold
<1>7. ASSUME NEW w \in Workers, Kill(w) PROVE HolderWorks' /\ WorkersHold'
  <2>1. AtWork' = AtWork \ {w}
        BY <1>0, <1>7 DEF Kill, AtWork, To, Down
  <2> QED BY <1>7, <2>1 DEF Kill, Fail, Failure, HolderWorks, WorkersHold
<1>8. ASSUME NEW c \in Securities, BackfillFilings(c) PROVE HolderWorks' /\ WorkersHold'
      BY <1>8, LockKept DEF BackfillFilings, AtWork
<1>9. ASSUME NEW f \in Periodic, BackfillReport(f) PROVE HolderWorks' /\ WorkersHold'
      BY <1>9, LockKept DEF BackfillReport, AtWork
<1>10. CASE UNCHANGED vars
       BY <1>10, LockKept DEF vars, AtWork
<1> QED BY <1>1, <1>2, <1>3, <1>4, <1>5, <1>6, <1>7, <1>8, <1>9, <1>10 DEF Next

(* Two processes are at the batch together only on a day on which the      *)
(* session with the lock broke, and the lock never outlives its batch.     *)
THEOREM BatchIsExclusive == Spec => []OneBatchAtATime
<1>1. Init => BatchInv
      BY InitTyped DEF Init, BatchInv, HolderWorks, WorkersHold, AtWork, Down
<1>2. BatchInv /\ [Next]_vars => BatchInv'
      BY StepTyped, LockStep DEF BatchInv
<1>3. BatchInv => OneBatchAtATime
      BY DEF BatchInv, HolderWorks, WorkersHold, OneBatchAtATime
<1> QED BY <1>1, <1>2, <1>3, PTL DEF Spec
=============================================================================
