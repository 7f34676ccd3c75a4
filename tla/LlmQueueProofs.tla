--------------------------- MODULE LlmQueueProofs ---------------------------
(***************************************************************************)
(* Proofs about the LLM task queue, for any number of managers, jobs,      *)
(* functions, workers and generations, with overlapping stops and deaths.  *)
(* StopsBetweenJobs, QuietStopLeavesNoWork and NobodyForgotten are about   *)
(* stops that no submission overlaps.                                      *)
(***************************************************************************)
EXTENDS LlmQueue, FiniteSetTheorems, TLAPS

\* The variables have their types at the start.
LEMMA InitTypeOK == Init => TypeOK
  BY QueueAssumption DEF Init, TypeOK, RowStatus, CallState, Task, Gen, QueueAssumption

\* start() extends the lists and flags of one manager within their types.
LEMMA StartTypes ==
  ASSUME TypeOK, NEW m \in Mgr, NEW g \in Gen, StartAs(m, g)
  PROVE  /\ running' \in [Mgr -> BOOLEAN] /\ stopEv' \in [Mgr -> BOOLEAN]
         /\ enq' \in [Mgr -> SUBSET Gen] /\ eref' \in [Mgr -> Gen \cup {NoGen}]
         /\ st' \in [Mgr -> [Gen -> {"none", "loop", "decided", "stopping"}]]
         /\ wlist' \in [Mgr -> Seq(Task)]
         /\ wk' \in [Mgr -> [Task -> {"none", "created", "get", "rate", "run"}]]
<1>1. /\ running' \in [Mgr -> BOOLEAN] /\ stopEv' \in [Mgr -> BOOLEAN]
      /\ enq' \in [Mgr -> SUBSET Gen] /\ eref' \in [Mgr -> Gen \cup {NoGen}]
  BY DEF StartAs, TypeOK
<1>2. st' \in [Mgr -> [Gen -> {"none", "loop", "decided", "stopping"}]]
  BY DEF StartAs, TypeOK
<1>3. wlist' \in [Mgr -> Seq(Task)]
  <2>1. [i \in 1..NumWorkers |-> <<g, i>>] \in Seq(Task)
    BY QueueAssumption DEF QueueAssumption, Task
  <2>2. wlist[m] \o [i \in 1..NumWorkers |-> <<g, i>>] \in Seq(Task)
    BY <2>1 DEF TypeOK
  <2> QED
    BY <2>2 DEF StartAs, TypeOK
<1>4. wk' \in [Mgr -> [Task -> {"none", "created", "get", "rate", "run"}]]
  <2>1. [t \in Task |-> IF t[1] = g THEN "created" ELSE wk[m][t]]
          \in [Task -> {"none", "created", "get", "rate", "run"}]
    BY DEF TypeOK
  <2> QED
    BY <2>1 DEF StartAs, TypeOK
<1> QED
  BY <1>1, <1>2, <1>3, <1>4

\* So does the worker's finally block.
LEMMA ReleaseTypes ==
  ASSUME TypeOK, NEW m \in Mgr, NEW t \in Task, Release(m, t)
  PROVE  /\ wstate' \in [Mgr -> [1..NumWorkers -> {"absent", "idle", "busy"}]]
         /\ pend' \in [Mgr -> SUBSET Job]
         /\ refs' \in [Mgr -> [Func -> Nat]]
         /\ wjob' \in [Mgr -> [Task -> Job \cup {NoJob}]]
<1>1. /\ wstate' \in [Mgr -> [1..NumWorkers -> {"absent", "idle", "busy"}]]
      /\ pend' \in [Mgr -> SUBSET Job]
  BY DEF Release, TypeOK
<1>2. refs' \in [Mgr -> [Func -> Nat]]
  <2> DEFINE r == [refs[m] EXCEPT ![FuncOf[wjob[m][t]]] = IF @ > 0 THEN @ - 1 ELSE 0]
  <2>1. refs[m] \in [Func -> Nat]
    BY DEF TypeOK
  <2>2. r \in [Func -> Nat]
    <3>1. r = [f \in Func |-> IF f = FuncOf[wjob[m][t]]
                               THEN IF refs[m][f] > 0 THEN refs[m][f] - 1 ELSE 0
                               ELSE refs[m][f]]
      BY <2>1, Zenon
    <3> HIDE DEF r
    <3>2. \A f \in Func : r[f] \in Nat
      BY <2>1, <3>1
    <3> QED
      BY <3>1, <3>2
  <2>3. refs' = [refs EXCEPT ![m] = r]
    BY DEF Release
  <2> HIDE DEF r
  <2> QED
    BY <2>2, <2>3 DEF TypeOK
<1>3. wjob' \in [Mgr -> [Task -> Job \cup {NoJob}]]
  BY DEF Release, TypeOK
<1> QED
  BY <1>1, <1>2, <1>3

\* Counting a submission's reference keeps the counts natural numbers.
LEMMA CountTypes ==
  ASSUME TypeOK, NEW j \in Job,
         refs' = [refs EXCEPT ![Home[j]][FuncOf[j]] = @ + 1],
         cargs' = [cargs EXCEPT ![Home[j]] = @ \cup {FuncOf[j]}]
  PROVE  /\ refs' \in [Mgr -> [Func -> Nat]]
         /\ cargs' \in [Mgr -> SUBSET Func]
<1>1. Home[j] \in Mgr /\ FuncOf[j] \in Func
  BY QueueAssumption DEF QueueAssumption
<1> DEFINE r == [refs[Home[j]] EXCEPT ![FuncOf[j]] = @ + 1]
<1>2. r \in [Func -> Nat]
  BY <1>1 DEF TypeOK
<1>3. refs' = [refs EXCEPT ![Home[j]] = r]
  OBVIOUS
<1> HIDE DEF r
<1> QED
  BY <1>1, <1>2, <1>3 DEF TypeOK

\* A start that fails half way sets two flags.
LEMMA StallTypes ==
  ASSUME TypeOK, NEW m \in Mgr, StartRaises(m)
  PROVE  /\ running' \in [Mgr -> BOOLEAN] /\ stopEv' \in [Mgr -> BOOLEAN]
         /\ faults' \in Nat /\ stalled' \in SUBSET Mgr
  BY DEF StartRaises, Fault, TypeOK

\* A verdict on a job writes its future, its row or neither.
LEMMA SettleTypes ==
  ASSUME TypeOK, NEW j \in Job, NEW ok \in BOOLEAN, NEW wrote \in BOOLEAN,
         Settle(j, ok, wrote) \/ SettledBefore(j)
  PROVE  /\ fut' \in [Job -> {"none", "waiting", "result", "error"}]
         /\ row' \in [Job -> RowStatus] /\ unwritten' \in SUBSET Job
<1>1. CASE Settle(j, ok, wrote)
  <2>1. fut' \in [Job -> {"none", "waiting", "result", "error"}]
    <3>1. (IF ok THEN "result" ELSE "error") \in {"none", "waiting", "result", "error"}
      OBVIOUS
    <3> QED
      BY <1>1, <3>1 DEF Settle, TypeOK
  <2>2. row' \in [Job -> RowStatus] /\ unwritten' \in SUBSET Job
    <3>1. row \in [Job -> RowStatus] /\ {"completed", "failed"} \subseteq RowStatus
      BY DEF TypeOK, RowStatus
    <3>2. CASE wrote
      <4>1. /\ row' = [row EXCEPT ![j] = IF ok THEN "completed" ELSE "failed"]
            /\ UNCHANGED unwritten
        BY <1>1, <3>2 DEF Settle
      <4>2. row' \in [Job -> RowStatus]
        BY <3>1, <4>1
      <4> QED
        BY <4>1, <4>2 DEF TypeOK
    <3>3. CASE ~wrote
      BY <1>1, <3>3 DEF Settle, TypeOK
    <3> QED
      BY <3>2, <3>3
  <2> QED
    BY <2>1, <2>2
<1>2. CASE SettledBefore(j)
  BY <1>2 DEF SettledBefore, TypeOK
<1> QED
  BY <1>1, <1>2

\* A worker that holds something holds a job.
LEMMA HeldIsJob ==
  ASSUME TypeOK, HeldInv, NEW m \in Mgr, NEW t \in Task, Holds(m, t)
  PROVE  wjob[m][t] \in Job
  BY DEF HeldInv, Placed, Fresh, TypeOK

\* Every step keeps the types.
LEMMA NextTypeOK ==
  ASSUME TypeOK, HeldInv, [Next]_vars
  PROVE  TypeOK'
<1>1. ASSUME NEW m \in Mgr, Construct(m) PROVE TypeOK'
  BY <1>1 DEF lapseVars, TypeOK, RowStatus, CallState, jobVars, mgrVars,
     runVars, enqVars, stopVars, workerVars, Construct
<1>2. ASSUME NEW m \in Mgr, Crash(m) PROVE TypeOK'
  BY <1>2 DEF lapseVars, TypeOK, RowStatus, CallState, jobVars, mgrVars,
     runVars, enqVars, stopVars, workerVars, Crash
<1>3. ASSUME NEW m \in Mgr, EnqFind(m) PROVE TypeOK'
  <2>1. PICK b \in SUBSET Job : batch' = [batch EXCEPT ![m] = b]
    BY <1>3 DEF EnqFind
  <2>2. batch' \in [Mgr -> SUBSET Job]
    BY <2>1 DEF TypeOK
  <2> QED
    BY <1>3, <2>2 DEF lapseVars, EnqFind, TypeOK, jobVars, mgrVars, runVars, stopVars, workerVars
<1>4. ASSUME NEW m \in Mgr, NEW j \in Job, EnqPut(m, j) PROVE TypeOK'
  <2>1. queue' \in [Mgr -> Seq(Job)]
    BY <1>4 DEF EnqPut, Put, TypeOK
  <2>2. /\ broken' \in SUBSET Job
        /\ row' \in [Job -> RowStatus]
        /\ batch' \in [Mgr -> SUBSET Job]
    BY <1>4 DEF EnqPut, Put, TypeOK, RowStatus
  <2> QED
    BY <1>4, <2>1, <2>2 DEF EnqPut, Put, TypeOK, lapseVars, mgrVars, runVars, stopVars, workerVars
<1>24. ASSUME NEW m \in Mgr, NEW j \in Job, EnqSlip(m, j) PROVE TypeOK'
  <2>1. /\ queue' \in [Mgr -> Seq(Job)]
        /\ broken' \in SUBSET Job
        /\ batch' \in [Mgr -> SUBSET Job]
    BY <1>24 DEF EnqSlip, Put, TypeOK
  <2>2. faults' \in Nat /\ slipped' \in SUBSET Job
    BY <1>24 DEF EnqSlip, Fault, TypeOK
  <2> QED
    BY <1>24, <2>1, <2>2 DEF EnqSlip, Put, TypeOK, mgrVars, runVars, stopVars, workerVars
<1>25. ASSUME NEW m \in Mgr, EnqAbandon(m) PROVE TypeOK'
  BY <1>25 DEF TypeOK, Fault, jobVars, mgrVars, runVars, stopVars, workerVars, EnqAbandon
<1>26. ASSUME NEW m \in Mgr, CleanFails(m) PROVE TypeOK'
  BY <1>26 DEF TypeOK, Fault, jobVars, mgrVars, runVars, enqVars, stopVars, workerVars, CleanFails
<1>27. ASSUME NEW m \in Mgr, AutoStartFails(m) PROVE TypeOK'
  <2>1. up' \in [Mgr -> {"off", "cleaning", "up"}]
    BY <1>27 DEF AutoStartFails, TypeOK
  <2> QED
    BY <1>27, <2>1, StallTypes
       DEF AutoStartFails, StartRaises, TypeOK, jobVars, enqVars, stopVars, workerVars
<1>28. ASSUME NEW j \in Job, SubmitStartFails(j) PROVE TypeOK'
  <2>1. Home[j] \in Mgr
    BY QueueAssumption DEF QueueAssumption
  <2>2. call' \in [Job -> CallState]
    BY <1>28 DEF SubmitStartFails, TypeOK, CallState
  <2> QED
    BY <1>28, <2>1, <2>2, StallTypes
       DEF SubmitStartFails, StartRaises, TypeOK, mgrVars, enqVars, stopVars, workerVars
<1>29. ASSUME NEW m \in Mgr, NEW t \in Task, TakeUncached(m, t) PROVE TypeOK'
  <2>1. Head(queue[m]) \in Job /\ Tail(queue[m]) \in Seq(Job)
    BY <1>29 DEF TakeUncached, TypeOK
  <2>2. /\ queue' \in [Mgr -> Seq(Job)]
        /\ wstate' \in [Mgr -> [1..NumWorkers -> {"absent", "idle", "busy"}]]
        /\ wk' \in [Mgr -> [Task -> {"none", "created", "get", "rate", "run"}]]
    BY <1>29, <2>1 DEF TakeUncached, TypeOK, LoopHead
  <2>3. /\ row' \in [Job -> RowStatus]
        /\ fut' \in [Job -> {"none", "waiting", "result", "error"}]
        /\ faults' \in Nat /\ unwritten' \in SUBSET Job
    <3> DEFINE k == Head(queue[m])
    <3>1. CASE /\ row' = [row EXCEPT ![k] = "failed"]
               /\ fut' = [fut EXCEPT ![k] = IF @ = "waiting" THEN "error" ELSE @]
               /\ UNCHANGED <<faults, unwritten>>
      BY <2>1, <3>1 DEF TypeOK, RowStatus
    <3>2. CASE /\ Fault
               /\ unwritten' = unwritten \cup {k}
               /\ UNCHANGED <<row, fut>>
      BY <2>1, <3>2 DEF Fault, TypeOK
    <3> QED
      BY <1>29, <3>1, <3>2 DEF TakeUncached
  <2> QED
    BY <1>29, <2>2, <2>3 DEF TakeUncached, TypeOK, mgrVars, runVars, enqVars, stopVars
<1>30. ASSUME NEW m \in Mgr, NEW t \in Task, LaunchFails(m, t) PROVE TypeOK'
  <2>1. Release(m, t) /\ wjob[m][t] \in Job
    BY <1>30, HeldIsJob DEF LaunchFails, Holds
  <2>2. wk' \in [Mgr -> [Task -> {"none", "created", "get", "rate", "run"}]]
    BY <1>30 DEF LaunchFails, LoopHead, TypeOK
  <2>3. faults' \in Nat
    BY <1>30 DEF LaunchFails, Fault, TypeOK
  <2>4. /\ fut' \in [Job -> {"none", "waiting", "result", "error"}]
        /\ row' \in [Job -> RowStatus] /\ unwritten' \in SUBSET Job
    <3>1. PICK wrote \in BOOLEAN :
            Settle(wjob[m][t], FALSE, wrote) \/ SettledBefore(wjob[m][t])
      BY <1>30 DEF LaunchFails
    <3> QED
      BY <2>1, <3>1, SettleTypes
  <2> QED
    BY <1>30, <2>1, <2>2, <2>3, <2>4, ReleaseTypes
       DEF LaunchFails, TypeOK, runVars, enqVars, stopVars
<1>5. ASSUME NEW m \in Mgr, NEW j \in Job, EnqForeign(m, j) PROVE TypeOK'
  BY <1>5 DEF lapseVars, TypeOK, RowStatus, CallState, jobVars, mgrVars,
     runVars, enqVars, stopVars, workerVars, EnqForeign
<1>6. ASSUME NEW m \in Mgr, NEW g \in Gen, EnqExit(m, g) PROVE TypeOK'
  BY <1>6 DEF lapseVars, TypeOK, RowStatus, CallState, jobVars, mgrVars,
     runVars, enqVars, stopVars, workerVars, EnqExit
<1>7. ASSUME NEW m \in Mgr, NEW j \in Job, CleanStray(m, j) PROVE TypeOK'
  <2>0. row \in [Job -> RowStatus] /\ stray \in [Mgr -> SUBSET Job]
    BY DEF TypeOK
  <2>1. row' \in [Job -> RowStatus] /\ stray' \in [Mgr -> SUBSET Job]
    BY <1>7, <2>0 DEF CleanStray, RowStatus
  <2> QED
    BY <1>7, <2>1 DEF lapseVars, CleanStray, TypeOK, jobVars, mgrVars, runVars, enqVars, stopVars,
       workerVars
<1>8. ASSUME NEW j \in Job, SubmitRegister(j) PROVE TypeOK'
  <2>0. /\ call \in [Job -> CallState] /\ pend \in [Mgr -> SUBSET Job]
        /\ fut \in [Job -> {"none", "waiting", "result", "error"}]
    BY DEF TypeOK
  <2>1. /\ call' \in [Job -> CallState] /\ pend' \in [Mgr -> SUBSET Job]
        /\ fut' \in [Job -> {"none", "waiting", "result", "error"}]
    BY <1>8, <2>0 DEF SubmitRegister, CallState
  <2> QED
    BY <1>8, <2>1 DEF lapseVars, SubmitRegister, TypeOK, runVars, enqVars, stopVars, workerVars
<1>9. ASSUME NEW j \in Job, SubmitInsert(j) PROVE TypeOK'
  <2>1. /\ refs' \in [Mgr -> [Func -> Nat]]
        /\ cargs' \in [Mgr -> SUBSET Func]
    BY <1>9, CountTypes DEF SubmitInsert
  <2>2. /\ row' \in [Job -> RowStatus]
        /\ call' \in [Job -> CallState]
    BY <1>9 DEF SubmitInsert, TypeOK, RowStatus, CallState
  <2> QED
    BY <1>9, <2>1, <2>2 DEF lapseVars, SubmitInsert, TypeOK, runVars, enqVars, stopVars, workerVars
<1>10. ASSUME NEW j \in Job, SubmitFails(j) PROVE TypeOK'
  <2>1. /\ refs' \in [Mgr -> [Func -> Nat]]
        /\ cargs' \in [Mgr -> SUBSET Func]
    BY <1>10, CountTypes DEF SubmitFails
  <2>2. /\ fut' \in [Job -> {"none", "waiting", "result", "error"}]
        /\ call' \in [Job -> CallState]
        /\ pend' \in [Mgr -> SUBSET Job]
    BY <1>10 DEF SubmitFails, TypeOK, CallState
  <2> QED
    BY <1>10, <2>1, <2>2 DEF lapseVars, SubmitFails, TypeOK, runVars, enqVars, stopVars, workerVars
<1>11. ASSUME NEW m \in Mgr, NEW t \in Task, WorkerInit(m, t) PROVE TypeOK'
  BY <1>11 DEF lapseVars, TypeOK, RowStatus, CallState, jobVars, mgrVars,
     runVars, enqVars, stopVars, workerVars, WorkerInit, LoopHead, Task
<1>12. ASSUME NEW m \in Mgr, NEW t \in Task, WorkerLaunch(m, t) PROVE TypeOK'
  BY <1>12 DEF lapseVars, TypeOK, RowStatus, CallState, jobVars, mgrVars,
     runVars, enqVars, stopVars, workerVars, WorkerLaunch
<1>13. ASSUME NEW m \in Mgr, NEW g \in Gen, StatusDecide(m, g) PROVE TypeOK'
  BY <1>13 DEF lapseVars, TypeOK, RowStatus, CallState, jobVars, mgrVars,
     runVars, enqVars, stopVars, workerVars, StatusDecide
<1>15. ASSUME NEW m \in Mgr, NEW g \in Gen, StopBegin(m, g) PROVE TypeOK'
  BY <1>15 DEF lapseVars, TypeOK, RowStatus, CallState, jobVars, mgrVars,
     runVars, enqVars, stopVars, workerVars, StopBegin
<1>16. ASSUME NEW m \in Mgr, AutoStart(m) PROVE TypeOK'
  <2>1. PICK g \in Gen : StartAs(m, g)
    BY <1>16 DEF AutoStart
  <2>2. up' \in [Mgr -> {"off", "cleaning", "up"}]
    BY <1>16 DEF AutoStart, TypeOK
  <2> QED
    BY <1>16, <2>1, <2>2, StartTypes DEF lapseVars, AutoStart, TypeOK, jobVars
<1>17. ASSUME NEW j \in Job, SubmitCheck(j) PROVE TypeOK'
  <2>1. Home[j] \in Mgr
    BY QueueAssumption DEF QueueAssumption
  <2>2. /\ call' \in [Job -> CallState]
        /\ stopEv' \in [Mgr -> BOOLEAN]
    <3>1. CASE running[Home[j]]
      BY <1>17, <2>1, <3>1 DEF SubmitCheck, TypeOK, CallState
    <3>2. CASE ~running[Home[j]]
      <4>1. /\ call' = [call EXCEPT ![j] = "starting"]
            /\ stopEv' = [stopEv EXCEPT ![Home[j]] = FALSE]
        BY <1>17, <3>2 DEF SubmitCheck
      <4> QED
        BY <2>1, <4>1 DEF TypeOK, CallState
    <3> QED
      BY <3>1, <3>2
  <2> QED
    BY <1>17, <2>2 DEF lapseVars, SubmitCheck, TypeOK, mgrVars, enqVars, stopVars, workerVars
<1>18. ASSUME NEW j \in Job, SubmitStart(j) PROVE TypeOK'
  <2>1. Home[j] \in Mgr
    BY QueueAssumption DEF QueueAssumption
  <2>2. call' \in [Job -> CallState]
    BY <1>18 DEF SubmitStart, TypeOK, CallState
  <2>3. CASE running[Home[j]]
    BY <1>18, <2>2, <2>3 DEF lapseVars, SubmitStart, TypeOK, mgrVars, runVars
  <2>4. CASE ~running[Home[j]]
    <3>1. PICK g \in Gen : StartAs(Home[j], g)
      BY <1>18, <2>4 DEF SubmitStart
    <3> QED
      BY <1>18, <2>1, <2>2, <3>1, StartTypes DEF lapseVars, SubmitStart, TypeOK, mgrVars
  <2> QED
    BY <2>3, <2>4
<1>19. ASSUME NEW m \in Mgr, NEW t \in Task, WorkerTake(m, t) PROVE TypeOK'
  <2>1. /\ Head(queue[m]) \in Job
        /\ Tail(queue[m]) \in Seq(Job)
    BY <1>19 DEF WorkerTake, TypeOK
  <2>2. /\ wjob' \in [Mgr -> [Task -> Job \cup {NoJob}]]
        /\ queue' \in [Mgr -> Seq(Job)]
    BY <1>19, <2>1 DEF WorkerTake, TypeOK
  <2>3. /\ wstate' \in [Mgr -> [1..NumWorkers -> {"absent", "idle", "busy"}]]
        /\ wk' \in [Mgr -> [Task -> {"none", "created", "get", "rate", "run"}]]
    BY <1>19 DEF WorkerTake, TypeOK
  <2> QED
    BY <1>19, <2>2, <2>3 DEF lapseVars, WorkerTake, TypeOK, jobVars, mgrVars, runVars, enqVars, stopVars
<1>20. ASSUME NEW m \in Mgr, NEW t \in Task, NEW ok \in BOOLEAN, WorkerFinish(m, t, ok)
      PROVE TypeOK'
  <2>1. Release(m, t) /\ wjob[m][t] \in Job
    BY <1>20, HeldIsJob DEF WorkerFinish, Holds
  <2>2. wk' \in [Mgr -> [Task -> {"none", "created", "get", "rate", "run"}]]
    BY <1>20 DEF WorkerFinish, LoopHead, TypeOK
  <2>3. faults' \in Nat
    <3>1. UNCHANGED faults \/ Fault
      BY <1>20 DEF WorkerFinish
    <3> QED
      BY <3>1 DEF Fault, TypeOK
  <2>4. /\ fut' \in [Job -> {"none", "waiting", "result", "error"}]
        /\ row' \in [Job -> RowStatus] /\ unwritten' \in SUBSET Job
    <3>1. PICK wrote \in BOOLEAN :
            Settle(wjob[m][t], ok, wrote) \/ SettledBefore(wjob[m][t])
      BY <1>20 DEF WorkerFinish
    <3> QED
      BY <2>1, <3>1, SettleTypes
  <2> QED
    BY <1>20, <2>1, <2>2, <2>3, <2>4, ReleaseTypes
       DEF WorkerFinish, TypeOK, runVars, enqVars, stopVars
<1>21. ASSUME NEW m \in Mgr, NEW g \in Gen, StopWorker(m, g) PROVE TypeOK'
  <2> DEFINE t == wlist[m][idx[m][g]]
  <2>1. t \in Task
    BY <1>21 DEF StopWorker, TypeOK
  <2>2. wk' \in [Mgr -> [Task -> {"none", "created", "get", "rate", "run"}]]
    BY <1>21, <2>1 DEF StopWorker, TypeOK
  <2>3. idx' \in [Mgr -> [Gen -> Nat \ {0}]]
    BY <1>21 DEF StopWorker, TypeOK
  <2>4. CASE wk[m][t] = "run"
    <3>1. Release(m, t)
      BY <1>21, <2>4 DEF StopWorker
    <3> QED
      BY <1>21, <2>1, <2>2, <2>3, <3>1, ReleaseTypes
         DEF lapseVars, StopWorker, TypeOK, jobVars, runVars, enqVars
  <2>5. CASE wk[m][t] # "run"
    <3>1. wjob' \in [Mgr -> [Task -> Job \cup {NoJob}]]
      <4>1. wjob' = [wjob EXCEPT ![m][t] = NoJob]
        BY <1>21, <2>5 DEF StopWorker
      <4> QED
        BY <4>1, <2>1 DEF TypeOK
    <3>2. UNCHANGED <<wstate, pend, refs>>
      BY <1>21, <2>5 DEF StopWorker
    <3> QED
      BY <1>21, <2>2, <2>3, <3>1, <3>2 DEF lapseVars, StopWorker, TypeOK, jobVars, runVars, enqVars
  <2> QED
    BY <2>4, <2>5
<1>22. ASSUME NEW m \in Mgr, NEW g \in Gen, StopEnd(m, g) PROVE TypeOK'
  <2>1. /\ wlist' \in [Mgr -> Seq(Task)]
        /\ eref' \in [Mgr -> Gen \cup {NoGen}]
        /\ cargs' \in [Mgr -> SUBSET Func]
    BY <1>22 DEF StopEnd, TypeOK
  <2>2. /\ st' \in [Mgr -> [Gen -> {"none", "loop", "decided", "stopping"}]]
        /\ idx' \in [Mgr -> [Gen -> Nat \ {0}]]
    BY <1>22 DEF StopEnd, TypeOK
  <2> QED
    BY <1>22, <2>1, <2>2 DEF lapseVars, StopEnd, TypeOK, jobVars, enqVars, workerVars
<1>23. CASE UNCHANGED vars
  BY <1>23 DEF lapseVars, vars, TypeOK, jobVars, mgrVars, runVars, enqVars, stopVars, workerVars
<1> QED
  BY <1>1, <1>2, <1>3, <1>4, <1>5, <1>6, <1>7, <1>8, <1>9, <1>10, <1>11, <1>12, <1>13, <1>15, <1>16, <1>17, <1>18, <1>19, <1>20, <1>21, <1>22, <1>23,
     <1>24, <1>25, <1>26, <1>27, <1>28, <1>29, <1>30
     DEF Next, Submit, Enqueue, Fails, WorkerStep, StatusStep

-----------------------------------------------------------------------------
(* The inductive invariant.  Its parts other than TypeOK speak of nine      *)
(* variables only, and most actions leave those alone or only retire       *)
(* worker tasks.                                                           *)

\* All parts of IInv but the types and the reference counts.
Flow == /\ PendInv /\ RowInv /\ StrayInv /\ BatchInv /\ QueueInv /\ HeldInv
        /\ HandledOnce

\* Counts that do not drop cover sets that do not grow.
LEMMA CoverKept ==
  ASSUME TypeOK, RefsCoverPending, TypeOK', NEW m \in Mgr, NEW f \in Func, SlippedOf(m, f) = {},
         refs'[m][f] >= refs[m][f], Owed(m, f)' \subseteq Owed(m, f)
  PROVE  refs'[m][f] >= Cardinality(Owed(m, f)')
<1>1. IsFiniteSet(Owed(m, f))
  <2>1. Owed(m, f) \subseteq Job
    BY DEF Owed, TypeOK
  <2> QED
    BY <2>1, FS_Subset, QueueAssumption DEF QueueAssumption
<1>2. /\ IsFiniteSet(Owed(m, f)')
      /\ Cardinality(Owed(m, f)') <= Cardinality(Owed(m, f))
  BY <1>1, FS_Subset
<1>3. /\ Cardinality(Owed(m, f)) \in Nat
      /\ Cardinality(Owed(m, f)') \in Nat
  BY <1>1, <1>2, FS_CardinalityType
<1>4. refs[m][f] >= Cardinality(Owed(m, f))
  BY DEF RefsCoverPending
<1>5. refs[m][f] \in Nat /\ refs'[m][f] \in Nat
  BY DEF TypeOK
<1> QED
  BY <1>2, <1>3, <1>4, <1>5

\* One more reference pays for one more job.
LEMMA CoverGrown ==
  ASSUME TypeOK, RefsCoverPending, TypeOK', NEW m \in Mgr, NEW f \in Func, SlippedOf(m, f) = {}, NEW j \in Job,
         refs'[m][f] = refs[m][f] + 1, Owed(m, f)' \subseteq Owed(m, f) \cup {j}
  PROVE  refs'[m][f] >= Cardinality(Owed(m, f)')
<1>1. IsFiniteSet(Owed(m, f))
  <2>1. Owed(m, f) \subseteq Job
    BY DEF Owed, TypeOK
  <2> QED
    BY <2>1, FS_Subset, QueueAssumption DEF QueueAssumption
<1>2. /\ IsFiniteSet(Owed(m, f) \cup {j})
      /\ Cardinality(Owed(m, f) \cup {j}) <= Cardinality(Owed(m, f)) + 1
  <2> DEFINE S == Owed(m, f)
  <2>1. IsFiniteSet(S)
    BY <1>1
  <2> HIDE DEF S
  <2>2. /\ IsFiniteSet(S \cup {j})
        /\ Cardinality(S \cup {j}) = IF j \in S THEN Cardinality(S) ELSE Cardinality(S) + 1
    BY <2>1, FS_AddElement
  <2>3. Cardinality(S) \in Nat
    BY <2>1, FS_CardinalityType
  <2>4. IsFiniteSet(S \cup {j}) /\ Cardinality(S \cup {j}) <= Cardinality(S) + 1
    BY <2>2, <2>3
  <2> QED
    BY <2>4 DEF S
<1>3. /\ IsFiniteSet(Owed(m, f)')
      /\ Cardinality(Owed(m, f)') <= Cardinality(Owed(m, f) \cup {j})
  BY <1>2, FS_Subset
<1>4. /\ Cardinality(Owed(m, f)) \in Nat
      /\ Cardinality(Owed(m, f)') \in Nat
      /\ Cardinality(Owed(m, f) \cup {j}) \in Nat
  BY <1>1, <1>2, <1>3, FS_CardinalityType
<1>5. refs[m][f] >= Cardinality(Owed(m, f)) /\ refs[m][f] \in Nat
  BY DEF RefsCoverPending, TypeOK
<1> QED
  BY <1>2, <1>3, <1>4, <1>5

\* Dropping the reference of a job that leaves the set.
LEMMA CoverPaid ==
  ASSUME TypeOK, RefsCoverPending, TypeOK', NEW m \in Mgr, NEW f \in Func, SlippedOf(m, f) = {}, NEW j \in Owed(m, f),
         refs'[m][f] = IF refs[m][f] > 0 THEN refs[m][f] - 1 ELSE 0,
         Owed(m, f)' \subseteq Owed(m, f) \ {j}
  PROVE  refs'[m][f] >= Cardinality(Owed(m, f)')
<1>1. IsFiniteSet(Owed(m, f))
  <2>1. Owed(m, f) \subseteq Job
    BY DEF Owed, TypeOK
  <2> QED
    BY <2>1, FS_Subset, QueueAssumption DEF QueueAssumption
<1>2. /\ IsFiniteSet(Owed(m, f) \ {j})
      /\ Cardinality(Owed(m, f) \ {j}) = Cardinality(Owed(m, f)) - 1
  BY <1>1, FS_RemoveElement
<1>3. /\ IsFiniteSet(Owed(m, f)')
      /\ Cardinality(Owed(m, f)') <= Cardinality(Owed(m, f) \ {j})
  BY <1>2, FS_Subset
<1>4. /\ Cardinality(Owed(m, f)) \in Nat
      /\ Cardinality(Owed(m, f)') \in Nat
      /\ Cardinality(Owed(m, f) \ {j}) \in Nat
  BY <1>1, <1>2, <1>3, FS_CardinalityType
<1>5. refs[m][f] >= Cardinality(Owed(m, f)) /\ refs[m][f] \in Nat
  BY DEF RefsCoverPending, TypeOK
<1> QED
  BY <1>2, <1>3, <1>4, <1>5

\* What is placed is a job.
LEMMA PlacedJob ==
  ASSUME TypeOK, NEW m \in Mgr, NEW j, Placed(m, j)
  PROVE  j \in Job
  BY DEF Placed, Fresh, TypeOK

\* Steps that retire workers, move a submission forward, handle rows of the
\* batch or settle rows that were inserted.
LEMMA FlowRetire ==
  ASSUME TypeOK, TypeOK', Flow,
         UNCHANGED <<fut, pend, queue, slipped>>,
         \A j \in Job : row'[j] = row[j] \/ (row'[j] # "pending" /\ Submitted(j)),
         \A m \in Mgr : batch'[m] \subseteq batch[m],
         \A m \in Mgr : \A j \in stray'[m] : Submitted(j),
         \A m \in Mgr, t \in Task : wk'[m][t] \in {"rate", "run"} =>
                                   Holds(m, t) /\ wjob'[m][t] = wjob[m][t],
         \A j \in Job : call'[j] = call[j] \/ (Submitted(j) /\ Submitted(j)')
  PROVE  Flow'
<1>0. /\ \A m \in Mgr, t \in Task : Holds(m, t)' => Holds(m, t) /\ wjob'[m][t] = wjob[m][t]
      /\ \A j \in Job : Submitted(j) => Submitted(j)'
      /\ \A j \in Job : call'[j] \in {"idle", "registered"} => call[j] = call'[j]
  BY DEF Holds, Submitted
<1>1. PendInv' /\ RowInv'
  BY <1>0 DEF Flow, PendInv, RowInv, TypeOK
<1>2. StrayInv'
  BY <1>0 DEF StrayInv, TypeOK
<1>3. BatchInv'
  BY <1>0 DEF Flow, BatchInv, TypeOK
<1>4. \A m \in Mgr, j \in Job : Placed(m, j) => Placed(m, j)'
  BY <1>0 DEF Placed, Fresh, Submitted
<1>5. QueueInv' /\ HeldInv'
  BY <1>0, <1>4, PlacedJob DEF Flow, QueueInv, HeldInv
<1>6. HandledOnce'
  BY <1>0 DEF Flow, HandledOnce
<1> QED
  BY <1>1, <1>2, <1>3, <1>5, <1>6 DEF Flow

\* The worker's finally block: its job leaves every record but the row.  A
\* second copy of it may be left if it was queued twice.
LEMMA FlowRelease ==
  ASSUME TypeOK, TypeOK', Flow, NEW m \in Mgr, NEW t \in Task, Holds(m, t),
         Release(m, t),
         UNCHANGED <<call, queue, batch, stray, slipped>>,
         ~Holds(m, t)',
         \A n \in Mgr, u \in Task : Holds(n, u)' => Holds(n, u),
         \A j \in Job : j # wjob[m][t] => row'[j] = row[j] /\ fut'[j] = fut[j],
         row'[wjob[m][t]] # "pending" \/ row'[wjob[m][t]] = row[wjob[m][t]]
  PROVE  Flow'
<1> DEFINE k == wjob[m][t]
<1>1. k \in Job /\ Placed(m, k) /\ Submitted(k) /\ Home[k] = m
  BY PlacedJob DEF Flow, HeldInv, Placed
<1>2. /\ pend' = [pend EXCEPT ![m] = @ \ {k}]
      /\ wjob' = [wjob EXCEPT ![m][t] = NoJob]
  BY DEF Release
<1>3. \A n \in Mgr : \A j \in Job : j # k => (j \in pend'[n] <=> j \in pend[n])
  BY <1>2 DEF TypeOK
<1>4. \A n \in Mgr : \A j \in pend'[n] : j \in pend[n] /\ j \in Job /\ j # k
  BY <1>1, <1>2 DEF Flow, PendInv, TypeOK
<1>5. \A n \in Mgr, u \in Task : Holds(n, u)' => wjob'[n][u] = wjob[n][u]
  BY <1>2 DEF TypeOK
<1>6. \A n \in Mgr, u \in Task :
        Holds(n, u)' => wjob[n][u] # k \/ k \in slipped
  <2> SUFFICES ASSUME NEW n \in Mgr, NEW u \in Task, Holds(n, u)', k \notin slipped
               PROVE  wjob[n][u] # k
    OBVIOUS
  <2>1. CASE n = m
    BY <2>1 DEF Flow, HandledOnce
  <2>2. CASE n # m
    BY <1>1, <2>2 DEF Flow, HeldInv, Placed
  <2> QED
    BY <2>1, <2>2
<1>7. \A n \in Mgr : \A a \in DOMAIN queue[n] : queue[n][a] # k \/ k \in slipped
  <2> SUFFICES ASSUME NEW n \in Mgr, NEW a \in DOMAIN queue[n], k \notin slipped
               PROVE  queue[n][a] # k
    OBVIOUS
  <2>1. CASE n = m
    BY <2>1 DEF Flow, HandledOnce
  <2>2. CASE n # m
    BY <1>1, <2>2 DEF Flow, QueueInv, Placed
  <2> QED
    BY <2>1, <2>2
<1>8. \A n \in Mgr, j \in Job : Placed(n, j) /\ (j # k \/ k \in slipped) => Placed(n, j)'
  BY <1>3 DEF Placed, Fresh, Submitted
<1>9. PendInv'
  BY <1>1, <1>4 DEF Flow, PendInv
<1>10. k \notin slipped => row[k] # "pending"
  BY <1>1 DEF Placed, Fresh
<1>11. RowInv' /\ StrayInv'
  BY <1>1, <1>10 DEF Flow, RowInv, StrayInv, Submitted
<1>12. BatchInv'
  <2> SUFFICES ASSUME NEW n \in Mgr, NEW j \in batch[n]
               PROVE  /\ Submitted(j)'
                      /\ j \in pend'[n] /\ j \notin slipped =>
                           /\ fut'[j] = "waiting"
                           /\ \A a \in DOMAIN queue[n] : queue[n][a] # j
                           /\ \A u \in Task : Holds(n, u)' => wjob'[n][u] # j
    BY DEF BatchInv
  <2> QED
    BY <1>4, <1>5 DEF Flow, BatchInv, Submitted
<1>13. QueueInv'
  BY <1>7, <1>8, PlacedJob DEF Flow, QueueInv
<1>14. HeldInv'
  BY <1>5, <1>6, <1>8, PlacedJob DEF Flow, HeldInv
<1>15. HandledOnce'
  BY <1>5 DEF Flow, HandledOnce
<1> QED
  BY <1>9, <1>11, <1>12, <1>13, <1>14, <1>15 DEF Flow

\* The same with the worker's verdict on the job, written or not.
LEMMA VerdictFlow ==
  ASSUME TypeOK, TypeOK', Flow, NEW m \in Mgr, NEW t \in Task, Holds(m, t),
         Release(m, t), NEW ok \in BOOLEAN, NEW wrote \in BOOLEAN,
         Settle(wjob[m][t], ok, wrote) \/ SettledBefore(wjob[m][t]),
         UNCHANGED <<call, queue, batch, stray, slipped>>,
         ~Holds(m, t)',
         \A n \in Mgr, u \in Task : Holds(n, u)' => Holds(n, u)
  PROVE  Flow'
<1>1. wjob[m][t] \in Job
  BY PlacedJob DEF Flow, HeldInv
<1>2. /\ \A j \in Job : j # wjob[m][t] => row'[j] = row[j] /\ fut'[j] = fut[j]
      /\ row'[wjob[m][t]] # "pending" \/ row'[wjob[m][t]] = row[wjob[m][t]]
  BY <1>1 DEF Settle, SettledBefore, TypeOK
<1> QED
  BY <1>2, FlowRelease

\* Nothing is in flight at the start.
LEMMA InitFlow == Init => Flow
  BY DEF Init, Flow, PendInv, RowInv, StrayInv, BatchInv, QueueInv, HeldInv,
         HandledOnce, Holds

\* Reading the pending rows finds no job that is queued or held, but those
\* whose update after the put has failed.
LEMMA EnqFindFlow ==
  ASSUME TypeOK, TypeOK', Flow, NEW m \in Mgr, EnqFind(m)
  PROVE  Flow'
<1>1. /\ UNCHANGED <<row, call, fut, pend, queue, stray, wk, wjob, slipped>>
      /\ \A n \in Mgr : \A j \in batch'[n] : j \in batch[n] \/ (j \in Job /\ row[j] = "pending")
  BY DEF EnqFind, jobVars, mgrVars, workerVars, lapseVars, Queueable, TypeOK
<1>2. /\ PendInv' /\ RowInv' /\ StrayInv' /\ QueueInv' /\ HeldInv' /\ HandledOnce'
  BY <1>1 DEF Flow, PendInv, RowInv, StrayInv, QueueInv, HeldInv, HandledOnce,
              Holds, Placed, Fresh, Submitted
<1>3. BatchInv'
  <2> SUFFICES ASSUME NEW n \in Mgr, NEW j \in batch'[n]
               PROVE  /\ Submitted(j)
                      /\ j \in pend[n] /\ j \notin slipped =>
                           /\ fut[j] = "waiting"
                           /\ \A a \in DOMAIN queue[n] : queue[n][a] # j
                           /\ \A t \in Task : Holds(n, t) => wjob[n][t] # j
    BY <1>1 DEF BatchInv, Submitted, Holds
  <2>1. CASE j \in batch[n]
    BY <2>1 DEF Flow, BatchInv
  <2>2. CASE j \in Job /\ row[j] = "pending"
    <3>1. Submitted(j) /\ (j \notin slipped => fut[j] = "waiting")
      BY <2>2 DEF Flow, RowInv
    <3>2. j \notin slipped =>
            /\ \A a \in DOMAIN queue[n] : queue[n][a] # j
            /\ \A t \in Task : Holds(n, t) => wjob[n][t] # j
      BY <2>2 DEF Flow, QueueInv, HeldInv, Placed, Fresh
    <3> QED
      BY <3>1, <3>2
  <2> QED
    BY <1>1, <2>1, <2>2
<1> QED
  BY <1>2, <1>3 DEF Flow

\* Queueing a row queues a job that is nowhere else, unless its row could not
\* be written the last time.
LEMMA PutFlow ==
  ASSUME TypeOK, TypeOK', Flow, NEW m \in Mgr, NEW k \in Job, Put(m, k),
         \A j \in Job : j # k => row'[j] = row[j],
         row'[k] = "enqueued" \/ (k \in slipped' /\ row'[k] = row[k]),
         slipped \subseteq slipped', slipped' \subseteq slipped \cup {k}
  PROVE  Flow'
<1>1. /\ UNCHANGED <<call, fut, pend, stray, wk, wjob>>
      /\ k \in batch[m] /\ k \in pend[m] /\ Submitted(k) /\ Home[k] = m
  BY DEF Put, Flow, BatchInv, PendInv, mgrVars, workerVars
<1>2. /\ \A n \in Mgr : n # m => queue'[n] = queue[n] /\ batch'[n] = batch[n]
      /\ batch'[m] = batch[m] \ {k}
      /\ queue'[m] = Append(queue[m], k)
  BY DEF Put, TypeOK
<1>3. /\ DOMAIN queue'[m] = 1..(Len(queue[m]) + 1)
      /\ DOMAIN queue[m] = 1..Len(queue[m])
      /\ Len(queue[m]) \in Nat
      /\ queue'[m][Len(queue[m]) + 1] = k
      /\ \A a \in DOMAIN queue[m] : queue'[m][a] = queue[m][a]
  BY <1>2 DEF TypeOK
<1>4. k \notin slipped =>
        /\ fut[k] = "waiting"
        /\ \A a \in DOMAIN queue[m] : queue[m][a] # k
        /\ \A t \in Task : Holds(m, t) => wjob[m][t] # k
  BY <1>1 DEF Flow, BatchInv
<1>5. \A n \in Mgr, j \in Job : Placed(n, j) => Placed(n, j)'
  BY <1>1 DEF Placed, Fresh, Submitted
<1>6. Placed(m, k)'
  BY <1>1, <1>4 DEF Placed, Fresh, Submitted
<1>7. PendInv' /\ StrayInv'
  BY <1>1 DEF Flow, PendInv, StrayInv, Submitted
<1>8. RowInv'
  BY <1>1 DEF Flow, RowInv, Submitted, TypeOK
<1>9. BatchInv'
  <2> SUFFICES ASSUME NEW n \in Mgr, NEW j \in batch'[n]
               PROVE  /\ Submitted(j)
                      /\ j \in pend[n] /\ j \notin slipped' =>
                           /\ fut[j] = "waiting"
                           /\ \A a \in DOMAIN queue'[n] : queue'[n][a] # j
                           /\ \A t \in Task : Holds(n, t) => wjob[n][t] # j
    BY <1>1 DEF BatchInv, Submitted, Holds
  <2>1. CASE n = m
    BY <1>2, <1>3, <2>1 DEF Flow, BatchInv
  <2>2. CASE n # m
    BY <1>2, <2>2 DEF Flow, BatchInv
  <2> QED
    BY <2>1, <2>2
<1>10. QueueInv'
  <2> SUFFICES ASSUME NEW n \in Mgr, NEW a \in DOMAIN queue'[n]
               PROVE  Placed(n, queue[n][a])'
    BY DEF QueueInv
  <2>1. CASE n = m /\ a = Len(queue[m]) + 1
    BY <1>3, <1>6, <2>1 DEF Placed, Fresh, Submitted
  <2>2. CASE ~(n = m /\ a = Len(queue[m]) + 1)
    <3>1. a \in DOMAIN queue[n] /\ queue'[n][a] = queue[n][a]
      BY <1>2, <1>3, <2>2
    <3>2. Placed(n, queue[n][a])
      BY <3>1 DEF Flow, QueueInv
    <3>3. PICK j \in Job : j = queue[n][a]
      BY <3>2, PlacedJob
    <3> QED
      BY <1>5, <3>1, <3>2, <3>3 DEF Placed, Fresh, Submitted
  <2> QED
    BY <2>1, <2>2
<1>11. HeldInv'
  BY <1>1, <1>5, PlacedJob DEF Flow, HeldInv, Holds
<1>12. HandledOnce'
  <2> SUFFICES ASSUME NEW n \in Mgr
               PROVE  /\ \A a, b \in DOMAIN queue'[n] :
                           queue'[n][a] = queue'[n][b] => a = b \/ queue'[n][a] \in slipped'
                      /\ \A t \in Task : Holds(n, t) /\ wjob[n][t] \notin slipped' =>
                           /\ \A a \in DOMAIN queue'[n] : queue'[n][a] # wjob[n][t]
                           /\ \A u \in Task : u # t /\ Holds(n, u) => wjob[n][u] # wjob[n][t]
    BY <1>1 DEF HandledOnce, Holds
  <2>1. CASE n # m
    BY <1>2, <2>1 DEF Flow, HandledOnce
  <2>2. CASE n = m
    <3>1. \A a, b \in DOMAIN queue'[m] :
            queue'[m][a] = queue'[m][b] => a = b \/ queue'[m][a] \in slipped'
      BY <1>3, <1>4 DEF Flow, HandledOnce
    <3>2. \A t \in Task : Holds(m, t) /\ wjob[m][t] \notin slipped' =>
            \A a \in DOMAIN queue'[m] : queue'[m][a] # wjob[m][t]
      BY <1>3, <1>4 DEF Flow, HandledOnce
    <3> QED
      BY <2>2, <3>1, <3>2 DEF Flow, HandledOnce
  <2> QED
    BY <2>1, <2>2
<1> QED
  BY <1>7, <1>8, <1>9, <1>10, <1>11, <1>12 DEF Flow

\* Taking the head off a queue leaves the others, and the same job again only
\* if it was queued twice.
LEMMA TailQueue ==
  ASSUME TypeOK, TypeOK', Flow, NEW m \in Mgr, queue[m] # <<>>,
         queue' = [queue EXCEPT ![m] = Tail(@)]
  PROVE  /\ Head(queue[m]) \in Job /\ Placed(m, Head(queue[m]))
         /\ \E a \in DOMAIN queue[m] : queue[m][a] = Head(queue[m])
         /\ \A n \in Mgr : n # m => queue'[n] = queue[n]
         /\ \A a \in DOMAIN queue'[m] :
              /\ a \in Nat /\ a + 1 \in DOMAIN queue[m]
              /\ queue'[m][a] = queue[m][a + 1]
              /\ queue'[m][a] # Head(queue[m]) \/ Head(queue[m]) \in slipped
<1>1. /\ queue[m] \in Seq(Job)
      /\ queue'[m] = Tail(queue[m])
      /\ \A n \in Mgr : n # m => queue'[n] = queue[n]
  BY DEF TypeOK
<1>2. Head(queue[m]) = queue[m][1] /\ 1 \in DOMAIN queue[m] /\ Head(queue[m]) \in Job
  BY <1>1
<1>3. Placed(m, Head(queue[m]))
  BY <1>2 DEF Flow, QueueInv
<1>4. \A a \in DOMAIN Tail(queue[m]) :
        /\ a \in Nat /\ a + 1 \in DOMAIN queue[m] /\ a + 1 # 1
        /\ Tail(queue[m])[a] = queue[m][a + 1]
  BY <1>1
<1>5. \A a \in DOMAIN queue'[m] :
        queue'[m][a] # Head(queue[m]) \/ Head(queue[m]) \in slipped
  <2> SUFFICES ASSUME NEW a \in DOMAIN queue'[m], queue'[m][a] = Head(queue[m])
               PROVE  Head(queue[m]) \in slipped
    OBVIOUS
  <2>1. a + 1 \in DOMAIN queue[m] /\ a + 1 # 1 /\ queue[m][a + 1] = queue[m][1]
    BY <1>1, <1>2, <1>4
  <2> QED
    BY <1>2, <2>1 DEF Flow, HandledOnce
<1> QED
  BY <1>1, <1>2, <1>3, <1>4, <1>5

\* A worker takes a job off the queue: it is still in one place.
LEMMA WorkerTakeFlow ==
  ASSUME TypeOK, TypeOK', Flow, NEW m \in Mgr, NEW w \in Task, WorkerTake(m, w)
  PROVE  Flow'
<1> DEFINE k == Head(queue[m])
<1>1. /\ UNCHANGED <<row, call, fut, pend, stray, batch, slipped>>
      /\ wk' = [wk EXCEPT ![m][w] = "rate"]
      /\ wjob' = [wjob EXCEPT ![m][w] = k]
      /\ batch[m] = {}
      /\ ~Holds(m, w)
  BY DEF WorkerTake, LoopFree, Holds, jobVars, mgrVars, enqVars, lapseVars
<1>2. /\ k \in Job /\ Placed(m, k)
      /\ \E a \in DOMAIN queue[m] : queue[m][a] = k
      /\ \A n \in Mgr : n # m => queue'[n] = queue[n]
      /\ \A a \in DOMAIN queue'[m] :
           /\ a \in Nat /\ a + 1 \in DOMAIN queue[m]
           /\ queue'[m][a] = queue[m][a + 1]
           /\ queue'[m][a] # k \/ k \in slipped
  BY TailQueue DEF WorkerTake
<1>3. \A n \in Mgr, t \in Task :
        Holds(n, t)' => \/ n = m /\ t = w /\ wjob'[n][t] = k
                        \/ Holds(n, t) /\ wjob'[n][t] = wjob[n][t]
  BY <1>1 DEF Holds, TypeOK
<1>4. \A t \in Task : Holds(m, t) => wjob[m][t] # k \/ k \in slipped
  <2> SUFFICES ASSUME NEW t \in Task, Holds(m, t), k \notin slipped, wjob[m][t] = k
               PROVE  FALSE
    OBVIOUS
  <2> QED
    BY <1>2 DEF Flow, HandledOnce
<1>5. \A n \in Mgr, j \in Job : Placed(n, j) => Placed(n, j)'
  BY <1>1 DEF Placed, Fresh, Submitted
<1>6. PendInv' /\ RowInv' /\ StrayInv'
  BY <1>1 DEF Flow, PendInv, RowInv, StrayInv, Submitted
<1>7. BatchInv'
  <2> SUFFICES ASSUME NEW n \in Mgr, NEW j \in batch[n]
               PROVE  /\ Submitted(j)
                      /\ j \in pend[n] /\ j \notin slipped =>
                           /\ fut[j] = "waiting"
                           /\ \A a \in DOMAIN queue'[n] : queue'[n][a] # j
                           /\ \A t \in Task : Holds(n, t)' => wjob'[n][t] # j
    BY <1>1 DEF BatchInv, Submitted
  <2>1. n # m
    BY <1>1
  <2> QED
    BY <1>2, <1>3, <2>1 DEF Flow, BatchInv
<1>8. QueueInv'
  <2> SUFFICES ASSUME NEW n \in Mgr, NEW a \in DOMAIN queue'[n]
               PROVE  \E b \in DOMAIN queue[n] : queue'[n][a] = queue[n][b]
    BY <1>5, PlacedJob DEF Flow, QueueInv
  <2> QED
    BY <1>2
<1>9. HeldInv'
  BY <1>2, <1>3, <1>5, PlacedJob DEF Flow, HeldInv
<1>10. HandledOnce'
  <2>1. ASSUME NEW n \in Mgr, NEW a \in DOMAIN queue'[n], NEW b \in DOMAIN queue'[n],
               queue'[n][a] = queue'[n][b]
        PROVE  a = b \/ queue'[n][a] \in slipped
    <3>1. CASE n # m
      BY <1>2, <2>1, <3>1 DEF Flow, HandledOnce
    <3>2. CASE n = m
      BY <1>2, <2>1, <3>2 DEF Flow, HandledOnce
    <3> QED
      BY <3>1, <3>2
  <2>2. ASSUME NEW n \in Mgr, NEW t \in Task, Holds(n, t)', wjob'[n][t] \notin slipped,
               NEW a \in DOMAIN queue'[n]
        PROVE  queue'[n][a] # wjob'[n][t]
    BY <1>2, <1>3, <2>2 DEF Flow, HandledOnce
  <2>3. ASSUME NEW n \in Mgr, NEW t \in Task, NEW u \in Task,
               Holds(n, t)', Holds(n, u)', u # t, wjob'[n][t] \notin slipped
        PROVE  wjob'[n][u] # wjob'[n][t]
    BY <1>3, <1>4, <2>3 DEF Flow, HandledOnce
  <2> QED
    BY <1>1, <2>1, <2>2, <2>3 DEF HandledOnce
<1> QED
  BY <1>6, <1>7, <1>8, <1>9, <1>10 DEF Flow

\* A worker takes one it cannot run: it is gone from the queue.
LEMMA UncachedFlow ==
  ASSUME TypeOK, TypeOK', Flow, NEW m \in Mgr, NEW w \in Task, TakeUncached(m, w)
  PROVE  Flow'
<1> DEFINE k == Head(queue[m])
<1>1. /\ UNCHANGED <<call, pend, stray, batch, slipped, wjob>>
      /\ wk' = [wk EXCEPT ![m][w] = LoopHead(m)]
      /\ batch[m] = {}
  BY DEF TakeUncached, LoopFree, mgrVars, enqVars
<1>2. /\ k \in Job /\ Placed(m, k)
      /\ \A n \in Mgr : n # m => queue'[n] = queue[n]
      /\ \A a \in DOMAIN queue'[m] :
           /\ a \in Nat /\ a + 1 \in DOMAIN queue[m]
           /\ queue'[m][a] = queue[m][a + 1]
           /\ queue'[m][a] # k \/ k \in slipped
      /\ \E a \in DOMAIN queue[m] : queue[m][a] = k
  BY TailQueue DEF TakeUncached
<1>3. /\ \A j \in Job : j # k => row'[j] = row[j] /\ fut'[j] = fut[j]
      /\ row'[k] = "failed" \/ (row'[k] = row[k] /\ fut'[k] = fut[k])
  BY <1>2 DEF TakeUncached, TypeOK
<1>4. \A n \in Mgr, t \in Task : Holds(n, t)' => Holds(n, t)
  BY <1>1 DEF Holds, LoopHead, TypeOK
<1>5. Submitted(k) /\ Home[k] = m
  BY <1>2 DEF Placed
<1>6. \A n \in Mgr, t \in Task : Holds(n, t) => wjob[n][t] # k \/ k \in slipped
  BY <1>2, <1>5 DEF Flow, HandledOnce, HeldInv, Placed
<1>7. \A n \in Mgr, j \in Job : Placed(n, j) /\ (j # k \/ k \in slipped) => Placed(n, j)'
  BY <1>1, <1>3 DEF Placed, Fresh, Submitted
<1>8. PendInv' /\ StrayInv'
  BY <1>1 DEF Flow, PendInv, StrayInv, Submitted
<1>9. RowInv'
  BY <1>1, <1>2, <1>3, <1>5 DEF Flow, RowInv, Submitted
<1>10. BatchInv'
  <2> SUFFICES ASSUME NEW n \in Mgr, NEW j \in batch[n]
               PROVE  /\ Submitted(j)
                      /\ j \in pend[n] /\ j \notin slipped =>
                           /\ fut'[j] = "waiting"
                           /\ \A a \in DOMAIN queue'[n] : queue'[n][a] # j
                           /\ \A t \in Task : Holds(n, t)' => wjob[n][t] # j
    BY <1>1 DEF BatchInv, Submitted
  <2>1. n # m
    BY <1>1
  <2>2. j \in pend[n] => j # k /\ j \in Job
    BY <1>5, <2>1 DEF Flow, PendInv, TypeOK
  <2> QED
    BY <1>2, <1>3, <1>4, <2>1, <2>2 DEF Flow, BatchInv
<1>11. QueueInv'
  <2> SUFFICES ASSUME NEW n \in Mgr, NEW a \in DOMAIN queue'[n]
               PROVE  Placed(n, queue[n][a])'
    BY DEF QueueInv
  <2>1. CASE n = m
    <3>1. PICK j \in Job : j = queue'[n][a] /\ Placed(n, j) /\ (j # k \/ k \in slipped)
      BY <1>2, <2>1, PlacedJob DEF Flow, QueueInv
    <3> QED
      BY <1>7, <3>1 DEF Placed, Fresh, Submitted
  <2>2. CASE n # m
    <3>1. Placed(n, queue[n][a]) /\ queue'[n][a] = queue[n][a]
      BY <1>2, <2>2 DEF Flow, QueueInv
    <3>2. PICK j \in Job : j = queue[n][a] /\ j # k
      BY <1>5, <2>2, <3>1, PlacedJob DEF Placed
    <3> QED
      BY <1>7, <3>1, <3>2 DEF Placed, Fresh, Submitted
  <2> QED
    BY <2>1, <2>2
<1>12. HeldInv'
  BY <1>1, <1>4, <1>6, <1>7, PlacedJob DEF Flow, HeldInv
<1>13. HandledOnce'
  <2>1. ASSUME NEW n \in Mgr, NEW a \in DOMAIN queue'[n], NEW b \in DOMAIN queue'[n],
               queue'[n][a] = queue'[n][b]
        PROVE  a = b \/ queue'[n][a] \in slipped
    <3>1. CASE n # m
      BY <1>2, <2>1, <3>1 DEF Flow, HandledOnce
    <3>2. CASE n = m
      BY <1>2, <2>1, <3>2 DEF Flow, HandledOnce
    <3> QED
      BY <3>1, <3>2
  <2>2. ASSUME NEW n \in Mgr, NEW t \in Task, Holds(n, t)', wjob[n][t] \notin slipped,
               NEW a \in DOMAIN queue'[n]
        PROVE  queue'[n][a] # wjob[n][t]
    BY <1>2, <1>4, <2>2 DEF Flow, HandledOnce
  <2>3. ASSUME NEW n \in Mgr, NEW t \in Task, NEW u \in Task,
               Holds(n, t)', Holds(n, u)', u # t, wjob[n][t] \notin slipped
        PROVE  wjob[n][u] # wjob[n][t]
    BY <1>4, <2>3 DEF Flow, HandledOnce
  <2> QED
    BY <1>1, <2>1, <2>2, <2>3 DEF HandledOnce
<1> QED
  BY <1>8, <1>9, <1>10, <1>11, <1>12, <1>13 DEF Flow

\* A submission tracks a job that has no row yet.
LEMMA SubmitRegisterFlow ==
  ASSUME TypeOK, TypeOK', Flow, NEW k \in Job, SubmitRegister(k)
  PROVE  Flow'
<1>1. /\ UNCHANGED <<row, queue, stray, batch, wk, wjob, slipped>>
      /\ ~Submitted(k)
      /\ call' = [call EXCEPT ![k] = "registered"]
      /\ fut' = [fut EXCEPT ![k] = "waiting"]
      /\ pend' = [pend EXCEPT ![Home[k]] = @ \cup {k}]
      /\ Home[k] \in Mgr
  BY QueueAssumption
     DEF SubmitRegister, Submitted, QueueAssumption, enqVars, workerVars, lapseVars
<1>2. /\ \A j \in Job : Submitted(j) => Submitted(j)' /\ j # k
      /\ \A n \in Mgr : \A j \in pend'[n] : j \in pend[n] \/ (j = k /\ n = Home[k])
      /\ \A n \in Mgr : pend[n] \subseteq pend'[n]
  <2>1. \A j \in Job : Submitted(j) => Submitted(j)' /\ j # k
    BY <1>1 DEF Submitted, TypeOK
  <2>0. pend \in [Mgr -> SUBSET Job]
    BY DEF TypeOK
  <2>2. \A n \in Mgr : pend'[n] = IF n = Home[k] THEN pend[n] \cup {k} ELSE pend[n]
    BY <1>1, <2>0
  <2>3. \A n \in Mgr : pend[n] \subseteq pend'[n]
    BY <2>2
  <2>4. ASSUME NEW n \in Mgr, NEW j \in pend'[n]
        PROVE  j \in pend[n] \/ (j = k /\ n = Home[k])
    <3>1. CASE n = Home[k]
      BY <2>2, <3>1
    <3>2. CASE n # Home[k]
      <4>1. pend'[n] = pend[n]
        BY <2>2, <3>2
      <4> QED
        BY <4>1
    <3> QED
      BY <3>1, <3>2
  <2> QED
    BY <2>1, <2>3, <2>4
<1>3. PendInv'
  BY <1>1, <1>2 DEF Flow, PendInv, TypeOK
<1>4. RowInv' /\ StrayInv'
  BY <1>1, <1>2 DEF Flow, RowInv, StrayInv, TypeOK
<1>5. BatchInv'
  BY <1>1, <1>2 DEF Flow, BatchInv, Holds, TypeOK
<1>6. \A n \in Mgr, j \in Job : Placed(n, j) => Placed(n, j)'
  BY <1>1, <1>2 DEF Placed, Fresh, TypeOK
<1>7. QueueInv' /\ HeldInv'
  BY <1>1, <1>6, PlacedJob DEF Flow, QueueInv, HeldInv, Holds
<1>8. HandledOnce'
  BY <1>1 DEF Flow, HandledOnce, Holds
<1> QED
  BY <1>3, <1>4, <1>5, <1>7, <1>8 DEF Flow

\* Its row is inserted once it is tracked.
LEMMA SubmitInsertFlow ==
  ASSUME TypeOK, TypeOK', Flow, NEW k \in Job, SubmitInsert(k)
  PROVE  Flow'
<1>1. /\ UNCHANGED <<fut, pend, queue, stray, batch, wk, wjob, slipped>>
      /\ call[k] = "registered" /\ ~Submitted(k)
      /\ call' = [call EXCEPT ![k] = "inserted"]
      /\ row' = [row EXCEPT ![k] = "pending"]
  BY DEF SubmitInsert, Submitted, enqVars, workerVars, lapseVars
<1>2. /\ \A j \in Job : Submitted(j) => Submitted(j)' /\ j # k
      /\ Submitted(k)'
  BY <1>1 DEF Submitted, TypeOK
<1>3. PendInv'
  BY <1>1 DEF Flow, PendInv, TypeOK
<1>4. RowInv' /\ StrayInv'
  BY <1>1, <1>2 DEF Flow, RowInv, StrayInv, TypeOK
<1>5. BatchInv'
  BY <1>1, <1>2 DEF Flow, BatchInv, Holds, TypeOK
<1>6. \A n \in Mgr, j \in Job : Placed(n, j) => Placed(n, j)'
  BY <1>1, <1>2 DEF Placed, Fresh, TypeOK
<1>7. QueueInv' /\ HeldInv'
  BY <1>1, <1>6, PlacedJob DEF Flow, QueueInv, HeldInv, Holds
<1>8. HandledOnce'
  BY <1>1 DEF Flow, HandledOnce, Holds
<1> QED
  BY <1>3, <1>4, <1>5, <1>7, <1>8 DEF Flow

\* A failed insertion stops tracking the job.
LEMMA SubmitFailsFlow ==
  ASSUME TypeOK, TypeOK', Flow, NEW k \in Job, SubmitFails(k)
  PROVE  Flow'
<1>1. /\ UNCHANGED <<row, queue, stray, batch, wk, wjob, slipped>>
      /\ ~Submitted(k)
      /\ call' = [call EXCEPT ![k] = "gone"]
      /\ fut' = [fut EXCEPT ![k] = "error"]
      /\ pend' = [pend EXCEPT ![Home[k]] = @ \ {k}]
      /\ Home[k] \in Mgr
  BY QueueAssumption
     DEF SubmitFails, Submitted, QueueAssumption, enqVars, workerVars, lapseVars
<1>2. /\ \A j \in Job : Submitted(j) => Submitted(j)' /\ j # k
      /\ \A n \in Mgr : \A j \in pend[n] : j # k => j \in pend'[n]
      /\ \A n \in Mgr : \A j \in pend'[n] : j \in pend[n] /\ j # k
  BY <1>1 DEF Submitted, TypeOK, Flow, PendInv
<1>3. PendInv'
  BY <1>1, <1>2 DEF Flow, PendInv, TypeOK
<1>4. RowInv' /\ StrayInv'
  BY <1>1, <1>2 DEF Flow, RowInv, StrayInv, TypeOK
<1>5. BatchInv'
  BY <1>1, <1>2 DEF Flow, BatchInv, Holds, TypeOK
<1>6. \A n \in Mgr, j \in Job : Placed(n, j) => Placed(n, j)'
  BY <1>1, <1>2 DEF Placed, Fresh, TypeOK
<1>7. QueueInv' /\ HeldInv'
  BY <1>1, <1>6, PlacedJob DEF Flow, QueueInv, HeldInv, Holds
<1>8. HandledOnce'
  BY <1>1 DEF Flow, HandledOnce, Holds
<1> QED
  BY <1>3, <1>4, <1>5, <1>7, <1>8 DEF Flow

\* A death takes everything the manager held with it.
LEMMA CrashFlow ==
  ASSUME TypeOK, TypeOK', Flow, NEW m \in Mgr, Crash(m)
  PROVE  Flow'
<1>1. /\ UNCHANGED <<row, fut, slipped>>
      /\ pend' = [pend EXCEPT ![m] = {}]
      /\ queue' = [queue EXCEPT ![m] = <<>>]
      /\ stray' = [stray EXCEPT ![m] = {}]
      /\ batch' = [batch EXCEPT ![m] = {}]
      /\ wk' = [wk EXCEPT ![m] = [t \in Task |-> "none"]]
      /\ wjob' = [wjob EXCEPT ![m] = [t \in Task |-> NoJob]]
      /\ call' = [j \in Job |-> IF Home[j] = m /\ call[j] # "idle" THEN "gone" ELSE call[j]]
  BY DEF Crash
<1>2. \A j \in Job : Submitted(j) => Submitted(j)'
  BY <1>1 DEF Submitted
<1>3. \A j \in Job : Home[j] # m => call'[j] = call[j]
  BY <1>1
<1>4. /\ pend'[m] = {} /\ queue'[m] = <<>> /\ stray'[m] = {} /\ batch'[m] = {}
      /\ \A t \in Task : ~Holds(m, t)'
  BY <1>1 DEF Holds, TypeOK
<1>5. \A n \in Mgr : n # m =>
        /\ pend'[n] = pend[n] /\ queue'[n] = queue[n] /\ stray'[n] = stray[n]
        /\ batch'[n] = batch[n]
        /\ \A t \in Task : (Holds(n, t)' <=> Holds(n, t)) /\ wjob'[n][t] = wjob[n][t]
  BY <1>1 DEF Holds, TypeOK
<1>6. PendInv'
  <2> SUFFICES ASSUME NEW n \in Mgr, NEW j \in pend'[n]
               PROVE  Home[j] = n /\ call'[j] # "idle"
    BY DEF PendInv
  <2>1. n # m /\ j \in pend[n] /\ j \in Job
    BY <1>4, <1>5 DEF TypeOK
  <2> QED
    BY <1>3, <2>1 DEF Flow, PendInv
<1>7. RowInv'
  <2>1. \A j \in Job : call'[j] = "registered" => call[j] = "registered"
    BY <1>1
  <2> QED
    BY <1>1, <1>2, <2>1 DEF Flow, RowInv
<1>8. StrayInv'
  BY <1>2, <1>4, <1>5 DEF Flow, StrayInv, TypeOK
<1>9. BatchInv'
  <2> SUFFICES ASSUME NEW n \in Mgr, NEW j \in batch'[n]
               PROVE  /\ Submitted(j)'
                      /\ j \in pend'[n] /\ j \notin slipped =>
                           /\ fut[j] = "waiting"
                           /\ \A a \in DOMAIN queue'[n] : queue'[n][a] # j
                           /\ \A t \in Task : Holds(n, t)' => wjob'[n][t] # j
    BY <1>1 DEF BatchInv
  <2>1. n # m /\ j \in batch[n] /\ j \in Job
    BY <1>4, <1>5 DEF TypeOK
  <2> QED
    BY <1>2, <1>5, <2>1 DEF Flow, BatchInv
<1>10. \A n \in Mgr, j \in Job : n # m /\ Placed(n, j) => Placed(n, j)'
  BY <1>1, <1>2, <1>5 DEF Placed, Fresh
<1>11. QueueInv' /\ HeldInv'
  BY <1>4, <1>5, <1>10, PlacedJob DEF Flow, QueueInv, HeldInv
<1>12. HandledOnce'
  BY <1>1, <1>4, <1>5 DEF Flow, HandledOnce
<1> QED
  BY <1>6, <1>7, <1>8, <1>9, <1>11, <1>12 DEF Flow

\* Steps that touch none of the variables the invariant speaks of.
LEMMA FlowQuiet ==
  ASSUME TypeOK, TypeOK', Flow,
         UNCHANGED <<row, call, fut, pend, queue, batch, stray, wk, wjob, slipped>>
  PROVE  Flow'
<1>1. \A m \in Mgr : \A j \in stray'[m] : Submitted(j)
  BY DEF Flow, StrayInv
<1>2. /\ \A m \in Mgr, t \in Task : wk'[m][t] \in {"rate", "run"} => Holds(m, t) /\ wjob'[m][t] = wjob[m][t]
  BY DEF Holds
<1> QED
  BY <1>1, <1>2, FlowRetire

\* Every step keeps a job in one place, tracked and unresolved.
LEMMA NextFlow ==
  ASSUME TypeOK, TypeOK', Flow, [Next]_vars
  PROVE  Flow'
<1>0. \A n \in Mgr : \A i \in stray[n] : Submitted(i)
  BY DEF Flow, StrayInv
<1>1. ASSUME NEW m \in Mgr, Construct(m) PROVE Flow'
  <2>1. /\ UNCHANGED <<row, call, fut, pend, queue, batch, wk, wjob, slipped>>
        /\ stray' = [stray EXCEPT ![m] = {j \in Job : row[j] \in Unsettled}]
    BY <1>1 DEF lapseVars, Construct, jobVars, enqVars, workerVars
  <2>2. \A n \in Mgr : \A j \in stray'[n] : Submitted(j)
    BY <1>0, <2>1 DEF Unsettled, Flow, RowInv, TypeOK
  <2>3. \A n \in Mgr, t \in Task : wk'[n][t] \in {"rate", "run"} => Holds(n, t) /\ wjob'[n][t] = wjob[n][t]
    BY <2>1 DEF Holds
  <2> QED
    BY <2>1, <2>2, <2>3, FlowRetire
<1>2. ASSUME NEW m \in Mgr, AutoStart(m) PROVE Flow'
  <2>1. PICK g \in Gen : StartAs(m, g)
    BY <1>2 DEF AutoStart
  <2>2. \A n \in Mgr, t \in Task : wk'[n][t] \in {"rate", "run"} => Holds(n, t)
    BY <2>1 DEF StartAs, Holds, TypeOK
  <2>3. UNCHANGED <<row, call, fut, pend, queue, batch, stray, wjob, slipped>>
    BY <1>2 DEF lapseVars, AutoStart, jobVars, Submitted
  <2> QED
    BY <1>0, <2>2, <2>3, FlowRetire
<1>3. ASSUME NEW m \in Mgr, Crash(m) PROVE Flow'
  BY <1>3, CrashFlow
<1>4. ASSUME NEW m \in Mgr, EnqFind(m) PROVE Flow'
  BY <1>4, EnqFindFlow
<1>5. ASSUME NEW m \in Mgr, NEW j \in Job, EnqPut(m, j) PROVE Flow'
  <2>1. Put(m, j) /\ row' = [row EXCEPT ![j] = "enqueued"] /\ UNCHANGED slipped
    BY <1>5 DEF EnqPut, lapseVars
  <2>2. /\ \A i \in Job : i # j => row'[i] = row[i]
        /\ row'[j] = "enqueued"
    BY <2>1 DEF TypeOK
  <2> QED
    BY <2>1, <2>2, PutFlow
<1>6. ASSUME NEW m \in Mgr, NEW j \in Job, EnqForeign(m, j) PROVE Flow'
  <2>1. Submitted(j)
    BY <1>6 DEF EnqForeign, Flow, BatchInv
  <2>2. /\ \A i \in Job : row'[i] = row[i] \/ (row'[i] # "pending" /\ Submitted(i))
        /\ \A n \in Mgr : batch'[n] \subseteq batch[n]
    <3>1. /\ row' = [row EXCEPT ![j] = "failed"]
          /\ batch' = [batch EXCEPT ![m] = @ \ {j}]
      BY <1>6 DEF EnqForeign
    <3>2. \A i \in Job : row'[i] = row[i] \/ (row'[i] # "pending" /\ Submitted(i))
      BY <2>1, <3>1 DEF TypeOK
    <3> QED
      BY <3>1, <3>2 DEF TypeOK
  <2>3. /\ UNCHANGED <<call, fut, pend, queue, stray, wk, wjob, slipped>>
        /\ \A n \in Mgr, t \in Task : wk'[n][t] \in {"rate", "run"} => Holds(n, t) /\ wjob'[n][t] = wjob[n][t]
    BY <1>6 DEF lapseVars, EnqForeign, jobVars, mgrVars, workerVars, Submitted, Holds
  <2> QED
    BY <1>0, <2>2, <2>3, FlowRetire
<1>7. ASSUME NEW m \in Mgr, NEW g \in Gen, EnqExit(m, g) PROVE Flow'
  BY <1>7, FlowQuiet DEF lapseVars, EnqExit, jobVars, mgrVars, workerVars
<1>8. ASSUME NEW m \in Mgr, NEW j \in Job, CleanStray(m, j) PROVE Flow'
  <2>1. Submitted(j)
    BY <1>8 DEF CleanStray, Flow, StrayInv
  <2>2. /\ \A i \in Job : row'[i] = row[i] \/ (row'[i] # "pending" /\ Submitted(i))
        /\ \A n \in Mgr : stray'[n] \subseteq stray[n]
    <3>1. /\ row' = [row EXCEPT ![j] = "failed"]
          /\ stray' = [stray EXCEPT ![m] = @ \ {j}]
      BY <1>8 DEF CleanStray
    <3>2. \A i \in Job : row'[i] = row[i] \/ (row'[i] # "pending" /\ Submitted(i))
      BY <2>1, <3>1 DEF TypeOK
    <3> QED
      BY <3>1, <3>2 DEF TypeOK
  <2>3. /\ UNCHANGED <<call, fut, pend, queue, batch, wk, wjob, slipped>>
        /\ \A n \in Mgr, t \in Task : wk'[n][t] \in {"rate", "run"} => Holds(n, t) /\ wjob'[n][t] = wjob[n][t]
    BY <1>8 DEF lapseVars, CleanStray, jobVars, mgrVars, enqVars, workerVars, Submitted, Holds
  <2>4. \A n \in Mgr : \A i \in stray'[n] : Submitted(i)
    BY <1>0, <2>2
  <2> QED
    BY <2>2, <2>3, <2>4, FlowRetire
<1>9. ASSUME NEW j \in Job, SubmitRegister(j) PROVE Flow'
  BY <1>9, SubmitRegisterFlow
<1>10. ASSUME NEW j \in Job, SubmitInsert(j) PROVE Flow'
  BY <1>10, SubmitInsertFlow
<1>11. ASSUME NEW j \in Job, SubmitFails(j) PROVE Flow'
  BY <1>11, SubmitFailsFlow
<1>12. ASSUME NEW j \in Job, SubmitCheck(j) PROVE Flow'
  <2>1. \A i \in Job : call'[i] = call[i] \/ (Submitted(i) /\ Submitted(i)')
    BY <1>12 DEF SubmitCheck, Submitted, TypeOK
  <2>2. /\ UNCHANGED <<row, fut, pend, queue, batch, stray, wk, wjob, slipped>>
        /\ \A n \in Mgr, t \in Task : wk'[n][t] \in {"rate", "run"} => Holds(n, t) /\ wjob'[n][t] = wjob[n][t]
    BY <1>12 DEF lapseVars, SubmitCheck, mgrVars, enqVars, workerVars, Holds
  <2> QED
    BY <1>0, <2>1, <2>2, FlowRetire
<1>13. ASSUME NEW j \in Job, SubmitStart(j) PROVE Flow'
  <2>1. \A i \in Job : call'[i] = call[i] \/ (Submitted(i) /\ Submitted(i)')
    BY <1>13 DEF SubmitStart, Submitted, TypeOK
  <2>2. \A n \in Mgr, t \in Task : wk'[n][t] \in {"rate", "run"} => Holds(n, t)
    <3>1. CASE running[Home[j]]
      BY <1>13, <3>1 DEF SubmitStart, Holds
    <3>2. CASE ~running[Home[j]]
      <4>1. PICK g \in Gen : StartAs(Home[j], g)
        BY <1>13, <3>2 DEF SubmitStart
      <4>2. DOMAIN wk = Mgr
        BY DEF TypeOK
      <4> QED
        BY <4>1, <4>2 DEF StartAs, Holds
    <3> QED
      BY <3>1, <3>2
  <2>3. UNCHANGED <<row, fut, pend, queue, batch, stray, wjob, slipped>>
    BY <1>13 DEF lapseVars, SubmitStart, mgrVars
  <2> QED
    BY <1>0, <2>1, <2>2, <2>3, FlowRetire
<1>14. ASSUME NEW m \in Mgr, NEW t \in Task, WorkerInit(m, t) PROVE Flow'
  <2>1. \A n \in Mgr, u \in Task : wk'[n][u] \in {"rate", "run"} => Holds(n, u)
    BY <1>14 DEF WorkerInit, LoopHead, Holds, TypeOK
  <2>2. UNCHANGED <<row, call, fut, pend, queue, batch, stray, wjob, slipped>>
    BY <1>14 DEF lapseVars, WorkerInit, Submitted, jobVars, mgrVars, enqVars
  <2> QED
    BY <1>0, <2>1, <2>2, FlowRetire
<1>15. ASSUME NEW m \in Mgr, NEW t \in Task, WorkerTake(m, t) PROVE Flow'
  BY <1>15, WorkerTakeFlow
<1>16. ASSUME NEW m \in Mgr, NEW t \in Task, WorkerLaunch(m, t) PROVE Flow'
  <2>1. /\ Holds(m, t) /\ Submitted(wjob[m][t])
        /\ \A n \in Mgr, u \in Task : wk'[n][u] \in {"rate", "run"} => Holds(n, u)
    BY <1>16 DEF WorkerLaunch, Flow, HeldInv, Placed, Holds, TypeOK
  <2>2. \A i \in Job : row'[i] = row[i] \/ (row'[i] # "pending" /\ Submitted(i))
    <3>1. row' = [row EXCEPT ![wjob[m][t]] = "in-progress"]
      BY <1>16 DEF WorkerLaunch
    <3> QED
      BY <2>1, <3>1 DEF TypeOK
  <2>3. UNCHANGED <<call, fut, pend, queue, batch, stray, wjob, slipped>>
    BY <1>16 DEF lapseVars, WorkerLaunch, Submitted, jobVars, mgrVars, enqVars
  <2> QED
    BY <1>0, <2>1, <2>2, <2>3, FlowRetire
<1>17. ASSUME NEW m \in Mgr, NEW t \in Task, NEW ok \in BOOLEAN, WorkerFinish(m, t, ok)
       PROVE Flow'
  <2>1. /\ Holds(m, t) /\ ~Holds(m, t)'
        /\ \A n \in Mgr, u \in Task : Holds(n, u)' => Holds(n, u)
    BY <1>17 DEF WorkerFinish, LoopHead, Holds, TypeOK
  <2>2. PICK wrote \in BOOLEAN :
          Settle(wjob[m][t], ok, wrote) \/ SettledBefore(wjob[m][t])
    BY <1>17 DEF WorkerFinish
  <2> QED
    BY <1>17, <2>1, <2>2, VerdictFlow DEF WorkerFinish, enqVars
<1>18. ASSUME NEW m \in Mgr, NEW g \in Gen, StatusDecide(m, g) PROVE Flow'
  BY <1>18, FlowQuiet DEF lapseVars, StatusDecide, jobVars, mgrVars, enqVars, workerVars
<1>20. ASSUME NEW m \in Mgr, NEW g \in Gen, StopBegin(m, g) PROVE Flow'
  BY <1>20, FlowQuiet DEF lapseVars, StopBegin, jobVars, mgrVars, workerVars
<1>21. ASSUME NEW m \in Mgr, NEW g \in Gen, StopWorker(m, g) PROVE Flow'
  <2>1. PICK t \in Task : /\ wk' = [wk EXCEPT ![m][t] = "none"] /\ UNCHANGED row
                          /\ t = wlist[m][idx[m][g]]
    <3>1. wlist[m][idx[m][g]] \in Task
      BY <1>21 DEF StopWorker, TypeOK
    <3> QED
      BY <1>21, <3>1 DEF StopWorker
  <2>2. CASE wk[m][t] = "run"
    <3>1. Release(m, t) /\ Holds(m, t)
      BY <1>21, <2>1, <2>2 DEF StopWorker, Holds
    <3>3. /\ ~Holds(m, t)'
          /\ \A n \in Mgr, u \in Task : Holds(n, u)' => Holds(n, u)
      BY <2>1 DEF Holds, TypeOK
    <3>4. UNCHANGED <<row, fut, call, queue, batch, stray, slipped>>
      BY <1>21 DEF lapseVars, StopWorker, jobVars, enqVars
    <3> QED
      BY <2>1, <3>1, <3>3, <3>4, FlowRelease
  <2>3. CASE wk[m][t] # "run"
    <3>1. wjob' = [wjob EXCEPT ![m][t] = NoJob] /\ UNCHANGED pend
      BY <1>21, <2>1, <2>3 DEF StopWorker
    <3>2. \A n \in Mgr, u \in Task : wk'[n][u] \in {"rate", "run"} =>
            Holds(n, u) /\ wjob'[n][u] = wjob[n][u]
      BY <2>1, <3>1 DEF Holds, TypeOK
    <3>3. UNCHANGED <<row, call, fut, pend, queue, batch, stray, slipped>>
      BY <1>21, <3>1 DEF lapseVars, StopWorker, Submitted, jobVars, enqVars
    <3> QED
      BY <1>0, <3>2, <3>3, FlowRetire
  <2> QED
    BY <2>2, <2>3
<1>22. ASSUME NEW m \in Mgr, NEW g \in Gen, StopEnd(m, g) PROVE Flow'
  BY <1>22, FlowQuiet DEF lapseVars, StopEnd, jobVars, enqVars, workerVars
<1>24. ASSUME NEW m \in Mgr, CleanFails(m) PROVE Flow'
  <2>1. UNCHANGED <<row, call, fut, pend, queue, batch, wk, wjob, slipped>>
    BY <1>24 DEF CleanFails, jobVars, mgrVars, enqVars, workerVars
  <2>2. \A n \in Mgr : \A i \in stray'[n] : Submitted(i)
    <3>1. \A n \in Mgr : stray'[n] \subseteq stray[n]
      BY <1>24 DEF CleanFails, TypeOK
    <3> QED
      BY <1>0, <3>1
  <2>3. \A n \in Mgr, t \in Task : wk'[n][t] \in {"rate", "run"} => Holds(n, t) /\ wjob'[n][t] = wjob[n][t]
    BY <2>1 DEF Holds
  <2> QED
    BY <2>1, <2>2, <2>3, FlowRetire
<1>25. ASSUME NEW m \in Mgr, AutoStartFails(m) PROVE Flow'
  BY <1>25, FlowQuiet DEF AutoStartFails, StartRaises, jobVars, enqVars, workerVars
<1>26. ASSUME NEW j \in Job, SubmitStartFails(j) PROVE Flow'
  <2>1. \A i \in Job : call'[i] = call[i] \/ (Submitted(i) /\ Submitted(i)')
    BY <1>26 DEF SubmitStartFails, Submitted, TypeOK
  <2>2. /\ UNCHANGED <<row, fut, pend, queue, batch, stray, wk, wjob, slipped>>
        /\ \A n \in Mgr, t \in Task : wk'[n][t] \in {"rate", "run"} => Holds(n, t) /\ wjob'[n][t] = wjob[n][t]
    BY <1>26 DEF SubmitStartFails, StartRaises, mgrVars, enqVars, workerVars, Holds
  <2> QED
    BY <1>0, <2>1, <2>2, FlowRetire
<1>27. ASSUME NEW m \in Mgr, NEW j \in Job, EnqSlip(m, j) PROVE Flow'
  <2>1. /\ Put(m, j) /\ UNCHANGED row
        /\ slipped' = slipped \cup {j}
    BY <1>27 DEF EnqSlip
  <2> QED
    BY <2>1, PutFlow
<1>28. ASSUME NEW m \in Mgr, EnqAbandon(m) PROVE Flow'
  <2>1. /\ UNCHANGED <<row, call, fut, pend, queue, stray, wk, wjob, slipped>>
        /\ \A n \in Mgr : batch'[n] \subseteq batch[n]
    BY <1>28 DEF EnqAbandon, jobVars, mgrVars, workerVars, TypeOK
  <2>2. \A n \in Mgr, t \in Task : wk'[n][t] \in {"rate", "run"} => Holds(n, t) /\ wjob'[n][t] = wjob[n][t]
    BY <2>1 DEF Holds
  <2> QED
    BY <1>0, <2>1, <2>2, FlowRetire
<1>29. ASSUME NEW m \in Mgr, NEW t \in Task, TakeUncached(m, t) PROVE Flow'
  BY <1>29, UncachedFlow
<1>30. ASSUME NEW m \in Mgr, NEW t \in Task, LaunchFails(m, t) PROVE Flow'
  <2>1. /\ Holds(m, t) /\ ~Holds(m, t)'
        /\ \A n \in Mgr, u \in Task : Holds(n, u)' => Holds(n, u)
    BY <1>30 DEF LaunchFails, LoopHead, Holds, TypeOK
  <2>2. PICK wrote \in BOOLEAN :
          Settle(wjob[m][t], FALSE, wrote) \/ SettledBefore(wjob[m][t])
    BY <1>30 DEF LaunchFails
  <2> QED
    BY <1>30, <2>1, <2>2, VerdictFlow DEF LaunchFails, enqVars
<1>23. CASE UNCHANGED vars
  BY <1>23, FlowQuiet DEF vars, lapseVars, jobVars, mgrVars, enqVars, workerVars
<1> QED
  BY <1>1, <1>2, <1>3, <1>4, <1>5, <1>6, <1>7, <1>8, <1>9, <1>10, <1>11, <1>12,
     <1>13, <1>14, <1>15, <1>16, <1>17, <1>18, <1>20, <1>21, <1>22, <1>23,
     <1>24, <1>25, <1>26, <1>27, <1>28, <1>29, <1>30
     DEF Next, Submit, Enqueue, Fails, WorkerStep, StatusStep

-----------------------------------------------------------------------------
(* The reference counts.                                                   *)

\* What has been queued without being written so stays so.
LEMMA SlippedOnlyGrows == [Next]_vars => slipped \subseteq slipped'
<1> SUFFICES ASSUME [Next]_vars PROVE slipped \subseteq slipped'
  OBVIOUS
<1> USE DEF lapseVars
<1>1. ASSUME NEW m \in Mgr,
             Construct(m) \/ AutoStart(m) \/ Crash(m) \/ Enqueue(m) \/ Fails(m)
      PROVE  slipped \subseteq slipped'
  BY <1>1 DEF Construct, AutoStart, StartAs, Crash, Enqueue, EnqFind, EnqPut, EnqForeign, EnqExit,
              Fails, CleanFails, AutoStartFails, StartRaises, EnqAbandon, EnqSlip
<1>2. ASSUME NEW m \in Mgr, NEW j \in Job, CleanStray(m, j) PROVE slipped \subseteq slipped'
  BY <1>2 DEF CleanStray
<1>3. ASSUME NEW j \in Job, SubmitRegister(j) \/ Submit(j) \/ SubmitStartFails(j)
      PROVE  slipped \subseteq slipped'
  BY <1>3 DEF SubmitRegister, Submit, SubmitInsert, SubmitFails, SubmitCheck, SubmitStart,
              SubmitStartFails, StartRaises
<1>4. ASSUME NEW m \in Mgr, NEW t \in Task, WorkerStep(m, t) PROVE slipped \subseteq slipped'
  BY <1>4 DEF WorkerStep, WorkerInit, WorkerTake, TakeUncached, WorkerLaunch, LaunchFails,
              WorkerFinish
<1>5. ASSUME NEW m \in Mgr, NEW g \in Gen, StatusStep(m, g) PROVE slipped \subseteq slipped'
  BY <1>5 DEF StatusStep, StatusDecide, StopBegin, StopWorker, StopEnd
<1>6. CASE UNCHANGED vars
  BY <1>6 DEF vars
<1> QED
  BY <1>1, <1>2, <1>3, <1>4, <1>5, <1>6 DEF Next

LEMMA SlippedGrows ==
  ASSUME slipped \subseteq slipped', NEW m \in Mgr, NEW f \in Func, SlippedOf(m, f)' = {}
  PROVE  SlippedOf(m, f) = {}
  BY DEF SlippedOf

\* No function is needed at the start.
LEMMA InitCover == Init => RefsCoverPending
<1> SUFFICES ASSUME Init, NEW m \in Mgr, NEW f \in Func
             PROVE  refs[m][f] >= Cardinality(Owed(m, f))
  BY DEF RefsCoverPending
<1>1. Owed(m, f) = {} /\ refs[m][f] = 0
  BY DEF Init, Owed
<1> QED
  BY <1>1, FS_EmptySet

\* A submission that gets past its lock counts one reference for its job.
LEMMA CountCover ==
  ASSUME TypeOK, TypeOK', Flow, RefsCoverPending, slipped \subseteq slipped', NEW k \in Job,
         refs' = [refs EXCEPT ![Home[k]][FuncOf[k]] = @ + 1],
         \A n \in Mgr : \A j \in pend'[n] : j \in pend[n],
         \A j \in Job : j # k => call'[j] = call[j]
  PROVE  RefsCoverPending'
<1> SUFFICES ASSUME NEW m \in Mgr, NEW f \in Func, SlippedOf(m, f) = {}
             PROVE  refs'[m][f] >= Cardinality(Owed(m, f)')
  BY SlippedGrows DEF RefsCoverPending
<1>1. Home[k] \in Mgr /\ FuncOf[k] \in Func
  BY QueueAssumption DEF QueueAssumption
<1>2. CASE m = Home[k] /\ f = FuncOf[k]
  <2>1. refs'[m][f] = refs[m][f] + 1
    BY <1>1, <1>2 DEF TypeOK
  <2>2. Owed(m, f)' \subseteq Owed(m, f) \cup {k}
    BY DEF Owed, TypeOK
  <2> QED
    BY <2>1, <2>2, CoverGrown
<1>3. CASE ~(m = Home[k] /\ f = FuncOf[k])
  <2>0. refs \in [Mgr -> [Func -> Nat]]
    BY DEF TypeOK
  <2>1. refs'[m][f] >= refs[m][f]
    BY <1>1, <1>3, <2>0
  <2>2. Owed(m, f)' \subseteq Owed(m, f)
    <3> SUFFICES ASSUME NEW i \in Owed(m, f)' PROVE i \in Owed(m, f)
      OBVIOUS
    <3>1. i \in pend[m] /\ i \in Job /\ Home[i] = m /\ FuncOf[i] = f
      BY DEF Owed, Flow, PendInv, TypeOK
    <3>2. call'[i] = call[i]
      BY <1>3, <3>1
    <3> QED
      BY <3>1, <3>2 DEF Owed
  <2> QED
    BY <2>1, <2>2, CoverKept
<1> QED
  BY <1>2, <1>3

\* The finally block gives back the reference of the job it forgets.
LEMMA ReleaseCover ==
  ASSUME TypeOK, TypeOK', Flow, RefsCoverPending, slipped \subseteq slipped',
         NEW m \in Mgr, NEW t \in Task,
         Holds(m, t), Release(m, t), UNCHANGED call
  PROVE  RefsCoverPending'
<1>1. PICK k \in Job : /\ k = wjob[m][t] /\ Placed(m, k)
                       /\ pend' = [pend EXCEPT ![m] = @ \ {k}]
                       /\ refs' = [refs EXCEPT ![m][FuncOf[k]] = IF @ > 0 THEN @ - 1 ELSE 0]
  <2>1. Placed(m, wjob[m][t]) /\ wjob[m][t] \in Job
    BY PlacedJob DEF Flow, HeldInv
  <2> QED
    BY <2>1 DEF Release
<1>2. FuncOf[k] \in Func
  BY QueueAssumption DEF QueueAssumption
<1> SUFFICES ASSUME NEW n \in Mgr, NEW f \in Func, SlippedOf(n, f) = {}
             PROVE  refs'[n][f] >= Cardinality(Owed(n, f)')
  BY SlippedGrows DEF RefsCoverPending
<1>3. CASE n = m /\ f = FuncOf[k]
  <2>1. refs'[n][f] = IF refs[n][f] > 0 THEN refs[n][f] - 1 ELSE 0
    BY <1>1, <1>2, <1>3 DEF TypeOK
  <2>2. k \in pend[m] /\ Submitted(k)
    BY <1>1, <1>3 DEF SlippedOf, Placed, Fresh
  <2>3. k \in Owed(n, f) /\ Owed(n, f)' \subseteq Owed(n, f) \ {k}
    BY <1>1, <1>3, <2>2 DEF Owed, Submitted, TypeOK
  <2> QED
    BY <2>1, <2>3, CoverPaid
<1>4. CASE ~(n = m /\ f = FuncOf[k])
  <2>1. refs'[n][f] = refs[n][f]
    BY <1>1, <1>2, <1>4 DEF TypeOK
  <2>2. Owed(n, f)' \subseteq Owed(n, f)
    <3>1. pend'[n] \subseteq pend[n]
      BY <1>1 DEF TypeOK
    <3> QED
      BY <3>1 DEF Owed
  <2>3. refs[n][f] \in Nat
    BY DEF TypeOK
  <2> QED
    BY <2>1, <2>2, <2>3, CoverKept
<1> QED
  BY <1>3, <1>4

\* Steps that count nothing and track no further submitted job.
LEMMA QuietCover ==
  ASSUME TypeOK, TypeOK', RefsCoverPending, slipped \subseteq slipped', UNCHANGED refs,
         \A n \in Mgr : \A j \in pend'[n] :
           j \in pend[n] /\ call[j] = "registered" => call'[j] = "registered",
         \A n \in Mgr : \A j \in pend'[n] : j \in pend[n] \/ call'[j] = "registered"
  PROVE  RefsCoverPending'
<1> SUFFICES ASSUME NEW m \in Mgr, NEW f \in Func, SlippedOf(m, f) = {}
             PROVE  refs'[m][f] >= Cardinality(Owed(m, f)')
  BY SlippedGrows DEF RefsCoverPending
<1>1. Owed(m, f)' \subseteq Owed(m, f)
  BY DEF Owed
<1>2. refs'[m][f] >= refs[m][f]
  BY DEF TypeOK
<1> QED
  BY <1>1, <1>2, CoverKept

\* Every step keeps the functions of pending jobs cached.
LEMMA NextCover ==
  ASSUME TypeOK, TypeOK', Flow, RefsCoverPending, [Next]_vars
  PROVE  RefsCoverPending'
<1>g. slipped \subseteq slipped'
  BY SlippedOnlyGrows
<1>1. ASSUME NEW m \in Mgr,
             \/ Construct(m) \/ AutoStart(m) \/ EnqFind(m)
             \/ CleanFails(m) \/ AutoStartFails(m) \/ EnqAbandon(m)
      PROVE  RefsCoverPending'
  <2>1. UNCHANGED <<refs, pend, call>>
    BY <1>1 DEF Construct, AutoStart, EnqFind, CleanFails, AutoStartFails, EnqAbandon,
                jobVars, mgrVars
  <2> QED
    BY <1>g, <2>1, QuietCover
<1>2. ASSUME NEW m \in Mgr, NEW j \in Job,
             EnqPut(m, j) \/ EnqSlip(m, j) \/ EnqForeign(m, j) \/ CleanStray(m, j)
      PROVE  RefsCoverPending'
  <2>1. UNCHANGED <<refs, pend, call>>
    BY <1>2 DEF EnqPut, EnqSlip, Put, EnqForeign, CleanStray, jobVars, mgrVars
  <2> QED
    BY <1>g, <2>1, QuietCover
<1>3. ASSUME NEW m \in Mgr, NEW g \in Gen,
             \/ EnqExit(m, g) \/ StatusDecide(m, g)
             \/ StopBegin(m, g) \/ StopEnd(m, g)
      PROVE  RefsCoverPending'
  <2>1. UNCHANGED <<refs, pend, call>>
    BY <1>3 DEF EnqExit, StatusDecide, StopBegin, StopEnd, jobVars, mgrVars
  <2> QED
    BY <1>g, <2>1, QuietCover
<1>4. ASSUME NEW m \in Mgr, NEW t \in Task,
             \/ WorkerInit(m, t) \/ WorkerTake(m, t) \/ TakeUncached(m, t)
             \/ WorkerLaunch(m, t)
      PROVE  RefsCoverPending'
  <2>1. UNCHANGED <<refs, pend, call>>
    BY <1>4 DEF WorkerInit, WorkerTake, TakeUncached, WorkerLaunch, jobVars, mgrVars
  <2> QED
    BY <1>g, <2>1, QuietCover
<1>5. ASSUME NEW j \in Job, SubmitRegister(j) PROVE RefsCoverPending'
  <2>1. /\ UNCHANGED refs /\ Home[j] \in Mgr
        /\ call' = [call EXCEPT ![j] = "registered"]
        /\ pend' = [pend EXCEPT ![Home[j]] = @ \cup {j}]
    BY <1>5, QueueAssumption DEF SubmitRegister, QueueAssumption
  <2>2. ASSUME NEW n \in Mgr, NEW i \in pend'[n]
        PROVE  /\ i \in Job
               /\ i \in pend[n] \/ i = j
    BY <2>1 DEF TypeOK
  <2> QED
    BY <1>g, <2>1, <2>2, QuietCover DEF TypeOK
<1>6. ASSUME NEW j \in Job, SubmitCheck(j) \/ SubmitStart(j) \/ SubmitStartFails(j)
      PROVE  RefsCoverPending'
  <2>1. /\ UNCHANGED <<refs, pend>>
        /\ call[j] # "registered"
        /\ \A i \in Job : i # j => call'[i] = call[i]
    BY <1>6 DEF SubmitCheck, SubmitStart, SubmitStartFails, mgrVars, TypeOK
  <2> QED
    BY <1>g, <2>1, QuietCover DEF TypeOK
<1>7. ASSUME NEW j \in Job, SubmitInsert(j) PROVE RefsCoverPending'
  <2>1. /\ refs' = [refs EXCEPT ![Home[j]][FuncOf[j]] = @ + 1]
        /\ UNCHANGED pend
        /\ \A i \in Job : i # j => call'[i] = call[i]
    BY <1>7 DEF SubmitInsert, TypeOK
  <2> QED
    BY <1>g, <2>1, CountCover
<1>8. ASSUME NEW j \in Job, SubmitFails(j) PROVE RefsCoverPending'
  <2>1. /\ refs' = [refs EXCEPT ![Home[j]][FuncOf[j]] = @ + 1]
        /\ \A n \in Mgr : \A i \in pend'[n] : i \in pend[n]
        /\ \A i \in Job : i # j => call'[i] = call[i]
    BY <1>8 DEF SubmitFails, TypeOK
  <2> QED
    BY <1>g, <2>1, CountCover
<1>9. ASSUME NEW m \in Mgr, NEW t \in Task,
             LaunchFails(m, t) \/ \E ok \in BOOLEAN : WorkerFinish(m, t, ok)
      PROVE  RefsCoverPending'
  <2>1. Holds(m, t) /\ Release(m, t) /\ UNCHANGED call
    BY <1>9 DEF WorkerFinish, LaunchFails, Holds
  <2> QED
    BY <1>g, <2>1, ReleaseCover
<1>10. ASSUME NEW m \in Mgr, NEW g \in Gen, StopWorker(m, g) PROVE RefsCoverPending'
  <2>1. PICK t \in Task : t = wlist[m][idx[m][g]]
    <3>1. wlist[m][idx[m][g]] \in Task
      BY <1>10 DEF StopWorker, TypeOK
    <3> QED
      BY <3>1
  <2>2. CASE wk[m][t] = "run"
    <3>1. Holds(m, t) /\ Release(m, t) /\ UNCHANGED call
      BY <1>10, <2>1, <2>2 DEF StopWorker, Holds, jobVars
    <3> QED
      BY <1>g, <3>1, ReleaseCover
  <2>3. CASE wk[m][t] # "run"
    <3>1. UNCHANGED <<refs, pend, call>>
      BY <1>10, <2>1, <2>3 DEF StopWorker, jobVars
    <3> QED
      BY <1>g, <3>1, QuietCover
  <2> QED
    BY <2>2, <2>3
<1>11. ASSUME NEW m \in Mgr, Crash(m) PROVE RefsCoverPending'
  <2> SUFFICES ASSUME NEW n \in Mgr, NEW f \in Func, SlippedOf(n, f) = {}
               PROVE  refs'[n][f] >= Cardinality(Owed(n, f)')
    BY <1>g, SlippedGrows DEF RefsCoverPending
  <2>1. CASE n = m
    <3>1. refs'[n][f] = 0 /\ Owed(n, f)' = {}
      BY <1>11, <2>1 DEF Crash, Owed, TypeOK
    <3> QED
      BY <3>1, FS_EmptySet
  <2>2. CASE n # m
    <3>1. refs'[n] = refs[n] /\ pend'[n] = pend[n]
      BY <1>11, <2>2 DEF Crash, TypeOK
    <3>2. \A j \in pend[n] : j \in Job /\ Home[j] = n
      BY DEF Flow, PendInv, TypeOK
    <3>3. \A j \in pend[n] : call'[j] = call[j]
      BY <1>11, <2>2, <3>2 DEF Crash
    <3>4. Owed(n, f)' \subseteq Owed(n, f)
      BY <3>1, <3>3 DEF Owed
    <3>5. refs'[n][f] >= refs[n][f]
      BY <3>1 DEF TypeOK
    <3> QED
      BY <3>4, <3>5, CoverKept
  <2> QED
    BY <2>1, <2>2
<1>12. CASE UNCHANGED vars
  <2>1. UNCHANGED <<refs, pend, call>>
    BY <1>12 DEF vars, jobVars, mgrVars
  <2> QED
    BY <1>g, <2>1, QuietCover
<1> QED
  BY <1>1, <1>2, <1>3, <1>4, <1>5, <1>6, <1>7, <1>8, <1>9, <1>10, <1>11, <1>12
     DEF Next, Submit, Enqueue, Fails, WorkerStep, StatusStep

-----------------------------------------------------------------------------
\* The inductive invariant holds of every behaviour of the queue.
THEOREM Inductive == Spec => []IInv
<1>1. Init => IInv
  BY InitTypeOK, InitFlow, InitCover DEF IInv, Flow
<1>2. IInv /\ [Next]_vars => IInv'
  <2> SUFFICES ASSUME IInv, [Next]_vars PROVE IInv'
    OBVIOUS
  <2>1. TypeOK /\ Flow /\ RefsCoverPending
    BY DEF IInv, Flow
  <2>2. TypeOK'
    BY <2>1, NextTypeOK DEF Flow
  <2>3. Flow' /\ RefsCoverPending'
    BY <2>1, <2>2, NextFlow, NextCover
  <2> QED
    BY <2>2, <2>3 DEF IInv, Flow
<1> QED
  BY <1>1, <1>2, PTL DEF Spec

\* Every variable of the queue stays in its type.
THEOREM TypeCorrect == Spec => []TypeOK
<1>1. IInv => TypeOK
  BY DEF IInv
<1> QED
  BY <1>1, Inductive, PTL

\* The jobs a manager tracks never need more references than are counted,
\* unless one of the same function was queued without being written so.
THEOREM RefsCover == Spec => []RefsCoverPending
<1>1. IInv => RefsCoverPending
  BY DEF IInv
<1> QED
  BY <1>1, Inductive, PTL

\* No job whose update after the put got through is queued twice, held twice,
\* or queued while it is held.
THEOREM Once == Spec => []HandledOnce
<1>1. IInv => HandledOnce
  BY DEF IInv
<1> QED
  BY <1>1, Inductive, PTL

\* A job in flight whose update after the put got through is tracked by its
\* own manager, and nobody has resolved its future.
THEOREM FlightTracked == Spec => []InFlightTracked
<1>1. IInv => InFlightTracked
  <2> SUFFICES ASSUME IInv, NEW m \in Mgr, NEW j \in InFlight(m)
               PROVE  Placed(m, j)
    BY DEF InFlightTracked, Placed, Fresh
  <2> QED
    BY DEF InFlight, IInv, QueueInv, HeldInv
<1> QED
  BY <1>1, Inductive, PTL
-----------------------------------------------------------------------------
(* One status check                                                        *)

Watches(m, g) == st[m][g] \in {"loop", "decided"}

\* The check that watches a manager is the one its start created; a manager
\* that has not started, or whose start failed, has none.
CheckInv ==
  \A m \in Mgr :
    /\ \A g, h \in Gen : Watches(m, g) /\ Watches(m, h) => g = h
    /\ running[m] /\ m \notin stalled <=> \E g \in Gen : Watches(m, g)
    /\ m \in stalled => running[m]
    /\ up[m] # "up" => ~running[m]

\* A start adds one check where there was none.
LEMMA StartCheck ==
  ASSUME TypeOK, CheckInv, NEW m \in Mgr, NEW g \in Gen, StartAs(m, g), ~running[m],
         UNCHANGED stalled, up'[m] = "up", \A n \in Mgr : n # m => up'[n] = up[n]
  PROVE  CheckInv'
<1>1. /\ running' = [running EXCEPT ![m] = TRUE] /\ st' = [st EXCEPT ![m][g] = "loop"]
      /\ \A h \in Gen : ~Watches(m, h)
  BY DEF StartAs, CheckInv
<1>2. /\ running'[m] /\ st'[m][g] = "loop"
      /\ \A h \in Gen : h # g => st'[m][h] = st[m][h]
      /\ \A n \in Mgr : n # m => running'[n] = running[n] /\ st'[n] = st[n]
  BY <1>1 DEF TypeOK
<1> QED
  BY <1>1, <1>2 DEF CheckInv, Watches

\* A start that fails adds none.
LEMMA StallCheck ==
  ASSUME TypeOK, CheckInv, NEW m \in Mgr, StartRaises(m), ~running[m],
         up'[m] = "up", \A n \in Mgr : n # m => up'[n] = up[n]
  PROVE  CheckInv'
<1>1. /\ st' = st /\ stalled' = stalled \cup {m}
      /\ running'[m] /\ \A n \in Mgr : n # m => running'[n] = running[n]
      /\ \A h \in Gen : ~Watches(m, h)
  BY DEF StartRaises, CheckInv, stopVars, TypeOK
<1> QED
  BY <1>1 DEF CheckInv, Watches

\* Every step keeps it.
LEMMA NextCheck ==
  ASSUME TypeOK, CheckInv, [Next]_vars
  PROVE  CheckInv'
<1>l. ASSUME UNCHANGED <<running, st, up, stalled>> PROVE CheckInv'
  BY <1>l DEF CheckInv, Watches
<1> USE DEF jobVars, mgrVars, runVars, enqVars, stopVars, workerVars, lapseVars
<1>1. ASSUME NEW m \in Mgr, Construct(m) PROVE CheckInv'
  BY <1>1 DEF Construct, CheckInv, Watches, TypeOK
<1>2. ASSUME NEW m \in Mgr, AutoStart(m) PROVE CheckInv'
  <2>1. PICK g \in Gen : StartAs(m, g)
    BY <1>2 DEF AutoStart
  <2>2. /\ ~running[m] /\ up'[m] = "up" /\ UNCHANGED stalled
        /\ \A n \in Mgr : n # m => up'[n] = up[n]
    BY <1>2 DEF AutoStart, CheckInv, TypeOK
  <2> QED
    BY <2>1, <2>2, StartCheck
<1>3. ASSUME NEW m \in Mgr, Crash(m) PROVE CheckInv'
  <2>1. /\ ~running'[m] /\ \A g \in Gen : st'[m][g] = "none"
        /\ stalled' = stalled \ {m}
        /\ \A n \in Mgr : n # m => running'[n] = running[n] /\ st'[n] = st[n] /\ up'[n] = up[n]
    BY <1>3 DEF Crash, TypeOK
  <2> QED
    BY <2>1 DEF CheckInv, Watches
<1>4. ASSUME NEW m \in Mgr, Enqueue(m) PROVE CheckInv'
  BY <1>4, <1>l DEF Enqueue, EnqFind, EnqPut, Put, EnqForeign, EnqExit
<1>5. ASSUME NEW m \in Mgr, NEW j \in Job, CleanStray(m, j) PROVE CheckInv'
  BY <1>5, <1>l DEF CleanStray
<1>6. ASSUME NEW j \in Job, SubmitRegister(j) \/ SubmitInsert(j) \/ SubmitFails(j) \/ SubmitCheck(j)
      PROVE  CheckInv'
  BY <1>6, <1>l DEF SubmitRegister, SubmitInsert, SubmitFails, SubmitCheck
<1>7. ASSUME NEW j \in Job, SubmitStart(j) PROVE CheckInv'
  <2>1. CASE running[Home[j]]
    BY <1>7, <2>1, <1>l DEF SubmitStart
  <2>2. CASE ~running[Home[j]]
    <3>1. PICK g \in Gen : StartAs(Home[j], g)
      BY <1>7, <2>2 DEF SubmitStart
    <3>2. Home[j] \in Mgr /\ up[Home[j]] = "up" /\ up' = up /\ UNCHANGED stalled
      BY <1>7, QueueAssumption DEF SubmitStart, LoopFree, QueueAssumption
    <3> QED
      BY <2>2, <3>1, <3>2, StartCheck
  <2> QED
    BY <2>1, <2>2
<1>8. ASSUME NEW m \in Mgr, NEW t \in Task, WorkerStep(m, t) PROVE CheckInv'
  BY <1>8, <1>l DEF WorkerStep, WorkerInit, WorkerTake, TakeUncached, WorkerLaunch,
                    LaunchFails, WorkerFinish
<1>9. ASSUME NEW m \in Mgr, NEW g \in Gen, StatusDecide(m, g) PROVE CheckInv'
  <2>1. /\ \A n \in Mgr, h \in Gen : Watches(n, h)' <=> Watches(n, h)
        /\ UNCHANGED <<running, up, stalled>>
    BY <1>9 DEF StatusDecide, Watches, TypeOK
  <2> QED
    BY <2>1 DEF CheckInv
<1>10. ASSUME NEW m \in Mgr, NEW g \in Gen, StopBegin(m, g) PROVE CheckInv'
  <2>1. \A h \in Gen : Watches(m, h) => h = g
    BY <1>10 DEF StopBegin, CheckInv, Watches
  <2>2. /\ ~running'[m] /\ st'[m][g] = "stopping" /\ up' = up /\ UNCHANGED stalled
        /\ m \notin stalled
        /\ \A h \in Gen : h # g => st'[m][h] = st[m][h]
        /\ \A n \in Mgr : n # m => running'[n] = running[n] /\ st'[n] = st[n]
    BY <1>10 DEF StopBegin, TypeOK, CheckInv, Watches
  <2> QED
    BY <2>1, <2>2 DEF CheckInv, Watches
<1>11. ASSUME NEW m \in Mgr, NEW g \in Gen, StopWorker(m, g) PROVE CheckInv'
  BY <1>11, <1>l DEF StopWorker
<1>12. ASSUME NEW m \in Mgr, NEW g \in Gen, StopEnd(m, g) PROVE CheckInv'
  <2>1. /\ \A n \in Mgr, h \in Gen : Watches(n, h)' <=> Watches(n, h)
        /\ UNCHANGED <<running, up, stalled>>
    BY <1>12 DEF StopEnd, Watches, TypeOK
  <2> QED
    BY <2>1 DEF CheckInv
<1>13. CASE UNCHANGED vars
  BY <1>13, <1>l DEF vars
<1>14. ASSUME NEW m \in Mgr, Fails(m) PROVE CheckInv'
  <2>1. CASE AutoStartFails(m)
    <3>1. /\ StartRaises(m) /\ ~running[m] /\ up'[m] = "up"
          /\ \A n \in Mgr : n # m => up'[n] = up[n]
      BY <2>1 DEF AutoStartFails, CheckInv, TypeOK
    <3> QED
      BY <3>1, StallCheck
  <2>2. CASE CleanFails(m) \/ EnqAbandon(m) \/ \E j \in Job : EnqSlip(m, j)
    BY <2>2, <1>l DEF CleanFails, EnqAbandon, EnqSlip, Put
  <2> QED
    BY <1>14, <2>1, <2>2 DEF Fails
<1>15. ASSUME NEW j \in Job, SubmitStartFails(j) PROVE CheckInv'
  <2>1. Home[j] \in Mgr /\ up[Home[j]] = "up" /\ up' = up /\ ~running[Home[j]]
    BY <1>15, QueueAssumption DEF SubmitStartFails, LoopFree, QueueAssumption
  <2> QED
    BY <1>15, <2>1, StallCheck DEF SubmitStartFails
<1> QED
  BY <1>1, <1>2, <1>3, <1>4, <1>5, <1>6, <1>7, <1>8, <1>9, <1>10, <1>11, <1>12, <1>13,
     <1>14, <1>15
     DEF Next, Submit, StatusStep

\* A manager whose start went through runs exactly while one status check
\* watches it.
THEOREM CheckedByOne == Spec => []OneStatusCheck
<1>1. Init => CheckInv
  BY DEF Init, CheckInv, Watches
<1>2. TypeOK /\ CheckInv /\ [Next]_vars => CheckInv'
  BY NextCheck
<1>3. CheckInv => OneStatusCheck
  <2> SUFFICES ASSUME CheckInv, NEW m \in Mgr
               PROVE  IF running[m] /\ m \notin stalled
                        THEN \E g \in Gen : {h \in Gen : Watches(m, h)} = {g}
                        ELSE {h \in Gen : Watches(m, h)} = {}
    BY DEF OneStatusCheck, Watches
  <2>1. CASE running[m] /\ m \notin stalled
    <3>1. PICK g \in Gen : Watches(m, g)
      BY <2>1 DEF CheckInv
    <3>2. {h \in Gen : Watches(m, h)} = {g}
      BY <3>1 DEF CheckInv
    <3> QED
      BY <2>1, <3>2
  <2>2. CASE ~(running[m] /\ m \notin stalled)
    BY <2>2 DEF CheckInv
  <2> QED
    BY <2>1, <2>2
<1> QED
  BY <1>1, <1>2, <1>3, TypeCorrect, PTL DEF Spec
-----------------------------------------------------------------------------
(* A stop that no submission overlaps                                      *)

\* Nothing is under way at m, in its pool or on its way there, but the second
\* copies of jobs that were queued twice.
AtRest(m) ==
  /\ queue[m] = <<>> /\ batch[m] = {}
  /\ \A t \in Task : /\ wk[m][t] # "created"
                     /\ Holds(m, t) => wjob[m][t] \in slipped
  /\ \A j \in Job : Home[j] = m => call[j] \notin {"registered", "inserted", "starting"}

\* m has one generation of tasks, all of which stop() will find in its list,
\* and a worker that holds a job says so in worker_states.
PoolAt(m) ==
  /\ \A g, h \in Gen : st[m][g] # "none" /\ st[m][h] # "none" => g = h
  /\ \A t \in Task : wk[m][t] # "none" =>
       /\ st[m][t[1]] # "none"
       /\ \E k \in DOMAIN wlist[m] : wlist[m][k] = t
  /\ \A t \in Task : Holds(m, t) => wstate[m][t[2]] = "busy"
  /\ up[m] # "up" => \A g \in Gen : st[m][g] = "none"

\* Nothing begins between the decision to stop and the end of the stop.
StopAt(m) ==
  \A g \in Gen :
    /\ st[m][g] \in {"decided", "stopping"} => AtRest(m)
    /\ st[m][g] = "stopping" =>
         /\ stopEv[m]
         /\ \A t \in Task : wk[m][t] # "none" =>
              \E k \in DOMAIN wlist[m] : k >= idx[m][g] /\ wlist[m][k] = t

QuietInv == \A m \in Mgr \ Overlap : PoolAt(m) /\ StopAt(m)

\* The parts of a task's name.
LEMMA TaskParts ==
  /\ \A t \in Task : t[1] \in Gen /\ t[2] \in 1..NumWorkers
  /\ \A t, u \in Task : t[1] = u[1] /\ t[2] = u[2] => t = u
  BY DEF Task

\* What happens at other managers does not matter.
LEMMA QuietElsewhere ==
  ASSUME NEW m \in Mgr, PoolAt(m), StopAt(m),
         /\ queue'[m] = queue[m] /\ batch'[m] = batch[m] /\ stopEv'[m] = stopEv[m]
         /\ st'[m] = st[m] /\ idx'[m] = idx[m] /\ wlist'[m] = wlist[m]
         /\ wk'[m] = wk[m] /\ wjob'[m] = wjob[m] /\ wstate'[m] = wstate[m]
         /\ up'[m] = up[m],
         slipped \subseteq slipped',
         \A j \in Job : Home[j] = m => call'[j] = call[j]
  PROVE  PoolAt(m)' /\ StopAt(m)'
<1>1. PoolAt(m)'
  BY DEF PoolAt, Holds
<1>2. AtRest(m) => AtRest(m)'
  BY DEF AtRest, Holds
<1> QED
  BY <1>1, <1>2 DEF StopAt

\* Work that comes while no stop is under way disturbs none.
LEMMA QuietAtWork ==
  ASSUME NEW m \in Mgr, PoolAt(m), \A g \in Gen : st[m][g] \notin {"decided", "stopping"},
         /\ st'[m] = st[m] /\ wlist'[m] = wlist[m]
         /\ wk'[m] = wk[m] /\ wstate'[m] = wstate[m] /\ up'[m] = up[m]
  PROVE  PoolAt(m)' /\ StopAt(m)'
<1>1. PoolAt(m)'
  BY DEF PoolAt, Holds
<1> QED
  BY <1>1 DEF StopAt

\* start() makes the only generation of m.
LEMMA QuietStart ==
  ASSUME TypeOK, NEW m \in Mgr, NEW g \in Gen, StartAs(m, g), PoolAt(m),
         \A h \in Gen : st[m][h] = "none", up'[m] = "up", UNCHANGED wstate
  PROVE  PoolAt(m)' /\ StopAt(m)'
<1>1. /\ st'[m][g] = "loop"
      /\ \A h \in Gen : h # g => st'[m][h] = "none"
  BY DEF StartAs, TypeOK
<1>2. \A t \in Task : wk'[m][t] = IF t[1] = g THEN "created" ELSE "none"
  <2>1. \A t \in Task : wk[m][t] = "none"
    BY TaskParts DEF PoolAt
  <2> QED
    BY <2>1 DEF StartAs, TypeOK
<1>3. ASSUME NEW t \in Task, t[1] = g
      PROVE  \E k \in DOMAIN wlist'[m] : wlist'[m][k] = t
  <2> DEFINE new == [i \in 1..NumWorkers |-> <<g, i>>]
  <2>1. wlist[m] \in Seq(Task)
    BY DEF TypeOK
  <2> new \in Seq(Task) /\ Len(new) = NumWorkers
    <3>1. NumWorkers \in Nat
      BY QueueAssumption DEF QueueAssumption
    <3>2. \A i \in 1..NumWorkers : <<g, i>> \in Task
      BY DEF Task
    <3> QED
      BY <3>1, <3>2
  <2>2. wlist'[m] = wlist[m] \o new
    BY DEF StartAs, TypeOK
  <2>3. t[2] \in 1..NumWorkers /\ new[t[2]] = t
    BY <1>3, TaskParts DEF Task
  <2>4. Len(wlist[m]) + t[2] \in DOMAIN wlist'[m] /\ wlist'[m][Len(wlist[m]) + t[2]] = new[t[2]]
    <3> HIDE DEF new
    <3>1. \A a, b \in Seq(Task) : \A i \in 1..Len(b) :
            Len(a) + i \in DOMAIN (a \o b) /\ (a \o b)[Len(a) + i] = b[i]
      OBVIOUS
    <3>2. t[2] \in 1..Len(new)
      BY <2>1, <2>3
    <3> DEFINE old == wlist[m]
    <3>3. Len(old) + t[2] \in DOMAIN (old \o new) /\ (old \o new)[Len(old) + t[2]] = new[t[2]]
      <4> HIDE DEF old
      <4> QED
        BY <2>1, <3>1, <3>2 DEF old
    <3> QED
      BY <2>2, <3>3
  <2> QED
    BY <2>3, <2>4
<1>4. PoolAt(m)'
  BY <1>1, <1>2, <1>3 DEF PoolAt, Holds
<1>5. StopAt(m)'
  BY <1>1 DEF StopAt
<1> QED
  BY <1>4, <1>5

\* What Release does to the worker itself.
LEMMA ReleaseWorker ==
  ASSUME NEW m \in Mgr, NEW t, Release(m, t)
  PROVE  /\ wstate' = [wstate EXCEPT ![m][t[2]] = "idle"]
         /\ wjob' = [wjob EXCEPT ![m][t] = NoJob]
BY Zenon DEF Release

\* A worker that becomes idle shares its place in worker_states with no other;
\* one that does so during a stop ends.
LEMMA QuietIdle ==
  ASSUME TypeOK, NEW m \in Mgr, NEW t \in Task, PoolAt(m), StopAt(m),
         wk[m][t] \in {"created", "rate", "run"}, LoopFree(m),
         wstate' = [wstate EXCEPT ![m][t[2]] = "idle"],
         wk' = [wk EXCEPT ![m][t] = LoopHead(m)],
         \A u \in Task : u # t => wjob'[m][u] = wjob[m][u],
         UNCHANGED <<call, queue, batch, stopEv, idx, st, wlist, up, slipped>>
  PROVE  PoolAt(m)' /\ StopAt(m)'
<1>1. \A g \in Gen : st[m][g] # "decided"
  BY DEF LoopFree
<1>2. /\ wk'[m][t] = LoopHead(m) /\ LoopHead(m) \in {"none", "get"}
      /\ \A u \in Task : u # t => wk'[m][u] = wk[m][u]
  BY DEF LoopHead, TypeOK
<1>3. ASSUME NEW u \in Task, u # t, Holds(m, u) PROVE u[2] # t[2]
  <2>1. u[1] = t[1]
    BY <1>3, TaskParts DEF PoolAt, Holds
  <2> QED
    BY <1>3, <2>1, TaskParts
<1>4. \A i \in 1..NumWorkers : i # t[2] => wstate'[m][i] = wstate[m][i]
  BY DEF TypeOK
<1>5. \A u \in Task : Holds(m, u)' => u # t /\ Holds(m, u)
  BY <1>2 DEF Holds
<1>6. \A u \in Task : Holds(m, u)' => wstate'[m][u[2]] = "busy"
  BY <1>3, <1>4, <1>5, TaskParts DEF PoolAt
<1>7. \A u \in Task : wk'[m][u] # "none" => wk[m][u] # "none"
  BY <1>2
<1>8. PoolAt(m)'
  BY <1>6, <1>7 DEF PoolAt
<1>9. AtRest(m) => AtRest(m)'
  <2>1. \A u \in Task : wk'[m][u] = "created" => wk[m][u] = "created"
    BY <1>2
  <2>2. \A u \in Task : Holds(m, u)' => Holds(m, u) /\ wjob'[m][u] = wjob[m][u]
    BY <1>5
  <2> QED
    BY <2>1, <2>2 DEF AtRest
<1> QED
  BY <1>7, <1>8, <1>9 DEF StopAt

\* The decision to stop is made when nothing is under way, and no submission
\* is: no worker holds a job while all are idle, or an untracked job that was
\* queued but once.
LEMMA QuietDecide ==
  ASSUME TypeOK, Flow, NEW m \in Mgr \ Overlap, NEW g \in Gen, PoolAt(m), StatusDecide(m, g)
  PROVE  PoolAt(m)' /\ StopAt(m)'
<1> USE DEF jobVars, mgrVars, runVars, enqVars, workerVars, lapseVars
<1>1. /\ st'[m][g] = "decided" /\ st[m][g] = "loop"
      /\ \A h \in Gen : h # g => st'[m][h] = st[m][h]
      /\ UNCHANGED <<wk, wjob, wlist, wstate, up, queue, batch, call, slipped>>
  BY DEF StatusDecide, TypeOK
<1>2. PoolAt(m)'
  BY <1>1, TaskParts DEF PoolAt, Holds
<1>3. ASSUME NEW t \in Task, Holds(m, t) PROVE wjob[m][t] \in slipped
  <2>1. CASE AllIdle(m)
    <3>1. wstate[m][t[2]] # "busy"
      BY <2>1, TaskParts DEF AllIdle
    <3> QED
      BY <1>3, <3>1 DEF PoolAt
  <2>2. CASE pend[m] = {}
    BY <1>3, <2>2 DEF Flow, HeldInv, Placed, Fresh
  <2> QED
    BY <2>1, <2>2 DEF StatusDecide
<1>4. AtRest(m)
  BY <1>3 DEF AtRest, StatusDecide, LoopFree
<1>5. \A h \in Gen : st'[m][h] # "stopping"
  BY <1>1 DEF PoolAt
<1>6. AtRest(m)'
  BY <1>1, <1>4 DEF AtRest, Holds
<1> QED
  BY <1>2, <1>5, <1>6 DEF StopAt

\* stop() finds every task of the pool in its list, and has them all ended
\* before it clears the list.
LEMMA QuietStop ==
  ASSUME TypeOK, NEW m \in Mgr, NEW g \in Gen, PoolAt(m), StopAt(m),
         StopBegin(m, g) \/ StopWorker(m, g) \/ StopEnd(m, g)
  PROVE  PoolAt(m)' /\ StopAt(m)'
<1> USE DEF jobVars, mgrVars, runVars, enqVars, workerVars, lapseVars
<1>0. st[m][g] \in {"decided", "stopping"} /\ AtRest(m)
  BY DEF StopBegin, StopWorker, StopEnd, StopAt
<1>s. \A h \in Gen : h # g => st[m][h] = "none"
  BY <1>0 DEF PoolAt
<1>1. CASE StopBegin(m, g)
  <2>1. /\ st'[m][g] = "stopping" /\ idx'[m][g] = 1 /\ stopEv'[m]
        /\ \A h \in Gen : h # g => st'[m][h] = st[m][h]
        /\ UNCHANGED <<wk, wjob, wlist, wstate, up, queue, batch, call, slipped>>
    BY <1>1 DEF StopBegin, TypeOK
  <2>2. PoolAt(m)'
    BY <1>0, <2>1, TaskParts DEF PoolAt, Holds
  <2>3. AtRest(m)'
    BY <1>0, <2>1 DEF AtRest, Holds
  <2>4. \A k \in DOMAIN wlist[m] : k >= 1
    BY DEF TypeOK
  <2>5. \A t \in Task : wk'[m][t] # "none" =>
          \E k \in DOMAIN wlist'[m] : k >= idx'[m][g] /\ wlist'[m][k] = t
    BY <2>1, <2>4 DEF PoolAt
  <2> QED
    BY <1>s, <2>1, <2>2, <2>3, <2>5 DEF StopAt
<1>2. CASE StopWorker(m, g)
  <2> DEFINE t == wlist[m][idx[m][g]]
  <2>1. t \in Task /\ idx[m][g] \in Nat
    BY <1>2 DEF StopWorker, TypeOK
  <2>2. /\ wjob' = [wjob EXCEPT ![m][t] = NoJob]
        /\ \/ wk[m][t] = "run" /\ wstate' = [wstate EXCEPT ![m][t[2]] = "idle"]
           \/ UNCHANGED wstate
    <3>1. CASE wk[m][t] = "run"
      <4>1. Release(m, t)
        BY <1>2, <3>1, Zenon DEF StopWorker
      <4>2. /\ wjob' = [wjob EXCEPT ![m][t] = NoJob]
            /\ wstate' = [wstate EXCEPT ![m][t[2]] = "idle"]
        BY <4>1, ReleaseWorker, Zenon
      <4> QED
        BY <3>1, <4>2, Zenon
    <3>2. CASE wk[m][t] # "run"
      BY <1>2, <3>2, Zenon DEF StopWorker
    <3> QED
      BY <3>1, <3>2
  <2>3. /\ wk' = [wk EXCEPT ![m][t] = "none"]
        /\ idx' = [idx EXCEPT ![m][g] = @ + 1]
        /\ st[m][g] = "stopping"
        /\ UNCHANGED <<st, stopEv, wlist, up, queue, batch, call, slipped>>
    BY <1>2 DEF StopWorker
  <2> HIDE DEF t
  <2>4. /\ wk'[m][t] = "none" /\ \A u \in Task : u # t => wk'[m][u] = wk[m][u]
        /\ idx'[m][g] = idx[m][g] + 1
        /\ \A u \in Task : u # t => wjob'[m][u] = wjob[m][u]
    BY <2>1, <2>2, <2>3 DEF TypeOK
  <2>5. PoolAt(m)'
    <3>1. \A u \in Task : Holds(m, u)' => u # t /\ Holds(m, u)
      BY <2>4 DEF Holds
    <3>2. ASSUME NEW u \in Task, Holds(m, u)' PROVE wstate'[m][u[2]] = wstate[m][u[2]]
      <4>1. CASE UNCHANGED wstate
        BY <4>1
      <4>2. CASE wk[m][t] = "run" /\ wstate' = [wstate EXCEPT ![m][t[2]] = "idle"]
        <5>1. u[1] = t[1] /\ u # t
          BY <2>1, <3>1, <3>2, <4>2, TaskParts DEF PoolAt, Holds
        <5>2. u[2] # t[2]
          BY <2>1, <5>1, TaskParts
        <5> QED
          BY <4>2, <5>2 DEF TypeOK
      <4> QED
        BY <2>2, <4>1, <4>2
    <3>3. \A u \in Task : wk'[m][u] # "none" => wk[m][u] # "none"
      BY <2>4
    <3> QED
      BY <2>3, <3>1, <3>2, <3>3 DEF PoolAt
  <2>6. AtRest(m)'
    BY <1>0, <2>3, <2>4 DEF AtRest, Holds
  <2>7. ASSUME NEW u \in Task, wk'[m][u] # "none"
        PROVE  \E k \in DOMAIN wlist'[m] : k >= idx'[m][g] /\ wlist'[m][k] = u
    <3>1. u # t /\ wk[m][u] # "none"
      BY <2>4, <2>7
    <3>2. PICK k \in DOMAIN wlist[m] : k >= idx[m][g] /\ wlist[m][k] = u
      BY <2>3, <3>1 DEF StopAt
    <3>3. k # idx[m][g]
      BY <3>1, <3>2 DEF t
    <3>4. k \in Nat
      BY <3>2 DEF TypeOK
    <3>5. k >= idx'[m][g]
      BY <2>1, <2>4, <3>2, <3>3, <3>4
    <3> QED
      BY <2>3, <3>2, <3>5
  <2> QED
    BY <1>s, <2>3, <2>5, <2>6, <2>7 DEF StopAt
<1>3. CASE StopEnd(m, g)
  <2>1. /\ st'[m][g] = "none" /\ \A h \in Gen : h # g => st'[m][h] = st[m][h]
        /\ UNCHANGED <<wk, wstate, up>>
    BY <1>3 DEF StopEnd, TypeOK
  <2>2. \A t \in Task : wk[m][t] = "none"
    <3>1. /\ idx[m][g] \in Nat /\ idx[m][g] > Len(wlist[m]) /\ st[m][g] = "stopping"
          /\ Len(wlist[m]) \in Nat /\ \A k \in DOMAIN wlist[m] : k \in Nat /\ k <= Len(wlist[m])
      BY <1>3 DEF StopEnd, TypeOK
    <3>2. \A k \in DOMAIN wlist[m] : ~(k >= idx[m][g])
      BY <3>1
    <3> QED
      BY <3>1, <3>2 DEF StopAt
  <2>3. PoolAt(m)'
    BY <1>s, <2>1, <2>2 DEF PoolAt, Holds
  <2> QED
    BY <1>s, <2>1, <2>3 DEF StopAt
<1> QED
  BY <1>1, <1>2, <1>3

\* Every step keeps QuietInv.
LEMMA NextQuiet ==
  ASSUME TypeOK, Flow, CheckInv, QuietInv, [Next]_vars
  PROVE  QuietInv'
<1> SUFFICES ASSUME NEW n \in Mgr \ Overlap PROVE PoolAt(n)' /\ StopAt(n)'
  BY DEF QuietInv
<1>0. PoolAt(n) /\ StopAt(n)
  BY DEF QuietInv
<1>h. \A j \in Job : Home[j] \in Mgr
  BY QueueAssumption DEF QueueAssumption
<1>g. slipped \subseteq slipped'
  BY SlippedOnlyGrows
<1> USE DEF jobVars, mgrVars, runVars, enqVars, stopVars, workerVars, lapseVars
\* A stop is under way only when nothing else is.
<1>r. ASSUME ~AtRest(n) PROVE \A g \in Gen : st[n][g] \notin {"decided", "stopping"}
  BY <1>0, <1>g, <1>r DEF StopAt
<1>1. ASSUME NEW m \in Mgr, Construct(m) PROVE PoolAt(n)' /\ StopAt(n)'
  <2>1. UNCHANGED <<queue, batch, stopEv, st, idx, wlist, wk, wjob, wstate, call>>
    BY <1>1 DEF Construct
  <2>2. up'[n] # "up" => up[n] # "up"
    BY <1>1 DEF Construct, TypeOK
  <2> QED
    BY <1>0, <1>g, <2>1, <2>2 DEF PoolAt, StopAt, AtRest, Holds
<1>2. ASSUME NEW m \in Mgr, AutoStart(m) PROVE PoolAt(n)' /\ StopAt(n)'
  <2>1. PICK g \in Gen : StartAs(m, g)
    BY <1>2 DEF AutoStart
  <2>2. UNCHANGED <<queue, batch, idx, wjob, wstate, call>> /\ up' = [up EXCEPT ![m] = "up"]
    BY <1>2 DEF AutoStart
  <2>3. CASE m = n
    <3>1. \A h \in Gen : st[n][h] = "none"
      BY <1>0, <1>g, <1>2, <2>3 DEF AutoStart, PoolAt
    <3> QED
      BY <1>0, <1>g, <2>1, <2>2, <2>3, <3>1, QuietStart DEF TypeOK
  <2>4. CASE m # n
    BY <1>0, <1>g, <2>1, <2>2, <2>4, QuietElsewhere DEF StartAs, TypeOK
  <2> QED
    BY <2>3, <2>4
<1>3. ASSUME NEW m \in Mgr, Crash(m) PROVE PoolAt(n)' /\ StopAt(n)'
  <2>1. CASE m = n
    <3>1. /\ \A g \in Gen : st'[n][g] = "none"
          /\ \A t \in Task : wk'[n][t] = "none"
      BY <1>3, <2>1 DEF Crash, TypeOK
    <3> QED
      BY <3>1 DEF PoolAt, StopAt, Holds
  <2>2. CASE m # n
    BY <1>0, <1>g, <1>3, <2>2, QuietElsewhere DEF Crash, TypeOK
  <2> QED
    BY <2>1, <2>2
<1>4. ASSUME NEW m \in Mgr, Enqueue(m) PROVE PoolAt(n)' /\ StopAt(n)'
  <2>1. UNCHANGED <<call, stopEv, st, idx, wlist, wk, wjob, wstate, up>>
    BY <1>4 DEF Enqueue, EnqFind, EnqPut, Put, EnqForeign, EnqExit
  <2>2. m # n => queue'[n] = queue[n] /\ batch'[n] = batch[n]
    <3>1. CASE EnqFind(m)
      BY <3>1 DEF EnqFind, TypeOK
    <3>2. ASSUME NEW j \in Job, EnqPut(m, j) \/ EnqForeign(m, j)
          PROVE  m # n => queue'[n] = queue[n] /\ batch'[n] = batch[n]
      BY <3>2 DEF EnqPut, Put, EnqForeign, TypeOK
    <3>3. CASE \E g \in Gen : EnqExit(m, g)
      BY <3>3 DEF EnqExit
    <3> QED
      BY <1>4, <3>1, <3>2, <3>3 DEF Enqueue
  <2>3. CASE m # n
    BY <1>0, <1>g, <2>1, <2>2, <2>3, QuietElsewhere
  <2>4. CASE m = n /\ \E g \in Gen : EnqExit(m, g)
    BY <1>0, <1>g, <2>1, <2>4, QuietElsewhere DEF EnqExit
  <2>5. CASE m = n /\ EnqFind(m)
    <3>1. \A g \in Gen : st[n][g] \notin {"decided", "stopping"}
      BY <1>0, <1>g, <2>5 DEF EnqFind, LoopFree, StopAt
    <3> QED
      BY <1>0, <1>g, <2>1, <3>1, QuietAtWork
  <2>6. CASE m = n /\ \E j \in Job : EnqPut(m, j) \/ EnqForeign(m, j)
    <3>1. ~AtRest(n)
      BY <2>6 DEF EnqPut, Put, EnqForeign, AtRest
    <3> QED
      BY <1>0, <1>g, <1>r, <2>1, <3>1, QuietAtWork
  <2> QED
    BY <1>4, <2>3, <2>4, <2>5, <2>6 DEF Enqueue
<1>5. ASSUME NEW m \in Mgr, NEW j \in Job, CleanStray(m, j) PROVE PoolAt(n)' /\ StopAt(n)'
  BY <1>0, <1>g, <1>5, QuietElsewhere DEF CleanStray
<1>6. ASSUME NEW j \in Job, SubmitRegister(j) \/ SubmitInsert(j) \/ SubmitFails(j) \/ SubmitCheck(j)
      PROVE  PoolAt(n)' /\ StopAt(n)'
  <2>1. /\ UNCHANGED <<queue, batch, st, idx, wlist, wk, wjob, wstate, up>>
        /\ \A i \in Job : i # j => call'[i] = call[i]
    BY <1>6 DEF SubmitRegister, SubmitInsert, SubmitFails, SubmitCheck, TypeOK
  <2>2. CASE Home[j] = n
    <3>1. CASE SubmitRegister(j)
      <4>1. \A g \in Gen : st[n][g] \notin {"decided", "stopping"}
        BY <2>2, <3>1 DEF SubmitRegister
      <4> QED
        BY <1>0, <1>g, <2>1, <4>1, QuietAtWork
    <3>2. CASE SubmitInsert(j) \/ SubmitFails(j) \/ SubmitCheck(j)
      <4>1. ~AtRest(n)
        BY <2>2, <3>2 DEF SubmitInsert, SubmitFails, SubmitCheck, AtRest
      <4> QED
        BY <1>0, <1>g, <1>r, <2>1, <4>1, QuietAtWork
    <3> QED
      BY <1>6, <3>1, <3>2
  <2>3. CASE Home[j] # n
    <3>1. stopEv'[n] = stopEv[n]
      BY <1>6, <2>3 DEF SubmitRegister, SubmitInsert, SubmitFails, SubmitCheck, TypeOK
    <3> QED
      BY <1>0, <1>g, <2>1, <2>3, <3>1, QuietElsewhere
  <2> QED
    BY <2>2, <2>3
<1>7. ASSUME NEW j \in Job, SubmitStart(j) PROVE PoolAt(n)' /\ StopAt(n)'
  <2>1. /\ UNCHANGED <<queue, batch, idx, wjob, wstate, up>>
        /\ \A i \in Job : i # j => call'[i] = call[i]
    BY <1>7 DEF SubmitStart, TypeOK
  <2>2. CASE running[Home[j]]
    <3>1. UNCHANGED <<stopEv, st, wlist, wk>>
      BY <1>7, <2>2 DEF SubmitStart
    <3>2. CASE Home[j] = n
      <4>1. ~AtRest(n)
        BY <1>7, <3>2 DEF SubmitStart, AtRest
      <4> QED
        BY <1>0, <1>g, <1>r, <2>1, <3>1, <4>1, QuietAtWork
    <3>3. CASE Home[j] # n
      BY <1>0, <1>g, <2>1, <3>1, <3>3, QuietElsewhere
    <3> QED
      BY <3>2, <3>3
  <2>3. CASE ~running[Home[j]]
    <3>1. PICK g \in Gen : StartAs(Home[j], g)
      BY <1>7, <2>3 DEF SubmitStart
    <3>2. CASE Home[j] = n
      <4>1. ~AtRest(n)
        BY <1>7, <3>2 DEF SubmitStart, AtRest
      <4>2. \A h \in Gen : st[n][h] = "none"
        BY <1>r, <2>3, <3>2, <4>1 DEF CheckInv, Watches, TypeOK
      <4>3. up'[n] = "up"
        BY <1>7, <2>1, <3>2 DEF SubmitStart, LoopFree
      <4> QED
        BY <1>0, <1>g, <2>1, <3>1, <3>2, <4>2, <4>3, QuietStart
    <3>3. CASE Home[j] # n
      <4>1. stopEv'[n] = stopEv[n] /\ st'[n] = st[n] /\ wlist'[n] = wlist[n] /\ wk'[n] = wk[n]
        BY <1>h, <3>1, <3>3 DEF StartAs, TypeOK
      <4> QED
        BY <1>0, <1>g, <2>1, <3>3, <4>1, QuietElsewhere
    <3> QED
      BY <3>2, <3>3
  <2> QED
    BY <2>2, <2>3
<1>8. ASSUME NEW m \in Mgr, NEW t \in Task, WorkerStep(m, t) PROVE PoolAt(n)' /\ StopAt(n)'
  <2>1. UNCHANGED <<call, batch, stopEv, st, idx, wlist, up, slipped>>
    BY <1>8 DEF WorkerStep, WorkerInit, WorkerTake, TakeUncached, WorkerLaunch, LaunchFails,
                WorkerFinish
  <2>2. CASE m # n
    <3>0. DOMAIN wk = Mgr /\ DOMAIN wstate = Mgr /\ DOMAIN queue = Mgr /\ DOMAIN wjob = Mgr
      BY DEF TypeOK
    <3>1. /\ wk'[n] = wk[n] /\ wstate'[n] = wstate[n] /\ queue'[n] = queue[n]
          /\ wjob'[n] = wjob[n]
      <4>1. CASE WorkerInit(m, t)
        BY <2>2, <3>0, <4>1 DEF WorkerInit
      <4>2. CASE WorkerTake(m, t) \/ TakeUncached(m, t)
        BY <2>2, <3>0, <4>2 DEF WorkerTake, TakeUncached
      <4>3. CASE WorkerLaunch(m, t)
        BY <2>2, <3>0, <4>3 DEF WorkerLaunch
      <4>4. CASE LaunchFails(m, t) \/ \E ok \in BOOLEAN : WorkerFinish(m, t, ok)
        BY <2>2, <3>0, <4>4 DEF WorkerFinish, LaunchFails, Release
      <4> QED
        BY <1>8, <4>1, <4>2, <4>3, <4>4 DEF WorkerStep
    <3> QED
      BY <1>0, <1>g, <2>1, <2>2, <3>1, QuietElsewhere
  <2>3. CASE m = n /\ WorkerInit(m, t)
    BY <1>0, <2>3, QuietIdle DEF WorkerInit
  <2>4. CASE m = n /\ (LaunchFails(m, t) \/ \E ok \in BOOLEAN : WorkerFinish(m, t, ok))
    <3>1. /\ LoopFree(n) /\ wk[n][t] \in {"rate", "run"} /\ Release(n, t)
          /\ wk' = [wk EXCEPT ![n][t] = LoopHead(n)]
          /\ UNCHANGED queue
      BY <2>4 DEF LaunchFails, WorkerFinish
    <3>2. \A u \in Task : u # t => wjob'[n][u] = wjob[n][u]
      BY <3>1 DEF Release, TypeOK
    <3> QED
      BY <1>0, <2>1, <3>1, <3>2, QuietIdle DEF Release
  <2>5. CASE m = n /\ (WorkerTake(m, t) \/ TakeUncached(m, t))
    <3>1. ~AtRest(n)
      BY <2>5 DEF WorkerTake, TakeUncached, AtRest
    <3>2. /\ wk[n][t] # "none"
          /\ \A u \in Task : u # t => wk'[n][u] = wk[n][u]
      BY <2>5 DEF WorkerTake, TakeUncached, TypeOK
    <3>3. \A u \in Task : Holds(n, u)' => wstate'[n][u[2]] = "busy"
      <4>1. wstate'[n][t[2]] = "busy" /\ \A i \in 1..NumWorkers : i # t[2] => wstate'[n][i] = wstate[n][i]
        <5>1. wstate' = [wstate EXCEPT ![n][t[2]] = "busy"]
          BY <2>5 DEF WorkerTake, TakeUncached
        <5>2. t[2] \in 1..NumWorkers /\ DOMAIN wstate = Mgr /\ DOMAIN wstate[n] = 1..NumWorkers
          BY TaskParts DEF TypeOK
        <5> QED
          BY <5>1, <5>2
      <4> QED
        BY <1>0, <3>2, <4>1, TaskParts DEF PoolAt, Holds
    <3> QED
      BY <1>0, <1>r, <2>1, <3>1, <3>2, <3>3 DEF PoolAt, StopAt
  <2>6. CASE m = n /\ WorkerLaunch(m, t)
    <3>1. /\ \A u \in Task : Holds(n, u)' <=> Holds(n, u)
          /\ \A u \in Task : wk'[n][u] # "none" <=> wk[n][u] # "none"
          /\ \A u \in Task : wk'[n][u] = "created" => wk[n][u] = "created"
          /\ UNCHANGED <<wjob, wstate, queue>>
      BY <2>6 DEF WorkerLaunch, Holds, TypeOK
    <3>2. AtRest(n) => AtRest(n)'
      BY <2>1, <3>1 DEF AtRest
    <3> QED
      BY <1>0, <2>1, <3>1, <3>2 DEF PoolAt, StopAt
  <2> QED
    BY <1>8, <2>2, <2>3, <2>4, <2>5, <2>6 DEF WorkerStep
<1>9. ASSUME NEW m \in Mgr, NEW g \in Gen, StatusStep(m, g) PROVE PoolAt(n)' /\ StopAt(n)'
  <2>1. CASE m = n
    BY <1>0, <1>g, <1>9, <2>1, QuietDecide, QuietStop DEF StatusStep
  <2>2. CASE m # n
    <3>1. UNCHANGED <<queue, batch, call, up>>
      BY <1>9 DEF StatusStep, StatusDecide, StopBegin, StopWorker, StopEnd
    <3>2. CASE StatusDecide(m, g)
      BY <1>0, <1>g, <2>2, <3>1, <3>2, QuietElsewhere DEF StatusDecide, TypeOK
    <3>3. CASE StopBegin(m, g)
      BY <1>0, <1>g, <2>2, <3>1, <3>3, QuietElsewhere DEF StopBegin, TypeOK
    <3>4. CASE StopWorker(m, g)
      <4>0. DOMAIN idx = Mgr /\ DOMAIN wk = Mgr /\ DOMAIN wstate = Mgr /\ DOMAIN wjob = Mgr
        BY <1>0 DEF TypeOK
      <4>1. UNCHANGED <<stopEv, st, wlist>> /\ idx'[n] = idx[n] /\ wk'[n] = wk[n]
        BY <2>2, <3>4, <4>0 DEF StopWorker, runVars
      <4>2. wstate'[n] = wstate[n] /\ wjob'[n] = wjob[n]
        <5> DEFINE t == wlist[m][idx[m][g]]
        <5>1. CASE wk[m][t] = "run"
          <6>1. Release(m, t)
            BY <3>4, <5>1, Zenon DEF StopWorker
          <6>2. /\ wjob' = [wjob EXCEPT ![m][t] = NoJob]
                /\ wstate' = [wstate EXCEPT ![m][t[2]] = "idle"]
            BY <6>1, ReleaseWorker, Zenon
          <6> QED
            BY <2>2, <4>0, <6>2
        <5>2. CASE wk[m][t] # "run"
          <6>1. wjob' = [wjob EXCEPT ![m][t] = NoJob] /\ UNCHANGED wstate
            BY <3>4, <5>2 DEF StopWorker
          <6> QED
            BY <2>2, <4>0, <6>1
        <5> QED
          BY <5>1, <5>2
      <4> QED
        BY <1>0, <1>g, <3>1, <4>1, <4>2, QuietElsewhere
    <3>5. CASE StopEnd(m, g)
      BY <1>0, <1>g, <2>2, <3>1, <3>5, QuietElsewhere DEF StopEnd, TypeOK
    <3> QED
      BY <1>9, <3>2, <3>3, <3>4, <3>5 DEF StatusStep
  <2> QED
    BY <2>1, <2>2
<1>11. ASSUME NEW m \in Mgr, Fails(m) PROVE PoolAt(n)' /\ StopAt(n)'
  <2>1. CASE CleanFails(m)
    BY <1>0, <1>g, <2>1, QuietElsewhere DEF CleanFails
  <2>2. CASE AutoStartFails(m)
    <3>1. UNCHANGED <<queue, batch, call, st, idx, wlist, wk, wjob, wstate>>
      BY <2>2 DEF AutoStartFails, StartRaises
    <3>2. CASE m = n
      <4>1. \A g \in Gen : st[n][g] = "none"
        BY <1>0, <2>2, <3>2 DEF AutoStartFails, PoolAt
      <4>2. \A t \in Task : wk[n][t] = "none"
        BY <1>0, <4>1, TaskParts DEF PoolAt
      <4> QED
        BY <3>1, <4>1, <4>2 DEF PoolAt, StopAt, Holds
    <3>3. CASE m # n
      BY <1>0, <1>g, <2>2, <3>1, <3>3, QuietElsewhere DEF AutoStartFails, StartRaises, TypeOK
    <3> QED
      BY <3>2, <3>3
  <2>3. CASE EnqAbandon(m) \/ \E j \in Job : EnqSlip(m, j)
    <3>1. UNCHANGED <<call, stopEv, st, idx, wlist, wk, wjob, wstate, up>>
      BY <2>3 DEF EnqAbandon, EnqSlip, Put
    <3>2. CASE m = n
      <4>1. ~AtRest(n)
        BY <2>3, <3>2 DEF EnqAbandon, EnqSlip, Put, AtRest
      <4> QED
        BY <1>0, <1>r, <3>1, <4>1, QuietAtWork
    <3>3. CASE m # n
      <4>1. queue'[n] = queue[n] /\ batch'[n] = batch[n]
        BY <2>3, <3>3 DEF EnqAbandon, EnqSlip, Put, TypeOK
      <4> QED
        BY <1>0, <1>g, <3>1, <4>1, QuietElsewhere
    <3> QED
      BY <3>2, <3>3
  <2> QED
    BY <1>11, <2>1, <2>2, <2>3 DEF Fails
<1>12. ASSUME NEW j \in Job, SubmitStartFails(j) PROVE PoolAt(n)' /\ StopAt(n)'
  <2>1. /\ UNCHANGED <<queue, batch, st, idx, wlist, wk, wjob, wstate, up>>
        /\ \A i \in Job : i # j => call'[i] = call[i]
    BY <1>12 DEF SubmitStartFails, StartRaises, TypeOK
  <2>2. CASE Home[j] = n
    <3>1. ~AtRest(n)
      BY <1>12, <2>2 DEF SubmitStartFails, AtRest
    <3> QED
      BY <1>0, <1>r, <2>1, <3>1, QuietAtWork
  <2>3. CASE Home[j] # n
    <3>1. stopEv'[n] = stopEv[n]
      BY <1>12, <2>3 DEF SubmitStartFails, StartRaises, TypeOK
    <3> QED
      BY <1>0, <1>g, <2>1, <2>3, <3>1, QuietElsewhere
  <2> QED
    BY <2>2, <2>3
<1>10. CASE UNCHANGED vars
  BY <1>0, <1>g, <1>10, QuietElsewhere DEF vars
<1> QED
  BY <1>1, <1>2, <1>3, <1>4, <1>5, <1>6, <1>7, <1>8, <1>9, <1>10, <1>11, <1>12
     DEF Next, Submit

\* Where no submission overlaps a stop, cancelling the pool interrupts no job
\* that was queued but once, however many managers share the table, whichever
\* of them die and whatever else cannot be written.
THEOREM StopsBetweenJobs ==
  ASSUME Overlap = {}
  PROVE  Spec => StopInterruptsNoJob
<1> DEFINE Inv == IInv /\ CheckInv /\ QuietInv
<1>1. Init => CheckInv /\ QuietInv
  <2>1. Init => CheckInv
    BY DEF Init, CheckInv, Watches
  <2>2. Init => QuietInv
    BY DEF Init, QuietInv, PoolAt, StopAt, Holds
  <2> QED
    BY <2>1, <2>2
<1>2. TypeOK /\ IInv /\ CheckInv /\ QuietInv /\ [Next]_vars => (CheckInv /\ QuietInv)'
  <2>1. IInv => Flow
    BY DEF IInv, Flow
  <2> QED
    BY <2>1, NextCheck, NextQuiet
<1>3. QuietInv /\ TypeOK =>
        \A m \in Mgr, g \in Gen : StopWorker(m, g) =>
          LET t == wlist[m][idx[m][g]] IN Holds(m, t) => wjob[m][t] \in slipped
  <2> SUFFICES ASSUME QuietInv, TypeOK, NEW m \in Mgr, NEW g \in Gen, StopWorker(m, g),
                      Holds(m, wlist[m][idx[m][g]])
               PROVE  wjob[m][wlist[m][idx[m][g]]] \in slipped
    OBVIOUS
  <2>1. wlist[m][idx[m][g]] \in Task
    BY DEF StopWorker, TypeOK
  <2>2. AtRest(m)
    BY DEF StopWorker, QuietInv, StopAt
  <2> QED
    BY <2>1, <2>2 DEF AtRest
<1> QED
  BY <1>1, <1>2, <1>3, Inductive, TypeCorrect, PTL DEF Spec, StopInterruptsNoJob

-----------------------------------------------------------------------------
(* What a stop leaves behind                                               *)

\* A submission that has not been cut off runs in a manager that is up; one
\* past its check has a running pool unless its row has been queued; and once
\* the decision to stop is made none of the manager's rows waits for it.
WorkInv ==
  \A j \in Job :
    /\ call[j] \in {"registered", "inserted", "starting", "waiting"} => up[Home[j]] = "up"
    /\ row[j] = "pending" /\ call[j] = "waiting" => running[Home[j]]
    /\ row[j] = "pending" => \A g \in Gen : st[Home[j]][g] # "decided"

\* A step that leaves the job, its manager's pool and its checks alone.
LEMMA WorkElsewhere ==
  ASSUME TypeOK, WorkInv, NEW j \in Job, call'[j] = call[j],
         row'[j] = "pending" => row[j] = "pending",
         up[Home[j]] = "up" => up'[Home[j]] = "up",
         running[Home[j]] => running'[Home[j]],
         \A g \in Gen : st'[Home[j]][g] = "decided" => st[Home[j]][g] = "decided"
  PROVE  /\ call'[j] \in {"registered", "inserted", "starting", "waiting"} => up'[Home[j]] = "up"
         /\ row'[j] = "pending" /\ call'[j] = "waiting" => running'[Home[j]]
         /\ row'[j] = "pending" => \A g \in Gen : st'[Home[j]][g] # "decided"
BY DEF WorkInv

\* A worker only ever writes statuses that follow "pending".
LEMMA WorkerRow ==
  ASSUME TypeOK, NEW n \in Mgr, NEW t \in Task, WorkerStep(n, t), NEW i \in Job,
         row'[i] = "pending"
  PROVE  row[i] = "pending"
<1> DEFINE Wrote(j) == \/ row' = row
                       \/ \E v \in {"in-progress", "completed", "failed"} :
                            row' = [row EXCEPT ![j] = v]
<1>1. ASSUME WorkerInit(n, t) \/ WorkerTake(n, t) \/ WorkerLaunch(n, t)
      PROVE  \E j : Wrote(j)
  BY <1>1 DEF WorkerInit, WorkerTake, WorkerLaunch
<1>2. ASSUME TakeUncached(n, t) PROVE \E j : Wrote(j)
  BY <1>2 DEF TakeUncached
<1>3. ASSUME NEW j, NEW ok \in BOOLEAN, NEW wrote \in BOOLEAN,
             Settle(j, ok, wrote) \/ SettledBefore(j)
      PROVE  Wrote(j)
  BY <1>3 DEF Settle, SettledBefore
<1>4. ASSUME NEW ok \in BOOLEAN, WorkerFinish(n, t, ok) PROVE \E j : Wrote(j)
  <2>1. \E wrote \in BOOLEAN : Settle(wjob[n][t], ok, wrote) \/ SettledBefore(wjob[n][t])
    BY <1>4 DEF WorkerFinish
  <2> QED
    BY <1>3, <2>1
<1>5. ASSUME LaunchFails(n, t) PROVE \E j : Wrote(j)
  <2>1. \E wrote \in BOOLEAN : Settle(wjob[n][t], FALSE, wrote) \/ SettledBefore(wjob[n][t])
    BY <1>5 DEF LaunchFails
  <2> QED
    BY <1>3, <2>1
<1>6. PICK j : Wrote(j)
  BY <1>1, <1>2, <1>4, <1>5 DEF WorkerStep
<1> QED
  BY <1>6 DEF TypeOK

LEMMA NextWork ==
  ASSUME Overlap = {}, IInv, QuietInv, WorkInv, [Next]_vars
  PROVE  WorkInv'
<1> SUFFICES ASSUME NEW i \in Job
             PROVE  /\ call'[i] \in {"registered", "inserted", "starting", "waiting"}
                         => up'[Home[i]] = "up"
                    /\ row'[i] = "pending" /\ call'[i] = "waiting" => running'[Home[i]]
                    /\ row'[i] = "pending" => \A g \in Gen : st'[Home[i]][g] # "decided"
  BY DEF WorkInv
<1> DEFINE m == Home[i]
           Work == /\ call'[i] \in {"registered", "inserted", "starting", "waiting"}
                         => up'[m] = "up"
                   /\ row'[i] = "pending" /\ call'[i] = "waiting" => running'[m]
                   /\ row'[i] = "pending" => \A g \in Gen : st'[m][g] # "decided"
<1>0. TypeOK /\ m \in Mgr
  BY QueueAssumption DEF QueueAssumption, IInv
<1>1. CASE /\ call' = call /\ running' = running /\ st' = st
           /\ row'[i] = "pending" => row[i] = "pending"
           /\ up[m] = "up" => up'[m] = "up"
  BY <1>0, <1>1, WorkElsewhere
<1>2. \A g \in Gen : st[m][g] \in {"decided", "stopping"} => AtRest(m)
  BY <1>0 DEF QuietInv, StopAt
<1>3. ASSUME NEW n \in Mgr, Construct(n) PROVE Work
  <2>1. up[m] = "up" => up'[m] = "up"
    BY <1>0, <1>3 DEF Construct, TypeOK
  <2> QED
    BY <1>1, <1>3, <2>1 DEF Construct, jobVars, runVars, stopVars
<1>4. ASSUME NEW n \in Mgr, NEW g \in Gen, StartAs(n, g), UNCHANGED row,
             up'[m] = up[m] \/ up'[m] = "up", call'[i] = call[i]
      PROVE  Work
  <2>1. /\ running' = [running EXCEPT ![n] = TRUE] /\ st' = [st EXCEPT ![n][g] = "loop"]
    BY <1>4 DEF StartAs
  <2>2. running[m] => running'[m]
    BY <1>0, <2>1 DEF TypeOK
  <2>3. \A h \in Gen : st'[m][h] = "decided" => st[m][h] = "decided"
    BY <1>0, <2>1 DEF TypeOK
  <2> QED
    BY <1>0, <1>4, <2>2, <2>3, WorkElsewhere
<1>5. ASSUME NEW n \in Mgr, AutoStart(n) PROVE Work
  <2>1. PICK g \in Gen : StartAs(n, g)
    BY <1>5 DEF AutoStart
  <2>2. UNCHANGED <<row, call>> /\ (up'[m] = up[m] \/ up'[m] = "up")
    BY <1>0, <1>5 DEF AutoStart, TypeOK, jobVars
  <2> QED
    BY <1>4, <2>1, <2>2
<1>6. ASSUME NEW n \in Mgr, Crash(n) PROVE Work
  <2>1. CASE n = m
    <3>1. call'[i] \in {"idle", "gone"} /\ \A g \in Gen : st'[m][g] = "none"
      BY <1>0, <1>6, <2>1 DEF Crash, TypeOK
    <3> QED
      BY <3>1
  <2>2. CASE n # m
    <3>1. /\ call'[i] = call[i] /\ row' = row /\ up'[m] = up[m] /\ running'[m] = running[m]
          /\ st'[m] = st[m]
      BY <1>0, <1>6, <2>2 DEF Crash, TypeOK
    <3> QED
      BY <1>0, <3>1, WorkElsewhere
  <2> QED
    BY <2>1, <2>2
<1>7. ASSUME NEW j \in Job, SubmitRegister(j) PROVE Work
  <2>1. /\ UNCHANGED <<row, up, running, st>> /\ up[Home[j]] = "up"
        /\ call' = [call EXCEPT ![j] = "registered"]
    BY <1>7 DEF SubmitRegister, runVars, stopVars
  <2>2. CASE j = i
    <3>1. call'[i] = "registered"
      BY <1>0, <2>1, <2>2 DEF TypeOK
    <3> QED
      BY <2>1, <2>2, <3>1 DEF WorkInv
  <2>3. CASE j # i
    <3>1. call'[i] = call[i]
      BY <1>0, <2>1, <2>3 DEF TypeOK
    <3> QED
      BY <1>0, <2>1, <3>1, WorkElsewhere
  <2> QED
    BY <2>2, <2>3
<1>8. ASSUME NEW j \in Job, SubmitInsert(j) PROVE Work
  <2>1. /\ UNCHANGED <<up, running, st>> /\ up[Home[j]] = "up" /\ call[j] = "registered"
        /\ call' = [call EXCEPT ![j] = "inserted"] /\ row' = [row EXCEPT ![j] = "pending"]
    BY <1>8 DEF SubmitInsert, runVars, stopVars
  <2>2. CASE j = i
    <3>1. call'[i] = "inserted"
      BY <1>0, <2>1, <2>2 DEF TypeOK
    <3>2. ~AtRest(m)
      BY <2>1, <2>2 DEF AtRest
    <3> QED
      BY <1>2, <2>1, <2>2, <3>1, <3>2
  <2>3. CASE j # i
    <3>1. call'[i] = call[i] /\ row'[i] = row[i]
      BY <1>0, <2>1, <2>3 DEF TypeOK
    <3> QED
      BY <1>0, <2>1, <3>1, WorkElsewhere
  <2> QED
    BY <2>2, <2>3
<1>9. ASSUME NEW j \in Job, SubmitFails(j) PROVE Work
  <2>1. UNCHANGED <<row, up, running, st>> /\ call' = [call EXCEPT ![j] = "gone"]
    BY <1>9 DEF SubmitFails, runVars, stopVars
  <2> QED
    BY <1>0, <2>1 DEF TypeOK, WorkInv
<1>10. ASSUME NEW j \in Job, SubmitCheck(j) PROVE Work
  <2>1. /\ UNCHANGED <<row, up, running, st>> /\ up[Home[j]] = "up"
        /\ \/ running[Home[j]] /\ call' = [call EXCEPT ![j] = "waiting"]
           \/ call' = [call EXCEPT ![j] = "starting"]
    BY <1>10 DEF SubmitCheck, mgrVars, stopVars
  <2>2. CASE j = i
    <3>1. call'[i] = "starting" \/ (running[m] /\ call'[i] = "waiting")
      BY <1>0, <2>1, <2>2 DEF TypeOK
    <3> QED
      BY <2>1, <2>2, <3>1 DEF WorkInv
  <2>3. CASE j # i
    <3>1. call'[i] = call[i]
      BY <1>0, <2>1, <2>3 DEF TypeOK
    <3> QED
      BY <1>0, <2>1, <3>1, WorkElsewhere
  <2> QED
    BY <2>2, <2>3
<1>11. ASSUME NEW j \in Job, SubmitStart(j) PROVE Work
  <2>1. /\ UNCHANGED <<row, up>> /\ up[Home[j]] = "up"
        /\ call' = [call EXCEPT ![j] = "waiting"]
        /\ \/ running[Home[j]] /\ UNCHANGED <<running, st>>
           \/ \E g \in Gen : StartAs(Home[j], g)
    BY <1>11 DEF SubmitStart, LoopFree, mgrVars, runVars
  <2>2. CASE j # i
    <3>1. call'[i] = call[i]
      BY <1>0, <2>1, <2>2 DEF TypeOK
    <3>2. CASE UNCHANGED <<running, st>>
      BY <1>0, <2>1, <3>1, <3>2, WorkElsewhere
    <3>3. ASSUME NEW g \in Gen, StartAs(Home[j], g) PROVE Work
      BY <1>4, <2>1, <3>1, <3>3, QueueAssumption DEF QueueAssumption
    <3> QED
      BY <2>1, <3>2, <3>3
  <2>3. CASE j = i
    <3>1. CASE running[m] /\ UNCHANGED <<running, st>>
      BY <2>1, <2>3, <3>1 DEF WorkInv
    <3>2. ASSUME NEW g \in Gen, StartAs(m, g) PROVE Work
      <4>1. running'[m]
        BY <1>0, <3>2 DEF StartAs, TypeOK
      <4>2. \A h \in Gen : st'[m][h] = "decided" => st[m][h] = "decided"
        BY <1>0, <3>2 DEF StartAs, TypeOK
      <4> QED
        BY <2>1, <2>3, <4>1, <4>2 DEF WorkInv
    <3> QED
      BY <2>1, <2>3, <3>1, <3>2
  <2> QED
    BY <2>2, <2>3
<1>12. ASSUME NEW n \in Mgr, Enqueue(n) PROVE Work
  <2>1. UNCHANGED <<call, running, st, up>>
    BY <1>12 DEF Enqueue, EnqFind, EnqPut, Put, EnqForeign, EnqExit, jobVars, mgrVars, runVars,
       stopVars
  <2>2. row' = row \/ \E j \in Job, v \in {"enqueued", "failed"} : row' = [row EXCEPT ![j] = v]
    BY <1>12 DEF Enqueue, EnqFind, EnqPut, EnqForeign, EnqExit
  <2>3. row'[i] = "pending" => row[i] = "pending"
    BY <1>0, <2>2 DEF TypeOK
  <2> QED
    BY <1>1, <2>1, <2>3
<1>13. ASSUME NEW n \in Mgr, NEW j \in Job, CleanStray(n, j) PROVE Work
  <2>1. UNCHANGED <<call, running, st, up>> /\ row' = [row EXCEPT ![j] = "failed"]
    BY <1>13 DEF CleanStray, jobVars, mgrVars, runVars, stopVars
  <2>2. row'[i] = "pending" => row[i] = "pending"
    BY <1>0, <2>1 DEF TypeOK
  <2> QED
    BY <1>1, <2>1, <2>2
<1>14. ASSUME NEW n \in Mgr, NEW t \in Task, WorkerStep(n, t) PROVE Work
  <2>1. UNCHANGED <<call, running, st, up>>
    BY <1>14 DEF WorkerStep, WorkerInit, WorkerTake, TakeUncached, WorkerLaunch, LaunchFails,
       WorkerFinish, jobVars, mgrVars, runVars, stopVars
  <2>3. row'[i] = "pending" => row[i] = "pending"
    BY <1>0, <1>14, WorkerRow
  <2> QED
    BY <1>1, <2>1, <2>3
<1>15. ASSUME NEW n \in Mgr, NEW g \in Gen, StatusDecide(n, g) PROVE Work
  <2>1. UNCHANGED <<row, call, running, up>> /\ row[i] # "pending"
    BY <1>15 DEF StatusDecide, NoPending, jobVars, mgrVars, runVars
  <2> QED
    BY <2>1 DEF WorkInv
<1>16. ASSUME NEW n \in Mgr, NEW g \in Gen, StopBegin(n, g) PROVE Work
  <2>1. /\ UNCHANGED <<row, call, up>> /\ st[n][g] = "decided"
        /\ running' = [running EXCEPT ![n] = FALSE] /\ st' = [st EXCEPT ![n][g] = "stopping"]
    BY <1>16 DEF StopBegin, jobVars, mgrVars
  <2>2. CASE n = m
    <3>1. row[i] # "pending"
      BY <2>1, <2>2 DEF WorkInv
    <3> QED
      BY <2>1, <3>1 DEF WorkInv
  <2>3. CASE n # m
    <3>1. running'[m] = running[m] /\ st'[m] = st[m]
      BY <1>0, <2>1, <2>3 DEF TypeOK
    <3> QED
      BY <1>0, <2>1, <3>1, WorkElsewhere
  <2> QED
    BY <2>2, <2>3
<1>17. ASSUME NEW n \in Mgr, NEW g \in Gen, StopWorker(n, g) \/ StopEnd(n, g) PROVE Work
  <2>1. UNCHANGED <<row, call, running, up>>
        /\ (st' = st \/ st' = [st EXCEPT ![n][g] = "none"])
    <3>1. CASE StopWorker(n, g)
      BY <3>1 DEF StopWorker, jobVars, runVars
    <3>2. CASE StopEnd(n, g)
      BY <3>2 DEF StopEnd, jobVars
    <3> QED
      BY <1>17, <3>1, <3>2
  <2>2. \A h \in Gen : st'[m][h] = "decided" => st[m][h] = "decided"
    <3>1. DOMAIN st = Mgr /\ DOMAIN st[m] = Gen
      BY <1>0 DEF TypeOK
    <3>2. CASE st' = st
      BY <3>2
    <3>3. CASE st' = [st EXCEPT ![n][g] = "none"] /\ n = m
      BY <1>0, <3>1, <3>3
    <3>4. CASE st' = [st EXCEPT ![n][g] = "none"] /\ n # m
      BY <1>0, <3>1, <3>4
    <3> QED
      BY <2>1, <3>2, <3>3, <3>4
  <2> QED
    <3>1. call'[i] = call[i] /\ row'[i] = row[i] /\ running' = running /\ up' = up
      BY <2>1
    <3> QED
      BY <1>0, <2>2, <3>1, WorkElsewhere
<1>18. CASE UNCHANGED vars
  BY <1>1, <1>18 DEF vars, jobVars, mgrVars, runVars, stopVars
<1>19. ASSUME NEW n \in Mgr, Fails(n) PROVE Work
  <2>1. UNCHANGED <<row, call, st>>
    BY <1>19 DEF Fails, CleanFails, AutoStartFails, StartRaises, EnqAbandon, EnqSlip, Put, jobVars,
       stopVars
  <2>2. /\ up[m] = "up" => up'[m] = "up"
        /\ running[m] => running'[m]
    <3>1. CASE AutoStartFails(n)
      BY <1>0, <3>1 DEF AutoStartFails, StartRaises, TypeOK
    <3>2. CASE CleanFails(n) \/ EnqAbandon(n) \/ \E j \in Job : EnqSlip(n, j)
      BY <3>2 DEF CleanFails, EnqAbandon, EnqSlip, Put, mgrVars, runVars
    <3> QED
      BY <1>19, <3>1, <3>2 DEF Fails
  <2> QED
    BY <1>0, <2>1, <2>2, WorkElsewhere
<1>20. ASSUME NEW j \in Job, SubmitStartFails(j) PROVE Work
  <2>1. UNCHANGED <<row, st, up>> /\ call' = [call EXCEPT ![j] = "gone"]
    BY <1>20 DEF SubmitStartFails, StartRaises, mgrVars, stopVars
  <2>2. running[m] => running'[m]
    BY <1>0, <1>20 DEF SubmitStartFails, StartRaises, TypeOK
  <2> QED
    BY <1>0, <2>1, <2>2 DEF TypeOK, WorkInv
<1>21. Work
  BY <1>3, <1>5, <1>6, <1>7, <1>8, <1>9, <1>10, <1>11, <1>12, <1>13, <1>14, <1>15, <1>16, <1>17,
     <1>18, <1>19, <1>20
     DEF Next, Submit, StatusStep
<1> QED
  BY <1>21

\* The stop reports that no work is left.  Where no submission overlaps a stop
\* that is so, however many managers share the table and whichever of them
\* die: a row is only ever left waiting by the overlap itself.
THEOREM QuietStopLeavesNoWork ==
  ASSUME Overlap = {}
  PROVE  Spec => []StopLeavesNoWork
<1>1. Init => CheckInv /\ QuietInv /\ WorkInv
  <2>1. Init => CheckInv /\ QuietInv
    BY DEF Init, CheckInv, Watches, QuietInv, PoolAt, StopAt, Holds
  <2>2. Init => WorkInv
    BY DEF Init, WorkInv
  <2> QED
    BY <2>1, <2>2
<1>2. IInv /\ CheckInv /\ QuietInv /\ WorkInv /\ [Next]_vars => (CheckInv /\ QuietInv /\ WorkInv)'
  <2> SUFFICES ASSUME IInv, CheckInv, QuietInv, WorkInv, [Next]_vars
               PROVE  CheckInv' /\ QuietInv' /\ WorkInv'
    OBVIOUS
  <2>1. TypeOK /\ Flow
    BY DEF IInv, Flow
  <2> QED
    BY <2>1, NextCheck, NextQuiet, NextWork
<1>3. WorkInv => StopLeavesNoWork
  BY DEF WorkInv, StopLeavesNoWork
<1> QED
  BY <1>1, <1>2, <1>3, Inductive, PTL DEF Spec
-----------------------------------------------------------------------------
(* Who has an unsettled job                                                *)

\* A manager whose start did not fail half way has, while it runs, one enqueue
\* loop and all workers of its generation, none of them told to stop; while it
\* does not, it has no job in its hands but second copies.
PoolRuns(m) ==
  /\ running[m] =>
       /\ ~stopEv[m] /\ eref[m] \in Gen /\ enq[m] = {eref[m]}
       /\ \A t \in Task : t[1] = eref[m] => wk[m][t] # "none"
  /\ ~running[m] =>
       /\ enq[m] = {} /\ batch[m] = {} /\ queue[m] = <<>>
       /\ \A t \in Task : Holds(m, t) => wjob[m][t] \in slipped

PoolInv == \A m \in Mgr \ stalled : PoolRuns(m)

Queued(m, j) == \E a \in DOMAIN queue[m] : queue[m][a] = j

HeldAt(m, j, place) == \E t \in Task : wk[m][t] = place /\ wjob[m][t] = j

\* The row of a job whose submission was not cut off, by a death or a failing
\* start, and whose own writes get through says where the job is.
PlaceOf(j) ==
  call[j] # "gone" /\ j \notin Lapsed =>
    /\ row[j] = "enqueued" => Queued(Home[j], j) \/ HeldAt(Home[j], j, "rate")
    /\ row[j] = "in-progress" => HeldAt(Home[j], j, "run")

PlaceInv == \A j \in Job : PlaceOf(j)

\* What other managers do leaves a pool alone.
LEMMA PoolSame ==
  ASSUME NEW m \in Mgr, PoolRuns(m), running'[m] = running[m], stopEv'[m] = stopEv[m],
         eref'[m] = eref[m], enq'[m] = enq[m], batch'[m] = batch[m], queue'[m] = queue[m],
         wk'[m] = wk[m], wjob'[m] = wjob[m], slipped \subseteq slipped'
  PROVE  PoolRuns(m)'
BY DEF PoolRuns, Holds

\* So does work at a manager that runs, unless it ends a worker.
LEMMA PoolWorks ==
  ASSUME NEW m \in Mgr, PoolRuns(m), running[m], running'[m], stopEv'[m] = stopEv[m],
         eref'[m] = eref[m], enq'[m] = enq[m],
         \A t \in Task : wk'[m][t] = "none" => wk[m][t] = "none"
  PROVE  PoolRuns(m)'
BY DEF PoolRuns

\* A worker's step changes its own place.
LEMMA WorkerMoves ==
  ASSUME TypeOK, NEW n \in Mgr, NEW t \in Task, NEW v, wk' = [wk EXCEPT ![n][t] = v]
  PROVE  /\ \A m \in Mgr, u \in Task : m # n \/ u # t => wk'[m][u] = wk[m][u]
         /\ wk'[n][t] = v
         /\ \A m \in Mgr : m # n => wk'[m] = wk[m]
<1>1. DOMAIN wk = Mgr /\ \A m \in Mgr : DOMAIN wk[m] = Task
  BY DEF TypeOK
<1> QED
  BY <1>1

LEMMA WorkerTakes ==
  ASSUME TypeOK, NEW n \in Mgr, NEW t \in Task, NEW v, wjob' = [wjob EXCEPT ![n][t] = v]
  PROVE  /\ \A m \in Mgr, u \in Task : m # n \/ u # t => wjob'[m][u] = wjob[m][u]
         /\ wjob'[n][t] = v
<1>1. DOMAIN wjob = Mgr /\ \A m \in Mgr : DOMAIN wjob[m] = Task
  BY DEF TypeOK
<1> QED
  BY <1>1

\* start() at a manager that does not run.
LEMMA PoolStart ==
  ASSUME TypeOK, CheckInv, PoolInv, NEW n \in Mgr, NEW g \in Gen, StartAs(n, g), ~running[n],
         UNCHANGED <<batch, queue, wjob, slipped, stalled>>
  PROVE  PoolInv'
<1> SUFFICES ASSUME NEW m \in Mgr \ stalled PROVE PoolRuns(m)'
  BY DEF PoolInv
<1>1. CASE m # n
  <2>1. /\ running'[m] = running[m] /\ stopEv'[m] = stopEv[m] /\ eref'[m] = eref[m]
        /\ enq'[m] = enq[m] /\ wk'[m] = wk[m]
    BY <1>1 DEF StartAs, TypeOK
  <2> QED
    BY <2>1, PoolSame DEF PoolInv
<1>2. CASE m = n
  <2>1. enq[m] = {}
    BY <1>2 DEF PoolInv, PoolRuns
  <2>2. running'[m] /\ ~stopEv'[m] /\ eref'[m] = g
    BY <1>2 DEF StartAs, TypeOK
  <2>3. enq'[m] = {g}
    BY <1>2, <2>1 DEF StartAs, TypeOK
  <2>4. \A t \in Task : t[1] = g => wk'[m][t] # "none"
    BY <1>2 DEF StartAs, TypeOK
  <2> QED
    BY <2>2, <2>3, <2>4 DEF PoolRuns
<1> QED
  BY <1>1, <1>2

\* What a worker's step does to the loop's tasks and queue.
LEMMA WorkerParts ==
  ASSUME TypeOK, NEW n \in Mgr, NEW t \in Task, WorkerStep(n, t)
  PROVE  /\ UNCHANGED <<running, stopEv, eref, enq, batch, slipped, stalled>>
         /\ \E v \in {LoopHead(n), "rate", "run"} : wk' = [wk EXCEPT ![n][t] = v]
         /\ wjob' = wjob \/ \E x : wjob' = [wjob EXCEPT ![n][t] = x]
         /\ \/ queue' = queue
            \/ queue[n] # <<>> /\ queue' = [queue EXCEPT ![n] = Tail(@)]
         /\ \/ queue[n] # <<>>
            \/ wk' = [wk EXCEPT ![n][t] = LoopHead(n)]
            \/ Holds(n, t) /\ wjob' = wjob
<1> USE DEF runVars, enqVars, lapseVars
<1>1. CASE WorkerInit(n, t)
  BY <1>1 DEF WorkerInit
<1>2. CASE WorkerTake(n, t)
  BY <1>2 DEF WorkerTake
<1>3. CASE TakeUncached(n, t)
  BY <1>3 DEF TakeUncached
<1>4. CASE WorkerLaunch(n, t)
  BY <1>4 DEF WorkerLaunch, Holds
<1>5. CASE LaunchFails(n, t)
  BY <1>5, ReleaseWorker DEF LaunchFails
<1>6. ASSUME NEW ok \in BOOLEAN, WorkerFinish(n, t, ok)
      PROVE  /\ UNCHANGED <<running, stopEv, eref, enq, batch, slipped, stalled, queue>>
             /\ wk' = [wk EXCEPT ![n][t] = LoopHead(n)]
             /\ wjob' = [wjob EXCEPT ![n][t] = NoJob]
  BY <1>6, ReleaseWorker DEF WorkerFinish
<1> QED
  BY <1>1, <1>2, <1>3, <1>4, <1>5, <1>6 DEF WorkerStep

LEMMA PoolWorker ==
  ASSUME TypeOK, PoolInv, NEW n \in Mgr, NEW t \in Task, WorkerStep(n, t)
  PROVE  PoolInv'
<1>1. UNCHANGED <<running, stopEv, eref, enq, batch, slipped, stalled>>
  BY WorkerParts
<1> SUFFICES ASSUME NEW m \in Mgr \ stalled PROVE PoolRuns(m)'
  BY <1>1 DEF PoolInv
<1>2. PICK v \in {LoopHead(n), "rate", "run"} : wk' = [wk EXCEPT ![n][t] = v]
  BY WorkerParts
<1>3. /\ \A k \in Mgr : k # n => queue'[k] = queue[k] /\ wjob'[k] = wjob[k]
      /\ \A u \in Task : u # t => wjob'[n][u] = wjob[n][u]
  <2>0. DOMAIN queue = Mgr
    BY DEF TypeOK
  <2>1. \A k \in Mgr : k # n => queue'[k] = queue[k]
    <3>1. queue' = queue \/ queue' = [queue EXCEPT ![n] = Tail(@)]
      BY WorkerParts
    <3> QED
      BY <2>0, <3>1
  <2>2. CASE wjob' = wjob
    BY <2>1, <2>2
  <2>3. ASSUME NEW x, wjob' = [wjob EXCEPT ![n][t] = x]
        PROVE  /\ \A k \in Mgr : k # n => wjob'[k] = wjob[k]
               /\ \A u \in Task : u # t => wjob'[n][u] = wjob[n][u]
    BY <2>3 DEF TypeOK
  <2> QED
    BY <2>1, <2>2, <2>3, WorkerParts
<1>4. CASE m # n
  <2>1. wk'[m] = wk[m]
    BY <1>2, <1>4, WorkerMoves
  <2> QED
    BY <1>1, <1>3, <1>4, <2>1, PoolSame DEF PoolInv
<1>5. CASE m = n /\ running[m]
  <2>1. v # "none"
    BY <1>2, <1>5 DEF LoopHead, PoolInv, PoolRuns
  <2>3. \A u \in Task : wk'[m][u] = "none" => wk[m][u] = "none"
    BY <1>2, <1>5, <2>1, WorkerMoves
  <2> QED
    BY <1>1, <1>5, <2>3, PoolWorks DEF PoolInv
<1>6. CASE m = n /\ ~running[m]
  <2>1. /\ enq[m] = {} /\ batch[m] = {} /\ queue[m] = <<>>
        /\ \A u \in Task : Holds(m, u) => wjob[m][u] \in slipped
    BY <1>6 DEF PoolInv, PoolRuns
  <2>2. queue' = queue
    BY <1>6, <2>1, WorkerParts
  <2>3. \A u \in Task : u # t => wk'[m][u] = wk[m][u] /\ wjob'[m][u] = wjob[m][u]
    BY <1>2, <1>3, <1>6, WorkerMoves
  <2>4. Holds(m, t)' => Holds(m, t) /\ wjob'[m][t] = wjob[m][t]
    <3>1. CASE wk' = [wk EXCEPT ![n][t] = LoopHead(n)]
      <4>0. DOMAIN wk = Mgr /\ DOMAIN wk[n] = Task
        BY DEF TypeOK
      <4>1. wk'[m][t] = LoopHead(n)
        BY <1>6, <3>1, <4>0
      <4>2. wk'[m][t] \in {"none", "get"}
        BY <4>1 DEF LoopHead
      <4> QED
        BY <4>2 DEF Holds
    <3>2. CASE Holds(n, t) /\ wjob' = wjob
      BY <1>6, <3>2
    <3> QED
      BY <1>6, <2>1, <3>1, <3>2, WorkerParts
  <2>5. \A u \in Task : Holds(m, u)' => wjob'[m][u] \in slipped
    <3> SUFFICES ASSUME NEW u \in Task, Holds(m, u)' PROVE wjob'[m][u] \in slipped
      OBVIOUS
    <3>1. Holds(m, u) /\ wjob'[m][u] = wjob[m][u]
      BY <2>3, <2>4 DEF Holds
    <3> QED
      BY <2>1, <3>1
  <2> QED
    BY <1>1, <1>6, <2>1, <2>2, <2>5 DEF PoolRuns
<1> QED
  BY <1>4, <1>5, <1>6

LEMMA PoolEnqueue ==
  ASSUME TypeOK, PoolInv, NEW n \in Mgr,
         Enqueue(n) \/ EnqAbandon(n) \/ \E j \in Job : EnqSlip(n, j)
  PROVE  PoolInv'
<1>1. /\ UNCHANGED <<running, stopEv, eref, wk, wjob, stalled>> /\ slipped \subseteq slipped'
      /\ \A k \in Mgr : k # n => batch'[k] = batch[k] /\ queue'[k] = queue[k] /\ enq'[k] = enq[k]
  <2>1. CASE EnqFind(n) \/ \E g \in Gen : EnqExit(n, g)
    BY <2>1 DEF EnqFind, EnqExit, runVars, workerVars, lapseVars, TypeOK
  <2>2. ASSUME NEW j \in Job, EnqPut(n, j) \/ EnqSlip(n, j)
        PROVE  /\ UNCHANGED <<running, stopEv, eref, wk, wjob, stalled>> /\ slipped \subseteq slipped'
               /\ \A k \in Mgr : k # n => batch'[k] = batch[k] /\ queue'[k] = queue[k]
                                            /\ enq'[k] = enq[k]
    BY <2>2 DEF EnqPut, EnqSlip, Put, runVars, workerVars, lapseVars, TypeOK
  <2>3. CASE EnqAbandon(n) \/ \E j \in Job : EnqForeign(n, j)
    BY <2>3 DEF EnqForeign, EnqAbandon, runVars, workerVars, lapseVars, TypeOK
  <2> QED
    BY <2>1, <2>2, <2>3 DEF Enqueue
<1> SUFFICES ASSUME NEW m \in Mgr \ stalled PROVE PoolRuns(m)'
  BY <1>1 DEF PoolInv
<1>2. enq[n] # {} \/ batch[n] # {}
  BY DEF Enqueue, EnqFind, EnqPut, Put, EnqForeign, EnqExit, EnqAbandon, EnqSlip
<1>3. CASE m # n
  BY <1>1, <1>3, PoolSame DEF PoolInv
<1>4. CASE m = n
  <2>1. running[n] /\ ~stopEv[n]
    BY <1>2, <1>4 DEF PoolInv, PoolRuns
  <2>2. enq' = enq
    BY <2>1 DEF Enqueue, EnqFind, EnqPut, Put, EnqForeign, EnqExit, EnqAbandon, EnqSlip
  <2> QED
    BY <1>1, <1>4, <2>1, <2>2, PoolWorks DEF PoolInv
<1> QED
  BY <1>3, <1>4

\* stop() ends one worker of its list at a time.
LEMMA StopEnds ==
  ASSUME TypeOK, NEW n \in Mgr, NEW g \in Gen, StopWorker(n, g)
  PROVE  \E t \in Task : /\ wk' = [wk EXCEPT ![n][t] = "none"]
                         /\ wjob' = [wjob EXCEPT ![n][t] = NoJob]
<1> DEFINE t == wlist[n][idx[n][g]]
<1>1. t \in Task
  BY DEF StopWorker, TypeOK
<1>2. wk' = [wk EXCEPT ![n][t] = "none"]
  BY Zenon DEF StopWorker
<1>3. wjob' = [wjob EXCEPT ![n][t] = NoJob]
  BY ReleaseWorker, Zenon DEF StopWorker
<1> QED
  BY <1>1, <1>2, <1>3

\* A stop finds its manager's pool at rest.
LEMMA PoolStop ==
  ASSUME TypeOK, CheckInv, PoolInv, NEW n \in Mgr, PoolAt(n), StopAt(n), NEW g \in Gen,
         StopBegin(n, g) \/ StopWorker(n, g) \/ StopEnd(n, g)
  PROVE  PoolInv'
<1>1. UNCHANGED <<batch, queue, slipped, stalled>>
  BY DEF StopBegin, StopWorker, StopEnd, enqVars, lapseVars
<1> SUFFICES ASSUME NEW m \in Mgr \ stalled PROVE PoolRuns(m)'
  BY <1>1 DEF PoolInv
<1>2. ASSUME StopBegin(n, g) PROVE PoolRuns(m)'
  <2>1. /\ st[n][g] = "decided" /\ running' = [running EXCEPT ![n] = FALSE]
        /\ stopEv' = [stopEv EXCEPT ![n] = TRUE] /\ enq' = [enq EXCEPT ![n] = @ \ {eref[n]}]
        /\ UNCHANGED <<eref, wk, wjob>>
    BY <1>2 DEF StopBegin, workerVars
  <2>2. CASE m # n
    <3>1. running'[m] = running[m] /\ stopEv'[m] = stopEv[m] /\ enq'[m] = enq[m]
      BY <2>1, <2>2 DEF TypeOK
    <3> QED
      BY <1>1, <2>1, <3>1, PoolSame DEF PoolInv
  <2>3. CASE m = n
    <3>1. AtRest(m)
      BY <2>1, <2>3 DEF StopAt
    <3>2. running[m]
      BY <2>1, <2>3 DEF CheckInv, Watches
    <3>3. enq[m] = {eref[m]}
      BY <3>2 DEF PoolInv, PoolRuns
    <3>4. ~running'[m] /\ enq'[m] = {}
      BY <2>1, <2>3, <3>3 DEF TypeOK
    <3>5. batch'[m] = {} /\ queue'[m] = <<>>
      BY <1>1, <3>1 DEF AtRest
    <3>6. \A t \in Task : Holds(m, t)' => wjob'[m][t] \in slipped'
      BY <1>1, <2>1, <3>1 DEF AtRest, Holds
    <3> QED
      BY <3>4, <3>5, <3>6 DEF PoolRuns
  <2> QED
    BY <2>2, <2>3
<1>3. ASSUME st[n][g] = "stopping", n \notin stalled PROVE ~running[n]
  BY <1>3 DEF CheckInv, Watches, PoolAt
<1>4. ASSUME StopWorker(n, g) PROVE PoolRuns(m)'
  <2>1. st[n][g] = "stopping" /\ UNCHANGED <<running, stopEv, eref, enq>>
    BY <1>4 DEF StopWorker, runVars, enqVars
  <2>2. PICK t \in Task : /\ wk' = [wk EXCEPT ![n][t] = "none"]
                         /\ wjob' = [wjob EXCEPT ![n][t] = NoJob]
    BY <1>4, StopEnds
  <2>3. CASE m # n
    <3>1. wk'[m] = wk[m] /\ wjob'[m] = wjob[m]
      BY <2>2, <2>3, WorkerMoves DEF TypeOK
    <3> QED
      BY <1>1, <2>1, <3>1, PoolSame DEF PoolInv
  <2>4. CASE m = n
    <3>1. ~running[m]
      BY <1>3, <2>1, <2>4
    <3>2. /\ enq[m] = {} /\ batch[m] = {} /\ queue[m] = <<>>
          /\ \A u \in Task : Holds(m, u) => wjob[m][u] \in slipped
      BY <3>1 DEF PoolInv, PoolRuns
    <3>3. \A u \in Task : \/ wk'[m][u] = "none"
                         \/ (wk'[m][u] = wk[m][u] /\ wjob'[m][u] = wjob[m][u])
      <4>0. wk' = [wk EXCEPT ![n][t] = "none"] /\ wjob' = [wjob EXCEPT ![n][t] = NoJob]
        BY <2>2
      <4>1. wk'[m][t] = "none" /\ \A u \in Task : u # t => wk'[m][u] = wk[m][u]
        BY <2>4, <4>0 DEF TypeOK
      <4>2. \A u \in Task : u # t => wjob'[m][u] = wjob[m][u]
        BY <2>4, <4>0 DEF TypeOK
      <4> QED
        BY <4>1, <4>2
    <3>4. \A u \in Task : Holds(m, u)' => wjob'[m][u] \in slipped'
      BY <1>1, <3>2, <3>3 DEF Holds
    <3> QED
      BY <1>1, <2>1, <3>1, <3>2, <3>4 DEF PoolRuns
  <2> QED
    BY <2>3, <2>4
<1>5. ASSUME StopEnd(n, g) PROVE PoolRuns(m)'
  <2>1. /\ st[n][g] = "stopping" /\ UNCHANGED <<running, stopEv, enq, wk, wjob>>
        /\ eref' = [eref EXCEPT ![n] = NoGen]
    BY <1>5 DEF StopEnd, enqVars, workerVars
  <2>2. CASE m # n
    <3>1. eref'[m] = eref[m]
      BY <2>1, <2>2 DEF TypeOK
    <3> QED
      BY <1>1, <2>1, <3>1, PoolSame DEF PoolInv
  <2>3. CASE m = n
    BY <1>1, <1>3, <2>1, <2>3 DEF PoolInv, PoolRuns, Holds
  <2> QED
    BY <2>2, <2>3
<1> QED
  BY <1>2, <1>4, <1>5

LEMMA NextPool ==
  ASSUME Overlap = {}, TypeOK, CheckInv, QuietInv, PoolInv, [Next]_vars
  PROVE  PoolInv'
<1> USE DEF lapseVars
<1>1. ASSUME UNCHANGED <<running, stopEv, eref, enq, batch, queue, wk, wjob, slipped, stalled>>
      PROVE  PoolInv'
  BY <1>1, PoolSame DEF PoolInv
<1>2. ASSUME NEW n \in Mgr, Construct(n) PROVE PoolInv'
  BY <1>1, <1>2 DEF Construct, runVars, enqVars, workerVars
<1>3. ASSUME NEW n \in Mgr, AutoStart(n) PROVE PoolInv'
  <2>1. ~running[n] /\ UNCHANGED <<batch, queue, wjob, slipped, stalled>>
    BY <1>3 DEF AutoStart, CheckInv
  <2> QED
    BY <1>3, <2>1, PoolStart DEF AutoStart
<1>4. ASSUME NEW n \in Mgr, Crash(n) PROVE PoolInv'
  <2> SUFFICES ASSUME NEW m \in Mgr, m \notin stalled' PROVE PoolRuns(m)'
    BY DEF PoolInv
  <2>1. CASE m # n
    <3>1. /\ running'[m] = running[m] /\ stopEv'[m] = stopEv[m] /\ eref'[m] = eref[m]
          /\ enq'[m] = enq[m] /\ batch'[m] = batch[m] /\ queue'[m] = queue[m]
          /\ wk'[m] = wk[m] /\ wjob'[m] = wjob[m]
      BY <1>4, <2>1 DEF Crash, TypeOK
    <3>2. slipped' = slipped /\ m \notin stalled
      BY <1>4, <2>1 DEF Crash
    <3> QED
      BY <3>1, <3>2, PoolSame DEF PoolInv
  <2>2. CASE m = n
    <3>1. /\ ~running'[m] /\ enq'[m] = {} /\ batch'[m] = {} /\ queue'[m] = <<>>
          /\ \A t \in Task : wk'[m][t] = "none"
      BY <1>4, <2>2 DEF Crash, TypeOK
    <3> QED
      BY <3>1 DEF PoolRuns, Holds
  <2> QED
    BY <2>1, <2>2
<1>5. ASSUME NEW n \in Mgr, NEW j \in Job, CleanStray(n, j) PROVE PoolInv'
  BY <1>1, <1>5 DEF CleanStray, runVars, enqVars, workerVars
<1>6. ASSUME NEW j \in Job, SubmitRegister(j) \/ SubmitInsert(j) \/ SubmitFails(j) PROVE PoolInv'
  <2>1. UNCHANGED <<runVars, queue, enqVars, workerVars, lapseVars>>
    BY <1>6 DEF SubmitRegister, SubmitInsert, SubmitFails
  <2> QED
    BY <1>1, <2>1 DEF runVars, enqVars, workerVars
<1>7. ASSUME NEW j \in Job, SubmitCheck(j) PROVE PoolInv'
  <2> SUFFICES ASSUME NEW m \in Mgr \ stalled PROVE PoolRuns(m)'
    BY <1>7 DEF PoolInv, SubmitCheck
  <2>1. /\ UNCHANGED <<running, eref, enq, batch, queue, wk, wjob, slipped>>
        /\ \/ UNCHANGED stopEv
           \/ ~running[Home[j]] /\ stopEv' = [stopEv EXCEPT ![Home[j]] = FALSE]
    BY <1>7 DEF SubmitCheck, enqVars, workerVars
  <2>2. CASE m = Home[j] /\ ~running[m]
    BY <2>1, <2>2 DEF PoolInv, PoolRuns, Holds
  <2>3. CASE stopEv'[m] = stopEv[m]
    BY <2>1, <2>3, PoolSame DEF PoolInv
  <2>4. m # Home[j] \/ running[m] => stopEv'[m] = stopEv[m]
    BY <2>1 DEF TypeOK
  <2> QED
    BY <2>2, <2>3, <2>4
<1>8. ASSUME NEW j \in Job, SubmitStart(j) PROVE PoolInv'
  <2>1. CASE running[Home[j]]
    BY <1>1, <1>8, <2>1 DEF SubmitStart, runVars
  <2>2. CASE ~running[Home[j]]
    <3>1. PICK g \in Gen : StartAs(Home[j], g)
      BY <1>8, <2>2 DEF SubmitStart
    <3>2. UNCHANGED <<batch, queue, wjob, slipped, stalled>> /\ Home[j] \in Mgr
      BY <1>8, QueueAssumption DEF SubmitStart, QueueAssumption
    <3> QED
      BY <2>2, <3>1, <3>2, PoolStart
  <2> QED
    BY <2>1, <2>2
<1>9. ASSUME NEW n \in Mgr, NEW g \in Gen, StatusDecide(n, g) PROVE PoolInv'
  BY <1>1, <1>9 DEF StatusDecide, runVars, enqVars, workerVars
<1>10. ASSUME NEW n \in Mgr, NEW g \in Gen, StopBegin(n, g) \/ StopWorker(n, g) \/ StopEnd(n, g)
       PROVE  PoolInv'
  <2>1. PoolAt(n) /\ StopAt(n)
    BY DEF QuietInv
  <2> QED
    BY <1>10, <2>1, PoolStop
<1>11. CASE UNCHANGED vars
  BY <1>1, <1>11 DEF vars, runVars, enqVars, workerVars
<1>12. ASSUME NEW n \in Mgr, CleanFails(n) PROVE PoolInv'
  BY <1>1, <1>12 DEF CleanFails, runVars, enqVars, workerVars
<1>13. ASSUME NEW n \in Mgr, StartRaises(n), UNCHANGED queue PROVE PoolInv'
  <2> SUFFICES ASSUME NEW m \in Mgr, m \notin stalled' PROVE PoolRuns(m)'
    BY DEF PoolInv
  <2>1. m # n /\ m \notin stalled /\ slipped' = slipped
    BY <1>13 DEF StartRaises
  <2>2. /\ running'[m] = running[m] /\ stopEv'[m] = stopEv[m]
        /\ UNCHANGED <<eref, enq, batch, queue, wk, wjob>>
    BY <1>13, <2>1 DEF StartRaises, enqVars, workerVars, TypeOK
  <2> QED
    BY <2>1, <2>2, PoolSame DEF PoolInv
<1>14. ASSUME NEW n \in Mgr, Fails(n) PROVE PoolInv'
  BY <1>12, <1>13, <1>14, PoolEnqueue DEF Fails, AutoStartFails
<1>15. ASSUME NEW j \in Job, SubmitStartFails(j) PROVE PoolInv'
  BY <1>13, <1>15, QueueAssumption DEF SubmitStartFails, QueueAssumption
<1> QED
  BY <1>2, <1>3, <1>4, <1>5, <1>6, <1>7, <1>8, <1>9, <1>10, <1>11, <1>14, <1>15, PoolEnqueue,
     PoolWorker
     DEF Next, Submit, StatusStep

\* A step that leaves the places of a job's manager alone.
LEMMA PlaceSame ==
  ASSUME NEW j \in Job, PlaceOf(j), call'[j] = call[j],
         row'[j] = row[j] \/ row'[j] \notin {"enqueued", "in-progress"},
         queue'[Home[j]] = queue[Home[j]], wk'[Home[j]] = wk[Home[j]],
         wjob'[Home[j]] = wjob[Home[j]], Lapsed \subseteq Lapsed'
  PROVE  PlaceOf(j)'
BY DEF PlaceOf, Queued, HeldAt

\* Workers that hold no job come and go.
LEMMA PlaceIdle ==
  ASSUME TypeOK, NEW j \in Job, PlaceOf(j), call'[j] = call[j], row'[j] = row[j],
         queue'[Home[j]] = queue[Home[j]], Lapsed \subseteq Lapsed',
         \A t \in Task : Holds(Home[j], t) => /\ wk'[Home[j]][t] = wk[Home[j]][t]
                                              /\ wjob'[Home[j]][t] = wjob[Home[j]][t]
  PROVE  PlaceOf(j)'
<1>1. HeldAt(Home[j], j, "rate") => HeldAt(Home[j], j, "rate")'
  BY DEF HeldAt, Holds
<1>2. HeldAt(Home[j], j, "run") => HeldAt(Home[j], j, "run")'
  BY DEF HeldAt, Holds
<1>3. Queued(Home[j], j) => Queued(Home[j], j)'
  BY DEF Queued
<1> QED
  BY <1>1, <1>2, <1>3 DEF PlaceOf

\* start() takes a generation nobody works for.
LEMMA StartKeepsHeld ==
  ASSUME TypeOK, NEW n \in Mgr, NEW g \in Gen, FreeGen(n, g), StartAs(n, g),
         NEW m \in Mgr, NEW t \in Task, Holds(m, t)
  PROVE  wk'[m][t] = wk[m][t]
<1>1. t[1] = g => wk[n][t] = "none"
  BY DEF FreeGen, Task
<1>2. wk' = [wk EXCEPT ![n] = [u \in Task |-> IF u[1] = g THEN "created" ELSE @[u]]]
  BY DEF StartAs
<1>3. DOMAIN wk = Mgr
  BY DEF TypeOK
<1>4. CASE m # n
  BY <1>2, <1>3, <1>4
<1>5. CASE m = n
  <2>1. t[1] # g
    BY <1>1, <1>5 DEF Holds
  <2> QED
    BY <1>2, <1>3, <1>5, <2>1
<1> QED
  BY <1>4, <1>5

LEMMA PlaceStart ==
  ASSUME TypeOK, PlaceInv, NEW n \in Mgr, NEW g \in Gen, FreeGen(n, g), StartAs(n, g),
         UNCHANGED <<row, queue, wjob>>, NEW j \in Job, call'[j] = call[j],
         Lapsed \subseteq Lapsed'
  PROVE  PlaceOf(j)'
<1>1. Home[j] \in Mgr
  BY QueueAssumption DEF QueueAssumption
<1>2. \A t \in Task : Holds(Home[j], t) => wk'[Home[j]][t] = wk[Home[j]][t]
  BY <1>1, StartKeepsHeld
<1> QED
  BY <1>1, <1>2, PlaceIdle DEF PlaceInv

LEMMA PlaceEnqueue ==
  ASSUME TypeOK, PendInv, PlaceInv, Lapsed \subseteq Lapsed', NEW n \in Mgr,
         Enqueue(n) \/ EnqAbandon(n) \/ \E j \in Job : EnqSlip(n, j)
  PROVE  PlaceInv'
<1> SUFFICES ASSUME NEW i \in Job PROVE PlaceOf(i)'
  BY DEF PlaceInv
<1>0. Home[i] \in Mgr /\ PlaceOf(i)
  BY QueueAssumption DEF QueueAssumption, PlaceInv
<1>1. UNCHANGED <<call, wk, wjob>>
  BY DEF Enqueue, EnqFind, EnqPut, EnqSlip, Put, EnqForeign, EnqExit, EnqAbandon, jobVars,
     workerVars
<1>2. CASE UNCHANGED queue /\ (row'[i] = row[i] \/ row'[i] = "failed")
  BY <1>0, <1>1, <1>2, PlaceSame
<1>3. ASSUME NEW j \in Job, EnqForeign(n, j) PROVE PlaceOf(i)'
  <2>1. row' = [row EXCEPT ![j] = "failed"] /\ UNCHANGED queue
    BY <1>3 DEF EnqForeign
  <2>2. row'[i] = row[i] \/ row'[i] = "failed"
    BY <2>1 DEF TypeOK
  <2> QED
    BY <1>2, <2>1, <2>2
<1>4. ASSUME NEW j \in Job, EnqPut(n, j) \/ EnqSlip(n, j) PROVE PlaceOf(i)'
  <2>1. /\ row' = [row EXCEPT ![j] = "enqueued"] \/ (row' = row /\ j \in Lapsed')
        /\ queue' = [queue EXCEPT ![n] = Append(@, j)]
        /\ j \in pend[n]
    BY <1>4 DEF EnqPut, EnqSlip, Put, Lapsed
  <2>2. Home[j] = n
    BY <2>1 DEF PendInv
  <2>3. queue[n] \in Seq(Job) /\ DOMAIN queue = Mgr
    BY DEF TypeOK
  <2>4. /\ Len(queue[n]) + 1 \in DOMAIN Append(queue[n], j)
        /\ Append(queue[n], j)[Len(queue[n]) + 1] = j
        /\ \A a \in DOMAIN queue[n] : a \in DOMAIN Append(queue[n], j) /\ Append(queue[n], j)[a] = queue[n][a]
    BY <2>3
  <2>5. queue'[n] = Append(queue[n], j) /\ \A m \in Mgr : m # n => queue'[m] = queue[m]
    BY <2>1, <2>3
  <2>6. CASE i = j
    <3>1. row'[i] = "enqueued" \/ i \in Lapsed'
      BY <2>1, <2>6 DEF TypeOK
    <3>2. Queued(Home[i], i)'
      BY <2>2, <2>4, <2>5, <2>6 DEF Queued
    <3> QED
      BY <3>1, <3>2 DEF PlaceOf
  <2>7. CASE i # j
    <3>1. row'[i] = row[i]
      BY <2>1, <2>7 DEF TypeOK
    <3>2. Queued(Home[i], i) => Queued(Home[i], i)'
      <4>1. CASE Home[i] = n
        BY <2>4, <2>5, <4>1 DEF Queued
      <4>2. CASE Home[i] # n
        BY <1>0, <2>5, <4>2 DEF Queued
      <4> QED
        BY <4>1, <4>2
    <3>3. /\ HeldAt(Home[i], i, "rate") => HeldAt(Home[i], i, "rate")'
          /\ HeldAt(Home[i], i, "run") => HeldAt(Home[i], i, "run")'
      BY <1>1 DEF HeldAt
    <3> QED
      BY <1>0, <1>1, <3>1, <3>2, <3>3 DEF PlaceOf
  <2> QED
    BY <2>6, <2>7
<1>5. ASSUME EnqFind(n) \/ EnqAbandon(n) \/ \E g \in Gen : EnqExit(n, g) PROVE PlaceOf(i)'
  <2>1. UNCHANGED <<row, queue>>
    BY <1>5 DEF EnqFind, EnqAbandon, EnqExit
  <2> QED
    BY <1>2, <2>1
<1> QED
  BY <1>3, <1>4, <1>5 DEF Enqueue

LEMMA PlaceWorker ==
  ASSUME TypeOK, QueueInv, HeldInv, PlaceInv, Lapsed \subseteq Lapsed',
         NEW n \in Mgr, NEW t \in Task, WorkerStep(n, t)
  PROVE  PlaceInv'
<1> SUFFICES ASSUME NEW i \in Job PROVE PlaceOf(i)'
  BY DEF PlaceInv
<1> DEFINE m == Home[i]
           j == wjob[n][t]
<1>0. m \in Mgr /\ PlaceOf(i)
  BY QueueAssumption DEF QueueAssumption, PlaceInv
<1>1. UNCHANGED call
  BY DEF WorkerStep, WorkerInit, WorkerTake, TakeUncached, WorkerLaunch, LaunchFails, WorkerFinish,
     jobVars
<1>2. ASSUME WorkerInit(n, t) PROVE PlaceOf(i)'
  <2>1. /\ UNCHANGED <<row, queue, wjob>> /\ ~Holds(n, t)
        /\ wk' = [wk EXCEPT ![n][t] = LoopHead(n)]
    BY <1>2 DEF WorkerInit, Holds
  <2>2. \A u \in Task : Holds(m, u) => wk'[m][u] = wk[m][u]
    BY <1>0, <2>1, WorkerMoves
  <2> QED
    BY <1>0, <1>1, <2>1, <2>2, PlaceIdle
<1>3. ASSUME WorkerTake(n, t) PROVE PlaceOf(i)'
  <2>1. /\ UNCHANGED row /\ ~Holds(n, t) /\ queue[n] # <<>>
        /\ wk' = [wk EXCEPT ![n][t] = "rate"] /\ wjob' = [wjob EXCEPT ![n][t] = Head(queue[n])]
        /\ queue' = [queue EXCEPT ![n] = Tail(@)]
    BY <1>3 DEF WorkerTake, Holds
  <2>2. \A u \in Task : Holds(m, u) => wk'[m][u] = wk[m][u] /\ wjob'[m][u] = wjob[m][u]
    BY <1>0, <2>1, WorkerMoves, WorkerTakes
  <2>3. CASE m # n
    <3>1. queue'[m] = queue[m]
      BY <1>0, <2>1, <2>3 DEF TypeOK
    <3> QED
      BY <1>0, <1>1, <2>1, <2>2, <3>1, PlaceIdle
  <2>4. CASE m = n
    <3>1. queue[n] \in Seq(Job) /\ queue'[n] = Tail(queue[n])
      BY <2>1 DEF TypeOK
    <3>2. ASSUME Queued(m, i) PROVE Queued(m, i)' \/ HeldAt(m, i, "rate")'
      <4>1. PICK a \in DOMAIN queue[n] : queue[n][a] = i
        BY <2>4, <3>2 DEF Queued
      <4>2. CASE a = 1
        <5>1. Head(queue[n]) = i
          BY <3>1, <4>1, <4>2
        <5>2. wk'[n][t] = "rate"
          BY <2>1 DEF TypeOK
        <5>3. wjob'[n][t] = i
          BY <2>1, <5>1 DEF TypeOK
        <5> QED
          BY <2>4, <5>2, <5>3 DEF HeldAt
      <4>3. CASE a # 1
        <5>1. a - 1 \in DOMAIN Tail(queue[n]) /\ Tail(queue[n])[a - 1] = queue[n][a]
          BY <2>1, <3>1, <4>1, <4>3
        <5> QED
          BY <2>4, <3>1, <4>1, <5>1 DEF Queued
      <4> QED
        BY <4>2, <4>3
    <3>3. /\ HeldAt(m, i, "rate") => HeldAt(m, i, "rate")'
          /\ HeldAt(m, i, "run") => HeldAt(m, i, "run")'
      BY <2>2 DEF HeldAt, Holds
    <3> QED
      BY <1>0, <1>1, <2>1, <3>2, <3>3 DEF PlaceOf
  <2> QED
    BY <2>3, <2>4
<1>4. Holds(n, t) => /\ j \in Job /\ Home[j] = n
                     /\ fut[j] # "waiting" => j \in Lapsed
  BY PlacedJob DEF HeldInv, Placed, Fresh, Lapsed
<1>5. ASSUME WorkerLaunch(n, t) PROVE PlaceOf(i)'
  <2>1. /\ row' = [row EXCEPT ![j] = "in-progress"] /\ wk' = [wk EXCEPT ![n][t] = "run"]
        /\ UNCHANGED <<queue, wjob>> /\ Holds(n, t)
    BY <1>5 DEF WorkerLaunch, Holds
  <2>2. CASE i = j
    <3>1. row'[i] = "in-progress"
      BY <2>1, <2>2 DEF TypeOK
    <3>2. wk'[n][t] = "run"
      BY <2>1 DEF TypeOK
    <3>3. HeldAt(m, i, "run")'
      BY <1>4, <2>1, <2>2, <3>2 DEF HeldAt
    <3> QED
      BY <3>1, <3>3 DEF PlaceOf
  <2>3. CASE i # j
    <3>1. row'[i] = row[i]
      BY <2>1, <2>3 DEF TypeOK
    <3>2. \A u \in Task : wjob[m][u] = i => wk'[m][u] = wk[m][u]
      BY <1>0, <2>1, <2>3, WorkerMoves
    <3>3. /\ HeldAt(m, i, "rate") => HeldAt(m, i, "rate")'
          /\ HeldAt(m, i, "run") => HeldAt(m, i, "run")'
          /\ Queued(m, i) => Queued(m, i)'
      BY <2>1, <3>2 DEF HeldAt, Queued
    <3> QED
      BY <1>0, <1>1, <3>1, <3>3 DEF PlaceOf
  <2> QED
    BY <2>2, <2>3
<1>6. ASSUME NEW ok \in BOOLEAN, WorkerFinish(n, t, ok) \/ LaunchFails(n, t) PROVE PlaceOf(i)'
  <2>1. /\ wk' = [wk EXCEPT ![n][t] = LoopHead(n)]
        /\ wjob' = [wjob EXCEPT ![n][t] = NoJob] /\ UNCHANGED queue /\ Holds(n, t)
    BY <1>6, ReleaseWorker DEF WorkerFinish, LaunchFails, Holds
  <2>4. PICK good \in BOOLEAN, wrote \in BOOLEAN : Settle(j, good, wrote) \/ SettledBefore(j)
    BY <1>6 DEF WorkerFinish, LaunchFails
  <2>2. CASE i = j
    <3>1. row'[i] \in {"completed", "failed"} \/ i \in Lapsed'
      BY <1>4, <2>1, <2>2, <2>4 DEF Settle, SettledBefore, Lapsed, TypeOK
    <3> QED
      BY <3>1 DEF PlaceOf
  <2>3. CASE i # j
    <3>1. row'[i] = row[i]
      BY <2>3, <2>4 DEF Settle, SettledBefore, TypeOK
    <3>2. \A u \in Task : wjob[m][u] = i => wk'[m][u] = wk[m][u] /\ wjob'[m][u] = wjob[m][u]
      BY <1>0, <2>1, <2>3, WorkerMoves, WorkerTakes
    <3>3. /\ HeldAt(m, i, "rate") => HeldAt(m, i, "rate")'
          /\ HeldAt(m, i, "run") => HeldAt(m, i, "run")'
          /\ Queued(m, i) => Queued(m, i)'
      BY <2>1, <3>2 DEF HeldAt, Queued
    <3> QED
      BY <1>0, <1>1, <3>1, <3>3 DEF PlaceOf
  <2> QED
    BY <2>2, <2>3
<1>7. ASSUME TakeUncached(n, t) PROVE PlaceOf(i)'
  <2> DEFINE h == Head(queue[n])
  <2>1. /\ ~Holds(n, t) /\ queue[n] # <<>> /\ UNCHANGED wjob
        /\ wk' = [wk EXCEPT ![n][t] = LoopHead(n)]
        /\ queue' = [queue EXCEPT ![n] = Tail(@)]
    BY <1>7 DEF TakeUncached, Holds
  <2>2. queue[n] \in Seq(Job) /\ queue'[n] = Tail(queue[n]) /\ h \in Job
        /\ \A k \in Mgr : k # n => queue'[k] = queue[k]
    BY <2>1 DEF TypeOK
  <2>3. row' = [row EXCEPT ![h] = "failed"] \/ (row' = row /\ h \in Lapsed')
    BY <1>7 DEF TakeUncached, Lapsed
  <2>4. CASE i = h
    <3>1. row'[i] = "failed" \/ i \in Lapsed'
      BY <2>3, <2>4 DEF TypeOK
    <3> QED
      BY <3>1 DEF PlaceOf
  <2>5. CASE i # h
    <3>1. row'[i] = row[i]
      BY <2>2, <2>3, <2>5 DEF TypeOK
    <3>2. \A u \in Task : Holds(m, u) => wk'[m][u] = wk[m][u]
      BY <1>0, <2>1, WorkerMoves
    <3>3. /\ HeldAt(m, i, "rate") => HeldAt(m, i, "rate")'
          /\ HeldAt(m, i, "run") => HeldAt(m, i, "run")'
      BY <2>1, <3>2 DEF HeldAt, Holds
    <3>4. Queued(m, i) => Queued(m, i)'
      <4>1. CASE m # n
        BY <1>0, <2>2, <4>1 DEF Queued
      <4>2. CASE m = n
        <5> SUFFICES ASSUME NEW a \in DOMAIN queue[n], queue[n][a] = i PROVE Queued(m, i)'
          BY <4>2 DEF Queued
        <5>1. a # 1
          BY <2>1, <2>2, <2>5
        <5>2. a - 1 \in DOMAIN Tail(queue[n]) /\ Tail(queue[n])[a - 1] = queue[n][a]
          BY <2>1, <2>2, <5>1
        <5> QED
          BY <2>2, <4>2, <5>2 DEF Queued
      <4> QED
        BY <4>1, <4>2
    <3> QED
      BY <1>0, <1>1, <3>1, <3>3, <3>4 DEF PlaceOf
  <2> QED
    BY <2>4, <2>5
<1> QED
  BY <1>2, <1>3, <1>5, <1>6, <1>7 DEF WorkerStep

\* What a failed write has done to a job is not undone.
LEMMA LapsedGrows == [Next]_vars => Lapsed \subseteq Lapsed'
<1> SUFFICES ASSUME [Next]_vars PROVE unwritten \subseteq unwritten'
  BY SlippedOnlyGrows DEF Lapsed
<1> USE DEF lapseVars
<1>1. ASSUME NEW m \in Mgr,
             Construct(m) \/ AutoStart(m) \/ Crash(m) \/ Enqueue(m) \/ Fails(m)
      PROVE  unwritten \subseteq unwritten'
  BY <1>1 DEF Construct, AutoStart, StartAs, Crash, Enqueue, EnqFind, EnqPut, EnqForeign, EnqExit,
              Fails, CleanFails, AutoStartFails, StartRaises, EnqAbandon, EnqSlip
<1>2. ASSUME NEW m \in Mgr, NEW j \in Job, CleanStray(m, j) PROVE unwritten \subseteq unwritten'
  BY <1>2 DEF CleanStray
<1>3. ASSUME NEW j \in Job, SubmitRegister(j) \/ Submit(j) \/ SubmitStartFails(j)
      PROVE  unwritten \subseteq unwritten'
  BY <1>3 DEF SubmitRegister, Submit, SubmitInsert, SubmitFails, SubmitCheck, SubmitStart,
              SubmitStartFails, StartRaises
<1>4. ASSUME NEW m \in Mgr, NEW t \in Task, WorkerStep(m, t) PROVE unwritten \subseteq unwritten'
  <2>1. ASSUME NEW j, NEW ok \in BOOLEAN, NEW wrote \in BOOLEAN,
               Settle(j, ok, wrote) \/ SettledBefore(j)
        PROVE  unwritten \subseteq unwritten'
    BY <2>1 DEF Settle, SettledBefore
  <2>2. CASE LaunchFails(m, t) \/ \E ok \in BOOLEAN : WorkerFinish(m, t, ok)
    BY <2>1, <2>2 DEF LaunchFails, WorkerFinish
  <2>3. CASE WorkerInit(m, t) \/ WorkerTake(m, t) \/ TakeUncached(m, t) \/ WorkerLaunch(m, t)
    BY <2>3 DEF WorkerInit, WorkerTake, TakeUncached, WorkerLaunch
  <2> QED
    BY <1>4, <2>2, <2>3 DEF WorkerStep
<1>5. ASSUME NEW m \in Mgr, NEW g \in Gen, StatusStep(m, g) PROVE unwritten \subseteq unwritten'
  BY <1>5 DEF StatusStep, StatusDecide, StopBegin, StopWorker, StopEnd
<1>6. CASE UNCHANGED vars
  BY <1>6 DEF vars
<1> QED
  BY <1>1, <1>2, <1>3, <1>4, <1>5, <1>6 DEF Next

LEMMA NextPlace ==
  ASSUME Overlap = {}, IInv, QuietInv, CheckInv, PlaceInv, [Next]_vars
  PROVE  PlaceInv'
<1>0. TypeOK /\ PendInv /\ QueueInv /\ HeldInv /\ RowInv /\ Lapsed \subseteq Lapsed'
  BY LapsedGrows DEF IInv
<1> SUFFICES ASSUME NEW i \in Job PROVE PlaceOf(i)'
  BY DEF PlaceInv
<1> DEFINE m == Home[i]
           Place == PlaceOf(i)'
<1>1. m \in Mgr /\ PlaceOf(i)
  BY QueueAssumption DEF QueueAssumption, PlaceInv
<1>2. CASE /\ UNCHANGED <<queue, wk, wjob>> /\ call'[i] = call[i]
           /\ row'[i] = row[i] \/ row'[i] \in {"pending", "failed"}
  BY <1>0, <1>1, <1>2, PlaceSame
<1>3. ASSUME NEW n \in Mgr, Construct(n) PROVE Place
  BY <1>2, <1>3 DEF Construct, jobVars, workerVars
<1>4. ASSUME NEW n \in Mgr, AutoStart(n) PROVE Place
  <2>1. UNCHANGED <<row, call, queue, wjob>> /\ \E g \in Gen : FreeGen(n, g) /\ StartAs(n, g)
    BY <1>4 DEF AutoStart, jobVars
  <2> QED
    BY <1>0, <2>1, PlaceStart
<1>5. ASSUME NEW n \in Mgr, Crash(n) PROVE Place
  <2>1. CASE n = m
    <3>1. row' = row /\ (call'[i] = "gone" \/ call[i] = "idle")
      BY <1>0, <1>5, <2>1 DEF Crash, TypeOK
    <3>2. call[i] = "idle" => row[i] = "none"
      BY <1>0 DEF RowInv, Submitted
    <3> QED
      BY <3>1, <3>2 DEF PlaceOf
  <2>2. CASE n # m
    <3>1. /\ row' = row /\ call'[i] = call[i] /\ queue'[m] = queue[m]
          /\ wk'[m] = wk[m] /\ wjob'[m] = wjob[m]
      BY <1>0, <1>1, <1>5, <2>2 DEF Crash, TypeOK
    <3> QED
      BY <1>0, <1>1, <3>1, PlaceSame
  <2> QED
    BY <2>1, <2>2
<1>6. ASSUME NEW n \in Mgr, NEW j \in Job, CleanStray(n, j) PROVE Place
  <2>1. UNCHANGED <<call, queue, wk, wjob>> /\ row' = [row EXCEPT ![j] = "failed"]
    BY <1>6 DEF CleanStray, jobVars, workerVars
  <2>2. row'[i] = row[i] \/ row'[i] = "failed"
    BY <1>0, <2>1 DEF TypeOK
  <2> QED
    BY <1>2, <2>1, <2>2
<1>7. ASSUME NEW j \in Job, SubmitRegister(j) \/ SubmitInsert(j) \/ SubmitFails(j) \/ SubmitCheck(j)
      PROVE  Place
  <2>1. /\ UNCHANGED <<queue, wk, wjob>>
        /\ \E v \in CallState : call' = [call EXCEPT ![j] = v]
        /\ row' = row \/ row' = [row EXCEPT ![j] = "pending"]
    BY <1>7 DEF SubmitRegister, SubmitInsert, SubmitFails, SubmitCheck, workerVars, CallState
  <2>2. row'[i] = row[i] \/ row'[i] = "pending"
    BY <1>0, <2>1 DEF TypeOK
  <2>3. CASE j # i
    <3>1. call'[i] = call[i]
      BY <1>0, <2>1, <2>3 DEF TypeOK
    <3> QED
      BY <1>2, <2>1, <2>2, <3>1
  <2>4. CASE j = i
    <3>1. call[i] # "gone"
      BY <1>7, <2>4 DEF SubmitRegister, SubmitInsert, SubmitFails, SubmitCheck
    <3> QED
      BY <1>0, <1>1, <2>1, <2>2, <3>1 DEF PlaceOf, Queued, HeldAt
  <2> QED
    BY <2>3, <2>4
<1>8. ASSUME NEW j \in Job, SubmitStart(j) PROVE Place
  <2>1. /\ UNCHANGED <<row, queue, wjob>> /\ call[j] = "starting"
        /\ call' = [call EXCEPT ![j] = "waiting"]
        /\ \/ UNCHANGED wk
           \/ \E g \in Gen : FreeGen(Home[j], g) /\ StartAs(Home[j], g)
    BY <1>8 DEF SubmitStart
  <2>2. \A t \in Task : Holds(m, t) => wk'[m][t] = wk[m][t]
    <3>1. ASSUME NEW g \in Gen, FreeGen(Home[j], g), StartAs(Home[j], g), NEW t \in Task, Holds(m, t)
          PROVE  wk'[m][t] = wk[m][t]
      <4>1. Home[j] \in Mgr
        BY QueueAssumption DEF QueueAssumption
      <4> QED
        BY <1>0, <1>1, <3>1, <4>1, StartKeepsHeld
    <3> QED
      BY <2>1, <3>1
  <2>3. call[i] = "gone" <=> call'[i] = "gone"
    BY <1>0, <2>1 DEF TypeOK
  <2>4. /\ HeldAt(m, i, "rate") => HeldAt(m, i, "rate")'
        /\ HeldAt(m, i, "run") => HeldAt(m, i, "run")'
        /\ Queued(m, i) => Queued(m, i)'
    BY <2>1, <2>2 DEF HeldAt, Holds, Queued
  <2> QED
    BY <1>0, <1>1, <2>1, <2>3, <2>4 DEF PlaceOf
<1>9. ASSUME NEW n \in Mgr, NEW g \in Gen, StatusDecide(n, g) \/ StopBegin(n, g) \/ StopEnd(n, g)
      PROVE  Place
  <2>1. UNCHANGED <<row, call, queue, wk, wjob>>
    BY <1>9 DEF StatusDecide, StopBegin, StopEnd, jobVars, workerVars
  <2> QED
    BY <1>2, <2>1
<1>10. ASSUME NEW n \in Mgr, NEW g \in Gen, StopWorker(n, g) PROVE Place
  <2>1. /\ UNCHANGED <<row, call, queue>> /\ st[n][g] = "stopping"
        /\ \E t \in Task : /\ wk' = [wk EXCEPT ![n][t] = "none"]
                           /\ wjob' = [wjob EXCEPT ![n][t] = NoJob]
    <3>1. UNCHANGED <<row, call, queue>> /\ st[n][g] = "stopping"
      BY <1>10 DEF StopWorker, jobVars
    <3> QED
      BY <1>0, <1>10, <3>1, StopEnds
  <2>2. \A u \in Task : Holds(n, u) => wjob[n][u] \in slipped
    BY <2>1 DEF QuietInv, StopAt, AtRest
  <2>3. CASE i \in slipped
    <3>1. i \in Lapsed'
      BY <1>0, <2>3 DEF Lapsed
    <3> QED
      BY <3>1 DEF PlaceOf
  <2>4. CASE i \notin slipped
    <3>1. PICK t \in Task : /\ wk' = [wk EXCEPT ![n][t] = "none"]
                           /\ wjob' = [wjob EXCEPT ![n][t] = NoJob]
      BY <2>1
    <3>2. \A u \in Task : Holds(m, u) /\ wjob[m][u] = i => m # n \/ u # t \/ ~Holds(n, u)
      BY <1>1, <2>2, <2>4
    <3>3. \A u \in Task : Holds(m, u) /\ wjob[m][u] = i =>
            wk'[m][u] = wk[m][u] /\ wjob'[m][u] = wjob[m][u]
      <4>1. \A u \in Task : m # n \/ u # t => wk'[m][u] = wk[m][u]
        BY <1>0, <1>1, <3>1, WorkerMoves
      <4>2. \A u \in Task : m # n \/ u # t => wjob'[m][u] = wjob[m][u]
        BY <1>0, <1>1, <3>1, WorkerTakes
      <4> QED
        BY <3>2, <4>1, <4>2
    <3>4. /\ HeldAt(m, i, "rate") => HeldAt(m, i, "rate")'
          /\ HeldAt(m, i, "run") => HeldAt(m, i, "run")'
          /\ Queued(m, i) => Queued(m, i)'
      BY <2>1, <3>3 DEF HeldAt, Holds, Queued
    <3> QED
      BY <1>0, <1>1, <2>1, <3>4 DEF PlaceOf
  <2> QED
    BY <2>3, <2>4
<1>11. CASE UNCHANGED vars
  BY <1>2, <1>11 DEF vars, jobVars, workerVars
<1>12. ASSUME NEW n \in Mgr, Enqueue(n) PROVE Place
  BY <1>0, <1>12, PlaceEnqueue DEF PlaceInv
<1>13. ASSUME NEW n \in Mgr, NEW t \in Task, WorkerStep(n, t) PROVE Place
  BY <1>0, <1>13, PlaceWorker DEF PlaceInv
<1>14. ASSUME NEW n \in Mgr, Fails(n) PROVE Place
  <2>1. CASE CleanFails(n) \/ AutoStartFails(n)
    BY <1>2, <2>1 DEF CleanFails, AutoStartFails, StartRaises, jobVars, workerVars
  <2>2. CASE EnqAbandon(n) \/ \E j \in Job : EnqSlip(n, j)
    BY <1>0, <2>2, PlaceEnqueue DEF PlaceInv
  <2> QED
    BY <1>14, <2>1, <2>2 DEF Fails
<1>15. ASSUME NEW j \in Job, SubmitStartFails(j) PROVE Place
  <2>1. UNCHANGED <<row, queue, wk, wjob>> /\ call' = [call EXCEPT ![j] = "gone"]
    BY <1>15 DEF SubmitStartFails, StartRaises, workerVars
  <2>2. call'[i] = call[i] \/ call'[i] = "gone"
    BY <1>0, <2>1 DEF TypeOK
  <2>3. CASE call'[i] = "gone"
    BY <2>3 DEF PlaceOf
  <2> QED
    BY <1>2, <2>1, <2>2, <2>3
<1> QED
  BY <1>3, <1>4, <1>5, <1>6, <1>7, <1>8, <1>9, <1>10, <1>11, <1>12, <1>13, <1>14, <1>15
     DEF Next, Submit, StatusStep

\* A pool that will get on with its queue: the enqueue loop and a worker are
\* there and have not been told to stop.
PoolAwake(m) == running[m] /\ ~stopEv[m] /\ enq[m] # {} /\ \E t \in Task : wk[m][t] # "none"

\* A job whose row is not settled is on its way, if its own writes and its
\* manager's start have got through: its submission will see to it that the
\* pool runs, or it waits in the table or the queue of a pool that is awake, or
\* a worker has it.
SomebodyHasIt ==
  \A j \in Job \ Lapsed : row[j] \in Unsettled /\ call[j] # "gone" /\ Home[j] \notin stalled =>
    \/ row[j] = "pending" /\ call[j] \in {"inserted", "starting"}
    \/ row[j] = "pending" /\ PoolAwake(Home[j])
    \/ Queued(Home[j], j) /\ PoolAwake(Home[j])
    \/ HeldAt(Home[j], j, "rate") \/ HeldAt(Home[j], j, "run")

\* No job is forgotten where no submission overlaps a stop: whatever foreign
\* rows, failed inserts, failed writes of other jobs, idle stops and deaths of
\* other managers come in between, somebody is there who will settle it.  A
\* death of its own manager leaves it to the next start-up (call[j] = "gone"),
\* a write of its own that fails may leave it to nobody.
THEOREM NobodyForgotten ==
  ASSUME Overlap = {}
  PROVE  Spec => []SomebodyHasIt
<1> DEFINE Inv == CheckInv /\ QuietInv /\ WorkInv /\ PoolInv /\ PlaceInv
<1>1. Init => Inv
  <2>1. Init => CheckInv /\ QuietInv
    BY DEF Init, CheckInv, Watches, QuietInv, PoolAt, StopAt, Holds
  <2>2. Init => WorkInv /\ PlaceInv
    BY DEF Init, WorkInv, PlaceInv, PlaceOf
  <2>3. Init => PoolInv
    BY DEF Init, PoolInv, PoolRuns, Holds
  <2> QED
    BY <2>1, <2>2, <2>3
<1>2. IInv /\ Inv /\ [Next]_vars => Inv'
  <2> SUFFICES ASSUME IInv, Inv, [Next]_vars PROVE Inv'
    OBVIOUS
  <2>1. TypeOK /\ Flow
    BY DEF IInv, Flow
  <2> QED
    BY <2>1, NextCheck, NextQuiet, NextWork, NextPool, NextPlace
<1>3. IInv /\ Inv => SomebodyHasIt
  <2> SUFFICES ASSUME IInv, Inv, NEW j \in Job \ Lapsed, row[j] \in Unsettled,
                      call[j] # "gone", Home[j] \notin stalled
               PROVE  \/ row[j] = "pending" /\ call[j] \in {"inserted", "starting"}
                      \/ row[j] = "pending" /\ PoolAwake(Home[j])
                      \/ Queued(Home[j], j) /\ PoolAwake(Home[j])
                      \/ HeldAt(Home[j], j, "rate") \/ HeldAt(Home[j], j, "run")
    BY DEF SomebodyHasIt
  <2> DEFINE m == Home[j]
  <2>1. TypeOK /\ m \in Mgr /\ PoolRuns(m)
    BY QueueAssumption DEF QueueAssumption, IInv, PoolInv
  <2>2. ASSUME running[m] PROVE PoolAwake(m)
    <3>1. <<eref[m], 1>> \in Task
      BY <2>1, <2>2, QueueAssumption DEF QueueAssumption, PoolRuns, Task
    <3>2. wk[m][<<eref[m], 1>>] # "none"
      BY <2>1, <2>2, <3>1 DEF PoolRuns
    <3> QED
      BY <2>1, <2>2, <3>1, <3>2 DEF PoolRuns, PoolAwake
  <2>3. CASE row[j] = "pending"
    <3>1. call[j] \in {"inserted", "starting", "waiting"}
      BY <2>1, <2>3 DEF IInv, RowInv, Submitted, TypeOK, CallState
    <3>2. call[j] = "waiting" => running[m]
      BY <2>3 DEF WorkInv
    <3> QED
      BY <2>2, <2>3, <3>1, <3>2
  <2>4. Queued(m, j) => running[m]
    BY <2>1 DEF Queued, PoolRuns
  <2>5. CASE row[j] # "pending"
    BY <2>2, <2>4, <2>5 DEF PlaceInv, PlaceOf, Unsettled
  <2> QED
    BY <2>3, <2>5
<1> QED
  BY <1>1, <1>2, <1>3, Inductive, PTL DEF Spec

-----------------------------------------------------------------------------
(* Consequences of the inductive invariant                                 *)

\* The function of the job a worker is about to take.
NextIsCached ==
  \A m \in Mgr : queue[m] # <<>> =>
    LET f == FuncOf[Head(queue[m])] IN
    SlippedOf(m, f) = {} => refs[m][f] > 0

\* A worker takes the branch for a function that is no longer cached only where
\* a job of that function was queued without its row being written: otherwise
\* the job it takes is tracked, so its function is still counted.
THEOREM FunctionIsCached == Spec => []NextIsCached
<1>1. IInv => NextIsCached
  <2> SUFFICES ASSUME IInv, NEW m \in Mgr, queue[m] # <<>>,
                      SlippedOf(m, FuncOf[Head(queue[m])]) = {}
               PROVE  refs[m][FuncOf[Head(queue[m])]] > 0
    BY DEF NextIsCached
  <2> DEFINE j == Head(queue[m])
             f == FuncOf[j]
  <2>1. queue[m] \in Seq(Job) /\ 1 \in DOMAIN queue[m] /\ j = queue[m][1] /\ j \in Job
    BY DEF IInv, TypeOK
  <2>2. Placed(m, j)
    BY <2>1 DEF IInv, QueueInv
  <2>3. j \in Owed(m, f)
    <3>1. j \notin slipped
      BY <2>1, <2>2 DEF SlippedOf, Placed
    <3> QED
      BY <2>2, <3>1 DEF Placed, Fresh, Owed, Submitted
  <2>4. f \in Func
    BY <2>1, QueueAssumption DEF QueueAssumption
  <2>5. IsFiniteSet(Owed(m, f)) /\ Cardinality(Owed(m, f)) \in Nat
    <3>1. Owed(m, f) \subseteq Job
      BY DEF Owed, IInv, TypeOK
    <3> QED
      BY <3>1, QueueAssumption, FS_Subset, FS_CardinalityType DEF QueueAssumption
  <2>6. Cardinality(Owed(m, f)) # 0
    BY <2>3, <2>5, FS_EmptySet
  <2>7. refs[m][f] \in Nat /\ refs[m][f] >= Cardinality(Owed(m, f))
    BY <2>4 DEF IInv, TypeOK, RefsCoverPending
  <2> QED
    BY <2>5, <2>6, <2>7
<1> QED
  BY <1>1, Inductive, PTL
=============================================================================
