-------------------------- MODULE LlmPromiseProofs --------------------------
(***************************************************************************)
(* The LLM queue implements what its callers rely on: every behaviour of   *)
(* LlmQueue, seen through JobStatus, fut and Lapsed, is one of LlmPromise, *)
(* for any number of managers, jobs, functions, workers, generations,      *)
(* deaths and failing writes.                                              *)
(***************************************************************************)
EXTENDS LlmQueueProofs

\* Of what LlmQueue's inductive invariant does not say, what the steps need:
\* where a submission is, its row and its future agree, and whatever an
\* enqueue loop, a clean-up or a worker may still write to is a row that was
\* inserted.
CallInv == \A j \in Job : /\ call[j] = "idle" => fut[j] = "none"
                          /\ call[j] = "registered" => fut[j] = "waiting"

DoneInv == \A j \in Job : row[j] = "completed" => fut[j] = "result"

KnownInv == /\ \A m \in Mgr : \A j \in Job :
                 /\ j \in batch[m] \cup stray[m] => row[j] # "none"
                 /\ j \in pend[m] /\ Submitted(j) => row[j] # "none"
            /\ \A j \in slipped : row[j] # "none"

PInv == CallInv /\ DoneInv /\ KnownInv

-----------------------------------------------------------------------------
(* The rows and futures of a step                                          *)

\* A worker ends a job with a verdict, or with one that comes too late.
LEMMA VerdictParts ==
  ASSUME NEW m \in Mgr, NEW t \in Task,
         LaunchFails(m, t) \/ \E good \in BOOLEAN : WorkerFinish(m, t, good)
  PROVE  /\ Holds(m, t) /\ LoopFree(m) /\ Release(m, t)
         /\ UNCHANGED <<call, up, batch, stray, slipped>>
         /\ \E ok \in BOOLEAN, wrote \in BOOLEAN :
              Settle(wjob[m][t], ok, wrote) \/ SettledBefore(wjob[m][t])
<1> USE DEF enqVars
<1>1. CASE LaunchFails(m, t)
  BY <1>1 DEF LaunchFails, Holds
<1>2. CASE \E good \in BOOLEAN : WorkerFinish(m, t, good)
  BY <1>2 DEF WorkerFinish, Holds
<1> QED
  BY <1>1, <1>2

\* What a verdict does to the row and the future of the job, and to no other.
LEMMA VerdictOn ==
  ASSUME TypeOK, NEW j \in Job, NEW ok \in BOOLEAN, NEW wrote \in BOOLEAN,
         Settle(j, ok, wrote) \/ SettledBefore(j)
  PROVE  /\ \A i \in Job : i # j => row'[i] = row[i] /\ fut'[i] = fut[i]
         /\ row'[j] \in {row[j], "completed", "failed"}
BY DEF Settle, SettledBefore, TypeOK

\* The job a worker holds, or finds at the head of its queue, was submitted to
\* its manager; nobody has settled it and it is tracked, unless it was queued
\* twice.
LEMMA InHand ==
  ASSUME IInv, NEW m \in Mgr, NEW j,
         \/ \E t \in Task : Holds(m, t) /\ j = wjob[m][t]
         \/ queue[m] # <<>> /\ j = Head(queue[m])
  PROVE  /\ j \in Job /\ Home[j] = m /\ Submitted(j)
         /\ j \notin slipped => Fresh(m, j)
<1>1. Placed(m, j)
  <2>1. CASE \E t \in Task : Holds(m, t) /\ j = wjob[m][t]
    BY <2>1 DEF IInv, HeldInv
  <2>2. CASE queue[m] # <<>> /\ j = Head(queue[m])
    <3>1. 1 \in DOMAIN queue[m] /\ j = queue[m][1]
      BY <2>2 DEF IInv, TypeOK
    <3> QED
      BY <3>1 DEF IInv, QueueInv
  <2> QED
    BY <2>1, <2>2
<1>2. j \in Job
  <2>1. CASE \E t \in Task : Holds(m, t) /\ j = wjob[m][t]
    BY <2>1, PlacedJob DEF IInv, HeldInv
  <2>2. CASE queue[m] # <<>> /\ j = Head(queue[m])
    BY <2>2 DEF IInv, TypeOK
  <2> QED
    BY <2>1, <2>2
<1> QED
  BY <1>1, <1>2 DEF Placed

\* The submission, the row and the future of a job agree in the next state.
LEMMA NextCallInv == IInv /\ CallInv /\ [Next]_vars => CallInv'
<1> SUFFICES ASSUME IInv, CallInv, [Next]_vars, NEW j \in Job
             PROVE  /\ call'[j] = "idle" => fut'[j] = "none"
                    /\ call'[j] = "registered" => fut'[j] = "waiting"
  BY DEF CallInv
<1> DEFINE Agree == /\ call'[j] = "idle" => fut'[j] = "none"
                    /\ call'[j] = "registered" => fut'[j] = "waiting"
<1>0. TypeOK
  BY DEF IInv
<1>1. CASE UNCHANGED <<call, fut>>
  BY <1>1 DEF CallInv
<1>2. ASSUME NEW i \in Job, SubmitRegister(i) PROVE Agree
  BY <1>0, <1>2 DEF SubmitRegister, CallInv, TypeOK
<1>3. ASSUME NEW i \in Job,
             SubmitInsert(i) \/ SubmitCheck(i) \/ SubmitStart(i) \/ SubmitStartFails(i)
      PROVE  Agree
  BY <1>0, <1>3 DEF SubmitInsert, SubmitCheck, SubmitStart, SubmitStartFails, CallInv, TypeOK
<1>4. ASSUME NEW i \in Job, SubmitFails(i) PROVE Agree
  BY <1>0, <1>4 DEF SubmitFails, CallInv, TypeOK
<1>5. ASSUME NEW m \in Mgr, NEW t \in Task,
             LaunchFails(m, t) \/ \E ok \in BOOLEAN : WorkerFinish(m, t, ok)
      PROVE  Agree
  <2> DEFINE i == wjob[m][t]
  <2>1. i \in Job /\ Submitted(i)
    BY <1>5, VerdictParts, InHand
  <2>2. UNCHANGED call /\ (j # i => fut'[j] = fut[j])
    BY <1>0, <1>5, <2>1, VerdictParts, VerdictOn
  <2> QED
    BY <2>1, <2>2 DEF CallInv, Submitted
<1>12. ASSUME NEW m \in Mgr, NEW t \in Task, TakeUncached(m, t) PROVE Agree
  <2> DEFINE i == Head(queue[m])
  <2>1. i \in Job /\ Submitted(i)
    BY <1>12, InHand DEF TakeUncached
  <2>2. UNCHANGED call /\ (j # i => fut'[j] = fut[j])
    BY <1>0, <1>12, <2>1 DEF TakeUncached, TypeOK
  <2> QED
    BY <2>1, <2>2 DEF CallInv, Submitted
<1>6. ASSUME NEW m \in Mgr, Crash(m) PROVE Agree
  BY <1>0, <1>6 DEF Crash, CallInv, TypeOK
<1>7. CASE UNCHANGED vars
  BY <1>1, <1>7 DEF vars, jobVars
<1>8. ASSUME NEW m \in Mgr, Construct(m) \/ AutoStart(m) \/ Enqueue(m) \/ Fails(m) PROVE Agree
  BY <1>1, <1>8
     DEF Construct, AutoStart, Enqueue, EnqFind, EnqPut, Put, EnqForeign, EnqExit, Fails,
         CleanFails, AutoStartFails, EnqAbandon, EnqSlip, jobVars
<1>9. ASSUME NEW m \in Mgr, NEW i \in Job, CleanStray(m, i) PROVE Agree
  BY <1>1, <1>9 DEF CleanStray, jobVars
<1>10. ASSUME NEW m \in Mgr, NEW t \in Task,
              WorkerInit(m, t) \/ WorkerTake(m, t) \/ WorkerLaunch(m, t)
       PROVE  Agree
  BY <1>1, <1>10 DEF WorkerInit, WorkerTake, WorkerLaunch, jobVars
<1>11. ASSUME NEW m \in Mgr, NEW g \in Gen, StatusStep(m, g) PROVE Agree
  BY <1>1, <1>11 DEF StatusStep, StatusDecide, StopBegin, StopWorker, StopEnd, jobVars
<1> QED
  BY <1>2, <1>3, <1>4, <1>5, <1>6, <1>7, <1>8, <1>9, <1>10, <1>11, <1>12
     DEF Next, Submit, WorkerStep

\* A row that was inserted stays.
LEMMA RowStays ==
  ASSUME IInv, [Next]_vars, NEW j \in Job, row[j] # "none"
  PROVE  row'[j] # "none"
<1>0. TypeOK
  BY DEF IInv
<1>2. ASSUME NEW i \in Job, SubmitInsert(i) PROVE row'[j] # "none"
  BY <1>0, <1>2 DEF SubmitInsert, TypeOK
<1>3. ASSUME NEW m \in Mgr, NEW i \in Job, CleanStray(m, i) \/ EnqPut(m, i) \/ EnqForeign(m, i)
      PROVE  row'[j] # "none"
  BY <1>0, <1>3 DEF CleanStray, EnqPut, EnqForeign, TypeOK
<1>4. ASSUME NEW m \in Mgr, NEW t \in Task, WorkerLaunch(m, t) PROVE row'[j] # "none"
  BY <1>0, <1>4 DEF WorkerLaunch, TypeOK
<1>5. ASSUME NEW m \in Mgr, NEW t \in Task,
             LaunchFails(m, t) \/ \E ok \in BOOLEAN : WorkerFinish(m, t, ok)
      PROVE  row'[j] # "none"
  <2>1. wjob[m][t] \in Job
    BY <1>5, VerdictParts, InHand
  <2> QED
    BY <1>0, <1>5, <2>1, VerdictParts, VerdictOn
<1>6. ASSUME NEW m \in Mgr,
             \/ Construct(m) \/ AutoStart(m) \/ Crash(m) \/ EnqFind(m) \/ Fails(m)
             \/ \E g \in Gen : EnqExit(m, g) \/ StatusStep(m, g)
      PROVE  row'[j] # "none"
  BY <1>6 DEF Construct, AutoStart, Crash, EnqFind, EnqExit, StatusStep, StatusDecide,
     StopBegin, StopWorker, StopEnd, Fails, CleanFails, AutoStartFails, EnqAbandon, EnqSlip
<1>7. ASSUME NEW i \in Job,
             \/ SubmitRegister(i) \/ SubmitFails(i) \/ SubmitCheck(i) \/ SubmitStart(i)
             \/ SubmitStartFails(i)
      PROVE  row'[j] # "none"
  BY <1>7 DEF SubmitRegister, SubmitFails, SubmitCheck, SubmitStart, SubmitStartFails
<1>8. ASSUME NEW m \in Mgr, NEW t \in Task,
             WorkerInit(m, t) \/ WorkerTake(m, t) \/ TakeUncached(m, t)
      PROVE  row'[j] # "none"
  BY <1>0, <1>8 DEF WorkerInit, WorkerTake, TakeUncached, TypeOK
<1>9. CASE UNCHANGED vars
  BY <1>9 DEF vars
<1> QED
  BY <1>2, <1>3, <1>4, <1>5, <1>6, <1>7, <1>8, <1>9
     DEF Next, Submit, Enqueue, WorkerStep

\* Where nothing new is read, tracked or submitted, what is known stays known.
LEMMA KnownKept ==
  ASSUME IInv, KnownInv, [Next]_vars, NEW j \in Job, NEW m \in Mgr,
         batch'[m] \subseteq batch[m], stray'[m] \subseteq stray[m],
         pend'[m] \subseteq pend[m],
         (j \in pend[m] /\ call[j] = "registered") => call'[j] = call[j]
  PROVE  /\ j \in batch'[m] \cup stray'[m] => row'[j] # "none"
         /\ j \in pend'[m] /\ Submitted(j)' => row'[j] # "none"
<1>1. j \in pend[m] => call[j] # "idle"
  BY DEF IInv, PendInv
<1> QED
  BY <1>1, RowStays DEF KnownInv, Submitted

\* A job slips only where its put is not followed by its update.
LEMMA SlippedByPut ==
  ASSUME [Next]_vars, slipped' # slipped
  PROVE  \E m \in Mgr, j \in Job : EnqSlip(m, j)
<1> USE DEF lapseVars
<1>1. ASSUME NEW m \in Mgr,
             \/ Construct(m) \/ AutoStart(m) \/ Crash(m) \/ Enqueue(m)
             \/ CleanFails(m) \/ AutoStartFails(m) \/ EnqAbandon(m)
      PROVE  FALSE
  BY <1>1 DEF Construct, AutoStart, StartAs, Crash, Enqueue, EnqFind, EnqPut, EnqForeign, EnqExit,
              CleanFails, AutoStartFails, StartRaises, EnqAbandon
<1>2. ASSUME NEW m \in Mgr, NEW j \in Job, CleanStray(m, j) PROVE FALSE
  BY <1>2 DEF CleanStray
<1>3. ASSUME NEW j \in Job, SubmitRegister(j) \/ Submit(j) \/ SubmitStartFails(j)
      PROVE  FALSE
  BY <1>3 DEF SubmitRegister, Submit, SubmitInsert, SubmitFails, SubmitCheck, SubmitStart,
              SubmitStartFails, StartRaises
<1>4. ASSUME NEW m \in Mgr, NEW t \in Task, WorkerStep(m, t) PROVE FALSE
  BY <1>4 DEF WorkerStep, WorkerInit, WorkerTake, TakeUncached, WorkerLaunch, LaunchFails,
              WorkerFinish
<1>5. ASSUME NEW m \in Mgr, NEW g \in Gen, StatusStep(m, g) PROVE FALSE
  BY <1>5 DEF StatusStep, StatusDecide, StopBegin, StopWorker, StopEnd
<1>6. CASE UNCHANGED vars
  BY <1>6 DEF vars
<1> QED
  BY <1>1, <1>2, <1>3, <1>4, <1>5, <1>6 DEF Next, Fails

\* What a manager tracks, has read, is to clean up or has let slip was
\* inserted.
LEMMA NextKnown == IInv /\ KnownInv /\ [Next]_vars => KnownInv'
<1>s. ASSUME IInv, KnownInv, [Next]_vars, NEW j \in slipped' PROVE row'[j] # "none"
  <2>1. CASE j \in slipped
    BY <1>s, <2>1, RowStays DEF KnownInv, IInv, TypeOK
  <2>2. CASE j \notin slipped
    <3>1. PICK m \in Mgr, i \in Job : EnqSlip(m, i)
      BY <1>s, <2>2, SlippedByPut
    <3>2. i = j /\ i \in batch[m]
      BY <2>2, <3>1, <1>s DEF EnqSlip, Put
    <3> QED
      BY <1>s, <3>2, RowStays DEF KnownInv
  <2> QED
    BY <2>1, <2>2
<1> SUFFICES ASSUME IInv, KnownInv, [Next]_vars, NEW m \in Mgr, NEW j \in Job
             PROVE  /\ j \in batch'[m] \cup stray'[m] => row'[j] # "none"
                    /\ j \in pend'[m] /\ Submitted(j)' => row'[j] # "none"
  BY <1>s DEF KnownInv
<1> DEFINE Known == /\ j \in batch'[m] \cup stray'[m] => row'[j] # "none"
                    /\ j \in pend'[m] /\ Submitted(j)' => row'[j] # "none"
<1>0. TypeOK
  BY DEF IInv
<1>1. CASE UNCHANGED <<batch, stray, pend, call>>
  BY <1>1, KnownKept
<1>2. ASSUME NEW n \in Mgr, Construct(n) PROVE Known
  <2>1. \A i \in stray'[m] : i \in stray[m] \/ row[i] # "none"
    BY <1>0, <1>2 DEF Construct, TypeOK, Unsettled
  <2> QED
    BY <1>2, <2>1, RowStays DEF Construct, KnownInv, mgrVars, jobVars, enqVars, Submitted
<1>3. ASSUME NEW n \in Mgr, NEW i \in Job,
             CleanStray(n, i) \/ EnqPut(n, i) \/ EnqSlip(n, i) \/ EnqForeign(n, i)
      PROVE  Known
  <2>1. /\ batch'[m] \subseteq batch[m] /\ stray'[m] \subseteq stray[m]
        /\ UNCHANGED <<pend, call>>
    <3>1. CASE CleanStray(n, i)
      BY <1>0, <3>1 DEF CleanStray, TypeOK, jobVars, mgrVars, enqVars
    <3>2. CASE EnqPut(n, i) \/ EnqSlip(n, i)
      <4>1. Put(n, i)
        BY <3>2 DEF EnqPut, EnqSlip
      <4>2. batch' = [batch EXCEPT ![n] = @ \ {i}] /\ UNCHANGED <<stray, pend, call>>
        BY <4>1 DEF Put, mgrVars
      <4> QED
        BY <1>0, <4>2 DEF TypeOK
    <3>3. CASE EnqForeign(n, i)
      BY <1>0, <3>3 DEF EnqForeign, TypeOK, jobVars, mgrVars
    <3> QED
      BY <1>3, <3>1, <3>2, <3>3
  <2> QED
    BY <2>1, KnownKept
<1>4. ASSUME NEW n \in Mgr, EnqFind(n) PROVE Known
  <2>1. \A i \in batch'[m] : i \in batch[m] \/ row[i] # "none"
    BY <1>0, <1>4 DEF EnqFind, Queueable, TypeOK
  <2> QED
    BY <1>4, <2>1, RowStays DEF EnqFind, KnownInv, mgrVars, jobVars, Submitted
<1>5. ASSUME NEW i \in Job, SubmitRegister(i) PROVE Known
  <2>1. CASE j = i
    <3>1. call'[j] = "registered" /\ UNCHANGED <<batch, stray>>
      BY <1>0, <1>5, <2>1 DEF SubmitRegister, TypeOK, enqVars
    <3> QED
      BY <3>1, RowStays DEF KnownInv, Submitted
  <2>2. CASE j # i
    <3>1. /\ UNCHANGED <<batch, stray>> /\ call'[j] = call[j]
          /\ j \in pend'[m] => j \in pend[m]
      BY <1>0, <1>5, <2>2 DEF SubmitRegister, TypeOK, enqVars
    <3> QED
      BY <3>1, RowStays DEF KnownInv, Submitted
  <2> QED
    BY <2>1, <2>2
<1>6. ASSUME NEW i \in Job, SubmitInsert(i) PROVE Known
  <2>1. CASE j = i
    BY <1>0, <1>6, <2>1 DEF SubmitInsert, TypeOK
  <2>2. CASE j # i
    <3>1. UNCHANGED <<batch, stray, pend>> /\ call'[j] = call[j]
      BY <1>0, <1>6, <2>2 DEF SubmitInsert, TypeOK, enqVars
    <3> QED
      BY <3>1, KnownKept
  <2> QED
    BY <2>1, <2>2
<1>7. ASSUME NEW i \in Job, SubmitFails(i) PROVE Known
  <2>1. CASE j = i
    <3>1. j \notin pend'[m]
      <4>1. j \in pend[m] => Home[j] = m
        BY DEF IInv, PendInv
      <4> QED
        BY <1>0, <1>7, <2>1, <4>1 DEF SubmitFails, TypeOK
    <3>2. UNCHANGED <<batch, stray>>
      BY <1>7 DEF SubmitFails, enqVars
    <3> QED
      BY <3>1, <3>2, RowStays DEF KnownInv
  <2>2. CASE j # i
    <3>1. /\ UNCHANGED <<batch, stray>> /\ call'[j] = call[j]
          /\ pend'[m] \subseteq pend[m]
      BY <1>0, <1>7, <2>2 DEF SubmitFails, TypeOK, enqVars
    <3> QED
      BY <3>1, KnownKept
  <2> QED
    BY <2>1, <2>2
<1>8. ASSUME NEW i \in Job, SubmitCheck(i) \/ SubmitStart(i) \/ SubmitStartFails(i) PROVE Known
  <2>1. /\ UNCHANGED <<batch, stray, pend>>
        /\ call[j] = "registered" => call'[j] = call[j]
    BY <1>0, <1>8 DEF SubmitCheck, SubmitStart, SubmitStartFails, StartRaises, TypeOK, mgrVars,
       enqVars
  <2> QED
    BY <2>1, KnownKept
<1>9. ASSUME NEW n \in Mgr, NEW t \in Task, Release(n, t), UNCHANGED <<batch, stray, call>>
      PROVE  Known
  <2>1. pend'[m] \subseteq pend[m]
    BY <1>0, <1>9 DEF Release, TypeOK
  <2> QED
    BY <1>9, <2>1, KnownKept
<1>10. ASSUME NEW n \in Mgr, NEW t \in Task,
              LaunchFails(n, t) \/ \E ok \in BOOLEAN : WorkerFinish(n, t, ok)
       PROVE  Known
  BY <1>9, <1>10, VerdictParts
<1>11. ASSUME NEW n \in Mgr, NEW g \in Gen, StopWorker(n, g) PROVE Known
  <2>1. UNCHANGED <<batch, stray, call>>
    BY <1>11 DEF StopWorker, enqVars, jobVars
  <2>2. wlist[n][idx[n][g]] \in Task
    BY <1>0, <1>11 DEF StopWorker, TypeOK
  <2> QED
    BY <1>1, <1>9, <1>11, <2>1, <2>2 DEF StopWorker
<1>12. ASSUME NEW n \in Mgr, Crash(n) PROVE Known
  <2>1. /\ batch'[m] \subseteq batch[m] /\ stray'[m] \subseteq stray[m]
        /\ pend'[m] = IF m = n THEN {} ELSE pend[m]
    BY <1>0, <1>12 DEF Crash, TypeOK
  <2>2. j \in pend'[m] => call'[j] = call[j]
    <3>1. j \in pend[m] => Home[j] = m
      BY DEF IInv, PendInv
    <3> QED
      BY <1>0, <1>12, <2>1, <3>1 DEF Crash, TypeOK
  <2> QED
    BY <2>1, <2>2, RowStays DEF KnownInv, Submitted
<1>13. ASSUME NEW n \in Mgr, AutoStart(n) \/ AutoStartFails(n) \/ \E g \in Gen : EnqExit(n, g)
       PROVE  Known
  BY <1>1, <1>13 DEF AutoStart, AutoStartFails, StartRaises, EnqExit, jobVars, mgrVars, enqVars
<1>14. ASSUME NEW n \in Mgr, NEW t \in Task,
              \/ WorkerInit(n, t) \/ WorkerTake(n, t) \/ TakeUncached(n, t)
              \/ WorkerLaunch(n, t)
       PROVE  Known
  BY <1>1, <1>14 DEF WorkerInit, WorkerTake, TakeUncached, WorkerLaunch, jobVars, mgrVars, enqVars
<1>15. ASSUME NEW n \in Mgr, NEW g \in Gen,
              StatusDecide(n, g) \/ StopBegin(n, g) \/ StopEnd(n, g)
       PROVE  Known
  BY <1>1, <1>15 DEF StatusDecide, StopBegin, StopEnd, jobVars, mgrVars, enqVars
<1>16. CASE UNCHANGED vars
  BY <1>1, <1>16 DEF vars, jobVars, mgrVars, enqVars
<1>17. ASSUME NEW n \in Mgr, CleanFails(n) \/ EnqAbandon(n) PROVE Known
  <2>1. /\ batch'[m] \subseteq batch[m] /\ stray'[m] \subseteq stray[m]
        /\ UNCHANGED <<pend, call>>
    BY <1>0, <1>17 DEF CleanFails, EnqAbandon, TypeOK, jobVars, mgrVars, enqVars
  <2> QED
    BY <2>1, KnownKept
<1> QED
  BY <1>2, <1>3, <1>4, <1>5, <1>6, <1>7, <1>8, <1>10, <1>11, <1>12, <1>13, <1>14, <1>15, <1>16,
     <1>17
     DEF Next, Submit, Enqueue, Fails, WorkerStep, StatusStep

-----------------------------------------------------------------------------
(* The simulation                                                          *)

\* A write to one row, seen through JobStatus.
LEMMA StatusWritten ==
  ASSUME TypeOK, NEW j \in Job, NEW v, row' = [row EXCEPT ![j] = v]
  PROVE  JobStatus' = [JobStatus EXCEPT ![j] = IF v \in Unsettled THEN "open" ELSE v]
<1>1. \A i \in Job : row'[i] = IF i = j THEN v ELSE row[i]
  BY DEF TypeOK
<1> DEFINE w == IF v \in Unsettled THEN "open" ELSE v
<1>2. JobStatus' = [i \in Job |-> IF row'[i] \in Unsettled THEN "open" ELSE row'[i]]
  BY DEF JobStatus
<1>3. [JobStatus EXCEPT ![j] = w] = [i \in Job |-> IF i = j THEN w ELSE JobStatus[i]]
  BY DEF JobStatus
<1>4. \A i \in Job : (IF row'[i] \in Unsettled THEN "open" ELSE row'[i])
                       = (IF i = j THEN w ELSE JobStatus[i])
  BY <1>1 DEF JobStatus
<1> HIDE DEF w
<1>5. JobStatus' = [JobStatus EXCEPT ![j] = w]
  BY <1>2, <1>3, <1>4
<1> QED
  BY <1>5 DEF w

\* Writing "enqueued" or "in-progress" to the row of a job that is still to be
\* settled is a stutter, or takes up again what another manager has failed; a
\* job queued twice is worked on again.
LEMMA OpenWritten ==
  ASSUME TypeOK, DoneInv, NEW j \in Job, NEW v \in {"enqueued", "in-progress"},
         row[j] # "none", fut[j] = "waiting" \/ j \in slipped,
         row' = [row EXCEPT ![j] = v], UNCHANGED <<fut, slipped, unwritten>>
  PROVE  [Promise!Next]_(Promise!vars)
<1>1. JobStatus' = [JobStatus EXCEPT ![j] = "open"] /\ Lapsed' = Lapsed
  BY StatusWritten DEF Unsettled, Lapsed
<1>2. CASE j \in slipped
  <2>1. Promise!Rework(j)
    BY <1>1, <1>2 DEF Promise!Rework, Lapsed
  <2> QED
    BY <2>1 DEF Promise!Next
<1>3. CASE fut[j] = "waiting" /\ row[j] \in Unsettled
  <2>1. JobStatus[j] = "open"
    BY <1>3 DEF JobStatus
  <2>2. JobStatus' = JobStatus
    BY <1>1, <2>1 DEF JobStatus
  <2> QED
    BY <1>1, <2>2 DEF Promise!vars
<1>4. CASE fut[j] = "waiting" /\ row[j] \notin Unsettled
  <2>1. row[j] = "failed"
    BY <1>4 DEF TypeOK, RowStatus, DoneInv, Unsettled
  <2>2. JobStatus[j] = "failed"
    BY <2>1 DEF JobStatus, Unsettled
  <2>3. Promise!Reopen(j)
    BY <1>1, <1>4, <2>2 DEF Promise!Reopen
  <2> QED
    BY <2>3 DEF Promise!Next
<1> QED
  BY <1>2, <1>3, <1>4

\* A write that fails changes neither what the row says nor the future.
LEMMA LapseSeen ==
  ASSUME NEW j \in Job, row[j] # "none", UNCHANGED <<row, fut>>, Lapsed' = Lapsed \cup {j}
  PROVE  Promise!Next
<1>1. JobStatus' = JobStatus /\ JobStatus[j] # "none"
  BY DEF JobStatus
<1>2. Promise!Lapse(j)
  BY <1>1 DEF Promise!Lapse
<1> QED
  BY <1>2 DEF Promise!Next

\* A worker's verdict is the promise's, seen or unseen.
LEMMA VerdictSeen ==
  ASSUME TypeOK, NEW j \in Job, row[j] # "none", NEW ok \in BOOLEAN, NEW wrote \in BOOLEAN,
         Settle(j, ok, wrote), UNCHANGED slipped
  PROVE  Promise!Next
<1>1. fut[j] = "waiting" /\ fut' = [fut EXCEPT ![j] = IF ok THEN "result" ELSE "error"]
  BY DEF Settle
<1>2. JobStatus[j] # "none"
  BY DEF JobStatus
<1>3. CASE wrote
  <2>1. Lapsed' = Lapsed /\ row' = [row EXCEPT ![j] = IF ok THEN "completed" ELSE "failed"]
    BY <1>3 DEF Settle, Lapsed
  <2>2. JobStatus' = [JobStatus EXCEPT ![j] = IF ok THEN "completed" ELSE "failed"]
    <3>1. CASE ok
      <4>1. row' = [row EXCEPT ![j] = "completed"]
        BY <2>1, <3>1
      <4> QED
        BY <3>1, <4>1, StatusWritten DEF Unsettled
    <3>2. CASE ~ok
      <4>1. row' = [row EXCEPT ![j] = "failed"]
        BY <2>1, <3>2
      <4> QED
        BY <3>2, <4>1, StatusWritten DEF Unsettled
    <3> QED
      BY <3>1, <3>2
  <2>3. Promise!Settle(j, ok)
    BY <1>1, <1>2, <2>1, <2>2 DEF Promise!Settle
  <2> QED
    BY <2>3 DEF Promise!Next
<1>4. CASE ~wrote
  <2>1. row' = row /\ Lapsed' = Lapsed \cup {j}
    BY <1>4 DEF Settle, Lapsed
  <2>2. UNCHANGED JobStatus
    BY <2>1 DEF JobStatus
  <2>3. Promise!SettleUnseen(j, ok)
    BY <1>1, <1>2, <2>1, <2>2 DEF Promise!SettleUnseen
  <2> QED
    BY <2>3 DEF Promise!Next
<1> QED
  BY <1>3, <1>4

\* Every step of the queue is a step its callers may see, or a stutter.
LEMMA NextPromise ==
  ASSUME IInv, PInv, [Next]_vars
  PROVE  [Promise!Next]_(Promise!vars)
<1>0. TypeOK /\ DoneInv /\ \A j \in Job : row[j] = "none" => JobStatus[j] = "none"
  BY DEF IInv, PInv, JobStatus, Unsettled
<1>1. CASE UNCHANGED <<row, fut, slipped, unwritten>>
  <2>1. UNCHANGED <<JobStatus, fut, Lapsed>>
    BY <1>1 DEF JobStatus, Lapsed
  <2> QED
    BY <2>1 DEF Promise!vars
<1>2. ASSUME NEW j \in Job, SubmitRegister(j) PROVE Promise!Next
  <2>1. /\ row[j] = "none" /\ fut[j] = "none"
        /\ fut' = [fut EXCEPT ![j] = "waiting"] /\ UNCHANGED <<row, slipped, unwritten>>
    BY <1>2 DEF SubmitRegister, IInv, RowInv, PInv, CallInv, Submitted, lapseVars
  <2>2. UNCHANGED <<JobStatus, Lapsed>>
    BY <2>1 DEF JobStatus, Lapsed
  <2> QED
    BY <1>0, <2>1, <2>2 DEF Promise!Next, Promise!Offer
<1>3. ASSUME NEW j \in Job, SubmitInsert(j) PROVE Promise!Next
  <2>1. /\ row[j] = "none" /\ fut[j] = "waiting"
        /\ row' = [row EXCEPT ![j] = "pending"] /\ UNCHANGED <<fut, slipped, unwritten>>
    BY <1>3 DEF SubmitInsert, IInv, RowInv, PInv, CallInv, Submitted, lapseVars
  <2>2. JobStatus' = [JobStatus EXCEPT ![j] = "open"] /\ Lapsed' = Lapsed
    BY <1>0, <2>1, StatusWritten DEF Unsettled, Lapsed
  <2> QED
    BY <1>0, <2>1, <2>2 DEF Promise!Next, Promise!Accept
<1>4. ASSUME NEW j \in Job, SubmitFails(j) PROVE Promise!Next
  <2>1. /\ row[j] = "none" /\ fut[j] = "waiting"
        /\ fut' = [fut EXCEPT ![j] = "error"] /\ UNCHANGED <<row, slipped, unwritten>>
    BY <1>4 DEF SubmitFails, IInv, RowInv, PInv, CallInv, Submitted, lapseVars
  <2>2. UNCHANGED <<JobStatus, Lapsed>>
    BY <2>1 DEF JobStatus, Lapsed
  <2> QED
    BY <1>0, <2>1, <2>2 DEF Promise!Next, Promise!Refuse
<1>5. ASSUME NEW m \in Mgr, NEW j \in Job, CleanStray(m, j) \/ EnqForeign(m, j)
      PROVE  Promise!Next
  <2>1. /\ row[j] # "none" /\ UNCHANGED <<fut, slipped, unwritten>>
        /\ row' = [row EXCEPT ![j] = "failed"]
    BY <1>5 DEF CleanStray, EnqForeign, PInv, KnownInv, jobVars, lapseVars
  <2>2. JobStatus' = [JobStatus EXCEPT ![j] = "failed"] /\ JobStatus[j] # "none"
    BY <1>0, <2>1, StatusWritten DEF Unsettled, JobStatus
  <2> QED
    BY <2>1, <2>2 DEF Promise!Next, Promise!Spoil, Lapsed
<1>6. ASSUME NEW m \in Mgr, NEW j \in Job, EnqPut(m, j)
      PROVE  [Promise!Next]_(Promise!vars)
  <2>1. /\ row[j] # "none" /\ UNCHANGED <<fut, slipped, unwritten>>
        /\ row' = [row EXCEPT ![j] = "enqueued"]
        /\ fut[j] = "waiting" \/ j \in slipped
    BY <1>6 DEF EnqPut, Put, IInv, BatchInv, PInv, KnownInv, lapseVars
  <2> QED
    BY <1>0, <2>1, OpenWritten
<1>7. ASSUME NEW m \in Mgr, NEW j \in Job, EnqSlip(m, j) PROVE Promise!Next
  <2>1. row[j] # "none" /\ UNCHANGED <<row, fut>> /\ Lapsed' = Lapsed \cup {j}
    BY <1>7 DEF EnqSlip, Put, PInv, KnownInv, Lapsed
  <2> QED
    BY <2>1, LapseSeen
<1>8. ASSUME NEW m \in Mgr, NEW j,
             \/ \E t \in Task : Holds(m, t) /\ j = wjob[m][t]
             \/ queue[m] # <<>> /\ j = Head(queue[m])
      PROVE  j \in Job /\ row[j] # "none" /\ (fut[j] = "waiting" \/ j \in slipped)
  <2>1. j \in Job /\ Submitted(j) /\ (j \notin slipped => Fresh(m, j))
    BY <1>8, InHand
  <2>2. row[j] # "none"
    BY <2>1 DEF Fresh, PInv, KnownInv
  <2> QED
    BY <2>1, <2>2 DEF Fresh
<1>9. ASSUME NEW m \in Mgr, NEW t \in Task, WorkerLaunch(m, t)
      PROVE  [Promise!Next]_(Promise!vars)
  <2> DEFINE j == wjob[m][t]
  <2>1. j \in Job /\ row[j] # "none" /\ (fut[j] = "waiting" \/ j \in slipped)
    BY <1>8, <1>9 DEF WorkerLaunch, Holds
  <2>2. UNCHANGED <<fut, slipped, unwritten>> /\ row' = [row EXCEPT ![j] = "in-progress"]
    BY <1>9 DEF WorkerLaunch, jobVars, lapseVars
  <2> QED
    BY <1>0, <2>1, <2>2, OpenWritten
<1>10. ASSUME NEW m \in Mgr, NEW t \in Task,
              LaunchFails(m, t) \/ \E ok \in BOOLEAN : WorkerFinish(m, t, ok)
       PROVE  [Promise!Next]_(Promise!vars)
  <2> DEFINE j == wjob[m][t]
  <2>1. j \in Job /\ row[j] # "none" /\ UNCHANGED slipped
    BY <1>8, <1>10, VerdictParts
  <2>2. PICK ok \in BOOLEAN, wrote \in BOOLEAN : Settle(j, ok, wrote) \/ SettledBefore(j)
    BY <1>10, VerdictParts
  <2>3. CASE Settle(j, ok, wrote)
    BY <1>0, <2>1, <2>3, VerdictSeen
  <2>4. CASE SettledBefore(j)
    BY <1>1, <2>1, <2>4 DEF SettledBefore
  <2> QED
    BY <2>2, <2>3, <2>4
<1>11. ASSUME NEW m \in Mgr, NEW t \in Task, TakeUncached(m, t)
       PROVE  [Promise!Next]_(Promise!vars)
  <2> DEFINE j == Head(queue[m])
  <2>1. j \in Job /\ row[j] # "none" /\ (fut[j] = "waiting" \/ j \in slipped)
    BY <1>8, <1>11 DEF TakeUncached
  <2>2. JobStatus[j] # "none"
    BY <2>1 DEF JobStatus
  <2>3. CASE unwritten' = unwritten \cup {j} /\ UNCHANGED <<row, fut>>
    <3>1. Lapsed' = Lapsed \cup {j}
      BY <1>11, <2>3 DEF TakeUncached, Lapsed
    <3> QED
      BY <2>1, <2>3, <3>1, LapseSeen
  <2>4. CASE /\ row' = [row EXCEPT ![j] = "failed"] /\ UNCHANGED unwritten
             /\ fut' = [fut EXCEPT ![j] = IF @ = "waiting" THEN "error" ELSE @]
    <3>1. JobStatus' = [JobStatus EXCEPT ![j] = "failed"]
      BY <1>0, <2>1, <2>4, StatusWritten DEF Unsettled
    <3>2. Lapsed' = Lapsed
      BY <1>11, <2>4 DEF TakeUncached, Lapsed
    <3>3. CASE fut[j] = "waiting"
      <4>1. fut' = [fut EXCEPT ![j] = "error"]
        BY <2>4, <3>3
      <4>2. Promise!Settle(j, FALSE)
        BY <2>2, <3>1, <3>2, <3>3, <4>1 DEF Promise!Settle
      <4> QED
        BY <2>1, <4>2 DEF Promise!Next
    <3>4. CASE fut[j] # "waiting"
      <4>1. fut' = fut
        BY <1>0, <2>4, <3>4 DEF TypeOK
      <4>2. Promise!Rework(j)
        BY <2>1, <3>1, <3>2, <3>4, <4>1 DEF Promise!Rework, Lapsed
      <4> QED
        BY <2>1, <4>2 DEF Promise!Next
    <3> QED
      BY <3>3, <3>4
  <2> QED
    BY <1>11, <2>3, <2>4 DEF TakeUncached
<1> DEFINE Unseen == UNCHANGED <<row, fut, slipped, unwritten>>
<1>12. ASSUME NEW m \in Mgr, Construct(m) \/ AutoStart(m) \/ Crash(m) \/ EnqFind(m) PROVE Unseen
  BY <1>12 DEF Construct, AutoStart, Crash, EnqFind, jobVars, lapseVars
<1>13. ASSUME NEW m \in Mgr, NEW g \in Gen, EnqExit(m, g) \/ StatusStep(m, g) PROVE Unseen
  BY <1>13 DEF EnqExit, StatusStep, StatusDecide, StopBegin, StopWorker, StopEnd, jobVars, lapseVars
<1>14. ASSUME NEW j \in Job, SubmitCheck(j) \/ SubmitStart(j) \/ SubmitStartFails(j) PROVE Unseen
  BY <1>14 DEF SubmitCheck, SubmitStart, SubmitStartFails, StartRaises, lapseVars
<1>15. ASSUME NEW m \in Mgr, NEW t \in Task, WorkerInit(m, t) \/ WorkerTake(m, t) PROVE Unseen
  BY <1>15 DEF WorkerInit, WorkerTake, jobVars, lapseVars
<1>16. ASSUME NEW m \in Mgr, CleanFails(m) \/ AutoStartFails(m) \/ EnqAbandon(m) PROVE Unseen
  BY <1>16 DEF CleanFails, AutoStartFails, StartRaises, EnqAbandon, jobVars
<1>17. CASE UNCHANGED vars
  BY <1>1, <1>17 DEF vars, jobVars, lapseVars
<1>18. CASE Unseen
  BY <1>1, <1>18
<1> HIDE DEF Unseen
<1>19. CASE ~Unseen /\ Next
  BY <1>2, <1>3, <1>4, <1>5, <1>6, <1>7, <1>9, <1>10, <1>11, <1>12, <1>13, <1>14, <1>15, <1>16,
     <1>19
     DEF Next, Submit, Enqueue, Fails, WorkerStep
<1> QED
  BY <1>17, <1>18, <1>19

\* A row that reads "completed" has its result: the promise itself keeps that.
LEMMA NextDone ==
  ASSUME TypeOK, DoneInv, TypeOK', [Promise!Next]_(Promise!vars)
  PROVE  DoneInv'
<1>1. \A j \in Job : /\ JobStatus[j] = "completed" <=> row[j] = "completed"
                     /\ JobStatus'[j] = "completed" <=> row'[j] = "completed"
  BY DEF JobStatus, Unsettled
<1>2. DOMAIN JobStatus = Job /\ DOMAIN fut = Job
  BY DEF JobStatus, TypeOK
<1>3. \A j \in Job : JobStatus[j] = "completed" => fut[j] = "result"
  BY <1>1 DEF DoneInv
<1>4. ASSUME NEW j \in Job, NEW i \in Job, JobStatus'[i] = "completed",
             \/ Promise!Offer(j) \/ Promise!Accept(j) \/ Promise!Refuse(j) \/ Promise!Lapse(j)
             \/ Promise!Spoil(j) \/ Promise!Reopen(j)
      PROVE  fut'[i] = "result"
  BY <1>2, <1>3, <1>4 DEF Promise!Offer, Promise!Accept, Promise!Refuse, Promise!Lapse,
     Promise!Spoil, Promise!Reopen
<1>7. ASSUME NEW j \in Job, Promise!Rework(j), NEW i \in Job, JobStatus'[i] = "completed"
      PROVE  fut'[i] = "result"
  <2>1. PICK s \in {"open", "failed"} : JobStatus' = [JobStatus EXCEPT ![j] = s] /\ fut' = fut
    BY <1>7 DEF Promise!Rework
  <2> QED
    BY <1>2, <1>3, <1>7, <2>1
<1>8. ASSUME NEW j \in Job, NEW ok \in BOOLEAN, Promise!SettleUnseen(j, ok), NEW i \in Job,
             JobStatus'[i] = "completed"
      PROVE  fut'[i] = "result"
  <2>1. JobStatus' = JobStatus /\ fut[j] = "waiting" /\ \E v : fut' = [fut EXCEPT ![j] = v]
    BY <1>8 DEF Promise!SettleUnseen
  <2>2. fut[i] = "result" /\ i # j
    BY <1>3, <1>8, <2>1
  <2> QED
    BY <1>2, <2>1, <2>2
<1>5. ASSUME NEW j \in Job, NEW ok \in BOOLEAN, Promise!Settle(j, ok), NEW i \in Job,
             JobStatus'[i] = "completed"
      PROVE  fut'[i] = "result"
  <2>1. CASE ok
    BY <1>2, <1>3, <1>5, <2>1 DEF Promise!Settle
  <2>2. CASE ~ok
    BY <1>2, <1>3, <1>5, <2>2 DEF Promise!Settle
  <2> QED
    BY <2>1, <2>2
<1>6. CASE UNCHANGED Promise!vars
  BY <1>1, <1>3, <1>6 DEF Promise!vars, DoneInv
<1> QED
  BY <1>1, <1>4, <1>5, <1>6, <1>7, <1>8 DEF Promise!Next, DoneInv

-----------------------------------------------------------------------------
\* LlmQueue implements LlmPromise.
THEOREM QueueKeepsPromise == Spec => KeepsPromise
<1>1. Init => PInv /\ Promise!Init
  <2> SUFFICES ASSUME Init PROVE PInv /\ Promise!Init
    OBVIOUS
  <2>1. PInv
    BY DEF Init, PInv, CallInv, DoneInv, KnownInv
  <2>2. Promise!Init
    BY DEF Init, Promise!Init, JobStatus, Unsettled, Lapsed
  <2> QED
    BY <2>1, <2>2
<1>2. IInv /\ IInv' /\ PInv /\ [Next]_vars => PInv' /\ [Promise!Next]_(Promise!vars)
  <2> SUFFICES ASSUME IInv, IInv', PInv, [Next]_vars
               PROVE  PInv' /\ [Promise!Next]_(Promise!vars)
    OBVIOUS
  <2>1. [Promise!Next]_(Promise!vars)
    BY NextPromise
  <2>2. CallInv' /\ KnownInv'
    BY NextCallInv, NextKnown DEF PInv
  <2>3. DoneInv'
    BY <2>1, NextDone DEF IInv, PInv
  <2> QED
    BY <2>1, <2>2, <2>3 DEF PInv
<1> QED
  BY <1>1, <1>2, Inductive, PTL DEF Spec, KeepsPromise, Promise!Spec

\* A future that has its result or its error keeps it, whatever other managers
\* do to the row and however often the job is taken up again: of set_result and
\* set_exception one takes effect at most, the others raise InvalidStateError.
SettledOnce == [][\A j \in Job : fut[j] \in {"result", "error"} => fut'[j] = fut[j]]_vars

THEOREM FuturesSettleOnce == Spec => SettledOnce
<1>1. TypeOK /\ [Promise!Next]_(Promise!vars)
        => \A j \in Job : fut[j] \in {"result", "error"} => fut'[j] = fut[j]
  <2> SUFFICES ASSUME TypeOK, [Promise!Next]_(Promise!vars),
                      NEW j \in Job, fut[j] \in {"result", "error"}
               PROVE  fut'[j] = fut[j]
    OBVIOUS
  <2>1. ASSUME NEW i \in Job, fut[i] \in {"none", "waiting"},
               NEW v, fut' = [fut EXCEPT ![i] = v]
        PROVE  fut'[j] = fut[j]
    BY <2>1 DEF TypeOK
  <2>2. ASSUME NEW i \in Job, Promise!Offer(i) \/ Promise!Refuse(i) PROVE fut'[j] = fut[j]
    BY <2>1, <2>2 DEF Promise!Offer, Promise!Refuse
  <2>3. ASSUME NEW i \in Job, NEW ok \in BOOLEAN,
               Promise!Settle(i, ok) \/ Promise!SettleUnseen(i, ok)
        PROVE  fut'[j] = fut[j]
    BY <2>1, <2>3 DEF Promise!Settle, Promise!SettleUnseen
  <2>4. ASSUME NEW i \in Job,
               \/ Promise!Accept(i) \/ Promise!Lapse(i) \/ Promise!Rework(i)
               \/ Promise!Spoil(i) \/ Promise!Reopen(i)
        PROVE  fut'[j] = fut[j]
    BY <2>4 DEF Promise!Accept, Promise!Lapse, Promise!Rework, Promise!Spoil, Promise!Reopen
  <2>5. CASE UNCHANGED Promise!vars
    BY <2>5 DEF Promise!vars
  <2> QED
    BY <2>2, <2>3, <2>4, <2>5 DEF Promise!Next
<1> QED
  BY <1>1, QueueKeepsPromise, TypeCorrect, PTL DEF KeepsPromise, Promise!Spec, SettledOnce

-----------------------------------------------------------------------------
(* A manager of its own: the whole promise                                 *)

\* No second manager shares the table, and the process does not die.
Alone == MaxCrash = 0 /\ \A m, n \in Mgr : m = n

\* Until it is up there are no rows, so it finds none that is not its own.
NewInv == \A m \in Mgr : /\ stray[m] = {}
                         /\ up[m] # "up" => \A j \in Job : row[j] = "none"

\* Nobody writes to a row between the enqueue loop's query and its put.
ReadInv == \A m \in Mgr : \A j \in batch[m] : row[j] = "pending"

\* A job that waits to be queued for the first time is still tracked.
WaitInv == \A j \in Job :
             call[j] = "registered" \/ (row[j] = "pending" /\ j \notin Lapsed)
               => j \in pend[Home[j]]

\* The row of a job whose writes get through is settled when its future is, and
\* the same way.
AgreeInv == \A j \in Job \ Lapsed :
              /\ row[j] \in Unsettled => fut[j] = "waiting"
              /\ row[j] = "failed" => fut[j] = "error"

SoloInv == NewInv /\ ReadInv /\ WaitInv /\ AgreeInv

\* None of the steps that disturb another manager's rows can be taken, but for
\* jobs whose own writes have failed.
LEMMA Undisturbing ==
  ASSUME Alone, IInv, SoloInv, NEW m \in Mgr
  PROVE  /\ ~Crash(m)
         /\ \A j \in Job : ~CleanStray(m, j) /\ (EnqForeign(m, j) => j \in Lapsed)
<1>0. TypeOK
  BY DEF IInv
<1>1. ~Crash(m)
  BY <1>0 DEF Alone, Crash, TypeOK
<1>2. ASSUME NEW j \in Job PROVE ~CleanStray(m, j)
  BY DEF SoloInv, NewInv, CleanStray
<1>3. ASSUME NEW j \in Job, EnqForeign(m, j) PROVE j \in Lapsed
  <2>1. Home[j] = m
    BY QueueAssumption DEF QueueAssumption, Alone
  <2> QED
    BY <1>3, <2>1 DEF SoloInv, ReadInv, WaitInv, EnqForeign
<1> QED
  BY <1>1, <1>2, <1>3

LEMMA NextNew ==
  ASSUME Alone, IInv, SoloInv, [Next]_vars
  PROVE  NewInv'
<1> SUFFICES ASSUME NEW m \in Mgr
             PROVE  /\ stray'[m] = {}
                    /\ up'[m] # "up" => \A j \in Job : row'[j] = "none"
  BY DEF NewInv
<1> DEFINE New == /\ stray'[m] = {}
                  /\ up'[m] # "up" => \A j \in Job : row'[j] = "none"
<1>0. TypeOK /\ stray[m] = {} /\ (up[m] # "up" => \A j \in Job : row[j] = "none")
  BY DEF IInv, SoloInv, NewInv
<1>1. CASE UNCHANGED <<row, stray, up>>
  BY <1>0, <1>1
<1>2. CASE up[m] = "up" /\ UNCHANGED <<stray, up>>
  BY <1>0, <1>2
<1>3. ASSUME NEW n \in Mgr, Construct(n) PROVE New
  <2>1. n = m /\ up[m] = "off" /\ row' = row
        /\ stray' = [stray EXCEPT ![m] = {j \in Job : row[j] \in Unsettled}]
    BY <1>3 DEF Construct, Alone
  <2>2. {j \in Job : row[j] \in Unsettled} = {}
    BY <1>0, <2>1 DEF Unsettled
  <2> QED
    BY <1>0, <2>1, <2>2 DEF TypeOK
<1>4. ASSUME NEW n \in Mgr, AutoStart(n) \/ AutoStartFails(n) PROVE New
  <2>1. n = m /\ up' = [up EXCEPT ![m] = "up"] /\ stray' = stray
    BY <1>4 DEF AutoStart, AutoStartFails, Alone
  <2> QED
    BY <1>0, <2>1 DEF TypeOK
<1>5. ASSUME NEW j \in Job, SubmitInsert(j) PROVE New
  <2>1. Home[j] = m
    BY QueueAssumption DEF QueueAssumption, Alone
  <2> QED
    BY <1>2, <1>5, <2>1 DEF SubmitInsert
<1>6. ASSUME NEW j \in Job,
             \/ SubmitRegister(j) \/ SubmitFails(j) \/ SubmitCheck(j) \/ SubmitStart(j)
             \/ SubmitStartFails(j)
      PROVE  New
  BY <1>1, <1>6 DEF SubmitRegister, SubmitFails, SubmitCheck, SubmitStart, SubmitStartFails, mgrVars
<1>7. ASSUME NEW n \in Mgr, NEW j \in Job, EnqPut(n, j) \/ EnqSlip(n, j) \/ EnqForeign(n, j)
      PROVE  New
  <2>1. n = m
    BY DEF Alone
  <2> QED
    BY <1>2, <1>7, <2>1 DEF EnqPut, EnqSlip, Put, EnqForeign, mgrVars
<1>8. ASSUME NEW n \in Mgr, EnqFind(n) \/ EnqAbandon(n) \/ \E g \in Gen : EnqExit(n, g) PROVE New
  BY <1>1, <1>8 DEF EnqFind, EnqAbandon, EnqExit, mgrVars
<1>9. ASSUME NEW n \in Mgr, NEW t \in Task, WorkerInit(n, t) \/ WorkerTake(n, t) PROVE New
  BY <1>1, <1>9 DEF WorkerInit, WorkerTake, mgrVars
<1>10. ASSUME NEW n \in Mgr, NEW t \in Task,
              \/ TakeUncached(n, t) \/ WorkerLaunch(n, t) \/ LaunchFails(n, t)
              \/ \E ok \in BOOLEAN : WorkerFinish(n, t, ok)
       PROVE  New
  <2>1. n = m
    BY DEF Alone
  <2> QED
    BY <1>2, <1>10, <2>1 DEF TakeUncached, WorkerLaunch, LaunchFails, WorkerFinish, LoopFree, mgrVars
<1>11. ASSUME NEW n \in Mgr, NEW g \in Gen, StatusStep(n, g) PROVE New
  BY <1>1, <1>11 DEF StatusStep, StatusDecide, StopBegin, StopWorker, StopEnd, mgrVars
<1>12. CASE UNCHANGED vars
  BY <1>1, <1>12 DEF vars, mgrVars
<1>calm. \A n \in Mgr : ~Crash(n) /\ ~CleanFails(n) /\ \A j \in Job : ~CleanStray(n, j)
  BY Undisturbing DEF SoloInv, NewInv, CleanFails
<1>13. New
  BY <1>3, <1>4, <1>5, <1>6, <1>7, <1>8, <1>9, <1>10, <1>11, <1>12, <1>calm
     DEF Next, Submit, Enqueue, Fails, WorkerStep
<1> QED
  BY <1>13 DEF New

LEMMA NextRead ==
  ASSUME Alone, IInv, SoloInv, [Next]_vars
  PROVE  ReadInv'
<1> SUFFICES ASSUME NEW m \in Mgr, NEW i \in batch'[m] PROVE row'[i] = "pending"
  BY DEF ReadInv
<1> DEFINE Read == row'[i] = "pending"
<1>0. TypeOK /\ \A j \in batch[m] : row[j] = "pending" /\ j \in Job
  BY DEF IInv, SoloInv, ReadInv, TypeOK
<1>1. CASE UNCHANGED <<row, batch>>
  BY <1>0, <1>1
<1>2. ASSUME NEW n \in Mgr, EnqFind(n) PROVE Read
  <2>1. row' = row /\ \A j \in batch'[m] : j \in batch[m] \/ row[j] = "pending"
    BY <1>0, <1>2 DEF EnqFind, Queueable, TypeOK
  <2> QED
    BY <1>0, <2>1
<1>3. ASSUME NEW n \in Mgr, NEW j \in Job, EnqPut(n, j) \/ EnqSlip(n, j) \/ EnqForeign(n, j)
      PROVE  Read
  <2>1. n = m
    BY DEF Alone
  <2>2. /\ batch'[m] = batch[m] \ {j}
        /\ row' = row \/ \E v \in {"enqueued", "failed"} : row' = [row EXCEPT ![j] = v]
    BY <1>0, <1>3, <2>1 DEF EnqPut, EnqSlip, Put, EnqForeign, TypeOK
  <2> QED
    BY <1>0, <2>2 DEF TypeOK
<1>4. ASSUME NEW j \in Job, SubmitInsert(j) PROVE Read
  <2>1. batch' = batch /\ row' = [row EXCEPT ![j] = "pending"]
    BY <1>4 DEF SubmitInsert, enqVars
  <2> QED
    BY <1>0, <2>1 DEF TypeOK
<1>5. ASSUME NEW n \in Mgr, NEW t \in Task, WorkerStep(n, t) PROVE Read
  <2>1. n = m
    BY DEF Alone
  <2>2. batch[m] = {} /\ batch' = batch
    BY <1>5, <2>1 DEF WorkerStep, WorkerInit, WorkerTake, TakeUncached, WorkerLaunch, LaunchFails,
       WorkerFinish, LoopFree, enqVars
  <2> QED
    BY <2>2
<1>6. ASSUME NEW j \in Job,
             \/ SubmitRegister(j) \/ SubmitFails(j) \/ SubmitCheck(j) \/ SubmitStart(j)
             \/ SubmitStartFails(j)
      PROVE  Read
  BY <1>1, <1>6 DEF SubmitRegister, SubmitFails, SubmitCheck, SubmitStart, SubmitStartFails,
     StartRaises, enqVars
<1>7. ASSUME NEW n \in Mgr,
             \/ Construct(n) \/ AutoStart(n) \/ AutoStartFails(n)
             \/ \E g \in Gen : EnqExit(n, g) \/ StatusStep(n, g)
      PROVE  Read
  BY <1>1, <1>7 DEF Construct, AutoStart, AutoStartFails, StartRaises, EnqExit, StatusStep,
     StatusDecide, StopBegin, StopWorker, StopEnd, enqVars
<1>8. ASSUME NEW n \in Mgr, EnqAbandon(n) PROVE Read
  <2>1. row' = row /\ batch'[m] \subseteq batch[m]
    BY <1>0, <1>8 DEF EnqAbandon, TypeOK
  <2> QED
    BY <1>0, <2>1
<1>9. CASE UNCHANGED vars
  BY <1>1, <1>9 DEF vars, enqVars
<1>calm. \A n \in Mgr : ~Crash(n) /\ ~CleanFails(n) /\ \A j \in Job : ~CleanStray(n, j)
  BY Undisturbing DEF SoloInv, NewInv, CleanFails
<1>10. Read
  BY <1>2, <1>3, <1>4, <1>5, <1>6, <1>7, <1>8, <1>9, <1>calm
     DEF Next, Submit, Enqueue, Fails
<1> QED
  BY <1>10 DEF Read

LEMMA NextWait ==
  ASSUME Alone, IInv, SoloInv, [Next]_vars
  PROVE  WaitInv'
<1> DEFINE Waits(i) == call[i] = "registered" \/ (row[i] = "pending" /\ i \notin Lapsed)
<1> SUFFICES ASSUME NEW i \in Job PROVE Waits(i)' => i \in pend'[Home[i]]
  BY DEF WaitInv
<1> DEFINE Wait == Waits(i)' => i \in pend'[Home[i]]
<1>l. Lapsed \subseteq Lapsed'
  BY LapsedGrows
<1>0. /\ TypeOK /\ Home[i] \in Mgr /\ \A j \in Job : Home[j] = Home[i]
      /\ Waits(i) => i \in pend[Home[i]]
      /\ i \in Lapsed => i \in Lapsed'
  BY <1>l, QueueAssumption DEF QueueAssumption, Alone, IInv, SoloInv, WaitInv
<1>1. CASE UNCHANGED <<row, call, pend>>
  BY <1>0, <1>1
<1>2. ASSUME NEW j \in Job, SubmitRegister(j) PROVE Wait
  <2>1. /\ row' = row /\ call' = [call EXCEPT ![j] = "registered"]
        /\ pend' = [pend EXCEPT ![Home[i]] = @ \cup {j}]
    BY <1>0, <1>2 DEF SubmitRegister
  <2> QED
    BY <1>0, <2>1 DEF TypeOK
<1>3. ASSUME NEW j \in Job, SubmitInsert(j) PROVE Wait
  <2>1. /\ row' = [row EXCEPT ![j] = "pending"] /\ call' = [call EXCEPT ![j] = "inserted"]
        /\ pend' = pend /\ call[j] = "registered"
    BY <1>3 DEF SubmitInsert
  <2> QED
    BY <1>0, <2>1 DEF TypeOK
<1>4. ASSUME NEW j \in Job, SubmitFails(j) PROVE Wait
  <2>1. /\ row' = row /\ call' = [call EXCEPT ![j] = "gone"] /\ call[j] = "registered"
        /\ pend' = [pend EXCEPT ![Home[i]] = @ \ {j}]
    BY <1>0, <1>4 DEF SubmitFails
  <2>2. row[j] = "none"
    BY <2>1 DEF IInv, RowInv, Submitted
  <2> QED
    BY <1>0, <2>1, <2>2 DEF TypeOK
<1>5. ASSUME NEW j \in Job, SubmitCheck(j) \/ SubmitStart(j) \/ SubmitStartFails(j) PROVE Wait
  <2>1. /\ UNCHANGED <<row, pend>>
        /\ \E v \in {"waiting", "starting", "gone"} : call' = [call EXCEPT ![j] = v]
    BY <1>5 DEF SubmitCheck, SubmitStart, SubmitStartFails, mgrVars
  <2> QED
    BY <1>0, <2>1 DEF TypeOK
<1>6. ASSUME NEW n \in Mgr, NEW j \in Job, EnqPut(n, j) \/ EnqSlip(n, j) \/ EnqForeign(n, j)
      PROVE  Wait
  <2>1. /\ UNCHANGED <<call, pend>>
        /\ row' = row \/ \E v \in {"enqueued", "failed"} : row' = [row EXCEPT ![j] = v]
    BY <1>6 DEF EnqPut, EnqSlip, Put, EnqForeign, mgrVars, jobVars
  <2> QED
    BY <1>0, <2>1 DEF TypeOK
<1>7. ASSUME NEW n \in Mgr, NEW t \in Task, WorkerLaunch(n, t) PROVE Wait
  <2>1. UNCHANGED <<call, pend>> /\ row' = [row EXCEPT ![wjob[n][t]] = "in-progress"]
    BY <1>7 DEF WorkerLaunch, jobVars, mgrVars
  <2> QED
    BY <1>0, <2>1 DEF TypeOK
<1>8. ASSUME NEW n \in Mgr, NEW t \in Task, Holds(n, t), Release(n, t), UNCHANGED call,
             row'[i] = "pending" => row[i] = "pending"
      PROVE  Wait
  <2>1. /\ wjob[n][t] = i => call[i] # "registered" /\ (row[i] # "pending" \/ i \in Lapsed)
    BY <1>8, InHand DEF Submitted, Fresh, Lapsed
  <2>2. pend' = [pend EXCEPT ![n] = @ \ {wjob[n][t]}]
    BY <1>8, Zenon DEF Release
  <2> QED
    BY <1>0, <1>8, <2>1, <2>2 DEF TypeOK
<1>9. ASSUME NEW n \in Mgr, NEW t \in Task,
             LaunchFails(n, t) \/ \E ok \in BOOLEAN : WorkerFinish(n, t, ok)
      PROVE  Wait
  <2>1. Holds(n, t) /\ Release(n, t) /\ UNCHANGED call /\ wjob[n][t] \in Job
    BY <1>9, VerdictParts, InHand
  <2>2. row'[i] = "pending" => row[i] = "pending"
    BY <1>0, <1>9, <2>1, VerdictParts, VerdictOn
  <2> QED
    BY <1>8, <2>1, <2>2
<1>10. ASSUME NEW n \in Mgr, NEW g \in Gen, StopWorker(n, g) PROVE Wait
  <2>1. UNCHANGED <<row, call>>
    BY <1>10 DEF StopWorker, jobVars
  <2> DEFINE t == wlist[n][idx[n][g]]
  <2>2. t \in Task
    BY <1>0, <1>10 DEF StopWorker, TypeOK
  <2>3. CASE wk[n][t] = "run"
    <3>1. Release(n, t) /\ Holds(n, t)
      BY <1>10, <2>3, Zenon DEF StopWorker, Holds
    <3> QED
      BY <1>8, <2>1, <2>2, <3>1
  <2>4. CASE wk[n][t] # "run"
    <3>1. pend' = pend
      BY <1>10, <2>4, Zenon DEF StopWorker
    <3> QED
      BY <1>1, <2>1, <3>1
  <2> QED
    BY <2>3, <2>4
<1>11. ASSUME NEW n \in Mgr,
              \/ Construct(n) \/ AutoStart(n) \/ AutoStartFails(n) \/ EnqFind(n) \/ EnqAbandon(n)
              \/ \E g \in Gen : \/ EnqExit(n, g) \/ StatusDecide(n, g) \/ StopBegin(n, g)
                                \/ StopEnd(n, g)
       PROVE  Wait
  BY <1>1, <1>11 DEF Construct, AutoStart, AutoStartFails, EnqFind, EnqAbandon, EnqExit,
     StatusDecide, StopBegin, StopEnd, jobVars, mgrVars
<1>12. ASSUME NEW n \in Mgr, NEW t \in Task, WorkerInit(n, t) \/ WorkerTake(n, t) PROVE Wait
  BY <1>1, <1>12 DEF WorkerInit, WorkerTake, jobVars, mgrVars
<1>15. ASSUME NEW n \in Mgr, NEW t \in Task, TakeUncached(n, t) PROVE Wait
  <2>1. /\ UNCHANGED <<call, pend>>
        /\ row' = row \/ row' = [row EXCEPT ![Head(queue[n])] = "failed"]
    BY <1>15 DEF TakeUncached, mgrVars
  <2> QED
    BY <1>0, <2>1 DEF TypeOK
<1>13. CASE UNCHANGED vars
  BY <1>1, <1>13 DEF vars, jobVars, mgrVars
<1>calm. \A n \in Mgr : ~Crash(n) /\ ~CleanFails(n) /\ \A j \in Job : ~CleanStray(n, j)
  BY Undisturbing DEF SoloInv, NewInv, CleanFails
<1>14. Wait
  BY <1>2, <1>3, <1>4, <1>5, <1>6, <1>7, <1>9, <1>10, <1>11, <1>12, <1>13, <1>15, <1>calm
     DEF Next, Submit, Enqueue, Fails, WorkerStep, StatusStep
<1> QED
  BY <1>14 DEF Wait

LEMMA NextAgree ==
  ASSUME Alone, IInv, PInv, SoloInv, [Next]_vars
  PROVE  AgreeInv'
<1> SUFFICES ASSUME NEW i \in Job, i \notin Lapsed'
             PROVE  /\ row'[i] \in Unsettled => fut'[i] = "waiting"
                    /\ row'[i] = "failed" => fut'[i] = "error"
  BY DEF AgreeInv
<1>l. i \notin Lapsed
  BY LapsedGrows
<1> DEFINE Agree == /\ row'[i] \in Unsettled => fut'[i] = "waiting"
                    /\ row'[i] = "failed" => fut'[i] = "error"
<1>0. /\ TypeOK
      /\ row[i] \in Unsettled => fut[i] = "waiting"
      /\ row[i] = "failed" => fut[i] = "error"
  BY <1>l DEF IInv, SoloInv, AgreeInv
<1>1. CASE UNCHANGED <<row, fut>>
  BY <1>0, <1>1
<1>2. ASSUME NEW j \in Job, NEW v, row[j] = "none", row' = row, fut' = [fut EXCEPT ![j] = v]
      PROVE  Agree
  BY <1>0, <1>2 DEF TypeOK, Unsettled
<1>3. ASSUME NEW j \in Job, SubmitRegister(j) \/ SubmitFails(j) PROVE Agree
  <2>1. row[j] = "none" /\ row' = row /\ \E v : fut' = [fut EXCEPT ![j] = v]
    BY <1>3 DEF SubmitRegister, SubmitFails, IInv, RowInv, Submitted
  <2> QED
    BY <1>2, <2>1
<1>4. ASSUME NEW j \in Job, NEW v \in Unsettled, fut[j] = "waiting" \/ j \in Lapsed, fut' = fut,
             row' = [row EXCEPT ![j] = v]
      PROVE  Agree
  BY <1>0, <1>4, <1>l DEF TypeOK, Unsettled
<1>5. ASSUME NEW j \in Job, SubmitInsert(j) PROVE Agree
  <2>1. fut[j] = "waiting" /\ fut' = fut /\ row' = [row EXCEPT ![j] = "pending"]
    BY <1>5 DEF SubmitInsert, PInv, CallInv
  <2> QED
    BY <1>4, <2>1 DEF Unsettled
<1>6. ASSUME NEW n \in Mgr, NEW j \in Job, EnqPut(n, j) PROVE Agree
  <2>1. /\ fut[j] = "waiting" \/ j \in Lapsed
        /\ fut' = fut /\ row' = [row EXCEPT ![j] = "enqueued"]
    BY <1>6 DEF EnqPut, Put, IInv, BatchInv, Lapsed
  <2> QED
    BY <1>4, <2>1 DEF Unsettled
<1>15. ASSUME NEW n \in Mgr, NEW j \in Job, EnqForeign(n, j) PROVE Agree
  <2>1. j # i
    BY <1>15, <1>l, Undisturbing
  <2>2. fut' = fut /\ row' = [row EXCEPT ![j] = "failed"]
    BY <1>15 DEF EnqForeign, jobVars
  <2> QED
    BY <1>0, <2>1, <2>2 DEF TypeOK
<1>7. ASSUME NEW n \in Mgr, NEW t \in Task, WorkerLaunch(n, t) PROVE Agree
  <2>1. wjob[n][t] \in Job /\ (fut[wjob[n][t]] = "waiting" \/ wjob[n][t] \in Lapsed)
    BY <1>7, InHand DEF WorkerLaunch, Holds, Fresh, Lapsed
  <2>2. fut' = fut /\ row' = [row EXCEPT ![wjob[n][t]] = "in-progress"]
    BY <1>7 DEF WorkerLaunch, jobVars
  <2> QED
    BY <1>4, <2>1, <2>2 DEF Unsettled
<1>8. ASSUME NEW n \in Mgr, NEW t \in Task,
             LaunchFails(n, t) \/ \E good \in BOOLEAN : WorkerFinish(n, t, good)
      PROVE  Agree
  <2> DEFINE j == wjob[n][t]
  <2>1. j \in Job /\ j \notin slipped => fut[j] = "waiting"
    BY <1>8, VerdictParts, InHand DEF Fresh
  <2>2. PICK ok \in BOOLEAN, wrote \in BOOLEAN : Settle(j, ok, wrote) \/ SettledBefore(j)
    BY <1>8, VerdictParts
  <2>3. j \in Job
    BY <1>8, VerdictParts, InHand
  <2>4. CASE i # j
    BY <1>0, <2>2, <2>3, <2>4, VerdictOn
  <2>5. CASE i = j /\ SettledBefore(j)
    BY <1>l, <2>1, <2>5 DEF SettledBefore, Lapsed
  <2>6. CASE i = j /\ Settle(j, ok, wrote)
    BY <1>0, <2>3, <2>6 DEF Settle, TypeOK, Unsettled, Lapsed
  <2> QED
    BY <2>2, <2>4, <2>5, <2>6
<1>16. ASSUME NEW n \in Mgr, NEW t \in Task, TakeUncached(n, t) PROVE Agree
  <2> DEFINE j == Head(queue[n])
  <2>1. j \in Job /\ (j \notin slipped => fut[j] = "waiting")
    BY <1>16, InHand DEF TakeUncached, Fresh
  <2>2. \/ UNCHANGED <<row, fut>>
        \/ /\ row' = [row EXCEPT ![j] = "failed"]
           /\ fut' = [fut EXCEPT ![j] = IF @ = "waiting" THEN "error" ELSE @]
    BY <1>16 DEF TakeUncached
  <2>3. CASE i # j
    BY <1>0, <2>1, <2>2, <2>3 DEF TypeOK
  <2>4. CASE i = j
    BY <1>0, <1>l, <2>1, <2>2, <2>4 DEF TypeOK, Unsettled, Lapsed
  <2> QED
    BY <2>3, <2>4
<1>9. ASSUME NEW j \in Job, SubmitCheck(j) \/ SubmitStart(j) \/ SubmitStartFails(j) PROVE Agree
  BY <1>1, <1>9 DEF SubmitCheck, SubmitStart, SubmitStartFails
<1>10. ASSUME NEW n \in Mgr, Construct(n) \/ AutoStart(n) \/ EnqFind(n) \/ Fails(n) PROVE Agree
  BY <1>1, <1>10 DEF Construct, AutoStart, EnqFind, Fails, CleanFails, AutoStartFails, EnqAbandon,
     EnqSlip, Put, jobVars
<1>11. ASSUME NEW n \in Mgr, NEW g \in Gen, EnqExit(n, g) \/ StatusStep(n, g) PROVE Agree
  BY <1>1, <1>11 DEF EnqExit, StatusStep, StatusDecide, StopBegin, StopWorker, StopEnd, jobVars
<1>12. ASSUME NEW n \in Mgr, NEW t \in Task, WorkerInit(n, t) \/ WorkerTake(n, t) PROVE Agree
  BY <1>1, <1>12 DEF WorkerInit, WorkerTake, jobVars
<1>13. CASE UNCHANGED vars
  BY <1>1, <1>13 DEF vars, jobVars
<1>calm. \A n \in Mgr : ~Crash(n) /\ \A j \in Job : ~CleanStray(n, j)
  BY Undisturbing
<1>14. Agree
  BY <1>3, <1>5, <1>6, <1>7, <1>8, <1>9, <1>10, <1>11, <1>12, <1>13, <1>15, <1>16, <1>calm
     DEF Next, Submit, Enqueue, WorkerStep
<1> QED
  BY <1>14 DEF Agree

\* A step of the promise between states that agree disturbs nobody: what
\* would be a Spoil changes nothing, and there is nothing to take up again, but
\* for a job whose own writes have failed.
LEMMA AgreedIsUndisturbed ==
  ASSUME TypeOK, TypeOK', DoneInv, AgreeInv, AgreeInv', [Promise!Next]_(Promise!vars)
  PROVE  [Undisturbed!Next]_(Undisturbed!vars)
<1>1. DOMAIN JobStatus = Job /\ JobStatus = [j \in Job |-> JobStatus[j]]
  BY DEF JobStatus
<1>2. \A j \in Job : /\ JobStatus[j] = "failed" <=> row[j] = "failed"
                     /\ JobStatus'[j] = "failed" <=> row'[j] = "failed"
  BY DEF JobStatus, Unsettled
<1>3. ASSUME NEW j \in Job, Promise!Spoil(j), j \notin Lapsed PROVE UNCHANGED Undisturbed!vars
  <2>1. JobStatus[j] # "none" /\ fut' = fut /\ Lapsed' = Lapsed
        /\ JobStatus' = [JobStatus EXCEPT ![j] = "failed"]
    BY <1>3 DEF Promise!Spoil
  <2>2. row'[j] = "failed"
    BY <1>1, <1>2, <2>1
  <2>3. fut[j] = "error"
    BY <1>3, <2>1, <2>2 DEF AgreeInv
  <2>4. row[j] # "none"
    BY <2>1 DEF JobStatus, Unsettled
  <2>5. row[j] = "failed"
    BY <1>3, <2>3, <2>4 DEF AgreeInv, DoneInv, TypeOK, RowStatus, Unsettled
  <2>6. JobStatus' = JobStatus
    BY <1>1, <1>2, <2>1, <2>5
  <2> QED
    BY <2>1, <2>6 DEF Undisturbed!vars
<1>4. ASSUME NEW j \in Job, Promise!Reopen(j), j \notin Lapsed PROVE FALSE
  BY <1>2, <1>4 DEF Promise!Reopen, AgreeInv
<1>10. ASSUME NEW j \in Job, j \in Lapsed, Promise!Spoil(j) \/ Promise!Reopen(j)
       PROVE  Undisturbed!Next
  <2>1. UNCHANGED <<fut, Lapsed>>
        /\ \E s \in {"open", "failed"} : JobStatus' = [JobStatus EXCEPT ![j] = s]
    BY <1>10 DEF Promise!Spoil, Promise!Reopen
  <2>2. Undisturbed!Rework(j)
    BY <1>10, <2>1 DEF Undisturbed!Rework
  <2> QED
    BY <2>2 DEF Undisturbed!Next
<1>11. ASSUME NEW j \in Job, Promise!Lapse(j) \/ Promise!Rework(j) PROVE Undisturbed!Next
  BY <1>11 DEF Promise!Lapse, Promise!Rework, Undisturbed!Lapse, Undisturbed!Rework,
     Undisturbed!Next
<1>12. ASSUME NEW j \in Job, NEW ok \in BOOLEAN, Promise!SettleUnseen(j, ok)
       PROVE  Undisturbed!Next
  <2>1. Undisturbed!SettleUnseen(j, ok)
    BY <1>12 DEF Promise!SettleUnseen, Undisturbed!SettleUnseen
  <2> QED
    BY <2>1 DEF Undisturbed!Next
<1>5. ASSUME NEW j \in Job, Promise!Offer(j) PROVE Undisturbed!Next
  BY <1>5 DEF Promise!Offer, Undisturbed!Offer, Undisturbed!Next
<1>6. ASSUME NEW j \in Job, Promise!Accept(j) PROVE Undisturbed!Next
  BY <1>6 DEF Promise!Accept, Undisturbed!Accept, Undisturbed!Next
<1>7. ASSUME NEW j \in Job, Promise!Refuse(j) PROVE Undisturbed!Next
  BY <1>7 DEF Promise!Refuse, Undisturbed!Refuse, Undisturbed!Next
<1>8. ASSUME NEW j \in Job, NEW ok \in BOOLEAN, Promise!Settle(j, ok) PROVE Undisturbed!Next
  <2>1. Undisturbed!Settle(j, ok)
    BY <1>8 DEF Promise!Settle, Undisturbed!Settle
  <2> QED
    BY <2>1 DEF Undisturbed!Next
<1>9. CASE UNCHANGED Promise!vars
  BY <1>9 DEF Promise!vars, Undisturbed!vars
<1> QED
  BY <1>3, <1>4, <1>5, <1>6, <1>7, <1>8, <1>9, <1>10, <1>11, <1>12 DEF Promise!Next

\* A manager that shares its table with no other and does not die keeps the
\* whole promise: of a job whose own writes get through, row and future settle
\* together, the same way, and neither changes again, whatever submissions,
\* failed inserts, failing writes of other jobs, stops and restarts of the pool
\* come in between.
THEOREM QueueKeepsWholePromise ==
  ASSUME Alone
  PROVE  Spec => KeepsWholePromise
<1>1. Init => PInv /\ SoloInv /\ Undisturbed!Init
  <2> SUFFICES ASSUME Init PROVE PInv /\ SoloInv /\ Undisturbed!Init
    OBVIOUS
  <2>1. PInv
    BY DEF Init, PInv, CallInv, DoneInv, KnownInv
  <2>2. SoloInv
    BY QueueAssumption
       DEF QueueAssumption, Init, SoloInv, NewInv, ReadInv, WaitInv, AgreeInv, Unsettled
  <2>3. Undisturbed!Init
    BY DEF Init, Undisturbed!Init, JobStatus, Unsettled, Lapsed
  <2> QED
    BY <2>1, <2>2, <2>3
<1>2. IInv /\ IInv' /\ PInv /\ SoloInv /\ [Next]_vars
        => PInv' /\ SoloInv' /\ [Undisturbed!Next]_(Undisturbed!vars)
  <2> SUFFICES ASSUME IInv, IInv', PInv, SoloInv, [Next]_vars
               PROVE  PInv' /\ SoloInv' /\ [Undisturbed!Next]_(Undisturbed!vars)
    OBVIOUS
  <2>1. [Promise!Next]_(Promise!vars)
    BY NextPromise
  <2>2. CallInv' /\ KnownInv' /\ DoneInv'
    BY <2>1, NextCallInv, NextKnown, NextDone DEF IInv, PInv
  <2>3. SoloInv'
    BY NextNew, NextRead, NextWait, NextAgree DEF SoloInv
  <2>4. [Undisturbed!Next]_(Undisturbed!vars)
    BY <2>1, <2>3, AgreedIsUndisturbed DEF IInv, PInv, SoloInv
  <2> QED
    BY <2>2, <2>3, <2>4 DEF PInv
<1> QED
  BY <1>1, <1>2, Inductive, PTL DEF Spec, KeepsWholePromise, Undisturbed!Spec
=============================================================================
