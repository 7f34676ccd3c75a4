------------------------- MODULE CodingRunProofs ---------------------------
(***************************************************************************)
(* Proofs about CodingRun, for any number of runs, posts, chunks, batches   *)
(* and process deaths.                                                     *)
(***************************************************************************)
EXTENDS CodingRun, TLAPS, FiniteSetTheorems

TaskState == {"none", "llm", "done", "gaveUp", "raised"} \cup Slice

(* What the steps of the posts' tasks have in common.                      *)

\* A task at work goes on to x with the chunk it is at.
Moves(r, p, x) ==
  /\ task[r][p] \in Live
  /\ x \in Slice \cup {"gaveUp", "raised"}
  /\ x \in Slice => Free(r) \/ task[r][p] \in Slice
  /\ x = "gaveUp" => Initial(r)
  /\ task' = [task EXCEPT ![r][p] = x]
  /\ UNCHANGED <<kind, pc, batch, at>>

\* A task is through with a chunk.
Finishes(r, p) ==
  /\ task[r][p] \in Slice
  /\ Resume(r, p)
  /\ UNCHANGED <<kind, pc, batch>>

\* The handler moves and no task does.
Stays == UNCHANGED <<kind, task, at>>

\* The part of the invariant about tasks and batches alone.
Flow == AtInv /\ FreshInv /\ StageInv /\ OneSlice /\ CodedInv

-----------------------------------------------------------------------------
\* Moving one task moves no other.
LEMMA MovePoint ==
  ASSUME TypeOK, NEW r \in Run, NEW p \in Post, NEW x, Moves(r, p, x)
  PROVE  /\ task' \in [Run -> [Post -> TaskState]]
         /\ task'[r][p] = x
         /\ \A s \in Run, q \in Post : s # r \/ q # p => task'[s][q] = task[s][q]
<1>1. task \in [Run -> [Post -> TaskState]] /\ x \in TaskState
  BY DEF TypeOK, TaskState, Moves
<1>2. task' = [task EXCEPT ![r] = [@ EXCEPT ![p] = x]]
  BY DEF Moves
<1> QED
  BY <1>1, <1>2

\* What a task that is through with a chunk may come to.
After(r, p) == IF at[r][p] < Chunks[p] THEN {"llm"}
               ELSE {"done", "raised"} \cup {x \in {"gaveUp"} : Initial(r)}

\* Going on from a chunk is one of these.
LEMMA ResumeKinds ==
  ASSUME TypeOK, NEW r \in Run, NEW p \in Post, Resume(r, p)
  PROVE  \E x \in After(r, p) : task' = [task EXCEPT ![r] = [task[r] EXCEPT ![p] = x]]
<1>1. task \in [Run -> [Post -> TaskState]] /\ at[r][p] \in Nat /\ Chunks[p] \in Nat
  BY RunAssumption DEF TypeOK, TaskState
<1>2. CASE at[r][p] < Chunks[p]
  BY <1>1, <1>2 DEF Resume, After
<1>3. CASE ~(at[r][p] < Chunks[p])
  <2>1. PICK x \in {"done", "gaveUp", "raised"} :
          /\ task' = [task EXCEPT ![r] = [task[r] EXCEPT ![p] = x]]
          /\ x = "gaveUp" => Initial(r)
    BY <1>1, <1>3 DEF Resume, Raises
  <2> QED
    BY <1>1, <1>3, <2>1 DEF After
<1> QED
  BY <1>1, <1>2, <1>3

\* So does finishing a chunk; the task goes on to the next one or is over.
LEMMA FinishPoint ==
  ASSUME TypeOK, AtInv, NEW r \in Run, NEW p \in Post, Finishes(r, p)
  PROVE  /\ task' \in [Run -> [Post -> TaskState]]
         /\ at' \in [Run -> [Post -> Nat]]
         /\ at[r][p] <= Chunks[p] /\ at'[r][p] = at[r][p] + 1
         /\ task'[r][p] \in After(r, p)
         /\ \A s \in Run, q \in Post : s # r \/ q # p =>
              task'[s][q] = task[s][q] /\ at'[s][q] = at[s][q]
<1>1. /\ task \in [Run -> [Post -> TaskState]]
      /\ at \in [Run -> [Post -> Nat]]
  BY DEF TypeOK, TaskState
<1>2. at[r][p] <= Chunks[p] /\ at[r][p] \in Nat
  BY <1>1 DEF Finishes, AtInv, Live
<1>3. PICK x \in After(r, p) : task' = [task EXCEPT ![r] = [task[r] EXCEPT ![p] = x]]
  BY <1>1, RunAssumption, ResumeKinds DEF Finishes
<1>7. x \in TaskState
  BY <1>3 DEF After, TaskState
<1>4. at' = [at EXCEPT ![r] = [at[r] EXCEPT ![p] = at[r][p] + 1]]
  BY <1>1 DEF Finishes, Resume
<1>5. /\ task' \in [Run -> [Post -> TaskState]] /\ task'[r][p] = x
      /\ \A s \in Run, q \in Post : s # r \/ q # p => task'[s][q] = task[s][q]
  BY <1>1, <1>3, <1>7
<1>6. /\ at' \in [Run -> [Post -> Nat]] /\ at'[r][p] = at[r][p] + 1
      /\ \A s \in Run, q \in Post : s # r \/ q # p => at'[s][q] = at[s][q]
  BY <1>1, <1>2, <1>4
<1> QED
  BY <1>2, <1>3, <1>5, <1>6

\* Starting a batch starts its posts' tasks and no other.
LEMMA StartPoint ==
  ASSUME TypeOK, StageInv, NEW r \in Run, StartBatch(r)
  PROVE  /\ task' \in [Run -> [Post -> TaskState]]
         /\ \A s \in Run, q \in Post : task'[s][q] = task[s][q] \/
              /\ s = r /\ q \in Batch[batch[r]] /\ pc'[r] = "gather"
              /\ task'[s][q] = "llm"
<1>1. task \in [Run -> [Post -> TaskState]] /\ "llm" \in TaskState
  BY DEF TypeOK, TaskState
<1>2. CASE UNCHANGED task
  BY <1>1, <1>2
<1>3. CASE /\ pc' = [pc EXCEPT ![r] = "gather"]
           /\ task' = [task EXCEPT ![r] =
                [q \in Post |-> IF q \in Batch[batch[r]] THEN "llm" ELSE @[q]]]
  <2>1. pc'[r] = "gather"
    BY <1>3 DEF TypeOK
  <2>2. task' = [task EXCEPT ![r] =
          [q \in Post |-> IF q \in Batch[batch[r]] THEN "llm" ELSE task[r][q]]]
    BY <1>1, <1>3
  <2> QED
    BY <1>1, <2>1, <2>2
<1> QED
  BY <1>2, <1>3 DEF StartBatch

\* Cancelling takes tasks that wait for an answer away.
LEMMA CancelPoint ==
  ASSUME TypeOK, NEW r \in Run, Cancel(r)
  PROVE  /\ task' \in [Run -> [Post -> TaskState]]
         /\ \A s \in Run, q \in Post : task'[s][q] = task[s][q] \/
              (s = r /\ task[s][q] = "llm" /\ task'[s][q] = "none")
<1>1. task \in [Run -> [Post -> TaskState]] /\ "none" \in TaskState
  BY DEF TypeOK, TaskState
<1>2. task' = [task EXCEPT ![r] =
        [q \in Post |-> IF task[r][q] = "llm" THEN "none" ELSE task[r][q]]]
  BY <1>1 DEF Cancel
<1> QED
  BY <1>1, <1>2

-----------------------------------------------------------------------------
(* The flow of tasks and batches                                           *)

\* A task that goes on with its chunk keeps tasks and batches in step.
LEMMA MoveFlow ==
  ASSUME TypeOK, Flow, NEW r \in Run, NEW p \in Post, NEW x, Moves(r, p, x)
  PROVE  Flow'
<1> USE DEF Flow
<1>1. /\ task'[r][p] = x
      /\ \A s \in Run, q \in Post : s # r \/ q # p => task'[s][q] = task[s][q]
  BY MovePoint
<1>2. UNCHANGED <<kind, pc, batch, at>> /\ task[r][p] \in Live
      /\ x \in Slice \cup {"gaveUp", "raised"}
  BY DEF Moves
<1>3. AtInv'
  BY <1>1, <1>2 DEF AtInv, Live, Slice
<1>4. FreshInv'
  <2>1. \A b \in DOMAIN Batch : p \in Batch[b] =>
          ~(b > batch[r] \/ (b = batch[r] /\ pc[r] \in Setting \cup {"batch"}))
    BY <1>2 DEF FreshInv, Live, Slice
  <2> QED
    BY <1>1, <1>2, <2>1, RunAssumption DEF FreshInv
<1>5. StageInv'
  BY <1>1, <1>2 DEF StageInv, Live, Slice
<1>6. OneSlice'
  BY <1>1, <1>2 DEF Moves, OneSlice, Free
<1>7. CodedInv'
  <2>1. x = "gaveUp" => Initial(r)
    BY DEF Moves
  <2>2. \A s \in Run : Initial(s)' = Initial(s)
    BY <1>2 DEF Initial
  <2> QED
    BY <1>1, <1>2, <2>1, <2>2, RunAssumption DEF CodedInv
<1> QED
  BY <1>3, <1>4, <1>5, <1>6, <1>7

\* So does a task that is through with a chunk.
LEMMA FinishFlow ==
  ASSUME TypeOK, Flow, NEW r \in Run, NEW p \in Post, Finishes(r, p)
  PROVE  Flow'
<1> USE DEF Flow
<1>1. /\ at[r][p] <= Chunks[p] /\ at'[r][p] = at[r][p] + 1
      /\ task'[r][p] \in After(r, p)
      /\ \A s \in Run, q \in Post : s # r \/ q # p =>
           task'[s][q] = task[s][q] /\ at'[s][q] = at[s][q]
  BY FinishPoint
<1>2. UNCHANGED <<kind, pc, batch>> /\ task[r][p] \in Live /\ at[r][p] \in Nat
      /\ Chunks[p] \in Nat
  BY RunAssumption DEF Finishes, Live, TypeOK
<1>3. AtInv'
  BY <1>1, <1>2 DEF AtInv, Live, Slice, After
<1>4. FreshInv'
  <2>1. \A b \in DOMAIN Batch : p \in Batch[b] =>
          ~(b > batch[r] \/ (b = batch[r] /\ pc[r] \in Setting \cup {"batch"}))
    BY <1>2 DEF FreshInv, Live, Slice
  <2>2. SUFFICES ASSUME NEW s \in Run, NEW b \in DOMAIN Batch, NEW q \in Batch[b],
                        b > batch[s] \/ (b = batch[s] /\ pc[s] \in Setting \cup {"batch"})
                 PROVE  task'[s][q] = "none" /\ at'[s][q] = 1
    BY <1>2 DEF FreshInv
  <2>3. q \in Post /\ (s # r \/ q # p)
    BY <2>1, <2>2, RunAssumption
  <2>4. task[s][q] = "none" /\ at[s][q] = 1
    BY <2>2 DEF FreshInv
  <2> QED
    BY <1>1, <2>3, <2>4
<1>5. StageInv'
  BY <1>1, <1>2 DEF StageInv, Live, Slice
<1>6. OneSlice'
  BY <1>1, <1>2 DEF OneSlice, Slice, After
<1>7. CodedInv'
  <2>1. \A s \in Run : Initial(s)' = Initial(s)
    BY <1>2 DEF Initial
  <2>2. \A b \in DOMAIN Batch : p \in Batch[b] /\ ~Initial(r) => ~(b < batch[r])
    BY <1>1, <1>2 DEF CodedInv
  <2>3. task'[r][p] = "gaveUp" => Initial(r)
    BY <1>1 DEF After
  <2> QED
    BY <1>1, <1>2, <2>1, <2>2, <2>3, RunAssumption DEF CodedInv
<1> QED
  BY <1>3, <1>4, <1>5, <1>6, <1>7

\* Every step of a task is one or the other, and leaves the handler alone.
LEMMA PostKinds ==
  ASSUME TypeOK, NEW r \in Run, NEW p \in Post, PostStep(r, p)
  PROVE  Finishes(r, p) \/ \E x : Moves(r, p, x)
<1>1. ASSUME Raises(r, p), task[r][p] \in Live, UNCHANGED <<kind, pc, batch, at>>
      PROVE  \E x : Moves(r, p, x)
  <2>1. CASE Initial(r) /\ task' = [task EXCEPT ![r][p] = "gaveUp"]
    BY <1>1, <2>1 DEF Moves, Slice
  <2>2. CASE task' = [task EXCEPT ![r][p] = "raised"]
    <3>1. Moves(r, p, "raised")
      BY <1>1, <2>2 DEF Moves, Slice
    <3> QED
      BY <3>1
  <2> QED
    BY <1>1, <2>1, <2>2 DEF Raises
<1>2. CASE Answer(r, p)
  <2>1. Moves(r, p, First(r))
    BY <1>2 DEF Answer, Moves, First, Slice, Live, handlerVars
  <2> QED
    BY <2>1
<1>3. CASE Fails(r, p)
  BY <1>1, <1>3 DEF Fails, Live, handlerVars
<1>4. CASE Read(r, p)
  <2>1. CASE task' = [task EXCEPT ![r][p] = "write"]
    <3>1. Moves(r, p, "write")
      BY <1>4, <2>1 DEF Read, Moves, Slice, Live, handlerVars
    <3> QED
      BY <3>1
  <2>2. CASE Raises(r, p)
    BY <1>1, <1>4, <2>2 DEF Read, Live, Slice, handlerVars
  <2> QED
    BY <1>4, <2>1, <2>2 DEF Read
<1>5. CASE Write(r, p)
  <2>1. CASE kind[r] = "final"
    <3>1. Moves(r, p, "store")
      BY <1>5, <2>1 DEF Write, Moves, Slice, Live, handlerVars
    <3> QED
      BY <3>1
  <2>2. CASE kind[r] # "final"
    BY <1>5, <2>2 DEF Write, Finishes, Slice, handlerVars
  <2> QED
    BY <2>1, <2>2
<1>6. CASE Store(r, p)
  <2>1. CASE kind[r] = "initial"
    <3>1. Moves(r, p, "read")
      BY <1>6, <2>1 DEF Store, Moves, Slice, Live, handlerVars
    <3> QED
      BY <3>1
  <2>2. CASE kind[r] # "initial"
    BY <1>6, <2>2 DEF Store, Finishes, Slice, handlerVars
  <2> QED
    BY <2>1, <2>2
<1> QED
  BY <1>2, <1>3, <1>4, <1>5, <1>6 DEF PostStep

-----------------------------------------------------------------------------
(* The handler's steps                                                     *)

\* The handler of r goes from a place it has not ended at to x; tasks stay.
Goes(r, x) ==
  /\ pc[r] \notin Ended
  /\ x \notin {"idle", "gather", "dead"}
  /\ x \in Early => pc[r] \in Early
  /\ x \in Setting => pc[r] \in Setting
  /\ x = "batch" => pc[r] \in Setting
  /\ x \in {"merge", "close", "ok"} => batch[r] > Len(Batch)
  /\ pc[r] = "gather" => Free(r) /\ x \in Ended
  /\ x \in Ended => kind[r] = "redoInitial" \/ pc[r] = "insert" \/ r \notin rows'
  /\ pc[r] = "insert" => x \notin Early
  /\ pc' = [pc EXCEPT ![r] = x]
  /\ rows' \subseteq IF pc[r] = "insert" /\ x = "setup" THEN rows \cup {r} ELSE rows
  /\ (pc[r] = "insert" /\ x = "setup") \/ cur' = cur
  /\ UNCHANGED <<kind, batch, task, at, seen, late, crashes, wiping>>

\* What the finally block comes to, wherever the run is past its insert.
LEMMA FinallyGoes ==
  ASSUME TypeOK, NEW r \in Run, NEW how \in {"ok", "failed"}, Finally(r, how),
         pc[r] \notin Ended \cup Early, pc[r] = "gather" => Free(r),
         how = "ok" => batch[r] > Len(Batch),
         UNCHANGED <<kind, batch, cur, task, at, seen, late, crashes, wiping>>
  PROVE  Goes(r, how)
  BY DEF Goes, Finally, Ended, Early, Setting

\* Most steps of the handler go from one place to another and start no task.
LEMMA HandlerKinds ==
  ASSUME TypeOK, StageInv, NEW r \in Run,
         \/ Look(r) \/ Clear(r) \/ Insert(r) \/ Setup(r) \/ Summarise(r)
         \/ Drop(r) \/ LastBatch(r) \/ GatherRaises(r) \/ Merge(r) \/ Close(r)
  PROVE  \E x : Goes(r, x)
<1>1. CASE Look(r)
  <2>1. PICK x \in {"clear", "insert"} : pc' = [pc EXCEPT ![r] = x]
    BY <1>1 DEF Look
  <2>2. Goes(r, x)
    BY <1>1, <2>1 DEF Look, Goes, Ended, Early, Setting, taskVars
  <2> QED
    BY <2>2
<1>2. CASE Clear(r)
  <2>1. Goes(r, "insert")
    BY <1>2 DEF Clear, Goes, Ended, Early, Setting, taskVars
  <2> QED
    BY <2>1
<1>3. CASE Insert(r)
  <2>1. Goes(r, "setup") \/ Goes(r, "failed")
    BY <1>3 DEF Insert, Goes, Ended, Early, Setting, taskVars
  <2> QED
    BY <2>1
<1>4. CASE Setup(r)
  <2>1. CASE Finally(r, "failed")
    BY <1>4, <2>1, FinallyGoes DEF Setup, Ended, Early, taskVars
  <2>2. CASE ~Finally(r, "failed")
    <3>1. PICK x \in {"summarise", "drop"} : pc' = [pc EXCEPT ![r] = x]
      BY <1>4, <2>2 DEF Setup
    <3>2. Goes(r, x)
      BY <1>4, <2>2, <3>1 DEF Setup, Goes, Ended, Early, Setting, taskVars
    <3> QED
      BY <3>2
  <2> QED
    BY <2>1, <2>2
<1>5. CASE Summarise(r)
  <2>1. CASE Finally(r, "failed")
    BY <1>5, <2>1, FinallyGoes DEF Summarise, Ended, Early, taskVars
  <2>2. CASE pc' = [pc EXCEPT ![r] = "drop"] /\ UNCHANGED rows
    <3>1. Goes(r, "drop")
      BY <1>5, <2>2 DEF Summarise, Goes, Ended, Early, Setting, taskVars
    <3> QED
      BY <3>1
  <2> QED
    BY <1>5, <2>1, <2>2 DEF Summarise
<1>6. CASE Drop(r)
  <2>1. Goes(r, "batch")
    BY <1>6 DEF Drop, Goes, Ended, Early, Setting, taskVars
  <2> QED
    BY <2>1
<1>7. CASE LastBatch(r)
  <2>1. CASE Finally(r, "failed")
    BY <1>7, <2>1, FinallyGoes DEF LastBatch, Ended, Early, taskVars
  <2>2. CASE ~Finally(r, "failed")
    <3>1. PICK x \in {"merge", "close"} : pc' = [pc EXCEPT ![r] = x]
      BY <1>7, <2>2 DEF LastBatch
    <3>2. Goes(r, x)
      BY <1>7, <2>2, <3>1 DEF LastBatch, Goes, Ended, Early, Setting, taskVars
    <3> QED
      BY <3>2
  <2> QED
    BY <2>1, <2>2
<1>8. CASE GatherRaises(r)
  BY <1>8, FinallyGoes DEF GatherRaises, Ended, Early, taskVars
<1>9. CASE Merge(r)
  <2>1. CASE Finally(r, "failed")
    BY <1>9, <2>1, FinallyGoes DEF Merge, Ended, Early, taskVars
  <2>2. CASE pc' = [pc EXCEPT ![r] = "close"] /\ UNCHANGED rows
    <3>1. Goes(r, "close")
      BY <1>9, <2>2 DEF Merge, Goes, Ended, Early, Setting, taskVars, StageInv
    <3> QED
      BY <3>1
  <2> QED
    BY <1>9, <2>1, <2>2 DEF Merge
<1>10. CASE Close(r)
  BY <1>10, FinallyGoes DEF Close, Ended, Early, taskVars, StageInv
<1> QED
  BY <1>1, <1>2, <1>3, <1>4, <1>5, <1>6, <1>7, <1>8, <1>9, <1>10

\* Such a step keeps tasks and batches in step.
LEMMA GoFlow ==
  ASSUME TypeOK, Flow, NEW r \in Run, NEW x, Goes(r, x)
  PROVE  Flow'
<1> USE DEF Flow
<1>1. /\ UNCHANGED <<kind, batch, task, at>>
      /\ pc'[r] = x /\ \A s \in Run : s # r => pc'[s] = pc[s]
  BY DEF Goes, TypeOK
<1>2. AtInv' /\ OneSlice'
  BY <1>1 DEF AtInv, OneSlice
<1>3. FreshInv'
  <2>1. x \in Setting \cup {"batch"} => pc[r] \in Setting
    BY DEF Goes
  <2> QED
    BY <1>1, <2>1 DEF FreshInv
<1>4. StageInv'
  BY <1>1 DEF Goes, StageInv, Ended, Early, Setting
<1>5. CodedInv'
  <2>1. \A s \in Run : Initial(s)' = Initial(s)
    BY <1>1 DEF Initial
  <2> QED
    BY <1>1, <2>1 DEF CodedInv
<1> QED
  BY <1>2, <1>3, <1>4, <1>5

\* Starting a batch: only posts never begun, in the batch the handler is at.
LEMMA StartFlow ==
  ASSUME TypeOK, Flow, NEW r \in Run, StartBatch(r)
  PROVE  Flow'
<1> USE DEF Flow
<1>1. CASE Finally(r, "failed") /\ UNCHANGED task
  <2>1. Goes(r, "failed")
    BY <1>1, FinallyGoes DEF StartBatch, Ended, Early
  <2> QED
    BY <2>1, GoFlow
<1>2. CASE ~(Finally(r, "failed") /\ UNCHANGED task)
  <2>1. /\ batch[r] \in DOMAIN Batch /\ pc[r] = "batch"
        /\ pc'[r] = "gather" /\ \A s \in Run : s # r => pc'[s] = pc[s]
        /\ UNCHANGED <<kind, batch, at>>
    BY <1>2, RunAssumption DEF StartBatch, TypeOK
  <2>2. \A s \in Run, q \in Post : task'[s][q] = task[s][q] \/
          (s = r /\ q \in Batch[batch[r]] /\ task'[s][q] = "llm")
    BY StartPoint
  <2>3. \A q \in Batch[batch[r]] : q \in Post /\ task[r][q] = "none" /\ at[r][q] = 1
    BY <2>1, RunAssumption DEF FreshInv
  <2>4. AtInv'
    BY <2>1, <2>2, <2>3, RunAssumption DEF AtInv, Live, Slice
  <2>5. FreshInv'
    <3>1. SUFFICES ASSUME NEW s \in Run, NEW b \in DOMAIN Batch, NEW q \in Batch[b],
                          b > batch[s] \/ (b = batch[s] /\ pc'[s] \in Setting \cup {"batch"})
                   PROVE  task'[s][q] = "none" /\ at[s][q] = 1
      BY <2>1 DEF FreshInv
    <3>2. (q \in Post /\ b # batch[r]) \/ s # r
      BY <2>1, <3>1, RunAssumption DEF Setting, Early
    <3>3. task[s][q] = "none" /\ at[s][q] = 1
      BY <2>1, <3>1 DEF FreshInv
    <3>4. s = r => q \notin Batch[batch[r]]
      BY <2>1, <3>1, <3>2, RunAssumption
    <3> QED
      BY <2>2, <3>1, <3>3, <3>4, RunAssumption
  <2>6. StageInv'
    <3>1. batch[r] <= Len(Batch)
      BY DEF StartBatch
    <3> QED
      BY <2>1, <2>2, <3>1 DEF StageInv, Live, Slice, Setting, Early, Ended
  <2>7. OneSlice'
    BY <2>1, <2>2 DEF OneSlice, Slice
  <2>8. CodedInv'
    <3>1. \A s \in Run : Initial(s)' = Initial(s)
      BY <2>1 DEF Initial
    <3> QED
      BY <2>1, <2>2, <3>1 DEF CodedInv
  <2> QED
    BY <2>4, <2>5, <2>6, <2>7, <2>8
<1> QED
  BY <1>1, <1>2

\* A batch is gathered when all its posts are settled, for a final run coded.
LEMMA GatheredFlow ==
  ASSUME TypeOK, Flow, NEW r \in Run, Gathered(r)
  PROVE  Flow'
<1> USE DEF Flow
<1>1. /\ pc[r] = "gather" /\ pc'[r] = "batch" /\ batch'[r] = batch[r] + 1
      /\ \A s \in Run : s # r => pc'[s] = pc[s] /\ batch'[s] = batch[s]
      /\ UNCHANGED <<kind, task, at>> /\ batch \in [Run -> Nat]
  BY RunAssumption DEF Gathered, TypeOK, taskVars
<1>2. AtInv' /\ OneSlice'
  BY <1>1 DEF AtInv, OneSlice
<1>3. FreshInv'
  BY <1>1, RunAssumption DEF FreshInv, Setting, Early
<1>4. StageInv'
  <2>1. \A q \in Post : task[r][q] \notin Live
    BY <1>1 DEF Gathered, Settled, StageInv, Live, Slice, Ended
  <2> QED
    BY <1>1, <2>1 DEF StageInv, Setting, Early, Ended
<1>5. CodedInv'
  <2>1. SUFFICES ASSUME NEW s \in Run, ~Initial(s), NEW b \in DOMAIN Batch, b < batch'[s],
                        NEW p \in Batch[b]
                 PROVE  at[s][p] = Chunks[p] + 1
    BY <1>1 DEF CodedInv, Initial
  <2>2. CASE b < batch[s]
    BY <2>1, <2>2 DEF CodedInv
  <2>3. CASE s = r /\ b = batch[r]
    <3>1. p \in Post /\ task[r][p] # "gaveUp"
      BY <2>1, <2>3, RunAssumption DEF CodedInv
    <3>2. task[r][p] = "done"
      BY <2>1, <2>3, <3>1 DEF Gathered, Settled
    <3> QED
      BY <2>3, <3>1, <3>2 DEF AtInv
  <2> QED
    BY <1>1, <2>1, <2>2, <2>3, RunAssumption
<1> QED
  BY <1>2, <1>3, <1>4, <1>5

\* A hang-up takes away only tasks that wait for the LLM.
LEMMA CancelFlow ==
  ASSUME TypeOK, Flow, NEW r \in Run, Cancel(r)
  PROVE  Flow'
<1> USE DEF Flow
<1>1. /\ pc[r] \notin Ended /\ pc'[r] = "failed" /\ UNCHANGED <<kind, batch, at>>
      /\ \A s \in Run : s # r => pc'[s] = pc[s]
  BY DEF Cancel, Finally, Ended, TypeOK
<1>2. \A s \in Run, q \in Post : task'[s][q] = task[s][q] \/
        (s = r /\ task[s][q] = "llm" /\ task'[s][q] = "none")
  BY CancelPoint
<1>3. AtInv'
  BY <1>1, <1>2 DEF AtInv, Live, Slice
<1>4. FreshInv'
  BY <1>1, <1>2, RunAssumption DEF FreshInv, Setting, Early
<1>5. StageInv'
  BY <1>1, <1>2 DEF StageInv, Live, Slice, Setting, Early, Ended
<1>6. OneSlice'
  BY <1>2 DEF OneSlice, Slice
<1>7. CodedInv'
  <2>1. \A s \in Run : Initial(s)' = Initial(s)
    BY <1>1 DEF Initial
  <2> QED
    BY <1>1, <1>2, <2>1 DEF CodedInv
<1> QED
  BY <1>3, <1>4, <1>5, <1>6, <1>7

\* The death of a process takes all tasks of its run away.
LEMMA CrashFlow ==
  ASSUME TypeOK, Flow, NEW r \in Run, Crash(r)
  PROVE  Flow'
<1> USE DEF Flow
<1>1. /\ pc'[r] \in Ended /\ pc[r] # "idle" /\ UNCHANGED <<kind, batch, at>>
      /\ pc'[r] = "ok" => pc[r] = "ok"
      /\ \A s \in Run : s # r => pc'[s] = pc[s]
      /\ \A q \in Post : task'[r][q] = "none"
      /\ \A s \in Run, q \in Post : s # r => task'[s][q] = task[s][q]
  BY DEF Crash, Ended, TypeOK
<1>2. AtInv' /\ OneSlice'
  BY <1>1 DEF AtInv, OneSlice, Live, Slice
<1>3. FreshInv'
  BY <1>1, RunAssumption DEF FreshInv, Setting, Early, Ended
<1>4. StageInv'
  BY <1>1 DEF StageInv, Live, Slice, Setting, Early, Ended
<1>5. CodedInv'
  <2>1. \A s \in Run : Initial(s)' = Initial(s)
    BY <1>1 DEF Initial
  <2> QED
    BY <1>1, <2>1 DEF CodedInv
<1> QED
  BY <1>2, <1>3, <1>4, <1>5

\* Tasks and batches keep in step with the handler through every step.
LEMMA FlowStep ==
  ASSUME TypeOK, Flow, [Next]_vars
  PROVE  Flow'
<1>1. ASSUME NEW r \in Run,
             \/ Look(r) \/ Clear(r) \/ Insert(r) \/ Setup(r) \/ Summarise(r)
             \/ Drop(r) \/ LastBatch(r) \/ GatherRaises(r) \/ Merge(r) \/ Close(r)
      PROVE  Flow'
  BY <1>1, HandlerKinds, GoFlow DEF Flow
<1>2. ASSUME NEW r \in Run, NEW p \in Post, PostStep(r, p)
      PROVE  Flow'
  BY <1>2, PostKinds, MoveFlow, FinishFlow
<1>3. CASE CrashElsewhere \/ Wipe \/ UNCHANGED vars
  <2>1. UNCHANGED <<kind, pc, batch, task, at>>
    BY <1>3 DEF CrashElsewhere, Wipe, vars, handlerVars, taskVars
  <2> QED
    BY <2>1 DEF Flow, AtInv, FreshInv, StageInv, OneSlice, CodedInv, Initial
<1> QED
  BY <1>1, <1>2, <1>3, StartFlow, GatheredFlow, CancelFlow, CrashFlow DEF Next, Handler

-----------------------------------------------------------------------------
(* Types                                                                   *)

\* Every step keeps the types.
LEMMA TypeStep ==
  ASSUME TypeOK, AtInv, StageInv, [Next]_vars
  PROVE  TypeOK'
<1> USE RunAssumption
<1>1. ASSUME NEW r \in Run,
             \/ Look(r) \/ Clear(r) \/ Insert(r) \/ Setup(r) \/ Summarise(r)
             \/ Drop(r) \/ LastBatch(r) \/ GatherRaises(r) \/ Merge(r) \/ Close(r)
      PROVE  TypeOK'
  <2>1. PICK x : Goes(r, x)
    BY <1>1, HandlerKinds
  <2>2. UNCHANGED <<kind, batch, task, at, seen, late, crashes, wiping>> /\ rows' \subseteq Run
    BY <2>1 DEF Goes, TypeOK
  <2>3. cur' \in [Run -> Nat]
    <3>1. UNCHANGED cur \/ cur' = [cur EXCEPT ![r] = 0]
      BY <1>1 DEF Look, Clear, Insert, Setup, Summarise, Drop, LastBatch,
         GatherRaises, Merge, Close
    <3> QED
      BY <3>1 DEF TypeOK
  <2>5. codes' \subseteq Run \X Post \X Nat
    <3>1. codes' \subseteq codes
      BY <1>1 DEF Look, Clear, Insert, Setup, Summarise, Drop, LastBatch,
         GatherRaises, Merge, Close
    <3> QED
      BY <3>1 DEF TypeOK
  <2>4. pc' \in [Run -> {"idle", "clear", "insert", "setup", "summarise", "drop",
                         "batch", "gather", "merge", "close"} \cup Ended]
    BY <1>1 DEF TypeOK, Look, Clear, Insert, Setup, Summarise, Drop, LastBatch,
       GatherRaises, Merge, Close, Finally, Ended
  <2> QED
    BY <2>2, <2>3, <2>4, <2>5 DEF TypeOK
<1>2. ASSUME NEW r \in Run, StartBatch(r) PROVE TypeOK'
  <2>1. task' \in [Run -> [Post -> TaskState]]
    BY <1>2, StartPoint
  <2> QED
    BY <1>2, <2>1 DEF TypeOK, TaskState, StartBatch, Finally, Ended
<1>3. ASSUME NEW r \in Run, Gathered(r) PROVE TypeOK'
  <2>1. batch[r] \in 1..Len(Batch)
    BY <1>3 DEF Gathered, StageInv, TypeOK
  <2>2. batch' \in [Run -> 1..(Len(Batch) + 1)]
    <3>1. batch \in [Run -> 1..(Len(Batch) + 1)] /\ batch' = [batch EXCEPT ![r] = @ + 1]
      BY <1>3 DEF Gathered, TypeOK
    <3>2. batch[r] + 1 \in 1..(Len(Batch) + 1)
      BY <2>1
    <3> QED
      BY <3>1, <3>2
  <2> QED
    BY <1>3, <2>2 DEF TypeOK, Gathered, Ended, taskVars
<1>4. ASSUME NEW r \in Run, Cancel(r) PROVE TypeOK'
  <2>1. task' \in [Run -> [Post -> TaskState]]
    BY <1>4, CancelPoint
  <2> QED
    BY <1>4, <2>1 DEF TypeOK, TaskState, Cancel, Finally, Ended
<1>5. ASSUME NEW r \in Run, Crash(r) PROVE TypeOK'
  BY <1>5 DEF TypeOK, Crash, Ended
<1>6. ASSUME NEW r \in Run, NEW p \in Post, PostStep(r, p) PROVE TypeOK'
  <2>1. /\ task' \in [Run -> [Post -> TaskState]] /\ at' \in [Run -> [Post -> Nat]]
        /\ \A s \in Run, q \in Post : at'[s][q] \in 1..(Chunks[q] + 1)
        /\ UNCHANGED <<kind, pc, batch>>
    <3>1. ASSUME NEW x, Moves(r, p, x) PROVE <2>1
      <4>1. UNCHANGED <<kind, pc, batch, at>> /\ task' \in [Run -> [Post -> TaskState]]
        BY <3>1, MovePoint DEF Moves
      <4>2. /\ at \in [Run -> [Post -> Nat]]
            /\ \A s \in Run, q \in Post : at[s][q] \in 1..(Chunks[q] + 1)
        BY DEF TypeOK
      <4> QED
        BY <4>1, <4>2
    <3>2. CASE Finishes(r, p)
      <4>1. /\ at[r][p] <= Chunks[p] /\ at'[r][p] = at[r][p] + 1
            /\ \A s \in Run, q \in Post : s # r \/ q # p => at'[s][q] = at[s][q]
        BY <3>2, FinishPoint
      <4>2. \A s \in Run, q \in Post : at[s][q] \in 1..(Chunks[q] + 1)
        BY DEF TypeOK
      <4>3. ASSUME NEW s \in Run, NEW q \in Post PROVE at'[s][q] \in 1..(Chunks[q] + 1)
        <5>1. CASE s = r /\ q = p
          <6>1. Chunks[p] \in Nat /\ at[r][p] \in 1..(Chunks[p] + 1)
            BY <4>2, RunAssumption DEF RunAssumption
          <6> QED
            BY <4>1, <5>1, <6>1
        <5>2. CASE s # r \/ q # p
          BY <4>1, <4>2, <5>2
        <5> QED
          BY <5>1, <5>2
      <4> QED
        BY <3>2, <4>3, FinishPoint DEF Finishes
    <3> QED
      BY <1>6, <3>1, <3>2, PostKinds
  <2>2. cur' \in [Run -> Nat] /\ seen' \in [Run -> Nat]
    <3>1. /\ UNCHANGED cur \/ cur' = [cur EXCEPT ![r] = seen[r] + 1]
          /\ UNCHANGED seen \/ seen' = [seen EXCEPT ![r] = cur[r]]
      BY <1>6 DEF PostStep, Answer, Fails, Read, Write, Store
    <3>2. cur \in [Run -> Nat] /\ seen \in [Run -> Nat]
      BY DEF TypeOK
    <3>3. seen[r] + 1 \in Nat /\ cur[r] \in Nat
      BY <3>2
    <3>4. cur' \in [Run -> Nat]
      BY <3>1, <3>2, <3>3
    <3> QED
      BY <3>1, <3>2, <3>3, <3>4
  <2>3. codes' \subseteq Run \X Post \X Nat /\ late' \in [Run -> SUBSET (Post \X Nat)]
    <3>1. /\ UNCHANGED codes \/ codes' = codes \cup {<<r, p, at[r][p]>>}
          /\ UNCHANGED late \/ late' = [late EXCEPT ![r] = late[r] \cup {<<p, at[r][p]>>}]
      BY <1>6 DEF PostStep, Answer, Fails, Read, Write, Store, TypeOK
    <3>2. at[r][p] \in Nat /\ late[r] \cup {<<p, at[r][p]>>} \subseteq Post \X Nat
      BY DEF TypeOK
    <3>3. late' \in [Run -> SUBSET (Post \X Nat)]
      <4> DEFINE new == late[r] \cup {<<p, at[r][p]>>}
      <4>1. late \in [Run -> SUBSET (Post \X Nat)] /\ new \in SUBSET (Post \X Nat)
        BY <3>2 DEF TypeOK
      <4>2. UNCHANGED late \/ late' = [late EXCEPT ![r] = new]
        BY <3>1
      <4> HIDE DEF new
      <4> QED
        BY <4>1, <4>2
    <3> QED
      BY <3>1, <3>2, <3>3 DEF TypeOK
  <2>4. UNCHANGED <<rows, crashes, wiping>>
    BY <1>6 DEF PostStep, Answer, Fails, Read, Write, Store
  <2> QED
    BY <2>1, <2>2, <2>3, <2>4 DEF TypeOK, TaskState
<1>7. CASE CrashElsewhere
  BY <1>7 DEF TypeOK, CrashElsewhere, handlerVars, taskVars
<1>8. CASE Wipe
  BY <1>8 DEF TypeOK, Wipe, handlerVars, taskVars
<1>9. CASE UNCHANGED vars
  BY <1>9 DEF TypeOK, vars, handlerVars, taskVars
<1> QED
  BY <1>1, <1>2, <1>3, <1>4, <1>5, <1>6, <1>7, <1>8, <1>9 DEF Next, Handler

-----------------------------------------------------------------------------
(* Rows, and what is done without them                                     *)

\* Every step keeps rows with runs that are between insert and clean-up.
LEMMA RowStep ==
  ASSUME TypeOK, StageInv, RowInv, [Next]_vars
  PROVE  RowInv'
<1>1. ASSUME NEW r \in Run, NEW x, Goes(r, x) PROVE RowInv'
  <2>1. /\ pc'[r] = x /\ \A s \in Run : s # r => pc'[s] = pc[s]
        /\ UNCHANGED <<kind, wiping>>
    BY <1>1 DEF Goes, TypeOK
  <2>2. rows' \subseteq rows \cup {r}
    BY <1>1 DEF Goes
  <2>3. r \in rows' => x \notin Early /\ (x \in Ended => kind[r] = "redoInitial")
    BY <1>1 DEF Goes, RowInv, Early, Ended
  <2>4. SUFFICES ASSUME NEW s \in rows'
                 PROVE  /\ pc'[s] \notin Early
                        /\ pc'[s] \in Ended => kind[s] = "redoInitial" \/ (pc'[s] = "dead" /\ wiping)
    BY <2>1 DEF RowInv
  <2>5. CASE s = r
    BY <2>1, <2>3, <2>5, <1>1 DEF Goes
  <2>6. CASE s # r
    BY <2>1, <2>2, <2>6 DEF RowInv, TypeOK
  <2> QED
    BY <2>5, <2>6
<1>2. ASSUME NEW r \in Run, StartBatch(r) PROVE RowInv'
  BY <1>2 DEF RowInv, StartBatch, Finally, TypeOK, Early, Ended
<1>3. ASSUME NEW r \in Run, Gathered(r) \/ Cancel(r) \/ Crash(r) PROVE RowInv'
  BY <1>3 DEF RowInv, Gathered, Cancel, Crash, Finally, TypeOK, Early, Ended
<1>4. ASSUME NEW r \in Run, NEW p \in Post, PostStep(r, p) PROVE RowInv'
  <2>1. UNCHANGED <<rows, pc, kind, wiping>>
    BY <1>4 DEF PostStep, Answer, Fails, Read, Write, Store, handlerVars
  <2> QED
    BY <2>1 DEF RowInv
<1>5. CASE CrashElsewhere \/ Wipe \/ UNCHANGED vars
  BY <1>5 DEF RowInv, CrashElsewhere, Wipe, vars, handlerVars
<1> QED
  BY <1>1, <1>2, <1>3, <1>4, <1>5, HandlerKinds DEF Next, Handler

\* No step lets a task of a final run that has answered write or store.
LEMMA EndedStep ==
  ASSUME TypeOK, StageInv, RowInv, EndedInv, [Next]_vars
  PROVE  EndedInv'
<1>1. ASSUME NEW r \in Run, NEW x, Goes(r, x) PROVE EndedInv'
  <2>1. /\ pc'[r] = x /\ \A s \in Run : s # r => pc'[s] = pc[s]
        /\ UNCHANGED <<kind, task>>
    BY <1>1 DEF Goes, TypeOK
  <2>2. \A p \in Post : task[r][p] \notin Slice
    BY <1>1 DEF Goes, StageInv, Live, Free
  <2> QED
    BY <2>1, <2>2 DEF EndedInv, Slice
<1>2. ASSUME NEW r \in Run, StartBatch(r) PROVE EndedInv'
  <2>1. \A p \in Post : task[r][p] \notin Slice
    BY <1>2 DEF StartBatch, StageInv, Live, Ended
  <2>2. \A s \in Run, p \in Post : task'[s][p] = task[s][p] \/ (s = r /\ task'[s][p] = "llm")
    BY <1>2, StartPoint
  <2>3. UNCHANGED kind /\ \A s \in Run : s # r => pc'[s] = pc[s]
    BY <1>2 DEF StartBatch, Finally, TypeOK
  <2> QED
    BY <2>1, <2>2, <2>3 DEF EndedInv, Slice
<1>3. ASSUME NEW r \in Run, Cancel(r) PROVE EndedInv'
  <2>1. \A s \in Run, p \in Post : task'[s][p] = task[s][p] \/ task'[s][p] = "none"
    BY <1>3, CancelPoint
  <2>2. UNCHANGED kind /\ Free(r) /\ \A s \in Run : s # r => pc'[s] = pc[s]
    BY <1>3 DEF Cancel, Finally, TypeOK
  <2> QED
    BY <2>1, <2>2 DEF EndedInv, Slice, Free
<1>4. ASSUME NEW r \in Run, Gathered(r) PROVE EndedInv'
  BY <1>4 DEF EndedInv, Gathered, TypeOK, Ended, taskVars
<1>7. ASSUME NEW r \in Run, Crash(r) PROVE EndedInv'
  <2>1. /\ \A s \in Run : s # r => pc'[s] = pc[s] /\ task'[s] = task[s]
        /\ \A p \in Post : task'[r][p] = "none"
        /\ UNCHANGED kind
    BY <1>7 DEF Crash, TypeOK
  <2> QED
    BY <2>1 DEF EndedInv
<1>5. ASSUME NEW r \in Run, NEW p \in Post, PostStep(r, p) PROVE EndedInv'
  <2>1. UNCHANGED <<kind, pc>> /\ \A s \in Run, q \in Post :
          s # r \/ q # p => task'[s][q] = task[s][q]
    <3>1. ASSUME NEW x, Moves(r, p, x) PROVE <2>1
      BY <3>1, MovePoint DEF Moves
    <3>2. CASE Finishes(r, p)
      <4>1. PICK x \in After(r, p) : task' = [task EXCEPT ![r] = [task[r] EXCEPT ![p] = x]]
        BY <3>2, ResumeKinds DEF Finishes
      <4> QED
        BY <3>2, <4>1 DEF Finishes, TypeOK
    <3> QED
      BY <1>5, <3>1, <3>2, PostKinds
  <2>2. SUFFICES ASSUME kind[r] = "final", pc[r] \in Ended
                 PROVE  task'[r][p] \notin {"write", "store"}
    BY <2>1 DEF EndedInv
  <2>3. task[r][p] \in {"llm", "read"}
    BY <1>5, <2>2 DEF EndedInv, PostStep, Answer, Fails, Read, Write, Store
  <2>4. r \notin rows
    BY <2>2, <2>3 DEF RowInv, StageInv
  <2>5. CASE Answer(r, p)
    BY <2>5, <2>2 DEF Answer, First, TypeOK
  <2>6. CASE Raises(r, p)
    BY <2>6 DEF Raises, TypeOK
  <2> QED
    BY <1>5, <2>3, <2>4, <2>5, <2>6 DEF PostStep, Fails, Read, Write, Store
<1>6. CASE CrashElsewhere \/ Wipe \/ UNCHANGED vars
  BY <1>6 DEF EndedInv, CrashElsewhere, Wipe, vars, handlerVars, taskVars
<1> QED
  BY <1>1, <1>2, <1>3, <1>4, <1>5, <1>6, <1>7, HandlerKinds DEF Next, Handler

-----------------------------------------------------------------------------
(* What one step of a task does                                            *)

\* A task's step changes its own task and chunk only.
LEMMA PostPoint ==
  ASSUME TypeOK, AtInv, NEW r \in Run, NEW p \in Post, PostStep(r, p)
  PROVE  /\ \A s \in Run, q \in Post : s # r \/ q # p =>
              task'[s][q] = task[s][q] /\ at'[s][q] = at[s][q]
         /\ UNCHANGED <<kind, pc, batch, rows, wiping>>
<1>1. ASSUME NEW x, Moves(r, p, x)
      PROVE  /\ \A s \in Run, q \in Post : s # r \/ q # p =>
                  task'[s][q] = task[s][q] /\ at'[s][q] = at[s][q]
             /\ UNCHANGED <<kind, pc, batch>>
  BY <1>1, MovePoint DEF Moves
<1>2. UNCHANGED <<rows, wiping>>
  BY DEF PostStep, Answer, Fails, Read, Write, Store
<1>3. CASE Finishes(r, p)
  BY <1>2, <1>3, FinishPoint DEF Finishes
<1> QED
  BY <1>1, <1>2, <1>3, PostKinds

\* What an exception makes of a task.
LEMMA RaisePoint ==
  ASSUME TypeOK, NEW r \in Run, NEW p \in Post, Raises(r, p)
  PROVE  task'[r][p] \in {"gaveUp", "raised"}
  BY DEF Raises, TypeOK

\* What going on to the next chunk makes of a task.
LEMMA ResumePoint ==
  ASSUME TypeOK, NEW r \in Run, NEW p \in Post, Resume(r, p)
  PROVE  /\ task'[r][p] \in {"llm", "done", "gaveUp", "raised"}
         /\ at'[r][p] = at[r][p] + 1
<1>1. at' = [at EXCEPT ![r] = [at[r] EXCEPT ![p] = at[r][p] + 1]]
  BY DEF Resume, TypeOK
<1>2. PICK x \in After(r, p) : task' = [task EXCEPT ![r] = [task[r] EXCEPT ![p] = x]]
  BY ResumeKinds
<1>3. task'[r][p] = x /\ at'[r][p] = at[r][p] + 1
  BY <1>1, <1>2 DEF TypeOK
<1> QED
  BY <1>2, <1>3 DEF After

-----------------------------------------------------------------------------
(* Chunks stored without a row                                             *)

\* The part of LateInv about one run.
LateOf(r) == late[r] # {} =>
  /\ r \notin rows /\ pc[r] \notin Early
  /\ kind[r] = "final" =>
       /\ \A p \in Post : task[r][p] \notin {"write", "store"}
       /\ \A c, d \in late[r] : c = d
  /\ kind[r] = "initial" => \A c \in late[r] :
       /\ c[2] = at[r][c[1]]
       /\ \/ task[r][c[1]] \in {"read", "gaveUp", "raised"}
          \/ task[r][c[1]] = "none" /\ pc[r] \in Ended

\* A step of the handler keeps what is known of late chunks.
LEMMA LateHandler ==
  ASSUME TypeOK, FreshInv, StageInv, LateInv, NEW r \in Run,
         (\E x : Goes(r, x)) \/ StartBatch(r) \/ Gathered(r) \/ Cancel(r) \/ Crash(r)
  PROVE  LateInv'
<1>1. ASSUME NEW x, Goes(r, x) PROVE LateInv'
  <2>1. /\ pc'[r] = x /\ \A s \in Run : s # r => pc'[s] = pc[s]
        /\ UNCHANGED <<kind, task, at, late>>
        /\ pc[r] \notin Ended
        /\ x \in Early => pc[r] \in Early
    BY <1>1 DEF Goes, TypeOK
  <2>2. \A s \in Run : late[s] # {} => s \notin rows'
    BY <1>1 DEF Goes, LateInv, Early
  <2> QED
    BY <2>1, <2>2 DEF LateInv
<1>2. CASE StartBatch(r)
  <2>1. CASE Finally(r, "failed")
    <3>1. rows' \subseteq rows /\ pc[r] = "batch" /\ pc'[r] = "failed"
          /\ \A s \in Run : s # r => pc'[s] = pc[s]
      BY <1>2, <2>1 DEF StartBatch, Finally, TypeOK
    <3>2. \A s \in Run, q \in Post : task'[s][q] = task[s][q]
      BY <1>2, <3>1, StartPoint
    <3>3. UNCHANGED <<kind, at, late>>
      BY <1>2 DEF StartBatch
    <3>4. \A s \in Run : \A c \in late[s] : c[1] \in Post
      BY DEF TypeOK
    <3> QED
      BY <3>1, <3>2, <3>3, <3>4 DEF LateInv, Early, Ended
  <2>2. CASE ~Finally(r, "failed")
    <3>1. /\ batch[r] \in DOMAIN Batch /\ pc[r] = "batch" /\ pc'[r] = "gather"
          /\ \A s \in Run : s # r => pc'[s] = pc[s]
          /\ UNCHANGED <<kind, at, late, rows>>
      BY <1>2, <2>2, RunAssumption DEF StartBatch, TypeOK
    <3>2. \A s \in Run, q \in Post : task'[s][q] = task[s][q] \/
            (s = r /\ q \in Batch[batch[r]] /\ task'[s][q] = "llm")
      BY <1>2, StartPoint
    <3>3. \A q \in Batch[batch[r]] : task[r][q] = "none"
      BY <3>1 DEF FreshInv
    <3>4. \A s \in Run : \A c \in late[s] : c[1] \in Post
      BY DEF TypeOK
    <3>5. kind[r] = "initial" => \A c \in late[r] : c[1] \notin Batch[batch[r]]
      BY <3>1, <3>3 DEF LateInv, Ended
    <3>6. SUFFICES ASSUME NEW s \in Run PROVE LateOf(s)'
      BY DEF LateInv, LateOf
    <3>7. LateOf(s)
      BY DEF LateInv, LateOf
    <3> QED
      BY <3>1, <3>2, <3>4, <3>5, <3>7 DEF LateOf, Early, Ended
  <2> QED
    BY <2>1, <2>2
<1>3. CASE Gathered(r)
  <2>1. /\ pc[r] = "gather" /\ pc'[r] = "batch" /\ \A s \in Run : s # r => pc'[s] = pc[s]
        /\ UNCHANGED <<kind, rows, task, at, late>>
    BY <1>3 DEF Gathered, TypeOK, taskVars
  <2> QED
    BY <2>1 DEF LateInv, Early, Ended
<1>4. CASE Cancel(r)
  <2>1. /\ pc'[r] = "failed" /\ \A s \in Run : s # r => pc'[s] = pc[s]
        /\ rows' \subseteq rows /\ UNCHANGED <<kind, at, late>>
    BY <1>4 DEF Cancel, Finally, TypeOK
  <2>2. \A s \in Run, q \in Post : task'[s][q] = task[s][q] \/
          (s = r /\ task[s][q] = "llm" /\ task'[s][q] = "none")
    BY <1>4, CancelPoint
  <2>3. \A s \in Run : \A c \in late[s] : c[1] \in Post
    BY DEF TypeOK
  <2>4. SUFFICES ASSUME NEW s \in Run PROVE LateOf(s)'
    BY DEF LateInv, LateOf
  <2>5. LateOf(s)
    BY DEF LateInv, LateOf
  <2> QED
    BY <2>1, <2>2, <2>3, <2>5 DEF LateOf, Early, Ended
<1>5. CASE Crash(r)
  <2>1. /\ pc'[r] \in Ended /\ \A s \in Run : s # r => pc'[s] = pc[s] /\ task'[s] = task[s]
        /\ \A q \in Post : task'[r][q] = "none"
        /\ UNCHANGED <<kind, rows, at, late>>
    BY <1>5 DEF Crash, TypeOK, Ended
  <2>2. \A s \in Run : \A c \in late[s] : c[1] \in Post
    BY DEF TypeOK
  <2>3. SUFFICES ASSUME NEW s \in Run PROVE LateOf(s)'
    BY DEF LateInv, LateOf
  <2>4. LateOf(s)
    BY DEF LateInv, LateOf
  <2> QED
    BY <2>1, <2>2, <2>4 DEF LateOf, Early, Ended
<1> QED
  BY <1>1, <1>2, <1>3, <1>4, <1>5

\* A step of a task keeps it: the first chunk a run stores late is its last,
\* of the post or of all, because the look at the row comes next.
LEMMA LatePost ==
  ASSUME TypeOK, AtInv, StageInv, OneSlice, LateInv, NEW r \in Run, NEW p \in Post,
         PostStep(r, p)
  PROVE  LateInv'
<1>1. /\ \A s \in Run, q \in Post : s # r \/ q # p =>
           task'[s][q] = task[s][q] /\ at'[s][q] = at[s][q]
      /\ UNCHANGED <<kind, pc, rows>>
  BY PostPoint
<1>2. \A s \in Run : s # r => late'[s] = late[s]
  BY DEF PostStep, Answer, Fails, Read, Write, Store, TypeOK
<1>3. \A s \in Run : \A c \in late[s] : c[1] \in Post
  BY DEF TypeOK
<1>4. SUFFICES LateOf(r)'
  <2>1. ASSUME NEW s \in Run, s # r PROVE LateOf(s)'
    <3>1. LateOf(s)
      BY DEF LateInv, LateOf
    <3> QED
      BY <1>1, <1>2, <1>3, <2>1, <3>1 DEF LateOf
  <2> QED
    BY <2>1 DEF LateInv, LateOf
<1>5. LateOf(r)
  BY DEF LateInv, LateOf
<1>6. ASSUME task[r][p] \in {"llm", "read"}, UNCHANGED <<late, at>>,
             \/ task'[r][p] \in {"gaveUp", "raised"}
             \/ task[r][p] = "llm" /\ task'[r][p] = First(r)
      PROVE  LateOf(r)'
  BY <1>1, <1>3, <1>5, <1>6 DEF LateOf, First
<1>7. CASE Answer(r, p)
  BY <1>6, <1>7 DEF Answer, TypeOK
<1>8. CASE Fails(r, p)
  BY <1>6, <1>8, RaisePoint DEF Fails
<1>9. CASE Read(r, p)
  <2>1. CASE r \in rows
    BY <1>5, <1>9, <2>1 DEF Read, LateOf
  <2>2. CASE r \notin rows
    BY <1>6, <1>9, <2>2, RaisePoint DEF Read
  <2> QED
    BY <2>1, <2>2
<1>10. CASE Write(r, p)
  <2>1. UNCHANGED late /\ task[r][p] = "write"
    BY <1>10 DEF Write
  <2> QED
    BY <1>1, <1>3, <1>5, <2>1 DEF LateOf
<1>11. CASE Store(r, p)
  <2>1. CASE r \in rows
    BY <1>5, <1>11, <2>1 DEF Store, LateOf
  <2>2. CASE r \notin rows
    <3>4. task[r][p] = "store" /\ pc[r] \notin Early
      BY <1>11 DEF Store, StageInv, Live, Slice, Early, Ended
    <3>5. late'[r] = late[r] \cup {<<p, at[r][p]>>}
      BY <1>11, <2>2 DEF Store, TypeOK
    <3>1. /\ task[r][p] = "store" /\ pc[r] \notin Early
          /\ late'[r] = late[r] \cup {<<p, at[r][p]>>}
      BY <3>4, <3>5
    <3>2. kind[r] = "final" =>
            /\ late[r] = {} /\ task'[r][p] \notin {"write", "store"}
            /\ \A q \in Post : q # p => task[r][q] \notin {"write", "store"}
      BY <1>5, <1>11, <3>1, ResumePoint DEF Store, LateOf, OneSlice, Slice
    <3>3. kind[r] = "initial" =>
            /\ task'[r][p] = "read" /\ at'[r][p] = at[r][p]
            /\ \A c \in late[r] : c[1] # p
      <4>1. \A c \in late[r] : c[1] = p /\ kind[r] = "initial" => FALSE
        BY <1>5, <3>1 DEF LateOf
      <4> QED
        BY <1>11, <4>1 DEF Store, TypeOK
    <3> QED
      BY <1>1, <1>3, <1>5, <2>2, <3>1, <3>2, <3>3 DEF LateOf
  <2> QED
    BY <2>1, <2>2
<1> QED
  BY <1>7, <1>8, <1>9, <1>10, <1>11 DEF PostStep

\* Every step keeps what is known of the chunks stored late.
LEMMA LateStep ==
  ASSUME TypeOK, AtInv, FreshInv, StageInv, OneSlice, LateInv, [Next]_vars
  PROVE  LateInv'
<1>1. CASE CrashElsewhere \/ Wipe \/ UNCHANGED vars
  <2>1. UNCHANGED <<kind, pc, task, at, late>> /\ rows' \subseteq rows
    BY <1>1 DEF CrashElsewhere, Wipe, vars, handlerVars, taskVars
  <2> QED
    BY <2>1 DEF LateInv
<1> QED
  BY <1>1, HandlerKinds, LateHandler, LatePost DEF Next, Handler

-----------------------------------------------------------------------------
(* The count kept in the row                                               *)

\* There are finitely many chunks.
LEMMA ChunkFinite == IsFiniteSet(Chunk)
<1> DEFINE of(p) == {p} \X (1..Chunks[p])
           f == [p \in Post |-> of(p)]
           T == {of(p) : p \in Post}
<1>1. \A p \in Post : IsFiniteSet(of(p))
  <2>1. TAKE p \in Post
  <2>2. IsFiniteSet({p})
    BY FS_Singleton
  <2>3. Chunks[p] \in Int
    BY RunAssumption
  <2>4. IsFiniteSet(1..Chunks[p])
    BY <2>3, FS_Interval
  <2> QED
    BY <2>2, <2>4, FS_Product
<1>2. IsFiniteSet(T)
  <2>1. f \in Surjection(Post, T)
    <3>1. f \in [Post -> T]
      OBVIOUS
    <3>2. \A t \in T : \E p \in Post : f[p] = t
      OBVIOUS
    <3> QED
      BY <3>1, <3>2 DEF Surjection
  <2> QED
    BY <2>1, RunAssumption, FS_Surjection
<1>3. \A t \in T : IsFiniteSet(t)
  BY <1>1
<1> QED
  BY <1>2, <1>3, FS_UNION DEF Chunk

\* A pair is a chunk if its second part is a chunk of the post.
LEMMA InChunk ==
  ASSUME NEW p \in Post, NEW i \in 1..Chunks[p]
  PROVE  <<p, i>> \in Chunk
  BY DEF Chunk

\* Whatever is counted is finite.
LEMMA CountedFinite == \A r \in Run : IsFiniteSet(Counted(r))
  BY ChunkFinite, FS_Subset DEF Counted

\* The chunks counted depend on where the run's tasks are, and for a final
\* run on which of them have counted but not stored.
LEMMA CountedSame ==
  ASSUME NEW r \in Run, kind' = kind, \A q \in Post : at'[r][q] = at[r][q],
         kind[r] = "final" => \A q \in Post : task'[r][q] = "store" <=> task[r][q] = "store"
  PROVE  Counted(r)' = Counted(r)
<1>1. \A c \in Chunk : c[1] \in Post
  BY DEF Chunk
<1> QED
  BY <1>1 DEF Counted, Chunk

\* Counting one more chunk makes one more chunk counted.
LEMMA CountedMore ==
  ASSUME TypeOK, NEW r \in Run, NEW p \in Post, at[r][p] <= Chunks[p], kind' = kind,
         \A q \in Post : q # p => at'[r][q] = at[r][q] /\ task'[r][q] = task[r][q],
         ~(kind[r] = "final" /\ task[r][p] = "store"),
         \/ at'[r][p] = at[r][p] /\ kind[r] = "final" /\ task'[r][p] = "store"
         \/ at'[r][p] = at[r][p] + 1 /\ task'[r][p] # "store"
  PROVE  Cardinality(Counted(r)') = Cardinality(Counted(r)) + 1
<1> DEFINE c == <<p, at[r][p]>>
<1>1. at[r][p] \in 1..Chunks[p]
  BY RunAssumption DEF TypeOK
<1>2. c \in Chunk
  BY <1>1, InChunk
<1>3. \A d \in Chunk : /\ d = <<d[1], d[2]>> /\ d[1] \in Post /\ d[2] \in Nat
  BY RunAssumption DEF Chunk
<1>4. c \notin Counted(r)
  BY <1>1 DEF Counted
<1>5. Counted(r)' = Counted(r) \cup {c}
  <2>1. Chunk' = Chunk
    BY DEF Chunk
  <2>2. ASSUME NEW d \in Chunk
        PROVE  d \in Counted(r)' <=> d \in Counted(r) \/ d = c
    <3>1. CASE d[1] # p
      BY <1>3, <2>1, <3>1 DEF Counted
    <3>2. CASE d[1] = p
      <4>1. d = c <=> d[2] = at[r][p]
        BY <1>3, <3>2
      <4>2. at[r][p] \in Nat /\ d[2] \in Nat
        BY <1>1, <1>3
      <4> QED
        BY <2>1, <3>2, <4>1, <4>2 DEF Counted
    <3> QED
      BY <3>1, <3>2
  <2> QED
    BY <1>2, <2>1, <2>2 DEF Counted
<1> HIDE DEF c
<1> QED
  BY <1>4, <1>5, CountedFinite, FS_AddElement

\* Storing after it has counted changes nothing of what a final run counted.
LEMMA CountedResumed ==
  ASSUME TypeOK, NEW r \in Run, NEW p \in Post, kind' = kind, kind[r] = "final",
         task[r][p] = "store", task'[r][p] # "store", at'[r][p] = at[r][p] + 1,
         \A q \in Post : q # p => at'[r][q] = at[r][q] /\ task'[r][q] = task[r][q]
  PROVE  Counted(r)' = Counted(r)
<1>1. \A d \in Chunk : d[1] \in Post /\ d[2] \in Nat
  BY RunAssumption DEF Chunk
<1>2. at[r][p] \in Nat
  BY DEF TypeOK
<1>3. ASSUME NEW d \in Chunk PROVE d \in Counted(r)' <=> d \in Counted(r)
  <2>1. Chunk' = Chunk
    BY DEF Chunk
  <2>2. CASE d[1] # p
    BY <1>1, <2>1, <2>2 DEF Counted
  <2>3. CASE d[1] = p
    BY <1>1, <1>2, <2>1, <2>3 DEF Counted
  <2> QED
    BY <2>2, <2>3
<1> QED
  BY <1>3 DEF Counted, Chunk

\* The part of CountInv about one run.
CountOf(r) == r \in rows /\ pc[r] # "dead" =>
  /\ kind[r] \in {"initial", "final"} => cur[r] = Cardinality(Counted(r))
  /\ \A p \in Post : task[r][p] = "write" => seen[r] = cur[r]

\* A run whose tasks have counted nothing.
LEMMA CountedNone ==
  ASSUME NEW r \in Run, \A p \in Post : task[r][p] = "none" /\ at[r][p] = 1
  PROVE  Cardinality(Counted(r)) = 0
<1>1. \A c \in Chunk : c[1] \in Post /\ c[2] \in Nat /\ c[2] >= 1
  BY RunAssumption DEF Chunk
<1>2. Counted(r) = {}
  BY <1>1 DEF Counted
<1> QED
  BY <1>2, FS_EmptySet

\* A step that leaves a run's tasks and row alone leaves its count right.
LEMMA CountKept ==
  ASSUME NEW r \in Run, CountOf(r), kind' = kind,
         cur'[r] = cur[r], seen'[r] = seen[r], r \in rows' => r \in rows,
         pc'[r] # "dead" => pc[r] # "dead",
         \A q \in Post : /\ at'[r][q] = at[r][q]
                         /\ task'[r][q] \in {"write", "store"} => task'[r][q] = task[r][q]
                         /\ task[r][q] = "store" => task'[r][q] = "store"
  PROVE  CountOf(r)'
<1>1. Counted(r)' = Counted(r)
  BY CountedSame
<1> QED
  BY <1>1 DEF CountOf

\* A step of the handler keeps the count right.
LEMMA CountHandler ==
  ASSUME TypeOK, StageInv, RowInv, CountInv, NEW r \in Run,
         \/ \E x : Goes(r, x) /\ (pc[r] = "insert" => x = "failed")
         \/ StartBatch(r) \/ Gathered(r) \/ Cancel(r) \/ Crash(r)
  PROVE  CountInv'
<1> SUFFICES ASSUME NEW s \in Run PROVE CountOf(s)'
  <2>1. rows' \subseteq Run
    BY DEF Goes, StartBatch, Gathered, Cancel, Crash, Finally, TypeOK
  <2> QED
    BY <2>1 DEF CountInv, CountOf
<1>1. CountOf(s)
  BY DEF CountInv, CountOf
<1>2. ASSUME NEW x, Goes(r, x), pc[r] = "insert" => x = "failed" PROVE CountOf(s)'
  <2>1. /\ kind' = kind /\ cur' = cur /\ seen' = seen /\ rows' \subseteq rows
        /\ at' = at /\ task' = task
        /\ pc[r] # "dead" /\ \A t \in Run : t # r => pc'[t] = pc[t]
    BY <1>2 DEF Goes, TypeOK, Ended
  <2> QED
    BY <1>1, <2>1, CountKept
<1>3. CASE StartBatch(r)
  <2>1. /\ kind' = kind /\ cur' = cur /\ seen' = seen /\ rows' \subseteq rows
        /\ at' = at /\ pc[r] = "batch" /\ \A t \in Run : t # r => pc'[t] = pc[t]
    BY <1>3 DEF StartBatch, Finally, TypeOK
  <2>2. \A q \in Post : task[r][q] \notin Live
    BY <2>1 DEF StageInv, Ended
  <2>3. \A t \in Run, q \in Post : task'[t][q] = task[t][q] \/ (t = r /\ task'[t][q] = "llm")
    BY <1>3, StartPoint
  <2>4. \A q \in Post : /\ task'[s][q] \in {"write", "store"} => task'[s][q] = task[s][q]
                        /\ task[s][q] = "store" => task'[s][q] = "store"
    BY <2>2, <2>3 DEF Live, Slice
  <2> QED
    BY <1>1, <2>1, <2>4, CountKept
<1>4. CASE Gathered(r)
  <2>1. /\ kind' = kind /\ cur' = cur /\ seen' = seen /\ rows' = rows
        /\ at' = at /\ task' = task /\ pc[r] = "gather"
        /\ \A t \in Run : t # r => pc'[t] = pc[t]
    BY <1>4 DEF Gathered, TypeOK, taskVars
  <2> QED
    BY <1>1, <2>1, CountKept
<1>5. CASE Cancel(r)
  <2>1. /\ kind' = kind /\ cur' = cur /\ seen' = seen /\ rows' \subseteq rows
        /\ at' = at /\ pc[r] # "dead" /\ \A t \in Run : t # r => pc'[t] = pc[t]
    BY <1>5 DEF Cancel, Finally, TypeOK
  <2>2. \A t \in Run, q \in Post : task'[t][q] = task[t][q] \/
          (t = r /\ task[t][q] = "llm" /\ task'[t][q] = "none")
    BY <1>5, CancelPoint
  <2>3. \A q \in Post : /\ task'[s][q] \in {"write", "store"} => task'[s][q] = task[s][q]
                        /\ task[s][q] = "store" => task'[s][q] = "store"
    BY <2>2
  <2> QED
    BY <1>1, <2>1, <2>3, CountKept
<1>6. CASE Crash(r)
  <2>1. /\ kind' = kind /\ cur' = cur /\ seen' = seen /\ rows' = rows /\ at' = at
        /\ \A q \in Post : task'[r][q] = "none"
        /\ \A t \in Run : t # r => pc'[t] = pc[t] /\ task'[t] = task[t]
        /\ pc'[r] # "dead" => pc[r] \in Ended /\ pc[r] # "dead"
    BY <1>6 DEF Crash, TypeOK
  <2>2. CASE s = r
    BY <2>1, <2>2 DEF CountOf, RowInv
  <2>3. CASE s # r
    BY <1>1, <2>1, <2>3, CountKept
  <2> QED
    BY <2>2, <2>3
<1> QED
  BY <1>2, <1>3, <1>4, <1>5, <1>6

\* A run that inserts its row has counted nothing, and the row says 0.
LEMMA CountInsert ==
  ASSUME TypeOK, FreshInv, StageInv, CountInv, NEW r \in Run, Insert(r),
         rows \cap Rivals(r) = {}
  PROVE  CountInv'
<1>1. /\ rows' = rows \cup {r} /\ cur'[r] = 0
      /\ \A t \in Run : t # r => cur'[t] = cur[t] /\ pc'[t] = pc[t]
      /\ UNCHANGED <<kind, task, at, seen>>
  BY DEF Insert, TypeOK, taskVars
<1>2. \A q \in Post : task'[r][q] = "none" /\ at'[r][q] = 1
  <2>1. batch[r] = 1 /\ pc[r] \in Setting
    BY DEF Insert, StageInv, Setting, Early
  <2>2. \A b \in DOMAIN Batch : b > 1 \/ b = 1
    BY RunAssumption
  <2> QED
    BY <1>1, <2>1, <2>2, RunAssumption DEF FreshInv
<1>3. Cardinality(Counted(r)) = 0 /\ Counted(r)' = Counted(r)
  BY <1>1, <1>2, CountedNone, CountedSame
<1>4. CountOf(r)'
  BY <1>1, <1>2, <1>3 DEF CountOf
<1>5. ASSUME NEW s \in Run, s # r PROVE CountOf(s)'
  BY <1>1, <1>5, CountKept DEF CountInv, CountOf
<1> QED
  BY <1>1, <1>4, <1>5 DEF CountInv, CountOf, TypeOK

\* A task's step keeps the count right: between its read and its write no
\* other task of the run reads or writes, and no other run writes the row.
LEMMA CountPost ==
  ASSUME TypeOK, AtInv, OneSlice, CountInv, NEW r \in Run, NEW p \in Post, PostStep(r, p)
  PROVE  CountInv'
<1>1. /\ \A s \in Run, q \in Post : s # r \/ q # p =>
           task'[s][q] = task[s][q] /\ at'[s][q] = at[s][q]
      /\ UNCHANGED <<kind, pc, rows>>
  BY PostPoint
<1>2. \A s \in Run : s # r => cur'[s] = cur[s] /\ seen'[s] = seen[s]
  BY DEF PostStep, Answer, Fails, Read, Write, Store, TypeOK
<1>3. SUFFICES CountOf(r)'
  <2>1. ASSUME NEW s \in Run, s # r PROVE CountOf(s)'
    BY <1>1, <1>2, <2>1, CountKept DEF CountInv, CountOf
  <2> QED
    BY <1>1, <2>1 DEF CountInv, CountOf, TypeOK
<1>4. CountOf(r)
  BY DEF CountInv, CountOf
<1>5. CASE Answer(r, p)
  <2>1. /\ UNCHANGED <<cur, seen, at>> /\ task[r][p] = "llm"
        /\ task'[r][p] = First(r)
    BY <1>5 DEF Answer, TypeOK
  <2>2. Counted(r)' = Counted(r)
    BY <1>1, <2>1, CountedSame DEF First
  <2> QED
    BY <1>1, <1>4, <2>1, <2>2 DEF CountOf, First
<1>6. CASE Fails(r, p)
  <2>1. /\ UNCHANGED <<cur, seen, at>> /\ task[r][p] = "llm"
        /\ task'[r][p] \in {"gaveUp", "raised"}
    BY <1>6, RaisePoint DEF Fails
  <2> QED
    BY <1>1, <1>4, <2>1, CountKept
<1>7. CASE Read(r, p)
  <2>1. /\ UNCHANGED <<cur, at>> /\ task[r][p] = "read"
        /\ task'[r][p] \in {"gaveUp", "raised", "write"}
        /\ r \in rows => seen'[r] = cur[r]
    BY <1>7, RaisePoint DEF Read, TypeOK
  <2>2. Counted(r)' = Counted(r)
    BY <1>1, <2>1, CountedSame
  <2>3. \A q \in Post : q # p => task[r][q] \notin Slice
    BY <2>1 DEF OneSlice, Slice
  <2> QED
    BY <1>1, <1>4, <2>1, <2>2, <2>3 DEF CountOf, Slice
<1>8. CASE Write(r, p)
  <2>1. SUFFICES ASSUME r \in rows, pc[r] # "dead" PROVE CountOf(r)'
    BY <1>1 DEF CountOf
  <2>2. /\ task[r][p] = "write" /\ seen[r] = cur[r] /\ cur'[r] = cur[r] + 1
    BY <1>4, <1>8, <2>1 DEF Write, CountOf, TypeOK
  <2>3. \A q \in Post : q # p => task'[r][q] \notin Slice
    BY <1>1, <2>2 DEF OneSlice, Slice
  <2>4. at[r][p] <= Chunks[p]
    BY <2>2 DEF AtInv, Live, Slice
  <2>5. /\ task'[r][p] # "write"
        /\ \/ at'[r][p] = at[r][p] /\ kind[r] = "final" /\ task'[r][p] = "store"
           \/ at'[r][p] = at[r][p] + 1 /\ task'[r][p] # "store"
    <3>1. CASE kind[r] = "final"
      BY <1>8, <3>1 DEF Write, TypeOK
    <3>2. CASE kind[r] # "final"
      BY <1>8, <3>2, ResumePoint DEF Write
    <3> QED
      BY <3>1, <3>2
  <2>6. Cardinality(Counted(r)') = Cardinality(Counted(r)) + 1
    BY <1>1, <2>2, <2>4, <2>5, CountedMore
  <2> QED
    BY <1>4, <1>1, <2>1, <2>2, <2>3, <2>5, <2>6 DEF CountOf, Slice
<1>9. CASE Store(r, p)
  <2>1. UNCHANGED <<cur, seen>> /\ task[r][p] = "store"
    BY <1>9 DEF Store
  <2>2. CASE kind[r] = "initial"
    <3>1. task'[r][p] = "read" /\ at' = at
      BY <1>9, <2>2 DEF Store, TypeOK
    <3>2. Counted(r)' = Counted(r)
      BY <1>1, <2>2, <3>1, CountedSame
    <3> QED
      BY <1>1, <1>4, <2>1, <3>1, <3>2 DEF CountOf
  <2>3. CASE kind[r] # "initial"
    <3>1. task'[r][p] \notin Slice /\ at'[r][p] = at[r][p] + 1
      BY <1>9, <2>3, ResumePoint DEF Store, Slice
    <3>2. kind[r] = "final" => Counted(r)' = Counted(r)
      BY <1>1, <2>1, <3>1, CountedResumed DEF Slice
    <3> QED
      BY <1>1, <1>4, <2>1, <2>3, <3>1, <3>2 DEF CountOf, Slice
  <2> QED
    BY <2>2, <2>3
<1> QED
  BY <1>5, <1>6, <1>7, <1>8, <1>9 DEF PostStep

\* Every step keeps the count right.
LEMMA CountStep ==
  ASSUME TypeOK, AtInv, FreshInv, StageInv, OneSlice, RowInv, CountInv, [Next]_vars
  PROVE  CountInv'
<1>1. ASSUME NEW r \in Run,
             \/ Look(r) \/ Clear(r) \/ Insert(r) \/ Setup(r) \/ Summarise(r)
             \/ Drop(r) \/ LastBatch(r) \/ GatherRaises(r) \/ Merge(r) \/ Close(r)
      PROVE  CountInv'
  <2>1. CASE Insert(r)
    <3>1. CASE rows \cap Rivals(r) = {}
      BY <2>1, <3>1, CountInsert
    <3>2. CASE rows \cap Rivals(r) # {}
      <4>1. Goes(r, "failed")
        BY <2>1, <3>2 DEF Insert, Goes, Ended, Early, Setting, taskVars
      <4> QED
        BY <4>1, CountHandler
    <3> QED
      BY <3>1, <3>2
  <2>2. CASE ~Insert(r)
    <3>1. pc[r] # "insert"
      BY <1>1, <2>2 DEF Look, Clear, Setup, Summarise, Drop, LastBatch,
         GatherRaises, Merge, Close
    <3> QED
      BY <1>1, <3>1, HandlerKinds, CountHandler
  <2> QED
    BY <2>1, <2>2
<1>2. CASE CrashElsewhere \/ Wipe \/ UNCHANGED vars
  <2>1. UNCHANGED <<kind, pc, cur, task, at, seen>> /\ rows' \subseteq rows
    BY <1>2 DEF CrashElsewhere, Wipe, vars, handlerVars, taskVars
  <2>2. ASSUME NEW s \in Run PROVE CountOf(s)'
    BY <2>1, CountKept DEF CountInv, CountOf
  <2> QED
    BY <2>1, <2>2 DEF CountInv, CountOf, TypeOK
<1> QED
  BY <1>1, <1>2, CountHandler, CountPost DEF Next, Handler

-----------------------------------------------------------------------------
(* The invariant                                                           *)

\* Every behaviour starts in it.
LEMMA InitInv == Init => IInv
<1> SUFFICES ASSUME Init PROVE IInv
  OBVIOUS
<1>1. /\ \A r \in Run : pc[r] = "idle" /\ batch[r] = 1 /\ late[r] = {}
      /\ \A r \in Run, p \in Post : task[r][p] = "none" /\ at[r][p] = 1
      /\ rows = {}
  BY DEF Init
<1>2. Len(Batch) \in Nat /\ \A p \in Post : Chunks[p] \in Nat /\ Chunks[p] >= 1
  BY RunAssumption
<1>3. TypeOK
  <2>1. \A r \in Run, p \in Post : at[r][p] \in 1..(Chunks[p] + 1)
    BY <1>1, <1>2
  <2>2. kind \in [Run -> Kind] /\ batch \in [Run -> 1..(Len(Batch) + 1)]
    BY <1>2, RunAssumption DEF Init
  <2>3. /\ task \in [Run -> [Post -> {"none", "llm", "done", "gaveUp", "raised"} \cup Slice]]
        /\ at \in [Run -> [Post -> Nat]] /\ late \in [Run -> SUBSET (Post \X Nat)]
    BY DEF Init
  <2> QED
    BY <2>1, <2>2, <2>3 DEF Init, TypeOK
<1>4. AtInv /\ OneSlice /\ EndedInv
  BY <1>1 DEF AtInv, OneSlice, EndedInv, Live, Slice
<1>5. FreshInv
  BY <1>1, RunAssumption DEF FreshInv
<1>6. StageInv
  BY <1>1 DEF StageInv, Live, Slice
<1>7. RowInv /\ CountInv /\ LateInv
  BY <1>1 DEF RowInv, CountInv, LateInv
<1>8. CodedInv
  BY <1>1, RunAssumption DEF CodedInv
<1> QED
  BY <1>3, <1>4, <1>5, <1>6, <1>7, <1>8 DEF IInv

\* Every step stays in it.
LEMMA StepInv == IInv /\ [Next]_vars => IInv'
<1> SUFFICES ASSUME IInv, [Next]_vars PROVE IInv'
  OBVIOUS
<1>1. TypeOK'
  BY TypeStep DEF IInv
<1>2. AtInv' /\ FreshInv' /\ StageInv' /\ OneSlice' /\ CodedInv'
  BY FlowStep DEF IInv, Flow
<1>3. RowInv' /\ EndedInv'
  BY RowStep, EndedStep DEF IInv
<1>4. LateInv' /\ CountInv'
  BY LateStep, CountStep DEF IInv
<1> QED
  BY <1>1, <1>2, <1>3, <1>4 DEF IInv

\* The routes keep the invariant, for any runs, posts, chunks and batches.
THEOREM Inductive == Spec => []IInv
BY InitInv, StepInv, PTL DEF Spec

\* Variables keep their types: a task never runs past the end of its post,
\* the handler never past the page after the last.
THEOREM TypeCorrect == Spec => []TypeOK
<1>1. IInv => TypeOK
  BY DEF IInv
<1> QED
  BY <1>1, Inductive, PTL

\* The progress row of a generating run counts the chunks it went through,
\* however the reads and writes of its tasks interleave.
THEOREM ProgressExact == Spec => []CountExact
<1>1. IInv => CountExact
  BY DEF IInv, CountInv, CountExact
<1> QED
  BY <1>1, Inductive, PTL

\* A generating run whose row is gone stores at most one more chunk, or one of
\* each post.
THEOREM LateBounded == Spec => []LateIsLittle
<1>1. IInv => LateIsLittle
  <2> SUFFICES ASSUME IInv PROVE LateIsLittle
    OBVIOUS
  <2>1. ASSUME NEW r \in Run, kind[r] = "final" PROVE Cardinality(late[r]) <= 1
    <3>1. CASE late[r] = {}
      BY <3>1, FS_EmptySet
    <3>2. CASE late[r] # {}
      <4>1. PICK c : c \in late[r]
        BY <3>2
      <4>2. late[r] = {c}
        BY <2>1, <3>2, <4>1 DEF IInv, LateInv
      <4> QED
        BY <4>2, FS_Singleton
    <3> QED
      BY <3>1, <3>2
  <2>2. ASSUME NEW r \in Run, kind[r] = "initial", NEW c \in late[r], NEW d \in late[r],
               c[1] = d[1]
        PROVE  c = d
    <3>1. c[2] = d[2]
      BY <2>2 DEF IInv, LateInv
    <3>2. c \in Post \X Nat /\ d \in Post \X Nat
      BY DEF IInv, TypeOK
    <3> QED
      BY <2>2, <3>1, <3>2
  <2> QED
    BY <2>1, <2>2 DEF LateIsLittle
<1> QED
  BY <1>1, Inductive, PTL

\* A final run or a remake that answers 200 has gone through every chunk.
THEOREM SuccessMeansCoded == Spec => []OkMeansCoded
<1>1. IInv => OkMeansCoded
  <2> SUFFICES ASSUME IInv, NEW r \in Run, pc[r] = "ok", ~Initial(r), NEW p \in Post
               PROVE  at[r][p] = Chunks[p] + 1
    BY DEF OkMeansCoded
  <2>1. PICK b \in DOMAIN Batch : p \in Batch[b]
    BY RunAssumption
  <2>2. b < batch[r]
    <3>1. batch[r] > Len(Batch) /\ batch[r] \in Nat
      BY RunAssumption DEF IInv, StageInv, TypeOK
    <3>2. b \in 1..Len(Batch) /\ Len(Batch) \in Nat
      BY RunAssumption
    <3> QED
      BY <3>1, <3>2
  <2> QED
    BY <2>1, <2>2 DEF IInv, CodedInv
<1> QED
  BY <1>1, Inductive, PTL

\* However a run ends its row goes with it, but for the redo of the initial
\* codes and a death not yet followed by a restart.
THEOREM RowsCleanedUp == Spec => []RowsCleaned
<1>1. IInv => RowsCleaned
  BY DEF IInv, RowInv, RowsCleaned
<1> QED
  BY <1>1, Inductive, PTL

\* The tasks a final run leaves behind when it answers add no code.
THEOREM EndedStores == Spec => EndedStoresNothing
<1>1. IInv /\ [Next]_vars =>
        [\A r \in Run : kind[r] = "final" /\ pc[r] \in Ended =>
           \A c \in codes' \ codes : c[1] # r]_vars
  <2> SUFFICES ASSUME IInv, [Next]_vars, NEW r \in Run, kind[r] = "final", pc[r] \in Ended,
                      NEW c \in codes' \ codes
               PROVE  c[1] # r
    OBVIOUS
  <2>1. PICK s \in Run, p \in Post : Store(s, p)
    BY DEF Next, Handler, PostStep, vars, handlerVars, taskVars, Look, Clear, Insert, Setup,
       Summarise, Drop, StartBatch, LastBatch, Gathered, GatherRaises, Merge, Close, Cancel,
       Crash, CrashElsewhere, Wipe, Answer, Fails, Read, Write
  <2>2. c[1] = s /\ task[s][p] = "store"
    BY <2>1 DEF Store
  <2> QED
    BY <2>2 DEF IInv, EndedInv
<1> QED
  BY <1>1, Inductive, PTL DEF Spec, EndedStoresNothing

=============================================================================
