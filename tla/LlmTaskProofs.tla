--------------------------- MODULE LlmTaskProofs ---------------------------
(***************************************************************************)
(* Proofs about process_llm_task, for any number of calls, attempts,       *)
(* failing reads and starts, and jobs within other managers' reach.        *)
(***************************************************************************)
EXTENDS LlmTask, FiniteSetTheorems, TLAPS

\* A call that is not over has a current attempt, and a job for it.
LEMMA CurrentIsJob ==
  ASSUME TypeOK, NEW c \in Call
  PROVE  /\ left[c] \in 0..Retries
         /\ Attempt(c) \in 1..(Retries + 1)
         /\ pc[c] \notin Over => left[c] > 0 /\ Attempt(c) \in 1..Retries
                                 /\ Current(c) \in Job
  BY TaskAssumption DEF TypeOK, TaskAssumption, Attempt, Current, Job

\* The except branch keeps the types and only ever counts down.
LEMMA RetryCounts ==
  ASSUME TypeOK, NEW c \in Call, pc[c] \notin Over, Retry(c)
  PROVE  /\ left' \in [Call -> 0..Retries]
         /\ left' = [left EXCEPT ![c] = left[c] - 1]
         /\ pc' \in [Call -> {"idle", "top", "submit", "poll", "answer", "success"} \cup Over]
         /\ pc'[c] \in {"top"} \cup Over
         /\ pc'[c] \notin Over => left[c] > 1
         /\ \A d \in Call \ {c} : pc'[d] = pc[d]
  BY TaskAssumption DEF TypeOK, TaskAssumption, Retry, Over

\* A verdict on a job settles its future, and its row too or not at all.
LEMMA VerdictSteps ==
  ASSUME TypeOK, NEW j \in Job, NEW ok \in BOOLEAN, Verdict(j, ok)
  PROVE  /\ status[j] # "none" /\ fut[j] = "waiting"
         /\ fut' = [fut EXCEPT ![j] = fut'[j]]
         /\ fut'[j] = IF ok THEN "result" ELSE "error"
         /\ status' = [status EXCEPT ![j] = status'[j]]
         /\ \/ /\ status'[j] = IF ok THEN "completed" ELSE "failed"
               /\ lapsed' = lapsed
            \/ status'[j] = status[j] /\ lapsed' = lapsed \cup {j}
<1> DEFINE v == IF ok THEN "result" ELSE "error"
           w == IF ok THEN "completed" ELSE "failed"
<1>1. CASE Queue!Settle(j, ok)
  <2>1. /\ status[j] # "none" /\ fut[j] = "waiting" /\ lapsed' = lapsed
        /\ fut' = [fut EXCEPT ![j] = v] /\ status' = [status EXCEPT ![j] = w]
    BY <1>1 DEF Queue!Settle
  <2>2. fut'[j] = v /\ status'[j] = w
    BY <2>1 DEF TypeOK
  <2> QED
    BY <2>1, <2>2
<1>2. CASE Queue!SettleUnseen(j, ok)
  <2>1. /\ status[j] # "none" /\ fut[j] = "waiting" /\ lapsed' = lapsed \cup {j}
        /\ fut' = [fut EXCEPT ![j] = v] /\ status' = status
    BY <1>2 DEF Queue!SettleUnseen
  <2>2. fut'[j] = v /\ status' = [status EXCEPT ![j] = status'[j]]
    BY <2>1 DEF TypeOK
  <2> QED
    BY <2>1, <2>2
<1> QED
  BY <1>1, <1>2 DEF Verdict

\* Other managers, and writes that fail, leave every future as it is.
LEMMA DisturbSteps ==
  ASSUME TypeOK, NEW j \in Job, Disturb(j)
  PROVE  /\ fut' = fut
         /\ status' = [status EXCEPT ![j] = status'[j]]
         /\ status'[j] \in {"open", "failed", status[j]}
         /\ lapsed' \in {lapsed, lapsed \cup {j}}
         /\ j \in lapsed \/ status[j] # "none"
         /\ j \in Foreign \cup lapsed' \/ status'[j] = status[j]
<1>1. CASE Queue!Spoil(j) \/ Queue!Reopen(j)
  BY <1>1 DEF Queue!Spoil, Queue!Reopen, TypeOK
<1>2. CASE Queue!Lapse(j)
  BY <1>2 DEF Queue!Lapse, TypeOK
<1>3. CASE Queue!Rework(j)
  BY <1>3 DEF Queue!Rework, TypeOK
<1> QED
  BY <1>1, <1>2, <1>3 DEF Disturb

\* Every step keeps the types.
LEMMA NextTypeOK == TypeOK /\ [Next]_vars => TypeOK'
<1> SUFFICES ASSUME TypeOK, [Next]_vars PROVE TypeOK'
  OBVIOUS
<1> USE TaskAssumption DEF TaskAssumption
<1>1. ASSUME NEW c \in Call, Begin(c) PROVE TypeOK'
  BY <1>1 DEF TypeOK, Begin, queueVars, Over
<1>2. ASSUME NEW c \in Call, pc[c] \notin Over, Retry(c), UNCHANGED queueVars,
             faults' \in 0..MaxFaults
      PROVE TypeOK'
  BY <1>2, RetryCounts DEF TypeOK, queueVars
<1>3. ASSUME NEW c \in Call, NotSent(c) PROVE TypeOK'
  BY <1>3, <1>2 DEF NotSent, TypeOK, Over
<1>4. ASSUME NEW c \in Call, Register(c) PROVE TypeOK'
  <2>1. fut' \in [Job -> {"none", "waiting", "result", "error"}]
    BY <1>4 DEF Register, Queue!Offer, TypeOK
  <2> QED
    BY <1>4, <2>1 DEF TypeOK, Register, Queue!Offer, Over
<1>5. ASSUME NEW c \in Call, Submitted(c) PROVE TypeOK'
  <2>1. status' \in [Job -> {"none", "open", "completed", "failed"}]
    BY <1>5 DEF Submitted, Queue!Accept, TypeOK
  <2> QED
    BY <1>5, <2>1 DEF TypeOK, Submitted, Queue!Accept, Over
<1>6. ASSUME NEW c \in Call, Rejected(c) PROVE TypeOK'
  <2>1. /\ fut' \in [Job -> {"none", "waiting", "result", "error"}]
        /\ UNCHANGED <<status, lapsed, late, faults>>
    BY <1>6 DEF Rejected, Queue!Refuse, TypeOK
  <2>2. pc[c] \notin Over /\ Retry(c)
    BY <1>6 DEF Rejected, Over
  <2> QED
    BY <2>1, <2>2, RetryCounts DEF TypeOK
<1>7. ASSUME NEW c \in Call, Poll(c) PROVE TypeOK'
  <2>1. CASE Retry(c)
    BY <1>7, <2>1, <1>2 DEF Poll, TypeOK, Over
  <2>2. CASE ~Retry(c)
    BY <1>7, <2>2 DEF TypeOK, Poll, queueVars, Over
  <2> QED
    BY <2>1, <2>2
<1>8. ASSUME NEW c \in Call, PollFails(c) PROVE TypeOK'
  BY <1>8, <1>2 DEF PollFails, TypeOK, Over
<1>9. ASSUME NEW c \in Call, Take(c) PROVE TypeOK'
  <2>1. CASE Retry(c)
    BY <1>9, <2>1, <1>2 DEF Take, TypeOK, Over
  <2>2. CASE ~Retry(c)
    BY <1>9, <2>2 DEF TypeOK, Take, queueVars, Over
  <2> QED
    BY <2>1, <2>2
<1>10. ASSUME NEW c \in Call, Conclude(c) PROVE TypeOK'
  BY <1>10 DEF TypeOK, Conclude, queueVars, Over
<1>11. ASSUME NEW c \in Call, Cancel(c) PROVE TypeOK'
  BY <1>11 DEF TypeOK, Cancel, queueVars, Over
<1>12. ASSUME NEW c \in Call, StartRaises(c) PROVE TypeOK'
  <2>1. /\ status' \in [Job -> {"none", "open", "completed", "failed"}]
        /\ UNCHANGED <<fut, lapsed, late>>
    BY <1>12 DEF StartRaises, Queue!Accept, TypeOK
  <2>2. pc[c] \notin Over /\ Retry(c)
    BY <1>12 DEF StartRaises, Over
  <2>3. faults' \in 0..MaxFaults
    BY <1>12 DEF StartRaises, TypeOK
  <2> QED
    BY <2>1, <2>2, <2>3, RetryCounts DEF TypeOK
<1>13. ASSUME NEW j \in Job, Work(j) \/ CutOff(j) PROVE TypeOK'
  <2>1. /\ fut' \in [Job -> {"none", "waiting", "result", "error"}]
        /\ status' \in [Job -> {"none", "open", "completed", "failed"}]
        /\ lapsed' \subseteq Job
    <3>1. PICK ok \in BOOLEAN : Verdict(j, ok)
      BY <1>13 DEF Work, CutOff
    <3>2. fut'[j] \in {"result", "error"}
      BY <3>1, VerdictSteps
    <3>3. status'[j] \in {"completed", "failed", status[j]} /\ lapsed' \in {lapsed, lapsed \cup {j}}
      BY <3>1, VerdictSteps
    <3>4. /\ fut' = [fut EXCEPT ![j] = fut'[j]]
          /\ status' = [status EXCEPT ![j] = status'[j]]
      BY <3>1, VerdictSteps
    <3> QED
      BY <3>2, <3>3, <3>4 DEF TypeOK
  <2>2. late' \subseteq Job
    BY <1>13 DEF Work, CutOff, TypeOK
  <2> QED
    BY <1>13, <2>1, <2>2 DEF TypeOK, Work, CutOff
<1>14. ASSUME NEW j \in Job, Return(j) PROVE TypeOK'
  BY <1>14 DEF Return, TypeOK
<1>15. ASSUME NEW j \in Job, Disturb(j) PROVE TypeOK'
  <2>1. /\ fut' = fut
        /\ status' \in [Job -> {"none", "open", "completed", "failed"}]
        /\ lapsed' \subseteq Job
    BY <1>15, DisturbSteps DEF TypeOK
  <2> QED
    BY <1>15, <2>1 DEF TypeOK, Disturb
<1>16. CASE UNCHANGED vars
  BY <1>16 DEF TypeOK, vars, queueVars
<1> QED
  BY <1>1, <1>3, <1>4, <1>5, <1>6, <1>7, <1>8, <1>9, <1>10, <1>11, <1>12, <1>13, <1>14,
     <1>15, <1>16 DEF Next, Client

\* Types hold of every behaviour of the callers.
THEOREM TypeCorrect == Spec => []TypeOK
<1>1. Init => TypeOK
  BY TaskAssumption DEF Init, Queue!Init, TypeOK, TaskAssumption, Over
<1> QED
  BY <1>1, NextTypeOK, PTL DEF Spec

-----------------------------------------------------------------------------
(* Rows and futures                                                        *)

\* Each step of the queue on a row or a future keeps the two in line.
LEMMA NextRows == TypeOK /\ RowsInv /\ [Next]_vars => RowsInv'
<1> SUFFICES ASSUME TypeOK, RowsInv, [Next]_vars PROVE RowsInv'
  OBVIOUS
<1> USE TaskAssumption DEF TaskAssumption
<1>1. CASE UNCHANGED queueVars
  BY <1>1 DEF RowsInv, queueVars
<1>2. ASSUME NEW j \in Job, Queue!Offer(j), late' = late PROVE RowsInv'
  BY <1>2 DEF RowsInv, TypeOK, Queue!Offer
<1>3. ASSUME NEW j \in Job, Queue!Accept(j), late' = late PROVE RowsInv'
  BY <1>3 DEF RowsInv, TypeOK, Queue!Accept
<1>4. ASSUME NEW j \in Job, Queue!Refuse(j), late' = late PROVE RowsInv'
  BY <1>4 DEF RowsInv, TypeOK, Queue!Refuse
<1>5. ASSUME NEW j \in Job, Work(j) \/ CutOff(j) PROVE RowsInv'
  <2>1. \E ok \in BOOLEAN : Verdict(j, ok) /\ \A i \in late' : i \in late \/ (i = j /\ ~ok)
    BY <1>5 DEF Work, CutOff
  <2>2. PICK ok \in BOOLEAN : Verdict(j, ok) /\ \A i \in late' : i \in late \/ (i = j /\ ~ok)
    BY <2>1
  <2>3. \A i \in Job \ {j} : status'[i] = status[i] /\ fut'[i] = fut[i]
                              /\ (i \in lapsed' <=> i \in lapsed)
    BY <2>2, VerdictSteps DEF TypeOK
  <2>4. j \notin late
    BY <2>2, VerdictSteps DEF RowsInv
  <2>5. /\ status'[j] = "completed" => fut'[j] = "result"
        /\ status'[j] = "failed" /\ j \notin Foreign \cup lapsed' => fut'[j] = "error"
        /\ fut'[j] # "none" /\ status'[j] # "none"
        /\ ~ok => fut'[j] = "error"
    BY <2>2, VerdictSteps DEF RowsInv
  <2> QED
    BY <2>2, <2>3, <2>4, <2>5 DEF RowsInv
<1>6. ASSUME NEW j \in Job, Return(j) PROVE RowsInv'
  BY <1>6 DEF RowsInv, Return
<1>7. ASSUME NEW j \in Job, Disturb(j) PROVE RowsInv'
  <2>1. late' = late /\ fut' = fut
    BY <1>7, DisturbSteps DEF Disturb
  <2>2. \A i \in Job \ {j} : status'[i] = status[i] /\ (i \in lapsed' <=> i \in lapsed)
    BY <1>7, DisturbSteps DEF TypeOK
  <2>3. /\ status[j] # "none" /\ status'[j] # "none"
        /\ status'[j] = "completed" => status[j] = "completed"
        /\ status'[j] = "failed" /\ j \notin Foreign \cup lapsed' =>
             status[j] = "failed" /\ j \notin lapsed
    BY <1>7, DisturbSteps DEF RowsInv
  <2> QED
    BY <2>1, <2>2, <2>3 DEF RowsInv
<1>8. ASSUME NEW c \in Call, Register(c) \/ Submitted(c) \/ Rejected(c) \/ StartRaises(c)
      PROVE  RowsInv'
  <2>1. Current(c) \in Job
    BY <1>8, CurrentIsJob DEF Register, Submitted, Rejected, StartRaises, Over
  <2>2. late' = late
    BY <1>8 DEF Register, Submitted, Rejected, StartRaises
  <2> QED
    BY <1>8, <2>1, <2>2, <1>2, <1>3, <1>4 DEF Register, Submitted, Rejected, StartRaises
<1> QED
  BY <1>1, <1>5, <1>6, <1>7, <1>8 DEF Next, Client, Begin, NotSent, Poll, PollFails, Take,
     Conclude, Cancel, vars, queueVars

\* What an attempt's future can do in a step: nothing, unless the step is
\* the call's own submission, or the end of an open job.
LEMMA FutureSteps ==
  ASSUME TypeOK, [Next]_vars, NEW j \in Job
  PROVE  \/ fut'[j] = fut[j]
         \/ fut[j] = "waiting" /\ fut'[j] \in {"result", "error"}
         \/ /\ fut[j] = "none" /\ fut'[j] = "waiting"
            /\ pc[j[1]] = "top" /\ pc'[j[1]] = "submit" /\ j = Current(j[1])
<1>0. DOMAIN fut = Job
  BY DEF TypeOK
<1>1. CASE UNCHANGED fut
  BY <1>1
<1>2. ASSUME NEW c \in Call, Register(c)
      PROVE  \/ fut'[j] = fut[j]
             \/ /\ fut[j] = "none" /\ fut'[j] = "waiting"
                /\ pc[j[1]] = "top" /\ pc'[j[1]] = "submit" /\ j = Current(j[1])
  BY <1>2 DEF Register, Queue!Offer, TypeOK, Current
<1>3. ASSUME NEW c \in Call, Rejected(c)
      PROVE  \/ fut'[j] = fut[j]
             \/ fut[j] = "waiting" /\ fut'[j] \in {"result", "error"}
  <2>1. fut[Current(c)] = "waiting" /\ fut' = [fut EXCEPT ![Current(c)] = "error"]
    BY <1>3 DEF Rejected, Queue!Refuse
  <2>2. CASE j = Current(c)
    BY <2>1, <2>2 DEF TypeOK
  <2>3. CASE j # Current(c)
    BY <2>1, <2>3, <1>0
  <2> QED
    BY <2>2, <2>3
<1>4. ASSUME NEW i \in Job, Work(i) \/ CutOff(i)
      PROVE  \/ fut'[j] = fut[j]
             \/ fut[j] = "waiting" /\ fut'[j] \in {"result", "error"}
  <2>1. PICK ok \in BOOLEAN : Verdict(i, ok)
    BY <1>4 DEF Work, CutOff
  <2>2. fut[i] = "waiting" /\ fut' = [fut EXCEPT ![i] = fut'[i]]
        /\ fut'[i] \in {"result", "error"}
    BY <2>1, VerdictSteps
  <2>3. CASE j = i
    BY <2>2, <2>3 DEF TypeOK
  <2>4. CASE j # i
    BY <2>2, <2>4, <1>0
  <2> QED
    BY <2>3, <2>4
<1>5. ASSUME NEW i \in Job, Disturb(i) PROVE fut' = fut
  BY <1>5, DisturbSteps
<1> QED
  BY <1>1, <1>2, <1>3, <1>4, <1>5 DEF Next, Client, Begin, NotSent, Submitted, StartRaises,
     Poll, PollFails, Take, Conclude, Cancel, Return, Queue!Accept, vars, queueVars

\* What a call can do in a step: nothing, go on with its attempt, or count
\* the attempt as failed.
LEMMA CallSteps ==
  ASSUME TypeOK, [Next]_vars, NEW c \in Call
  PROVE  \/ pc'[c] = pc[c] /\ left'[c] = left[c]
         \/ /\ left'[c] = left[c]
            /\ \/ pc[c] = "idle" /\ pc'[c] = "top"
               \/ pc[c] = "top" /\ pc'[c] = "submit" /\ Register(c)
               \/ pc[c] = "submit" /\ pc'[c] = "poll"
               \/ pc[c] = "poll" /\ pc'[c] = "answer" /\ status[Current(c)] = "completed"
                  /\ UNCHANGED fut
               \/ pc[c] = "answer" /\ pc'[c] = "success" /\ UNCHANGED fut
               \/ pc'[c] \in Over
         \/ /\ left'[c] = left[c] - 1
            /\ pc[c] \notin Over /\ pc[c] # "idle"
            /\ pc'[c] \in {"top"} \cup Over
            /\ pc[c] = "submit" => fut'[Current(c)] = "error" \/ StartRaises(c)
            /\ pc[c] = "poll" => \/ status[Current(c)] = "failed" /\ UNCHANGED <<fut, lapsed>>
                                 \/ PollFails(c)
<1> DEFINE Goes ==
     \/ pc'[c] = pc[c] /\ left'[c] = left[c]
     \/ /\ left'[c] = left[c]
        /\ \/ pc[c] = "idle" /\ pc'[c] = "top"
           \/ pc[c] = "top" /\ pc'[c] = "submit" /\ Register(c)
           \/ pc[c] = "submit" /\ pc'[c] = "poll"
           \/ pc[c] = "poll" /\ pc'[c] = "answer" /\ status[Current(c)] = "completed"
              /\ UNCHANGED fut
           \/ pc[c] = "answer" /\ pc'[c] = "success" /\ UNCHANGED fut
           \/ pc'[c] \in Over
     \/ /\ left'[c] = left[c] - 1
        /\ pc[c] \notin Over /\ pc[c] # "idle"
        /\ pc'[c] \in {"top"} \cup Over
        /\ pc[c] = "submit" => fut'[Current(c)] = "error" \/ StartRaises(c)
        /\ pc[c] = "poll" => \/ status[Current(c)] = "failed" /\ UNCHANGED <<fut, lapsed>>
                             \/ PollFails(c)
<1>1. ASSUME NEW d \in Call, Begin(d) \/ Cancel(d) PROVE Goes
  BY <1>1 DEF Begin, Cancel, TypeOK, Over
<1>2. ASSUME NEW d \in Call, Retry(d), pc[d] \notin Over, pc[d] # "idle",
             pc[d] = "submit" => fut'[Current(d)] = "error" \/ StartRaises(d),
             pc[d] = "poll" => \/ status[Current(d)] = "failed" /\ UNCHANGED <<fut, lapsed>>
                               \/ PollFails(d)
      PROVE Goes
  BY <1>2, RetryCounts DEF TypeOK
<1>3. ASSUME NEW d \in Call, NotSent(d) \/ Rejected(d) \/ StartRaises(d) \/ PollFails(d)
      PROVE  Goes
  <2>1. CASE NotSent(d)
    BY <2>1, <1>2 DEF NotSent, Over
  <2>2. CASE Rejected(d)
    <3>1. pc[d] = "submit" /\ Current(d) \in Job
      BY <2>2, CurrentIsJob DEF Rejected, Over
    <3>2. fut'[Current(d)] = "error"
      BY <2>2, <3>1 DEF Rejected, Queue!Refuse, TypeOK
    <3> QED
      BY <2>2, <3>1, <3>2, <1>2 DEF Rejected, Over
  <2>3. CASE PollFails(d)
    BY <2>3, <1>2 DEF PollFails, Over
  <2>4. CASE StartRaises(d)
    BY <2>4, <1>2 DEF StartRaises, Over
  <2> QED
    BY <1>3, <2>1, <2>2, <2>3, <2>4
<1>4. ASSUME NEW d \in Call, Register(d) PROVE Goes
  BY <1>4 DEF Register, TypeOK
<1>5. ASSUME NEW d \in Call, Submitted(d) PROVE Goes
  BY <1>5 DEF Submitted, TypeOK
<1>6. ASSUME NEW d \in Call, Poll(d) PROVE Goes
  <2>1. CASE Retry(d)
    <3>1. CASE status[Current(d)] = "failed"
      BY <1>6, <2>1, <3>1, <1>2 DEF Poll, Over, queueVars
    <3>2. CASE status[Current(d)] # "failed"
      BY <1>6, <3>2 DEF Poll, TypeOK, queueVars
    <3> QED
      BY <3>1, <3>2
  <2>2. CASE ~Retry(d)
    BY <1>6, <2>2 DEF Poll, TypeOK, queueVars
  <2> QED
    BY <2>1, <2>2
<1>7. ASSUME NEW d \in Call, Take(d) PROVE Goes
  <2>1. CASE Retry(d)
    BY <1>7, <2>1, <1>2 DEF Take, Over
  <2>2. CASE ~Retry(d)
    BY <1>7, <2>2 DEF Take, TypeOK, queueVars
  <2> QED
    BY <2>1, <2>2
<1>8. ASSUME NEW d \in Call, Conclude(d) PROVE Goes
  BY <1>8 DEF Conclude, TypeOK, Over
<1>9. CASE UNCHANGED <<pc, left>>
  BY <1>9
<1> QED
  BY <1>1, <1>3, <1>4, <1>5, <1>6, <1>7, <1>8, <1>9
     DEF Next, Client, Work, CutOff, Return, Disturb, vars

\* While a call is between its future and its row, nobody else touches them.
LEMMA SubmitStays ==
  ASSUME TypeOK, [Next]_vars, NEW c \in Call, pc[c] = "submit", pc'[c] = "submit",
         status[Current(c)] = "none", fut[Current(c)] = "waiting", RowsInv
  PROVE  status'[Current(c)] = "none" /\ fut'[Current(c)] = "waiting"
<1>1. Current(c) \in Job
  BY CurrentIsJob DEF Over
<1>2. \A d \in Call \ {c} : Current(d) # Current(c)
  BY DEF Current
<1>3. CASE UNCHANGED queueVars
  BY <1>3 DEF queueVars
<1>4. ASSUME NEW d \in Call, Register(d) \/ Submitted(d) \/ Rejected(d) \/ StartRaises(d)
      PROVE  status'[Current(c)] = "none" /\ fut'[Current(c)] = "waiting"
  <2>1. d # c
    BY <1>4, RetryCounts DEF Register, Submitted, Rejected, StartRaises, TypeOK, Over
  <2>2. Current(d) # Current(c)
    BY <2>1, <1>2
  <2> QED
    BY <1>4, <1>1, <2>2 DEF Register, Submitted, Rejected, StartRaises, Queue!Offer,
       Queue!Accept, Queue!Refuse, TypeOK
<1>5. ASSUME NEW j \in Job, Work(j) \/ CutOff(j) \/ Disturb(j)
      PROVE  status'[Current(c)] = "none" /\ fut'[Current(c)] = "waiting"
  <2>1. j # Current(c)
    BY <1>5, VerdictSteps, DisturbSteps DEF Work, CutOff, RowsInv
  <2>2. \E v, w : status' = [status EXCEPT ![j] = v] /\ fut' = [fut EXCEPT ![j] = w]
    <3>1. CASE Disturb(j)
      <4>1. fut' = [fut EXCEPT ![j] = fut[j]]
        BY <3>1, DisturbSteps DEF TypeOK
      <4> QED
        BY <3>1, <4>1, DisturbSteps
    <3>2. CASE Work(j) \/ CutOff(j)
      <4>1. PICK ok \in BOOLEAN : Verdict(j, ok)
        BY <3>2 DEF Work, CutOff
      <4>2. /\ fut' = [fut EXCEPT ![j] = fut'[j]]
            /\ status' = [status EXCEPT ![j] = status'[j]]
        BY <4>1, VerdictSteps
      <4> QED
        BY <4>2
    <3> QED
      BY <1>5, <3>1, <3>2
  <2> QED
    BY <2>1, <2>2, <1>1 DEF TypeOK
<1> QED
  BY <1>3, <1>4, <1>5 DEF Next, Client, Begin, NotSent, Poll, PollFails, Take,
     Conclude, Cancel, Return, vars, queueVars

-----------------------------------------------------------------------------
(* Attempts                                                                *)

\* An attempt to come has no job yet, and the current one is where the call
\* believes it to be.
LEMMA NextAttempts == TypeOK /\ RowsInv /\ AttemptInv /\ [Next]_vars => AttemptInv'
<1> SUFFICES ASSUME TypeOK, RowsInv, AttemptInv, [Next]_vars, NEW c \in Call
             PROVE  /\ pc'[c] = "idle" => left'[c] = Retries
                    /\ pc'[c] \in {"idle", "top"} => \A k \in 1..Retries :
                         k >= Attempt(c)' => fut'[<<c, k>>] = "none"
                    /\ pc'[c] \notin Over => \A k \in 1..Retries :
                         k > Attempt(c)' => fut'[<<c, k>>] = "none"
                    /\ pc'[c] = "submit" => /\ status'[Current(c)'] = "none"
                                            /\ fut'[Current(c)'] = "waiting"
  BY DEF AttemptInv, Current
<1> USE TaskAssumption DEF TaskAssumption
<1>1. pc[c] \in {"idle", "top", "submit", "poll", "answer", "success"} \cup Over
  BY DEF TypeOK
<1>2. Attempt(c)' = Retries - left'[c] + 1
  BY DEF Attempt
<1>3. \A k \in 1..Retries : <<c, k>> \in Job
  BY DEF Job
<1>4. ASSUME NEW k \in 1..Retries, fut[<<c, k>>] = "none",
             ~(pc[c] = "top" /\ pc'[c] = "submit" /\ k = Attempt(c))
      PROVE  fut'[<<c, k>>] = "none"
  <2>1. <<c, k>> = Current(c) => k = Attempt(c)
    BY DEF Current
  <2> QED
    BY <1>3, <1>4, <2>1, FutureSteps
<1>5. left[c] \in 0..Retries /\ Attempt(c) \in 1..(Retries + 1)
  BY CurrentIsJob
<1>6. CASE left'[c] = left[c]
  <2>1. Attempt(c)' = Attempt(c) /\ Current(c)' = Current(c)
    BY <1>6 DEF Attempt, Current
  <2>2. pc'[c] = "idle" => left'[c] = Retries
    BY <1>6, CallSteps DEF AttemptInv, Over
  <2>3. pc'[c] \in {"idle", "top"} => \A k \in 1..Retries :
          k >= Attempt(c)' => fut'[<<c, k>>] = "none"
    <3>1. pc'[c] \in {"idle", "top"} => pc[c] \in {"idle", "top"}
      BY <1>5, <1>6, CallSteps DEF Over
    <3> QED
      BY <3>1, <2>1, <1>4 DEF AttemptInv
  <2>4. pc'[c] \notin Over => \A k \in 1..Retries :
          k > Attempt(c)' => fut'[<<c, k>>] = "none"
    <3>1. pc'[c] \notin Over => pc[c] \notin Over
      BY <1>5, <1>6, CallSteps DEF Over
    <3> QED
      BY <3>1, <2>1, <1>4, <1>5 DEF AttemptInv
  <2>5. pc'[c] = "submit" => /\ status'[Current(c)'] = "none"
                             /\ fut'[Current(c)'] = "waiting"
    <3>1. CASE pc[c] = "submit"
      BY <3>1, <2>1, SubmitStays DEF AttemptInv
    <3>2. CASE pc[c] # "submit" /\ pc'[c] = "submit"
      <4>1. Register(c)
        BY <3>2, <1>5, <1>6, CallSteps DEF Over
      <4>2. Current(c) \in Job
        BY <4>1, CurrentIsJob DEF Register, Over
      <4> QED
        BY <4>1, <4>2, <2>1 DEF Register, Queue!Offer, TypeOK
    <3> QED
      BY <3>1, <3>2
  <2> QED
    BY <2>2, <2>3, <2>4, <2>5
<1>7. CASE left'[c] # left[c]
  <2>1. /\ left'[c] = left[c] - 1
        /\ pc[c] \notin Over
        /\ pc'[c] \in {"top"} \cup Over
    BY <1>7, CallSteps
  <2>2. \A k \in 1..Retries : k >= Attempt(c)' => k > Attempt(c)
    BY <2>1, <1>2, <1>5 DEF Attempt
  <2>3. \A k \in 1..Retries : k >= Attempt(c)' => fut'[<<c, k>>] = "none"
    BY <2>1, <2>2, <1>4, <1>5 DEF AttemptInv, Over
  <2>4. \A k \in 1..Retries : k > Attempt(c)' => k >= Attempt(c)'
    BY <2>1, <1>2, <1>5
  <2> QED
    BY <2>1, <2>3, <2>4 DEF Over
<1> QED
  BY <1>6, <1>7

\* The result is there when a call awaits it, and stays.
LEMMA NextAnswer ==
  TypeOK /\ RowsInv /\ AnswerReady /\ [Next]_vars => AnswerReady'
<1> SUFFICES ASSUME TypeOK, RowsInv, AnswerReady, [Next]_vars, NEW c \in Call,
                    pc'[c] \in {"answer", "success"}
             PROVE  fut'[Current(c)'] = "result"
  BY DEF AnswerReady, Current
<1>1. left[c] \in 0..Retries
  BY CurrentIsJob
<1>2. left'[c] = left[c] /\ pc[c] \in {"poll", "answer", "success"}
  BY <1>1, CallSteps DEF Over
<1>3. Current(c)' = Current(c) /\ Current(c) \in Job
  BY <1>2, CurrentIsJob DEF Current, Attempt, Over
<1>4. CASE pc[c] = "poll"
  BY <1>1, <1>3, <1>4, CallSteps DEF RowsInv, Over
<1>5. CASE pc[c] # "poll"
  <2>1. fut[Current(c)] = "result"
    BY <1>2, <1>5 DEF AnswerReady
  <2> QED
    BY <2>1, <1>3, FutureSteps
<1> QED
  BY <1>4, <1>5

-----------------------------------------------------------------------------
(* Jobs left unsettled                                                     *)

\* Those of the jobs left behind that nobody cut off.
Unsettled == {j \in Job \ (Foreign \cup lapsed) : j[2] < Attempt(j[1]) /\ fut[j] = "waiting"}

\* A job cut off has its verdict, so the others are the unsettled ones.
LEMMA ForgottenOrLate == RowsInv => Forgotten \ late = Unsettled
  BY DEF RowsInv, Forgotten, Unsettled

\* What a call does when it has failed to read a row, or to start the queue.
Misses(c) == PollFails(c) \/ StartRaises(c)

\* A job is left unsettled only by such a step.
LEMMA UnsettledGrows ==
  ASSUME TypeOK, RowsInv, AttemptInv, AnswerReady, [Next]_vars
  PROVE  \/ Unsettled' \subseteq Unsettled
         \/ \E c \in Call : Misses(c) /\ Unsettled' \subseteq Unsettled \cup {Current(c)}
<1> USE TaskAssumption DEF TaskAssumption
<1>0. lapsed \subseteq lapsed'
  <2>1. \A j \in Job : Work(j) \/ CutOff(j) \/ Disturb(j) => lapsed \subseteq lapsed'
    BY VerdictSteps, DisturbSteps DEF Work, CutOff
  <2> QED
    BY <2>1 DEF Next, Client, Begin, NotSent, Register, Submitted, Rejected, StartRaises, Poll,
       PollFails, Take, Conclude, Cancel, Return, Queue!Offer, Queue!Accept, Queue!Refuse,
       vars, queueVars
<1>1. ASSUME NEW j \in Unsettled', j \notin Unsettled
      PROVE  \E c \in Call : Misses(c) /\ j = Current(c)
  <2> DEFINE c == j[1]
  <2>1. /\ j \in Job /\ j \notin Foreign /\ c \in Call
        /\ j = <<c, j[2]>> /\ j[2] \in 1..Retries
        /\ j \notin lapsed' /\ j \notin lapsed
    BY <1>0, <1>1 DEF Unsettled, Job
  <2>2. j[2] < Attempt(c)' /\ fut'[j] = "waiting"
    BY <1>1 DEF Unsettled, Attempt
  <2>3. left[c] \in 0..Retries /\ Attempt(c) \in 1..(Retries + 1)
    BY <2>1, CurrentIsJob
  <2>4. Attempt(c)' = Retries - left'[c] + 1
    BY DEF Attempt
  <2>5. fut[j] = "waiting"
    <3>1. CASE pc[c] = "top" /\ pc'[c] = "submit" /\ j = Current(c)
      <4>1. left'[c] = left[c]
        BY <2>1, <2>3, <3>1, CallSteps DEF Over
      <4> QED
        BY <2>2, <2>3, <2>4, <3>1, <4>1 DEF Current, Attempt
    <3> QED
      BY <2>1, <2>2, <3>1, FutureSteps
  <2>6. ~(j[2] < Attempt(c))
    BY <1>1, <2>1, <2>5 DEF Unsettled
  <2>7. left'[c] # left[c]
    BY <2>2, <2>3, <2>4, <2>6 DEF Attempt
  <2>8. /\ left'[c] = left[c] - 1
        /\ pc[c] \notin Over /\ pc[c] # "idle"
        /\ pc[c] = "submit" => fut'[Current(c)] = "error" \/ Misses(c)
        /\ pc[c] = "poll" => status[Current(c)] = "failed" \/ Misses(c)
    BY <2>1, <2>7, CallSteps DEF Misses
  <2>9. j = Current(c)
    <3>1. j[2] = Attempt(c)
      BY <2>1, <2>2, <2>3, <2>4, <2>6, <2>8 DEF Attempt
    <3> QED
      BY <2>1, <3>1 DEF Current
  <2>10. pc[c] # "top"
    BY <2>1, <2>3, <2>5, <2>9 DEF AttemptInv, Current
  <2>11. pc[c] \notin {"answer", "success"}
    BY <2>1, <2>5, <2>9 DEF AnswerReady
  <2>12. pc[c] \in {"submit", "poll"}
    BY <2>1, <2>8, <2>10, <2>11 DEF TypeOK
  <2>13. status[Current(c)] # "failed"
    BY <2>1, <2>5, <2>9 DEF RowsInv
  <2> QED
    BY <2>1, <2>2, <2>8, <2>9, <2>12, <2>13
<1>2. ASSUME NEW c \in Call, NEW d \in Call, Misses(c), Misses(d)
      PROVE  c = d
  BY <1>2, RetryCounts, CurrentIsJob DEF Misses, PollFails, StartRaises, TypeOK, Over
<1> QED
  BY <1>1, <1>2

\* There are finitely many jobs.
LEMMA UnsettledFinite == IsFiniteSet(Unsettled)
<1>1. IsFiniteSet(1..Retries)
  BY FS_Interval, TaskAssumption DEF TaskAssumption
<1>2. IsFiniteSet(Job)
  BY <1>1, FS_Product, TaskAssumption DEF TaskAssumption, Job
<1> QED
  BY <1>2, FS_Subset DEF Unsettled

\* Each job left unsettled stands for a read or a start that failed.
LEMMA NextForgotten ==
  ASSUME TypeOK, RowsInv, AttemptInv, AnswerReady, RetryAfterVerdict, [Next]_vars
  PROVE  RetryAfterVerdict'
<1>1. Forgotten' \ late' = Unsettled'
  <2>1. RowsInv'
    BY NextRows
  <2> QED
    BY <2>1 DEF RowsInv, Forgotten, Unsettled, Attempt
<1>2. /\ Cardinality(Unsettled) <= faults
      /\ Cardinality(Unsettled') <= faults' => RetryAfterVerdict'
  BY <1>1, ForgottenOrLate DEF RetryAfterVerdict
<1>3. IsFiniteSet(Unsettled) /\ Cardinality(Unsettled) \in Nat
  BY UnsettledFinite, FS_CardinalityType
<1>4. faults \in Nat /\ (faults' = faults \/ \E c \in Call : Misses(c))
  <2>1. faults \in Nat
    BY TaskAssumption DEF TaskAssumption, TypeOK
  <2>2. \A c \in Call : Begin(c) \/ Client(c) \/ Cancel(c) => faults' = faults
    BY DEF Client, Begin, NotSent, Register, Submitted, Rejected, Poll, Take, Conclude, Cancel
  <2>3. \A j \in Job : Work(j) \/ CutOff(j) \/ Return(j) \/ Disturb(j) => faults' = faults
    BY DEF Work, CutOff, Return, Disturb
  <2> QED
    BY <2>1, <2>2, <2>3 DEF Next, Misses, vars
<1>5. CASE Unsettled' \subseteq Unsettled
  <2>1. Cardinality(Unsettled') <= Cardinality(Unsettled) /\ Cardinality(Unsettled') \in Nat
    BY <1>3, <1>5, FS_Subset, FS_CardinalityType
  <2>2. faults' >= faults /\ faults' \in Nat
    BY <1>4 DEF Misses, PollFails, StartRaises
  <2> QED
    BY <1>2, <1>3, <1>4, <2>1, <2>2
<1>6. ASSUME NEW c \in Call, Misses(c), Unsettled' \subseteq Unsettled \cup {Current(c)}
      PROVE  RetryAfterVerdict'
  <2>1. /\ IsFiniteSet(Unsettled \cup {Current(c)})
        /\ Cardinality(Unsettled \cup {Current(c)}) <= Cardinality(Unsettled) + 1
        /\ Cardinality(Unsettled \cup {Current(c)}) \in Nat
    <3>1. /\ IsFiniteSet(Unsettled \cup {Current(c)})
          /\ Cardinality(Unsettled \cup {Current(c)}) =
               IF Current(c) \in Unsettled THEN Cardinality(Unsettled)
                                          ELSE Cardinality(Unsettled) + 1
      BY <1>3, FS_AddElement
    <3> QED
      BY <1>3, <3>1
  <2>2. /\ Cardinality(Unsettled') <= Cardinality(Unsettled \cup {Current(c)})
        /\ Cardinality(Unsettled') \in Nat
    BY <1>6, <2>1, FS_Subset, FS_CardinalityType
  <2>3. faults' = faults + 1
    BY <1>6 DEF Misses, PollFails, StartRaises
  <2> QED
    BY <1>2, <1>3, <1>4, <2>1, <2>2, <2>3
<1> QED
  BY <1>5, <1>6, UnsettledGrows

-----------------------------------------------------------------------------
\* The inductive invariant holds of every behaviour of the callers.
THEOREM Inductive == Spec => []IInv
<1>1. Init => IInv
  <2> SUFFICES ASSUME Init PROVE IInv
    OBVIOUS
  <2>1. TypeOK
    BY TaskAssumption DEF Init, Queue!Init, TypeOK, TaskAssumption, Over
  <2>2. RowsInv /\ AnswerReady
    BY DEF Init, Queue!Init, RowsInv, AnswerReady
  <2>3. AttemptInv
    BY DEF Init, Queue!Init, AttemptInv, Job, Over
  <2>4. RetryAfterVerdict
    <3>1. Forgotten \ late = {}
      BY DEF Init, Queue!Init, Forgotten
    <3> QED
      BY <3>1, FS_EmptySet DEF Init, RetryAfterVerdict
  <2> QED
    BY <2>1, <2>2, <2>3, <2>4 DEF IInv
<1>2. IInv /\ [Next]_vars => IInv'
  BY NextTypeOK, NextRows, NextAttempts, NextAnswer, NextForgotten DEF IInv
<1> QED
  BY <1>1, <1>2, PTL DEF Spec

\* A call that awaits its future finds the result in it.
THEOREM AnswerIsReady == Spec => []AnswerReady
<1>1. IInv => AnswerReady
  BY DEF IInv
<1> QED
  BY <1>1, Inductive, PTL

\* Jobs cut off apart, retries leave behind no more unsettled jobs than reads of
\* rows and starts of the queue have failed.
THEOREM RetriesWait == Spec => []RetryAfterVerdict
<1>1. IInv => RetryAfterVerdict
  BY DEF IInv
<1> QED
  BY <1>1, Inductive, PTL
=============================================================================
