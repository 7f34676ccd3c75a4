----------------------------- MODULE LlmPromise -----------------------------
(***************************************************************************)
(* What a caller of GlobalQueueManager.submit_task may rely on: a row to   *)
(* poll and a future to await.  LlmQueue implements it; LlmTask is written *)
(* against it.                                                             *)
(*                                                                         *)
(* A caller only tells a row that is not settled ("open", whatever the     *)
(* queue calls it) from one that has completed or failed.  The future      *)
(* settles once.  The row says so no earlier; but managers of other        *)
(* processes, and a manager built after a death, may mark it failed at any *)
(* time, and its own manager may then take it up again.  Once a write of   *)
(* the job's own manager has failed the row may also stay open for ever,   *)
(* or be opened or failed after the future has settled.                    *)
(***************************************************************************)
CONSTANTS
  Job,      \* jobs
  Foreign   \* those whose rows other managers may touch

VARIABLES
  status,   \* what a caller makes of the row
  fut,      \* the future submit_task hands out
  lapsed    \* jobs whose manager could not write their row

vars == <<status, fut, lapsed>>

Init ==
  /\ status = [j \in Job |-> "none"]
  /\ fut    = [j \in Job |-> "none"]
  /\ lapsed = {}

\* The future is made before the row is inserted.
Offer(j) ==
  /\ status[j] = "none" /\ fut[j] = "none"
  /\ fut' = [fut EXCEPT ![j] = "waiting"]
  /\ UNCHANGED <<status, lapsed>>

Accept(j) ==
  /\ status[j] = "none" /\ fut[j] = "waiting"
  /\ status' = [status EXCEPT ![j] = "open"]
  /\ UNCHANGED <<fut, lapsed>>

\* The insert raises.
Refuse(j) ==
  /\ status[j] = "none" /\ fut[j] = "waiting"
  /\ fut' = [fut EXCEPT ![j] = "error"]
  /\ UNCHANGED <<status, lapsed>>

\* Mutant: the row is written when the result is there, the future later.
SettleRowOnly(j, ok) ==
  /\ status[j] # "none" /\ fut[j] = "waiting"
  /\ status' = [status EXCEPT ![j] = IF ok THEN "completed" ELSE "failed"]
  /\ UNCHANGED <<fut, lapsed>>

\* The call returned, raised or was cut off: once, and with the row.
Settle(j, ok) ==
  /\ status[j] # "none" /\ fut[j] = "waiting"
  /\ fut' = [fut EXCEPT ![j] = IF ok THEN "result" ELSE "error"]
  /\ status' = [status EXCEPT ![j] = IF ok THEN "completed" ELSE "failed"]
  /\ UNCHANGED lapsed

\* The same, but the row cannot be written.
SettleUnseen(j, ok) ==
  /\ status[j] # "none" /\ fut[j] = "waiting"
  /\ fut' = [fut EXCEPT ![j] = IF ok THEN "result" ELSE "error"]
  /\ lapsed' = lapsed \cup {j}
  /\ UNCHANGED status

\* Some other write of the job's row fails.
Lapse(j) ==
  /\ status[j] # "none"
  /\ lapsed' = lapsed \cup {j}
  /\ UNCHANGED <<status, fut>>

\* The job is still on the queue, its row pending as before: it is taken up
\* once more, and no second verdict reaches the future.
Rework(j) ==
  /\ j \in lapsed
  /\ \E s \in {"open", "failed"} : status' = [status EXCEPT ![j] = s]
  /\ UNCHANGED <<fut, lapsed>>

\* Another manager does not know the job's function, or was just built.
Spoil(j) ==
  /\ j \in Foreign /\ status[j] # "none"
  /\ status' = [status EXCEPT ![j] = "failed"]
  /\ UNCHANGED <<fut, lapsed>>

\* The job's own manager goes on with it all the same.
Reopen(j) ==
  /\ j \in Foreign /\ status[j] = "failed" /\ fut[j] = "waiting"
  /\ status' = [status EXCEPT ![j] = "open"]
  /\ UNCHANGED <<fut, lapsed>>

Next ==
  \E j \in Job : \/ Offer(j) \/ Accept(j) \/ Refuse(j)
                 \/ \E ok \in BOOLEAN : Settle(j, ok) \/ SettleUnseen(j, ok)
                 \/ Lapse(j) \/ Rework(j) \/ Spoil(j) \/ Reopen(j)

Spec == Init /\ [][Next]_vars
=============================================================================
