------------------------------ MODULE LlmTask ------------------------------
(***************************************************************************)
(* process_llm_task (controllers/coding_controller.py): what every route   *)
(* that asks an LLM does.  It submits a job, polls the job's row every     *)
(* 15 s, awaits the future once the row says "completed", looks for the    *)
(* answer's data and, when anything in that goes wrong, starts again with  *)
(* a new job, `retries` times in all.                                      *)
(*                                                                         *)
(* The queue's side is LlmPromise, which LlmQueue implements; its actions  *)
(* are those of the queue's threads and of other processes.                *)
(*                                                                         *)
(* Left out: the two ways of building a prompt; stream_output, which no    *)
(* caller sets; raise_error, which turns the empty result of a task that   *)
(* gave up into an exception.                                              *)
(***************************************************************************)
EXTENDS Naturals, FiniteSets

CONSTANTS
  Call,      \* calls of process_llm_task
  Retries,   \* retries
  Foreign,   \* jobs whose rows other managers may touch
  MaxFaults  \* bound: reads of a row, and starts of the queue, that fail

Job == Call \X (1..Retries)

ASSUME TaskAssumption ==
  /\ IsFiniteSet(Call)
  /\ Retries \in Nat \ {0}
  /\ Foreign \subseteq Job
  /\ MaxFaults \in Nat

VARIABLES
  status, fut, lapsed,  \* the rows and futures of the queue
  late,         \* jobs past the cutoff whose LLM call goes on in its thread
  pc,           \* where the call is
  left,         \* retries
  faults

queueVars == <<status, fut, lapsed, late>>
vars == <<queueVars, pc, left, faults>>

Queue == INSTANCE LlmPromise

Over == {"ok", "gaveUp", "raised", "cancelled"}

\* Attempts are numbered from 1; each has a job of its own.
Attempt(c) == Retries - left[c] + 1
Current(c) == <<c, Attempt(c)>>

Init ==
  /\ Queue!Init
  /\ late   = {}
  /\ pc     = [c \in Call |-> "idle"]
  /\ left   = [c \in Call |-> Retries]
  /\ faults = 0

-----------------------------------------------------------------------------
\* Mutant: the attempts are not counted.
RetryForEver(c) ==
  /\ pc' = [pc EXCEPT ![c] = "top"]
  /\ UNCHANGED left

\* The except branch: count, report, which may raise in its turn, and go
\* round `while retries > 0` or give up.
Retry(c) ==
  /\ left' = [left EXCEPT ![c] = @ - 1]
  /\ \/ pc' = [pc EXCEPT ![c] = IF left[c] = 1 THEN "gaveUp" ELSE "top"]
     \/ pc' = [pc EXCEPT ![c] = "raised"]

Begin(c) ==
  /\ pc[c] = "idle"
  /\ pc' = [pc EXCEPT ![c] = "top"]
  /\ UNCHANGED <<queueVars, left, faults>>

\* The message before the submission cannot be sent, or the prompt built.
NotSent(c) ==
  /\ pc[c] = "top"
  /\ Retry(c)
  /\ UNCHANGED <<queueVars, faults>>

\* submit_task: first the future, then the row.
Register(c) ==
  /\ pc[c] = "top"
  /\ Queue!Offer(Current(c))
  /\ pc' = [pc EXCEPT ![c] = "submit"]
  /\ UNCHANGED <<late, left, faults>>

Submitted(c) ==
  /\ pc[c] = "submit"
  /\ Queue!Accept(Current(c))
  /\ pc' = [pc EXCEPT ![c] = "poll"]
  /\ UNCHANGED <<late, left, faults>>

Rejected(c) ==
  /\ pc[c] = "submit"
  /\ Queue!Refuse(Current(c))
  /\ Retry(c)
  /\ UNCHANGED <<late, faults>>

\* The row is in, but the manager does not start and submit_task raises: the
\* call never learns the job's id.
StartRaises(c) ==
  /\ pc[c] = "submit" /\ faults < MaxFaults
  /\ Queue!Accept(Current(c))
  /\ faults' = faults + 1
  /\ Retry(c)
  /\ UNCHANGED late

\* Mutant: a row that is not settled yet is given up.
PollImpatient(c) ==
  /\ pc[c] = "poll"
  /\ IF status[Current(c)] = "completed"
       THEN pc' = [pc EXCEPT ![c] = "answer"] /\ UNCHANGED left
       ELSE Retry(c)
  /\ UNCHANGED <<queueVars, faults>>

\* One look at the row.  An open one is looked at again 15 s later.
Poll(c) ==
  /\ pc[c] = "poll"
  /\ \/ /\ status[Current(c)] = "completed"
        /\ pc' = [pc EXCEPT ![c] = "answer"]
        /\ UNCHANGED left
     \/ /\ status[Current(c)] = "failed"
        /\ Retry(c)
  /\ UNCHANGED <<queueVars, faults>>

\* A query that fails silently finds no row: "vanished from the DB".
PollFails(c) ==
  /\ pc[c] = "poll" /\ faults < MaxFaults
  /\ faults' = faults + 1
  /\ Retry(c)
  /\ UNCHANGED queueVars

\* Await the future, which is settled by now (AnswerReady, below), and look
\* for the data in the answer.
Take(c) ==
  /\ pc[c] = "answer" /\ fut[Current(c)] = "result"
  /\ \/ pc' = [pc EXCEPT ![c] = "success"] /\ UNCHANGED left
     \/ Retry(c)
  /\ UNCHANGED <<queueVars, faults>>

\* Announce the success and store the response.  When that raises the except
\* branch counts and reports all the same; the loop ends, for success is set,
\* but after the last attempt the data is thrown away.
Conclude(c) ==
  /\ pc[c] = "success"
  /\ \/ pc' = [pc EXCEPT ![c] = "ok"] /\ UNCHANGED left
     \/ /\ left' = [left EXCEPT ![c] = @ - 1]
        /\ \/ pc' = [pc EXCEPT ![c] = IF left[c] = 1 THEN "gaveUp" ELSE "ok"]
           \/ pc' = [pc EXCEPT ![c] = "raised"]
  /\ UNCHANGED <<queueVars, faults>>

\* The client hangs up: the call is cancelled at an await; its job is not.
Cancel(c) ==
  /\ pc[c] \in {"top", "poll", "answer", "success"}
  /\ pc' = [pc EXCEPT ![c] = "cancelled"]
  /\ UNCHANGED <<queueVars, left, faults>>

-----------------------------------------------------------------------------
(* The queue                                                               *)

\* The future settles, whether or not the row can be written.
Verdict(j, ok) == Queue!Settle(j, ok) \/ Queue!SettleUnseen(j, ok)

\* The LLM call returned or raised.
Work(j) ==
  /\ \E ok \in BOOLEAN : Verdict(j, ok)
  /\ UNCHANGED <<late, pc, left, faults>>

\* wait_for gives up on the thread, which nothing can stop.
CutOff(j) ==
  /\ Verdict(j, FALSE)
  /\ late' = late \cup {j}
  /\ UNCHANGED <<pc, left, faults>>

Return(j) ==
  /\ j \in late
  /\ late' = late \ {j}
  /\ UNCHANGED <<status, fut, lapsed, pc, left, faults>>

Disturb(j) ==
  /\ Queue!Spoil(j) \/ Queue!Reopen(j) \/ Queue!Lapse(j) \/ Queue!Rework(j)
  /\ UNCHANGED <<late, pc, left, faults>>

Client(c) ==
  \/ NotSent(c) \/ Register(c) \/ Submitted(c) \/ Rejected(c)
  \/ Poll(c) \/ Take(c) \/ Conclude(c)

Next ==
  \/ \E c \in Call : Begin(c) \/ Client(c) \/ StartRaises(c) \/ PollFails(c) \/ Cancel(c)
  \/ \E j \in Job : Work(j) \/ CutOff(j) \/ Return(j) \/ Disturb(j)

Spec == Init /\ [][Next]_vars

(* Fairness: the server runs every handler.  Of the queue nothing is       *)
(* assumed: a row may stay open for ever, as it does when a submission     *)
(* loses its wake-up (StopLeavesNoWork of LlmQueue) or a write fails.      *)
Fairness == \A c \in Call : WF_vars(Client(c))

FairSpec == Spec /\ Fairness

-----------------------------------------------------------------------------
(* Properties                                                              *)

TypeOK ==
  /\ status \in [Job -> {"none", "open", "completed", "failed"}]
  /\ fut \in [Job -> {"none", "waiting", "result", "error"}]
  /\ lapsed \subseteq Job
  /\ late \subseteq Job
  /\ pc \in [Call -> {"idle", "top", "submit", "poll", "answer", "success"} \cup Over]
  /\ left \in [Call -> 0..Retries]
  /\ faults \in 0..MaxFaults
  /\ \A c \in Call : pc[c] \notin Over => left[c] > 0

\* When a call comes to await its future the result is there, whatever other
\* managers have written into the row: wait_for never waits, so the second
\* `cutoff` never strikes, and a client that hangs up there cancels no job.
AnswerReady ==
  \A c \in Call : pc[c] \in {"answer", "success"} => fut[Current(c)] = "result"

\* Jobs a call has turned its back on whose LLM call may be running, or is yet
\* to be made; those apart whose row another manager may write or their own
\* could not.
Forgotten ==
  {j \in Job \ (Foreign \cup lapsed) :
     j[2] < Attempt(j[1]) /\ (fut[j] = "waiting" \/ j \in late)}

\* A retry does run beside the attempt before it when that one was cut off, for
\* its thread goes on.  Otherwise it does not: each further job that a call
\* leaves behind unsettled stands for one read of a row, or one start of the
\* queue, that failed.
RetryAfterVerdict == Cardinality(Forgotten \ late) <= faults

PollsOpen(c) == pc[c] = "poll" /\ status[Current(c)] = "open"

\* There is no limit to the polling: the row is open again and again.
Hangs(c) == [](pc[c] = "poll") /\ []<>PollsOpen(c)

\* Every call ends within its number of attempts, or else waits for ever for
\* a row that its manager never settles.
CallEnds == \A c \in Call : pc[c] = "top" ~> pc[c] \in Over \/ Hangs(c)

-----------------------------------------------------------------------------
(* The inductive invariant behind AnswerReady and RetryAfterVerdict        *)

\* A row says "completed" only once the future has the result; one that no
\* other manager touches, and whose writes get through, says "failed" only once
\* the future has the error, as that of a job cut off has.
RowsInv ==
  \A j \in Job :
    /\ status[j] = "completed" => fut[j] = "result"
    /\ status[j] = "failed" /\ j \notin Foreign \cup lapsed => fut[j] = "error"
    /\ fut[j] = "none" => status[j] = "none"
    /\ j \in lapsed => status[j] # "none"
    /\ j \in late => fut[j] = "error"

\* Attempts to come have no job yet, and the current one is where the call
\* believes it to be.
AttemptInv ==
  \A c \in Call :
    /\ pc[c] = "idle" => left[c] = Retries
    /\ pc[c] \in {"idle", "top"} => \A k \in 1..Retries :
         k >= Attempt(c) => fut[<<c, k>>] = "none"
    /\ pc[c] \notin Over => \A k \in 1..Retries :
         k > Attempt(c) => fut[<<c, k>>] = "none"
    /\ pc[c] = "submit" => status[Current(c)] = "none" /\ fut[Current(c)] = "waiting"

IInv == /\ TypeOK /\ RowsInv /\ AttemptInv /\ AnswerReady /\ RetryAfterVerdict
=============================================================================
