------------------------------ MODULE LlmQueue ------------------------------
(***************************************************************************)
(* The LLM task queue: GlobalQueueManager of services/llm_service.py.      *)
(*                                                                         *)
(* Every HTTP worker process builds its own manager on the first request   *)
(* that needs one (two, when two first requests race past lru_cache), and  *)
(* all managers share one SQLite table of job rows.  A manager owns an     *)
(* event loop thread on which an enqueue loop, a pool of workers and a     *)
(* status check take turns; jobs are submitted from the HTTP thread, which *)
(* the managers' locks and the loop do not serialise with.                 *)
(*                                                                         *)
(* An action is a stretch of code that no other thread can observe half    *)
(* done.  A stretch of the loop thread that shared state cuts in two (the  *)
(* database, self.running) is two actions, and LoopFree keeps the other    *)
(* tasks of that loop out in between.                                      *)
(*                                                                         *)
(* Left out: the rate limit's delay (a worker may wait at "rate" for any   *)
(* time); function_jobs and the cancelled branches of the worker: no       *)
(* caller cancels the future it is given (process_llm_task awaits it only  *)
(* once the row says completed), and asyncio turns the                     *)
(* concurrent.futures.CancelledError the cascade waits for into its own    *)
(* CancelledError before the worker sees it.                               *)
(***************************************************************************)
EXTENDS Naturals, Sequences, FiniteSets

CONSTANTS
  Mgr,         \* manager instances
  Job,         \* job ids (uuid4), each submitted once
  Func,        \* function keys
  Home,        \* Home[j]: the manager job j is submitted to
  FuncOf,      \* FuncOf[j]: the function key of job j
  NumWorkers,  \* num_workers
  QueueSize,   \* max_queue_size
  MaxGen,      \* bound: overlapping generations of loop tasks
  MaxCrash,    \* bound: process deaths
  MaxFault,    \* bound: writes of a row, and starts, that fail
  MaxUpset,    \* bound: both together
  Overlap,     \* bound: managers whose stops submissions may overlap
  NoGen, NoJob

Gen     == 1..MaxGen
Task    == Gen \X (1..NumWorkers)

ASSUME QueueAssumption ==
  /\ Home \in [Job -> Mgr]
  /\ FuncOf \in [Job -> Func]
  /\ NumWorkers \in Nat \ {0}
  /\ QueueSize \in Nat \ {0}
  /\ MaxGen \in Nat \ {0}
  /\ MaxCrash \in Nat
  /\ MaxFault \in Nat
  /\ MaxUpset \in Nat
  /\ Overlap \subseteq Mgr
  /\ IsFiniteSet(Job)
  /\ NoGen \notin Gen
  /\ NoJob \notin Job

VARIABLES
  \* the database, shared by all managers
  row,         \* status column of llm_pending_task, "none" before the insert
  \* the submitting side, one entry per job
  call,        \* where submit_task is
  fut,         \* the concurrent future handed to the caller
  broken,      \* jobs queued after their cached arguments were dropped
  \* manager state
  up, running, stopEv, pend, refs, cargs, queue,
  \* the tasks of each manager's loop
  stray,       \* rows __init__ found and has not yet marked failed
  enq, eref,   \* live enqueue loops; the one self.enqueue_task names
  batch,       \* rows the enqueue loop has read and not yet handled
  st, idx,     \* status check tasks; position of stop() in worker_tasks
  wlist,       \* self.worker_tasks
  wk, wjob,    \* where each worker task is, and the job it holds
  wstate,      \* self.worker_states
  \* what has gone wrong so far
  crashes, faults,
  slipped,     \* jobs put on a queue whose row could not be written "enqueued"
  unwritten,   \* jobs whose end could not be written into the row
  stalled      \* managers whose start() failed half way

jobVars    == <<call, fut, broken>>
mgrVars    == <<up, pend, refs, cargs>>
runVars    == <<running, stopEv, eref, wlist>>
enqVars    == <<enq, batch>>
stopVars   == <<st, idx>>
workerVars == <<wk, wjob, wstate>>
lapseVars  == <<crashes, faults, slipped, unwritten, stalled>>
vars == <<row, jobVars, mgrVars, runVars, queue, stray, enqVars, stopVars,
          workerVars, lapseVars>>

RowStatus == {"none", "pending", "enqueued", "in-progress", "completed", "failed"}
Terminal  == {"completed", "failed"}
Unsettled == {"pending", "enqueued", "in-progress"}
CallState == {"idle", "registered", "inserted", "starting", "waiting", "gone"}

-----------------------------------------------------------------------------
Init ==
  /\ row     = [j \in Job |-> "none"]
  /\ call    = [j \in Job |-> "idle"]
  /\ fut     = [j \in Job |-> "none"]
  /\ broken  = {}
  /\ up      = [m \in Mgr |-> "off"]
  /\ running = [m \in Mgr |-> FALSE]
  /\ stopEv  = [m \in Mgr |-> FALSE]
  /\ pend    = [m \in Mgr |-> {}]
  /\ refs    = [m \in Mgr |-> [f \in Func |-> 0]]
  /\ cargs   = [m \in Mgr |-> {}]
  /\ queue   = [m \in Mgr |-> <<>>]
  /\ stray   = [m \in Mgr |-> {}]
  /\ enq     = [m \in Mgr |-> {}]
  /\ eref    = [m \in Mgr |-> NoGen]
  /\ batch   = [m \in Mgr |-> {}]
  /\ st      = [m \in Mgr |-> [g \in Gen |-> "none"]]
  /\ idx     = [m \in Mgr |-> [g \in Gen |-> 1]]
  /\ wlist   = [m \in Mgr |-> <<>>]
  /\ wk      = [m \in Mgr |-> [t \in Task |-> "none"]]
  /\ wjob    = [m \in Mgr |-> [t \in Task |-> NoJob]]
  /\ wstate  = [m \in Mgr |-> [i \in 1..NumWorkers |-> "absent"]]
  /\ crashes = 0
  /\ faults = 0
  /\ slipped = {}
  /\ unwritten = {}
  /\ stalled = {}

\* A locked database, or a settings file caught half written.
Fault ==
  /\ faults < MaxFault /\ crashes + faults < MaxUpset
  /\ faults' = faults + 1

\* No task of m's loop is in the middle of a stretch without an await.
LoopFree(m) ==
  /\ up[m] = "up"
  /\ batch[m] = {}
  /\ \A g \in Gen : st[m][g] # "decided"

\* A generation none of whose tasks is alive or still listed.
FreeGen(m, g) ==
  /\ g \notin enq[m] /\ eref[m] # g
  /\ st[m][g] = "none"
  /\ \A i \in 1..NumWorkers : wk[m][<<g, i>>] = "none"
  /\ \A k \in DOMAIN wlist[m] : wlist[m][k][1] # g

-----------------------------------------------------------------------------
(* Construction, start                                                     *)

\* __init__ up to the query for stray rows, whatever process they belong to.
Construct(m) ==
  /\ up[m] = "off"
  /\ up' = [up EXCEPT ![m] = "cleaning"]
  /\ stray' = [stray EXCEPT ![m] = {j \in Job : row[j] \in Unsettled}]
  /\ UNCHANGED <<row, jobVars, pend, refs, cargs, runVars, queue, enqVars,
                 stopVars, workerVars, lapseVars>>

\* One round of the clean-up loop: function_cache is empty in a new manager.
CleanStray(m, j) ==
  /\ up[m] = "cleaning"
  /\ j \in stray[m]
  /\ refs[m][FuncOf[j]] = 0
  /\ row' = [row EXCEPT ![j] = "failed"]
  /\ stray' = [stray EXCEPT ![m] = @ \ {j}]
  /\ UNCHANGED <<jobVars, mgrVars, runVars, queue, enqVars, stopVars,
                 workerVars, lapseVars>>

\* An update raises: the rows left are abandoned, the manager is built.
CleanFails(m) ==
  /\ up[m] = "cleaning" /\ stray[m] # {}
  /\ Fault
  /\ stray' = [stray EXCEPT ![m] = {}]
  /\ UNCHANGED <<row, jobVars, mgrVars, runVars, queue, enqVars, stopVars,
                 workerVars, crashes, slipped, unwritten, stalled>>

\* start(), run on m's loop as tasks of generation g.
StartAs(m, g) ==
  /\ running' = [running EXCEPT ![m] = TRUE]
  /\ stopEv' = [stopEv EXCEPT ![m] = FALSE]
  /\ enq' = [enq EXCEPT ![m] = @ \cup {g}]
  /\ eref' = [eref EXCEPT ![m] = g]
  /\ st' = [st EXCEPT ![m][g] = "loop"]
  /\ wlist' = [wlist EXCEPT ![m] = @ \o [i \in 1..NumWorkers |-> <<g, i>>]]
  /\ wk' = [wk EXCEPT ![m] =
              [t \in Task |-> IF t[1] = g THEN "created" ELSE @[t]]]

\* start() raises on the settings: the manager says it runs, with no task.
StartRaises(m) ==
  /\ Fault
  /\ running' = [running EXCEPT ![m] = TRUE]
  /\ stopEv' = [stopEv EXCEPT ![m] = FALSE]
  /\ stalled' = stalled \cup {m}
  /\ UNCHANGED <<eref, wlist, enqVars, stopVars, workerVars, crashes, slipped,
                 unwritten>>

AutoStart(m) ==
  /\ up[m] = "cleaning" /\ stray[m] = {}
  /\ up' = [up EXCEPT ![m] = "up"]
  /\ \E g \in Gen : FreeGen(m, g) /\ StartAs(m, g)
  /\ UNCHANGED <<row, jobVars, pend, refs, cargs, queue, stray, batch, idx,
                 wjob, wstate, lapseVars>>

\* __init__ prints the failure and goes on.
AutoStartFails(m) ==
  /\ up[m] = "cleaning" /\ stray[m] = {}
  /\ up' = [up EXCEPT ![m] = "up"]
  /\ StartRaises(m)
  /\ UNCHANGED <<row, jobVars, pend, refs, cargs, queue, stray>>

-----------------------------------------------------------------------------
(* submit_task, on the HTTP thread                                         *)

SubmitRegister(j) ==
  LET m == Home[j] IN
  /\ up[m] = "up" /\ call[j] = "idle"
  /\ m \in Overlap \/ \A g \in Gen : st[m][g] \in {"none", "loop"}
  /\ call' = [call EXCEPT ![j] = "registered"]
  /\ fut' = [fut EXCEPT ![j] = "waiting"]
  /\ pend' = [pend EXCEPT ![m] = @ \cup {j}]
  /\ UNCHANGED <<row, broken, up, refs, cargs, runVars, queue, stray, enqVars,
                 stopVars, workerVars, lapseVars>>

\* submit_task_sync: cache the function and its arguments, insert the row.
SubmitInsert(j) ==
  LET m == Home[j] IN
  /\ up[m] = "up" /\ call[j] = "registered"
  /\ refs' = [refs EXCEPT ![m][FuncOf[j]] = @ + 1]
  /\ cargs' = [cargs EXCEPT ![m] = @ \cup {FuncOf[j]}]
  /\ row' = [row EXCEPT ![j] = "pending"]
  /\ call' = [call EXCEPT ![j] = "inserted"]
  /\ UNCHANGED <<fut, broken, up, pend, runVars, queue, stray, enqVars,
                 stopVars, workerVars, lapseVars>>

\* The insert raises (a locked database): the reference stays counted.
SubmitFails(j) ==
  LET m == Home[j] IN
  /\ up[m] = "up" /\ call[j] = "registered"
  /\ refs' = [refs EXCEPT ![m][FuncOf[j]] = @ + 1]
  /\ cargs' = [cargs EXCEPT ![m] = @ \cup {FuncOf[j]}]
  /\ pend' = [pend EXCEPT ![m] = @ \ {j}]
  /\ fut' = [fut EXCEPT ![j] = "error"]
  /\ call' = [call EXCEPT ![j] = "gone"]
  /\ UNCHANGED <<row, broken, up, runVars, queue, stray, enqVars, stopVars,
                 workerVars, lapseVars>>

\* `if not self.running`, and clearing stop_event before start() runs.
SubmitCheck(j) ==
  LET m == Home[j] IN
  /\ up[m] = "up" /\ call[j] = "inserted"
  /\ \/ /\ running[m]
        /\ call' = [call EXCEPT ![j] = "waiting"]
        /\ UNCHANGED stopEv
     \/ /\ ~running[m]
        /\ call' = [call EXCEPT ![j] = "starting"]
        /\ stopEv' = [stopEv EXCEPT ![m] = FALSE]
  /\ UNCHANGED <<row, fut, broken, mgrVars, running, eref, wlist, queue, stray,
                 enqVars, stopVars, workerVars, lapseVars>>

\* Mutant: start() no longer looks whether the pool is already running.
SubmitStartAgain(j) ==
  LET m == Home[j] IN
  /\ LoopFree(m) /\ call[j] = "starting"
  /\ call' = [call EXCEPT ![j] = "waiting"]
  /\ \E g \in Gen : FreeGen(m, g) /\ StartAs(m, g)
  /\ UNCHANGED <<row, fut, broken, mgrVars, queue, stray, batch, idx, wjob,
                 wstate, lapseVars>>

SubmitStart(j) ==
  LET m == Home[j] IN
  /\ LoopFree(m) /\ call[j] = "starting"
  /\ call' = [call EXCEPT ![j] = "waiting"]
  /\ \/ /\ running[m]
        /\ UNCHANGED <<runVars, enq, st, wk>>
     \/ /\ ~running[m]
        /\ \E g \in Gen : FreeGen(m, g) /\ StartAs(m, g)
  /\ UNCHANGED <<row, fut, broken, mgrVars, queue, stray, batch, idx, wjob,
                 wstate, lapseVars>>

\* submit_task passes the failure on to its caller; the row stays.
SubmitStartFails(j) ==
  LET m == Home[j] IN
  /\ LoopFree(m) /\ call[j] = "starting" /\ ~running[m]
  /\ call' = [call EXCEPT ![j] = "gone"]
  /\ StartRaises(m)
  /\ UNCHANGED <<row, fut, broken, mgrVars, queue, stray>>

-----------------------------------------------------------------------------
(* enqueue_pending_jobs                                                    *)

\* Mutant: the query also selects rows already queued.
QueueableTwice(j) == row[j] \in {"pending", "enqueued"}

\* The rows the loop's query selects.
Queueable(j) == row[j] = "pending"

\* Read as many pending rows, of any process, as the queue has room for.
EnqFind(m) ==
  LET room == QueueSize - Len(queue[m])
      pending == {j \in Job : Queueable(j)} IN
  /\ LoopFree(m) /\ enq[m] # {} /\ ~stopEv[m]
  /\ room > 0
  /\ \E b \in SUBSET pending :
       /\ b # {}
       /\ Cardinality(b) <= room
       /\ Cardinality(b) = room \/ b = pending
       /\ batch' = [batch EXCEPT ![m] = b]
  /\ UNCHANGED <<row, jobVars, mgrVars, runVars, queue, stray, enq, stopVars,
                 workerVars, lapseVars>>

\* A row with a local future is put on the queue.
Put(m, j) ==
  /\ up[m] = "up" /\ j \in batch[m]
  /\ j \in pend[m]
  /\ queue' = [queue EXCEPT ![m] = Append(@, j)]
  /\ broken' = IF FuncOf[j] \in cargs[m] THEN broken ELSE broken \cup {j}
  /\ batch' = [batch EXCEPT ![m] = @ \ {j}]
  /\ UNCHANGED <<call, fut, mgrVars, runVars, stray, enq, stopVars, workerVars>>

\* Then the row is overwritten, whatever its status is by now.
EnqPut(m, j) ==
  /\ Put(m, j)
  /\ row' = [row EXCEPT ![j] = "enqueued"]
  /\ UNCHANGED lapseVars

\* That update raises.  The job is on the queue, its row is pending still and
\* will be found again.
EnqSlip(m, j) ==
  /\ Put(m, j)
  /\ Fault
  /\ slipped' = slipped \cup {j}
  /\ UNCHANGED <<row, crashes, unwritten, stalled>>

\* A row without one, as every row of another process is: mark it failed.
EnqForeign(m, j) ==
  /\ up[m] = "up" /\ j \in batch[m]
  /\ j \notin pend[m]
  /\ row' = [row EXCEPT ![j] = "failed"]
  /\ batch' = [batch EXCEPT ![m] = @ \ {j}]
  /\ UNCHANGED <<jobVars, mgrVars, runVars, queue, stray, enq, stopVars,
                 workerVars, lapseVars>>

\* That update raises, or building the job's prompt does: the rest of the
\* batch is abandoned and the table read anew.
EnqAbandon(m) ==
  /\ up[m] = "up" /\ batch[m] # {}
  /\ Fault
  /\ batch' = [batch EXCEPT ![m] = {}]
  /\ UNCHANGED <<row, jobVars, mgrVars, runVars, queue, stray, enq, stopVars,
                 workerVars, crashes, slipped, unwritten, stalled>>

EnqExit(m, g) ==
  /\ LoopFree(m) /\ g \in enq[m] /\ stopEv[m]
  /\ enq' = [enq EXCEPT ![m] = @ \ {g}]
  /\ UNCHANGED <<row, jobVars, mgrVars, runVars, queue, stray, batch, stopVars,
                 workerVars, lapseVars>>

-----------------------------------------------------------------------------
(* worker                                                                  *)

\* `while not self.stop_event.is_set()`: back to queue.get(), or return.
LoopHead(m) == IF stopEv[m] THEN "none" ELSE "get"

WorkerInit(m, t) ==
  /\ LoopFree(m) /\ wk[m][t] = "created"
  /\ wstate' = [wstate EXCEPT ![m][t[2]] = "idle"]
  /\ wk' = [wk EXCEPT ![m][t] = LoopHead(m)]
  /\ UNCHANGED <<row, jobVars, mgrVars, runVars, queue, stray, enqVars,
                 stopVars, wjob, lapseVars>>

\* Dequeue a job whose function is cached.
WorkerTake(m, t) ==
  /\ LoopFree(m) /\ wk[m][t] = "get" /\ queue[m] # <<>>
  /\ refs[m][FuncOf[Head(queue[m])]] > 0
  /\ wjob' = [wjob EXCEPT ![m][t] = Head(queue[m])]
  /\ queue' = [queue EXCEPT ![m] = Tail(@)]
  /\ wstate' = [wstate EXCEPT ![m][t[2]] = "busy"]
  /\ wk' = [wk EXCEPT ![m][t] = "rate"]
  /\ UNCHANGED <<row, jobVars, mgrVars, runVars, stray, enqVars, stopVars,
                 lapseVars>>

\* Dequeue one whose function is not: RefsCoverPending says when that can
\* happen.  The row is written first, then the future, and the worker goes on
\* without its finally block: it stays "busy", the job stays tracked.
TakeUncached(m, t) ==
  LET j == Head(queue[m]) IN
  /\ LoopFree(m) /\ wk[m][t] = "get" /\ queue[m] # <<>>
  /\ refs[m][FuncOf[j]] = 0
  /\ queue' = [queue EXCEPT ![m] = Tail(@)]
  /\ wstate' = [wstate EXCEPT ![m][t[2]] = "busy"]
  /\ wk' = [wk EXCEPT ![m][t] = LoopHead(m)]
  /\ \/ /\ row' = [row EXCEPT ![j] = "failed"]
        /\ fut' = [fut EXCEPT ![j] = IF @ = "waiting" THEN "error" ELSE @]
        /\ UNCHANGED <<faults, unwritten>>
     \/ /\ Fault
        /\ unwritten' = unwritten \cup {j}
        /\ UNCHANGED <<row, fut>>
  /\ UNCHANGED <<call, broken, mgrVars, runVars, stray, enqVars, stopVars, wjob,
                 crashes, slipped, stalled>>

\* Past the rate limit: mark the row and hand the call to a thread.
WorkerLaunch(m, t) ==
  /\ LoopFree(m) /\ wk[m][t] = "rate"
  /\ row' = [row EXCEPT ![wjob[m][t]] = "in-progress"]
  /\ wk' = [wk EXCEPT ![m][t] = "run"]
  /\ UNCHANGED <<jobVars, mgrVars, runVars, queue, stray, enqVars, stopVars,
                 wjob, wstate, lapseVars>>

\* Mutant: the function is retired with the first job that ends.
ReleaseAll(m, t) ==
  LET j == wjob[m][t] IN
  /\ wstate' = [wstate EXCEPT ![m][t[2]] = "idle"]
  /\ pend' = [pend EXCEPT ![m] = @ \ {j}]
  /\ refs' = [refs EXCEPT ![m][FuncOf[j]] = 0]
  /\ wjob' = [wjob EXCEPT ![m][t] = NoJob]

\* Mutant: the worker returns early, as the "not in cache" branch does.
ReleaseNothing(m, t) ==
  /\ wjob' = [wjob EXCEPT ![m][t] = NoJob]
  /\ UNCHANGED <<wstate, pend, refs>>

\* The worker's finally block: forget the job, drop one reference.
Release(m, t) ==
  LET j == wjob[m][t] IN
  /\ wstate' = [wstate EXCEPT ![m][t[2]] = "idle"]
  /\ pend' = [pend EXCEPT ![m] = @ \ {j}]
  /\ refs' = [refs EXCEPT ![m][FuncOf[j]] = IF @ > 0 THEN @ - 1 ELSE 0]
  /\ wjob' = [wjob EXCEPT ![m][t] = NoJob]

\* The future first, then the row, which may fail to be written.
Settle(j, ok, wrote) ==
  /\ fut[j] = "waiting"
  /\ fut' = [fut EXCEPT ![j] = IF ok THEN "result" ELSE "error"]
  /\ IF wrote
       THEN /\ row' = [row EXCEPT ![j] = IF ok THEN "completed" ELSE "failed"]
            /\ UNCHANGED unwritten
       ELSE /\ unwritten' = unwritten \cup {j}
            /\ UNCHANGED row

\* set_result and set_exception raise InvalidStateError: nothing is written.
SettledBefore(j) ==
  /\ fut[j] # "waiting"
  /\ UNCHANGED <<fut, row, unwritten>>

\* The call returned, raised or ran past the cutoff.  When `completed` cannot
\* be written, the handler's own set_exception raises InvalidStateError and
\* "failed" is not written either.  Of a job queued twice either copy may be
\* the broken one.
WorkerFinish(m, t, ok) ==
  LET j == wjob[m][t] IN
  /\ LoopFree(m) /\ wk[m][t] = "run"
  /\ ok => j \notin broken \/ j \in slipped
  /\ \/ Settle(j, ok, TRUE) /\ UNCHANGED faults
     \/ Settle(j, ok, FALSE) /\ Fault
     \/ SettledBefore(j) /\ UNCHANGED faults
  /\ Release(m, t)
  /\ wk' = [wk EXCEPT ![m][t] = LoopHead(m)]
  /\ UNCHANGED <<call, broken, up, cargs, runVars, queue, stray, enqVars,
                 stopVars, crashes, slipped, stalled>>

\* The row cannot be marked "in-progress": the job is not called but fails,
\* and the database may still be locked when that is to be written.
LaunchFails(m, t) ==
  LET j == wjob[m][t] IN
  /\ LoopFree(m) /\ wk[m][t] = "rate"
  /\ Fault
  /\ (\E wrote \in BOOLEAN : Settle(j, FALSE, wrote)) \/ SettledBefore(j)
  /\ Release(m, t)
  /\ wk' = [wk EXCEPT ![m][t] = LoopHead(m)]
  /\ UNCHANGED <<call, broken, up, cargs, runVars, queue, stray, enqVars,
                 stopVars, crashes, slipped, stalled>>

-----------------------------------------------------------------------------
(* periodic_status_check and stop                                          *)

\* Mutant: one idle worker is enough.
SomeIdle(m) == \E i \in 1..NumWorkers : wstate[m][i] \in {"absent", "idle"}

AllIdle(m) == \A i \in 1..NumWorkers : wstate[m][i] \in {"absent", "idle"}

\* Mutant: the database is not asked.
NoPendingAsked == TRUE

NoPending == \A j \in Job : row[j] # "pending"

\* The counts are read under the lock; `self.running = False` comes later.
\* The check sleeps 15 s first, so tasks created with it have had a turn.
\* Outside Overlap no submission is half way when the decision is made.
\* `while self.running` ends only through stop(): that is OneStatusCheck.
StatusDecide(m, g) ==
  /\ LoopFree(m) /\ st[m][g] = "loop" /\ running[m]
  /\ \A t \in Task : wk[m][t] # "created"
  /\ queue[m] = <<>> /\ NoPending
  /\ AllIdle(m) \/ pend[m] = {}
  /\ m \in Overlap \/ \A j \in Job : Home[j] = m =>
                        call[j] \notin {"registered", "inserted", "starting"}
  /\ st' = [st EXCEPT ![m][g] = "decided"]
  /\ UNCHANGED <<row, jobVars, mgrVars, runVars, queue, stray, enqVars, idx,
                 workerVars, lapseVars>>

\* stop() up to its first await: the enqueue loop sees its cancellation at
\* the sleep it is in before anything that could tell.
StopBegin(m, g) ==
  /\ up[m] = "up" /\ st[m][g] = "decided"
  /\ running' = [running EXCEPT ![m] = FALSE]
  /\ stopEv' = [stopEv EXCEPT ![m] = TRUE]
  /\ enq' = [enq EXCEPT ![m] = @ \ {eref[m]}]
  /\ st' = [st EXCEPT ![m][g] = "stopping"]
  /\ idx' = [idx EXCEPT ![m][g] = 1]
  /\ UNCHANGED <<row, jobVars, mgrVars, eref, wlist, queue, stray, batch,
                 workerVars, lapseVars>>

\* Cancel and await the next worker of the list, which start() may have
\* extended meanwhile.  A worker cancelled while it runs a job goes through
\* its finally block; one cancelled before that leaves everything behind.
StopWorker(m, g) ==
  /\ LoopFree(m) /\ st[m][g] = "stopping"
  /\ idx[m][g] <= Len(wlist[m])
  /\ LET t == wlist[m][idx[m][g]] IN
       /\ wk' = [wk EXCEPT ![m][t] = "none"]
       /\ IF wk[m][t] = "run"
            THEN Release(m, t)
            ELSE /\ wjob' = [wjob EXCEPT ![m][t] = NoJob]
                 /\ UNCHANGED <<wstate, pend, refs>>
  /\ idx' = [idx EXCEPT ![m][g] = @ + 1]
  /\ UNCHANGED <<row, jobVars, up, cargs, runVars, queue, stray, enqVars, st,
                 lapseVars>>

StopEnd(m, g) ==
  /\ LoopFree(m) /\ st[m][g] = "stopping"
  /\ idx[m][g] > Len(wlist[m])
  /\ wlist' = [wlist EXCEPT ![m] = <<>>]
  /\ eref' = [eref EXCEPT ![m] = NoGen]
  /\ cargs' = [cargs EXCEPT ![m] = {}]
  /\ st' = [st EXCEPT ![m][g] = "none"]
  /\ idx' = [idx EXCEPT ![m][g] = 1]
  /\ UNCHANGED <<row, jobVars, up, pend, refs, running, stopEv, queue, stray,
                 enqVars, workerVars, lapseVars>>

-----------------------------------------------------------------------------
\* The worker process dies; the supervisor's replacement builds a manager
\* anew, on the first request that needs it.
Crash(m) ==
  /\ up[m] # "off"
  /\ crashes < MaxCrash /\ crashes + faults < MaxUpset
  /\ crashes' = crashes + 1
  /\ call' = [j \in Job |-> IF Home[j] = m /\ call[j] # "idle" THEN "gone" ELSE call[j]]
  /\ up'      = [up EXCEPT ![m] = "off"]
  /\ running' = [running EXCEPT ![m] = FALSE]
  /\ stopEv'  = [stopEv EXCEPT ![m] = FALSE]
  /\ pend'    = [pend EXCEPT ![m] = {}]
  /\ refs'    = [refs EXCEPT ![m] = [f \in Func |-> 0]]
  /\ cargs'   = [cargs EXCEPT ![m] = {}]
  /\ queue'   = [queue EXCEPT ![m] = <<>>]
  /\ stray'   = [stray EXCEPT ![m] = {}]
  /\ enq'     = [enq EXCEPT ![m] = {}]
  /\ eref'    = [eref EXCEPT ![m] = NoGen]
  /\ batch'   = [batch EXCEPT ![m] = {}]
  /\ st'      = [st EXCEPT ![m] = [g \in Gen |-> "none"]]
  /\ idx'     = [idx EXCEPT ![m] = [g \in Gen |-> 1]]
  /\ wlist'   = [wlist EXCEPT ![m] = <<>>]
  /\ wk'      = [wk EXCEPT ![m] = [t \in Task |-> "none"]]
  /\ wjob'    = [wjob EXCEPT ![m] = [t \in Task |-> NoJob]]
  /\ wstate'  = [wstate EXCEPT ![m] = [i \in 1..NumWorkers |-> "absent"]]
  /\ stalled' = stalled \ {m}
  /\ UNCHANGED <<row, fut, broken, faults, slipped, unwritten>>

-----------------------------------------------------------------------------
Submit(j) == \/ SubmitInsert(j) \/ SubmitFails(j)
             \/ SubmitCheck(j) \/ SubmitStart(j)

Enqueue(m) == \/ EnqFind(m)
              \/ \E j \in Job : EnqPut(m, j) \/ EnqForeign(m, j)
              \/ \E g \in Gen : EnqExit(m, g)

WorkerStep(m, t) == \/ WorkerInit(m, t) \/ WorkerTake(m, t) \/ TakeUncached(m, t)
                    \/ WorkerLaunch(m, t) \/ LaunchFails(m, t)
                    \/ \E ok \in BOOLEAN : WorkerFinish(m, t, ok)

StatusStep(m, g) == \/ StatusDecide(m, g) \/ StopBegin(m, g)
                    \/ StopWorker(m, g) \/ StopEnd(m, g)

\* What fails outside the workers.
Fails(m) == \/ CleanFails(m) \/ AutoStartFails(m) \/ EnqAbandon(m)
            \/ \E j \in Job : EnqSlip(m, j)

Next ==
  \/ \E m \in Mgr : Construct(m) \/ AutoStart(m) \/ Crash(m) \/ Enqueue(m) \/ Fails(m)
  \/ \E m \in Mgr, j \in Job : CleanStray(m, j)
  \/ \E j \in Job : SubmitRegister(j) \/ Submit(j) \/ SubmitStartFails(j)
  \/ \E m \in Mgr, t \in Task : WorkerStep(m, t)
  \/ \E m \in Mgr, g \in Gen : StatusStep(m, g)

Spec == Init /\ [][Next]_vars
-----------------------------------------------------------------------------
(* Fairness: each loop is a thread that runs whatever task is ready, and   *)
(* each submission is an HTTP handler the server keeps running.  Nothing   *)
(* makes a request arrive, a manager be built, a process die or a write    *)
(* fail.                                                                   *)
Fairness ==
  /\ \A j \in Job : WF_vars(Submit(j))
  /\ \A m \in Mgr : /\ WF_vars(AutoStart(m)) /\ WF_vars(Enqueue(m))
                     /\ \A j \in Job : WF_vars(CleanStray(m, j))
                     /\ \A t \in Task : WF_vars(WorkerStep(m, t))
                     /\ \A g \in Gen : WF_vars(StatusStep(m, g))

FairSpec == Spec /\ Fairness

-----------------------------------------------------------------------------
(* Properties                                                              *)

TypeOK ==
  /\ row     \in [Job -> RowStatus]
  /\ call    \in [Job -> CallState]
  /\ fut     \in [Job -> {"none", "waiting", "result", "error"}]
  /\ broken  \subseteq Job
  /\ up      \in [Mgr -> {"off", "cleaning", "up"}]
  /\ running \in [Mgr -> BOOLEAN]
  /\ stopEv  \in [Mgr -> BOOLEAN]
  /\ pend    \in [Mgr -> SUBSET Job]
  /\ refs    \in [Mgr -> [Func -> Nat]]
  /\ cargs   \in [Mgr -> SUBSET Func]
  /\ queue   \in [Mgr -> Seq(Job)]
  /\ stray   \in [Mgr -> SUBSET Job]
  /\ enq     \in [Mgr -> SUBSET Gen]
  /\ eref    \in [Mgr -> Gen \cup {NoGen}]
  /\ batch   \in [Mgr -> SUBSET Job]
  /\ st      \in [Mgr -> [Gen -> {"none", "loop", "decided", "stopping"}]]
  /\ idx     \in [Mgr -> [Gen -> Nat \ {0}]]
  /\ wlist   \in [Mgr -> Seq(Task)]
  /\ wk      \in [Mgr -> [Task -> {"none", "created", "get", "rate", "run"}]]
  /\ wjob    \in [Mgr -> [Task -> Job \cup {NoJob}]]
  /\ wstate  \in [Mgr -> [1..NumWorkers -> {"absent", "idle", "busy"}]]
  /\ crashes \in Nat
  /\ faults  \in Nat
  /\ slipped \subseteq Job
  /\ unwritten \subseteq Job
  /\ stalled \subseteq Mgr

\* Jobs whose own writes have not all got through: their row cannot be relied
\* on any more.
Lapsed == slipped \cup unwritten

\* Jobs of a function that a manager has queued without being able to say so.
SlippedOf(m, f) == {j \in slipped : Home[j] = m /\ FuncOf[j] = f}

\* Jobs a manager has inserted and still tracks: each is owed a reference.
Owed(m, f) == {j \in pend[m] : FuncOf[j] = f /\ call[j] # "registered"}

Holds(m, t) == wk[m][t] \in {"rate", "run"}

\* The reference count of a cached function never falls below the number of
\* tracked jobs that need it, whatever submissions, failed inserts, stops
\* and process deaths come in between; so a worker finds the function of the
\* job it takes missing (llm_service.py, "not in cache") only after an update
\* to "enqueued" failed: that job is queued, and released, twice.
RefsCoverPending ==
  \A m \in Mgr, f \in Func :
    SlippedOf(m, f) = {} => refs[m][f] >= Cardinality(Owed(m, f))

\* A job is in at most one place: once in one queue or in one worker's hands,
\* even while two generations of enqueue loops and workers overlap and other
\* writes fail.  The update after the put is the one that must not fail.
HandledOnce ==
  \A m \in Mgr :
    /\ \A a, b \in DOMAIN queue[m] :
         queue[m][a] = queue[m][b] => a = b \/ queue[m][a] \in slipped
    /\ \A t \in Task : Holds(m, t) /\ wjob[m][t] \notin slipped =>
         /\ \A a \in DOMAIN queue[m] : queue[m][a] # wjob[m][t]
         /\ \A u \in Task : u # t /\ Holds(m, u) => wjob[m][u] # wjob[m][t]

\* A job queued or held, its update after the put not having failed, is
\* tracked, its row is no longer waiting to be queued, and nobody has resolved
\* its future: the verdict on it is the first, and it cannot be queued again.
InFlight(m) == {queue[m][a] : a \in DOMAIN queue[m]}
                 \cup {wjob[m][t] : t \in {u \in Task : Holds(m, u)}}

InFlightTracked ==
  \A m \in Mgr : \A j \in InFlight(m) \ slipped :
    /\ Home[j] = m /\ j \in pend[m]
    /\ row[j] # "pending" /\ fut[j] = "waiting"

\* A manager runs exactly while one status check watches it, unless its start
\* failed half way: submissions that all found it stopped start one pool
\* between them, and no check is left at its loop head to stop the pool that
\* comes after its own.
OneStatusCheck ==
  \A m \in Mgr :
    LET watching == {g \in Gen : st[m][g] \in {"loop", "decided"}} IN
    IF running[m] /\ m \notin stalled
      THEN \E g \in Gen : watching = {g} ELSE watching = {}

\* Cancelling the pool interrupts no job, except the second copy of one that
\* was queued twice.  This holds where no submission overlaps a stop (Overlap
\* empty) and not otherwise.
StopInterruptsNoJob ==
  [][\A m \in Mgr, g \in Gen : StopWorker(m, g) =>
       LET t == wlist[m][idx[m][g]] IN Holds(m, t) => wjob[m][t] \in slipped]_vars

\* Every inserted job gets a final status, when its own writes get through and
\* its manager's start does; what other jobs' failing writes do, such as a
\* function retired too early, keeps it from none.  It holds for a manager that
\* is alone with the table, does not die and has no submission overlap a stop.
EveryJobSettles ==
  \A j \in Job : call[j] = "inserted" ~>
    row[j] \in Terminal \/ j \in Lapsed \/ Home[j] \in stalled

\* A manager with nothing left to do shuts its pool down; not so after a job
\* was queued twice, for a worker that finds its function retired stays "busy"
\* and leaves the job tracked.
IdleStops ==
  \A m \in Mgr : running[m] ~>
    ~running[m] \/ m \in stalled \/ \E j \in slipped : Home[j] = m

-----------------------------------------------------------------------------
(* What submit_task promises its callers                                   *)

\* The row, as far as a caller that polls it can tell.
JobStatus == [j \in Job |-> IF row[j] \in Unsettled THEN "open" ELSE row[j]]

Promise == INSTANCE LlmPromise
             WITH Foreign <- Job, status <- JobStatus, lapsed <- Lapsed

Undisturbed == INSTANCE LlmPromise
                 WITH Foreign <- {}, status <- JobStatus, lapsed <- Lapsed

\* However many managers share the table, whatever dies or fails: a future
\* settles at most once, a row says "completed" only when the future has the
\* result, and the row of a settled future is open again, or was left open,
\* only where one of the job's own writes has failed.
KeepsPromise == Promise!Spec

\* With a single manager and no process death the row and the future of a job
\* whose writes get through settle together, once and for all.
KeepsWholePromise == Undisturbed!Spec

-----------------------------------------------------------------------------
(* The inductive invariant behind RefsCoverPending, HandledOnce and        *)
(* InFlightTracked.                                                        *)

\* submit_task has got past its insert.
Submitted(j) == call[j] \notin {"idle", "registered"}

\* In the right place, and nothing has been said of it yet.
Fresh(m, j) == j \in pend[m] /\ row[j] # "pending" /\ fut[j] = "waiting"

\* What may be said of a job that is queued or held.
Placed(m, j) == Home[j] = m /\ Submitted(j) /\ (j \notin slipped => Fresh(m, j))

PendInv ==
  \A m \in Mgr : \A j \in pend[m] :
    Home[j] = m /\ call[j] # "idle"

\* A row waiting to be queued for the first time has its future waiting too.
RowInv ==
  \A j \in Job :
    /\ row[j] # "none" => Submitted(j)
    /\ j \in slipped => Submitted(j)
    /\ call[j] = "registered" => fut[j] = "waiting"
    /\ row[j] = "pending" /\ j \notin slipped => fut[j] = "waiting"

\* What the enqueue loop is about to put is neither queued nor held.
BatchInv ==
  \A m \in Mgr : \A j \in batch[m] :
    /\ Submitted(j)
    /\ j \in pend[m] /\ j \notin slipped =>
         /\ fut[j] = "waiting"
         /\ \A a \in DOMAIN queue[m] : queue[m][a] # j
         /\ \A t \in Task : Holds(m, t) => wjob[m][t] # j

\* The clean-up only ever touches rows that were inserted.
StrayInv == \A m \in Mgr : \A j \in stray[m] : Submitted(j)

QueueInv == \A m \in Mgr : \A a \in DOMAIN queue[m] : Placed(m, queue[m][a])

HeldInv == \A m \in Mgr, t \in Task : Holds(m, t) => Placed(m, wjob[m][t])

IInv == /\ TypeOK /\ PendInv /\ RowInv /\ StrayInv /\ BatchInv /\ QueueInv
        /\ HeldInv /\ HandledOnce /\ RefsCoverPending

-----------------------------------------------------------------------------
(* What the source says and the code does not do                           *)

\* The stop reports "all workers idle & no DB work": a manager that is not
\* running, and that no submission is about to start, has no pending row.
StopLeavesNoWork ==
  \A j \in Job : row[j] = "pending" /\ call[j] = "waiting" =>
    running[Home[j]]

=============================================================================
