# DeTAILS: models and proofs

DeTAILS is a desktop program for qualitative analysis of Reddit data: an Electron
front end, a Python back end of two servers (HTTP and WebSocket) over one SQLite file,
and bundled programs (chroma, ollama, transmission, ripgrep, zstd). This directory
models the parts of it that keep shared state, in TLA+; checks them with TLC; and
proves the central facts with TLAPS. Paths below are relative to
`src/backend/data_modeling_server/` unless they start with `frontend/`.

## 1. Inventory

How the parts interact:

    Electron main  --spawns/kills-->  chroma, main.py, app_ws.py, ollama
    renderer       --HTTP-->  3 uvicorn workers (main.py)  --SQLite-->  one database
    HTTP worker    --IPC line-->  app_ws.py  --WebSocket-->  Electron main --> renderer
    HTTP worker    --LLM queue (thread + asyncio loop)-->  LLM provider / ollama
    HTTP worker    --RPC on a fixed port-->  transmission-daemon
    HTTP worker    --shell pipeline-->  zstd -cdq | ripgrep

Each of the three HTTP workers is a process: anything "global" in the code
(`lru_cache` managers, repositories, caches) exists once per worker, while the database,
the IPC address and the RPC port are shared.

| Component | State | Operations | Hard behaviour | What makes it correct |
|---|---|---|---|---|
| LLM task queue (`services/llm_service.py`) | rows of `llm_pending_task`; per process: function cache with reference counts, futures, queue, worker states, task list, running flag | construct, start, stop, status check, enqueue loop, worker, submit | three threads and a loop, several managers on one table, self-stop, death, writes that fail | a job is in one place, its function stays cached, it settles once and for ever, the pool restarts whenever there is work |
| LLM task client (`controllers/coding_controller.py`, `process_llm_task`) | attempt counter, awaited row | submit, poll, await, retry | polling a row another process may fail; retries | a call ends within its attempts, and no attempt runs beside the one before |
| Transmission daemon manager (`services/transmission_service.py`) | reference count, two locks, process handle | enter, exit, kill old daemons, recheck | cancellation anywhere, failing starts, one port for all workers | the daemon lives exactly while somebody uses it; no lock is left held |
| Torrent run (`routes/collection_routes.py`, `controllers/collection_controller.py`) | rows of run, pipeline steps, files | route body, one progress update per message | messages drive a row read, changed and written; failure midway | steps advance in order and are cleaned up |
| Coding runs (`routes/coding/initial_coding_routes.py`, `final_coding_routes.py`) | coded rows, `function_progress` row, a task per post | generate, redo, of initial and final codes; clean-up; cancellation | two runs in one workspace, progress read and written from several tasks, tasks that outlive their route, restarted workers | progress is exact, success means coded, a run that is over adds nothing, no row is left behind |
| Grouping and theme routes (`routes/coding/grouping_code_routes.py`, `theme_routes.py`) | one table each | summarise, delete, generate batch by batch, insert placed and unplaced | two runs in one workspace; a run that ends between delete and insert, or between the insertions | every code is in the table once; all or nothing |
| Codebook, concept and analysis routes (`routes/coding/codebook_routes.py`, `concept_routes.py`, `analysis_routes.py`, `extra_routes.py`) | one table each | delete, one LLM call, insert | as above | as above |
| zstd (`src/backend/zstd`, run by `controllers/collection_controller.py:827`) | two pools of jobs, two worker threads, two queues | read, decode, write, report | a list of completed reads that is not in order, lost signals, a full queue, truncated or damaged files | the output is a prefix of the file, exit status 0 means all of it, and it ends |
| LLM batching (`controllers/coding_controller.py`, `utils/coding_helpers.py`) | none | chunk, split on failure, merge | batches halved while the loop runs over them, merge of overlapping keys | every code is put to the LLM once |
| Table reducers (`utils/reducers.py`) | rows of one table | actions, diffs, merge, restore | an undo applied after later changes | restoring a diff gives back the former rows |
| Workspace state (`controllers/state_controller.py`) | one state row, many tables | save, load, import, export, delete | concurrent saves; partial import | last save wins as a whole |
| Repositories (`database/base_class.py`, `database/query_builder.py`) | one mutable query builder per repository | find, count, insert, update, delete | worker threads share the builder | a query has its own filters only |
| Notifications (`ipc.py`, `app_ws.py`, `routes/websocket_routes.py`, `frontend/electron/handles/websocket.js`, `frontend/src/context/websocket-context.tsx`) | connection table, keep-alive tasks, client socket | connect, ping, message, drop, reconnect | an old socket's end races the new one's start | a connected client gets its messages |
| Abort on disconnect (`middlewares/route_abort_on_disconnect.py`) | handler and poller of a request | poll, cancel, answer | disconnect during or after the response | one response per request |
| Transcript CSV (`controllers/collection_controller.py`) | order buffer and file | fetch, write in order | concurrent producers | the file lists the posts in order, once |
| Process supervision (`main.py`, `frontend/electron/utils/spawn-services.js`, `kill-process.js`) | list of children | spawn, restart, kill | exit before or during a kill | nothing is left running |
| Undo stack (`frontend/src/context/undo-context.tsx`) | bounded list of undo functions | log, undo, clear | completion out of order | undo takes the latest change back |
| Front end state, LLM providers, ollama routes, authentication and settings windows, logging server, prompts, vendored programs | — | — | pure I/O or layout | not modelled |

## 2. Plan

Order of work, most important behaviour first.

1. `LlmQueue`, `LlmQueueProofs` — done.
2. `TransmissionDaemon`, `TransmissionDaemonProofs` — done.
3. `CodingRun`, `CodingRunProofs` — done.
4. `LlmPromise`, what the queue promises of a row and a future, implemented by `LlmQueue`
   (`LlmPromiseProofs`), and `LlmTask`, `LlmTaskProofs`: `process_llm_task` written
   against it — done.
5. `ZstdPromise` and `ZstdPipe`, `ZstdPipeProofs`: the decompression the downloads rest
   on, with what its callers rely on as a specification of its own — done.
6. `Notify`, `NotifyProofs`: the connection table, keep-alive, the client that
   reconnects — done.
7. `HierarchyRun`, `HierarchyRunProofs`: grouping and theme routes over
   `batch_llm_hierarchy` — done.

Dropped from the plan, for the reasons of section 11: the torrent run, the transcript
CSV, the undo of table actions, the query builder, the answer of the abort middleware, the
supervision of processes.

Hazards seen on the way that no module covers: the rows of
INITIAL_COPY that every completed final run adds and none deletes
(`final_coding_routes.py:186`); a
progress row read under one key and written under another (`collection_controller.py:272`);
a restore that stops halfway (`reducers.py:78`), undo functions logged in the
order of the answers (`undo-context.tsx:23`) and two first saves at once
(`state_controller.py:66`); `count` on a builder the call before left filled
(`base_class.py:265`); a socket file unlinked under a server that has just
bound it (`ipc.py:41`), children that have exited and stay listed (`spawn-services.js:187`),
a kill that resolves with the process alive (`kill-process.js:45`); two downloads on the
shared torrent, of which one unselects or stops what the other waits for, and the exit status
of the extraction, which the pipeline drops (`collection_controller.py:843`).

## 3. LlmQueue

One module for the whole of `GlobalQueueManager`. Managers share `row`, the status
column; everything else is a manager's own.

| Variable | In the code |
|---|---|
| `row` | `llm_pending_task.status` |
| `call`, `fut` | where `submit_task` is; the `concurrent.futures.Future` it hands out |
| `pend`, `refs`, `cargs`, `queue` | `pending_tasks`, the reference counts in `function_cache`, `cacheable_args`, `self.queue` |
| `running`, `stopEv`, `eref`, `wlist` | `running`, `stop_event`, `enqueue_task`, `worker_tasks` |
| `up`, `stray` | construction, and the rows `__init__` has still to fail |
| `enq`, `batch` | live enqueue loops; rows read and not yet handled |
| `st`, `idx` | status check tasks and where their `stop()` is |
| `wk`, `wjob`, `wstate` | worker tasks, the jobs they hold, `worker_states` |
| `broken` | jobs queued after `stop()` cleared their arguments: their call raises |
| `slipped`, `unwritten` | history: jobs put on the queue whose update to "enqueued" raised; jobs whose last update raised |
| `stalled` | managers whose `start()` raised after setting `running` |

An action is a stretch of code that no other thread can observe half done. The tasks of a
manager's loop share one thread, so a stretch of loop code that the database or
`running` cuts in two is two actions, and `LoopFree` keeps that loop's other tasks out in
between. Submissions run on the HTTP thread and interleave with everything. Start
and stop may overlap: the tasks `start()` creates carry a generation number, so
that two enqueue loops and two sets of workers can be alive at once, as they can be
in the code.

A write of a row may raise (the file is shared by three processes, and nothing retries a
locked database), and so may `start()`, which reads the settings; `Fault` counts these. What
follows depends on where it happens. The clean-up abandons the rows that are left
(`CleanFails`); a start leaves a manager that says it runs and has no task (`StartRaises`). The
enqueue loop abandons its batch (`EnqAbandon`, which a prompt that cannot be built does
too), unless the update comes after the put: then the job is on the queue, its row is pending
still, and the next round queues it again (`EnqSlip`). A worker sets the future first and
writes the row afterwards (`Settle` with `wrote` false), and when the future is settled already
it writes nothing, for `set_result` and `set_exception` raise (`SettledBefore`). A function
that was released twice may be missing when a worker takes the next job of it (`TakeUncached`).
The properties say what survives this for every job, and what only for one whose own
writes get through (`Lapsed`).

### LlmPromise and LlmTask

What a caller of `submit_task` sees of all this is a row it polls and a future it awaits.
`LlmPromise` says how these two behave: its `status` is the row as far as a caller can tell
("open" for `pending`, `enqueued` and `in-progress`: `JobStatus` of `LlmQueue`), its `fut` the
future. `Foreign` are the jobs whose rows other managers reach: such a row may be failed at any
time (`Spoil`) and be taken up again (`Reopen`), but its future settles once, together with the
row (`Settle`). A job is in `lapsed` once its own manager has failed to write its row: its
future may then settle with the row left open (`SettleUnseen`), and the row may be opened or failed
again although the future is settled (`Rework`). `LlmQueue` implements this with every job foreign (`KeepsPromise`) and, with one
manager and no death, with none (`KeepsWholePromise`).

`LlmTask` is `process_llm_task` as a client of `LlmPromise`: `pc` is where a call is, `left` its
`retries`, and attempt k of call c has the job `<<c, k>>`. One look at the row is one action
(`Poll`, `PollFails`); any exception goes through the except branch (`Retry`), whose own messages
may raise in turn. When storing the response raises after the data was found, the attempt is
counted although `success` is set (`Conclude`): after the last attempt the data is replaced by an
empty list. A call that is cancelled leaves its job in the queue. A job past the cutoff has its
error at once while the thread that calls the LLM goes on: `late` holds these (`CutOff`,
`Return`), and the next attempt does run beside them. Nothing is assumed of the queue's
progress: `CallEnds` says that a call ends or polls an open row for ever (`Hangs`).

## 4. TransmissionDaemon

Handlers of one manager are tasks of one event loop: an action goes from one await to the
next. An `asyncio.Lock` is the queue of the tasks that hold it or wait for it. The
operating system's side (`alive`, `dying`, `serving`) is shared by all managers, as the
RPC port is. Cancellation (`AbortOnDisconnectMiddleware`) may hit a handler at every
await; on Windows a cancelled start may still spawn its process (`LateSpawn`), for the
executor's thread cannot be cancelled. Daemons may die unasked. The platform is a
variable that never changes, so that one run covers both. `Fresh` gives a new process a name
that nothing refers to any more (`Free`).

`main.py` always runs three workers, each with a manager, and nothing in the code keeps
their daemons apart. What is true whatever the other workers do is stated without a condition
(the count, the handle, the locks, `StoppedWhenUnused`). That there is one daemon and that it answers
whoever uses it (`OneDaemon`, `ServedInUse`) hold only as long as all requests so far have come to the same
worker, and say so (`OneWorker`): two workers that list before either spawns have two daemons, and the
last request of one ends the daemon the other uses.

## 5. CodingRun

The four coding routes: generate and redo, of initial and of final codes. The requests of
one track of one workspace are the set `Run`; `kind` says which route each came in by.

| Variable | In the code |
|---|---|
| `pc`, `batch` | where the handler is; the page of post ids it is at |
| `rows`, `cur` | rows of `function_progress`, their column `current` |
| `codes` | table `qect`: chunks whose codes were inserted and not deleted since |
| `task`, `at`, `seen` | `process_post` of each post, the transcript chunk it is at, the value of `current` it has read |
| `late` | history: chunks a run stored when its row was gone |
| `crashes`, `wiping` | deaths of worker processes; a replacement that has not emptied the table yet |

Runs are served by different processes, so each database operation is an action. The
posts of one run are tasks of one event loop and the stretch from an LLM answer to the next
await (`read`, `write`, `store`, in the order of the route) has no await in it: `Free` keeps
the loop's other tasks and its handler out, and only other runs cut in. `gather` raises with
the first task that raises and leaves the others running (`GatherRaises`); a client that hangs
up cancels the handler and the tasks it awaits (`Cancel`). A `redo` of the initial codes
overwrites its `function_id` once its row is inserted, so that its `finally` deletes
nothing (`Finally`). A worker that replaces a dead one imports `main.py`, which empties
the progress table (`Wipe`).

`function_progress` has the primary key (workspace, name): of two rivals that both looked before
either inserted, the second's `INSERT` raises outside the `try` and its request ends in an error
(`Insert`).

Left out: requests refused before they touch the progress table, other failing database
operations, the status column (nobody reads it), the `INITIAL_COPY` rows and the contents of
codes.

## 6. ZstdPipe

What the download of an archive ends with is `zstd -cdq file` in a shell pipeline. `ZstdPromise`
says what the pipeline relies on: the output is always the file from its beginning without a
gap, and exit status 0 means that the file is whole and written in full. `ZstdPipe` is the
program, three threads on two pools; a file is counted in units, each of which decompresses to
what it stands for.

| Variable | In the code |
|---|---|
| `pc`, `site` | where the main thread is; which call of `AIO_ReadPool_fillBuffer` it is in |
| `asleep` | the condition variable a thread waits on |
| `worker`, `task`, `queue`, `shutdown` | `POOL_ctx`: the worker, its job, the ring of jobs, `shutdown` |
| `avail`, `active` | `availableJobsCount`, `threadPoolActive` |
| `fpos`, `eof`, `nextRead`, `waitingOn`, `completed`, `held`, `src` | `ReadPoolCtx_t` |
| `pos`, `frameEnd`, `flushed`, `block`, `need`, `some`, `result` | the decoder's position, and the locals of `FIO_decompressZstdFrame` and `FIO_decompressFrames` |
| `file`, `out`, `status` | of the promise: what is on disk, what was written, how the program ended |

A stretch under a pool's mutex is one action, and waits may end unasked. Files smaller than
`SmallFile` are read without the workers, as in the code. A read or write that fails ends the
program where the thread is (`InputOutputError`). A header that is not zstd's is an error
(`UnknownHeader`): a build with gzip, xz or lz4 would decode those formats, which an archive that is
downloaded as `.zst` does not have.

## 7. Notify

The path by which an application hears from the back end: the window, which wants a
connection; the main process of Electron, which makes it; the server, which lists it.

| Variable | In the code |
|---|---|
| `sock`, `wsInstance`, `isConnecting`, `promise`, `debounce`, `loop` | `frontend/electron/handles/websocket.js`: each socket's state, the shared variables (`promise` is the socket `connectionPromise` is about), calls of `connectWithRetry` |
| `toMain`, `toWindow` | `ipcRenderer.invoke` and `webContents.send` on their way |
| `auth`, `retryCount`, `timer` | `frontend/src/context/websocket-context.tsx` |
| `up`, `endpoint`, `active`, `keeper`, `pinging` | `routes/websocket_routes.py`: the endpoint of each socket, `active_connections`, `keep_alive_tasks`, keep-alive tasks that run |
| `lost`, `cut` | connections the server knows to be closed; links that broke |
| `silent` | history: the last attempt of a call timed out, and no call has begun since |

Each end learns of a broken link on its own and at any time. A socket's handlers belong to
it but act on variables that all sockets share: that an old socket's `close` runs while the
next one is connecting is what `AwaitedWillSettle` is about. `disconnect-ws` forgets a socket
that is still connecting, which may open later. A connection that the server ends is first closing
(`ServerCloses`: neither open nor cleaned up), and `Closed` comes later. A message that cannot be sent
removes whatever connection is listed by then (`SendFails`), for an await lies between the
look-up and the removal.

## 8. HierarchyRun

The requests that arrange the codes of one workspace into groups or themes are the set
`Run`; `kind` is the route. `chunks` and `at` are `chunks` and `i` of `batch_llm_hierarchy`, a batch
being an interval of the codes; `clusters` and `placed` abstract `current_clusters` to
whether there are any and which codes occur in them; `table` holds the rows. `asked` and
`robbed` are history: the codes a prompt could be built for, and whether another run has
deleted rows of this one.

A call of `process_llm_task` ends as `LlmTask` lets it: with an answer, with the empty list of a
task that gave up (`GaveUp`), or by raising (`TaskRaises`), which halves the batch. An answer may
name any codes, invented ones included. From the second batch on, the loop calls the
continuation prompt with arguments that only group-codes accepts (`PromptFits`) and reads the
key "name", which themes do not have (`NamesRaise`). There is no await between the two
insertions, so a hang-up cannot cut them in two; a failing insertion or a death can ("torn").

## 9. Runs

| Run | Shows |
|---|---|
| `llm_safety` | two managers, one death or one failing write or start, overlapping stops: a job is in one place, tracked and unresolved while in flight, unless its own update after the put failed; the queue implements `LlmPromise` |
| `llm_quiet` | one manager, two workers, two jobs of one function, one failing write or start: the function stays cached unless a job was queued twice, jobs whose writes get through settle once and for all, row and future together (`LlmPromise` with nothing foreign), the pool stops when idle and never under such a job, no second status check starts |
| `llm_lost_wakeup` | finding: a row inserted between the status check's count and the stop waits for ever |
| `llm_task` | a call of `process_llm_task` with its three attempts, two failing reads or starts, any failing writes of rows, calls cut off, one job within another manager's reach: the result is there when it is awaited, a retry runs beside a job only if that was cut off or something of the above failed, and the call ends or waits for ever for a row that is never settled |
| `coding_rivals` | two runs of one track (a generate and a generate or a redo), a death, hang-ups and failures anywhere: exact count, little is stored late, a final run's success means coded, rows are cleaned up, tasks left behind add nothing |
| `coding_ends` | each kind alone, two pages, two deaths: every run ends |
| `daemon_shared` | two workers, both platforms, one cancellation, one death: exact count, no change of a worker's process under its users, none left behind, no lock left held; one daemon that answers its users as long as one worker has had all requests |
| `daemon_foreign` | finding: a manager takes another worker's daemon for its own |
| `zstd_pipe` | eight files, whole, cut short, damaged or followed by something else, small and large, any failing read or write, any spurious wake-up: nothing is lost or moved, a job is always there, files are closed under nobody, no wake-up is lost, the program is `ZstdPromise`, and it ends |
| `notify` | two sockets, two overlapping rounds of attempts, two upsets: what main awaits will settle, the server lists live connections, a window without a socket has somebody who will ask for one, and with the server up it ends up connected or says that it has given up |
| `hierarchy` | two runs on one table, three codes in batches of two: batches tile the codes however they are halved, every code is kept, a run stores all or nothing, a grouping asks about every code, every run ends |
| `hierarchy_asked` | finding: a regrouping of two batches succeeds without having asked about the second |

Bounds. Two managers suffice for every effect one manager has on another's rows; two
jobs for two jobs of one function and for a queue of size 1 that is full; two
generations for one overlap of an old and a new pool (a third would need a second
submission during the same stop); one death, or else one write or start that fails (`MaxFault`; `MaxUpset` bounds the
two together, of which the theorems allow any number), which is enough for a job queued twice, a function retired under another job and a row left
open. `Overlap` lists the managers whose stops submissions may overlap: in `llm_quiet` it is empty, for liveness does not survive the overlap
(`llm_lost_wakeup`, and the observation on `stop()` below). For the daemon, three requests
are a user, a last one out and a first one in at once, on one worker or on two; three daemons are one of
each worker and one that is dying or was left behind (a name is used again once nothing refers
to it). For the coding routes two runs
are a run and its rival, two posts (one of two chunks) are a task and another of the same loop
with a post that passes the total, and one death covers a wipe under a live run (the two runs
are interchangeable and every assignment of kinds comes with its swap: hence the symmetry);
`coding_ends` has a second page, since what a batch does depends on the one before. Calls of
`process_llm_task` share nothing but the bound on failing reads and starts, so one is enough; three
attempts (the code's default) are a first, one between and the last, of which another manager reaches
the second. zstd has three jobs (`MaxJobs`) for ten: one queued, one at work, one
with main, so that the queue is at its limit; files of up to ten units in buffers of three
are up to four reads in flight and a last one that is short; a file may end at, before or inside the
header of a frame. An application's two sockets are an old one and a new one (a name is used again
once nobody refers to it), two calls of `connectWithRetry` overlap when the window asks again
during a wait, two `Attempts` (5 in the code) are one that is retried and the last one, one
retry of the window (`MaxRetries`, 25 in the code) is one reconnection and giving up, three messages in
one direction (`MaxMail`) and two upsets (`MaxUpsets`: servers that go down, links
that break, attempts that time out, logouts, services that start) let one upset hit the
recovery from another. Three codes in batches of two are two batches, the
first of which can be halved; the pairs of kinds are those that share a table, and theme-generation
and redo-theme-generation differ in nothing the model tells apart.
`CHECK_DEADLOCK FALSE` wherever requests are finite and the system stops.

Fairness. `LlmQueue`: the loop's thread runs every ready task and the server every
handler (weak fairness on each); nothing makes a request arrive, a process die or a write fail.
`LlmTask`: the server runs every call; nothing is assumed of the queue, since `llm_lost_wakeup`
shows that it may leave a row unsettled.
`CodingRun`: the server runs every handler and task, and every LLM task ends; nothing
makes a request arrive or a client hang up. That every LLM task ends is an assumption there and in
`HierarchyRun`, not a result: it fails when a call hangs (`Hangs` of `LlmTask`), after a lost
wake-up or a failed last write, and the route hangs with it. `RunEnds` shows that the
routes' own loops and handlers end. `TransmissionDaemon`: locks are first come first served, every wait under a lock is
bounded by the code (120 s) or an operating system call that returns, and
transmission exits on SIGTERM; nothing makes a body end. `ZstdPipe`: the system runs each of the
three threads, and reads and writes return. `Notify`: timers fire, both processes handle their
messages, every attempt to connect is answered or refused, both ends of a closed connection come to
know; nothing makes the server start, a link break or anybody log in. `HierarchyRun`: the
server runs every handler and every LLM task ends (as above); nothing makes a client hang up or a process die.

Observations. What these modules show of the code besides, without a run:
when the update to "completed" raises after `set_result` (`llm_service.py:365-373`), the handler calls
`set_exception`, which raises InvalidStateError (405), so "failed" is not written either: the row says
in-progress and its client polls it for ever. When the update to "enqueued" raises after the put,
"[ENQUEUE] Failed to enqueue" is printed although the job is queued (265-273); it is queued and run
a second time, and the function released twice. A worker that then finds it missing stays "busy" and leaves
the job tracked (333-341), so the pool never stops. A `start()` that raises after setting
`running` leaves a manager that nobody starts again (126-143). A job whose insert fails leaves
the function's reference counted (450-457). A call past the cutoff goes on in its thread beside the
next attempt (361-381). Of two coding requests that both looked first, the second ends in an error 500
(`initial_coding_routes.py:71`).
`stop()` clears `running` before it awaits the enqueue loop and the workers, so a submission that
restarts the manager meanwhile has its new workers cancelled and its state cleared
(`llm_service.py:160-174`). A second manager's start-up fails the rows of a manager
that is alive in another worker, with the text "System restarted" (`llm_service.py:79-90`). Initial codes are reported
"generated successfully" although every post failed (`initial_coding_routes.py:174-186`, 239). The end
of an old connection, noticed late, removes the entry of the connection that replaced
it, for `remove_connection` deletes by application (`websocket_routes.py:18`, 89): both ends
keep the new connection, nothing is sent to it, and nothing reconnects. When the last attempt of
`connectWithRetry` times out, the window is told neither by an event nor by an exception
(`websocket.js:49-55`, 112-121, 137-145): it has no socket and asks for none, hence the exception for
`silent` in `SomebodyTries` and `Reconnects`. Themes of more
than 50 codes end in a KeyError after the old themes were deleted (`coding_controller.py:395`).

## 10. Proofs

The invariants named below were checked with TLC before they were proved. That variables keep
their types is proved for every module (`TypeCorrect`) and no longer a property of a run.

`LlmQueueProofs` (any number of managers, jobs, functions, workers, generations and
deaths; assumptions: `QueueAssumption`, which only types the constants and makes the set of
jobs finite). `TypeOK` alone does not give `HandledOnce`: that a
row read by the enqueue loop is not already queued depends on every queued or held
job being tracked with a status other than pending (`QueueInv`, `HeldInv`), on a
batch never naming such a job (`BatchInv`), on rows existing only after their insert
(`RowInv`, `StrayInv`) and on futures being unresolved while tracked
(`PendInv`). `IInv` is their conjunction with `RefsCoverPending`; `Inductive` proves it,
and `TypeCorrect`, `RefsCover`, `Once` and `FlightTracked` follow.
`CheckInv` says that the status check that watches a manager is the one its start created, which
is what `CheckedByOne` needs: nothing starts a pool before the last check has left its loop.
`StopsBetweenJobs` is about the instances in which no submission overlaps a stop
(`Overlap = {}`; with an overlap the property is false). Its invariant `QuietInv` keeps three
things: a manager has one generation of tasks and all of them are in its list, a worker with a job says so in
`worker_states`, and from the decision to the end of the stop nothing is queued, held
or submitted. `QuietStopLeavesNoWork` is the same boundary for the finding of `llm_lost_wakeup`: without an
overlap no stop leaves a pending row, for a row that waits has a running manager, and when the
check decides there is none (`WorkInv`). `FunctionIsCached` bounds `TakeUncached`: a worker finds the
function of its job missing only where a job of that function was queued twice.
Whatever fails is a step of the theorems too: `Placed` asks more of a job that has not slipped, and
`RefsCover`, `Once` and `FlightTracked` except the jobs that have, as the code does.
`NobodyForgotten` is the safety half of `EveryJobSettles`, again without an overlap but with any number
of managers, deaths and failing writes: a job whose row is not settled, whose own manager has neither died nor failed
half way to start and whose own writes get through is with a
submission that will see to a running pool, in the table or queue of a pool that is awake, or with a
worker. `PoolInv` says that a manager that runs has its enqueue loop and all its workers and that one
that does not has no job in hand, `PlaceInv` that a row tells where its job is; both are
inductive with the invariants before them. That whoever is awake gets to run is fairness, hence TLC's.

`LlmPromiseProofs` (same assumptions) shows that `LlmQueue` implements `LlmPromise`:
`QueueKeepsPromise`. The initial states map to initial states and every step to one step of the
promise or to none (`NextPromise`). Beyond `IInv` this needs `PInv`: a row that reads "completed"
has its result (`DoneInv`, which the promise itself keeps: `NextDone`), a submission's place, row
and future agree (`CallInv`), and what a loop or a clean-up is about to write to was inserted
(`KnownInv`). `FuturesSettleOnce` is read off the promise: a future that is
settled keeps its result or error. (That a second attempt to settle it is made, and raises, is another
matter: `SettledBefore`.)
`QueueKeepsWholePromise` is the promise with nothing foreign, for a manager that is alone with its
table and does not die (`Alone`). Nobody else writes to a row then (`NewInv`, `ReadInv`), a row that
waits is tracked (`WaitInv`), so the enqueue loop never takes it for another manager's and fails it
(`Undisturbing`), and a settled row has its future settled the same way (`AgreeInv`); all this of jobs
that have not lapsed.

`LlmTaskProofs` (any number of calls, attempts, failing reads, starts and writes, any foreign jobs; assumption:
`TaskAssumption`): `IInv` says that rows and futures agree (`RowsInv`) and that attempts to come
have no job yet (`AttemptInv`). `CallSteps` and `FutureSteps` list what a step can do to a
call and to a future; `ForgottenGrows` concludes that, jobs cut off apart, a retry leaves an unsettled job
behind only when reading its row or starting the queue failed, which bounds their number (`RetriesWait`).

`TransmissionDaemonProofs` (any number of managers, requests and daemons, any
cancellations and deaths, either platform; assumption: `DaemonAssumption`). The count
is right because only a task at the head of the lock changes it, and the daemon is
started or stopped only by such a task with the count at zero: `Holder` and
`GateHeld` say who owns which queue, and `IInv` adds the count. `NeverReplacedInUse`
then follows: a step that changes `_process` has count zero, and a user inside makes it
positive. Three properties hold under conditions that they state themselves. At most one daemon
(`NeverTwoDaemons`, on Windows, one worker so far, no cancellation): a start that is about to kill has seen
every daemon, and when it spawns none is alive (`KillInv`). Something answers while a
request uses the daemon (`AlwaysServed`, one worker so far, no cancellation, no death): a daemon is told to exit only
by a request that waits for it with nobody inside (`ExitInv`). `OneWorkerBefore` carries the condition
on the workers through a step. No daemon is left behind
(`StoppedAfterUse`, any number of managers, no cancellation, no death): a live daemon has a
request that will stop it (`MindedInv`). `StartsItsOwn` marks the boundary of the finding of
`daemon_foreign`: as long as one worker has had all requests, on Windows and without a cancellation, what answers is the daemon
that was started (`OwnInv`).
That no lock is left behind is `LocksReleased`: `QueueInv` says that a lock's queue lists
exactly the requests that wait for it or hold it, each once, after whatever failure, cancellation
or death. With it `LocksNeverBlock` shows that the lock and the gate cannot wait for each
other: of the requests that wait for a manager's locks, one owns what it needs or waits for a daemon that
was told to exit (`ToldInv`). This is the safety half of `RequestsAnswered` and `LeaversLeave`.

`CodingRunProofs` (any number of runs, posts, chunks, pages and deaths; assumption:
`RunAssumption`, which types the constants, makes the posts finite and says that the pages
partition them). That `current` is exact needs three things: only one task of a run is
inside a slice (`OneSlice`, from `Free`), what it read is still in the row when it writes
(`CountInv`), and a run begins with tasks that have done nothing (`FreshInv`, `StageInv`). That
success means coded needs the history of the batches (`CodedInv`). What a run stores late is
bounded because the look at the row comes before the next insertion: `LateInv` says where
each post that stored late must be. `Flow` collects the parts about tasks and batches alone;
`Moves` and `Finishes` are the two things a task's step can do, `Goes` what most of the
handler's steps have in common. `Inductive` proves the conjunction, and the safety properties of
`coding_rivals` follow for all instances.

`ZstdPipeProofs` (any file, number of jobs and sizes of buffers; assumptions:
`PipeAssumption` and `FilesAssumption`). `CountInv` says of each pool that its jobs
are available, queued, at work, completed or with main and add up to `MaxJobs`, and that a queue
leaves room for two (`Room`); `Places` says where main can be in `fillBuffer`, and `Quiet` that
nothing is under way before reading and after closing. One lemma per action, then
`JobsSufficient` and `ClosesWhenIdle`.
What is read, decoded and written is a second invariant over the first. The offsets of queued reads
follow each other and the next to be done is the file's position (`ReadsOrdered`); the
completed ones are, in any order, the file from `waitingOnOffset` to that position, in pieces
(`ReadsComplete`); the buffer is what was taken and not consumed (`SrcInOrder`); the blocks
written, at work, queued and in main's hands join without a gap (`WritesOrdered`). `Kinds` separates
the twelve kinds of steps that touch any of this from the rest. `NothingIsLost` follows. That
`ZstdPipe` implements `ZstdPromise` (`PromiseKept`) also needs to know where frames end
(`FramesOK`), and that main never takes "nothing yet" for the end of the file: with all of the pool's
jobs out (`AllOut`), none in flight and none due, the whole file has been taken (`TakenAll`).
`SleepersAreAwaited` needs an invariant of its own, `SleepInv`: a worker sleeps only over an empty
queue of an open pool, main only over a full queue, a busy pool or a missing read, and whatever
ends one of these wakes who sleeps for it, whatever wakes up spuriously. Hence the threads never all
sleep (`SomebodyIsAwake`); that what is awake gets to run is `PipeEnds`.

`NotifyProofs` (any numbers of sockets, calls, attempts and retries; assumption:
`NotifyAssumption`). Types, `AwaitedWillSettle` and `ListedIsAlive` are inductive
together (`BaseInv`). `SomebodyTries` needs to know how the queues end (`MailInv`): the last
thing on its way to main is a "connect", and a "connected" is last on its way to the window only
while there is a socket that will say when it closes; and that somebody awaits every attempt
(`AttemptInv`), who tries again when it times out.

`HierarchyRunProofs` (any runs, routes, numbers of codes and batch sizes; assumption:
`HierarchyAssumption`). `FixedTile` and `HalvedTile` show that cutting the codes into
batches and a batch into halves keeps a partition; `RowsInv` says what a run has in the table at
each point, `AskedInv` that a grouping has asked about the codes behind the loop. For the other routes
`FirstInv` says how far they get: `OthersAskFirstBatch`, the extent of the finding of
`hierarchy_asked`, is that a regrouping or a theme run that ends well has asked about its first batch
and nothing else, whatever was answered or halved; `ThemesAsk`, that a theme run with clusters to
insert has asked about every code.

Only model-checked: liveness (`EveryJobSettles`, `IdleStops`, `RequestsAnswered`,
`LeaversLeave`, `RunEnds`, `CallEnds`, `PipeEnds`, `Reconnects`), which is out of the prover's
reach.

## 11. Not modelled

Delays of the rate limit; `function_jobs` and the branches for cancelled futures, which no
caller reaches; prompt text, model output and its parsing; SQL text; layout and
navigation of the front end; everything listed as such in the inventory.

The torrent run: its steps are what the transmission daemon and a shell pipeline do, whose
behaviour is not in the repository, and its progress rows are written by one task in the order
of its messages; the two parts of it that can be modelled from source are `TransmissionDaemon`
and `ZstdPipe`. The transcript CSV: each task writes the complete prefix of the transcripts in a stretch
without an await, so its order holds by construction. Table actions, diffs and the undo stack:
sequential functions of one request over SQL text. Repositories: their operations are atomic
in every module; the builder they share is used by reads alone, and what a thread can get wrong
is the columns of a read. The abort middleware's answer 499 and the supervision of processes:
what happens is decided by uvicorn, Node and the operating system. The other coding routes repeat,
with one LLM call, what `HierarchyRun` models with several. chroma and ollama are vendored; of
zstd, compression and everything the command above does not reach.
