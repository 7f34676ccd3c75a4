------------------------------ MODULE ZstdPipe ------------------------------
(***************************************************************************)
(* The zstd program as process_reddit_data runs it: one file decompressed  *)
(* to standard output (programs/fileio.c) through a read pool and a write  *)
(* pool (programs/fileio_asyncio.c), each a thread pool of one worker with *)
(* a bounded queue (lib/common/pool.c).                                    *)
(*                                                                         *)
(* An action of the main thread or of a worker is one critical section, or *)
(* what the thread does alone before it.  A pthread condition is a set of  *)
(* waiting threads; a wait may also end without a signal.  Main alone      *)
(* waits on queuePushCond and jobCompletedCond, a pool's worker alone on   *)
(* its queuePopCond.  EXM_THROW ends the whole process.                    *)
(***************************************************************************)
EXTENDS ZstdPromise, SequencesExt

CONSTANTS
  MaxJobs,    \* MAX_IO_JOBS
  BufSize,    \* jobBufferSize, in units
  MagicSize,  \* what is looked at to tell a format, in units
  HeaderSize, \* ZSTD_FRAMEHEADERSIZE_MAX, in units
  SmallFile,  \* files below this size are processed without the workers
  None        \* no job held

ASSUME PipeAssumption ==
  /\ MaxJobs \in Nat /\ MaxJobs >= 2
  /\ BufSize \in Nat /\ BufSize >= 1
  /\ MagicSize \in 1..BufSize /\ HeaderSize \in MagicSize..BufSize
  /\ SmallFile \in Nat
  /\ None \notin [offset : Nat, from : Nat, used : Nat]

VARIABLES
  pc,         \* where main is
  site,       \* the call of fillBuffer main is in
  asleep,     \* asleep[t]: the condition thread t waits on, or "no"
  worker,     \* what a pool's worker does
  task,       \* the job it has taken
  queue,      \* the jobs waiting in a pool's queue
  shutdown,   \* a pool's shutdown
  avail,      \* a pool's availableJobsCount
  active,     \* threadPoolActive
  fpos,       \* the position of the source file
  eof,        \* reachedEof
  nextRead,   \* nextReadOffset
  waitingOn,  \* waitingOnOffset
  completed,  \* completedJobs
  held,       \* currentJobHeld
  src,        \* the units loaded in srcBuffer
  pos,        \* the last unit the decoder consumed
  frameEnd,   \* where the frame it decodes ends
  flushed,    \* the last unit it has put out
  block,      \* what the write job main holds is decoded from
  need,       \* readSizeHint: 0 at the end of a frame
  some,       \* readSomething
  result      \* the result so far

ioVars   == <<worker, task, queue, avail>>
readVars == <<fpos, eof, nextRead, waitingOn, completed, held>>
decVars  == <<pos, frameEnd, flushed, block, need, some, result>>
mainVars == <<pc, site, asleep>>
vars     == <<promise, mainVars, ioVars, shutdown, active, readVars, src, decVars>>

Pool    == {"read", "write"}
Thread  == {"main"} \cup Pool
PushOf  == [p \in Pool |-> IF p = "read" THEN "readPush" ELSE "writePush"]
ReadJob == [offset : Nat, from : Nat, used : Nat]
Block   == {b \in [from : Nat, to : Nat] : b.from <= b.to}
Empty(b)   == b.from = b.to
Nothing(n) == [from |-> n, to |-> n]

Least(a, b) == IF a < b THEN a ELSE b
Running     == status = "running"
Busy(p)     == worker[p] \in {"running", "ending"}
At(place)   == Running /\ pc = place /\ asleep["main"] = "no"
GoTo(place) == pc' = place /\ UNCHANGED <<site, asleep>>
Die         == status' = "died" /\ UNCHANGED <<file, out>>

\* Where the frame that starts after unit p ends; a file cut short stops before.
EndsAt(p, e) ==
  \/ e \in file.ends /\ e > p /\ \A d \in file.ends : d > p => e <= d
  \/ e = file.len + 1 /\ \A d \in file.ends : d <= p

Init ==
  /\ PromiseInit
  /\ pc = "open" /\ site = "magic"
  /\ asleep = [t \in Thread |-> "no"]
  /\ worker = [p \in Pool |-> "ready"]
  /\ task = [p \in Pool |-> None]
  /\ queue = [p \in Pool |-> <<>>]
  /\ shutdown = [p \in Pool |-> FALSE]
  /\ avail = [p \in Pool |-> MaxJobs]
  /\ active = TRUE
  /\ fpos = 0 /\ eof = FALSE
  /\ nextRead = 0 /\ waitingOn = 0
  /\ completed = <<>> /\ held = None
  /\ src = <<>>
  /\ pos = 0 /\ frameEnd = 0 /\ flushed = 0 /\ block = Nothing(0)
  /\ need = 0 /\ some = FALSE /\ result = 0
-----------------------------------------------------------------------------
(* The thread pool: POOL_thread, POOL_add, POOL_joinJobs, POOL_join.       *)

Sleep(t, cond) == asleep' = [asleep EXCEPT ![t] = cond]
Signal(cond)   ==
  asleep' = [t \in Thread |-> IF asleep[t] = cond THEN "no" ELSE asleep[t]]

\* A wait that ends unasked.
Spurious(t) ==
  /\ Running /\ asleep[t] # "no"
  /\ Sleep(t, "no")
  /\ UNCHANGED <<promise, pc, site, ioVars, shutdown, active, readVars, src, decVars>>

\* Mutant: a queue of one job more.
IsQueueFullLate(p) == Len(queue[p]) = MaxJobs - 1

\* queueSize is MAX_IO_JOBS - 2; of a pool with none, an idle worker is the room.
IsQueueFull(p) ==
  IF MaxJobs > 2 THEN Len(queue[p]) = MaxJobs - 2
  ELSE Busy(p) \/ queue[p] # <<>>

Free(p) == Running /\ worker[p] = "ready" /\ asleep[p] = "no"

Pop(p) ==
  /\ Free(p) /\ queue[p] # <<>>
  /\ task' = [task EXCEPT ![p] = Head(queue[p])]
  /\ queue' = [queue EXCEPT ![p] = Tail(@)]
  /\ worker' = [worker EXCEPT ![p] = "running"]
  /\ Signal(PushOf[p])
  /\ UNCHANGED <<promise, pc, site, shutdown, active, avail, readVars, src, decVars>>

PopWait(p) ==
  /\ Free(p) /\ queue[p] = <<>> /\ ~ shutdown[p]
  /\ Sleep(p, "pop")
  /\ UNCHANGED <<promise, pc, site, ioVars, shutdown, active, readVars, src, decVars>>

WorkerExit(p) ==
  /\ Free(p) /\ queue[p] = <<>> /\ shutdown[p]
  /\ worker' = [worker EXCEPT ![p] = "exited"]
  /\ UNCHANGED <<promise, mainVars, task, queue, avail, shutdown, active, readVars, src, decVars>>

\* Mutant: a finished job wakes nobody.
JobDoneSilent(p) ==
  /\ Running /\ worker[p] = "ending"
  /\ worker' = [worker EXCEPT ![p] = "ready"]
  /\ task' = [task EXCEPT ![p] = None]
  /\ UNCHANGED <<promise, mainVars, queue, avail, shutdown, active, readVars, src, decVars>>

JobDone(p) ==
  /\ Running /\ worker[p] = "ending"
  /\ worker' = [worker EXCEPT ![p] = "ready"]
  /\ task' = [task EXCEPT ![p] = None]
  /\ Signal(PushOf[p])
  /\ UNCHANGED <<promise, pc, site, queue, avail, shutdown, active, readVars, src, decVars>>

\* POOL_add, with the caller's place after it.
Add(p, job, place) ==
  /\ UNCHANGED <<worker, task, site>>
  /\ IF IsQueueFull(p)
       THEN Sleep("main", PushOf[p]) /\ UNCHANGED <<queue, pc>>
       ELSE /\ queue' = [queue EXCEPT ![p] = Append(@, job)]
            /\ asleep' = [asleep EXCEPT ![p] = "no"]
            /\ pc' = place

Idle(p) == queue[p] = <<>> /\ ~ Busy(p)

\* AIO_IOPool_join, until the jobs of the pool are done.
JoinWait(p, place) ==
  /\ At(place) /\ active /\ ~ Idle(p)
  /\ Sleep("main", PushOf[p])
  /\ UNCHANGED <<promise, pc, site, ioVars, shutdown, active, readVars, src, decVars>>

Joined(p) == active => Idle(p)
-----------------------------------------------------------------------------
(* The jobs: executeReadJob and executeWriteJob, by a worker, or by main   *)
(* in their place when the file is small.                                  *)

Got(job) == IF eof THEN 0 ELSE Least(BufSize, file.len - fpos)

\* fread, reachedEof, addJobToCompleted.
ReadInto(job) ==
  /\ completed' = Append(completed, [offset |-> job.offset, from |-> fpos, used |-> Got(job)])
  /\ fpos' = fpos + Got(job)
  /\ eof' = (Got(job) < BufSize)

ExecuteRead ==
  /\ Running /\ worker["read"] = "running"
  /\ ReadInto(task["read"])
  /\ worker' = [worker EXCEPT !["read"] = "ending"]
  /\ Signal("completed")
  /\ UNCHANGED <<promise, pc, site, task, queue, avail, shutdown, active,
                 nextRead, waitingOn, held, src, decVars>>

ExecuteWrite ==
  /\ Running /\ worker["write"] = "running"
  /\ out' = out \o Units(task["write"].from, task["write"].to)
  /\ avail' = [avail EXCEPT !["write"] = @ + 1]
  /\ worker' = [worker EXCEPT !["write"] = "ending"]
  /\ UNCHANGED <<file, status, mainVars, task, queue, shutdown, active, readVars, src, decVars>>

\* fread or fwrite fails: EXM_THROW, in whichever thread does the job.
InputOutputError ==
  /\ \/ Running /\ worker["read"] = "running" /\ ~ eof
     \/ Running /\ worker["write"] = "running" /\ ~ Empty(task["write"])
     \/ At("addRead") /\ ~ active /\ ~ eof
     \/ At("addWrite") /\ ~ active /\ ~ Empty(block)
  /\ Die
  /\ UNCHANGED <<mainVars, ioVars, shutdown, active, readVars, src, decVars>>
-----------------------------------------------------------------------------
(* The read pool, as main uses it.                                         *)

\* FIO_openSrcFile refuses; only the pools are left to free.
OpenFails ==
  /\ At("open")
  /\ pc' = "shut" /\ site' = "write"
  /\ result' = 1
  /\ UNCHANGED <<promise, asleep, ioVars, shutdown, active, readVars, src,
                 pos, frameEnd, flushed, block, need, some>>

Open ==
  /\ At("open")
  /\ active' = (file.len >= SmallFile)
  /\ pc' = "startReading" /\ site' = "start"
  /\ UNCHANGED <<promise, asleep, ioVars, shutdown, readVars, src, decVars>>

\* AIO_ReadPool_enqueueRead, up to the queue.
StartReading ==
  /\ At("startReading") /\ avail["read"] > 0
  /\ avail' = [avail EXCEPT !["read"] = @ - 1]
  /\ nextRead' = nextRead + BufSize
  /\ GoTo("addRead")
  /\ UNCHANGED <<promise, worker, task, queue, shutdown, active,
                 fpos, eof, waitingOn, completed, held, src, decVars>>

StartDone ==
  /\ At("startReading") /\ avail["read"] = 0
  /\ pc' = "fill" /\ site' = "magic"
  /\ UNCHANGED <<promise, asleep, ioVars, shutdown, active, readVars, src, decVars>>

NewRead  == [offset |-> nextRead - BufSize, from |-> 0, used |-> 0]
AfterAdd == IF site = "start" THEN "startReading" ELSE "next"

AddRead ==
  /\ At("addRead")
  /\ \/ /\ active
        /\ Add("read", NewRead, AfterAdd)
        /\ UNCHANGED <<fpos, eof, completed>>
     \/ /\ ~ active
        /\ ReadInto(NewRead)
        /\ GoTo(AfterAdd)
        /\ UNCHANGED <<worker, task, queue>>
  /\ UNCHANGED <<promise, avail, shutdown, active, nextRead, waitingOn, held, src, decVars>>

\* What fillBuffer is asked for, and where main is once it returns.
Wanted == CASE site = "magic"  -> MagicSize
            [] site = "header" -> HeaderSize
            [] OTHER           -> need
Filled == IF site = "magic" THEN "magic" ELSE "decode"
NoMore == IF site = "refill" THEN "premature" ELSE Filled

Fill ==
  /\ At("fill")
  /\ \/ Len(src) >= Wanted /\ GoTo(Filled)
     \/ Len(src) < Wanted /\ held = None /\ GoTo("next")
  /\ UNCHANGED <<promise, ioVars, shutdown, active, readVars, src, decVars>>

\* The job held is released and acquired again for the next read.
FillRelease ==
  /\ At("fill") /\ Len(src) < Wanted /\ held # None
  /\ held' = None
  /\ nextRead' = nextRead + BufSize
  /\ GoTo("addRead")
  /\ UNCHANGED <<promise, ioVars, shutdown, active, fpos, eof, waitingOn,
                 completed, src, decVars>>

HeldCount == IF held = None THEN 0 ELSE 1
InFlight  == MaxJobs - (avail["read"] + Len(completed) + HeldCount)

\* Mutant: the first job completed is the next one.
MatchesFirst(i) == i = 1

Matches(i) ==
  /\ completed[i].offset = waitingOn
  /\ \A k \in 1..(i - 1) : completed[k].offset # waitingOn
NoMatch == \A i \in DOMAIN completed : completed[i].offset # waitingOn

\* getNextCompletedJob: the job of the next offset, if it is there.
NextJob(i) ==
  /\ At("next") /\ Matches(i)
  /\ held' = completed[i]
  /\ completed' = Front([completed EXCEPT ![i] = Last(completed)])
  /\ waitingOn' = waitingOn + held'.used
  /\ src' = src \o Units(held'.from, held'.from + held'.used)
  /\ GoTo(IF held'.used = 0 THEN NoMore ELSE Filled)
  /\ UNCHANGED <<promise, ioVars, shutdown, active, fpos, eof, nextRead, decVars>>

NextWait ==
  /\ At("next") /\ NoMatch /\ InFlight > 0
  /\ Sleep("main", "completed")
  /\ UNCHANGED <<promise, pc, site, ioVars, shutdown, active, readVars, src, decVars>>

NextNone ==
  /\ At("next") /\ NoMatch /\ InFlight = 0
  /\ GoTo(NoMore)
  /\ UNCHANGED <<promise, ioVars, shutdown, active, readVars, src, decVars>>
-----------------------------------------------------------------------------
(* FIO_decompressFrames and FIO_decompressZstdFrame.                       *)

Reject ==
  /\ result' = 1
  /\ GoTo("closeDst")
  /\ UNCHANGED <<pos, frameEnd, flushed, block, need>>

\* No byte is left: right after a frame, wrong in an empty file.
NoInput ==
  /\ At("magic") /\ src = <<>>
  /\ IF some THEN GoTo("closeDst") /\ UNCHANGED decVars ELSE Reject /\ UNCHANGED some
  /\ UNCHANGED <<promise, ioVars, shutdown, active, readVars, src>>

IsFrame == \A i \in 1..MagicSize : src[i] \notin file.bad

\* Too little for a magic number, or another format.  A build with gzip, xz or
\* lz4 would decode those; here the files are zstd's, whole or not.
UnknownHeader ==
  /\ At("magic") /\ src # <<>>
  /\ Len(src) >= MagicSize => ~ IsFrame
  /\ some' = TRUE
  /\ Reject
  /\ UNCHANGED <<promise, ioVars, shutdown, active, readVars, src>>

Take(p)    == avail' = [avail EXCEPT ![p] = @ - 1]
Release(p) == avail' = [avail EXCEPT ![p] = @ + 1]

StartFrame ==
  /\ At("magic") /\ Len(src) >= MagicSize /\ IsFrame
  /\ some' = TRUE
  /\ Take("write")
  /\ frameEnd' \in 1..(file.len + 1) /\ EndsAt(pos, frameEnd')
  /\ pc' = "fill" /\ site' = "header"
  /\ UNCHANGED <<promise, asleep, worker, task, queue, shutdown, active, readVars, src,
                 pos, flushed, block, need, result>>

\* ZSTD_decompressStream consumes n units and puts m out; at the end of the
\* frame it holds the last byte back until everything is put out.
DecodeBlock(n, m) ==
  /\ At("decode") /\ n + m > 0
  /\ \A i \in 1..n : src[i] \notin file.bad
  /\ flushed' = flushed + m
  /\ block' = [from |-> flushed, to |-> flushed']
  /\ n = frameEnd - pos => flushed' = frameEnd
  /\ src' = SubSeq(src, n + 1, Len(src))
  /\ pos' = pos + n
  /\ IF pos' = frameEnd THEN need' = 0
     ELSE need' \in 1..Least(BufSize, frameEnd - pos')
  /\ GoTo("addWrite")
  /\ UNCHANGED <<promise, ioVars, shutdown, active, readVars, frameEnd, some, result>>

InFrame == Least(Len(src), frameEnd - pos)

Decode ==
  \E n \in 0..InFrame : \E m \in 0..(pos + n - flushed) : DecodeBlock(n, m)

DecodeError ==
  /\ At("decode")
  /\ \E i \in 1..InFrame : src[i] \in file.bad
  /\ Release("write")
  /\ Reject
  /\ UNCHANGED <<promise, worker, task, queue, shutdown, active, readVars, src, some>>

AddWrite ==
  /\ At("addWrite")
  /\ \/ /\ active
        /\ Add("write", block, "reacquire")
        /\ block' = IF IsQueueFull("write") THEN block ELSE Nothing(flushed)
        /\ UNCHANGED <<out, avail>>
     \/ /\ ~ active
        /\ out' = out \o Units(block.from, block.to)
        /\ block' = Nothing(flushed)
        /\ Release("write")
        /\ GoTo("reacquire")
        /\ UNCHANGED <<worker, task, queue>>
  /\ UNCHANGED <<file, status, shutdown, active, readVars, src,
                 pos, frameEnd, flushed, need, some, result>>

Reacquire ==
  /\ At("reacquire")
  /\ Take("write")
  /\ \/ need = 0 /\ GoTo("endFrame")
     \/ need > 0 /\ Len(src) >= need /\ GoTo("decode")
     \/ /\ need > 0 /\ Len(src) < need
        /\ pc' = "fill" /\ site' = "refill" /\ UNCHANGED asleep
  /\ UNCHANGED <<promise, worker, task, queue, shutdown, active, readVars, src, decVars>>

\* Mutant: a frame cut short is taken for its end.
PrematureSilent ==
  /\ At("premature")
  /\ Release("write")
  /\ GoTo("closeDst")
  /\ UNCHANGED <<promise, worker, task, queue, shutdown, active, readVars, src, decVars>>

\* The file stops within the frame.
Premature ==
  /\ At("premature")
  /\ Release("write")
  /\ Reject
  /\ UNCHANGED <<promise, worker, task, queue, shutdown, active, readVars, src, some>>

EndFrame ==
  /\ At("endFrame")
  /\ Release("write")
  /\ GoTo("joinFrame")
  /\ UNCHANGED <<promise, worker, task, queue, shutdown, active, readVars, src, decVars>>

\* AIO_WritePool_sparseWriteEnd.
JoinFrame ==
  /\ At("joinFrame") /\ Joined("write")
  /\ pc' = "fill" /\ site' = "magic" /\ UNCHANGED asleep
  /\ UNCHANGED <<promise, ioVars, shutdown, active, readVars, src, decVars>>
-----------------------------------------------------------------------------
(* The ends of FIO_decompressDstFile, FIO_decompressSrcFile and            *)
(* FIO_freeDResources.                                                     *)

\* Mutant: the writes are not awaited.
CloseDstEarly ==
  /\ At("closeDst")
  /\ result' \in {result, 1}
  /\ GoTo("closeSrc")
  /\ UNCHANGED <<promise, ioVars, shutdown, active, readVars, src,
                 pos, frameEnd, flushed, block, need, some>>

\* fclose flushes what is left and may fail.
CloseDst ==
  /\ At("closeDst") /\ Joined("write")
  /\ result' \in {result, 1}
  /\ GoTo("closeSrc")
  /\ UNCHANGED <<promise, ioVars, shutdown, active, readVars, src,
                 pos, frameEnd, flushed, block, need, some>>

\* AIO_ReadPool_setFile(NULL), and fclose of the source.
CloseSrc ==
  /\ At("closeSrc") /\ Joined("read")
  /\ avail' = [avail EXCEPT !["read"] = @ + Len(completed) + HeldCount]
  /\ completed' = <<>> /\ held' = None
  /\ nextRead' = 0 /\ waitingOn' = 0 /\ eof' = FALSE
  /\ src' = <<>>
  /\ result' \in {result, 1}
  /\ pc' = "shut" /\ site' = "write"
  /\ UNCHANGED <<promise, asleep, worker, task, queue, shutdown, active, fpos,
                 pos, frameEnd, flushed, block, need, some>>

\* POOL_free, of the write pool and then of the read pool.
Shut ==
  /\ At("shut") /\ Joined(site)
  /\ shutdown' = [shutdown EXCEPT ![site] = TRUE]
  /\ GoTo("wake")
  /\ UNCHANGED <<promise, ioVars, active, readVars, src, decVars>>

WakeAll ==
  /\ At("wake")
  /\ asleep' = [asleep EXCEPT ![site] = "no"]
  /\ pc' = "threads"
  /\ UNCHANGED <<promise, site, ioVars, shutdown, active, readVars, src, decVars>>

FreeNext ==
  /\ At("threads") /\ site = "write" /\ worker["write"] = "exited"
  /\ pc' = "shut" /\ site' = "read"
  /\ UNCHANGED <<promise, asleep, ioVars, shutdown, active, readVars, src, decVars>>

ExitProgram ==
  /\ At("threads") /\ site = "read" /\ worker["read"] = "exited"
  /\ status' = IF result = 0 THEN "0" ELSE "1"
  /\ UNCHANGED <<file, out, mainVars, ioVars, shutdown, active, readVars, src, decVars>>
-----------------------------------------------------------------------------
Worker(p) == Pop(p) \/ PopWait(p) \/ WorkerExit(p) \/ JobDone(p)

ReadPool == OpenFails \/ Open \/ StartReading \/ StartDone \/ AddRead \/ Fill \/ FillRelease
            \/ (\E i \in DOMAIN completed : NextJob(i)) \/ NextWait \/ NextNone

Frames == NoInput \/ UnknownHeader \/ StartFrame \/ Decode \/ DecodeError
          \/ AddWrite \/ Reacquire \/ Premature \/ EndFrame
          \/ JoinWait("write", "joinFrame") \/ JoinFrame

Closing == JoinWait("write", "closeDst") \/ CloseDst
           \/ JoinWait("read", "closeSrc") \/ CloseSrc
           \/ Shut \/ WakeAll \/ FreeNext \/ ExitProgram

\* The process is gone.
Gone == ~ Running /\ UNCHANGED vars

Next ==
  \/ ReadPool \/ Frames \/ Closing
  \/ \E p \in Pool : Worker(p)
  \/ ExecuteRead \/ ExecuteWrite
  \/ InputOutputError
  \/ \E t \in Thread : Spurious(t)
  \/ Gone

Spec == Init /\ [][Next]_vars

\* The scheduler runs every thread that can run.
FairSpec ==
  /\ Spec
  /\ WF_vars(ReadPool \/ Frames \/ Closing)
  /\ \A p \in Pool : WF_vars(Worker(p))
  /\ WF_vars(ExecuteRead) /\ WF_vars(ExecuteWrite)
-----------------------------------------------------------------------------
PromiseType ==
  /\ status \in {"running", "0", "1", "died"} /\ file \in Files /\ out \in Seq(Nat)

MainType ==
  /\ pc \in {"open", "startReading", "addRead", "fill", "next", "magic", "decode",
             "addWrite", "reacquire", "premature", "endFrame", "joinFrame",
             "closeDst", "closeSrc", "shut", "wake", "threads"}
  /\ site \in {"start", "magic", "header", "refill"} \cup Pool
  /\ asleep \in [Thread -> {"no", "pop", "readPush", "writePush", "completed"}]

PoolType ==
  /\ worker \in [Pool -> {"ready", "running", "ending", "exited"}]
  /\ task \in [Pool -> ReadJob \cup Block \cup {None}]
  /\ worker["read"] = "running" => task["read"] \in ReadJob
  /\ worker["write"] = "running" => task["write"] \in Block
  /\ queue \in [Pool -> Seq(ReadJob) \cup Seq(Block)]
  /\ queue["read"] \in Seq(ReadJob) /\ queue["write"] \in Seq(Block)
  /\ avail \in [Pool -> 0..MaxJobs]
  /\ shutdown \in [Pool -> BOOLEAN] /\ active \in BOOLEAN

ReadType ==
  /\ fpos \in 0..file.len /\ eof \in BOOLEAN
  /\ nextRead \in Nat /\ waitingOn \in Nat
  /\ completed \in Seq(ReadJob) /\ held \in ReadJob \cup {None}
  /\ \A i \in DOMAIN completed : completed[i].used <= BufSize

DecoderType ==
  /\ src \in Seq(Nat) /\ Len(src) < 2 * BufSize
  /\ pos \in Nat /\ flushed \in 0..pos /\ frameEnd \in 0..(file.len + 1)
  /\ block \in Block /\ need \in 0..BufSize
  /\ some \in BOOLEAN /\ result \in {0, 1}

TypeOK == PromiseType /\ MainType /\ PoolType /\ ReadType /\ DecoderType

\* What waits to be written, oldest first, down to the job main fills.
Pending ==
  (IF worker["write"] = "running" THEN <<task["write"]>> ELSE <<>>)
    \o queue["write"] \o <<block>>

\* The decoder is given the file's bytes in order and without a gap, and what
\* it puts out is written, or waits to be, in order and without a gap.
NothingLost ==
  /\ src = Units(pos, pos + Len(src))
  /\ out = Units(0, Pending[1].from)
  /\ \A i \in 1..(Len(Pending) - 1) : Pending[i].to = Pending[i + 1].from
  /\ block.to = flushed

\* Main never finds a pool without a job to acquire, and gives them all back.
JobsSuffice ==
  /\ pc \in {"magic", "reacquire"} => avail["write"] > 0
  /\ pc \in {"shut", "wake", "threads"} => avail = [p \in Pool |-> MaxJobs]

\* No job touches a file that was closed.
ClosedWhenIdle ==
  /\ pc \in {"closeSrc", "shut", "wake", "threads"} => Idle("write")
  /\ pc \in {"shut", "wake", "threads"} => Idle("read")

\* A pool's worker has a job in hand, or is awake to take one.
AtWork(p) == Busy(p) \/ (queue[p] # <<>> /\ worker[p] = "ready" /\ asleep[p] = "no")

\* No wake-up is lost: what a thread sleeps for has not come, and the thread
\* that is to bring it is awake and will.
SleepersAwaited ==
  /\ \A p \in Pool :
       /\ asleep[p] # "no" => queue[p] = <<>> /\ (shutdown[p] => pc = "wake" /\ site = p)
       /\ asleep["main"] = PushOf[p] =>
            AtWork(p) /\ (pc \in {"addRead", "addWrite"} => IsQueueFull(p))
  /\ asleep["main"] = "completed" =>
       NoMatch /\ AtWork("read") /\ (worker["read"] = "ending" => queue["read"] # <<>>)

\* The whole program is what process_reddit_data takes it for.
KeepsPromise == PromiseSpec

\* It ends, whatever the file and whichever read or write fails.
PipeEnds == <>(~ Running)
=============================================================================
