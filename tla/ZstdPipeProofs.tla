--------------------------- MODULE ZstdPipeProofs ---------------------------
(***************************************************************************)
(* The zstd program, for every file, every number of jobs and every buffer *)
(* size.  It never runs out of jobs and closes its files only when no job  *)
(* can touch them: where a job can be is counted (CountInv).  It loses     *)
(* nothing: reads, decoding and writes each go on where they stopped       *)
(* (OrderInv).  And it keeps ZstdPromise: a frame has ended wherever main  *)
(* asks for another, and nothing is left when it leaves (FramesOK).        *)
(***************************************************************************)
EXTENDS ZstdPipe, TLAPS

AtEnd   == pc \in {"shut", "wake", "threads"}
Filling == pc \in {"fill", "addRead", "next"}

\* Where main can be within fillBuffer, and for what.
Places ==
  /\ Filling => site \in {"start", "magic", "header", "refill"}
  /\ pc \in {"fill", "next"} => site # "start"
  /\ AtEnd => site \in Pool
  /\ pc \in {"addRead", "next"} /\ site # "start" => held = None /\ Len(src) < Wanted
  /\ pc = "startReading" => site = "start"
  /\ pc = "addRead" => nextRead >= BufSize

\* The jobs a pool has queued or is doing.
Given(p) == Len(queue[p]) + (IF worker[p] = "running" THEN 1 ELSE 0)

HoldsWrite ==
  \/ pc \in {"decode", "addWrite", "premature", "endFrame"}
  \/ Filling /\ site \in {"header", "refill"}

DoneCount == Len(completed)
HoldCount == IF HoldsWrite THEN 1 ELSE 0
AddCount  == IF pc = "addRead" THEN 1 ELSE 0

\* Every write job is available, given to the worker, or held by main.
WriteCount == avail["write"] + Given("write") + HoldCount = MaxJobs

\* Every read job is available, given to the worker, completed or held.
ReadCount ==
  avail["read"] + Given("read") + DoneCount + HeldCount + AddCount = MaxJobs

\* A queue leaves room for the worker's job and for main's.
Room ==
  \A p \in Pool : IF MaxJobs > 2 THEN Len(queue[p]) <= MaxJobs - 2
                  ELSE queue[p] = <<>> \/ (Len(queue[p]) = 1 /\ ~ Busy(p))

\* Nothing is under way without the workers, before reading and after closing.
Quiet ==
  /\ ~ active \/ pc = "open" => \A p \in Pool : Idle(p)
  /\ pc = "open" \/ AtEnd => completed = <<>> /\ held = None

CountInv == TypeOK /\ Places /\ WriteCount /\ ReadCount /\ Room /\ Quiet /\ ClosedWhenIdle

-----------------------------------------------------------------------------
(* Sequences                                                               *)

\* The units from a to b are as many, and numbered.
LEMMA UnitsAre ==
  ASSUME NEW a \in Nat, NEW b \in Nat, a <= b
  PROVE  /\ Units(a, b) \in Seq(Nat) /\ Len(Units(a, b)) = b - a
         /\ \A i \in 1..(b - a) : Units(a, b)[i] = a + i
<1>1. b - a \in Nat
  OBVIOUS
<1>2. \A i \in 1..(b - a) : a + i \in Nat
  OBVIOUS
<1> QED
  BY <1>1, <1>2 DEF Units

SwapOut(s, i) == Front([s EXCEPT ![i] = Last(s)])

\* Taking an element out by putting the last in its place.
LEMMA SwapOutIs ==
  ASSUME NEW S, NEW s \in Seq(S), NEW i \in DOMAIN s
  PROVE  /\ SwapOut(s, i) \in Seq(S) /\ Len(SwapOut(s, i)) = Len(s) - 1
         /\ \A k \in 1..(Len(s) - 1) : SwapOut(s, i)[k] = IF k = i THEN s[Len(s)] ELSE s[k]
<1> DEFINE e == [s EXCEPT ![i] = s[Len(s)]]
<1>1. Len(s) \in Nat /\ Len(s) >= 1 /\ s[Len(s)] \in S
  OBVIOUS
<1>2. e \in Seq(S) /\ Len(e) = Len(s)
  BY <1>1
<1>3. SwapOut(s, i) = SubSeq(e, 1, Len(s) - 1)
  BY <1>2 DEF SwapOut, Front, Last
<1>4. /\ SubSeq(e, 1, Len(s) - 1) \in Seq(S)
      /\ Len(SubSeq(e, 1, Len(s) - 1)) = Len(s) - 1
      /\ \A k \in 1..(Len(s) - 1) : SubSeq(e, 1, Len(s) - 1)[k] = e[k]
  BY <1>1, <1>2
<1> QED
  BY <1>3, <1>4, <1>1

-----------------------------------------------------------------------------
(* Counting                                                                *)

\* The numbers of a state.
LEMMA Numbers ==
  ASSUME CountInv
  PROVE  /\ MaxJobs \in Nat /\ MaxJobs >= 2 /\ Len(completed) \in Nat
         /\ avail["read"] \in Nat /\ Given("read") \in Nat /\ Len(queue["read"]) \in Nat
         /\ avail["write"] \in Nat /\ Given("write") \in Nat /\ Len(queue["write"]) \in Nat
         /\ HeldCount \in Nat /\ HoldCount \in Nat /\ AddCount \in Nat /\ DoneCount \in Nat
BY PipeAssumption DEF PipeAssumption, CountInv, TypeOK, PoolType, ReadType, Given,
                      HeldCount, HoldCount, AddCount, DoneCount, Pool

\* A job is not the absence of one.
LEMMA NoneIsNoJob == None \notin ReadJob
BY PipeAssumption DEF PipeAssumption, ReadJob

\* The file is one of the given files.
LEMMA FileIs ==
  ASSUME TypeOK
  PROVE  file.len \in Nat /\ file.ends \subseteq 1..file.len /\ file.bad \subseteq 1..file.len
BY FilesAssumption DEF FilesAssumption, FileOK, TypeOK, PromiseType

\* Nothing is counted differently when the counts are left alone.
LEMMA SameWrite ==
  ASSUME WriteCount, UNCHANGED <<avail, queue, worker>>, HoldsWrite' <=> HoldsWrite
  PROVE  WriteCount'
BY DEF WriteCount, Given, HoldCount

LEMMA SameRead ==
  ASSUME ReadCount, UNCHANGED <<avail, queue, worker, completed, held>>,
         pc' = "addRead" <=> pc = "addRead"
  PROVE  ReadCount'
BY DEF ReadCount, Given, HeldCount, AddCount, DoneCount

\* Nor is anything else disturbed by a step that only sleeps, wakes or exits.
LEMMA Unmoved ==
  ASSUME CountInv,
         UNCHANGED <<pc, site, worker, task, queue, avail, shutdown, active, fpos, eof, nextRead,
                     waitingOn, completed, held, src, file, pos, frameEnd, flushed, block, need,
                     some, result>>
  PROVE  /\ PoolType' /\ ReadType' /\ DecoderType' /\ Places' /\ Room' /\ Quiet' /\ ClosedWhenIdle'
         /\ WriteCount' /\ ReadCount'
<1>1. PoolType' /\ ReadType'
  BY DEF CountInv, TypeOK, PoolType, ReadType
<1>2. DecoderType'
  BY DEF CountInv, TypeOK, DecoderType
<1>3. Places'
  BY DEF CountInv, Places, Wanted, AtEnd, Filling
<1>4. Room' /\ Quiet' /\ ClosedWhenIdle'
  BY DEF CountInv, Room, Quiet, ClosedWhenIdle, Busy, Idle, AtEnd
<1>5. WriteCount'
  BY SameWrite DEF CountInv, HoldsWrite, Filling
<1>6. ReadCount'
  BY SameRead DEF CountInv
<1> QED
  BY <1>1, <1>2, <1>3, <1>4, <1>5, <1>6

\* How many jobs a pool has, by what its worker does.
LEMMA GivenIs ==
  ASSUME NEW p, Len(queue[p]) \in Nat
  PROVE  /\ worker[p] = "running" => Given(p) = Len(queue[p]) + 1
         /\ worker[p] # "running" => Given(p) = Len(queue[p])
<1>1. CASE worker[p] = "running"
  BY <1>1 DEF Given
<1>2. CASE worker[p] # "running"
  BY <1>2 DEF Given
<1> QED
  BY <1>1, <1>2

\* A job more in the queue.
LEMMA GivenMore ==
  ASSUME NEW p, Len(queue[p]) \in Nat, Len(queue'[p]) = Len(queue[p]) + 1, worker' = worker
  PROVE  Given(p)' = Given(p) + 1
<1>1. CASE worker[p] = "running"
  BY <1>1 DEF Given
<1>2. CASE worker[p] # "running"
  BY <1>2 DEF Given
<1> QED
  BY <1>1, <1>2

\* The worker has done its job.
LEMMA GivenLess ==
  ASSUME NEW p, Len(queue[p]) \in Nat, queue' = queue,
         worker[p] = "running", worker'[p] # "running"
  PROVE  Given(p)' = Given(p) - 1
BY DEF Given

\* The write pool has a job when main wants one.
LEMMA WriteJobThere ==
  ASSUME CountInv, ~ HoldsWrite
  PROVE  avail["write"] >= 1
<1>1. avail["write"] + Given("write") = MaxJobs
  BY Numbers DEF CountInv, WriteCount, HoldCount
<1>2. Len(queue["write"]) \in Nat /\ MaxJobs \in Nat /\ MaxJobs >= 2
  BY Numbers
<1>3. Given("write") <= MaxJobs - 1
  <2>1. CASE MaxJobs > 2
    <3>1. Len(queue["write"]) <= MaxJobs - 2
      BY <2>1 DEF CountInv, Room, Pool
    <3> QED
      BY <3>1, <1>2, GivenIs
  <2>2. CASE ~ (MaxJobs > 2)
    <3>1. Len(queue["write"]) = 0 \/ (Len(queue["write"]) = 1 /\ worker["write"] # "running")
      BY <2>2 DEF CountInv, Room, Pool, Busy
    <3>2. Given("write") <= 1
      <4>1. CASE worker["write"] = "running"
        BY <3>1, <1>2, <4>1, GivenIs
      <4>2. CASE worker["write"] # "running"
        <5>1. Given("write") = Len(queue["write"])
          BY <1>2, <4>2, GivenIs
        <5>2. Given("write") = 0 \/ Given("write") = 1
          BY <3>1, <5>1
        <5> QED
          BY <5>2
      <4> QED
        BY <4>1, <4>2
    <3> QED
      BY <3>2, <1>2, Numbers
  <2> QED
    BY <2>1, <2>2
<1> QED
  BY <1>1, <1>3, Numbers

-----------------------------------------------------------------------------
(* What POOL_add does: wait for room, queue, or, without the workers, work. *)

AddReadFull ==
  /\ At("addRead") /\ active /\ IsQueueFull("read")
  /\ UNCHANGED <<promise, pc, site, ioVars, shutdown, active, readVars, src, decVars>>
  /\ Sleep("main", PushOf["read"])

AddReadQueued ==
  /\ At("addRead") /\ active /\ ~ IsQueueFull("read")
  /\ queue' = [queue EXCEPT !["read"] = Append(@, NewRead)]
  /\ asleep' = [asleep EXCEPT !["read"] = "no"]
  /\ pc' = AfterAdd
  /\ UNCHANGED <<promise, site, worker, task, avail, shutdown, active, readVars, src, decVars>>

AddReadInline ==
  /\ At("addRead") /\ ~ active
  /\ ReadInto(NewRead)
  /\ pc' = AfterAdd
  /\ UNCHANGED <<promise, site, asleep, ioVars, shutdown, active,
                 nextRead, waitingOn, held, src, decVars>>

AddWriteFull ==
  /\ At("addWrite") /\ active /\ IsQueueFull("write")
  /\ UNCHANGED <<promise, pc, site, ioVars, shutdown, active, readVars, src, decVars>>
  /\ Sleep("main", PushOf["write"])

AddWriteQueued ==
  /\ At("addWrite") /\ active /\ ~ IsQueueFull("write")
  /\ queue' = [queue EXCEPT !["write"] = Append(@, block)]
  /\ asleep' = [asleep EXCEPT !["write"] = "no"]
  /\ pc' = "reacquire"
  /\ block' = Nothing(flushed)
  /\ UNCHANGED <<promise, site, worker, task, avail, shutdown, active, readVars, src,
                 pos, frameEnd, flushed, need, some, result>>

AddWriteInline ==
  /\ At("addWrite") /\ ~ active
  /\ out' = out \o Units(block.from, block.to)
  /\ block' = Nothing(flushed)
  /\ Release("write")
  /\ pc' = "reacquire"
  /\ UNCHANGED <<file, status, site, asleep, worker, task, queue, shutdown, active,
                 readVars, src, pos, frameEnd, flushed, need, some, result>>

\* Main's two uses of POOL_add do one of these.
LEMMA AddReadIs ==
  ASSUME AddRead
  PROVE  AddReadFull \/ AddReadQueued \/ AddReadInline
BY DEF AddRead, Add, AddReadFull, AddReadQueued, AddReadInline, At, GoTo,
       promise, ioVars, readVars, decVars

LEMMA AddWriteIs ==
  ASSUME AddWrite
  PROVE  AddWriteFull \/ AddWriteQueued \/ AddWriteInline
BY DEF AddWrite, Add, AddWriteFull, AddWriteQueued, AddWriteInline, At, GoTo,
       promise, ioVars, readVars, decVars, Nothing


LEMMA PopCount ==
  ASSUME CountInv, NEW p \in Pool, Pop(p)
  PROVE  CountInv'
<1>1. UNCHANGED <<file, out, status, pc, site, avail, shutdown, active, fpos, eof, nextRead, waitingOn, completed, held, src, pos, frameEnd, flushed, block, need, some, result>>
  BY DEF Pop, Free, Signal, PushOf, promise, mainVars, ioVars, readVars, decVars
<1>2. PromiseType' /\ ReadType' /\ DecoderType' /\ Places'
  BY <1>1 DEF CountInv, TypeOK, PromiseType, ReadType, DecoderType, Places, Wanted, AtEnd, Filling
<1>3. MainType'
  BY <1>1, PipeAssumption DEF PipeAssumption, CountInv, TypeOK, MainType, PoolType, ReadType, DecoderType, MainType, Pool, Thread, Pop, Free, Signal, PushOf, Running
<1>4. PoolType'
  BY <1>1, PipeAssumption DEF PipeAssumption, CountInv, TypeOK, MainType, PoolType, ReadType, DecoderType, PoolType, Pool, Pop, Free, Signal, PushOf, Running
<1>5. WriteCount'
  <2>0. /\ \A r \in Pool : Given(r)' = Given(r)
    <3>1. SUFFICES ASSUME NEW r \in Pool PROVE Given(r)' = Given(r)
      OBVIOUS
    <3>2. CASE r = p
      <4>1. Len(queue'[r]) = Len(queue[r]) - 1 /\ worker'[r] = "running" /\ worker[r] = "ready"
        BY <1>1, <3>2 DEF CountInv, TypeOK, PoolType, Pool, Pop, Free
      <4> QED
        BY <4>1, <3>2, Numbers DEF Given, Pool
    <3>3. CASE r # p
      BY <1>1, <3>3 DEF CountInv, TypeOK, PoolType, Pool, Pop, Given
    <3> QED
      BY <3>2, <3>3
  <2> QED
    BY <2>0, <1>1 DEF CountInv, WriteCount, HoldCount, HoldsWrite, Filling, Pool
<1>6. ReadCount'
  <2>0. /\ \A r \in Pool : Given(r)' = Given(r)
    <3>1. SUFFICES ASSUME NEW r \in Pool PROVE Given(r)' = Given(r)
      OBVIOUS
    <3>2. CASE r = p
      <4>1. Len(queue'[r]) = Len(queue[r]) - 1 /\ worker'[r] = "running" /\ worker[r] = "ready"
        BY <1>1, <3>2 DEF CountInv, TypeOK, PoolType, Pool, Pop, Free
      <4> QED
        BY <4>1, <3>2, Numbers DEF Given, Pool
    <3>3. CASE r # p
      BY <1>1, <3>3 DEF CountInv, TypeOK, PoolType, Pool, Pop, Given
    <3> QED
      BY <3>2, <3>3
  <2> QED
    BY <2>0, <1>1 DEF CountInv, ReadCount, HeldCount, AddCount, DoneCount, Pool
<1>7. Room'
  <2>1. SUFFICES ASSUME NEW r \in Pool
                 PROVE  IF MaxJobs > 2 THEN Len(queue'[r]) <= MaxJobs - 2
                        ELSE queue'[r] = <<>> \/ (Len(queue'[r]) = 1 /\ ~ Busy(r)')
    BY DEF Room
  <2>2. IF MaxJobs > 2 THEN Len(queue[r]) <= MaxJobs - 2
        ELSE queue[r] = <<>> \/ (Len(queue[r]) = 1 /\ ~ Busy(r))
    BY DEF CountInv, Room
  <2>3. \/ queue[r] \in Seq(ReadJob) \/ queue[r] \in Seq(Block)
    BY DEF CountInv, TypeOK, PoolType, Pool
  <2>4. CASE r = p
    <3>1. queue[r] # <<>> /\ queue'[r] = Tail(queue[r])
      BY <2>4 DEF Pop, CountInv, TypeOK, PoolType
    <3>2. Len(queue'[r]) = Len(queue[r]) - 1 /\ Len(queue[r]) \in Nat
      BY <2>3, <3>1
    <3>3. Len(queue'[r]) = 0 => queue'[r] = <<>>
      <4>1. queue'[r] \in Seq(ReadJob) \/ queue'[r] \in Seq(Block)
        BY <2>3, <3>1
      <4> QED
        BY <4>1
    <3>4. MaxJobs \in Nat
      BY Numbers
    <3> QED
      BY <2>2, <3>1, <3>2, <3>3, <3>4
  <2>5. CASE r # p
    <3>1. queue'[r] = queue[r] /\ worker'[r] = worker[r]
      BY <2>5 DEF Pop, CountInv, TypeOK, PoolType
    <3> QED
      BY <2>2, <3>1 DEF Busy
  <2> QED
    BY <2>4, <2>5
<1>8. Quiet'
  BY <1>1, PipeAssumption DEF PipeAssumption, CountInv, TypeOK, PoolType, ReadType, MainType, Quiet, Idle, Busy, AtEnd, Pool, Pop, Free, Signal, PushOf, Running
<1>9. ClosedWhenIdle'
  BY <1>1, PipeAssumption DEF PipeAssumption, CountInv, TypeOK, PoolType, ReadType, MainType, ClosedWhenIdle, Idle, Busy, Pop, Free, Signal, PushOf, Running
<1> QED
  BY <1>2, <1>3, <1>4, <1>5, <1>6, <1>7, <1>8, <1>9 DEF CountInv, TypeOK

LEMMA PopWaitCount ==
  ASSUME CountInv, NEW p \in Pool, PopWait(p)
  PROVE  CountInv'
<1>1. UNCHANGED <<file, out, status, pc, site, worker, task, queue, avail, shutdown, active, fpos, eof, nextRead, waitingOn, completed, held, src, pos, frameEnd, flushed, block, need, some, result>>
  BY DEF PopWait, Free, Sleep, promise, mainVars, ioVars, readVars, decVars
<1>2. /\ PoolType' /\ ReadType' /\ DecoderType' /\ Places' /\ Room' /\ Quiet' /\ ClosedWhenIdle'
      /\ WriteCount' /\ ReadCount'
  BY <1>1, Unmoved
<1>3. PromiseType'
  BY <1>1 DEF CountInv, TypeOK, PromiseType
<1>5. MainType'
  BY <1>1, PipeAssumption DEF PipeAssumption, CountInv, TypeOK, MainType, PoolType, ReadType, DecoderType, MainType, Pool, Thread, PopWait, Free, Sleep, Running
<1> QED
  BY <1>2, <1>3, <1>5 DEF CountInv, TypeOK

LEMMA WorkerExitCount ==
  ASSUME CountInv, NEW p \in Pool, WorkerExit(p)
  PROVE  CountInv'
<1>1. UNCHANGED <<file, out, status, pc, site, asleep, task, queue, avail, shutdown, active, fpos, eof, nextRead, waitingOn, completed, held, src, pos, frameEnd, flushed, block, need, some, result>>
  BY DEF WorkerExit, Free, promise, mainVars, ioVars, readVars, decVars
<1>2. PromiseType' /\ MainType' /\ ReadType' /\ DecoderType' /\ Places'
  BY <1>1 DEF CountInv, TypeOK, PromiseType, MainType, ReadType, DecoderType, Places, Wanted, AtEnd, Filling
<1>3. PoolType'
  BY <1>1, PipeAssumption DEF PipeAssumption, CountInv, TypeOK, MainType, PoolType, ReadType, DecoderType, PoolType, Pool, WorkerExit, Free, Running
<1>4. WriteCount'
  <2>1. Given("write")' = Given("write")
    BY <1>1 DEF CountInv, TypeOK, PoolType, Pool, Given, WorkerExit, Free
  <2> QED
    BY <2>1, <1>1 DEF CountInv, WriteCount, HoldCount, HoldsWrite, Filling
<1>5. ReadCount'
  <2>1. Given("read")' = Given("read")
    BY <1>1 DEF CountInv, TypeOK, PoolType, Pool, Given, WorkerExit, Free
  <2> QED
    BY <2>1, <1>1 DEF CountInv, ReadCount, HeldCount, AddCount, DoneCount
<1>6. Room'
  BY <1>1, PipeAssumption DEF PipeAssumption, CountInv, TypeOK, PoolType, ReadType, MainType, Room, Busy, Pool, WorkerExit, Free, Running
<1>7. Quiet'
  BY <1>1, PipeAssumption DEF PipeAssumption, CountInv, TypeOK, PoolType, ReadType, MainType, Quiet, Idle, Busy, AtEnd, Pool, WorkerExit, Free, Running
<1>8. ClosedWhenIdle'
  BY <1>1, PipeAssumption DEF PipeAssumption, CountInv, TypeOK, PoolType, ReadType, MainType, ClosedWhenIdle, Idle, Busy, WorkerExit, Free, Running
<1> QED
  BY <1>2, <1>3, <1>4, <1>5, <1>6, <1>7, <1>8 DEF CountInv, TypeOK

LEMMA JobDoneCount ==
  ASSUME CountInv, NEW p \in Pool, JobDone(p)
  PROVE  CountInv'
<1>1. UNCHANGED <<file, out, status, pc, site, queue, avail, shutdown, active, fpos, eof, nextRead, waitingOn, completed, held, src, pos, frameEnd, flushed, block, need, some, result>>
  BY DEF JobDone, Signal, PushOf, promise, mainVars, ioVars, readVars, decVars
<1>2. PromiseType' /\ ReadType' /\ DecoderType' /\ Places'
  BY <1>1 DEF CountInv, TypeOK, PromiseType, ReadType, DecoderType, Places, Wanted, AtEnd, Filling
<1>3. MainType'
  BY <1>1, PipeAssumption DEF PipeAssumption, CountInv, TypeOK, MainType, PoolType, ReadType, DecoderType, MainType, Pool, Thread, JobDone, Signal, PushOf, Running
<1>4. PoolType'
  BY <1>1, PipeAssumption DEF PipeAssumption, CountInv, TypeOK, MainType, PoolType, ReadType, DecoderType, PoolType, Pool, JobDone, Signal, PushOf, Running
<1>5. WriteCount'
  <2>1. Given("write")' = Given("write")
    BY <1>1 DEF CountInv, TypeOK, PoolType, Pool, Given, JobDone, Signal, PushOf
  <2> QED
    BY <2>1, <1>1 DEF CountInv, WriteCount, HoldCount, HoldsWrite, Filling
<1>6. ReadCount'
  <2>1. Given("read")' = Given("read")
    BY <1>1 DEF CountInv, TypeOK, PoolType, Pool, Given, JobDone, Signal, PushOf
  <2> QED
    BY <2>1, <1>1 DEF CountInv, ReadCount, HeldCount, AddCount, DoneCount
<1>7. Room'
  BY <1>1, PipeAssumption DEF PipeAssumption, CountInv, TypeOK, PoolType, ReadType, MainType, Room, Busy, Pool, JobDone, Signal, PushOf, Running
<1>8. Quiet'
  BY <1>1, PipeAssumption DEF PipeAssumption, CountInv, TypeOK, PoolType, ReadType, MainType, Quiet, Idle, Busy, AtEnd, Pool, JobDone, Signal, PushOf, Running
<1>9. ClosedWhenIdle'
  BY <1>1, PipeAssumption DEF PipeAssumption, CountInv, TypeOK, PoolType, ReadType, MainType, ClosedWhenIdle, Idle, Busy, JobDone, Signal, PushOf, Running
<1> QED
  BY <1>2, <1>3, <1>4, <1>5, <1>6, <1>7, <1>8, <1>9 DEF CountInv, TypeOK

LEMMA JoinWaitCount ==
  ASSUME CountInv, NEW p \in Pool, NEW c, JoinWait(p, c)
  PROVE  CountInv'
<1>1. UNCHANGED <<file, out, status, pc, site, worker, task, queue, avail, shutdown, active, fpos, eof, nextRead, waitingOn, completed, held, src, pos, frameEnd, flushed, block, need, some, result>>
  BY DEF JoinWait, At, Sleep, PushOf, Idle, promise, mainVars, ioVars, readVars, decVars
<1>2. /\ PoolType' /\ ReadType' /\ DecoderType' /\ Places' /\ Room' /\ Quiet' /\ ClosedWhenIdle'
      /\ WriteCount' /\ ReadCount'
  BY <1>1, Unmoved
<1>3. PromiseType'
  BY <1>1 DEF CountInv, TypeOK, PromiseType
<1>5. MainType'
  BY <1>1, PipeAssumption DEF PipeAssumption, CountInv, TypeOK, MainType, PoolType, ReadType, DecoderType, MainType, Pool, Thread, JoinWait, At, Sleep, PushOf, Idle, Running
<1> QED
  BY <1>2, <1>3, <1>5 DEF CountInv, TypeOK

LEMMA OpenFailsCount ==
  ASSUME CountInv, OpenFails
  PROVE  CountInv'
<1>1. UNCHANGED <<file, out, status, asleep, worker, task, queue, avail, shutdown, active, fpos, eof, nextRead, waitingOn, completed, held, src, pos, frameEnd, flushed, block, need, some>>
  BY DEF OpenFails, At, promise, mainVars, ioVars, readVars, decVars
<1>2. PromiseType' /\ PoolType' /\ ReadType' /\ Room'
  BY <1>1 DEF CountInv, TypeOK, PromiseType, PoolType, ReadType, Room, Busy
<1>3. MainType'
  BY <1>1, PipeAssumption DEF PipeAssumption, CountInv, TypeOK, MainType, PoolType, ReadType, DecoderType, MainType, Pool, Thread, OpenFails, At, Running
<1>4. DecoderType'
  BY <1>1, PipeAssumption DEF PipeAssumption, CountInv, TypeOK, MainType, PoolType, ReadType, DecoderType, DecoderType, Block, OpenFails, At, Running
<1>5. Places'
  BY <1>1, PipeAssumption DEF PipeAssumption, CountInv, TypeOK, PoolType, ReadType, MainType, Places, Wanted, AtEnd, Filling, Pool, OpenFails, At, Running
<1>6. WriteCount'
  <2>1. HoldsWrite' <=> HoldsWrite
    BY <1>1 DEF CountInv, Places, TypeOK, MainType, HoldsWrite, Filling, Pool, OpenFails, At, Wanted, Running
  <2> QED
    BY <2>1, <1>1, SameWrite DEF CountInv
<1>7. ReadCount'
  BY <1>1, PipeAssumption DEF PipeAssumption, CountInv, TypeOK, PoolType, ReadType, MainType, ReadCount, Given, HeldCount, AddCount, DoneCount, OpenFails, At, Running
<1>8. Quiet'
  BY <1>1, PipeAssumption DEF PipeAssumption, CountInv, TypeOK, PoolType, ReadType, MainType, Quiet, Idle, Busy, AtEnd, Pool, OpenFails, At, Running
<1>9. ClosedWhenIdle'
  <2>1. Idle("read") /\ Idle("write")
    BY DEF CountInv, Quiet, Pool, OpenFails, At
  <2> QED
    BY <2>1, <1>1 DEF ClosedWhenIdle, Idle, Busy
<1> QED
  BY <1>2, <1>3, <1>4, <1>5, <1>6, <1>7, <1>8, <1>9 DEF CountInv, TypeOK

LEMMA OpenCount ==
  ASSUME CountInv, Open
  PROVE  CountInv'
<1>1. UNCHANGED <<file, out, status, asleep, worker, task, queue, avail, shutdown, fpos, eof, nextRead, waitingOn, completed, held, src, pos, frameEnd, flushed, block, need, some, result>>
  BY DEF Open, At, promise, mainVars, ioVars, readVars, decVars
<1>2. PromiseType' /\ ReadType' /\ DecoderType' /\ Room'
  BY <1>1 DEF CountInv, TypeOK, PromiseType, ReadType, DecoderType, Room, Busy
<1>3. MainType'
  BY <1>1, PipeAssumption DEF PipeAssumption, CountInv, TypeOK, MainType, PoolType, ReadType, DecoderType, MainType, Pool, Thread, Open, At, Running
<1>4. PoolType'
  BY <1>1, PipeAssumption DEF PipeAssumption, CountInv, TypeOK, MainType, PoolType, ReadType, DecoderType, PoolType, Pool, Open, At, Running
<1>5. Places'
  BY <1>1, PipeAssumption DEF PipeAssumption, CountInv, TypeOK, PoolType, ReadType, MainType, Places, Wanted, AtEnd, Filling, Pool, Open, At, Running
<1>6. WriteCount'
  <2>1. HoldsWrite' <=> HoldsWrite
    BY <1>1 DEF CountInv, Places, TypeOK, MainType, HoldsWrite, Filling, Pool, Open, At, Wanted, Running
  <2> QED
    BY <2>1, <1>1, SameWrite DEF CountInv
<1>7. ReadCount'
  BY <1>1, PipeAssumption DEF PipeAssumption, CountInv, TypeOK, PoolType, ReadType, MainType, ReadCount, Given, HeldCount, AddCount, DoneCount, Open, At, Running
<1>8. Quiet'
  BY <1>1, PipeAssumption DEF PipeAssumption, CountInv, TypeOK, PoolType, ReadType, MainType, Quiet, Idle, Busy, AtEnd, Pool, Open, At, Running
<1>9. ClosedWhenIdle'
  BY <1>1, PipeAssumption DEF PipeAssumption, CountInv, TypeOK, PoolType, ReadType, MainType, ClosedWhenIdle, Idle, Busy, Open, At, Running
<1> QED
  BY <1>2, <1>3, <1>4, <1>5, <1>6, <1>7, <1>8, <1>9 DEF CountInv, TypeOK

LEMMA StartReadingCount ==
  ASSUME CountInv, StartReading
  PROVE  CountInv'
<1>1. UNCHANGED <<file, out, status, site, asleep, worker, task, queue, shutdown, active, fpos, eof, waitingOn, completed, held, src, pos, frameEnd, flushed, block, need, some, result>>
  BY DEF StartReading, At, GoTo, promise, mainVars, ioVars, readVars, decVars
<1>2. PromiseType' /\ DecoderType' /\ Room'
  BY <1>1 DEF CountInv, TypeOK, PromiseType, DecoderType, Room, Busy
<1>3. MainType'
  BY <1>1, PipeAssumption DEF PipeAssumption, CountInv, TypeOK, MainType, PoolType, ReadType, DecoderType, MainType, Pool, Thread, StartReading, At, GoTo, Running
<1>4. PoolType'
  BY <1>1, PipeAssumption DEF PipeAssumption, CountInv, TypeOK, MainType, PoolType, ReadType, DecoderType, PoolType, Pool, StartReading, At, GoTo, Running
<1>5. ReadType'
  BY <1>1, PipeAssumption DEF PipeAssumption, CountInv, TypeOK, MainType, PoolType, ReadType, DecoderType, ReadType, StartReading, At, GoTo, Running
<1>6. Places'
  BY <1>1, PipeAssumption DEF PipeAssumption, CountInv, TypeOK, PoolType, ReadType, MainType, Places, Wanted, AtEnd, Filling, Pool, StartReading, At, GoTo, Running
<1>7. WriteCount'
  <2>1. UNCHANGED <<queue, worker>> /\ avail'["write"] = avail["write"]
    BY <1>1 DEF CountInv, TypeOK, PoolType, Pool, StartReading
  <2>2. ~ HoldsWrite /\ ~ HoldsWrite'
    BY <1>1 DEF CountInv, Places, HoldsWrite, Filling, StartReading, At, GoTo
  <2> QED
    BY <2>1, <2>2 DEF CountInv, WriteCount, HoldCount, Given
<1>8. ReadCount'
  <2>1. avail'["read"] = avail["read"] - 1
    BY <1>1 DEF CountInv, TypeOK, PoolType, Pool, StartReading, At, GoTo
  <2>2. Given("read")' = Given("read")
    BY <1>1 DEF CountInv, TypeOK, PoolType, Pool, Given, StartReading, At, GoTo
  <2>3. DoneCount' = DoneCount
    BY <1>1 DEF DoneCount
  <2>4. HeldCount' = HeldCount
    BY <1>1 DEF HeldCount, StartReading, At, GoTo
  <2>5. AddCount' = AddCount + 1
    BY <1>1 DEF AddCount, StartReading, At, GoTo
  <2>9. /\ ReadCount /\ MaxJobs \in Nat /\ avail["read"] \in Nat /\ Given("read") \in Nat
        /\ DoneCount \in Nat /\ HeldCount \in Nat /\ AddCount \in Nat
    BY Numbers DEF CountInv
  <2> QED
    BY <2>1, <2>2, <2>3, <2>4, <2>5, <2>9 DEF ReadCount
<1>9. Quiet'
  BY <1>1, PipeAssumption DEF PipeAssumption, CountInv, TypeOK, PoolType, ReadType, MainType, Quiet, Idle, Busy, AtEnd, Pool, StartReading, At, GoTo, Running
<1>10. ClosedWhenIdle'
  BY <1>1, PipeAssumption DEF PipeAssumption, CountInv, TypeOK, PoolType, ReadType, MainType, ClosedWhenIdle, Idle, Busy, StartReading, At, GoTo, Running
<1> QED
  BY <1>2, <1>3, <1>4, <1>5, <1>6, <1>7, <1>8, <1>9, <1>10 DEF CountInv, TypeOK

LEMMA StartDoneCount ==
  ASSUME CountInv, StartDone
  PROVE  CountInv'
<1>1. UNCHANGED <<file, out, status, asleep, worker, task, queue, avail, shutdown, active, fpos, eof, nextRead, waitingOn, completed, held, src, pos, frameEnd, flushed, block, need, some, result>>
  BY DEF StartDone, At, promise, mainVars, ioVars, readVars, decVars
<1>2. PromiseType' /\ PoolType' /\ ReadType' /\ DecoderType' /\ Room'
  BY <1>1 DEF CountInv, TypeOK, PromiseType, PoolType, ReadType, DecoderType, Room, Busy
<1>3. MainType'
  BY <1>1, PipeAssumption DEF PipeAssumption, CountInv, TypeOK, MainType, PoolType, ReadType, DecoderType, MainType, Pool, Thread, StartDone, At, Running
<1>4. Places'
  BY <1>1, PipeAssumption DEF PipeAssumption, CountInv, TypeOK, PoolType, ReadType, MainType, Places, Wanted, AtEnd, Filling, Pool, StartDone, At, Running
<1>5. WriteCount'
  <2>1. HoldsWrite' <=> HoldsWrite
    BY <1>1 DEF CountInv, Places, TypeOK, MainType, HoldsWrite, Filling, Pool, StartDone, At, Wanted, Running
  <2> QED
    BY <2>1, <1>1, SameWrite DEF CountInv
<1>6. ReadCount'
  BY <1>1, PipeAssumption DEF PipeAssumption, CountInv, TypeOK, PoolType, ReadType, MainType, ReadCount, Given, HeldCount, AddCount, DoneCount, StartDone, At, Running
<1>7. Quiet'
  BY <1>1, PipeAssumption DEF PipeAssumption, CountInv, TypeOK, PoolType, ReadType, MainType, Quiet, Idle, Busy, AtEnd, Pool, StartDone, At, Running
<1>8. ClosedWhenIdle'
  BY <1>1, PipeAssumption DEF PipeAssumption, CountInv, TypeOK, PoolType, ReadType, MainType, ClosedWhenIdle, Idle, Busy, StartDone, At, Running
<1> QED
  BY <1>2, <1>3, <1>4, <1>5, <1>6, <1>7, <1>8 DEF CountInv, TypeOK

LEMMA AddReadFullCount ==
  ASSUME CountInv, AddReadFull
  PROVE  CountInv'
<1>1. UNCHANGED <<file, out, status, pc, site, worker, task, queue, avail, shutdown, active, fpos, eof, nextRead, waitingOn, completed, held, src, pos, frameEnd, flushed, block, need, some, result>>
  BY DEF AddReadFull, At, Sleep, PushOf, promise, mainVars, ioVars, readVars, decVars
<1>2. /\ PoolType' /\ ReadType' /\ DecoderType' /\ Places' /\ Room' /\ Quiet' /\ ClosedWhenIdle'
      /\ WriteCount' /\ ReadCount'
  BY <1>1, Unmoved
<1>3. PromiseType'
  BY <1>1 DEF CountInv, TypeOK, PromiseType
<1>5. MainType'
  BY <1>1, PipeAssumption DEF PipeAssumption, CountInv, TypeOK, MainType, PoolType, ReadType, DecoderType, MainType, Pool, Thread, AddReadFull, At, Sleep, PushOf, Running
<1> QED
  BY <1>2, <1>3, <1>5 DEF CountInv, TypeOK

LEMMA AddReadQueuedCount ==
  ASSUME CountInv, AddReadQueued
  PROVE  CountInv'
<1>1. UNCHANGED <<file, out, status, site, worker, task, avail, shutdown, active, fpos, eof, nextRead, waitingOn, completed, held, src, pos, frameEnd, flushed, block, need, some, result>>
  BY DEF AddReadQueued, At, AfterAdd, NewRead, IsQueueFull, promise, mainVars, ioVars, readVars, decVars
<1>2. PromiseType' /\ ReadType' /\ DecoderType'
  BY <1>1 DEF CountInv, TypeOK, PromiseType, ReadType, DecoderType
<1>0. /\ queue["read"] \in Seq(ReadJob) /\ NewRead \in ReadJob
      /\ queue'["read"] \in Seq(ReadJob) /\ Len(queue'["read"]) = Len(queue["read"]) + 1
      /\ queue'["write"] = queue["write"]
  <2>1. nextRead - BufSize \in Nat
    BY PipeAssumption DEF PipeAssumption, CountInv, Places, TypeOK, ReadType, AddReadQueued, At
  <2>2. queue["read"] \in Seq(ReadJob) /\ NewRead \in ReadJob
    BY <2>1 DEF CountInv, TypeOK, PoolType, NewRead, ReadJob
  <2> QED
    BY <2>2 DEF AddReadQueued, CountInv, TypeOK, PoolType, Pool
<1>3. MainType'
  BY <1>0, <1>1, PipeAssumption DEF PipeAssumption, CountInv, TypeOK, MainType, PoolType, ReadType, DecoderType, MainType, Pool, Thread, AddReadQueued, At, AfterAdd, NewRead, IsQueueFull, Running
<1>4. PoolType'
  BY <1>0, <1>1, PipeAssumption DEF PipeAssumption, CountInv, TypeOK, MainType, PoolType, ReadType, DecoderType, PoolType, Pool, AddReadQueued, At, AfterAdd, NewRead, IsQueueFull, Running
<1>5. Places'
  BY <1>0, <1>1, PipeAssumption DEF PipeAssumption, CountInv, TypeOK, PoolType, ReadType, MainType, Places, Wanted, AtEnd, Filling, Pool, AddReadQueued, At, AfterAdd, NewRead, IsQueueFull, Running
<1>6. WriteCount'
  <2>1. HoldsWrite' <=> HoldsWrite
    BY <1>1 DEF CountInv, Places, HoldsWrite, Filling, AddReadQueued, At, AfterAdd
  <2>2. Given("write")' = Given("write")
    BY <1>0, <1>1 DEF Given
  <2> QED
    BY <2>1, <2>2, <1>1 DEF CountInv, WriteCount, HoldCount
<1>7. ReadCount'
  <2>1. avail'["read"] = avail["read"]
    BY <1>1 DEF CountInv, TypeOK, PoolType, Pool, AddReadQueued, At, AfterAdd, NewRead, IsQueueFull
  <2>2. Given("read")' = Given("read") + 1
    <3>1. Len(queue'["read"]) = Len(queue["read"]) + 1 /\ worker' = worker
      BY <1>0, <1>1
    <3> QED
      BY <3>1, Numbers, GivenMore
  <2>3. DoneCount' = DoneCount
    BY <1>1 DEF DoneCount
  <2>4. HeldCount' = HeldCount
    BY <1>1 DEF HeldCount, AddReadQueued, At, AfterAdd, NewRead, IsQueueFull
  <2>5. AddCount' = AddCount - 1
    BY <1>1 DEF AddCount, AddReadQueued, At, AfterAdd, NewRead, IsQueueFull
  <2>9. /\ ReadCount /\ MaxJobs \in Nat /\ avail["read"] \in Nat /\ Given("read") \in Nat
        /\ DoneCount \in Nat /\ HeldCount \in Nat /\ AddCount \in Nat
    BY Numbers DEF CountInv
  <2> QED
    BY <2>1, <2>2, <2>3, <2>4, <2>5, <2>9 DEF ReadCount
<1>8. Room'
  <2>1. Len(queue["read"]) \in Nat /\ MaxJobs \in Nat /\ MaxJobs >= 2
    BY Numbers
  <2>2. Len(queue'["read"]) = Len(queue["read"]) + 1 /\ queue'["write"] = queue["write"] /\ worker' = worker
    BY <1>0, <1>1
  <2>3. CASE MaxJobs > 2
    <3>1. Len(queue["read"]) <= MaxJobs - 2 /\ Len(queue["read"]) # MaxJobs - 2
      BY <2>3 DEF CountInv, Room, Pool, AddReadQueued, IsQueueFull
    <3>2. Len(queue["write"]) <= MaxJobs - 2
      BY <2>3 DEF CountInv, Room, Pool
    <3> QED
      BY <2>1, <2>2, <2>3, <3>1, <3>2 DEF Room, Pool
  <2>4. CASE ~ (MaxJobs > 2)
    <3>1. ~ Busy("read") /\ Len(queue'["read"]) = 1
      BY <2>2, <2>4, <1>0 DEF AddReadQueued, IsQueueFull
    <3>2. ~ Busy("read")' /\ (Busy("write")' <=> Busy("write"))
      BY <2>2, <3>1 DEF Busy
    <3>3. queue["write"] = <<>> \/ (Len(queue["write"]) = 1 /\ ~ Busy("write"))
      BY <2>4 DEF CountInv, Room, Pool
    <3> QED
      BY <2>2, <2>4, <3>1, <3>2, <3>3 DEF Room, Pool
  <2> QED
    BY <2>3, <2>4
<1>9. Quiet'
  BY <1>0, <1>1, PipeAssumption DEF PipeAssumption, CountInv, TypeOK, PoolType, ReadType, MainType, Quiet, Idle, Busy, AtEnd, Pool, AddReadQueued, At, AfterAdd, NewRead, IsQueueFull, Running
<1>10. ClosedWhenIdle'
  BY <1>0, <1>1, PipeAssumption DEF PipeAssumption, CountInv, TypeOK, PoolType, ReadType, MainType, ClosedWhenIdle, Idle, Busy, AddReadQueued, At, AfterAdd, NewRead, IsQueueFull, Running
<1> QED
  BY <1>2, <1>3, <1>4, <1>5, <1>6, <1>7, <1>8, <1>9, <1>10 DEF CountInv, TypeOK

LEMMA AddReadInlineCount ==
  ASSUME CountInv, AddReadInline
  PROVE  CountInv'
<1>1. UNCHANGED <<file, out, status, site, asleep, worker, task, queue, avail, shutdown, active, nextRead, waitingOn, held, src, pos, frameEnd, flushed, block, need, some, result>>
  BY DEF AddReadInline, At, AfterAdd, NewRead, ReadInto, Got, Least, promise, mainVars, ioVars, readVars, decVars
<1>2. PromiseType' /\ PoolType' /\ DecoderType' /\ Room'
  BY <1>1 DEF CountInv, TypeOK, PromiseType, PoolType, DecoderType, Room, Busy
<1>0. /\ Got(NewRead) \in 0..BufSize /\ fpos + Got(NewRead) \in 0..file.len
      /\ completed' \in Seq(ReadJob) /\ Len(completed') = Len(completed) + 1
      /\ \A k \in DOMAIN completed' : completed'[k].used <= BufSize
  <2>1. Got(NewRead) \in 0..BufSize /\ fpos + Got(NewRead) \in 0..file.len /\ fpos \in Nat
    BY FileIs, PipeAssumption DEF PipeAssumption, Got, Least, CountInv, TypeOK, ReadType
  <2> DEFINE new == [offset |-> NewRead.offset, from |-> fpos, used |-> Got(NewRead)]
  <2>2. new \in ReadJob /\ new.used <= BufSize
    <3>1. NewRead \in ReadJob
      BY PipeAssumption DEF PipeAssumption, NewRead, ReadJob, CountInv, TypeOK, ReadType, Places, AddReadInline, At
    <3>2. NewRead.offset \in Nat
      BY <3>1 DEF ReadJob
    <3> QED
      BY <3>1, <3>2, <2>1, PipeAssumption DEF PipeAssumption, ReadJob
  <2>3. completed' = Append(completed, new) /\ completed \in Seq(ReadJob)
    BY DEF AddReadInline, ReadInto, CountInv, TypeOK, ReadType
  <2>4. /\ completed' \in Seq(ReadJob) /\ Len(completed') = Len(completed) + 1
        /\ \A k \in 1..Len(completed) : completed'[k] = completed[k]
        /\ completed'[Len(completed) + 1] = new
    BY <2>2, <2>3
  <2>5. \A k \in DOMAIN completed : completed[k].used <= BufSize
    BY DEF CountInv, TypeOK, ReadType
  <2> HIDE DEF new
  <2>6. \A k \in DOMAIN completed' : completed'[k].used <= BufSize
    BY <2>2, <2>3, <2>4, <2>5
  <2> QED
    BY <2>1, <2>4, <2>6
<1>3. MainType'
  BY <1>0, <1>1, PipeAssumption DEF PipeAssumption, CountInv, TypeOK, MainType, PoolType, ReadType, DecoderType, MainType, Pool, Thread, AddReadInline, At, AfterAdd, NewRead, ReadInto, Got, Least, Running
<1>4. ReadType'
  <2>1. fpos' = fpos + Got(NewRead) /\ eof' \in BOOLEAN
    BY DEF AddReadInline, ReadInto
  <2> QED
    BY <2>1, <1>0, <1>1 DEF CountInv, TypeOK, ReadType
<1>5. Places'
  BY <1>0, <1>1, PipeAssumption DEF PipeAssumption, CountInv, TypeOK, PoolType, ReadType, MainType, Places, Wanted, AtEnd, Filling, Pool, AddReadInline, At, AfterAdd, NewRead, ReadInto, Got, Least, Running
<1>6. WriteCount'
  <2>1. HoldsWrite' <=> HoldsWrite
    BY <1>1 DEF CountInv, Places, HoldsWrite, Filling, AddReadInline, At, AfterAdd
  <2> QED
    BY <2>1, <1>1, SameWrite DEF CountInv
<1>7. ReadCount'
  <2>1. avail'["read"] = avail["read"]
    BY <1>1 DEF CountInv, TypeOK, PoolType, Pool, AddReadInline, At, AfterAdd, NewRead, ReadInto, Got, Least
  <2>2. Given("read")' = Given("read")
    BY <1>1 DEF CountInv, TypeOK, PoolType, Pool, Given, AddReadInline, At, AfterAdd, NewRead, ReadInto, Got, Least
  <2>3. DoneCount' = DoneCount + 1
    BY <1>0, <1>1 DEF DoneCount
  <2>4. HeldCount' = HeldCount
    BY <1>1 DEF HeldCount, AddReadInline, At, AfterAdd, NewRead, ReadInto, Got, Least
  <2>5. AddCount' = AddCount - 1
    BY <1>1 DEF AddCount, AddReadInline, At, AfterAdd, NewRead, ReadInto, Got, Least
  <2>9. /\ ReadCount /\ MaxJobs \in Nat /\ avail["read"] \in Nat /\ Given("read") \in Nat
        /\ DoneCount \in Nat /\ HeldCount \in Nat /\ AddCount \in Nat
    BY Numbers DEF CountInv
  <2> QED
    BY <2>1, <2>2, <2>3, <2>4, <2>5, <2>9 DEF ReadCount
<1>8. Quiet'
  BY <1>0, <1>1, PipeAssumption DEF PipeAssumption, CountInv, TypeOK, PoolType, ReadType, MainType, Quiet, Idle, Busy, AtEnd, Pool, AddReadInline, At, AfterAdd, NewRead, ReadInto, Got, Least, Running
<1>9. ClosedWhenIdle'
  BY <1>0, <1>1, PipeAssumption DEF PipeAssumption, CountInv, TypeOK, PoolType, ReadType, MainType, ClosedWhenIdle, Idle, Busy, AddReadInline, At, AfterAdd, NewRead, ReadInto, Got, Least, Running
<1> QED
  BY <1>2, <1>3, <1>4, <1>5, <1>6, <1>7, <1>8, <1>9 DEF CountInv, TypeOK

LEMMA FillCount ==
  ASSUME CountInv, Fill
  PROVE  CountInv'
<1>1. UNCHANGED <<file, out, status, site, asleep, worker, task, queue, avail, shutdown, active, fpos, eof, nextRead, waitingOn, completed, held, src, pos, frameEnd, flushed, block, need, some, result>>
  BY DEF Fill, At, GoTo, Filled, promise, mainVars, ioVars, readVars, decVars
<1>2. PromiseType' /\ PoolType' /\ ReadType' /\ DecoderType' /\ Room'
  BY <1>1 DEF CountInv, TypeOK, PromiseType, PoolType, ReadType, DecoderType, Room, Busy
<1>3. MainType'
  BY <1>1, PipeAssumption DEF PipeAssumption, CountInv, TypeOK, MainType, PoolType, ReadType, DecoderType, MainType, Pool, Thread, Fill, At, GoTo, Filled, Running
<1>4. Places'
  BY <1>1, PipeAssumption DEF PipeAssumption, CountInv, TypeOK, PoolType, ReadType, MainType, Places, Wanted, AtEnd, Filling, Pool, Fill, At, GoTo, Filled, Running
<1>5. WriteCount'
  <2>1. HoldsWrite' <=> HoldsWrite
    BY <1>1 DEF CountInv, Places, TypeOK, MainType, HoldsWrite, Filling, Pool, Fill, At, GoTo, Filled, Wanted, Running
  <2> QED
    BY <2>1, <1>1, SameWrite DEF CountInv
<1>6. ReadCount'
  BY <1>1, PipeAssumption DEF PipeAssumption, CountInv, TypeOK, PoolType, ReadType, MainType, ReadCount, Given, HeldCount, AddCount, DoneCount, Fill, At, GoTo, Filled, Running
<1>7. Quiet'
  BY <1>1, PipeAssumption DEF PipeAssumption, CountInv, TypeOK, PoolType, ReadType, MainType, Quiet, Idle, Busy, AtEnd, Pool, Fill, At, GoTo, Filled, Running
<1>8. ClosedWhenIdle'
  BY <1>1, PipeAssumption DEF PipeAssumption, CountInv, TypeOK, PoolType, ReadType, MainType, ClosedWhenIdle, Idle, Busy, Fill, At, GoTo, Filled, Running
<1> QED
  BY <1>2, <1>3, <1>4, <1>5, <1>6, <1>7, <1>8 DEF CountInv, TypeOK

LEMMA FillReleaseCount ==
  ASSUME CountInv, FillRelease
  PROVE  CountInv'
<1>1. UNCHANGED <<file, out, status, site, asleep, worker, task, queue, avail, shutdown, active, fpos, eof, waitingOn, completed, src, pos, frameEnd, flushed, block, need, some, result>>
  BY DEF FillRelease, At, GoTo, promise, mainVars, ioVars, readVars, decVars
<1>2. PromiseType' /\ PoolType' /\ DecoderType' /\ Room'
  BY <1>1 DEF CountInv, TypeOK, PromiseType, PoolType, DecoderType, Room, Busy
<1>3. MainType'
  BY <1>1, PipeAssumption DEF PipeAssumption, CountInv, TypeOK, MainType, PoolType, ReadType, DecoderType, MainType, Pool, Thread, FillRelease, At, GoTo, Running
<1>4. ReadType'
  BY <1>1, PipeAssumption DEF PipeAssumption, CountInv, TypeOK, MainType, PoolType, ReadType, DecoderType, ReadType, FillRelease, At, GoTo, Running
<1>5. Places'
  BY <1>1, PipeAssumption DEF PipeAssumption, CountInv, TypeOK, PoolType, ReadType, MainType, Places, Wanted, AtEnd, Filling, Pool, FillRelease, At, GoTo, Running
<1>6. WriteCount'
  <2>1. HoldsWrite' <=> HoldsWrite
    BY <1>1 DEF CountInv, Places, TypeOK, MainType, HoldsWrite, Filling, Pool, FillRelease, At, GoTo, Wanted, Running
  <2> QED
    BY <2>1, <1>1, SameWrite DEF CountInv
<1>7. ReadCount'
  <2>1. avail'["read"] = avail["read"]
    BY <1>1 DEF CountInv, TypeOK, PoolType, Pool, FillRelease, At, GoTo
  <2>2. Given("read")' = Given("read")
    BY <1>1 DEF CountInv, TypeOK, PoolType, Pool, Given, FillRelease, At, GoTo
  <2>3. DoneCount' = DoneCount
    BY <1>1 DEF DoneCount
  <2>4. HeldCount' = HeldCount - 1
    BY <1>1 DEF HeldCount, FillRelease, At, GoTo
  <2>5. AddCount' = AddCount + 1
    BY <1>1 DEF AddCount, FillRelease, At, GoTo
  <2>9. /\ ReadCount /\ MaxJobs \in Nat /\ avail["read"] \in Nat /\ Given("read") \in Nat
        /\ DoneCount \in Nat /\ HeldCount \in Nat /\ AddCount \in Nat
    BY Numbers DEF CountInv
  <2> QED
    BY <2>1, <2>2, <2>3, <2>4, <2>5, <2>9 DEF ReadCount
<1>8. Quiet'
  BY <1>1, PipeAssumption DEF PipeAssumption, CountInv, TypeOK, PoolType, ReadType, MainType, Quiet, Idle, Busy, AtEnd, Pool, FillRelease, At, GoTo, Running
<1>9. ClosedWhenIdle'
  BY <1>1, PipeAssumption DEF PipeAssumption, CountInv, TypeOK, PoolType, ReadType, MainType, ClosedWhenIdle, Idle, Busy, FillRelease, At, GoTo, Running
<1> QED
  BY <1>2, <1>3, <1>4, <1>5, <1>6, <1>7, <1>8, <1>9 DEF CountInv, TypeOK

LEMMA NextJobCount ==
  ASSUME CountInv, NEW i \in DOMAIN completed, NextJob(i)
  PROVE  CountInv'
<1>1. UNCHANGED <<file, out, status, site, asleep, worker, task, queue, avail, shutdown, active, fpos, eof, nextRead, pos, frameEnd, flushed, block, need, some, result>>
  BY DEF NextJob, At, Matches, GoTo, NoMore, Filled, promise, mainVars, ioVars, readVars, decVars
<1>2. PromiseType' /\ PoolType' /\ Room'
  BY <1>1 DEF CountInv, TypeOK, PromiseType, PoolType, Room, Busy
<1>0. /\ completed[i] \in ReadJob /\ completed[i].used <= BufSize /\ held' = completed[i]
      /\ completed' \in Seq(ReadJob) /\ Len(completed') = Len(completed) - 1
      /\ \A k \in DOMAIN completed' : completed'[k].used <= BufSize
  <2>1. completed' = SwapOut(completed, i) /\ completed \in Seq(ReadJob)
    BY DEF NextJob, SwapOut, CountInv, TypeOK, ReadType
  <2>2. /\ completed' \in Seq(ReadJob) /\ Len(completed') = Len(completed) - 1
        /\ \A k \in 1..(Len(completed) - 1) :
             completed'[k] = IF k = i THEN completed[Len(completed)] ELSE completed[k]
    BY <2>1, SwapOutIs
  <2>3. \A k \in DOMAIN completed : completed[k].used <= BufSize
    BY DEF CountInv, TypeOK, ReadType
  <2>4. completed[i] \in ReadJob /\ completed[i].used <= BufSize /\ Len(completed) \in DOMAIN completed
    BY <2>1, <2>3
  <2>5. ASSUME NEW k \in DOMAIN completed' PROVE completed'[k].used <= BufSize
    <3>1. k \in 1..(Len(completed) - 1) /\ k \in DOMAIN completed
      BY <2>1, <2>2
    <3>2. CASE k = i
      BY <3>1, <3>2, <2>2, <2>3, <2>4
    <3>3. CASE k # i
      BY <3>1, <3>3, <2>2, <2>3
    <3> QED
      BY <3>2, <3>3
  <2>6. held' = completed[i]
    BY DEF NextJob
  <2> QED
    BY <2>2, <2>4, <2>5, <2>6
<1>3. MainType'
  BY <1>0, <1>1, PipeAssumption DEF PipeAssumption, CountInv, TypeOK, MainType, PoolType, ReadType, DecoderType, MainType, Pool, Thread, NextJob, At, Matches, GoTo, NoMore, Filled, Running
<1>4. ReadType'
  <2>1. completed[i].used \in Nat
    BY <1>0 DEF ReadJob
  <2>2. waitingOn' = waitingOn + completed[i].used
    BY <1>0 DEF NextJob
  <2> QED
    BY <2>1, <2>2, <1>0, <1>1 DEF CountInv, TypeOK, ReadType
<1>5. DecoderType'
  <2> DEFINE c == completed[i]
             u == Units(c.from, c.from + c.used)
  <2>1. c.from \in Nat /\ c.used \in Nat /\ c.used <= BufSize
    BY <1>0 DEF ReadJob
  <2>2. u \in Seq(Nat) /\ Len(u) = c.used
    <3> HIDE DEF c
    <3>1. c.from + c.used \in Nat /\ c.from <= c.from + c.used
          /\ (c.from + c.used) - c.from = c.used
      BY <2>1
    <3> QED
      BY <2>1, <3>1, UnitsAre
  <2>3. src' = src \o u
    BY <1>0 DEF NextJob
  <2>4. src \in Seq(Nat) /\ Len(src) < BufSize
    <3>1. Wanted \in Nat /\ Wanted <= BufSize
      BY PipeAssumption DEF PipeAssumption, Wanted, CountInv, TypeOK, DecoderType
    <3>2. Len(src) < Wanted
      BY DEF CountInv, Places, NextJob, At
    <3> QED
      BY <3>1, <3>2, PipeAssumption DEF PipeAssumption, CountInv, TypeOK, DecoderType
  <2> HIDE DEF u, c
  <2>5. src' \in Seq(Nat) /\ Len(src') < 2 * BufSize
    BY <2>1, <2>2, <2>3, <2>4, PipeAssumption DEF PipeAssumption
  <2> QED
    BY <2>5, <1>1 DEF CountInv, TypeOK, DecoderType
<1>6. Places'
  BY <1>0, <1>1, PipeAssumption DEF PipeAssumption, CountInv, TypeOK, PoolType, ReadType, MainType, Places, Wanted, AtEnd, Filling, Pool, NextJob, At, Matches, GoTo, NoMore, Filled, Running
<1>7. WriteCount'
  <2>1. HoldsWrite' <=> HoldsWrite
    BY <1>1 DEF CountInv, Places, TypeOK, MainType, HoldsWrite, Filling, Pool, NextJob, At, Matches, GoTo, NoMore, Filled, Wanted, Running
  <2> QED
    BY <2>1, <1>1, SameWrite DEF CountInv
<1>8. ReadCount'
  <2>1. avail'["read"] = avail["read"]
    BY <1>1 DEF CountInv, TypeOK, PoolType, Pool, NextJob, At, Matches, GoTo, NoMore, Filled
  <2>2. Given("read")' = Given("read")
    BY <1>1 DEF CountInv, TypeOK, PoolType, Pool, Given, NextJob, At, Matches, GoTo, NoMore, Filled
  <2>3. DoneCount' = DoneCount - 1
    BY <1>0, <1>1 DEF DoneCount
  <2>4. HeldCount' = HeldCount + 1
    <3>1. held = None
      BY DEF CountInv, Places, NextJob, At
    <3>2. held' # None
      BY <1>0, NoneIsNoJob
    <3> QED
      BY <3>1, <3>2 DEF HeldCount
  <2>5. AddCount' = AddCount
    BY DEF AddCount, NextJob, At, GoTo, NoMore, Filled
  <2>9. /\ ReadCount /\ MaxJobs \in Nat /\ avail["read"] \in Nat /\ Given("read") \in Nat
        /\ DoneCount \in Nat /\ HeldCount \in Nat /\ AddCount \in Nat
    BY Numbers DEF CountInv
  <2> QED
    BY <2>1, <2>2, <2>3, <2>4, <2>5, <2>9 DEF ReadCount
<1>9. Quiet'
  BY <1>0, <1>1, PipeAssumption DEF PipeAssumption, CountInv, TypeOK, PoolType, ReadType, MainType, Quiet, Idle, Busy, AtEnd, Pool, NextJob, At, Matches, GoTo, NoMore, Filled, Running
<1>10. ClosedWhenIdle'
  BY <1>0, <1>1, PipeAssumption DEF PipeAssumption, CountInv, TypeOK, PoolType, ReadType, MainType, ClosedWhenIdle, Idle, Busy, NextJob, At, Matches, GoTo, NoMore, Filled, Running
<1> QED
  BY <1>2, <1>3, <1>4, <1>5, <1>6, <1>7, <1>8, <1>9, <1>10 DEF CountInv, TypeOK

LEMMA NextWaitCount ==
  ASSUME CountInv, NextWait
  PROVE  CountInv'
<1>1. UNCHANGED <<file, out, status, pc, site, worker, task, queue, avail, shutdown, active, fpos, eof, nextRead, waitingOn, completed, held, src, pos, frameEnd, flushed, block, need, some, result>>
  BY DEF NextWait, At, Sleep, promise, mainVars, ioVars, readVars, decVars
<1>2. /\ PoolType' /\ ReadType' /\ DecoderType' /\ Places' /\ Room' /\ Quiet' /\ ClosedWhenIdle'
      /\ WriteCount' /\ ReadCount'
  BY <1>1, Unmoved
<1>3. PromiseType'
  BY <1>1 DEF CountInv, TypeOK, PromiseType
<1>5. MainType'
  BY <1>1, PipeAssumption DEF PipeAssumption, CountInv, TypeOK, MainType, PoolType, ReadType, DecoderType, MainType, Pool, Thread, NextWait, At, Sleep, Running
<1> QED
  BY <1>2, <1>3, <1>5 DEF CountInv, TypeOK

LEMMA NextNoneCount ==
  ASSUME CountInv, NextNone
  PROVE  CountInv'
<1>1. UNCHANGED <<file, out, status, site, asleep, worker, task, queue, avail, shutdown, active, fpos, eof, nextRead, waitingOn, completed, held, src, pos, frameEnd, flushed, block, need, some, result>>
  BY DEF NextNone, At, GoTo, NoMore, Filled, promise, mainVars, ioVars, readVars, decVars
<1>2. PromiseType' /\ PoolType' /\ ReadType' /\ DecoderType' /\ Room'
  BY <1>1 DEF CountInv, TypeOK, PromiseType, PoolType, ReadType, DecoderType, Room, Busy
<1>3. MainType'
  BY <1>1, PipeAssumption DEF PipeAssumption, CountInv, TypeOK, MainType, PoolType, ReadType, DecoderType, MainType, Pool, Thread, NextNone, At, GoTo, NoMore, Filled, Running
<1>4. Places'
  BY <1>1, PipeAssumption DEF PipeAssumption, CountInv, TypeOK, PoolType, ReadType, MainType, Places, Wanted, AtEnd, Filling, Pool, NextNone, At, GoTo, NoMore, Filled, Running
<1>5. WriteCount'
  <2>1. HoldsWrite' <=> HoldsWrite
    BY <1>1 DEF CountInv, Places, TypeOK, MainType, HoldsWrite, Filling, Pool, NextNone, At, GoTo, NoMore, Filled, Wanted, Running
  <2> QED
    BY <2>1, <1>1, SameWrite DEF CountInv
<1>6. ReadCount'
  BY <1>1, PipeAssumption DEF PipeAssumption, CountInv, TypeOK, PoolType, ReadType, MainType, ReadCount, Given, HeldCount, AddCount, DoneCount, NextNone, At, GoTo, NoMore, Filled, Running
<1>7. Quiet'
  BY <1>1, PipeAssumption DEF PipeAssumption, CountInv, TypeOK, PoolType, ReadType, MainType, Quiet, Idle, Busy, AtEnd, Pool, NextNone, At, GoTo, NoMore, Filled, Running
<1>8. ClosedWhenIdle'
  BY <1>1, PipeAssumption DEF PipeAssumption, CountInv, TypeOK, PoolType, ReadType, MainType, ClosedWhenIdle, Idle, Busy, NextNone, At, GoTo, NoMore, Filled, Running
<1> QED
  BY <1>2, <1>3, <1>4, <1>5, <1>6, <1>7, <1>8 DEF CountInv, TypeOK

LEMMA NoInputCount ==
  ASSUME CountInv, NoInput
  PROVE  CountInv'
<1>1. UNCHANGED <<file, out, status, site, asleep, worker, task, queue, avail, shutdown, active, fpos, eof, nextRead, waitingOn, completed, held, src, pos, frameEnd, flushed, block, need>>
  BY DEF NoInput, At, GoTo, Reject, promise, mainVars, ioVars, readVars, decVars
<1>2. PromiseType' /\ PoolType' /\ ReadType' /\ Room'
  BY <1>1 DEF CountInv, TypeOK, PromiseType, PoolType, ReadType, Room, Busy
<1>3. MainType'
  BY <1>1, PipeAssumption DEF PipeAssumption, CountInv, TypeOK, MainType, PoolType, ReadType, DecoderType, MainType, Pool, Thread, NoInput, At, GoTo, Reject, Running
<1>4. DecoderType'
  <2>1. some' \in BOOLEAN /\ result' \in {0, 1} /\ UNCHANGED <<pos, frameEnd, flushed, block, need>>
    BY DEF NoInput, Reject, CountInv, TypeOK, DecoderType, decVars
  <2> QED
    BY <2>1, <1>1 DEF CountInv, TypeOK, DecoderType
<1>5. Places'
  BY <1>1, PipeAssumption DEF PipeAssumption, CountInv, TypeOK, PoolType, ReadType, MainType, Places, Wanted, AtEnd, Filling, Pool, NoInput, At, GoTo, Reject, Running
<1>6. WriteCount'
  <2>1. HoldsWrite' <=> HoldsWrite
    BY <1>1 DEF CountInv, Places, TypeOK, MainType, HoldsWrite, Filling, Pool, NoInput, At, GoTo, Reject, Wanted, Running
  <2> QED
    BY <2>1, <1>1, SameWrite DEF CountInv
<1>7. ReadCount'
  BY <1>1, PipeAssumption DEF PipeAssumption, CountInv, TypeOK, PoolType, ReadType, MainType, ReadCount, Given, HeldCount, AddCount, DoneCount, NoInput, At, GoTo, Reject, Running
<1>8. Quiet'
  BY <1>1, PipeAssumption DEF PipeAssumption, CountInv, TypeOK, PoolType, ReadType, MainType, Quiet, Idle, Busy, AtEnd, Pool, NoInput, At, GoTo, Reject, Running
<1>9. ClosedWhenIdle'
  BY <1>1, PipeAssumption DEF PipeAssumption, CountInv, TypeOK, PoolType, ReadType, MainType, ClosedWhenIdle, Idle, Busy, NoInput, At, GoTo, Reject, Running
<1> QED
  BY <1>2, <1>3, <1>4, <1>5, <1>6, <1>7, <1>8, <1>9 DEF CountInv, TypeOK

LEMMA UnknownHeaderCount ==
  ASSUME CountInv, UnknownHeader
  PROVE  CountInv'
<1>1. UNCHANGED <<file, out, status, site, asleep, worker, task, queue, avail, shutdown, active, fpos, eof, nextRead, waitingOn, completed, held, src, pos, frameEnd, flushed, block, need>>
  BY DEF UnknownHeader, At, GoTo, Reject, promise, mainVars, ioVars, readVars, decVars
<1>2. PromiseType' /\ PoolType' /\ ReadType' /\ Room'
  BY <1>1 DEF CountInv, TypeOK, PromiseType, PoolType, ReadType, Room, Busy
<1>3. MainType'
  BY <1>1, PipeAssumption DEF PipeAssumption, CountInv, TypeOK, MainType, PoolType, ReadType, DecoderType, MainType, Pool, Thread, UnknownHeader, At, GoTo, Reject, Running
<1>4. DecoderType'
  BY <1>1, PipeAssumption DEF PipeAssumption, CountInv, TypeOK, MainType, PoolType, ReadType, DecoderType, DecoderType, Block, UnknownHeader, At, GoTo, Reject, Running
<1>5. Places'
  BY <1>1, PipeAssumption DEF PipeAssumption, CountInv, TypeOK, PoolType, ReadType, MainType, Places, Wanted, AtEnd, Filling, Pool, UnknownHeader, At, GoTo, Reject, Running
<1>6. WriteCount'
  <2>1. HoldsWrite' <=> HoldsWrite
    BY <1>1 DEF CountInv, Places, TypeOK, MainType, HoldsWrite, Filling, Pool, UnknownHeader, At, GoTo, Reject, Wanted, Running
  <2> QED
    BY <2>1, <1>1, SameWrite DEF CountInv
<1>7. ReadCount'
  BY <1>1, PipeAssumption DEF PipeAssumption, CountInv, TypeOK, PoolType, ReadType, MainType, ReadCount, Given, HeldCount, AddCount, DoneCount, UnknownHeader, At, GoTo, Reject, Running
<1>8. Quiet'
  BY <1>1, PipeAssumption DEF PipeAssumption, CountInv, TypeOK, PoolType, ReadType, MainType, Quiet, Idle, Busy, AtEnd, Pool, UnknownHeader, At, GoTo, Reject, Running
<1>9. ClosedWhenIdle'
  BY <1>1, PipeAssumption DEF PipeAssumption, CountInv, TypeOK, PoolType, ReadType, MainType, ClosedWhenIdle, Idle, Busy, UnknownHeader, At, GoTo, Reject, Running
<1> QED
  BY <1>2, <1>3, <1>4, <1>5, <1>6, <1>7, <1>8, <1>9 DEF CountInv, TypeOK

LEMMA StartFrameCount ==
  ASSUME CountInv, StartFrame
  PROVE  CountInv'
<1>1. UNCHANGED <<file, out, status, asleep, worker, task, queue, shutdown, active, fpos, eof, nextRead, waitingOn, completed, held, src, pos, flushed, block, need, result>>
  BY DEF StartFrame, At, Take, promise, mainVars, ioVars, readVars, decVars
<1>2. PromiseType' /\ ReadType' /\ Room'
  BY <1>1 DEF CountInv, TypeOK, PromiseType, ReadType, Room, Busy
<1>3. MainType'
  BY <1>1, PipeAssumption DEF PipeAssumption, CountInv, TypeOK, MainType, PoolType, ReadType, DecoderType, MainType, Pool, Thread, StartFrame, At, Take, Running
<1>4. PoolType'
  <2>1. avail["write"] >= 1
    BY WriteJobThere DEF HoldsWrite, Filling, StartFrame, At
  <2> QED
    BY <1>1, <2>1, Numbers DEF CountInv, TypeOK, PoolType, Pool, StartFrame, At, Take
<1>5. DecoderType'
  BY <1>1, PipeAssumption DEF PipeAssumption, CountInv, TypeOK, MainType, PoolType, ReadType, DecoderType, DecoderType, Block, StartFrame, At, Take, Running
<1>6. Places'
  BY <1>1, PipeAssumption DEF PipeAssumption, CountInv, TypeOK, PoolType, ReadType, MainType, Places, Wanted, AtEnd, Filling, Pool, StartFrame, At, Take, Running
<1>7. WriteCount'
  <2>1. ~ HoldsWrite /\ HoldsWrite'
    BY <1>1 DEF CountInv, Places, TypeOK, MainType, HoldsWrite, Filling, StartFrame, At, Take, Running
  <2>2. avail'["write"] = avail["write"] - 1 /\ Given("write")' = Given("write")
    BY <1>1 DEF CountInv, TypeOK, PoolType, Pool, Given, StartFrame, At, Take
  <2>9. /\ WriteCount /\ MaxJobs \in Nat /\ avail["write"] \in Nat /\ Given("write") \in Nat
        /\ HoldCount \in Nat
    BY Numbers DEF CountInv
  <2> QED
    BY <2>1, <2>2, <2>9 DEF WriteCount, HoldCount
<1>8. ReadCount'
  <2>1. avail'["read"] = avail["read"]
    BY <1>1 DEF CountInv, TypeOK, PoolType, Pool, StartFrame, At, Take
  <2>2. Given("read")' = Given("read")
    BY <1>1 DEF CountInv, TypeOK, PoolType, Pool, Given, StartFrame, At, Take
  <2>3. DoneCount' = DoneCount
    BY <1>1 DEF DoneCount
  <2>4. HeldCount' = HeldCount
    BY <1>1 DEF HeldCount, StartFrame, At, Take
  <2>5. AddCount' = AddCount
    BY <1>1 DEF AddCount, StartFrame, At, Take
  <2>9. /\ ReadCount /\ MaxJobs \in Nat /\ avail["read"] \in Nat /\ Given("read") \in Nat
        /\ DoneCount \in Nat /\ HeldCount \in Nat /\ AddCount \in Nat
    BY Numbers DEF CountInv
  <2> QED
    BY <2>1, <2>2, <2>3, <2>4, <2>5, <2>9 DEF ReadCount
<1>9. Quiet'
  BY <1>1, PipeAssumption DEF PipeAssumption, CountInv, TypeOK, PoolType, ReadType, MainType, Quiet, Idle, Busy, AtEnd, Pool, StartFrame, At, Take, Running
<1>10. ClosedWhenIdle'
  BY <1>1, PipeAssumption DEF PipeAssumption, CountInv, TypeOK, PoolType, ReadType, MainType, ClosedWhenIdle, Idle, Busy, StartFrame, At, Take, Running
<1> QED
  BY <1>2, <1>3, <1>4, <1>5, <1>6, <1>7, <1>8, <1>9, <1>10 DEF CountInv, TypeOK

LEMMA DecodeBlockCount ==
  ASSUME CountInv, NEW n \in 0..InFrame, NEW m \in 0..(pos + n - flushed), DecodeBlock(n, m)
  PROVE  CountInv'
<1>1. UNCHANGED <<file, out, status, site, asleep, worker, task, queue, avail, shutdown, active, fpos, eof, nextRead, waitingOn, completed, held, frameEnd, some, result>>
  BY DEF DecodeBlock, At, GoTo, InFrame, Least, promise, mainVars, ioVars, readVars, decVars
<1>2. PromiseType' /\ PoolType' /\ ReadType' /\ Room'
  BY <1>1 DEF CountInv, TypeOK, PromiseType, PoolType, ReadType, Room, Busy
<1>3. MainType'
  BY <1>1, PipeAssumption DEF PipeAssumption, CountInv, TypeOK, MainType, PoolType, ReadType, DecoderType, MainType, Pool, Thread, DecodeBlock, At, GoTo, InFrame, Least, Running
<1>4. DecoderType'
  <2>1. /\ src \in Seq(Nat) /\ Len(src) \in Nat /\ Len(src) < 2 * BufSize
        /\ pos \in Nat /\ flushed \in 0..pos /\ frameEnd \in Nat /\ BufSize \in Nat
    BY PipeAssumption, FileIs DEF PipeAssumption, CountInv, TypeOK, DecoderType
  <2>2. pc = "decode" /\ n \in Nat /\ m \in Nat /\ n <= Len(src) /\ n <= frameEnd - pos
    <3>1. pc = "decode"
      BY DEF DecodeBlock, At
    <3>2. n \in Nat /\ n <= InFrame /\ m \in Nat /\ InFrame \in Int
      BY <2>1 DEF InFrame, Least
    <3>3. InFrame <= Len(src) /\ InFrame <= frameEnd - pos
      BY <2>1 DEF InFrame, Least
    <3> HIDE DEF InFrame
    <3> QED
      BY <2>1, <3>1, <3>2, <3>3
  <2>3. src' = SubSeq(src, n + 1, Len(src)) /\ src' \in Seq(Nat) /\ Len(src') = Len(src) - n
    <3>1. src' = SubSeq(src, n + 1, Len(src))
      BY DEF DecodeBlock
    <3>2. SubSeq(src, n + 1, Len(src)) \in Seq(Nat)
          /\ Len(SubSeq(src, n + 1, Len(src))) = Len(src) - n
      BY <2>1, <2>2
    <3> QED
      BY <3>1, <3>2
  <2>4. pos' \in Nat /\ flushed' \in 0..pos' /\ block' \in Block
    <3>1. pos' = pos + n /\ flushed' = flushed + m /\ block' = [from |-> flushed, to |-> flushed']
      BY DEF DecodeBlock
    <3>2. flushed \in Nat /\ flushed + m \in Nat /\ flushed + m <= pos + n /\ pos + n \in Nat
      BY <2>1, <2>2
    <3> QED
      BY <3>1, <3>2 DEF Block
  <2>5. need' \in 0..BufSize
    <3>1. pos' = pos + n /\ pos' \in Nat
      BY <2>4 DEF DecodeBlock
    <3>2. CASE pos' = frameEnd
      <4>1. need' = 0
        BY <3>2 DEF DecodeBlock
      <4> QED
        BY <4>1, <2>1
    <3>3. CASE pos' # frameEnd
      BY <3>1, <3>3, <2>1 DEF DecodeBlock, Least
    <3> QED
      BY <3>2, <3>3
  <2>6. Len(src') < 2 * BufSize
    <3>1. Len(src) < 2 * BufSize
      BY DEF CountInv, TypeOK, DecoderType
    <3> QED
      BY <2>1, <2>2, <2>3, <3>1
  <2>7. frameEnd' \in 0..(file'.len + 1) /\ some' \in BOOLEAN /\ result' \in {0, 1}
    BY <1>1 DEF CountInv, TypeOK, DecoderType
  <2> QED
    BY <2>3, <2>4, <2>5, <2>6, <2>7 DEF DecoderType
<1>5. Places'
  BY <1>1, PipeAssumption DEF PipeAssumption, CountInv, TypeOK, PoolType, ReadType, MainType, Places, Wanted, AtEnd, Filling, Pool, DecodeBlock, At, GoTo, InFrame, Least, Running
<1>6. WriteCount'
  <2>1. HoldsWrite' <=> HoldsWrite
    BY <1>1 DEF CountInv, Places, TypeOK, MainType, HoldsWrite, Filling, Pool, DecodeBlock, At, GoTo, InFrame, Least, Wanted, Running
  <2> QED
    BY <2>1, <1>1, SameWrite DEF CountInv
<1>7. ReadCount'
  BY <1>1, PipeAssumption DEF PipeAssumption, CountInv, TypeOK, PoolType, ReadType, MainType, ReadCount, Given, HeldCount, AddCount, DoneCount, DecodeBlock, At, GoTo, InFrame, Least, Running
<1>8. Quiet'
  BY <1>1, PipeAssumption DEF PipeAssumption, CountInv, TypeOK, PoolType, ReadType, MainType, Quiet, Idle, Busy, AtEnd, Pool, DecodeBlock, At, GoTo, InFrame, Least, Running
<1>9. ClosedWhenIdle'
  BY <1>1, PipeAssumption DEF PipeAssumption, CountInv, TypeOK, PoolType, ReadType, MainType, ClosedWhenIdle, Idle, Busy, DecodeBlock, At, GoTo, InFrame, Least, Running
<1> QED
  BY <1>2, <1>3, <1>4, <1>5, <1>6, <1>7, <1>8, <1>9 DEF CountInv, TypeOK

LEMMA DecodeErrorCount ==
  ASSUME CountInv, DecodeError
  PROVE  CountInv'
<1>1. UNCHANGED <<file, out, status, site, asleep, worker, task, queue, shutdown, active, fpos, eof, nextRead, waitingOn, completed, held, src, pos, frameEnd, flushed, block, need, some>>
  BY DEF DecodeError, At, Release, Reject, GoTo, promise, mainVars, ioVars, readVars, decVars
<1>2. PromiseType' /\ ReadType' /\ Room'
  BY <1>1 DEF CountInv, TypeOK, PromiseType, ReadType, Room, Busy
<1>3. MainType'
  BY <1>1, PipeAssumption DEF PipeAssumption, CountInv, TypeOK, MainType, PoolType, ReadType, DecoderType, MainType, Pool, Thread, DecodeError, At, Release, Reject, GoTo, Running
<1>4. PoolType'
  <2>1. avail["write"] + 1 <= MaxJobs
    BY Numbers DEF CountInv, WriteCount, HoldCount, Pool, HoldsWrite, DecodeError, At
  <2> QED
    BY <1>1, <2>1, Numbers DEF CountInv, TypeOK, PoolType, Pool, DecodeError, At, Release, Reject, GoTo
<1>5. DecoderType'
  BY <1>1, PipeAssumption DEF PipeAssumption, CountInv, TypeOK, MainType, PoolType, ReadType, DecoderType, DecoderType, Block, DecodeError, At, Release, Reject, GoTo, Running
<1>6. Places'
  BY <1>1, PipeAssumption DEF PipeAssumption, CountInv, TypeOK, PoolType, ReadType, MainType, Places, Wanted, AtEnd, Filling, Pool, DecodeError, At, Release, Reject, GoTo, Running
<1>7. WriteCount'
  <2>1. HoldsWrite /\ ~ HoldsWrite'
    BY <1>1 DEF CountInv, Places, TypeOK, MainType, HoldsWrite, Filling, DecodeError, At, Release, Reject, GoTo, Running
  <2>2. avail'["write"] = avail["write"] + 1 /\ Given("write")' = Given("write")
    BY <1>1 DEF CountInv, TypeOK, PoolType, Pool, Given, DecodeError, At, Release, Reject, GoTo
  <2>9. /\ WriteCount /\ MaxJobs \in Nat /\ avail["write"] \in Nat /\ Given("write") \in Nat
        /\ HoldCount \in Nat
    BY Numbers DEF CountInv
  <2> QED
    BY <2>1, <2>2, <2>9 DEF WriteCount, HoldCount
<1>8. ReadCount'
  <2>1. avail'["read"] = avail["read"]
    BY <1>1 DEF CountInv, TypeOK, PoolType, Pool, DecodeError, At, Release, Reject, GoTo
  <2>2. Given("read")' = Given("read")
    BY <1>1 DEF CountInv, TypeOK, PoolType, Pool, Given, DecodeError, At, Release, Reject, GoTo
  <2>3. DoneCount' = DoneCount
    BY <1>1 DEF DoneCount
  <2>4. HeldCount' = HeldCount
    BY <1>1 DEF HeldCount, DecodeError, At, Release, Reject, GoTo
  <2>5. AddCount' = AddCount
    BY <1>1 DEF AddCount, DecodeError, At, Release, Reject, GoTo
  <2>9. /\ ReadCount /\ MaxJobs \in Nat /\ avail["read"] \in Nat /\ Given("read") \in Nat
        /\ DoneCount \in Nat /\ HeldCount \in Nat /\ AddCount \in Nat
    BY Numbers DEF CountInv
  <2> QED
    BY <2>1, <2>2, <2>3, <2>4, <2>5, <2>9 DEF ReadCount
<1>9. Quiet'
  BY <1>1, PipeAssumption DEF PipeAssumption, CountInv, TypeOK, PoolType, ReadType, MainType, Quiet, Idle, Busy, AtEnd, Pool, DecodeError, At, Release, Reject, GoTo, Running
<1>10. ClosedWhenIdle'
  BY <1>1, PipeAssumption DEF PipeAssumption, CountInv, TypeOK, PoolType, ReadType, MainType, ClosedWhenIdle, Idle, Busy, DecodeError, At, Release, Reject, GoTo, Running
<1> QED
  BY <1>2, <1>3, <1>4, <1>5, <1>6, <1>7, <1>8, <1>9, <1>10 DEF CountInv, TypeOK

LEMMA AddWriteFullCount ==
  ASSUME CountInv, AddWriteFull
  PROVE  CountInv'
<1>1. UNCHANGED <<file, out, status, pc, site, worker, task, queue, avail, shutdown, active, fpos, eof, nextRead, waitingOn, completed, held, src, pos, frameEnd, flushed, block, need, some, result>>
  BY DEF AddWriteFull, At, Sleep, PushOf, promise, mainVars, ioVars, readVars, decVars
<1>2. /\ PoolType' /\ ReadType' /\ DecoderType' /\ Places' /\ Room' /\ Quiet' /\ ClosedWhenIdle'
      /\ WriteCount' /\ ReadCount'
  BY <1>1, Unmoved
<1>3. PromiseType'
  BY <1>1 DEF CountInv, TypeOK, PromiseType
<1>5. MainType'
  BY <1>1, PipeAssumption DEF PipeAssumption, CountInv, TypeOK, MainType, PoolType, ReadType, DecoderType, MainType, Pool, Thread, AddWriteFull, At, Sleep, PushOf, Running
<1> QED
  BY <1>2, <1>3, <1>5 DEF CountInv, TypeOK

LEMMA AddWriteQueuedCount ==
  ASSUME CountInv, AddWriteQueued
  PROVE  CountInv'
<1>1. UNCHANGED <<file, out, status, site, worker, task, avail, shutdown, active, fpos, eof, nextRead, waitingOn, completed, held, src, pos, frameEnd, flushed, need, some, result>>
  BY DEF AddWriteQueued, At, IsQueueFull, Nothing, promise, mainVars, ioVars, readVars, decVars
<1>2. PromiseType' /\ ReadType'
  BY <1>1 DEF CountInv, TypeOK, PromiseType, ReadType
<1>0. /\ queue["write"] \in Seq(Block) /\ block \in Block
      /\ queue'["write"] \in Seq(Block) /\ Len(queue'["write"]) = Len(queue["write"]) + 1
      /\ queue'["read"] = queue["read"]
  <2>1. queue["write"] \in Seq(Block) /\ block \in Block
    BY DEF CountInv, TypeOK, PoolType, DecoderType
  <2> QED
    BY <2>1 DEF AddWriteQueued, CountInv, TypeOK, PoolType, Pool
<1>3. MainType'
  BY <1>0, <1>1, PipeAssumption DEF PipeAssumption, CountInv, TypeOK, MainType, PoolType, ReadType, DecoderType, MainType, Pool, Thread, AddWriteQueued, At, IsQueueFull, Nothing, Running
<1>4. PoolType'
  BY <1>0, <1>1, PipeAssumption DEF PipeAssumption, CountInv, TypeOK, MainType, PoolType, ReadType, DecoderType, PoolType, Pool, AddWriteQueued, At, IsQueueFull, Nothing, Running
<1>5. DecoderType'
  BY <1>0, <1>1, PipeAssumption DEF PipeAssumption, CountInv, TypeOK, MainType, PoolType, ReadType, DecoderType, DecoderType, Block, AddWriteQueued, At, IsQueueFull, Nothing, Running
<1>6. Places'
  BY <1>0, <1>1, PipeAssumption DEF PipeAssumption, CountInv, TypeOK, PoolType, ReadType, MainType, Places, Wanted, AtEnd, Filling, Pool, AddWriteQueued, At, IsQueueFull, Nothing, Running
<1>7. WriteCount'
  <2>1. avail'["write"] = avail["write"]
    BY <1>1 DEF CountInv, TypeOK, PoolType, Pool, AddWriteQueued, At, IsQueueFull, Nothing
  <2>2. Given("write")' = Given("write") + 1
    <3>1. Len(queue'["write"]) = Len(queue["write"]) + 1 /\ worker' = worker
      BY <1>0, <1>1
    <3> QED
      BY <3>1, Numbers, GivenMore
  <2>3. HoldCount' = HoldCount - 1
    BY <1>1 DEF HoldCount, HoldsWrite, Filling, AddWriteQueued, At
  <2>9. /\ WriteCount /\ MaxJobs \in Nat /\ avail["write"] \in Nat /\ Given("write") \in Nat
        /\ HoldCount \in Nat
    BY Numbers DEF CountInv
  <2> QED
    BY <2>1, <2>2, <2>3, <2>9 DEF WriteCount
<1>8. ReadCount'
  <2>1. avail'["read"] = avail["read"]
    BY <1>1 DEF CountInv, TypeOK, PoolType, Pool, AddWriteQueued, At, IsQueueFull, Nothing
  <2>2. Given("read")' = Given("read")
    BY <1>1 DEF CountInv, TypeOK, PoolType, Pool, Given, AddWriteQueued, At, IsQueueFull, Nothing
  <2>3. DoneCount' = DoneCount
    BY <1>1 DEF DoneCount
  <2>4. HeldCount' = HeldCount
    BY <1>1 DEF HeldCount, AddWriteQueued, At, IsQueueFull, Nothing
  <2>5. AddCount' = AddCount
    BY <1>1 DEF AddCount, AddWriteQueued, At, IsQueueFull, Nothing
  <2>9. /\ ReadCount /\ MaxJobs \in Nat /\ avail["read"] \in Nat /\ Given("read") \in Nat
        /\ DoneCount \in Nat /\ HeldCount \in Nat /\ AddCount \in Nat
    BY Numbers DEF CountInv
  <2> QED
    BY <2>1, <2>2, <2>3, <2>4, <2>5, <2>9 DEF ReadCount
<1>9. Room'
  <2>1. Len(queue["write"]) \in Nat /\ MaxJobs \in Nat /\ MaxJobs >= 2
    BY Numbers
  <2>2. Len(queue'["write"]) = Len(queue["write"]) + 1 /\ queue'["read"] = queue["read"] /\ worker' = worker
    BY <1>0, <1>1
  <2>3. CASE MaxJobs > 2
    <3>1. Len(queue["write"]) <= MaxJobs - 2 /\ Len(queue["write"]) # MaxJobs - 2
      BY <2>3 DEF CountInv, Room, Pool, AddWriteQueued, IsQueueFull
    <3>2. Len(queue["read"]) <= MaxJobs - 2
      BY <2>3 DEF CountInv, Room, Pool
    <3> QED
      BY <2>1, <2>2, <2>3, <3>1, <3>2 DEF Room, Pool
  <2>4. CASE ~ (MaxJobs > 2)
    <3>1. ~ Busy("write") /\ Len(queue'["write"]) = 1
      BY <2>2, <2>4, <1>0 DEF AddWriteQueued, IsQueueFull
    <3>2. ~ Busy("write")' /\ (Busy("read")' <=> Busy("read"))
      BY <2>2, <3>1 DEF Busy
    <3>3. queue["read"] = <<>> \/ (Len(queue["read"]) = 1 /\ ~ Busy("read"))
      BY <2>4 DEF CountInv, Room, Pool
    <3> QED
      BY <2>2, <2>4, <3>1, <3>2, <3>3 DEF Room, Pool
  <2> QED
    BY <2>3, <2>4
<1>10. Quiet'
  BY <1>0, <1>1, PipeAssumption DEF PipeAssumption, CountInv, TypeOK, PoolType, ReadType, MainType, Quiet, Idle, Busy, AtEnd, Pool, AddWriteQueued, At, IsQueueFull, Nothing, Running
<1>11. ClosedWhenIdle'
  BY <1>0, <1>1, PipeAssumption DEF PipeAssumption, CountInv, TypeOK, PoolType, ReadType, MainType, ClosedWhenIdle, Idle, Busy, AddWriteQueued, At, IsQueueFull, Nothing, Running
<1> QED
  BY <1>2, <1>3, <1>4, <1>5, <1>6, <1>7, <1>8, <1>9, <1>10, <1>11 DEF CountInv, TypeOK

LEMMA AddWriteInlineCount ==
  ASSUME CountInv, AddWriteInline
  PROVE  CountInv'
<1>1. UNCHANGED <<file, status, site, asleep, worker, task, queue, shutdown, active, fpos, eof, nextRead, waitingOn, completed, held, src, pos, frameEnd, flushed, need, some, result>>
  BY DEF AddWriteInline, At, Release, Nothing, promise, mainVars, ioVars, readVars, decVars
<1>2. ReadType' /\ Room'
  BY <1>1 DEF CountInv, TypeOK, ReadType, Room, Busy
<1>0. /\ Units(block.from, block.to) \in Seq(Nat)
      /\ HoldsWrite /\ ~ HoldsWrite' /\ avail["write"] + 1 <= MaxJobs
      /\ avail'["write"] = avail["write"] + 1 /\ avail'["read"] = avail["read"]
  <2>1. Units(block.from, block.to) \in Seq(Nat)
    BY UnitsAre DEF CountInv, TypeOK, DecoderType, Block
  <2>2. HoldsWrite /\ ~ HoldsWrite'
    BY DEF HoldsWrite, Filling, AddWriteInline, At
  <2>3. avail["write"] + 1 <= MaxJobs
    BY <2>2, Numbers DEF CountInv, WriteCount, HoldCount, Pool
  <2> QED
    BY <2>1, <2>2, <2>3 DEF AddWriteInline, Release, CountInv, TypeOK, PoolType, Pool
<1>3. PromiseType'
  BY <1>0, <1>1, PipeAssumption DEF PipeAssumption, CountInv, TypeOK, PoolType, ReadType, MainType, PromiseType, AddWriteInline, At, Release, Nothing, Running
<1>4. MainType'
  BY <1>0, <1>1, PipeAssumption DEF PipeAssumption, CountInv, TypeOK, MainType, PoolType, ReadType, DecoderType, MainType, Pool, Thread, AddWriteInline, At, Release, Nothing, Running
<1>5. PoolType'
  BY <1>0, <1>1, PipeAssumption DEF PipeAssumption, CountInv, TypeOK, MainType, PoolType, ReadType, DecoderType, PoolType, Pool, AddWriteInline, At, Release, Nothing, Running
<1>6. DecoderType'
  BY <1>0, <1>1, PipeAssumption DEF PipeAssumption, CountInv, TypeOK, MainType, PoolType, ReadType, DecoderType, DecoderType, Block, AddWriteInline, At, Release, Nothing, Running
<1>7. Places'
  BY <1>0, <1>1, PipeAssumption DEF PipeAssumption, CountInv, TypeOK, PoolType, ReadType, MainType, Places, Wanted, AtEnd, Filling, Pool, AddWriteInline, At, Release, Nothing, Running
<1>8. WriteCount'
  <2>1. Given("write")' = Given("write")
    BY <1>1 DEF Given
  <2>9. /\ WriteCount /\ MaxJobs \in Nat /\ avail["write"] \in Nat /\ Given("write") \in Nat
        /\ HoldCount \in Nat
    BY Numbers DEF CountInv
  <2> QED
    BY <2>1, <1>0, <2>9 DEF WriteCount, HoldCount
<1>9. ReadCount'
  <2>1. avail'["read"] = avail["read"]
    BY <1>1 DEF CountInv, TypeOK, PoolType, Pool, AddWriteInline, At, Release, Nothing
  <2>2. Given("read")' = Given("read")
    BY <1>1 DEF CountInv, TypeOK, PoolType, Pool, Given, AddWriteInline, At, Release, Nothing
  <2>3. DoneCount' = DoneCount
    BY <1>1 DEF DoneCount
  <2>4. HeldCount' = HeldCount
    BY <1>1 DEF HeldCount, AddWriteInline, At, Release, Nothing
  <2>5. AddCount' = AddCount
    BY <1>1 DEF AddCount, AddWriteInline, At, Release, Nothing
  <2>9. /\ ReadCount /\ MaxJobs \in Nat /\ avail["read"] \in Nat /\ Given("read") \in Nat
        /\ DoneCount \in Nat /\ HeldCount \in Nat /\ AddCount \in Nat
    BY Numbers DEF CountInv
  <2> QED
    BY <2>1, <2>2, <2>3, <2>4, <2>5, <2>9 DEF ReadCount
<1>10. Quiet'
  BY <1>0, <1>1, PipeAssumption DEF PipeAssumption, CountInv, TypeOK, PoolType, ReadType, MainType, Quiet, Idle, Busy, AtEnd, Pool, AddWriteInline, At, Release, Nothing, Running
<1>11. ClosedWhenIdle'
  BY <1>0, <1>1, PipeAssumption DEF PipeAssumption, CountInv, TypeOK, PoolType, ReadType, MainType, ClosedWhenIdle, Idle, Busy, AddWriteInline, At, Release, Nothing, Running
<1> QED
  BY <1>2, <1>3, <1>4, <1>5, <1>6, <1>7, <1>8, <1>9, <1>10, <1>11 DEF CountInv, TypeOK

LEMMA ReacquireCount ==
  ASSUME CountInv, Reacquire
  PROVE  CountInv'
<1>1. UNCHANGED <<file, out, status, asleep, worker, task, queue, shutdown, active, fpos, eof, nextRead, waitingOn, completed, held, src, pos, frameEnd, flushed, block, need, some, result>>
  BY DEF Reacquire, At, Take, GoTo, promise, mainVars, ioVars, readVars, decVars
<1>2. PromiseType' /\ ReadType' /\ DecoderType' /\ Room'
  BY <1>1 DEF CountInv, TypeOK, PromiseType, ReadType, DecoderType, Room, Busy
<1>3. MainType'
  BY <1>1, PipeAssumption DEF PipeAssumption, CountInv, TypeOK, MainType, PoolType, ReadType, DecoderType, MainType, Pool, Thread, Reacquire, At, Take, GoTo, Running
<1>4. PoolType'
  <2>1. avail["write"] >= 1
    BY WriteJobThere DEF HoldsWrite, Filling, Reacquire, At
  <2> QED
    BY <1>1, <2>1, Numbers DEF CountInv, TypeOK, PoolType, Pool, Reacquire, At, Take, GoTo
<1>5. Places'
  BY <1>1, PipeAssumption DEF PipeAssumption, CountInv, TypeOK, PoolType, ReadType, MainType, Places, Wanted, AtEnd, Filling, Pool, Reacquire, At, Take, GoTo, Running
<1>6. WriteCount'
  <2>1. ~ HoldsWrite /\ HoldsWrite'
    BY <1>1 DEF CountInv, Places, TypeOK, MainType, HoldsWrite, Filling, Reacquire, At, Take, GoTo, Running
  <2>2. avail'["write"] = avail["write"] - 1 /\ Given("write")' = Given("write")
    BY <1>1 DEF CountInv, TypeOK, PoolType, Pool, Given, Reacquire, At, Take, GoTo
  <2>9. /\ WriteCount /\ MaxJobs \in Nat /\ avail["write"] \in Nat /\ Given("write") \in Nat
        /\ HoldCount \in Nat
    BY Numbers DEF CountInv
  <2> QED
    BY <2>1, <2>2, <2>9 DEF WriteCount, HoldCount
<1>7. ReadCount'
  <2>1. avail'["read"] = avail["read"]
    BY <1>1 DEF CountInv, TypeOK, PoolType, Pool, Reacquire, At, Take, GoTo
  <2>2. Given("read")' = Given("read")
    BY <1>1 DEF CountInv, TypeOK, PoolType, Pool, Given, Reacquire, At, Take, GoTo
  <2>3. DoneCount' = DoneCount
    BY <1>1 DEF DoneCount
  <2>4. HeldCount' = HeldCount
    BY <1>1 DEF HeldCount, Reacquire, At, Take, GoTo
  <2>5. AddCount' = AddCount
    BY <1>1 DEF AddCount, Reacquire, At, Take, GoTo
  <2>9. /\ ReadCount /\ MaxJobs \in Nat /\ avail["read"] \in Nat /\ Given("read") \in Nat
        /\ DoneCount \in Nat /\ HeldCount \in Nat /\ AddCount \in Nat
    BY Numbers DEF CountInv
  <2> QED
    BY <2>1, <2>2, <2>3, <2>4, <2>5, <2>9 DEF ReadCount
<1>8. Quiet'
  BY <1>1, PipeAssumption DEF PipeAssumption, CountInv, TypeOK, PoolType, ReadType, MainType, Quiet, Idle, Busy, AtEnd, Pool, Reacquire, At, Take, GoTo, Running
<1>9. ClosedWhenIdle'
  BY <1>1, PipeAssumption DEF PipeAssumption, CountInv, TypeOK, PoolType, ReadType, MainType, ClosedWhenIdle, Idle, Busy, Reacquire, At, Take, GoTo, Running
<1> QED
  BY <1>2, <1>3, <1>4, <1>5, <1>6, <1>7, <1>8, <1>9 DEF CountInv, TypeOK

LEMMA PrematureCount ==
  ASSUME CountInv, Premature
  PROVE  CountInv'
<1>1. UNCHANGED <<file, out, status, site, asleep, worker, task, queue, shutdown, active, fpos, eof, nextRead, waitingOn, completed, held, src, pos, frameEnd, flushed, block, need, some>>
  BY DEF Premature, At, Release, Reject, GoTo, promise, mainVars, ioVars, readVars, decVars
<1>2. PromiseType' /\ ReadType' /\ Room'
  BY <1>1 DEF CountInv, TypeOK, PromiseType, ReadType, Room, Busy
<1>3. MainType'
  BY <1>1, PipeAssumption DEF PipeAssumption, CountInv, TypeOK, MainType, PoolType, ReadType, DecoderType, MainType, Pool, Thread, Premature, At, Release, Reject, GoTo, Running
<1>4. PoolType'
  <2>1. avail["write"] + 1 <= MaxJobs
    BY Numbers DEF CountInv, WriteCount, HoldCount, Pool, HoldsWrite, Premature, At
  <2> QED
    BY <1>1, <2>1, Numbers DEF CountInv, TypeOK, PoolType, Pool, Premature, At, Release, Reject, GoTo
<1>5. DecoderType'
  BY <1>1, PipeAssumption DEF PipeAssumption, CountInv, TypeOK, MainType, PoolType, ReadType, DecoderType, DecoderType, Block, Premature, At, Release, Reject, GoTo, Running
<1>6. Places'
  BY <1>1, PipeAssumption DEF PipeAssumption, CountInv, TypeOK, PoolType, ReadType, MainType, Places, Wanted, AtEnd, Filling, Pool, Premature, At, Release, Reject, GoTo, Running
<1>7. WriteCount'
  <2>1. HoldsWrite /\ ~ HoldsWrite'
    BY <1>1 DEF CountInv, Places, TypeOK, MainType, HoldsWrite, Filling, Premature, At, Release, Reject, GoTo, Running
  <2>2. avail'["write"] = avail["write"] + 1 /\ Given("write")' = Given("write")
    BY <1>1 DEF CountInv, TypeOK, PoolType, Pool, Given, Premature, At, Release, Reject, GoTo
  <2>9. /\ WriteCount /\ MaxJobs \in Nat /\ avail["write"] \in Nat /\ Given("write") \in Nat
        /\ HoldCount \in Nat
    BY Numbers DEF CountInv
  <2> QED
    BY <2>1, <2>2, <2>9 DEF WriteCount, HoldCount
<1>8. ReadCount'
  <2>1. avail'["read"] = avail["read"]
    BY <1>1 DEF CountInv, TypeOK, PoolType, Pool, Premature, At, Release, Reject, GoTo
  <2>2. Given("read")' = Given("read")
    BY <1>1 DEF CountInv, TypeOK, PoolType, Pool, Given, Premature, At, Release, Reject, GoTo
  <2>3. DoneCount' = DoneCount
    BY <1>1 DEF DoneCount
  <2>4. HeldCount' = HeldCount
    BY <1>1 DEF HeldCount, Premature, At, Release, Reject, GoTo
  <2>5. AddCount' = AddCount
    BY <1>1 DEF AddCount, Premature, At, Release, Reject, GoTo
  <2>9. /\ ReadCount /\ MaxJobs \in Nat /\ avail["read"] \in Nat /\ Given("read") \in Nat
        /\ DoneCount \in Nat /\ HeldCount \in Nat /\ AddCount \in Nat
    BY Numbers DEF CountInv
  <2> QED
    BY <2>1, <2>2, <2>3, <2>4, <2>5, <2>9 DEF ReadCount
<1>9. Quiet'
  BY <1>1, PipeAssumption DEF PipeAssumption, CountInv, TypeOK, PoolType, ReadType, MainType, Quiet, Idle, Busy, AtEnd, Pool, Premature, At, Release, Reject, GoTo, Running
<1>10. ClosedWhenIdle'
  BY <1>1, PipeAssumption DEF PipeAssumption, CountInv, TypeOK, PoolType, ReadType, MainType, ClosedWhenIdle, Idle, Busy, Premature, At, Release, Reject, GoTo, Running
<1> QED
  BY <1>2, <1>3, <1>4, <1>5, <1>6, <1>7, <1>8, <1>9, <1>10 DEF CountInv, TypeOK

LEMMA EndFrameCount ==
  ASSUME CountInv, EndFrame
  PROVE  CountInv'
<1>1. UNCHANGED <<file, out, status, site, asleep, worker, task, queue, shutdown, active, fpos, eof, nextRead, waitingOn, completed, held, src, pos, frameEnd, flushed, block, need, some, result>>
  BY DEF EndFrame, At, Release, GoTo, promise, mainVars, ioVars, readVars, decVars
<1>2. PromiseType' /\ ReadType' /\ DecoderType' /\ Room'
  BY <1>1 DEF CountInv, TypeOK, PromiseType, ReadType, DecoderType, Room, Busy
<1>3. MainType'
  BY <1>1, PipeAssumption DEF PipeAssumption, CountInv, TypeOK, MainType, PoolType, ReadType, DecoderType, MainType, Pool, Thread, EndFrame, At, Release, GoTo, Running
<1>4. PoolType'
  <2>1. avail["write"] + 1 <= MaxJobs
    BY Numbers DEF CountInv, WriteCount, HoldCount, Pool, HoldsWrite, EndFrame, At
  <2> QED
    BY <1>1, <2>1, Numbers DEF CountInv, TypeOK, PoolType, Pool, EndFrame, At, Release, GoTo
<1>5. Places'
  BY <1>1, PipeAssumption DEF PipeAssumption, CountInv, TypeOK, PoolType, ReadType, MainType, Places, Wanted, AtEnd, Filling, Pool, EndFrame, At, Release, GoTo, Running
<1>6. WriteCount'
  <2>1. HoldsWrite /\ ~ HoldsWrite'
    BY <1>1 DEF CountInv, Places, TypeOK, MainType, HoldsWrite, Filling, EndFrame, At, Release, GoTo, Running
  <2>2. avail'["write"] = avail["write"] + 1 /\ Given("write")' = Given("write")
    BY <1>1 DEF CountInv, TypeOK, PoolType, Pool, Given, EndFrame, At, Release, GoTo
  <2>9. /\ WriteCount /\ MaxJobs \in Nat /\ avail["write"] \in Nat /\ Given("write") \in Nat
        /\ HoldCount \in Nat
    BY Numbers DEF CountInv
  <2> QED
    BY <2>1, <2>2, <2>9 DEF WriteCount, HoldCount
<1>7. ReadCount'
  <2>1. avail'["read"] = avail["read"]
    BY <1>1 DEF CountInv, TypeOK, PoolType, Pool, EndFrame, At, Release, GoTo
  <2>2. Given("read")' = Given("read")
    BY <1>1 DEF CountInv, TypeOK, PoolType, Pool, Given, EndFrame, At, Release, GoTo
  <2>3. DoneCount' = DoneCount
    BY <1>1 DEF DoneCount
  <2>4. HeldCount' = HeldCount
    BY <1>1 DEF HeldCount, EndFrame, At, Release, GoTo
  <2>5. AddCount' = AddCount
    BY <1>1 DEF AddCount, EndFrame, At, Release, GoTo
  <2>9. /\ ReadCount /\ MaxJobs \in Nat /\ avail["read"] \in Nat /\ Given("read") \in Nat
        /\ DoneCount \in Nat /\ HeldCount \in Nat /\ AddCount \in Nat
    BY Numbers DEF CountInv
  <2> QED
    BY <2>1, <2>2, <2>3, <2>4, <2>5, <2>9 DEF ReadCount
<1>8. Quiet'
  BY <1>1, PipeAssumption DEF PipeAssumption, CountInv, TypeOK, PoolType, ReadType, MainType, Quiet, Idle, Busy, AtEnd, Pool, EndFrame, At, Release, GoTo, Running
<1>9. ClosedWhenIdle'
  BY <1>1, PipeAssumption DEF PipeAssumption, CountInv, TypeOK, PoolType, ReadType, MainType, ClosedWhenIdle, Idle, Busy, EndFrame, At, Release, GoTo, Running
<1> QED
  BY <1>2, <1>3, <1>4, <1>5, <1>6, <1>7, <1>8, <1>9 DEF CountInv, TypeOK

LEMMA JoinFrameCount ==
  ASSUME CountInv, JoinFrame
  PROVE  CountInv'
<1>1. UNCHANGED <<file, out, status, asleep, worker, task, queue, avail, shutdown, active, fpos, eof, nextRead, waitingOn, completed, held, src, pos, frameEnd, flushed, block, need, some, result>>
  BY DEF JoinFrame, At, Joined, promise, mainVars, ioVars, readVars, decVars
<1>2. PromiseType' /\ PoolType' /\ ReadType' /\ DecoderType' /\ Room'
  BY <1>1 DEF CountInv, TypeOK, PromiseType, PoolType, ReadType, DecoderType, Room, Busy
<1>3. MainType'
  BY <1>1, PipeAssumption DEF PipeAssumption, CountInv, TypeOK, MainType, PoolType, ReadType, DecoderType, MainType, Pool, Thread, JoinFrame, At, Joined, Running
<1>4. Places'
  BY <1>1, PipeAssumption DEF PipeAssumption, CountInv, TypeOK, PoolType, ReadType, MainType, Places, Wanted, AtEnd, Filling, Pool, JoinFrame, At, Joined, Running
<1>5. WriteCount'
  <2>1. HoldsWrite' <=> HoldsWrite
    BY <1>1 DEF CountInv, Places, TypeOK, MainType, HoldsWrite, Filling, Pool, JoinFrame, At, Joined, Wanted, Running
  <2> QED
    BY <2>1, <1>1, SameWrite DEF CountInv
<1>6. ReadCount'
  BY <1>1, PipeAssumption DEF PipeAssumption, CountInv, TypeOK, PoolType, ReadType, MainType, ReadCount, Given, HeldCount, AddCount, DoneCount, JoinFrame, At, Joined, Running
<1>7. Quiet'
  BY <1>1, PipeAssumption DEF PipeAssumption, CountInv, TypeOK, PoolType, ReadType, MainType, Quiet, Idle, Busy, AtEnd, Pool, JoinFrame, At, Joined, Running
<1>8. ClosedWhenIdle'
  BY <1>1, PipeAssumption DEF PipeAssumption, CountInv, TypeOK, PoolType, ReadType, MainType, ClosedWhenIdle, Idle, Busy, JoinFrame, At, Joined, Running
<1> QED
  BY <1>2, <1>3, <1>4, <1>5, <1>6, <1>7, <1>8 DEF CountInv, TypeOK

LEMMA CloseDstCount ==
  ASSUME CountInv, CloseDst
  PROVE  CountInv'
<1>1. UNCHANGED <<file, out, status, site, asleep, worker, task, queue, avail, shutdown, active, fpos, eof, nextRead, waitingOn, completed, held, src, pos, frameEnd, flushed, block, need, some>>
  BY DEF CloseDst, At, Joined, GoTo, promise, mainVars, ioVars, readVars, decVars
<1>2. PromiseType' /\ PoolType' /\ ReadType' /\ Room'
  BY <1>1 DEF CountInv, TypeOK, PromiseType, PoolType, ReadType, Room, Busy
<1>3. MainType'
  BY <1>1, PipeAssumption DEF PipeAssumption, CountInv, TypeOK, MainType, PoolType, ReadType, DecoderType, MainType, Pool, Thread, CloseDst, At, Joined, GoTo, Running
<1>4. DecoderType'
  BY <1>1, PipeAssumption DEF PipeAssumption, CountInv, TypeOK, MainType, PoolType, ReadType, DecoderType, DecoderType, Block, CloseDst, At, Joined, GoTo, Running
<1>5. Places'
  BY <1>1, PipeAssumption DEF PipeAssumption, CountInv, TypeOK, PoolType, ReadType, MainType, Places, Wanted, AtEnd, Filling, Pool, CloseDst, At, Joined, GoTo, Running
<1>6. WriteCount'
  <2>1. HoldsWrite' <=> HoldsWrite
    BY <1>1 DEF CountInv, Places, TypeOK, MainType, HoldsWrite, Filling, Pool, CloseDst, At, Joined, GoTo, Wanted, Running
  <2> QED
    BY <2>1, <1>1, SameWrite DEF CountInv
<1>7. ReadCount'
  BY <1>1, PipeAssumption DEF PipeAssumption, CountInv, TypeOK, PoolType, ReadType, MainType, ReadCount, Given, HeldCount, AddCount, DoneCount, CloseDst, At, Joined, GoTo, Running
<1>8. Quiet'
  BY <1>1, PipeAssumption DEF PipeAssumption, CountInv, TypeOK, PoolType, ReadType, MainType, Quiet, Idle, Busy, AtEnd, Pool, CloseDst, At, Joined, GoTo, Running
<1>9. ClosedWhenIdle'
  <2>1. Idle("write")
    BY DEF CountInv, Quiet, Pool, CloseDst, Joined
  <2>2. pc' = "closeSrc"
    BY DEF CloseDst, GoTo
  <2> QED
    BY <2>1, <2>2, <1>1 DEF ClosedWhenIdle, Idle, Busy
<1> QED
  BY <1>2, <1>3, <1>4, <1>5, <1>6, <1>7, <1>8, <1>9 DEF CountInv, TypeOK

LEMMA CloseSrcCount ==
  ASSUME CountInv, CloseSrc
  PROVE  CountInv'
<1>1. UNCHANGED <<file, out, status, asleep, worker, task, queue, shutdown, active, fpos, pos, frameEnd, flushed, block, need, some>>
  BY DEF CloseSrc, At, Joined, HeldCount, promise, mainVars, ioVars, readVars, decVars
<1>2. PromiseType' /\ Room'
  BY <1>1 DEF CountInv, TypeOK, PromiseType, Room, Busy
<1>0. /\ Idle("read") /\ Idle("write") /\ pc = "closeSrc" /\ pc' = "shut"
      /\ avail'["read"] = MaxJobs /\ avail'["write"] = avail["write"]
      /\ Given("read") = 0 /\ avail["read"] + Len(completed) + HeldCount = MaxJobs
  <2>1. pc = "closeSrc" /\ pc' = "shut"
    BY DEF CloseSrc, At
  <2>2. Idle("read") /\ Idle("write")
    BY <2>1 DEF CountInv, Quiet, ClosedWhenIdle, Pool, CloseSrc, Joined
  <2>3. Len(queue["read"]) = 0 /\ worker["read"] # "running"
    BY <2>2 DEF Idle, Busy
  <2>4. Given("read") = 0
    BY <2>3, GivenIs
  <2>6. AddCount = 0
    BY <2>1 DEF AddCount
  <2>7. /\ ReadCount /\ MaxJobs \in Nat /\ avail["read"] \in Nat
        /\ DoneCount \in Nat /\ HeldCount \in Nat
    BY Numbers DEF CountInv
  <2>5. avail["read"] + DoneCount + HeldCount = MaxJobs
    BY <2>4, <2>6, <2>7 DEF ReadCount
  <2> QED
    BY <2>1, <2>2, <2>4, <2>5, <2>7 DEF DoneCount, CloseSrc, CountInv, TypeOK, PoolType, Pool
<1>3. MainType'
  BY <1>0, <1>1, PipeAssumption DEF PipeAssumption, CountInv, TypeOK, MainType, PoolType, ReadType, DecoderType, MainType, Pool, Thread, CloseSrc, At, Joined, HeldCount, Running
<1>4. PoolType'
  <2>1. avail' \in [Pool -> 0..MaxJobs]
    <3> QED
      BY <1>0, Numbers DEF CloseSrc, CountInv, TypeOK, PoolType, Pool
  <2> QED
    BY <2>1, <1>1 DEF CountInv, TypeOK, PoolType
<1>5. ReadType'
  <2>1. fpos' = fpos /\ file' = file /\ completed' = <<>> /\ held' = None
        /\ nextRead' = 0 /\ waitingOn' = 0 /\ eof' = FALSE
    BY <1>1 DEF CloseSrc
  <2>2. completed' \in Seq(ReadJob) /\ DOMAIN completed' = {}
    BY <2>1
  <2> QED
    BY <2>1, <2>2 DEF CountInv, TypeOK, ReadType
<1>6. DecoderType'
  BY <1>0, <1>1, PipeAssumption DEF PipeAssumption, CountInv, TypeOK, MainType, PoolType, ReadType, DecoderType, DecoderType, Block, CloseSrc, At, Joined, HeldCount, Running
<1>7. Places'
  BY <1>0, <1>1, PipeAssumption DEF PipeAssumption, CountInv, TypeOK, PoolType, ReadType, MainType, Places, Wanted, AtEnd, Filling, Pool, CloseSrc, At, Joined, HeldCount, Running
<1>8. WriteCount'
  <2>1. Given("write")' = Given("write")
    BY <1>1 DEF Given
  <2>2. ~ HoldsWrite /\ ~ HoldsWrite'
    BY <1>0 DEF HoldsWrite, Filling
  <2> QED
    BY <1>0, <2>1, <2>2 DEF CountInv, WriteCount, HoldCount
<1>9. ReadCount'
  <2>1. Given("read")' = 0
    BY <1>0, <1>1 DEF Given
  <2>2. DoneCount' = 0 /\ HeldCount' = 0 /\ AddCount' = 0 /\ MaxJobs \in Nat
    BY <1>0, Numbers DEF CloseSrc, HeldCount, AddCount, DoneCount
  <2> QED
    BY <1>0, <2>1, <2>2 DEF ReadCount
<1>10. Quiet'
  BY <1>0, <1>1, PipeAssumption DEF PipeAssumption, CountInv, TypeOK, PoolType, ReadType, MainType, Quiet, Idle, Busy, AtEnd, Pool, CloseSrc, At, Joined, HeldCount, Running
<1>11. ClosedWhenIdle'
  BY <1>0, <1>1 DEF ClosedWhenIdle, Idle, Busy
<1> QED
  BY <1>2, <1>3, <1>4, <1>5, <1>6, <1>7, <1>8, <1>9, <1>10, <1>11 DEF CountInv, TypeOK

LEMMA ShutCount ==
  ASSUME CountInv, Shut
  PROVE  CountInv'
<1>1. UNCHANGED <<file, out, status, site, asleep, worker, task, queue, avail, active, fpos, eof, nextRead, waitingOn, completed, held, src, pos, frameEnd, flushed, block, need, some, result>>
  BY DEF Shut, At, Joined, GoTo, promise, mainVars, ioVars, readVars, decVars
<1>2. PromiseType' /\ ReadType' /\ DecoderType' /\ Room'
  BY <1>1 DEF CountInv, TypeOK, PromiseType, ReadType, DecoderType, Room, Busy
<1>3. MainType'
  BY <1>1, PipeAssumption DEF PipeAssumption, CountInv, TypeOK, MainType, PoolType, ReadType, DecoderType, MainType, Pool, Thread, Shut, At, Joined, GoTo, Running
<1>4. PoolType'
  BY <1>1, PipeAssumption DEF PipeAssumption, CountInv, TypeOK, MainType, PoolType, ReadType, DecoderType, PoolType, Pool, Shut, At, Joined, GoTo, Running
<1>5. Places'
  BY <1>1, PipeAssumption DEF PipeAssumption, CountInv, TypeOK, PoolType, ReadType, MainType, Places, Wanted, AtEnd, Filling, Pool, Shut, At, Joined, GoTo, Running
<1>6. WriteCount'
  <2>1. HoldsWrite' <=> HoldsWrite
    BY <1>1 DEF CountInv, Places, TypeOK, MainType, HoldsWrite, Filling, Pool, Shut, At, Joined, GoTo, Wanted, Running
  <2> QED
    BY <2>1, <1>1, SameWrite DEF CountInv
<1>7. ReadCount'
  BY <1>1, PipeAssumption DEF PipeAssumption, CountInv, TypeOK, PoolType, ReadType, MainType, ReadCount, Given, HeldCount, AddCount, DoneCount, Shut, At, Joined, GoTo, Running
<1>8. Quiet'
  BY <1>1, PipeAssumption DEF PipeAssumption, CountInv, TypeOK, PoolType, ReadType, MainType, Quiet, Idle, Busy, AtEnd, Pool, Shut, At, Joined, GoTo, Running
<1>9. ClosedWhenIdle'
  BY <1>1, PipeAssumption DEF PipeAssumption, CountInv, TypeOK, PoolType, ReadType, MainType, ClosedWhenIdle, Idle, Busy, Shut, At, Joined, GoTo, Running
<1> QED
  BY <1>2, <1>3, <1>4, <1>5, <1>6, <1>7, <1>8, <1>9 DEF CountInv, TypeOK

LEMMA WakeAllCount ==
  ASSUME CountInv, WakeAll
  PROVE  CountInv'
<1>1. UNCHANGED <<file, out, status, site, worker, task, queue, avail, shutdown, active, fpos, eof, nextRead, waitingOn, completed, held, src, pos, frameEnd, flushed, block, need, some, result>>
  BY DEF WakeAll, At, promise, mainVars, ioVars, readVars, decVars
<1>2. PromiseType' /\ PoolType' /\ ReadType' /\ DecoderType' /\ Room'
  BY <1>1 DEF CountInv, TypeOK, PromiseType, PoolType, ReadType, DecoderType, Room, Busy
<1>3. MainType'
  BY <1>1, PipeAssumption DEF PipeAssumption, CountInv, TypeOK, MainType, PoolType, ReadType, DecoderType, MainType, Pool, Thread, WakeAll, At, Running
<1>4. Places'
  BY <1>1, PipeAssumption DEF PipeAssumption, CountInv, TypeOK, PoolType, ReadType, MainType, Places, Wanted, AtEnd, Filling, Pool, WakeAll, At, Running
<1>5. WriteCount'
  <2>1. HoldsWrite' <=> HoldsWrite
    BY <1>1 DEF CountInv, Places, TypeOK, MainType, HoldsWrite, Filling, Pool, WakeAll, At, Wanted, Running
  <2> QED
    BY <2>1, <1>1, SameWrite DEF CountInv
<1>6. ReadCount'
  BY <1>1, PipeAssumption DEF PipeAssumption, CountInv, TypeOK, PoolType, ReadType, MainType, ReadCount, Given, HeldCount, AddCount, DoneCount, WakeAll, At, Running
<1>7. Quiet'
  BY <1>1, PipeAssumption DEF PipeAssumption, CountInv, TypeOK, PoolType, ReadType, MainType, Quiet, Idle, Busy, AtEnd, Pool, WakeAll, At, Running
<1>8. ClosedWhenIdle'
  BY <1>1, PipeAssumption DEF PipeAssumption, CountInv, TypeOK, PoolType, ReadType, MainType, ClosedWhenIdle, Idle, Busy, WakeAll, At, Running
<1> QED
  BY <1>2, <1>3, <1>4, <1>5, <1>6, <1>7, <1>8 DEF CountInv, TypeOK

LEMMA FreeNextCount ==
  ASSUME CountInv, FreeNext
  PROVE  CountInv'
<1>1. UNCHANGED <<file, out, status, asleep, worker, task, queue, avail, shutdown, active, fpos, eof, nextRead, waitingOn, completed, held, src, pos, frameEnd, flushed, block, need, some, result>>
  BY DEF FreeNext, At, promise, mainVars, ioVars, readVars, decVars
<1>2. PromiseType' /\ PoolType' /\ ReadType' /\ DecoderType' /\ Room'
  BY <1>1 DEF CountInv, TypeOK, PromiseType, PoolType, ReadType, DecoderType, Room, Busy
<1>3. MainType'
  BY <1>1, PipeAssumption DEF PipeAssumption, CountInv, TypeOK, MainType, PoolType, ReadType, DecoderType, MainType, Pool, Thread, FreeNext, At, Running
<1>4. Places'
  BY <1>1, PipeAssumption DEF PipeAssumption, CountInv, TypeOK, PoolType, ReadType, MainType, Places, Wanted, AtEnd, Filling, Pool, FreeNext, At, Running
<1>5. WriteCount'
  <2>1. HoldsWrite' <=> HoldsWrite
    BY <1>1 DEF CountInv, Places, TypeOK, MainType, HoldsWrite, Filling, Pool, FreeNext, At, Wanted, Running
  <2> QED
    BY <2>1, <1>1, SameWrite DEF CountInv
<1>6. ReadCount'
  BY <1>1, PipeAssumption DEF PipeAssumption, CountInv, TypeOK, PoolType, ReadType, MainType, ReadCount, Given, HeldCount, AddCount, DoneCount, FreeNext, At, Running
<1>7. Quiet'
  BY <1>1, PipeAssumption DEF PipeAssumption, CountInv, TypeOK, PoolType, ReadType, MainType, Quiet, Idle, Busy, AtEnd, Pool, FreeNext, At, Running
<1>8. ClosedWhenIdle'
  BY <1>1, PipeAssumption DEF PipeAssumption, CountInv, TypeOK, PoolType, ReadType, MainType, ClosedWhenIdle, Idle, Busy, FreeNext, At, Running
<1> QED
  BY <1>2, <1>3, <1>4, <1>5, <1>6, <1>7, <1>8 DEF CountInv, TypeOK

LEMMA ExitProgramCount ==
  ASSUME CountInv, ExitProgram
  PROVE  CountInv'
<1>1. UNCHANGED <<file, out, pc, site, asleep, worker, task, queue, avail, shutdown, active, fpos, eof, nextRead, waitingOn, completed, held, src, pos, frameEnd, flushed, block, need, some, result>>
  BY DEF ExitProgram, At, promise, mainVars, ioVars, readVars, decVars
<1>2. /\ PoolType' /\ ReadType' /\ DecoderType' /\ Places' /\ Room' /\ Quiet' /\ ClosedWhenIdle'
      /\ WriteCount' /\ ReadCount'
  BY <1>1, Unmoved
<1>3. MainType'
  BY <1>1 DEF CountInv, TypeOK, MainType
<1>5. PromiseType'
  BY <1>1, PipeAssumption DEF PipeAssumption, CountInv, TypeOK, PoolType, ReadType, MainType, PromiseType, ExitProgram, At, Running
<1> QED
  BY <1>2, <1>3, <1>5 DEF CountInv, TypeOK

LEMMA ExecuteReadCount ==
  ASSUME CountInv, ExecuteRead
  PROVE  CountInv'
<1>1. UNCHANGED <<file, out, status, pc, site, task, queue, avail, shutdown, active, nextRead, waitingOn, held, src, pos, frameEnd, flushed, block, need, some, result>>
  BY DEF ExecuteRead, ReadInto, Got, Least, Signal, promise, mainVars, ioVars, readVars, decVars
<1>2. PromiseType' /\ DecoderType' /\ Places'
  BY <1>1 DEF CountInv, TypeOK, PromiseType, DecoderType, Places, Wanted, AtEnd, Filling
<1>0. /\ Got(task["read"]) \in 0..BufSize /\ fpos + Got(task["read"]) \in 0..file.len
      /\ completed' \in Seq(ReadJob) /\ Len(completed') = Len(completed) + 1
      /\ \A k \in DOMAIN completed' : completed'[k].used <= BufSize
  <2>1. Got(task["read"]) \in 0..BufSize /\ fpos + Got(task["read"]) \in 0..file.len /\ fpos \in Nat
    BY FileIs, PipeAssumption DEF PipeAssumption, Got, Least, CountInv, TypeOK, ReadType
  <2> DEFINE new == [offset |-> task["read"].offset, from |-> fpos, used |-> Got(task["read"])]
  <2>2. new \in ReadJob /\ new.used <= BufSize
    <3>1. task["read"] \in ReadJob
      BY DEF ExecuteRead, CountInv, TypeOK, PoolType
    <3>2. task["read"].offset \in Nat
      BY <3>1 DEF ReadJob
    <3> QED
      BY <3>1, <3>2, <2>1, PipeAssumption DEF PipeAssumption, ReadJob
  <2>3. completed' = Append(completed, new) /\ completed \in Seq(ReadJob)
    BY DEF ExecuteRead, ReadInto, CountInv, TypeOK, ReadType
  <2>4. /\ completed' \in Seq(ReadJob) /\ Len(completed') = Len(completed) + 1
        /\ \A k \in 1..Len(completed) : completed'[k] = completed[k]
        /\ completed'[Len(completed) + 1] = new
    BY <2>2, <2>3
  <2>5. \A k \in DOMAIN completed : completed[k].used <= BufSize
    BY DEF CountInv, TypeOK, ReadType
  <2> HIDE DEF new
  <2>6. \A k \in DOMAIN completed' : completed'[k].used <= BufSize
    BY <2>2, <2>3, <2>4, <2>5
  <2> QED
    BY <2>1, <2>4, <2>6
<1>3. MainType'
  BY <1>0, <1>1, PipeAssumption DEF PipeAssumption, CountInv, TypeOK, MainType, PoolType, ReadType, DecoderType, MainType, Pool, Thread, ExecuteRead, ReadInto, Got, Least, Signal, Running
<1>4. PoolType'
  BY <1>0, <1>1, PipeAssumption DEF PipeAssumption, CountInv, TypeOK, MainType, PoolType, ReadType, DecoderType, PoolType, Pool, ExecuteRead, ReadInto, Got, Least, Signal, Running
<1>5. ReadType'
  <2>1. fpos' = fpos + Got(task["read"]) /\ eof' \in BOOLEAN
    BY DEF ExecuteRead, ReadInto
  <2> QED
    BY <2>1, <1>0, <1>1 DEF CountInv, TypeOK, ReadType
<1>6. WriteCount'
  <2>1. Given("write")' = Given("write")
    BY <1>1 DEF CountInv, TypeOK, PoolType, Pool, Given, ExecuteRead, ReadInto, Got, Least, Signal
  <2> QED
    BY <2>1, <1>1 DEF CountInv, WriteCount, HoldCount, HoldsWrite, Filling
<1>7. ReadCount'
  <2>1. avail'["read"] = avail["read"]
    BY <1>1 DEF CountInv, TypeOK, PoolType, Pool, ExecuteRead, ReadInto, Got, Least, Signal
  <2>2. Given("read")' = Given("read") - 1
    <3>1. queue' = queue /\ worker["read"] = "running" /\ worker'["read"] # "running"
      BY <1>1 DEF CountInv, TypeOK, PoolType, Pool, ExecuteRead, ReadInto, Got, Least, Signal
    <3> QED
      BY <3>1, Numbers, GivenLess
  <2>3. DoneCount' = DoneCount + 1
    BY <1>0, <1>1 DEF DoneCount
  <2>4. HeldCount' = HeldCount
    BY <1>1 DEF HeldCount, ExecuteRead, ReadInto, Got, Least, Signal
  <2>5. AddCount' = AddCount
    BY <1>1 DEF AddCount
  <2>9. /\ ReadCount /\ MaxJobs \in Nat /\ avail["read"] \in Nat /\ Given("read") \in Nat
        /\ DoneCount \in Nat /\ HeldCount \in Nat /\ AddCount \in Nat
    BY Numbers DEF CountInv
  <2> QED
    BY <2>1, <2>2, <2>3, <2>4, <2>5, <2>9 DEF ReadCount
<1>8. Room'
  BY <1>0, <1>1, PipeAssumption DEF PipeAssumption, CountInv, TypeOK, PoolType, ReadType, MainType, Room, Busy, Pool, ExecuteRead, ReadInto, Got, Least, Signal, Running
<1>9. Quiet'
  BY <1>0, <1>1, PipeAssumption DEF PipeAssumption, CountInv, TypeOK, PoolType, ReadType, MainType, Quiet, Idle, Busy, AtEnd, Pool, ClosedWhenIdle, ExecuteRead, ReadInto, Got, Least, Signal, Running
<1>10. ClosedWhenIdle'
  BY <1>0, <1>1, PipeAssumption DEF PipeAssumption, CountInv, TypeOK, PoolType, ReadType, MainType, ClosedWhenIdle, Idle, Busy, ExecuteRead, ReadInto, Got, Least, Signal, Running
<1> QED
  BY <1>2, <1>3, <1>4, <1>5, <1>6, <1>7, <1>8, <1>9, <1>10 DEF CountInv, TypeOK

LEMMA ExecuteWriteCount ==
  ASSUME CountInv, ExecuteWrite
  PROVE  CountInv'
<1>1. UNCHANGED <<file, status, pc, site, asleep, task, queue, shutdown, active, fpos, eof, nextRead, waitingOn, completed, held, src, pos, frameEnd, flushed, block, need, some, result>>
  BY DEF ExecuteWrite, promise, mainVars, ioVars, readVars, decVars
<1>2. MainType' /\ ReadType' /\ DecoderType' /\ Places'
  BY <1>1 DEF CountInv, TypeOK, MainType, ReadType, DecoderType, Places, Wanted, AtEnd, Filling
<1>0. /\ Units(task["write"].from, task["write"].to) \in Seq(Nat)
      /\ avail["write"] + 1 <= MaxJobs
  <2>1. Units(task["write"].from, task["write"].to) \in Seq(Nat)
    BY UnitsAre DEF ExecuteWrite, CountInv, TypeOK, PoolType, Block
  <2>2. worker["write"] = "running" /\ Len(queue["write"]) \in Nat
    BY Numbers DEF ExecuteWrite
  <2>3. Given("write") >= 1
    BY <2>2, GivenIs
  <2>4. /\ avail["write"] \in Nat /\ HoldCount \in Nat /\ MaxJobs \in Nat
        /\ Given("write") \in Nat
    BY Numbers
  <2>5. avail["write"] + Given("write") + HoldCount = MaxJobs
    BY DEF CountInv, WriteCount
  <2> QED
    BY <2>1, <2>3, <2>4, <2>5
<1>3. PromiseType'
  BY <1>0, <1>1, PipeAssumption DEF PipeAssumption, CountInv, TypeOK, PoolType, ReadType, MainType, PromiseType, ExecuteWrite, Running
<1>4. PoolType'
  BY <1>0, <1>1, PipeAssumption DEF PipeAssumption, CountInv, TypeOK, MainType, PoolType, ReadType, DecoderType, PoolType, Pool, ExecuteWrite, Running
<1>5. WriteCount'
  <2>1. avail'["write"] = avail["write"] + 1
    BY <1>1 DEF CountInv, TypeOK, PoolType, Pool, ExecuteWrite
  <2>2. Given("write")' = Given("write") - 1
    <3>1. queue' = queue /\ worker["write"] = "running" /\ worker'["write"] # "running"
      BY <1>1 DEF CountInv, TypeOK, PoolType, Pool, ExecuteWrite
    <3> QED
      BY <3>1, Numbers, GivenLess
  <2>3. HoldCount' = HoldCount
    BY <1>1 DEF HoldCount, HoldsWrite, Filling
  <2>9. /\ WriteCount /\ MaxJobs \in Nat /\ avail["write"] \in Nat /\ Given("write") \in Nat
        /\ HoldCount \in Nat
    BY Numbers DEF CountInv
  <2> QED
    BY <2>1, <2>2, <2>3, <2>9 DEF WriteCount
<1>6. ReadCount'
  <2>1. avail'["read"] = avail["read"]
    BY <1>1 DEF CountInv, TypeOK, PoolType, Pool, ExecuteWrite
  <2>2. Given("read")' = Given("read")
    BY <1>1 DEF CountInv, TypeOK, PoolType, Pool, Given, ExecuteWrite
  <2>3. DoneCount' = DoneCount
    BY <1>1 DEF DoneCount
  <2>4. HeldCount' = HeldCount
    BY <1>1 DEF HeldCount, ExecuteWrite
  <2>5. AddCount' = AddCount
    BY <1>1 DEF AddCount
  <2>9. /\ ReadCount /\ MaxJobs \in Nat /\ avail["read"] \in Nat /\ Given("read") \in Nat
        /\ DoneCount \in Nat /\ HeldCount \in Nat /\ AddCount \in Nat
    BY Numbers DEF CountInv
  <2> QED
    BY <2>1, <2>2, <2>3, <2>4, <2>5, <2>9 DEF ReadCount
<1>7. Room'
  BY <1>0, <1>1, PipeAssumption DEF PipeAssumption, CountInv, TypeOK, PoolType, ReadType, MainType, Room, Busy, Pool, ExecuteWrite, Running
<1>8. Quiet'
  BY <1>0, <1>1, PipeAssumption DEF PipeAssumption, CountInv, TypeOK, PoolType, ReadType, MainType, Quiet, Idle, Busy, AtEnd, Pool, ExecuteWrite, Running
<1>9. ClosedWhenIdle'
  BY <1>0, <1>1, PipeAssumption DEF PipeAssumption, CountInv, TypeOK, PoolType, ReadType, MainType, ClosedWhenIdle, Idle, Busy, ExecuteWrite, Running
<1> QED
  BY <1>2, <1>3, <1>4, <1>5, <1>6, <1>7, <1>8, <1>9 DEF CountInv, TypeOK

LEMMA InputOutputErrorCount ==
  ASSUME CountInv, InputOutputError
  PROVE  CountInv'
<1>1. UNCHANGED <<file, out, pc, site, asleep, worker, task, queue, avail, shutdown, active, fpos, eof, nextRead, waitingOn, completed, held, src, pos, frameEnd, flushed, block, need, some, result>>
  BY DEF InputOutputError, Die, At, promise, mainVars, ioVars, readVars, decVars
<1>2. /\ PoolType' /\ ReadType' /\ DecoderType' /\ Places' /\ Room' /\ Quiet' /\ ClosedWhenIdle'
      /\ WriteCount' /\ ReadCount'
  BY <1>1, Unmoved
<1>3. MainType'
  BY <1>1 DEF CountInv, TypeOK, MainType
<1>5. PromiseType'
  BY <1>1, PipeAssumption DEF PipeAssumption, CountInv, TypeOK, PoolType, ReadType, MainType, PromiseType, InputOutputError, Die, At, Running
<1> QED
  BY <1>2, <1>3, <1>5 DEF CountInv, TypeOK

LEMMA SpuriousCount ==
  ASSUME CountInv, NEW t \in Thread, Spurious(t)
  PROVE  CountInv'
<1>1. UNCHANGED <<file, out, status, pc, site, worker, task, queue, avail, shutdown, active, fpos, eof, nextRead, waitingOn, completed, held, src, pos, frameEnd, flushed, block, need, some, result>>
  BY DEF Spurious, Sleep, promise, mainVars, ioVars, readVars, decVars
<1>2. /\ PoolType' /\ ReadType' /\ DecoderType' /\ Places' /\ Room' /\ Quiet' /\ ClosedWhenIdle'
      /\ WriteCount' /\ ReadCount'
  BY <1>1, Unmoved
<1>3. PromiseType'
  BY <1>1 DEF CountInv, TypeOK, PromiseType
<1>5. MainType'
  BY <1>1, PipeAssumption DEF PipeAssumption, CountInv, TypeOK, MainType, PoolType, ReadType, DecoderType, MainType, Pool, Thread, Spurious, Sleep, Running
<1> QED
  BY <1>2, <1>3, <1>5 DEF CountInv, TypeOK

-----------------------------------------------------------------------------
\* Every state counts right when the program starts.
LEMMA InitCount ==
  ASSUME Init
  PROVE  CountInv
<1>1. TypeOK
  <2>1. MaxJobs \in Nat /\ 0 \in 0..MaxJobs /\ MaxJobs \in 0..MaxJobs /\ 2 * BufSize > 0
    BY PipeAssumption DEF PipeAssumption
  <2>2. file \in Files /\ file.len \in Nat /\ 0 \in 0..file.len /\ 0 \in 0..(file.len + 1)
    BY FilesAssumption DEF FilesAssumption, FileOK, Init, PromiseInit
  <2>3. PromiseType
    BY <2>2 DEF Init, PromiseInit, PromiseType
  <2>4. MainType
    BY DEF Init, MainType, Thread, Pool
  <2>5. PoolType
    BY <2>1 DEF Init, PoolType, Pool
  <2>6. ReadType
    <3>1. completed = <<>> /\ completed \in Seq(ReadJob) /\ DOMAIN completed = {}
      BY DEF Init
    <3> QED
      BY <2>2, <3>1 DEF Init, ReadType
  <2>7. DecoderType
    <3>1. src \in Seq(Nat) /\ Len(src) < 2 * BufSize
      BY <2>1 DEF Init
    <3>2. block \in Block /\ need \in 0..BufSize
      BY PipeAssumption DEF PipeAssumption, Init, Block, Nothing
    <3>3. /\ pos \in Nat /\ flushed \in 0..pos /\ frameEnd \in 0..(file.len + 1)
          /\ some \in BOOLEAN /\ result \in {0, 1}
      <4>1. pos = 0 /\ flushed = 0 /\ frameEnd = 0 /\ some = FALSE /\ result = 0
        BY DEF Init
      <4>2. 0 \in 0..0 /\ 0 \in 0..(file.len + 1)
        BY <2>2
      <4> QED
        BY <4>1, <4>2
    <3> QED
      BY <3>1, <3>2, <3>3 DEF DecoderType
  <2> QED
    BY <2>3, <2>4, <2>5, <2>6, <2>7 DEF TypeOK
<1>2. Places /\ Quiet /\ ClosedWhenIdle
  BY DEF Init, Places, Quiet, ClosedWhenIdle, Idle, Busy, Filling, AtEnd, Pool
<1>3. /\ Len(queue["read"]) = 0 /\ Len(queue["write"]) = 0 /\ MaxJobs \in Nat
      /\ avail["read"] = MaxJobs /\ avail["write"] = MaxJobs
      /\ worker["read"] = "ready" /\ worker["write"] = "ready"
  BY PipeAssumption DEF PipeAssumption, Init, Pool
<1>4. Given("read") = 0 /\ Given("write") = 0
  BY <1>3, GivenIs
<1>5. HoldCount = 0 /\ AddCount = 0 /\ DoneCount = 0 /\ HeldCount = 0
  BY DEF Init, HoldCount, AddCount, DoneCount, HeldCount, HoldsWrite, Filling
<1>6. WriteCount /\ ReadCount
  BY <1>3, <1>4, <1>5 DEF WriteCount, ReadCount
<1>7. Room
  BY PipeAssumption DEF PipeAssumption, Room, Init, Pool
<1> QED
  BY <1>1, <1>2, <1>6, <1>7 DEF CountInv

\* Every step keeps the count.
LEMMA NextCount ==
  ASSUME CountInv, [Next]_vars
  PROVE  CountInv'
<1>1. CASE ReadPool
  <2>1. CASE AddRead
    BY <2>1, AddReadIs, AddReadFullCount, AddReadQueuedCount, AddReadInlineCount
  <2>2. CASE \E i \in DOMAIN completed : NextJob(i)
    BY <2>2, NextJobCount
  <2> QED
    BY <1>1, <2>1, <2>2, OpenFailsCount, OpenCount, StartReadingCount, StartDoneCount,
       FillCount, FillReleaseCount, NextWaitCount, NextNoneCount DEF ReadPool
<1>2. CASE Frames
  <2>1. CASE AddWrite
    BY <2>1, AddWriteIs, AddWriteFullCount, AddWriteQueuedCount, AddWriteInlineCount
  <2>2. CASE Decode
    BY <2>2, DecodeBlockCount DEF Decode
  <2>3. CASE JoinWait("write", "joinFrame")
    BY <2>3, JoinWaitCount DEF Pool
  <2> QED
    BY <1>2, <2>1, <2>2, <2>3, NoInputCount, UnknownHeaderCount, StartFrameCount,
       DecodeErrorCount, ReacquireCount, PrematureCount, EndFrameCount, JoinFrameCount DEF Frames
<1>3. CASE Closing
  <2>1. CASE JoinWait("write", "closeDst") \/ JoinWait("read", "closeSrc")
    BY <2>1, JoinWaitCount DEF Pool
  <2> QED
    BY <1>3, <2>1, CloseDstCount, CloseSrcCount, ShutCount, WakeAllCount, FreeNextCount,
       ExitProgramCount DEF Closing
<1>4. ASSUME NEW p \in Pool, Worker(p) PROVE CountInv'
  BY <1>4, PopCount, PopWaitCount, WorkerExitCount, JobDoneCount DEF Worker
<1>5. ASSUME NEW t \in Thread, Spurious(t) PROVE CountInv'
  BY <1>5, SpuriousCount
<1>6. CASE UNCHANGED vars
  <2>1. UNCHANGED <<file, out, status, pc, site, asleep, worker, task, queue, avail, shutdown,
                    active, fpos, eof, nextRead, waitingOn, completed, held, src, pos,
                    frameEnd, flushed, block, need, some, result>>
    BY <1>6 DEF vars, promise, mainVars, ioVars, readVars, decVars
  <2>2. TypeOK' /\ Places' /\ Room' /\ Quiet' /\ ClosedWhenIdle'
    <3>1. PromiseType' /\ MainType' /\ ReadType'
      BY <2>1 DEF CountInv, TypeOK, PromiseType, MainType, ReadType
    <3>2. PoolType' /\ DecoderType'
      BY <2>1 DEF CountInv, TypeOK, PoolType, DecoderType
    <3>3. Places' /\ Room'
      BY <2>1 DEF CountInv, Places, Wanted, Filling, AtEnd, Room, Busy
    <3>4. Quiet' /\ ClosedWhenIdle'
      BY <2>1 DEF CountInv, Quiet, Idle, Busy, AtEnd, ClosedWhenIdle
    <3> QED
      BY <3>1, <3>2, <3>3, <3>4 DEF TypeOK
  <2>3. WriteCount'
    BY <2>1, SameWrite DEF CountInv, HoldsWrite, Filling
  <2>4. ReadCount'
    BY <2>1, SameRead DEF CountInv
  <2> QED
    BY <2>2, <2>3, <2>4 DEF CountInv
<1> QED
  BY <1>1, <1>2, <1>3, <1>4, <1>5, <1>6, ExecuteReadCount, ExecuteWriteCount,
     InputOutputErrorCount DEF Next, Gone

\* The counting invariant holds of every execution.
THEOREM Counted == Spec => []CountInv
<1>1. CountInv /\ [Next]_vars => CountInv'
  BY NextCount
<1> QED
  BY InitCount, <1>1, PTL DEF Spec

\* Every variable keeps its type.
THEOREM TypeCorrect == Spec => []TypeOK
<1>1. CountInv => TypeOK
  BY DEF CountInv
<1> QED
  BY <1>1, Counted, PTL

\* AIO_IOPool_acquireJob always finds a job, and the pools are freed with all
\* of theirs: for every number of jobs, every file and every order of the threads.
THEOREM JobsSufficient == Spec => []JobsSuffice
<1>1. ASSUME CountInv PROVE JobsSuffice
  <2>1. ASSUME pc \in {"magic", "reacquire"} PROVE avail["write"] > 0
    <3>1. ~ HoldsWrite
      BY <2>1 DEF HoldsWrite, Filling
    <3> QED
      BY <1>1, <3>1, WriteJobThere, Numbers
  <2>2. ASSUME AtEnd PROVE avail = [p \in Pool |-> MaxJobs]
    <3>1. /\ Len(queue["read"]) = 0 /\ worker["read"] # "running"
          /\ Len(queue["write"]) = 0 /\ worker["write"] # "running"
      BY <1>1, <2>2 DEF CountInv, ClosedWhenIdle, AtEnd, Idle, Busy
    <3>2. Given("read") = 0 /\ Given("write") = 0
      BY <3>1, GivenIs
    <3>3. HoldCount = 0 /\ AddCount = 0
      BY <2>2 DEF HoldCount, AddCount, HoldsWrite, Filling, AtEnd
    <3>4. DoneCount = 0 /\ HeldCount = 0
      BY <1>1, <2>2 DEF CountInv, Quiet, DoneCount, HeldCount
    <3>5. /\ ReadCount /\ WriteCount
          /\ MaxJobs \in Nat /\ avail["read"] \in Nat /\ avail["write"] \in Nat
      BY <1>1, Numbers DEF CountInv
    <3>6. avail["read"] = MaxJobs /\ avail["write"] = MaxJobs
      BY <3>2, <3>3, <3>4, <3>5 DEF ReadCount, WriteCount
    <3>7. avail \in [Pool -> 0..MaxJobs]
      BY <1>1 DEF CountInv, TypeOK, PoolType
    <3> QED
      BY <3>6, <3>7 DEF Pool
  <2> QED
    BY <2>1, <2>2 DEF JobsSuffice, AtEnd
<1> QED
  BY <1>1, Counted, PTL

\* A file is closed, and the pools are freed, only when no job can touch it.
THEOREM ClosesWhenIdle == Spec => []ClosedWhenIdle
<1>1. CountInv => ClosedWhenIdle
  BY DEF CountInv
<1> QED
  BY <1>1, Counted, PTL
-----------------------------------------------------------------------------
(* What is read, decoded and written, in which order                       *)

Reading == worker["read"] = "running"
Writing == worker["write"] = "running"
ReadQ   == queue["read"]
WriteQ  == queue["write"]

\* The offset main has numbered up to, and that of the next job to be read.
Numbered == nextRead - (IF pc = "addRead" THEN BufSize ELSE 0)
QueueOff == IF ReadQ # <<>> THEN ReadQ[1].offset ELSE Numbered
NextOff  == IF Reading THEN task["read"].offset ELSE QueueOff

\* Reads are queued and done in the order of their offsets.
ReadsOrdered ==
  ~ AtEnd =>
    /\ Numbered \in Nat
    /\ Reading => task["read"].offset + BufSize = QueueOff
    /\ \A i \in 1..(Len(ReadQ) - 1) : ReadQ[i + 1].offset = ReadQ[i].offset + BufSize
    /\ ReadQ # <<>> => ReadQ[Len(ReadQ)].offset + BufSize = Numbered
    /\ NextOff >= fpos
    /\ IF eof THEN fpos = file.len ELSE fpos = NextOff

\* What a completed job holds, as far as it has not been taken.
JobOK(c) ==
  /\ c.used > 0 => c.from = c.offset /\ c.from >= waitingOn /\ c.from + c.used <= fpos
  /\ c.used = 0 => c.offset >= file.len
  /\ c.used < BufSize => eof

Apart(c, d) ==
  c.used > 0 /\ d.used > 0 => c.from + c.used <= d.from \/ d.from + d.used <= c.from

Holding(c, x) == c.from <= x /\ x < c.from + c.used

\* The jobs completed are the file from waitingOn to fpos, in pieces.
ReadsComplete ==
  ~ AtEnd =>
    /\ \A i \in DOMAIN completed : JobOK(completed[i])
    /\ \A i, k \in DOMAIN completed : i # k => Apart(completed[i], completed[k])
    /\ waitingOn <= fpos
    /\ \A x \in waitingOn..(fpos - 1) : \E i \in DOMAIN completed : Holding(completed[i], x)

\* Main's buffer is what was taken and not yet consumed.
SrcInOrder ==
  /\ src = Units(pos, pos + Len(src)) /\ pos <= file.len
  /\ ~ AtEnd => waitingOn = pos + Len(src)

\* Where the next job to be written starts, and what is written before it.
QueuedFrom == IF WriteQ # <<>> THEN WriteQ[1].from ELSE block.from
NextFrom   == IF Writing THEN task["write"].from ELSE QueuedFrom

WritesOrdered ==
  /\ out = Units(0, NextFrom)
  /\ Writing => task["write"].to = QueuedFrom
  /\ \A i \in 1..(Len(WriteQ) - 1) : WriteQ[i].to = WriteQ[i + 1].from
  /\ WriteQ # <<>> => WriteQ[Len(WriteQ)].to = block.from
  /\ block.to = flushed
  /\ pc # "addWrite" => Empty(block)

\* All of the read pool's jobs are out once reading has started.
AllOut ==
  \/ pc \in {"open", "startReading"} \/ AtEnd
  \/ pc = "addRead" /\ site = "start"
  \/ avail["read"] = 0

Between ==
  \/ pc \in {"open", "startReading", "magic", "endFrame", "joinFrame"}
  \/ Filling /\ site \in {"start", "magic"}
Within ==
  \/ pc \in {"decode", "premature"}
  \/ Filling /\ site \in {"header", "refill"}
Handing == pc \in {"addWrite", "reacquire"}
Leaving == pc \in {"closeDst", "closeSrc"} \/ AtEnd

\* What is consumed is undamaged, and between frames a frame has just ended.
FramesOK ==
  /\ pc # "premature" /\ ~ Leaving => result = 0
  /\ result = 0 => \A i \in 1..pos : i \notin file.bad
  /\ Between => flushed = pos /\ pos = IF some THEN frameEnd ELSE 0
  /\ Within => pos < frameEnd
  /\ Handing => IF need = 0 THEN flushed = pos /\ pos = frameEnd ELSE pos < frameEnd
  /\ some /\ ~ Leaving => frameEnd \in file.ends \/ frameEnd = file.len + 1
  /\ Within \/ Handing \/ pc = "endFrame" => some
  /\ pc = "magic" /\ src = <<>> => pos = file.len
  /\ Leaving /\ result = 0 => Intact(file) /\ flushed = file.len

OrderInv == ReadsOrdered /\ ReadsComplete /\ SrcInOrder /\ WritesOrdered

IInv == CountInv /\ OrderInv /\ AllOut /\ FramesOK

\* One sequence after another.
LEMMA JoinIs ==
  ASSUME NEW S, NEW s \in Seq(S), NEW t \in Seq(S)
  PROVE  /\ s \o t \in Seq(S) /\ Len(s \o t) = Len(s) + Len(t)
         /\ \A i \in 1..Len(s) : (s \o t)[i] = s[i]
         /\ \A i \in 1..Len(t) : (s \o t)[Len(s) + i] = t[i]
OBVIOUS

\* A sequence without its first elements.
LEMMA RestIs ==
  ASSUME NEW S, NEW s \in Seq(S), NEW n \in 0..Len(s)
  PROVE  /\ SubSeq(s, n + 1, Len(s)) \in Seq(S)
         /\ Len(SubSeq(s, n + 1, Len(s))) = Len(s) - n
         /\ \A i \in 1..(Len(s) - n) : SubSeq(s, n + 1, Len(s))[i] = s[n + i]
OBVIOUS

\* Sequences that agree everywhere.
LEMMA SameSeq ==
  ASSUME NEW S, NEW s \in Seq(S), NEW t \in Seq(S), Len(s) = Len(t),
         \A i \in 1..Len(s) : s[i] = t[i]
  PROVE  s = t
OBVIOUS

\* A stretch of the file followed by the next.
LEMMA UnitsJoin ==
  ASSUME NEW a \in Nat, NEW b \in Nat, NEW c \in Nat, a <= b, b <= c
  PROVE  Units(a, b) \o Units(b, c) = Units(a, c)
<1> DEFINE s == Units(a, b)
           t == Units(b, c)
           u == Units(a, c)
<1>1. s \in Seq(Nat) /\ Len(s) = b - a /\ \A i \in 1..(b - a) : s[i] = a + i
  BY UnitsAre
<1>2. t \in Seq(Nat) /\ Len(t) = c - b /\ \A i \in 1..(c - b) : t[i] = b + i
  BY UnitsAre
<1>3. a <= c
  OBVIOUS
<1>4. u \in Seq(Nat) /\ Len(u) = c - a /\ \A i \in 1..(c - a) : u[i] = a + i
  BY <1>3, UnitsAre
<1> HIDE DEF s, t, u
<1>s. s \in Seq(Nat) /\ t \in Seq(Nat)
  BY <1>1, <1>2
<1>j. /\ s \o t \in Seq(Nat) /\ Len(s \o t) = Len(s) + Len(t)
      /\ \A i \in 1..Len(s) : (s \o t)[i] = s[i]
      /\ \A i \in 1..Len(t) : (s \o t)[Len(s) + i] = t[i]
  BY <1>s, JoinIs
<1>5. s \o t \in Seq(Nat) /\ Len(s \o t) = c - a
  BY <1>1, <1>2, <1>j
<1>6. ASSUME NEW i \in 1..(c - a) PROVE (s \o t)[i] = u[i]
  <2>1. CASE i <= b - a
    <3>1. (s \o t)[i] = s[i] /\ i \in 1..(b - a)
      BY <1>1, <1>j, <2>1
    <3> QED
      BY <3>1, <1>1, <1>4
  <2>2. CASE ~ (i <= b - a)
    <3> DEFINE k == i - (b - a)
    <3>1. k \in 1..(c - b) /\ i = (b - a) + k
      BY <2>2
    <3>2. (s \o t)[(b - a) + k] = t[k]
      <4> HIDE DEF k
      <4> QED
        BY <1>1, <1>2, <1>j, <3>1
    <3>3. t[k] = a + i
      <4>1. t[k] = b + k
        BY <1>2, <3>1
      <4> QED
        BY <4>1
    <3> QED
      BY <3>1, <3>2, <3>3, <1>4
  <2> QED
    BY <2>1, <2>2
<1>7. s \o t = u
  <2>1. s \o t \in Seq(Nat) /\ u \in Seq(Nat)
    BY <1>4, <1>5
  <2>2. Len(s \o t) = Len(u) /\ \A i \in 1..Len(s \o t) : (s \o t)[i] = u[i]
    BY <1>4, <1>5, <1>6
  <2> QED
    BY <2>1, <2>2, SameSeq
<1> QED
  BY <1>7 DEF s, t, u
\* What is left of a stretch when its first units are taken.
LEMMA UnitsRest ==
  ASSUME NEW a \in Nat, NEW b \in Nat, a <= b, NEW n \in 0..(b - a)
  PROVE  SubSeq(Units(a, b), n + 1, Len(Units(a, b))) = Units(a + n, b)
<1> DEFINE s == Units(a, b)
           u == Units(a + n, b)
           r == SubSeq(s, n + 1, Len(s))
<1>1. s \in Seq(Nat) /\ Len(s) = b - a /\ \A i \in 1..(b - a) : s[i] = a + i
  BY UnitsAre
<1>2. a + n \in Nat /\ a + n <= b
  OBVIOUS
<1>3. /\ u \in Seq(Nat) /\ Len(u) = b - (a + n)
      /\ \A i \in 1..(b - (a + n)) : u[i] = (a + n) + i
  BY <1>2, UnitsAre
<1> HIDE DEF s, u
<1>r. /\ r \in Seq(Nat) /\ Len(r) = Len(s) - n
      /\ \A i \in 1..(Len(s) - n) : r[i] = s[n + i]
  <2>1. s \in Seq(Nat) /\ n \in 0..Len(s)
    BY <1>1
  <2> QED
    BY <2>1, RestIs
<1> HIDE DEF r
<1>4. r \in Seq(Nat) /\ Len(r) = b - (a + n)
  BY <1>1, <1>r
<1>5. ASSUME NEW i \in 1..(b - (a + n)) PROVE r[i] = u[i]
  <2>1. i \in 1..(Len(s) - n) /\ n + i \in 1..(b - a)
    BY <1>1
  <2>2. r[i] = s[n + i]
    BY <2>1, <1>r
  <2> QED
    BY <2>1, <2>2, <1>1, <1>3
<1>6. r = u
  <2>1. Len(r) = Len(u) /\ \A i \in 1..Len(r) : r[i] = u[i]
    BY <1>3, <1>4, <1>5
  <2>2. r \in Seq(Nat) /\ u \in Seq(Nat)
    BY <1>3, <1>4
  <2> QED
    BY <2>1, <2>2, SameSeq
<1> QED
  BY <1>6 DEF r, s, u
-----------------------------------------------------------------------------
(* The kinds of steps                                                      *)

dataVars == <<file, out, queue, fpos, eof, nextRead, waitingOn, completed, src, pos, flushed, block>>

\* A step that reads, decodes and writes nothing.
Control ==
  /\ UNCHANGED dataVars
  /\ (Reading' <=> Reading) /\ (Reading => task'["read"] = task["read"])
  /\ (Writing' <=> Writing) /\ (Writing => task'["write"] = task["write"])
  /\ pc' = "addRead" <=> pc = "addRead"
  /\ pc' = "addWrite" <=> pc = "addWrite"
  /\ AtEnd => AtEnd'

\* All other steps.
DataStep ==
  \/ \E p \in Pool : Pop(p)
  \/ ExecuteRead \/ ExecuteWrite
  \/ StartReading \/ FillRelease \/ AddReadQueued \/ AddReadInline
  \/ \E i \in DOMAIN completed : NextJob(i)
  \/ \E n \in 0..InFrame : \E m \in 0..(pos + n - flushed) : DecodeBlock(n, m)
  \/ AddWriteQueued \/ AddWriteInline
  \/ CloseSrc

\* A step of main that moves it, from a place where it adds no job.
LEMMA TurnIs ==
  ASSUME UNCHANGED dataVars, UNCHANGED <<worker, task>>, NEW place, At(place),
         place \notin {"addRead", "addWrite"}, pc' \notin {"addRead", "addWrite"},
         AtEnd => AtEnd'
  PROVE  Control
BY DEF Control, At, Reading, Writing, dataVars

LEMMA WaitIs ==
  ASSUME UNCHANGED dataVars, UNCHANGED <<worker, task, pc>>
  PROVE  Control
BY DEF Control, AtEnd, Reading, Writing, dataVars

LEMMA Kinds ==
  ASSUME CountInv, [Next]_vars
  PROVE  Control \/ DataStep
<1> USE DEF promise, mainVars, ioVars, readVars, decVars
<1>0. TypeOK /\ ClosedWhenIdle /\ Quiet
  BY DEF CountInv
<1>1. CASE ReadPool
  <2>1. CASE AddRead
    <3>1. CASE AddReadFull
      BY <3>1, WaitIs DEF AddReadFull, dataVars
    <3> QED
      BY <2>1, <3>1, AddReadIs DEF DataStep
  <2>2. CASE OpenFails \/ Open \/ StartDone
    BY <2>2, TurnIs DEF OpenFails, Open, StartDone, dataVars, AtEnd, At
  <2>3. CASE Fill \/ NextNone
    BY <2>3, TurnIs DEF Fill, NextNone, dataVars, AtEnd, At, GoTo, NoMore, Filled
  <2>4. CASE NextWait
    BY <2>4, WaitIs DEF NextWait, dataVars
  <2> QED
    BY <1>1, <2>1, <2>2, <2>3, <2>4 DEF ReadPool, DataStep
<1>2. CASE Frames
  <2>1. CASE AddWrite
    <3>1. CASE AddWriteFull
      BY <3>1, WaitIs DEF AddWriteFull, dataVars
    <3> QED
      BY <2>1, <3>1, AddWriteIs DEF DataStep
  <2>2. CASE NoInput \/ UnknownHeader \/ StartFrame
    BY <2>2, TurnIs DEF NoInput, UnknownHeader, StartFrame, Reject, GoTo, dataVars, AtEnd, At, Take
  <2>3. CASE DecodeError \/ Premature \/ EndFrame
    BY <2>3, TurnIs DEF DecodeError, Premature, EndFrame, Reject, GoTo, dataVars, AtEnd, At, Release
  <2>4. CASE Reacquire \/ JoinFrame
    BY <2>4, TurnIs DEF Reacquire, JoinFrame, GoTo, dataVars, AtEnd, At, Take
  <2>5. CASE JoinWait("write", "joinFrame")
    BY <2>5, WaitIs DEF JoinWait, dataVars
  <2> QED
    BY <1>2, <2>1, <2>2, <2>3, <2>4, <2>5 DEF Frames, DataStep, Decode
<1>3. CASE Closing
  <2>1. CASE JoinWait("write", "closeDst") \/ JoinWait("read", "closeSrc") \/ ExitProgram
    BY <2>1, WaitIs DEF JoinWait, ExitProgram, dataVars
  <2>2. CASE CloseDst \/ Shut \/ WakeAll \/ FreeNext
    BY <2>2, TurnIs DEF CloseDst, Shut, WakeAll, FreeNext, GoTo, dataVars, AtEnd, At
  <2> QED
    BY <1>3, <2>1, <2>2 DEF Closing, DataStep
<1>4. ASSUME NEW p \in Pool, Worker(p) PROVE Control \/ DataStep
  <2>1. CASE PopWait(p)
    BY <2>1, WaitIs DEF PopWait, dataVars
  <2>2. CASE WorkerExit(p)
    <3>1. /\ \A r \in Pool : worker'[r] = "running" <=> worker[r] = "running"
          /\ UNCHANGED dataVars /\ UNCHANGED <<task, pc>>
      BY <1>0, <2>2 DEF WorkerExit, Free, dataVars, TypeOK, PoolType, Pool
    <3> QED
      BY <3>1 DEF Control, AtEnd, Reading, Writing, dataVars, Pool
  <2>3. CASE JobDone(p)
    <3>1. /\ \A r \in Pool : worker'[r] = "running" <=> worker[r] = "running"
          /\ \A r \in Pool : worker[r] = "running" => task'[r] = task[r]
          /\ UNCHANGED dataVars /\ UNCHANGED pc
      BY <1>0, <2>3 DEF JobDone, Signal, dataVars, TypeOK, PoolType, Pool
    <3> QED
      BY <3>1 DEF Control, AtEnd, Reading, Writing, dataVars, Pool
  <2> QED
    BY <1>4, <2>1, <2>2, <2>3 DEF Worker, DataStep
<1>5. ASSUME NEW t \in Thread, Spurious(t) PROVE Control \/ DataStep
  BY <1>5, WaitIs DEF Spurious, dataVars
<1>6. CASE UNCHANGED vars
  BY <1>6, WaitIs DEF vars, dataVars
<1>7. CASE InputOutputError
  BY <1>7, WaitIs DEF InputOutputError, Die, dataVars
<1> QED
  BY <1>1, <1>2, <1>3, <1>4, <1>5, <1>6, <1>7 DEF Next, Gone, DataStep
-----------------------------------------------------------------------------
(* What is written                                                         *)

\* The types the order of the writes needs.
LEMMA WriteTypes ==
  ASSUME TypeOK
  PROVE  /\ WriteQ \in Seq(Block) /\ block \in Block
         /\ Writing => task["write"] \in Block
         /\ flushed \in Nat /\ pos \in Nat /\ flushed <= pos
         /\ \A b \in Block : b.from \in Nat /\ b.to \in Nat /\ b.from <= b.to
BY DEF TypeOK, PoolType, DecoderType, WriteQ, Writing, Block

LEMMA SameWrites ==
  ASSUME WritesOrdered, UNCHANGED <<out, flushed, block>>, WriteQ' = WriteQ,
         Writing' <=> Writing, Writing => task'["write"] = task["write"],
         pc' = "addWrite" <=> pc = "addWrite"
  PROVE  WritesOrdered'
<1>1. QueuedFrom' = QueuedFrom
  BY DEF QueuedFrom
<1>2. NextFrom' = NextFrom
  BY <1>1 DEF NextFrom
<1> QED
  BY <1>1, <1>2 DEF WritesOrdered

\* The worker takes the first job of the queue.
LEMMA PopWrites ==
  ASSUME TypeOK, WritesOrdered, Pop("write")
  PROVE  WritesOrdered'
<1> DEFINE q == WriteQ
<1>1. /\ q \in Seq(Block) /\ q # <<>> /\ WriteQ' = Tail(q) /\ task'["write"] = q[1]
      /\ ~ Writing /\ Writing' /\ UNCHANGED <<out, flushed, block, pc>>
  BY WriteTypes DEF Pop, Free, Writing, WriteQ, TypeOK, PoolType, Pool,
     promise, mainVars, ioVars, readVars, decVars
<1>2. /\ Len(q) \in Nat /\ Len(q) >= 1 /\ Tail(q) \in Seq(Block) /\ Len(Tail(q)) = Len(q) - 1
      /\ \A i \in 1..(Len(q) - 1) : Tail(q)[i] = q[i + 1]
  BY <1>1
<1>3. NextFrom' = NextFrom
  BY <1>1 DEF NextFrom, QueuedFrom
<1>4. q[1].to = QueuedFrom'
  <2>1. CASE Len(q) = 1
    <3>1. WriteQ' = <<>> /\ q[1].to = block.from
      BY <1>1, <1>2, <2>1 DEF WritesOrdered
    <3> QED
      BY <1>1, <3>1 DEF QueuedFrom
  <2>2. CASE Len(q) > 1
    <3>1. 1 \in 1..(Len(q) - 1) /\ 1 + 1 = 2
      BY <1>2, <2>2
    <3>2. Tail(q)[1] = q[1 + 1]
      BY <1>2, <3>1
    <3>4. Tail(q) # <<>>
      <4>1. Len(Tail(q)) # 0
        BY <1>2, <2>2
      <4>2. Len(<<>>) = 0
        OBVIOUS
      <4> QED
        BY <4>1, <4>2, Zenon
    <3>3. q[1].to = q[2].from
      BY <3>1 DEF WritesOrdered
    <3> QED
      BY <1>1, <3>1, <3>2, <3>3, <3>4 DEF QueuedFrom
  <2> QED
    BY <1>2, <2>1, <2>2
<1>5. \A i \in 1..(Len(WriteQ') - 1) : WriteQ'[i].to = WriteQ'[i + 1].from
  <2> SUFFICES ASSUME NEW i \in 1..(Len(Tail(q)) - 1)
               PROVE  Tail(q)[i].to = Tail(q)[i + 1].from
    BY <1>1
  <2>1. i + 1 \in 1..(Len(q) - 1) /\ Tail(q)[i] = q[i + 1] /\ Tail(q)[i + 1] = q[(i + 1) + 1]
    BY <1>2
  <2> QED
    BY <2>1 DEF WritesOrdered
<1>6. WriteQ' # <<>> => WriteQ'[Len(WriteQ')].to = block.from
  <2> SUFFICES ASSUME Tail(q) # <<>> PROVE Tail(q)[Len(Tail(q))].to = block.from
    BY <1>1
  <2>1. Len(q) - 1 \in 1..(Len(q) - 1)
    BY <1>2
  <2>2. Tail(q)[Len(Tail(q))] = q[(Len(q) - 1) + 1] /\ (Len(q) - 1) + 1 = Len(q)
    BY <1>2, <2>1
  <2> QED
    BY <1>1, <2>2 DEF WritesOrdered
<1> QED
  BY <1>1, <1>3, <1>4, <1>5, <1>6 DEF WritesOrdered, NextFrom

\* What is appended to the output up to b brings it up to c.
LEMMA WriteMore ==
  ASSUME NEW b \in Nat, NEW c \in Nat, b <= c, out = Units(0, b), out' = out \o Units(b, c)
  PROVE  out' = Units(0, c)
<1>1. 0 \in Nat /\ 0 <= b
  OBVIOUS
<1>2. Units(0, b) \o Units(b, c) = Units(0, c)
  BY <1>1, UnitsJoin
<1> QED
  BY <1>2

\* It writes where the writing stopped.
LEMMA ExecuteWrites ==
  ASSUME TypeOK, WritesOrdered, ExecuteWrite
  PROVE  WritesOrdered' /\ out' = Units(0, task["write"].to)
<1> DEFINE b == task["write"]
<1>1. /\ Writing /\ ~ Writing' /\ b \in Block /\ out' = out \o Units(b.from, b.to)
      /\ UNCHANGED <<pc, queue, flushed, block>>
  BY WriteTypes DEF ExecuteWrite, Writing, TypeOK, PoolType, Pool, mainVars, readVars, decVars
<1>2. out = Units(0, b.from) /\ b.to = QueuedFrom
  BY <1>1 DEF WritesOrdered, NextFrom
<1>3. out' = Units(0, b.to)
  <2>1. b.from \in Nat /\ b.to \in Nat /\ b.from <= b.to
    BY <1>1, WriteTypes
  <2> HIDE DEF b
  <2> QED
    BY <1>1, <1>2, <2>1, WriteMore
<1>4. QueuedFrom' = QueuedFrom /\ NextFrom' = QueuedFrom' /\ WriteQ' = WriteQ
  BY <1>1 DEF QueuedFrom, NextFrom, WriteQ
<1> QED
  BY <1>1, <1>2, <1>3, <1>4 DEF WritesOrdered

\* Main queues the job it has filled.
LEMMA QueueWrites ==
  ASSUME TypeOK, WritesOrdered, AddWriteQueued
  PROVE  WritesOrdered'
<1> DEFINE q == WriteQ
<1>1. /\ q \in Seq(Block) /\ block \in Block /\ WriteQ' = Append(q, block)
      /\ block' = Nothing(flushed)
      /\ UNCHANGED <<out, flushed, worker, task>>
  BY WriteTypes DEF AddWriteQueued, WriteQ, TypeOK, PoolType, Pool, promise, mainVars, ioVars
<1>2. /\ Len(q) \in Nat /\ WriteQ' \in Seq(Block) /\ Len(WriteQ') = Len(q) + 1
      /\ \A i \in 1..Len(q) : WriteQ'[i] = q[i]
      /\ WriteQ'[Len(q) + 1] = block
  BY <1>1
<1>3. QueuedFrom' = QueuedFrom
  <2>1. WriteQ' # <<>>
    BY <1>2
  <2>2. CASE q = <<>>
    <3>1. WriteQ'[1] = block
      BY <1>2, <2>2
    <3> QED
      BY <2>1, <2>2, <3>1 DEF QueuedFrom
  <2>3. CASE q # <<>>
    <3>1. WriteQ'[1] = q[1]
      BY <1>1, <1>2, <2>3
    <3> QED
      BY <2>1, <2>3, <3>1 DEF QueuedFrom
  <2> QED
    BY <2>2, <2>3
<1>4. NextFrom' = NextFrom
  BY <1>1, <1>3 DEF NextFrom, Writing
<1>5. \A i \in 1..(Len(WriteQ') - 1) : WriteQ'[i].to = WriteQ'[i + 1].from
  <2> SUFFICES ASSUME NEW i \in 1..Len(q) PROVE WriteQ'[i].to = WriteQ'[i + 1].from
    BY <1>2
  <2>1. CASE i = Len(q)
    <3>1. q # <<>> /\ WriteQ'[i] = q[Len(q)] /\ WriteQ'[i + 1] = block
      BY <1>1, <1>2, <2>1
    <3> QED
      BY <3>1 DEF WritesOrdered
  <2>2. CASE i # Len(q)
    <3>1. i \in 1..(Len(q) - 1) /\ WriteQ'[i] = q[i] /\ WriteQ'[i + 1] = q[i + 1]
      BY <1>2, <2>2
    <3> QED
      BY <3>1 DEF WritesOrdered
  <2> QED
    BY <2>1, <2>2
<1>6. WriteQ'[Len(WriteQ')].to = block'.from /\ block'.to = flushed' /\ Empty(block')
  BY <1>1, <1>2 DEF WritesOrdered, Nothing, Empty
<1>7. Writing' <=> Writing
  BY <1>1 DEF Writing
<1> QED
  BY <1>1, <1>3, <1>4, <1>5, <1>6, <1>7 DEF WritesOrdered

\* Every step keeps the order of the writes.
LEMMA NextWrites ==
  ASSUME CountInv, WritesOrdered, [Next]_vars
  PROVE  WritesOrdered'
<1> USE DEF promise, mainVars, ioVars, readVars, decVars
<1>0. TypeOK
  BY DEF CountInv
<1>1. CASE Control
  <2>1. /\ UNCHANGED <<out, queue, flushed, block>>
        /\ (Writing' <=> Writing) /\ (Writing => task'["write"] = task["write"])
        /\ pc' = "addWrite" <=> pc = "addWrite"
    BY <1>1 DEF Control, dataVars
  <2>2. WriteQ' = WriteQ
    BY <2>1 DEF WriteQ
  <2> QED
    BY <2>1, <2>2, SameWrites
<1>2. ASSUME NEW p \in Pool, Pop(p) PROVE WritesOrdered'
  <2>1. CASE p = "write"
    BY <1>0, <1>2, <2>1, PopWrites
  <2>2. CASE p = "read"
    <3>1. /\ queue'["write"] = queue["write"] /\ worker'["write"] = worker["write"]
          /\ task'["write"] = task["write"] /\ UNCHANGED <<out, flushed, block, pc>>
      BY <1>0, <1>2, <2>2 DEF Pop, TypeOK, PoolType, Pool
    <3> QED
      BY <3>1, SameWrites DEF WriteQ, Writing
  <2> QED
    BY <2>1, <2>2 DEF Pool
<1>3. CASE ExecuteRead
  <2>1. /\ UNCHANGED <<queue, task, out, flushed, block, pc>> /\ worker'["write"] = worker["write"]
    BY <1>0, <1>3 DEF ExecuteRead, TypeOK, PoolType, Pool
  <2> QED
    BY <2>1, SameWrites DEF WriteQ, Writing
<1>4. CASE ExecuteWrite
  BY <1>0, <1>4, ExecuteWrites
<1>5. CASE StartReading \/ FillRelease
  <2>1. /\ UNCHANGED <<queue, task, worker, out, flushed, block>>
        /\ pc # "addWrite" /\ pc' # "addWrite"
    BY <1>5 DEF StartReading, FillRelease, At, GoTo
  <2> QED
    BY <2>1, SameWrites DEF WriteQ, Writing
<1>6. CASE AddReadQueued \/ AddReadInline
  <2>1. /\ UNCHANGED <<task, worker, out, flushed, block>> /\ queue'["write"] = queue["write"]
        /\ pc # "addWrite" /\ pc' # "addWrite"
    BY <1>0, <1>6 DEF AddReadQueued, AddReadInline, AfterAdd, At, TypeOK, PoolType, Pool
  <2> QED
    BY <2>1, SameWrites DEF WriteQ, Writing
<1>7. ASSUME NEW i \in DOMAIN completed, NextJob(i) PROVE WritesOrdered'
  <2>1. /\ UNCHANGED <<queue, task, worker, out, flushed, block>>
        /\ pc # "addWrite" /\ pc' # "addWrite"
    BY <1>7 DEF NextJob, At, GoTo, NoMore, Filled
  <2> QED
    BY <2>1, SameWrites DEF WriteQ, Writing
<1>8. ASSUME NEW n \in 0..InFrame, NEW m \in 0..(pos + n - flushed), DecodeBlock(n, m)
      PROVE  WritesOrdered'
  <2>1. /\ UNCHANGED <<queue, task, worker, out>> /\ pc = "decode" /\ pc' = "addWrite"
        /\ block' = [from |-> flushed, to |-> flushed']
    BY <1>8 DEF DecodeBlock, At, GoTo
  <2>2. block.from = flushed /\ block'.from = block.from /\ block'.to = flushed'
    BY <2>1 DEF WritesOrdered, Empty
  <2>3. QueuedFrom' = QueuedFrom /\ NextFrom' = NextFrom /\ WriteQ' = WriteQ /\ Writing' = Writing
    BY <2>1, <2>2 DEF QueuedFrom, NextFrom, WriteQ, Writing
  <2> QED
    BY <2>1, <2>2, <2>3 DEF WritesOrdered
<1>9. CASE AddWriteQueued
  BY <1>0, <1>9, QueueWrites
<1>10. CASE AddWriteInline
  <2>1. /\ WriteQ = <<>> /\ ~ Writing /\ UNCHANGED <<queue, worker, flushed>>
        /\ out' = out \o Units(block.from, block.to) /\ block' = Nothing(flushed)
    BY <1>10 DEF AddWriteInline, CountInv, Quiet, Idle, Busy, Pool, WriteQ, Writing, At
  <2>2. out = Units(0, block.from) /\ block.from \in Nat /\ flushed \in Nat
        /\ block.from <= flushed /\ block.to = flushed
    BY <1>0, <2>1, WriteTypes DEF WritesOrdered, NextFrom, QueuedFrom
  <2>3. out' = Units(0, flushed)
    BY <2>1, <2>2, WriteMore
  <2>4. WriteQ' = <<>> /\ ~ Writing' /\ NextFrom' = flushed /\ block'.to = flushed /\ Empty(block')
    BY <2>1 DEF WriteQ, Writing, NextFrom, QueuedFrom, Nothing, Empty
  <2> QED
    BY <2>1, <2>3, <2>4 DEF WritesOrdered
<1>11. CASE CloseSrc
  <2>1. /\ UNCHANGED <<queue, task, worker, out, flushed, block>>
        /\ pc # "addWrite" /\ pc' # "addWrite"
    BY <1>11 DEF CloseSrc, At
  <2> QED
    BY <2>1, SameWrites DEF WriteQ, Writing
<1> QED
  BY Kinds, <1>1, <1>2, <1>3, <1>4, <1>5, <1>6, <1>7, <1>8, <1>9, <1>10, <1>11 DEF DataStep
-----------------------------------------------------------------------------
(* What is read                                                            *)

\* The types the order of the reads needs.
LEMMA ReadTypes ==
  ASSUME TypeOK
  PROVE  /\ ReadQ \in Seq(ReadJob) /\ completed \in Seq(ReadJob)
         /\ Reading => task["read"] \in ReadJob
         /\ fpos \in Nat /\ file.len \in Nat /\ fpos <= file.len /\ eof \in BOOLEAN
         /\ nextRead \in Nat /\ waitingOn \in Nat
         /\ BufSize \in Nat /\ BufSize >= 1
         /\ \A c \in ReadJob : c.offset \in Nat /\ c.from \in Nat /\ c.used \in Nat
<1>1. file.len \in Nat
  BY FileIs
<1> QED
  BY <1>1, PipeAssumption
     DEF PipeAssumption, TypeOK, PoolType, ReadType, ReadQ, Reading, ReadJob

LEMMA SameOrder ==
  ASSUME ReadsOrdered, UNCHANGED <<file, fpos, eof>>, ReadQ' = ReadQ, Numbered' = Numbered,
         Reading' <=> Reading, Reading => task'["read"] = task["read"], AtEnd => AtEnd'
  PROVE  ReadsOrdered'
<1>1. QueueOff' = QueueOff
  BY DEF QueueOff
<1>2. NextOff' = NextOff
  BY <1>1 DEF NextOff
<1> QED
  BY <1>1, <1>2 DEF ReadsOrdered

LEMMA SameReads ==
  ASSUME ReadsComplete, UNCHANGED <<file, fpos, eof, completed, waitingOn>>, AtEnd => AtEnd'
  PROVE  ReadsComplete'
BY DEF ReadsComplete, JobOK, Apart, Holding

\* fread gives what is left of the file, up to the size of a buffer.
LEMMA ReadStep ==
  ASSUME TypeOK, NEW job, job.offset \in Nat, job.offset >= fpos,
         IF eof THEN fpos = file.len ELSE fpos = job.offset,
         ReadInto(job), file' = file
  PROVE  /\ job.offset + BufSize >= fpos'
         /\ IF eof' THEN fpos' = file.len ELSE fpos' = job.offset + BufSize
         /\ Got(job) \in Nat /\ fpos' = fpos + Got(job) /\ fpos' \in Nat
         /\ Got(job) < BufSize => eof'
         /\ Got(job) > 0 => fpos = job.offset
         /\ Got(job) = 0 => job.offset >= file.len
         /\ eof => eof'
<1> DEFINE o == job.offset
<1> DEFINE g == Got(job)
<1>1. fpos' = fpos + g /\ eof' \in BOOLEAN /\ (eof' <=> g < BufSize)
  <2>1. fpos' = fpos + Got(job) /\ eof' = (Got(job) < BufSize)
    BY DEF ReadInto
  <2> HIDE DEF g
  <2>2. fpos' = fpos + g /\ eof' = (g < BufSize)
    BY <2>1 DEF g
  <2>3. eof' \in BOOLEAN
    BY <2>2
  <2>4. eof' <=> g < BufSize
    BY <2>2, Zenon
  <2> QED
    BY <2>2, <2>3, <2>4
<1>2. fpos \in Nat /\ file.len \in Nat /\ fpos <= file.len /\ BufSize \in Nat /\ BufSize >= 1
  BY ReadTypes
<1> DEFINE goal ==
         /\ o + BufSize >= fpos'
         /\ IF eof' THEN fpos' = file.len ELSE fpos' = o + BufSize
         /\ g \in Nat /\ fpos' = fpos + g /\ fpos' \in Nat
         /\ g < BufSize => eof'
         /\ g > 0 => fpos = o
         /\ g = 0 => o >= file.len
         /\ eof => eof'
<1>3. ASSUME eof PROVE goal
  <2>1. g = 0
    BY <1>3 DEF Got
  <2> HIDE DEF g
  <2> QED
    BY <1>1, <1>2, <1>3, <2>1
<1>4. ASSUME ~ eof, BufSize <= file.len - fpos PROVE goal
  <2>1. g = BufSize
    BY <1>2, <1>4 DEF Got, Least
  <2> HIDE DEF g
  <2> QED
    BY <1>1, <1>2, <1>4, <2>1
<1>5. ASSUME ~ eof, ~ (BufSize <= file.len - fpos) PROVE goal
  <2>1. g = file.len - fpos
    BY <1>2, <1>5 DEF Got, Least
  <2> HIDE DEF g
  <2>2. g \in Nat /\ g < BufSize /\ fpos' = file.len
    BY <1>1, <1>2, <1>5, <2>1
  <2> QED
    BY <1>1, <1>2, <1>5, <2>1, <2>2
<1> QED
  BY <1>3, <1>4, <1>5

\* The worker takes the first job of the queue.
LEMMA PopReads ==
  ASSUME TypeOK, ReadsOrdered, Pop("read")
  PROVE  ReadsOrdered'
<1> DEFINE q == ReadQ
<1> SUFFICES ASSUME ~ AtEnd' PROVE ReadsOrdered'
  BY DEF ReadsOrdered
<1>1. /\ q \in Seq(ReadJob) /\ q # <<>> /\ ReadQ' = Tail(q) /\ task'["read"] = q[1]
      /\ ~ Reading /\ Reading' /\ UNCHANGED <<file, fpos, eof, nextRead, pc>>
  BY ReadTypes DEF Pop, Free, Reading, ReadQ, TypeOK, PoolType, Pool,
     promise, mainVars, ioVars, readVars, decVars
<1>2. /\ Len(q) \in Nat /\ Len(q) >= 1 /\ Tail(q) \in Seq(ReadJob) /\ Len(Tail(q)) = Len(q) - 1
      /\ \A i \in 1..(Len(q) - 1) : Tail(q)[i] = q[i + 1]
  BY <1>1
<1>3. NextOff' = NextOff /\ Numbered' = Numbered /\ ~ AtEnd
  BY <1>1 DEF NextOff, QueueOff, Numbered, AtEnd
<1>4. q[1].offset + BufSize = QueueOff'
  <2>1. CASE Len(q) = 1
    <3>1. ReadQ' = <<>> /\ q[1].offset + BufSize = Numbered
      BY <1>1, <1>2, <1>3, <2>1 DEF ReadsOrdered
    <3> QED
      BY <1>3, <3>1 DEF QueueOff
  <2>2. CASE Len(q) > 1
    <3>1. 1 \in 1..(Len(q) - 1) /\ 1 + 1 = 2
      BY <1>2, <2>2
    <3>2. Tail(q)[1] = q[1 + 1]
      BY <1>2, <3>1
    <3>3. q[1 + 1].offset = q[1].offset + BufSize
      BY <1>3, <3>1 DEF ReadsOrdered
    <3>4. Tail(q) # <<>>
      <4>1. Len(Tail(q)) # 0
        BY <1>2, <2>2
      <4>2. Len(<<>>) = 0
        OBVIOUS
      <4> QED
        BY <4>1, <4>2, Zenon
    <3> QED
      BY <1>1, <3>2, <3>3, <3>4 DEF QueueOff
  <2> QED
    BY <1>2, <2>1, <2>2
<1>5. \A i \in 1..(Len(ReadQ') - 1) : ReadQ'[i + 1].offset = ReadQ'[i].offset + BufSize
  <2> SUFFICES ASSUME NEW i \in 1..(Len(Tail(q)) - 1)
               PROVE  Tail(q)[i + 1].offset = Tail(q)[i].offset + BufSize
    BY <1>1
  <2>1. i + 1 \in 1..(Len(q) - 1) /\ Tail(q)[i] = q[i + 1] /\ Tail(q)[i + 1] = q[(i + 1) + 1]
    BY <1>2
  <2> QED
    BY <1>3, <2>1 DEF ReadsOrdered
<1>6. ReadQ' # <<>> => ReadQ'[Len(ReadQ')].offset + BufSize = Numbered
  <2> SUFFICES ASSUME Tail(q) # <<>> PROVE Tail(q)[Len(Tail(q))].offset + BufSize = Numbered
    BY <1>1
  <2>1. Len(q) - 1 \in 1..(Len(q) - 1)
    BY <1>2
  <2>2. Tail(q)[Len(Tail(q))] = q[(Len(q) - 1) + 1] /\ (Len(q) - 1) + 1 = Len(q)
    BY <1>2, <2>1
  <2> QED
    BY <1>1, <1>3, <2>2 DEF ReadsOrdered
<1> QED
  BY <1>1, <1>3, <1>4, <1>5, <1>6 DEF ReadsOrdered

\* Main queues a read with the next offset.
LEMMA QueueReads ==
  ASSUME TypeOK, ReadsOrdered, AddReadQueued
  PROVE  ReadsOrdered'
<1> DEFINE q == ReadQ
<1>1. /\ q \in Seq(ReadJob) /\ ReadQ' = Append(q, NewRead) /\ NewRead.offset = Numbered
      /\ Numbered' = nextRead /\ nextRead \in Nat /\ BufSize \in Nat /\ ~ AtEnd
      /\ UNCHANGED <<file, fpos, eof, worker, task>>
  BY ReadTypes DEF AddReadQueued, AfterAdd, NewRead, Numbered, AtEnd, At, ReadQ, TypeOK, PoolType, Pool,
     promise, mainVars, ioVars, readVars
<1>2. NewRead \in ReadJob /\ Numbered + BufSize = Numbered' /\ Numbered \in Nat
  <2>1. Numbered \in Nat
    BY <1>1 DEF ReadsOrdered
  <2> QED
    BY <1>1, <2>1 DEF NewRead, ReadJob, Numbered, AddReadQueued, At
<1>3. /\ Len(q) \in Nat /\ ReadQ' \in Seq(ReadJob) /\ Len(ReadQ') = Len(q) + 1
      /\ \A i \in 1..Len(q) : ReadQ'[i] = q[i]
      /\ ReadQ'[Len(q) + 1] = NewRead /\ ReadQ' # <<>>
  BY <1>1, <1>2
<1>4. QueueOff' = QueueOff
  <2>1. CASE q = <<>>
    BY <1>1, <1>3, <2>1 DEF QueueOff
  <2>2. CASE q # <<>>
    <3>1. ReadQ'[1] = q[1]
      BY <1>1, <1>3, <2>2
    <3> QED
      BY <1>3, <2>2, <3>1 DEF QueueOff
  <2> QED
    BY <2>1, <2>2
<1>5. NextOff' = NextOff /\ (Reading' <=> Reading)
  BY <1>1, <1>4 DEF NextOff, Reading
<1>6. \A i \in 1..(Len(ReadQ') - 1) : ReadQ'[i + 1].offset = ReadQ'[i].offset + BufSize
  <2> SUFFICES ASSUME NEW i \in 1..Len(q)
               PROVE  ReadQ'[i + 1].offset = ReadQ'[i].offset + BufSize
    BY <1>3
  <2>1. CASE i = Len(q)
    <3>1. q # <<>> /\ ReadQ'[i] = q[Len(q)] /\ ReadQ'[i + 1] = NewRead
      BY <1>1, <1>3, <2>1
    <3> QED
      BY <1>1, <3>1 DEF ReadsOrdered
  <2>2. CASE i # Len(q)
    <3>1. i \in 1..(Len(q) - 1) /\ ReadQ'[i] = q[i] /\ ReadQ'[i + 1] = q[i + 1]
      BY <1>3, <2>2
    <3> QED
      BY <1>1, <3>1 DEF ReadsOrdered
  <2> QED
    BY <2>1, <2>2
<1>7. ReadQ'[Len(ReadQ')].offset + BufSize = Numbered'
  BY <1>1, <1>2, <1>3
<1> QED
  BY <1>1, <1>2, <1>3, <1>4, <1>5, <1>6, <1>7 DEF ReadsOrdered

\* The worker reads where the reading stopped.
LEMMA ExecuteReads ==
  ASSUME TypeOK, ClosedWhenIdle, ReadsOrdered, ExecuteRead
  PROVE  /\ ReadsOrdered' /\ ~ AtEnd
         /\ task["read"].offset \in Nat /\ task["read"].offset >= fpos
         /\ IF eof THEN fpos = file.len ELSE fpos = task["read"].offset
<1> DEFINE o == task["read"].offset
<1>1. /\ Reading /\ ~ Reading' /\ ReadInto(task["read"]) /\ ~ AtEnd
      /\ UNCHANGED <<file, pc, queue, nextRead>>
  BY DEF ExecuteRead, Reading, ClosedWhenIdle, AtEnd, Idle, Busy, TypeOK, PoolType, Pool,
     promise, mainVars, readVars, decVars
<1>2. /\ o \in Nat /\ o >= fpos /\ (IF eof THEN fpos = file.len ELSE fpos = o)
      /\ o + BufSize = QueueOff
  BY <1>1, ReadTypes DEF ReadsOrdered, NextOff
<1>3. o + BufSize >= fpos' /\ IF eof' THEN fpos' = file.len ELSE fpos' = o + BufSize
  BY <1>1, <1>2, ReadStep
<1>4. /\ ReadQ' = ReadQ /\ Numbered' = Numbered /\ QueueOff' = QueueOff
      /\ NextOff' = o + BufSize /\ AtEnd' = AtEnd
  BY <1>1, <1>2 DEF ReadQ, Numbered, QueueOff, NextOff, AtEnd
<1> QED
  BY <1>1, <1>2, <1>3, <1>4 DEF ReadsOrdered

\* Without the workers main reads there itself.
LEMMA InlineReads ==
  ASSUME TypeOK, Quiet, ReadsOrdered, AddReadInline
  PROVE  /\ ReadsOrdered' /\ ~ AtEnd
         /\ NewRead.offset \in Nat /\ NewRead.offset >= fpos
         /\ IF eof THEN fpos = file.len ELSE fpos = NewRead.offset
<1> DEFINE o == NewRead.offset
<1>1. /\ ReadQ = <<>> /\ ~ Reading /\ UNCHANGED <<file, queue, worker, nextRead>>
      /\ pc = "addRead" /\ pc' \in {"startReading", "next"} /\ ReadInto(NewRead)
  BY DEF AddReadInline, AfterAdd, At, Quiet, Idle, Busy, Pool, ReadQ, Reading, promise, ioVars
<1>2. ~ AtEnd /\ ~ AtEnd' /\ o = Numbered /\ NextOff = o /\ Numbered' = nextRead
  <2>1. ~ AtEnd /\ ~ AtEnd' /\ o = Numbered
    BY <1>1 DEF AtEnd, NewRead, Numbered
  <2>2. NextOff = o
    BY <1>1, <2>1 DEF NextOff, QueueOff
  <2>3. Numbered' = nextRead
    BY <1>1, ReadTypes DEF Numbered
  <2> QED
    BY <2>1, <2>2, <2>3
<1>3. /\ o \in Nat /\ o >= fpos /\ (IF eof THEN fpos = file.len ELSE fpos = o)
  BY <1>2 DEF ReadsOrdered
<1>4. o + BufSize >= fpos' /\ IF eof' THEN fpos' = file.len ELSE fpos' = o + BufSize
  BY <1>1, <1>3, ReadStep
<1>5. ReadQ' = <<>> /\ ~ Reading' /\ NextOff' = nextRead
  BY <1>1, <1>2 DEF ReadQ, Reading, NextOff, QueueOff
<1>6. nextRead = o + BufSize
  BY <1>2, ReadTypes DEF NewRead
<1>7. Numbered' \in Nat
  BY <1>2, ReadTypes
<1>8. Len(<<>>) = 0
  OBVIOUS
<1> QED
  BY <1>1, <1>2, <1>3, <1>4, <1>5, <1>6, <1>7, <1>8 DEF ReadsOrdered

\* Every step keeps the order of the reads.
LEMMA NextOrder ==
  ASSUME CountInv, ReadsOrdered, [Next]_vars
  PROVE  ReadsOrdered'
<1> USE DEF promise, mainVars, ioVars, readVars, decVars
<1>0. TypeOK /\ ClosedWhenIdle /\ Quiet
  BY DEF CountInv
<1>1. CASE Control
  <2>1. /\ UNCHANGED <<file, fpos, eof>> /\ ReadQ' = ReadQ /\ Numbered' = Numbered
        /\ (Reading' <=> Reading) /\ (Reading => task'["read"] = task["read"])
        /\ (AtEnd => AtEnd')
    BY <1>1 DEF Control, dataVars, ReadQ, Numbered
  <2> QED
    BY <2>1, SameOrder
<1>2. ASSUME NEW p \in Pool, Pop(p) PROVE ReadsOrdered'
  <2>1. CASE p = "read"
    BY <1>0, <1>2, <2>1, PopReads
  <2>2. CASE p = "write"
    <3>1. /\ queue'["read"] = queue["read"] /\ worker'["read"] = worker["read"]
          /\ task'["read"] = task["read"] /\ UNCHANGED <<file, fpos, eof, nextRead, pc>>
      BY <1>0, <1>2, <2>2 DEF Pop, TypeOK, PoolType, Pool
    <3> QED
      BY <3>1, SameOrder DEF ReadQ, Reading, Numbered, AtEnd
  <2> QED
    BY <2>1, <2>2 DEF Pool
<1>3. CASE ExecuteRead
  BY <1>0, <1>3, ExecuteReads
<1>4. CASE ExecuteWrite
  <2>1. /\ UNCHANGED <<file, queue, task, fpos, eof, nextRead, pc>>
        /\ worker'["read"] = worker["read"]
    BY <1>0, <1>4 DEF ExecuteWrite, TypeOK, PoolType, Pool
  <2> QED
    BY <2>1, SameOrder DEF ReadQ, Reading, Numbered, AtEnd
<1>5. CASE StartReading \/ FillRelease
  <2>1. /\ UNCHANGED <<file, queue, task, worker, fpos, eof>>
        /\ pc \in {"startReading", "fill"} /\ pc' = "addRead" /\ nextRead' = nextRead + BufSize
    BY <1>5 DEF StartReading, FillRelease, At, GoTo
  <2>2. Numbered' = Numbered
    BY <1>0, <2>1, ReadTypes DEF Numbered
  <2> QED
    BY <2>1, <2>2, SameOrder DEF ReadQ, Reading, AtEnd
<1>6. CASE AddReadQueued
  BY <1>0, <1>6, QueueReads
<1>7. CASE AddReadInline
  BY <1>0, <1>7, InlineReads
<1>8. ASSUME NEW i \in DOMAIN completed, NextJob(i) PROVE ReadsOrdered'
  <2>1. /\ UNCHANGED <<file, queue, task, worker, fpos, eof, nextRead>>
        /\ pc = "next" /\ pc' # "addRead"
    BY <1>8 DEF NextJob, At, GoTo, NoMore, Filled
  <2> QED
    BY <2>1, SameOrder DEF ReadQ, Reading, Numbered, AtEnd
<1>9. ASSUME NEW n \in 0..InFrame, NEW m \in 0..(pos + n - flushed), DecodeBlock(n, m)
      PROVE  ReadsOrdered'
  <2>1. /\ UNCHANGED <<file, queue, task, worker, fpos, eof, nextRead>>
        /\ pc = "decode" /\ pc' = "addWrite"
    BY <1>9 DEF DecodeBlock, At, GoTo
  <2> QED
    BY <2>1, SameOrder DEF ReadQ, Reading, Numbered, AtEnd
<1>10. CASE AddWriteQueued \/ AddWriteInline
  <2>1. /\ UNCHANGED <<file, task, worker, fpos, eof, nextRead>> /\ queue'["read"] = queue["read"]
        /\ pc = "addWrite" /\ pc' = "reacquire"
    BY <1>0, <1>10 DEF AddWriteQueued, AddWriteInline, At, TypeOK, PoolType, Pool
  <2> QED
    BY <2>1, SameOrder DEF ReadQ, Reading, Numbered, AtEnd
<1>11. CASE CloseSrc
  BY <1>11 DEF CloseSrc, ReadsOrdered, AtEnd
<1> QED
  BY Kinds, <1>1, <1>2, <1>3, <1>4, <1>5, <1>6, <1>7, <1>8, <1>9, <1>10, <1>11 DEF DataStep

\* Reading adds the piece of the file that follows.
LEMMA ReadAdds ==
  ASSUME TypeOK, ReadsComplete, ~ AtEnd, NEW job, job.offset \in Nat, job.offset >= fpos,
         IF eof THEN fpos = file.len ELSE fpos = job.offset,
         ReadInto(job), UNCHANGED <<file, waitingOn>>
  PROVE  ReadsComplete'
<1> DEFINE g == Got(job)
           s == completed
<1>1. /\ g \in Nat /\ fpos' = fpos + g /\ fpos' \in Nat /\ fpos \in Nat /\ waitingOn \in Nat
      /\ (g < BufSize => eof') /\ (g > 0 => fpos = job.offset)
      /\ (g = 0 => job.offset >= file.len) /\ (eof => eof')
  BY ReadStep, ReadTypes
<1>2. PICK c : completed' = Append(s, c) /\ c = [offset |-> job.offset, from |-> fpos, used |-> g]
  BY DEF ReadInto
<1> HIDE DEF g
<1>3. /\ s \in Seq(ReadJob) /\ Len(s) \in Nat /\ DOMAIN s = 1..Len(s)
      /\ DOMAIN completed' = 1..(Len(s) + 1)
      /\ \A i \in 1..Len(s) : completed'[i] = s[i]
      /\ completed'[Len(s) + 1] = c
  <2>1. s \in Seq(ReadJob)
    BY ReadTypes
  <2> HIDE DEF s
  <2> QED
    BY <1>2, <2>1
<1>4. \A i \in 1..Len(s) : s[i].from \in Nat /\ s[i].used \in Nat /\ s[i].offset \in Nat
  BY <1>3, ReadTypes
<1>5. waitingOn <= fpos
  BY DEF ReadsComplete
<1>6. ASSUME NEW i \in 1..Len(s)
      PROVE  LET j == completed'[i] IN
             /\ j.used > 0 => j.from = j.offset /\ j.from >= waitingOn /\ j.from + j.used <= fpos'
             /\ j.used = 0 => j.offset >= file.len
             /\ j.used < BufSize => eof'
  <2>1. JobOK(s[i])
    BY <1>3 DEF ReadsComplete
  <2> QED
    BY <1>1, <1>3, <1>4, <2>1 DEF JobOK
<1>7. /\ c.used > 0 => c.from = c.offset /\ c.from >= waitingOn /\ c.from + c.used <= fpos'
      /\ c.used = 0 => c.offset >= file.len
      /\ c.used < BufSize => eof'
  BY <1>1, <1>2, <1>5
<1>8. (\A i \in DOMAIN completed : JobOK(completed[i]))'
  <2>1. SUFFICES ASSUME NEW i \in DOMAIN completed' PROVE JobOK(completed[i])'
    OBVIOUS
  <2>2. CASE i \in 1..Len(s)
    BY <1>6, <2>2 DEF JobOK
  <2>3. CASE i = Len(s) + 1
    BY <1>3, <1>7, <2>3 DEF JobOK
  <2> QED
    BY <1>3, <2>1, <2>2, <2>3
<1>9. ASSUME NEW i \in DOMAIN completed', NEW k \in DOMAIN completed', i # k
      PROVE  Apart(completed'[i], completed'[k])
  <2>1. \A h \in 1..Len(s) : Apart(s[h], c) /\ Apart(c, s[h])
    <3> SUFFICES ASSUME NEW h \in 1..Len(s) PROVE Apart(s[h], c) /\ Apart(c, s[h])
      OBVIOUS
    <3>1. s[h].used > 0 => s[h].from + s[h].used <= fpos
      BY <1>3 DEF ReadsComplete, JobOK
    <3>2. c.from = fpos
      BY <1>2
    <3> QED
      BY <3>1, <3>2 DEF Apart
  <2>2. CASE i \in 1..Len(s) /\ k \in 1..Len(s)
    BY <1>3, <1>9, <2>2 DEF ReadsComplete
  <2>3. CASE i = Len(s) + 1 /\ k \in 1..Len(s)
    BY <1>3, <2>1, <2>3
  <2>4. CASE k = Len(s) + 1 /\ i \in 1..Len(s)
    BY <1>3, <2>1, <2>4
  <2> QED
    BY <1>3, <1>9, <2>2, <2>3, <2>4
<1>10. ASSUME NEW x \in waitingOn..(fpos' - 1)
       PROVE  \E i \in DOMAIN completed' : Holding(completed'[i], x)
  <2>1. CASE x < fpos
    <3>1. x \in waitingOn..(fpos - 1)
      BY <1>1, <2>1
    <3>2. PICK i \in 1..Len(s) : Holding(s[i], x)
      BY <1>3, <3>1 DEF ReadsComplete
    <3>3. i \in DOMAIN completed' /\ completed'[i] = s[i]
      BY <1>3
    <3> QED
      BY <3>2, <3>3
  <2>2. CASE ~ (x < fpos)
    <3>1. c.from <= x /\ x < c.from + c.used
      BY <1>1, <1>2, <2>2
    <3>2. Len(s) + 1 \in DOMAIN completed' /\ Holding(completed'[Len(s) + 1], x)
      BY <1>3, <3>1 DEF Holding
    <3> QED
      BY <3>2
  <2> QED
    BY <2>1, <2>2
<1>11. waitingOn' <= fpos' /\ waitingOn' = waitingOn
  BY <1>1, <1>5
<1> QED
  BY <1>8, <1>9, <1>10, <1>11 DEF ReadsComplete, Apart, Holding

\* What is left in the list when one is taken out.
LEMMA SwapOutMap ==
  ASSUME NEW S, NEW s \in Seq(S), NEW i \in DOMAIN s
  PROVE  LET r == SwapOut(s, i) IN
         /\ \A j \in DOMAIN r : \E k \in DOMAIN s \ {i} : r[j] = s[k]
         /\ \A j, l \in DOMAIN r : j # l =>
              \E k, h \in DOMAIN s \ {i} : k # h /\ r[j] = s[k] /\ r[l] = s[h]
         /\ \A k \in DOMAIN s \ {i} : \E j \in DOMAIN r : r[j] = s[k]
<1> DEFINE r == SwapOut(s, i)
           f(j) == IF j = i THEN Len(s) ELSE j
<1>1. /\ Len(s) \in Nat /\ Len(s) >= 1 /\ i \in 1..Len(s) /\ DOMAIN s = 1..Len(s)
      /\ DOMAIN r = 1..(Len(s) - 1)
      /\ \A j \in 1..(Len(s) - 1) : r[j] = IF j = i THEN s[Len(s)] ELSE s[j]
  <2>1. /\ r \in Seq(S) /\ Len(r) = Len(s) - 1
        /\ \A j \in 1..(Len(s) - 1) : r[j] = IF j = i THEN s[Len(s)] ELSE s[j]
    BY SwapOutIs
  <2> HIDE DEF r
  <2> QED
    BY <2>1
<1> HIDE DEF r
<1>2. \A j \in DOMAIN r : f(j) \in DOMAIN s \ {i} /\ r[j] = s[f(j)]
  BY <1>1
<1>3. \A j, l \in DOMAIN r : j # l => f(j) # f(l)
  BY <1>1
<1>4. ASSUME NEW k \in DOMAIN s \ {i} PROVE \E j \in DOMAIN r : r[j] = s[k]
  <2>1. CASE k = Len(s)
    BY <1>1, <2>1
  <2>2. CASE k # Len(s)
    BY <1>1, <2>2
  <2> QED
    BY <2>1, <2>2
<1> HIDE DEF f
<1>5. /\ \A j \in DOMAIN r : \E k \in DOMAIN s \ {i} : r[j] = s[k]
      /\ \A j, l \in DOMAIN r : j # l =>
           \E k, h \in DOMAIN s \ {i} : k # h /\ r[j] = s[k] /\ r[l] = s[h]
  BY <1>2, <1>3
<1> QED
  BY <1>4, <1>5 DEF r

\* No units.
LEMMA UnitsNone ==
  ASSUME NEW a \in Nat
  PROVE  Units(a, a) = <<>>
<1>1. a <= a /\ a - a = 0
  OBVIOUS
<1>2. Units(a, a) \in Seq(Nat) /\ Len(Units(a, a)) = 0
  BY <1>1, UnitsAre
<1> QED
  BY <1>2

\* Main takes the piece of the file that follows what it has.
LEMMA TakeReads ==
  ASSUME CountInv, ReadsComplete, SrcInOrder, NEW i \in DOMAIN completed, NextJob(i)
  PROVE  ReadsComplete' /\ SrcInOrder'
<1> DEFINE s == completed
           r == SwapOut(s, i)
<1>1. PICK c : c = completed[i]
  OBVIOUS
<1>2. /\ c.offset = waitingOn /\ waitingOn' = waitingOn + c.used /\ completed' = r
      /\ src' = src \o Units(c.from, c.from + c.used)
      /\ UNCHANGED <<file, fpos, eof, pos>> /\ ~ AtEnd
  BY <1>1 DEF NextJob, Matches, SwapOut, At, AtEnd, promise, decVars
<1>3. s \in Seq(ReadJob) /\ c \in ReadJob /\ c.from \in Nat /\ c.used \in Nat /\ waitingOn \in Nat /\ fpos \in Nat
  <2>1. s \in Seq(ReadJob) /\ waitingOn \in Nat /\ fpos \in Nat
    BY ReadTypes DEF CountInv
  <2>2. c \in ReadJob
    BY <1>1, <2>1
  <2> QED
    BY <2>1, <2>2, ReadTypes DEF CountInv
<1>4. \A k \in DOMAIN s : s[k].from \in Nat /\ s[k].used \in Nat /\ JobOK(s[k])
  <2>1. \A k \in DOMAIN s : s[k] \in ReadJob
    BY <1>3
  <2> QED
    BY <1>2, <2>1, ReadTypes DEF CountInv, ReadsComplete
<1>5. /\ \A j \in DOMAIN r : \E k \in DOMAIN s \ {i} : r[j] = s[k]
      /\ \A j, l \in DOMAIN r : j # l =>
           \E k, h \in DOMAIN s \ {i} : k # h /\ r[j] = s[k] /\ r[l] = s[h]
      /\ \A k \in DOMAIN s \ {i} : \E j \in DOMAIN r : r[j] = s[k]
  BY <1>3, SwapOutMap
<1> HIDE DEF r
<1>6. c.used > 0 => c.from = waitingOn /\ waitingOn' <= fpos
  BY <1>1, <1>2, <1>3, <1>4 DEF JobOK
<1>7. ASSUME NEW k \in DOMAIN s \ {i}, s[k].used > 0 PROVE s[k].from >= waitingOn'
  <2>1. s[k].from >= waitingOn
    BY <1>4, <1>7 DEF JobOK
  <2>2. CASE c.used = 0
    BY <1>2, <1>3, <2>1, <2>2
  <2>3. CASE c.used > 0
    <3>1. Apart(c, s[k])
      BY <1>1, <1>2 DEF ReadsComplete
    <3>2. c.from + c.used <= s[k].from \/ s[k].from + s[k].used <= c.from
      BY <1>7, <2>3, <3>1 DEF Apart
    <3> QED
      BY <1>2, <1>3, <1>4, <1>6, <1>7, <2>1, <2>3, <3>2
  <2> QED
    BY <1>3, <2>2, <2>3
<1>8. (\A j \in DOMAIN completed : JobOK(completed[j]))'
  <2>1. SUFFICES ASSUME NEW j \in DOMAIN completed' PROVE JobOK(completed[j])'
    OBVIOUS
  <2>2. PICK k \in DOMAIN s \ {i} : completed'[j] = s[k]
    BY <1>2, <1>5
  <2>3. JobOK(s[k])
    BY <1>4
  <2> QED
    BY <1>2, <1>7, <2>2, <2>3 DEF JobOK
<1>9. ASSUME NEW j \in DOMAIN completed', NEW l \in DOMAIN completed', j # l
      PROVE  Apart(completed'[j], completed'[l])
  <2>1. PICK k \in DOMAIN s \ {i}, h \in DOMAIN s \ {i} :
          k # h /\ completed'[j] = s[k] /\ completed'[l] = s[h]
    BY <1>2, <1>5, <1>9
  <2>2. Apart(s[k], s[h])
    BY <1>2, <2>1 DEF ReadsComplete
  <2> QED
    BY <2>1, <2>2
<1>10. ASSUME NEW x \in waitingOn'..(fpos - 1)
       PROVE  \E j \in DOMAIN completed' : Holding(completed'[j], x)
  <2>1. x \in waitingOn..(fpos - 1)
    BY <1>2, <1>3
  <2>2. PICK k \in DOMAIN s : Holding(s[k], x)
    BY <1>2, <2>1 DEF ReadsComplete
  <2>3. k # i
    <3> SUFFICES ASSUME k = i PROVE FALSE
      OBVIOUS
    <3>1. c.from <= x /\ x < c.from + c.used
      BY <1>1, <2>2 DEF Holding
    <3>2. c.used > 0
      BY <1>3, <2>1, <3>1
    <3> QED
      BY <1>2, <1>3, <1>6, <3>1, <3>2
  <2>4. PICK j \in DOMAIN r : r[j] = s[k]
    BY <1>5, <2>3
  <2> QED
    BY <1>2, <2>2, <2>4
<1>11. waitingOn' <= fpos
  <2>1. CASE c.used = 0
    BY <1>2, <1>3, <2>1 DEF ReadsComplete
  <2> QED
    BY <1>3, <1>6, <2>1
<1>12. ReadsComplete'
  BY <1>2, <1>8, <1>9, <1>10, <1>11 DEF ReadsComplete, Apart, Holding
<1>13. /\ src = Units(pos, pos + Len(src)) /\ src \in Seq(Nat) /\ Len(src) \in Nat /\ pos \in Nat
       /\ waitingOn = pos + Len(src) /\ pos <= file.len
  BY <1>2 DEF SrcInOrder, CountInv, TypeOK, DecoderType
<1>14. src' = Units(pos, waitingOn') /\ Len(src') = Len(src) + c.used
  <2>1. CASE c.used = 0
    <3>1. c.from + c.used = c.from
      BY <1>3, <2>1
    <3>2. src' = src \o <<>>
      BY <1>2, <1>3, <3>1, UnitsNone
    <3>3. src' = src
      BY <1>13, <3>2
    <3> QED
      BY <1>2, <1>3, <1>13, <2>1, <3>3
  <2>2. CASE c.used > 0
    <3> DEFINE t == Units(waitingOn, waitingOn')
    <3>0. waitingOn \in Nat /\ c.used \in Nat /\ waitingOn' = waitingOn + c.used
      BY <1>2, <1>3
    <3>1. waitingOn \in Nat /\ waitingOn' \in Nat /\ waitingOn <= waitingOn' /\ pos <= waitingOn
      BY <3>0, <1>13
    <3>2. src' = src \o t
      BY <1>2, <1>6, <2>2
    <3>3. t \in Seq(Nat) /\ Len(t) = waitingOn' - waitingOn
      BY <3>1, UnitsAre
    <3>4. Units(pos, waitingOn) \o t = Units(pos, waitingOn')
      BY <1>13, <3>1, UnitsJoin
    <3> HIDE DEF t
    <3>5. Len(src') = Len(src) + c.used
      <4>0. src \in Seq(Nat) /\ t \in Seq(Nat)
        BY <1>13, <3>3
      <4>1. Len(src \o t) = Len(src) + Len(t)
        BY <4>0
      <4>2. Len(t) = c.used
        BY <1>2, <1>3, <3>3
      <4> QED
        BY <3>2, <4>1, <4>2
    <3> QED
      BY <1>13, <3>2, <3>4, <3>5
  <2> QED
    BY <1>3, <2>1, <2>2
<1>15. waitingOn' = pos + Len(src')
  BY <1>2, <1>3, <1>13, <1>14
<1>16. SrcInOrder'
  BY <1>2, <1>13, <1>14, <1>15 DEF SrcInOrder
<1> QED
  BY <1>12, <1>16

\* Every step keeps the pieces read in order.
LEMMA NextReads ==
  ASSUME CountInv, ReadsOrdered, ReadsComplete, SrcInOrder, [Next]_vars
  PROVE  ReadsComplete'
<1> USE DEF promise, mainVars, ioVars, readVars, decVars
<1>0. TypeOK /\ ClosedWhenIdle /\ Quiet
  BY DEF CountInv
<1>1. CASE Control
  BY <1>1, SameReads DEF Control, dataVars
<1>2. ASSUME NEW p \in Pool, Pop(p) PROVE ReadsComplete'
  BY <1>2, SameReads DEF Pop, AtEnd
<1>3. CASE ExecuteRead
  <2>1. /\ ~ AtEnd /\ task["read"].offset \in Nat /\ task["read"].offset >= fpos
        /\ IF eof THEN fpos = file.len ELSE fpos = task["read"].offset
    BY <1>0, <1>3, ExecuteReads
  <2>2. ReadInto(task["read"]) /\ UNCHANGED <<file, waitingOn>>
    BY <1>3 DEF ExecuteRead
  <2> QED
    BY <1>0, <2>1, <2>2, ReadAdds
<1>4. CASE ExecuteWrite
  BY <1>4, SameReads DEF ExecuteWrite, AtEnd
<1>5. CASE StartReading \/ FillRelease
  BY <1>5, SameReads DEF StartReading, FillRelease, At, GoTo, AtEnd
<1>6. CASE AddReadQueued
  BY <1>6, SameReads DEF AddReadQueued, At, AtEnd
<1>7. CASE AddReadInline
  <2>1. /\ ~ AtEnd /\ NewRead.offset \in Nat /\ NewRead.offset >= fpos
        /\ IF eof THEN fpos = file.len ELSE fpos = NewRead.offset
    BY <1>0, <1>7, InlineReads
  <2>2. ReadInto(NewRead) /\ UNCHANGED <<file, waitingOn>>
    BY <1>7 DEF AddReadInline
  <2> QED
    BY <1>0, <2>1, <2>2, ReadAdds
<1>8. ASSUME NEW i \in DOMAIN completed, NextJob(i) PROVE ReadsComplete'
  BY <1>8, TakeReads
<1>9. ASSUME NEW n \in 0..InFrame, NEW m \in 0..(pos + n - flushed), DecodeBlock(n, m)
      PROVE  ReadsComplete'
  BY <1>9, SameReads DEF DecodeBlock, At, AtEnd
<1>10. CASE AddWriteQueued \/ AddWriteInline
  BY <1>10, SameReads DEF AddWriteQueued, AddWriteInline, At, AtEnd
<1>11. CASE CloseSrc
  BY <1>11 DEF CloseSrc, ReadsComplete, AtEnd
<1> QED
  BY Kinds, <1>1, <1>2, <1>3, <1>4, <1>5, <1>6, <1>7, <1>8, <1>9, <1>10, <1>11 DEF DataStep

\* Decoding takes what it consumes from the front of the buffer.
LEMMA DecodeTakes ==
  ASSUME TypeOK, ReadsComplete, SrcInOrder, ~ AtEnd, NEW n \in 0..InFrame,
         src' = SubSeq(src, n + 1, Len(src)), pos' = pos + n, UNCHANGED <<file, waitingOn>>
  PROVE  SrcInOrder'
<1>1. /\ src = Units(pos, pos + Len(src)) /\ Len(src) \in Nat /\ pos \in Nat /\ frameEnd \in Nat
      /\ waitingOn = pos + Len(src) /\ waitingOn <= fpos /\ fpos <= file.len
      /\ file.len \in Nat /\ fpos \in Nat
  <2>1. frameEnd \in Nat /\ pos \in Nat /\ src \in Seq(Nat)
    BY FileIs DEF TypeOK, DecoderType
  <2>2. Len(src) \in Nat
    BY <2>1
  <2> QED
    BY <2>1, <2>2, ReadTypes DEF SrcInOrder, ReadsComplete
<1>2. n \in Nat /\ n <= Len(src)
  BY <1>1 DEF InFrame, Least
<1>3. src' = Units(pos + n, pos + Len(src))
  <2>1. pos + Len(src) \in Nat /\ pos <= pos + Len(src) /\ n \in 0..((pos + Len(src)) - pos)
    BY <1>1, <1>2
  <2> DEFINE b == pos + Len(src)
  <2>2. SubSeq(Units(pos, b), n + 1, Len(Units(pos, b))) = Units(pos + n, b)
    BY <1>1, <2>1, UnitsRest
  <2> HIDE DEF b
  <2>3. src = Units(pos, b)
    BY <1>1 DEF b
  <2> QED
    BY <2>2, <2>3 DEF b
<1>4. Len(src') = Len(src) - n
  <2>1. pos + n \in Nat /\ pos + Len(src) \in Nat /\ pos + n <= pos + Len(src)
    BY <1>1, <1>2
  <2>2. Len(Units(pos + n, pos + Len(src))) = (pos + Len(src)) - (pos + n)
    BY <2>1, UnitsAre
  <2>3. Len(src') = (pos + Len(src)) - (pos + n)
    BY <1>3, <2>2
  <2> QED
    BY <1>1, <1>2, <2>3
<1>5. pos' + Len(src') = pos + Len(src) /\ pos' <= file.len
  <2>1. PICK a \in Nat, b \in Nat : a = Len(src) /\ b = Len(src')
    <3>1. Len(src) - n \in Nat
      BY <1>1, <1>2
    <3> QED
      BY <1>1, <1>4, <3>1
  <2>2. b = a - n /\ n <= a /\ pos + a <= file.len
    BY <1>1, <1>2, <1>4, <2>1
  <2>3. pos' + b = pos + a /\ pos' <= file.len
    BY <1>1, <1>2, <2>2
  <2> QED
    BY <2>1, <2>3
<1> QED
  BY <1>1, <1>3, <1>5 DEF SrcInOrder

\* Every step keeps the buffer in order.
LEMMA NextSrc ==
  ASSUME CountInv, ReadsComplete, SrcInOrder, [Next]_vars
  PROVE  SrcInOrder'
<1> USE DEF promise, mainVars, ioVars, readVars, decVars
<1>0. TypeOK
  BY DEF CountInv
<1>s. ASSUME UNCHANGED <<file, src, pos, waitingOn>>, AtEnd => AtEnd' PROVE SrcInOrder'
  BY <1>s DEF SrcInOrder
<1>1. CASE Control
  BY <1>1, <1>s DEF Control, dataVars
<1>2. ASSUME NEW p \in Pool, Pop(p) PROVE SrcInOrder'
  BY <1>2, <1>s DEF Pop, AtEnd
<1>3. CASE ExecuteRead \/ ExecuteWrite
  BY <1>3, <1>s DEF ExecuteRead, ExecuteWrite, AtEnd
<1>4. CASE StartReading \/ FillRelease
  BY <1>4, <1>s DEF StartReading, FillRelease, At, GoTo, AtEnd
<1>5. CASE AddReadQueued \/ AddReadInline
  BY <1>5, <1>s DEF AddReadQueued, AddReadInline, At, AtEnd
<1>6. ASSUME NEW i \in DOMAIN completed, NextJob(i) PROVE SrcInOrder'
  BY <1>6, TakeReads
<1>7. ASSUME NEW n \in 0..InFrame, NEW m \in 0..(pos + n - flushed), DecodeBlock(n, m)
      PROVE  SrcInOrder'
  <2>1. /\ ~ AtEnd /\ src' = SubSeq(src, n + 1, Len(src)) /\ pos' = pos + n
        /\ UNCHANGED <<file, waitingOn>>
    BY <1>7 DEF DecodeBlock, At, AtEnd
  <2> QED
    BY <1>0, <2>1, DecodeTakes
<1>8. CASE AddWriteQueued \/ AddWriteInline
  BY <1>8, <1>s DEF AddWriteQueued, AddWriteInline, At, AtEnd
<1>9. CASE CloseSrc
  <2>1. /\ src' = <<>> /\ pos' = pos /\ file' = file /\ AtEnd' /\ pos \in Nat /\ Len(<<>>) = 0
    BY <1>0, <1>9 DEF CloseSrc, AtEnd, TypeOK, DecoderType
  <2>2. Units(pos, pos) = <<>> /\ pos + Len(<<>>) = pos
    BY <2>1, UnitsNone
  <2> QED
    BY <2>1, <2>2 DEF SrcInOrder
<1> QED
  BY Kinds, <1>1, <1>2, <1>3, <1>4, <1>5, <1>6, <1>7, <1>8, <1>9 DEF DataStep
-----------------------------------------------------------------------------
(* Where a frame ends, and the file                                        *)

\* With its jobs all out main takes one after the other to the end of the file.
LEMMA NextAllOut ==
  ASSUME CountInv, AllOut, [Next]_vars
  PROVE  AllOut'
<1> USE DEF promise, mainVars, ioVars, readVars, decVars
<1>0. TypeOK /\ Places /\ \A p \in Pool : avail[p] \in 0..MaxJobs
  BY DEF CountInv, TypeOK, PoolType
<1>a. ASSUME avail' = avail \/ Take("write") \/ Release("write")
      PROVE  avail'["read"] = avail["read"]
  BY <1>0, <1>a DEF TypeOK, PoolType, Pool, Take, Release
<1>s. ASSUME UNCHANGED <<pc, site>>, avail'["read"] = avail["read"] PROVE AllOut'
  BY <1>s DEF AllOut, AtEnd
<1>t. ASSUME Running, pc \notin {"open", "startReading", "addRead"}, ~ AtEnd,
             avail'["read"] = avail["read"]
      PROVE  AllOut'
  BY <1>t DEF AllOut
<1>e. ASSUME AtEnd' PROVE AllOut'
  BY <1>e DEF AllOut
<1>1. CASE ReadPool
  <2>1. CASE OpenFails
    BY <2>1, <1>e DEF OpenFails, AtEnd
  <2>2. CASE Open
    BY <2>2 DEF Open, AllOut
  <2>3. CASE StartReading
    BY <1>0, <2>3 DEF StartReading, AllOut, At, GoTo, Places
  <2>4. CASE StartDone
    BY <2>4 DEF StartDone, AllOut, At
  <2>5. CASE AddRead
    <3>1. UNCHANGED <<avail, site>> /\ (pc' = AfterAdd \/ pc' = pc) /\ pc = "addRead"
      BY <2>5, AddReadIs DEF AddReadFull, AddReadQueued, AddReadInline, At
    <3> QED
      BY <3>1 DEF AllOut, AfterAdd, AtEnd
  <2>6. CASE Fill \/ FillRelease
    BY <2>6, <1>t DEF Fill, FillRelease, At, AtEnd
  <2>7. CASE NextWait \/ NextNone
    BY <2>7, <1>t DEF NextWait, NextNone, At, AtEnd
  <2>8. ASSUME NEW i \in DOMAIN completed, NextJob(i) PROVE AllOut'
    BY <2>8, <1>t DEF NextJob, At, AtEnd
  <2> QED
    BY <1>1, <2>1, <2>2, <2>3, <2>4, <2>5, <2>6, <2>7, <2>8 DEF ReadPool
<1>2. CASE Frames
  <2>1. avail'["read"] = avail["read"]
    <3>1. CASE AddWrite
      BY <1>a, <3>1, AddWriteIs DEF AddWriteFull, AddWriteQueued, AddWriteInline
    <3>2. CASE NoInput \/ UnknownHeader \/ StartFrame
      BY <1>a, <3>2 DEF NoInput, UnknownHeader, StartFrame
    <3>3. CASE Decode \/ DecodeError \/ Reacquire
      BY <1>a, <3>3 DEF Decode, DecodeBlock, DecodeError, Reacquire
    <3>4. CASE Premature \/ EndFrame \/ JoinFrame \/ JoinWait("write", "joinFrame")
      BY <1>a, <3>4 DEF Premature, EndFrame, JoinFrame, JoinWait
    <3> QED
      BY <1>2, <3>1, <3>2, <3>3, <3>4 DEF Frames
  <2>2. Running /\ pc \notin {"open", "startReading", "addRead"} /\ ~ AtEnd
    BY <1>2 DEF Frames, AddWrite, NoInput, UnknownHeader, StartFrame, Decode, DecodeBlock, DecodeError,
       Reacquire, Premature, EndFrame, JoinFrame, JoinWait, At, AtEnd
  <2> QED
    BY <2>1, <2>2, <1>t
<1>3. CASE Closing
  <2>1. CASE JoinWait("write", "closeDst") \/ JoinWait("read", "closeSrc") \/ CloseDst
    BY <2>1, <1>t DEF JoinWait, CloseDst, At, AtEnd
  <2>2. CASE CloseSrc \/ Shut \/ WakeAll \/ FreeNext
    BY <2>2, <1>e DEF CloseSrc, Shut, WakeAll, FreeNext, At, GoTo, AtEnd
  <2>3. CASE ExitProgram
    BY <2>3, <1>s DEF ExitProgram
  <2> QED
    BY <1>3, <2>1, <2>2, <2>3 DEF Closing
<1>4. ASSUME NEW p \in Pool, Worker(p) PROVE AllOut'
  BY <1>4, <1>s DEF Worker, Pop, PopWait, WorkerExit, JobDone
<1>5. CASE ExecuteRead \/ InputOutputError
  BY <1>5, <1>s DEF ExecuteRead, InputOutputError
<1>6. CASE ExecuteWrite
  BY <1>0, <1>6, <1>s DEF ExecuteWrite, TypeOK, PoolType, Pool
<1>7. ASSUME NEW t \in Thread, Spurious(t) PROVE AllOut'
  BY <1>7, <1>s DEF Spurious
<1>8. CASE UNCHANGED vars
  BY <1>8, <1>s DEF vars
<1> QED
  BY <1>1, <1>2, <1>3, <1>4, <1>5, <1>6, <1>7, <1>8 DEF Next, Gone

\* When nothing more is to come main has taken the whole file.
LEMMA TakenAll ==
  ASSUME CountInv, ReadsOrdered, ReadsComplete, AllOut, NextNone
  PROVE  waitingOn = file.len
<1>1. /\ pc = "next" /\ ~ AtEnd /\ NoMatch /\ InFlight = 0
  BY DEF NextNone, At, AtEnd
<1>2. avail["read"] = 0 /\ HeldCount = 0
  BY <1>1 DEF AllOut, CountInv, Places, HeldCount, Filling
<1>3. Len(completed) = MaxJobs /\ 1 \in DOMAIN completed /\ completed \in Seq(ReadJob)
  <2>1. completed \in Seq(ReadJob) /\ Len(completed) \in Nat /\ MaxJobs \in Nat /\ MaxJobs >= 2
    BY Numbers, ReadTypes DEF CountInv
  <2>2. Len(completed) = MaxJobs
    BY <1>1, <1>2, <2>1 DEF InFlight
  <2> QED
    BY <2>1, <2>2
<1>4. /\ fpos \in Nat /\ waitingOn \in Nat /\ BufSize \in Nat /\ BufSize >= 1
      /\ \A i \in DOMAIN completed : /\ completed[i].from \in Nat /\ completed[i].used \in Nat
                                     /\ JobOK(completed[i])
  <2>1. \A i \in DOMAIN completed : completed[i] \in ReadJob
    BY <1>3
  <2> QED
    BY <1>1, <2>1, ReadTypes DEF CountInv, ReadsComplete
<1>5. waitingOn = fpos
  <2> SUFFICES ASSUME waitingOn < fpos PROVE FALSE
    BY <1>1, <1>4 DEF ReadsComplete
  <2>1. waitingOn \in waitingOn..(fpos - 1)
    BY <1>4
  <2>2. PICK i \in DOMAIN completed : Holding(completed[i], waitingOn)
    BY <1>1, <2>1 DEF ReadsComplete
  <2>3. completed[i].offset = waitingOn
    BY <1>4, <2>2 DEF Holding, JobOK
  <2> QED
    BY <1>1, <2>3 DEF NoMatch
<1>6. completed[1].used = 0
  BY <1>3, <1>4, <1>5 DEF JobOK
<1>7. eof
  BY <1>3, <1>4, <1>6 DEF JobOK
<1> QED
  BY <1>1, <1>5, <1>7 DEF ReadsOrdered

\* A job that got nothing was read at the end of the file.
LEMMA TakenLast ==
  ASSUME CountInv, ReadsComplete, NEW i \in DOMAIN completed, NextJob(i), completed[i].used = 0
  PROVE  waitingOn = file.len
<1>1. ~ AtEnd /\ completed[i].offset = waitingOn
  BY DEF NextJob, Matches, At, AtEnd
<1>2. completed[i].offset >= file.len /\ waitingOn <= fpos
  BY <1>1 DEF ReadsComplete, JobOK
<1> QED
  BY <1>1, <1>2, ReadTypes DEF CountInv

\* The types the frames need.
LEMMA FrameTypes ==
  ASSUME TypeOK
  PROVE  /\ pos \in Nat /\ flushed \in Nat /\ flushed <= pos /\ frameEnd \in Nat
         /\ some \in BOOLEAN /\ result \in {0, 1} /\ need \in Nat
         /\ src \in Seq(Nat) /\ Len(src) \in Nat
         /\ file.len \in Nat /\ file.ends \subseteq 1..file.len /\ file.bad \subseteq 1..file.len
         /\ MagicSize \in Nat /\ MagicSize >= 1
<1>1. file.len \in Nat /\ file.ends \subseteq 1..file.len /\ file.bad \subseteq 1..file.len
  BY FileIs
<1> QED
  BY <1>1, PipeAssumption DEF PipeAssumption, TypeOK, DecoderType

LEMMA SameFrames ==
  ASSUME FramesOK, UNCHANGED <<file, src, pc, site, pos, frameEnd, flushed, need, some, result>>
  PROVE  FramesOK'
BY DEF FramesOK, Between, Within, Handing, Leaving, Filling, AtEnd, Intact

\* Main turns elsewhere in the same frame, or between the same two.
LEMMA SameFrame ==
  ASSUME FramesOK, UNCHANGED <<file, pos, frameEnd, flushed, need, some, result>>,
         pc' \notin {"addWrite", "reacquire", "endFrame"},
         Between' => Between, Within' => Within, Leaving' <=> Leaving,
         pc = "premature" => pc' = "premature",
         pc' = "magic" /\ src' = <<>> => pos = file.len
  PROVE  FramesOK'
<1>1. /\ result = 0 => \A i \in 1..pos : i \notin file.bad
      /\ pc # "premature" /\ ~ Leaving => result = 0
      /\ some /\ ~ Leaving => frameEnd \in file.ends \/ frameEnd = file.len + 1
      /\ Leaving /\ result = 0 => Intact(file) /\ flushed = file.len
      /\ Between => flushed = pos /\ pos = IF some THEN frameEnd ELSE 0
      /\ Within => pos < frameEnd /\ some
  BY DEF FramesOK
<1>2. ~ Handing' /\ Intact(file)' = Intact(file)
  BY DEF Handing, Intact
<1> QED
  BY <1>1, <1>2 DEF FramesOK

\* Main has given up on the file, or gives up what it had left of it.
LEMMA GivesUp ==
  ASSUME FramesOK, UNCHANGED <<file, pos>>, result' = 1, Leaving'
  PROVE  FramesOK'
BY DEF FramesOK, Between, Within, Handing, Leaving, Filling, AtEnd

\* The result can only get worse.
LEMMA LeavesFrames ==
  ASSUME FramesOK, UNCHANGED <<file, pos, flushed>>, result' \in {result, 1}, Leaving, Leaving'
  PROVE  FramesOK'
BY DEF FramesOK, Between, Within, Handing, Leaving, Filling, AtEnd, Intact

\* Reading moves main between no two frames.
LEMMA ReadFrames ==
  ASSUME CountInv, OrderInv, AllOut, FramesOK, ReadPool
  PROVE  FramesOK'
<1> USE DEF promise, mainVars, ioVars, readVars, decVars
<1> DEFINE places == {"open", "startReading", "addRead", "fill", "next"}
<1>0. TypeOK /\ Places /\ ReadsOrdered /\ ReadsComplete /\ SrcInOrder
  BY DEF CountInv, OrderInv
<1>1. CASE OpenFails
  BY <1>1, GivesUp DEF OpenFails, Leaving, AtEnd
<1>2. CASE Open \/ StartReading \/ StartDone
  <2>1. /\ UNCHANGED <<file, pos, frameEnd, flushed, need, some, result>>
        /\ pc \in {"open", "startReading"}
        /\ \/ pc' = "startReading"
           \/ pc' = "addRead" /\ site' = "start"
           \/ pc' = "fill" /\ site' = "magic"
    BY <1>0, <1>2 DEF Open, StartReading, StartDone, At, GoTo, Places
  <2> QED
    BY <2>1, SameFrame DEF Between, Within, Leaving, Filling, AtEnd
<1>3. CASE AddRead
  <2>1. CASE AddReadFull
    BY <2>1, SameFrames DEF AddReadFull
  <2>2. CASE AddReadQueued \/ AddReadInline
    <3>1. /\ UNCHANGED <<file, pos, frameEnd, flushed, need, some, result, site>>
          /\ pc = "addRead" /\ pc' = AfterAdd
      BY <2>2 DEF AddReadQueued, AddReadInline, At
    <3>2. Between' => Between
      BY <3>1 DEF Between, Filling, AfterAdd
    <3>3. (Within' => Within) /\ pc' \in {"startReading", "next"}
      BY <3>1 DEF Within, Filling, AfterAdd
    <3> QED
      BY <3>1, <3>2, <3>3, SameFrame DEF Leaving, AtEnd
  <2> QED
    BY <1>3, <2>1, <2>2, AddReadIs
<1>4. CASE Fill
  <2>1. /\ UNCHANGED <<file, src, pos, frameEnd, flushed, need, some, result, site>>
        /\ pc = "fill" /\ site \in {"magic", "header", "refill"}
        /\ pc' = "next" \/ (pc' = Filled /\ Len(src) >= Wanted)
    BY <1>0, <1>4 DEF Fill, At, GoTo, Places, Filling
  <2>2. pc' = "magic" => src # <<>>
    <3>1. pc' = "magic" => Len(src) >= MagicSize
      BY <2>1 DEF Filled, Wanted
    <3>2. Len(<<>>) = 0 /\ MagicSize >= 1 /\ MagicSize \in Nat
      BY <1>0, FrameTypes
    <3> QED
      BY <3>1, <3>2
  <2>3. (Between' => Between) /\ (Within' => Within) /\ pc' \in {"next", "magic", "decode"}
    BY <2>1 DEF Between, Within, Filling, Filled
  <2> QED
    BY <2>1, <2>2, <2>3, SameFrame DEF Leaving, AtEnd
<1>5. CASE FillRelease
  <2>1. /\ UNCHANGED <<file, pos, frameEnd, flushed, need, some, result, site>>
        /\ pc = "fill" /\ pc' = "addRead"
    BY <1>5 DEF FillRelease, At, GoTo
  <2> QED
    BY <2>1, SameFrame DEF Between, Within, Leaving, Filling, AtEnd
<1>6. ASSUME NEW i \in DOMAIN completed, NextJob(i) PROVE FramesOK'
  <2>1. /\ UNCHANGED <<file, pos, frameEnd, flushed, need, some, result, site>>
        /\ pc = "next" /\ site \in {"magic", "header", "refill"}
        /\ pc' = IF completed[i].used = 0 THEN NoMore ELSE Filled
        /\ waitingOn' = waitingOn + completed[i].used
    BY <1>0, <1>6 DEF NextJob, At, GoTo, Places, Filling
  <2>2. pc' = "magic" /\ src' = <<>> => pos = file.len
    <3>1. SUFFICES ASSUME src' = <<>> PROVE pos = file.len
      OBVIOUS
    <3>2. SrcInOrder' /\ ~ AtEnd'
      BY <1>0, <1>6, <2>1, TakeReads DEF AtEnd, NoMore, Filled
    <3>3. waitingOn' = pos /\ pos \in Nat /\ waitingOn \in Nat
      BY <1>0, <2>1, <3>1, <3>2, FrameTypes, ReadTypes DEF SrcInOrder
    <3>4. waitingOn = pos + Len(src) /\ Len(src) \in Nat
      BY <1>0, <2>1, FrameTypes DEF SrcInOrder, AtEnd
    <3>5. completed[i].used = 0
      <4>1. completed[i].used \in Nat
        BY <1>0, ReadTypes
      <4> QED
        BY <2>1, <3>3, <3>4, <4>1
    <3> QED
      BY <1>0, <1>6, <2>1, <3>3, <3>5, TakenLast
  <2>3. /\ (Between' => Between) /\ (Within' => Within)
        /\ pc' \in {"magic", "decode", "premature"}
    BY <2>1 DEF Between, Within, Filling, Filled, NoMore
  <2> QED
    BY <2>1, <2>2, <2>3, SameFrame DEF Leaving, AtEnd
<1>7. CASE NextNone
  <2>1. /\ UNCHANGED <<file, src, pos, frameEnd, flushed, need, some, result, site>>
        /\ pc = "next" /\ site \in {"magic", "header", "refill"} /\ pc' = NoMore
    BY <1>0, <1>7 DEF NextNone, At, GoTo, Places, Filling
  <2>2. src' = <<>> => pos = file.len
    <3>1. waitingOn = file.len /\ waitingOn = pos + Len(src)
      BY <1>0, <1>7, <2>1, TakenAll DEF SrcInOrder, AtEnd
    <3>2. Len(<<>>) = 0 /\ pos \in Nat
      BY <1>0, FrameTypes
    <3> QED
      BY <2>1, <3>1, <3>2
  <2>3. /\ (Between' => Between) /\ (Within' => Within)
        /\ pc' \in {"magic", "decode", "premature"}
    BY <2>1 DEF Between, Within, Filling, Filled, NoMore
  <2> QED
    BY <2>1, <2>2, <2>3, SameFrame DEF Leaving, AtEnd
<1>8. CASE NextWait
  BY <1>8, SameFrames DEF NextWait
<1> QED
  BY <1>1, <1>2, <1>3, <1>4, <1>5, <1>6, <1>7, <1>8 DEF ReadPool

\* A file whose last frame has just ended, with no damage met, is intact.
LEMMA EndsIntact ==
  ASSUME TypeOK, FramesOK, pc = "magic", src = <<>>, some
  PROVE  Intact(file) /\ flushed = file.len
<1>1. pos = file.len /\ flushed = pos /\ pos = frameEnd /\ result = 0
  BY DEF FramesOK, Between, Leaving, AtEnd
<1>2. file.len \in Nat /\ file.bad \subseteq 1..file.len
  BY FrameTypes
<1>3. file.len \in file.ends
  BY <1>1, <1>2 DEF FramesOK, Leaving, AtEnd
<1>4. file.bad = {}
  BY <1>1, <1>2 DEF FramesOK
<1> QED
  BY <1>1, <1>3, <1>4 DEF Intact

\* The decoder consumes undamaged units of one frame.
LEMMA DecodeFrames ==
  ASSUME CountInv, SrcInOrder, FramesOK,
         NEW n \in 0..InFrame, NEW m \in 0..(pos + n - flushed), DecodeBlock(n, m)
  PROVE  FramesOK'
<1> USE DEF promise, mainVars, ioVars, readVars, decVars
<1>0. TypeOK
  BY DEF CountInv
<1>1. /\ UNCHANGED <<file, frameEnd, some, result>> /\ pc = "decode" /\ pc' = "addWrite"
      /\ pos' = pos + n /\ (n = frameEnd - pos => flushed' = frameEnd)
      /\ \A i \in 1..n : src[i] \notin file.bad
      /\ IF pos' = frameEnd THEN need' = 0 ELSE need' \in 1..Least(BufSize, frameEnd - pos')
  BY DEF DecodeBlock, At, GoTo
<1>2. /\ pos \in Nat /\ frameEnd \in Nat /\ n \in Nat /\ pos < frameEnd /\ n <= frameEnd - pos
      /\ n <= Len(src) /\ Len(src) \in Nat
  <2>1. pos < frameEnd
    BY <1>1 DEF FramesOK, Within
  <2> QED
    BY <1>0, <2>1, FrameTypes DEF InFrame, Least
<1>3. result = 0 /\ some /\ (frameEnd \in file.ends \/ frameEnd = file.len + 1)
  BY <1>1 DEF FramesOK, Within, Leaving, AtEnd
<1>4. \A i \in 1..pos' : i \notin file.bad
  <2> SUFFICES ASSUME NEW i \in 1..pos' PROVE i \notin file.bad
    OBVIOUS
  <2>1. CASE i <= pos
    BY <1>2, <1>3, <2>1 DEF FramesOK
  <2>2. CASE ~ (i <= pos)
    <3>1. i - pos \in 1..n /\ i - pos \in 1..Len(src) /\ pos + (i - pos) = i
      BY <1>1, <1>2, <2>2
    <3>2. src[i - pos] = pos + (i - pos)
      <4>1. src = Units(pos, pos + Len(src)) /\ (pos + Len(src)) - pos = Len(src)
            /\ pos + Len(src) \in Nat /\ pos <= pos + Len(src)
        BY <1>2 DEF SrcInOrder
      <4>2. \A k \in 1..((pos + Len(src)) - pos) : Units(pos, pos + Len(src))[k] = pos + k
        BY <1>2, <4>1, UnitsAre
      <4> QED
        BY <3>1, <4>1, <4>2
    <3> QED
      BY <1>1, <3>1, <3>2
  <2> QED
    BY <2>1, <2>2
<1>5. IF need' = 0 THEN flushed' = pos' /\ pos' = frameEnd ELSE pos' < frameEnd
  <2>1. CASE pos' = frameEnd
    BY <1>1, <1>2, <2>1
  <2>2. CASE pos' # frameEnd
    BY <1>1, <1>2, <2>2
  <2> QED
    BY <2>1, <2>2
<1>6. Handing' /\ ~ Between' /\ ~ Within' /\ ~ Leaving' /\ pc' # "magic" /\ pc' # "endFrame"
  BY <1>1 DEF Handing, Between, Within, Leaving, Filling, AtEnd
<1> QED
  BY <1>1, <1>3, <1>4, <1>5, <1>6 DEF FramesOK

\* Frames follow each other without a gap.
LEMMA FrameFrames ==
  ASSUME CountInv, OrderInv, FramesOK, Frames
  PROVE  FramesOK'
<1> USE DEF promise, mainVars, ioVars, readVars, decVars
<1>0. TypeOK /\ SrcInOrder
  BY DEF CountInv, OrderInv
<1>1. CASE NoInput
  <2>1. CASE some
    <3>1. /\ UNCHANGED <<file, pos, flushed, result>> /\ pc = "magic" /\ src = <<>>
          /\ pc' = "closeDst"
      BY <1>1, <2>1 DEF NoInput, At, GoTo
    <3>2. Intact(file) /\ flushed = file.len
      BY <1>0, <2>1, <3>1, EndsIntact
    <3>3. \A i \in 1..pos : i \notin file.bad
      BY <3>1 DEF FramesOK, Leaving, AtEnd
    <3>4. Leaving' /\ ~ Between' /\ ~ Within' /\ ~ Handing'
      BY <3>1 DEF Between, Within, Handing, Leaving, Filling, AtEnd
    <3>5. Intact(file)' = Intact(file)
      BY <3>1 DEF Intact
    <3> QED
      BY <3>1, <3>2, <3>3, <3>4, <3>5 DEF FramesOK
  <2>2. CASE ~ some
    BY <1>1, <2>2, GivesUp DEF NoInput, Reject, GoTo, Leaving
  <2> QED
    BY <2>1, <2>2
<1>2. CASE UnknownHeader
  BY <1>2, GivesUp DEF UnknownHeader, Reject, GoTo, Leaving
<1>3. CASE StartFrame
  <2>1. /\ UNCHANGED <<file, src, pos, flushed, result>> /\ pc = "magic" /\ some'
        /\ pc' = "fill" /\ site' = "header" /\ EndsAt(pos, frameEnd') /\ frameEnd' \in Nat
    BY <1>0, <1>3, FrameTypes DEF StartFrame, At
  <2>2. /\ pos \in Nat /\ pos <= file.len /\ file.len \in Nat
        /\ result = 0 /\ \A i \in 1..pos : i \notin file.bad
    BY <1>0, <2>1, FrameTypes DEF SrcInOrder, FramesOK, Leaving, AtEnd
  <2>3. pos < frameEnd' /\ (frameEnd' \in file.ends \/ frameEnd' = file.len + 1)
    BY <2>1, <2>2 DEF EndsAt
  <2>4. Within' /\ ~ Between' /\ ~ Handing' /\ ~ Leaving'
    BY <2>1 DEF Between, Within, Handing, Leaving, Filling, AtEnd
  <2> QED
    BY <2>1, <2>2, <2>3, <2>4 DEF FramesOK
<1>4. CASE Decode
  BY <1>0, <1>4, DecodeFrames DEF Decode
<1>5. CASE DecodeError \/ Premature
  BY <1>5, GivesUp DEF DecodeError, Premature, Reject, GoTo, Leaving
<1>6. CASE AddWrite
  <2>1. CASE AddWriteFull
    BY <2>1, SameFrames DEF AddWriteFull
  <2>2. CASE AddWriteQueued \/ AddWriteInline
    <3>1. /\ UNCHANGED <<file, src, pos, frameEnd, flushed, need, some, result>>
          /\ pc = "addWrite" /\ pc' = "reacquire"
      BY <2>2 DEF AddWriteQueued, AddWriteInline, At
    <3>2. /\ Handing /\ Handing' /\ ~ Between' /\ ~ Within' /\ ~ Leaving' /\ ~ Leaving
      BY <3>1 DEF Between, Within, Handing, Leaving, Filling, AtEnd
    <3> QED
      BY <3>1, <3>2 DEF FramesOK
  <2> QED
    BY <1>6, <2>1, <2>2, AddWriteIs
<1>7. CASE Reacquire
  <2>1. /\ UNCHANGED <<file, src, pos, frameEnd, flushed, need, some, result>> /\ pc = "reacquire"
        /\ \/ need = 0 /\ pc' = "endFrame"
           \/ need > 0 /\ (pc' = "decode" \/ (pc' = "fill" /\ site' = "refill"))
    BY <1>7 DEF Reacquire, At, GoTo
  <2>2. /\ Handing /\ ~ Leaving /\ ~ Leaving' /\ ~ Handing'
        /\ (Between' => pc' = "endFrame") /\ (Within' => pc' # "endFrame")
    BY <2>1 DEF Between, Within, Handing, Leaving, Filling, AtEnd
  <2>3. need \in Nat /\ some /\ (need = 0 => flushed = pos /\ pos = frameEnd)
        /\ (need # 0 => pos < frameEnd)
    BY <1>0, <2>2, FrameTypes DEF FramesOK
  <2>4. (Between' => need = 0) /\ (Within' => need # 0) /\ pc' # "magic" /\ pc' # "premature"
    BY <2>1, <2>2, <2>3
  <2>5. result = 0 /\ \A i \in 1..pos : i \notin file.bad
    BY <2>1, <2>2 DEF FramesOK
  <2>6. frameEnd \in file.ends \/ frameEnd = file.len + 1
    BY <2>2, <2>3 DEF FramesOK
  <2> QED
    BY <2>1, <2>2, <2>3, <2>4, <2>5, <2>6 DEF FramesOK
<1>8. CASE EndFrame \/ JoinFrame
  <2>1. /\ UNCHANGED <<file, src, pos, frameEnd, flushed, need, some, result>>
        /\ \/ pc = "endFrame" /\ pc' = "joinFrame"
           \/ pc = "joinFrame" /\ pc' = "fill" /\ site' = "magic"
    BY <1>8 DEF EndFrame, JoinFrame, At, GoTo
  <2> QED
    BY <2>1, SameFrame DEF Between, Within, Leaving, Filling, AtEnd
<1>9. CASE JoinWait("write", "joinFrame")
  BY <1>9, SameFrames DEF JoinWait
<1> QED
  BY <1>1, <1>2, <1>3, <1>4, <1>5, <1>6, <1>7, <1>8, <1>9 DEF Frames

\* Every step keeps what is known of frames and of the file's end.
LEMMA NextFrames ==
  ASSUME CountInv, OrderInv, AllOut, FramesOK, [Next]_vars
  PROVE  FramesOK'
<1> USE DEF promise, mainVars, ioVars, readVars, decVars
<1>1. CASE Closing
  <2>1. CASE JoinWait("write", "closeDst") \/ JoinWait("read", "closeSrc") \/ ExitProgram
    BY <2>1, SameFrames DEF JoinWait, ExitProgram
  <2>2. CASE CloseDst \/ CloseSrc
    BY <2>2, LeavesFrames DEF CloseDst, CloseSrc, At, GoTo, Leaving, AtEnd
  <2>3. CASE Shut \/ WakeAll \/ FreeNext
    BY <2>3, LeavesFrames DEF Shut, WakeAll, FreeNext, At, GoTo, Leaving, AtEnd
  <2> QED
    BY <1>1, <2>1, <2>2, <2>3 DEF Closing
<1>2. ASSUME NEW p \in Pool, Worker(p) PROVE FramesOK'
  BY <1>2, SameFrames DEF Worker, Pop, PopWait, WorkerExit, JobDone
<1>3. CASE ExecuteRead \/ ExecuteWrite
  BY <1>3, SameFrames DEF ExecuteRead, ExecuteWrite
<1>4. CASE InputOutputError
  BY <1>4, SameFrames DEF InputOutputError, Die
<1>5. ASSUME NEW t \in Thread, Spurious(t) PROVE FramesOK'
  BY <1>5, SameFrames DEF Spurious
<1>6. CASE UNCHANGED vars
  BY <1>6, SameFrames DEF vars
<1> QED
  BY <1>1, <1>2, <1>3, <1>4, <1>5, <1>6, ReadFrames, FrameFrames DEF Next, Gone

\* Nothing is read, decoded or written when the program starts.
LEMMA InitOrder ==
  ASSUME Init
  PROVE  OrderInv /\ AllOut /\ FramesOK
<1> USE DEF Init, PromiseInit
<1>0. TypeOK /\ Len(<<>>) = 0 /\ Units(0, 0) = <<>>
  BY InitCount, UnitsNone DEF CountInv
<1>1. file.len \in Nat /\ BufSize \in Nat
  BY <1>0, FrameTypes, ReadTypes
<1>2. ReadsOrdered
  BY DEF ReadsOrdered, Numbered, NextOff, QueueOff, Reading, ReadQ, AtEnd, Pool
<1>3. ReadsComplete
  BY DEF ReadsComplete
<1>4. SrcInOrder
  BY <1>0, <1>1 DEF SrcInOrder
<1>5. WritesOrdered
  BY <1>0 DEF WritesOrdered, NextFrom, QueuedFrom, Writing, WriteQ, Pool, Nothing, Empty
<1>6. AllOut
  BY DEF AllOut
<1>7. FramesOK
  BY DEF FramesOK, Between, Within, Handing, Leaving, Filling, AtEnd
<1> QED
  BY <1>2, <1>3, <1>4, <1>5, <1>6, <1>7 DEF OrderInv

LEMMA NextIInv ==
  ASSUME IInv, [Next]_vars
  PROVE  IInv'
<1>1. CountInv'
  BY NextCount DEF IInv
<1>2. ReadsOrdered' /\ ReadsComplete' /\ SrcInOrder' /\ WritesOrdered'
  BY NextOrder, NextReads, NextSrc, NextWrites DEF IInv, OrderInv
<1>3. AllOut' /\ FramesOK'
  BY NextAllOut, NextFrames DEF IInv
<1> QED
  BY <1>1, <1>2, <1>3 DEF IInv, OrderInv

\* The whole invariant holds of every execution.
THEOREM Inductive == Spec => []IInv
<1>1. Init => IInv
  BY InitCount, InitOrder DEF IInv
<1>2. IInv /\ [Next]_vars => IInv'
  BY NextIInv
<1> QED
  BY <1>1, <1>2, PTL DEF Spec

\* The jobs to be written, in the order of Pending, join without a gap.
LEMMA PendingJoins ==
  ASSUME TypeOK, WritesOrdered
  PROVE  /\ Pending[1].from = NextFrom
         /\ \A i \in 1..(Len(Pending) - 1) : Pending[i].to = Pending[i + 1].from
<1> DEFINE q == WriteQ
           w == IF Writing THEN <<task["write"]>> ELSE <<>>
           a == w \o q
<1>1. q \in Seq(Block) /\ block \in Block /\ (Writing => task["write"] \in Block)
  BY WriteTypes
<1>2. w \in Seq(Block) /\ Pending = a \o <<block>>
  BY <1>1 DEF Pending, WriteQ, Writing
<1>3. /\ a \in Seq(Block) /\ Len(a) = Len(w) + Len(q)
      /\ \A i \in 1..Len(w) : a[i] = w[i]
      /\ \A i \in 1..Len(q) : a[Len(w) + i] = q[i]
  <2> HIDE DEF w, q
  <2> QED
    BY <1>1, <1>2
<1>4. /\ Len(Pending) = Len(a) + 1 /\ Pending[Len(a) + 1] = block
      /\ \A i \in 1..Len(a) : Pending[i] = a[i]
  <2> HIDE DEF a
  <2> QED
    BY <1>1, <1>2, <1>3
<1>5. CASE Writing
  <2>1. w = <<task["write"]>> /\ Len(w) = 1 /\ w[1] = task["write"]
    BY <1>5
  <2> HIDE DEF w, a
  <2>2. Pending[1] = task["write"] /\ Len(q) \in Nat /\ Len(Pending) = Len(q) + 2
    BY <1>1, <1>3, <1>4, <2>1
  <2>3. \A i \in 1..Len(q) : Pending[i + 1] = q[i]
    <3> SUFFICES ASSUME NEW i \in 1..Len(q) PROVE Pending[i + 1] = q[i]
      OBVIOUS
    <3>1. i + 1 \in 1..Len(a) /\ a[1 + i] = q[i] /\ 1 + i = i + 1
      BY <1>3, <2>1, <2>2
    <3> QED
      BY <1>4, <3>1
  <2>4. Pending[Len(q) + 2] = block
    BY <1>3, <1>4, <2>1, <2>2
  <2>5. ASSUME NEW i \in 1..(Len(Pending) - 1) PROVE Pending[i].to = Pending[i + 1].from
    <3>1. CASE i = 1 /\ Len(q) = 0
      <4>1. q = <<>> /\ Pending[i + 1] = block
        BY <1>1, <2>4, <3>1
      <4> QED
        BY <1>5, <2>2, <3>1, <4>1 DEF WritesOrdered, QueuedFrom
    <3>2. CASE i = 1 /\ Len(q) > 0
      <4>1. q # <<>> /\ 1 \in 1..Len(q) /\ i + 1 = 1 + 1
        BY <2>2, <3>2
      <4>2. Pending[i + 1] = q[1]
        BY <2>3, <4>1
      <4> QED
        BY <1>5, <2>2, <3>2, <4>1, <4>2 DEF WritesOrdered, QueuedFrom
    <3>3. CASE i > 1 /\ i = Len(q) + 1
      <4>1. q # <<>> /\ Len(q) \in 1..Len(q) /\ i + 1 = Len(q) + 2
        BY <2>2, <3>3
      <4>2. Pending[i] = q[Len(q)] /\ Pending[i + 1] = block
        BY <2>3, <2>4, <3>3, <4>1
      <4> QED
        BY <4>1, <4>2 DEF WritesOrdered
    <3>4. CASE i > 1 /\ i < Len(q) + 1
      <4>1. PICK k \in 1..(Len(q) - 1) : i = k + 1
        BY <2>2, <3>4
      <4>2. k \in 1..Len(q) /\ k + 1 \in 1..Len(q)
        BY <2>2, <4>1
      <4>3. Pending[i] = q[k] /\ Pending[i + 1] = q[k + 1]
        BY <2>3, <4>1, <4>2
      <4> QED
        BY <4>1, <4>3 DEF WritesOrdered
    <3> QED
      BY <2>2, <3>1, <3>2, <3>3, <3>4
  <2>6. Pending[1].from = NextFrom
    BY <1>5, <2>2 DEF NextFrom
  <2> QED
    BY <2>5, <2>6
<1>6. CASE ~ Writing
  <2>1. w = <<>> /\ Len(w) = 0
    BY <1>6
  <2> HIDE DEF w, a
  <2>2. Len(q) \in Nat /\ Len(Pending) = Len(q) + 1 /\ Pending[Len(q) + 1] = block
    BY <1>1, <1>3, <1>4, <2>1
  <2>3. \A i \in 1..Len(q) : Pending[i] = q[i]
    BY <1>3, <1>4, <2>1, <2>2
  <2>4. ASSUME NEW i \in 1..(Len(Pending) - 1) PROVE Pending[i].to = Pending[i + 1].from
    <3>1. i \in 1..Len(q) /\ Pending[i] = q[i]
      BY <2>2, <2>3
    <3>2. CASE i = Len(q)
      <4>1. q # <<>>
        BY <2>2, <3>1
      <4> QED
        BY <2>2, <3>1, <3>2, <4>1 DEF WritesOrdered
    <3>3. CASE i # Len(q)
      <4>1. i \in 1..(Len(q) - 1) /\ i + 1 \in 1..Len(q)
        BY <2>2, <3>1, <3>3
      <4> QED
        BY <2>3, <3>1, <4>1 DEF WritesOrdered
    <3> QED
      BY <3>2, <3>3
  <2>5. Pending[1].from = NextFrom
    <3>1. CASE q = <<>>
      <4>1. Pending[1] = block
        BY <2>2, <3>1
      <4> QED
        BY <1>6, <3>1, <4>1 DEF NextFrom, QueuedFrom
    <3>2. CASE q # <<>>
      <4>1. 1 \in 1..Len(q)
        BY <1>1, <3>2
      <4>2. Pending[1] = q[1]
        BY <2>3, <4>1
      <4> QED
        BY <1>6, <3>2, <4>2 DEF NextFrom, QueuedFrom
    <3> QED
      BY <3>1, <3>2
  <2> QED
    BY <2>4, <2>5
<1> QED
  BY <1>5, <1>6

\* The decoder gets every byte of the file once and in order, and so does
\* standard output of what it puts out: for every file and every order of
\* the threads.
THEOREM NothingIsLost == Spec => []NothingLost
<1>1. ASSUME IInv PROVE NothingLost
  <2>1. TypeOK /\ SrcInOrder /\ WritesOrdered
    BY <1>1 DEF IInv, CountInv, OrderInv
  <2>2. out = Units(0, NextFrom) /\ block.to = flushed
    BY <2>1 DEF WritesOrdered
  <2> QED
    BY <2>1, <2>2, PendingJoins DEF NothingLost, SrcInOrder
<1> QED
  BY <1>1, Inductive, PTL

-----------------------------------------------------------------------------
(* The promise                                                             *)

\* Nothing is to be written that is not in the file.
WritesInside ==
  /\ Writing => task["write"].to <= file.len
  /\ \A i \in DOMAIN WriteQ : WriteQ[i].to <= file.len

\* Every step keeps the writes inside the file.
LEMMA NextInside ==
  ASSUME IInv, WritesInside, [Next]_vars
  PROVE  WritesInside'
<1> USE DEF promise, mainVars, ioVars, readVars, decVars
<1>0. TypeOK /\ CountInv /\ SrcInOrder /\ WritesOrdered
  BY DEF IInv, CountInv, OrderInv
<1>s. ASSUME file' = file, WriteQ' = WriteQ, Writing' => Writing,
             Writing => task'["write"] = task["write"]
      PROVE  WritesInside'
  BY <1>s DEF WritesInside
<1>1. CASE Control
  BY <1>1, <1>s DEF Control, dataVars, WriteQ
<1>2. ASSUME NEW p \in Pool, Pop(p) PROVE WritesInside'
  <2>1. CASE p = "write"
    <3> DEFINE q == WriteQ
    <3>1. /\ q \in Seq(Block) /\ q # <<>> /\ WriteQ' = Tail(q) /\ task'["write"] = q[1] /\ file' = file
      BY <1>0, <1>2, <2>1, WriteTypes DEF Pop, Free, WriteQ, TypeOK, PoolType, Pool
    <3>2. /\ 1 \in DOMAIN q /\ DOMAIN Tail(q) = 1..(Len(q) - 1)
          /\ \A i \in 1..(Len(q) - 1) : i + 1 \in DOMAIN q /\ Tail(q)[i] = q[i + 1]
      BY <3>1
    <3> QED
      BY <3>1, <3>2 DEF WritesInside
  <2>2. CASE p = "read"
    <3>1. /\ queue'["write"] = queue["write"] /\ worker'["write"] = worker["write"]
          /\ task'["write"] = task["write"] /\ file' = file
      BY <1>0, <1>2, <2>2 DEF Pop, TypeOK, PoolType, Pool
    <3> QED
      BY <3>1, <1>s DEF WriteQ, Writing
  <2> QED
    BY <2>1, <2>2 DEF Pool
<1>3. CASE ExecuteRead
  <2>1. /\ UNCHANGED <<queue, task, file>> /\ worker'["write"] = worker["write"]
    BY <1>0, <1>3 DEF ExecuteRead, TypeOK, PoolType, Pool
  <2> QED
    BY <2>1, <1>s DEF WriteQ, Writing
<1>4. CASE ExecuteWrite
  <2>1. UNCHANGED <<queue, task, file>> /\ ~ Writing'
    BY <1>0, <1>4 DEF ExecuteWrite, Writing, TypeOK, PoolType, Pool
  <2> QED
    BY <2>1, <1>s DEF WriteQ
<1>5. CASE StartReading \/ FillRelease \/ AddReadInline \/ CloseSrc
  BY <1>5, <1>s DEF StartReading, FillRelease, AddReadInline, CloseSrc, WriteQ, Writing
<1>6. CASE AddReadQueued
  <2>1. UNCHANGED <<task, worker, file>> /\ queue'["write"] = queue["write"]
    BY <1>0, <1>6 DEF AddReadQueued, TypeOK, PoolType, Pool
  <2> QED
    BY <2>1, <1>s DEF WriteQ, Writing
<1>7. ASSUME NEW i \in DOMAIN completed, NextJob(i) PROVE WritesInside'
  BY <1>7, <1>s DEF NextJob, WriteQ, Writing
<1>8. ASSUME NEW n \in 0..InFrame, NEW m \in 0..(pos + n - flushed), DecodeBlock(n, m)
      PROVE  WritesInside'
  BY <1>8, <1>s DEF DecodeBlock, WriteQ, Writing
<1>9. CASE AddWriteQueued
  <2> DEFINE q == WriteQ
  <2>1. /\ q \in Seq(Block) /\ block \in Block /\ WriteQ' = Append(q, block)
        /\ UNCHANGED <<file, worker, task>>
    BY <1>0, <1>9, WriteTypes DEF AddWriteQueued, WriteQ, TypeOK, PoolType, Pool
  <2>2. block.to <= file.len
    BY <1>0, WriteTypes, FileIs DEF WritesOrdered, SrcInOrder
  <2>3. /\ DOMAIN WriteQ' = DOMAIN q \cup {Len(q) + 1}
        /\ \A i \in DOMAIN q : WriteQ'[i] = q[i]
        /\ WriteQ'[Len(q) + 1] = block
    BY <2>1
  <2> QED
    BY <2>1, <2>2, <2>3 DEF WritesInside, Writing
<1>10. CASE AddWriteInline
  BY <1>10, <1>s DEF AddWriteInline, WriteQ, Writing
<1> QED
  BY <1>0, Kinds, <1>1, <1>2, <1>3, <1>4, <1>5, <1>6, <1>7, <1>8, <1>9, <1>10 DEF DataStep

\* What is written so far goes up to where the next job starts.
LEMMA WrittenIs ==
  ASSUME NEW n \in Nat, out = Units(0, n)
  PROVE  Len(out) = n
<1>1. 0 \in Nat /\ 0 <= n /\ n - 0 = n
  OBVIOUS
<1> QED
  BY <1>1, UnitsAre

\* Writing more of the file is a step of the promise.
LEMMA WritesMore ==
  ASSUME Running, UNCHANGED <<file, status>>, file.len \in Nat,
         NEW n \in Nat, NEW k \in Nat, n <= k, k <= file.len, out = Units(0, n), out' = Units(0, k)
  PROVE  PromiseNext
<1>1. Len(out) = n
  BY WrittenIs
<1>2. k \in Len(out)..file.len
  BY <1>1
<1> QED
  BY <1>2 DEF PromiseNext, Write, Running

\* The program exits with 0 only when the whole file is written.
LEMMA ExitsWhole ==
  ASSUME IInv, ExitProgram
  PROVE  PromiseNext
<1>0. TypeOK /\ WritesOrdered /\ FramesOK /\ ClosedWhenIdle
  BY DEF IInv, CountInv, OrderInv
<1>1. /\ pc = "threads" /\ Running /\ UNCHANGED <<file, out>>
      /\ status' = IF result = 0 THEN "0" ELSE "1"
  BY DEF ExitProgram, At
<1>2. WriteQ = <<>> /\ ~ Writing /\ pc # "addWrite" /\ Leaving
  BY <1>0, <1>1 DEF ClosedWhenIdle, Idle, Busy, WriteQ, Writing, Leaving, AtEnd
<1>3. out = Units(0, flushed)
  BY <1>0, <1>2 DEF WritesOrdered, NextFrom, QueuedFrom, Empty
<1>4. result = 0 => Intact(file) /\ flushed = file.len
  BY <1>0, <1>2 DEF FramesOK
<1>5. CASE result = 0
  BY <1>1, <1>3, <1>4, <1>5 DEF PromiseNext, Exit, Running
<1>6. CASE result # 0
  BY <1>1, <1>6 DEF PromiseNext, Exit, Running
<1> QED
  BY <1>5, <1>6

\* Every step is a step of the promise or none.
LEMMA NextPromise ==
  ASSUME IInv, WritesInside, [Next]_vars
  PROVE  [PromiseNext]_promise
<1> USE DEF promise, mainVars, ioVars, readVars, decVars
<1>0. TypeOK /\ CountInv /\ Quiet /\ SrcInOrder /\ WritesOrdered
  BY DEF IInv, CountInv, OrderInv
<1>1. CASE ExecuteWrite
  <2>1. /\ Running /\ Writing /\ UNCHANGED <<file, status>> /\ out' = Units(0, task["write"].to)
    BY <1>0, <1>1, ExecuteWrites DEF ExecuteWrite, Writing
  <2>2. /\ task["write"].from \in Nat /\ task["write"].to \in Nat
        /\ task["write"].from <= task["write"].to /\ file.len \in Nat
    BY <1>0, <2>1, WriteTypes, FileIs
  <2>3. out = Units(0, task["write"].from) /\ task["write"].to <= file.len
    BY <1>0, <2>1 DEF WritesOrdered, NextFrom, WritesInside
  <2> QED
    BY <2>1, <2>2, <2>3, WritesMore
<1>2. CASE AddWriteInline
  <2>1. /\ Running /\ WriteQ = <<>> /\ ~ Writing /\ UNCHANGED <<file, status>>
        /\ out' = out \o Units(block.from, block.to)
    BY <1>0, <1>2 DEF AddWriteInline, Quiet, Idle, Busy, Pool, WriteQ, Writing, At
  <2>2. /\ out = Units(0, block.from) /\ block.from \in Nat /\ block.to \in Nat
        /\ block.from <= block.to
    BY <1>0, <2>1, WriteTypes DEF WritesOrdered, NextFrom, QueuedFrom
  <2>3. out' = Units(0, block.to)
    BY <2>1, <2>2, WriteMore
  <2>4. block.to <= file.len /\ file.len \in Nat
    BY <1>0, WriteTypes, FileIs DEF WritesOrdered, SrcInOrder
  <2> QED
    BY <2>1, <2>2, <2>3, <2>4, WritesMore
<1>3. CASE ReadPool
  <2>1. CASE AddRead
    BY <2>1 DEF AddRead
  <2>2. CASE OpenFails \/ Open \/ StartReading \/ StartDone
    BY <2>2 DEF OpenFails, Open, StartReading, StartDone
  <2>3. CASE Fill \/ FillRelease \/ NextWait \/ NextNone
    BY <2>3 DEF Fill, FillRelease, NextWait, NextNone
  <2>4. ASSUME NEW i \in DOMAIN completed, NextJob(i) PROVE UNCHANGED promise
    BY <2>4 DEF NextJob
  <2> QED
    BY <1>3, <2>1, <2>2, <2>3, <2>4 DEF ReadPool
<1>4. CASE Frames
  <2>1. CASE AddWrite
    BY <1>2, <2>1, AddWriteIs DEF AddWriteFull, AddWriteQueued
  <2>2. CASE NoInput \/ UnknownHeader \/ StartFrame \/ Decode
    BY <2>2 DEF NoInput, UnknownHeader, StartFrame, Decode, DecodeBlock
  <2>3. CASE DecodeError \/ Reacquire \/ Premature \/ EndFrame
    BY <2>3 DEF DecodeError, Reacquire, Premature, EndFrame
  <2>4. CASE JoinWait("write", "joinFrame") \/ JoinFrame
    BY <2>4 DEF JoinWait, JoinFrame
  <2> QED
    BY <1>4, <2>1, <2>2, <2>3, <2>4 DEF Frames
<1>5. CASE Closing
  <2>1. CASE JoinWait("write", "closeDst") \/ CloseDst \/ JoinWait("read", "closeSrc") \/ CloseSrc
    BY <2>1 DEF JoinWait, CloseDst, CloseSrc
  <2>2. CASE Shut \/ WakeAll \/ FreeNext
    BY <2>2 DEF Shut, WakeAll, FreeNext
  <2> QED
    BY <1>5, <2>1, <2>2, ExitsWhole DEF Closing
<1>6. ASSUME NEW p \in Pool, Worker(p) PROVE UNCHANGED promise
  BY <1>6 DEF Worker, Pop, PopWait, WorkerExit, JobDone
<1>7. CASE ExecuteRead
  BY <1>7 DEF ExecuteRead
<1>8. CASE InputOutputError
  <2>1. Running /\ Die
    BY <1>8 DEF InputOutputError, At
  <2> QED
    BY <2>1 DEF Die, PromiseNext, Exit, Running
<1>9. ASSUME NEW t \in Thread, Spurious(t) PROVE UNCHANGED promise
  BY <1>9 DEF Spurious
<1>10. CASE UNCHANGED vars
  BY <1>10 DEF vars
<1> QED
  BY <1>1, <1>3, <1>4, <1>5, <1>6, <1>7, <1>8, <1>9, <1>10 DEF Next, Gone

\* zstd -cdq does what process_reddit_data takes it for: standard output is
\* always a first part of the decompressed file, and the exit status is 0 only
\* when it is all of an intact one.
THEOREM PromiseKept == Spec => KeepsPromise
<1>1. Init => PromiseInit
  BY DEF Init
<1>2. Init => WritesInside
  <2>1. ASSUME Init PROVE ~ Writing /\ WriteQ = <<>>
    BY <2>1 DEF Init, Writing, WriteQ, Pool
  <2> QED
    BY <2>1 DEF WritesInside
<1>3. IInv /\ WritesInside /\ [Next]_vars => WritesInside'
  BY NextInside
<1>4. IInv /\ WritesInside /\ [Next]_vars => [PromiseNext]_promise
  BY NextPromise
<1> QED
  BY <1>1, <1>2, <1>3, <1>4, Inductive, PTL DEF Spec, KeepsPromise, PromiseSpec

-----------------------------------------------------------------------------
(* No wake-up is lost                                                      *)

\* A worker sleeps with nothing to do, and until its pool is shut down.
WorkersSleep ==
  \A p \in Pool : asleep[p] # "no" =>
    /\ asleep[p] = "pop" /\ worker[p] = "ready" /\ queue[p] = <<>>
    /\ shutdown[p] => pc = "wake" /\ site = p

\* A worker leaves when its pool is shut down, which is the last thing done.
ShutLast ==
  /\ \A p \in Pool : /\ shutdown[p] => AtEnd /\ (site = p => pc # "shut")
                     /\ worker[p] = "exited" => shutdown[p]
  /\ shutdown["read"] => site = "read"

\* Where main waits for room in a pool's queue, or for its jobs to be done.
PushPlace == [p \in Pool |-> IF p = "read" THEN {"addRead", "closeSrc"}
                             ELSE {"addWrite", "joinFrame", "closeDst"}]

\* What main sleeps for has not come.
MainSleeps ==
  /\ asleep["main"] \in {"no", "readPush", "writePush", "completed"}
  /\ \A p \in Pool : asleep["main"] = PushOf[p] =>
       pc \in PushPlace[p] /\ ~ Idle(p) /\ (pc \in {"addRead", "addWrite"} => IsQueueFull(p))
  /\ asleep["main"] = "completed" =>
       pc = "next" /\ NoMatch /\ (worker["read"] = "running" \/ queue["read"] # <<>>)

SleepInv == WorkersSleep /\ ShutLast /\ MainSleeps

\* The conditions main may wait on are not each other's.
LEMMA Conditions ==
  /\ PushOf["read"] = "readPush" /\ PushOf["write"] = "writePush"
  /\ \A p \in Pool : PushOf[p] # "no" /\ PushOf[p] # "pop" /\ PushOf[p] # "completed"
  /\ \A p, q \in Pool : PushOf[p] = PushOf[q] => p = q
BY DEF PushOf, Pool

\* Main goes on, awake, and wakes the worker of a queue it adds to.
LEMMA MainGoesOn ==
  ASSUME SleepInv, ~ AtEnd, asleep'["main"] = "no", UNCHANGED <<worker, shutdown>>,
         \A p \in Pool : asleep'[p] = "no" \/ (asleep'[p] = asleep[p] /\ queue'[p] = queue[p])
  PROVE  SleepInv'
<1>1. \A p \in Pool : ~ shutdown[p] /\ worker[p] # "exited"
  BY DEF SleepInv, ShutLast
<1>2. WorkersSleep'
  BY <1>1 DEF SleepInv, WorkersSleep
<1>3. ShutLast'
  BY <1>1 DEF ShutLast, Pool
<1>4. MainSleeps'
  BY Conditions DEF MainSleeps
<1> QED
  BY <1>2, <1>3, <1>4 DEF SleepInv

\* Main goes on and leaves the queues alone.
LEMMA MainGoesOnAlone ==
  ASSUME SleepInv, ~ AtEnd, asleep["main"] = "no", UNCHANGED <<asleep, queue, worker, shutdown>>
  PROVE  SleepInv'
BY MainGoesOn

\* Main falls asleep where what it sleeps for has not come.
LEMMA MainFallsAsleep ==
  ASSUME TypeOK, SleepInv, NEW cond, Sleep("main", cond), MainSleeps',
         UNCHANGED <<pc, site, queue, worker, shutdown>>
  PROVE  SleepInv'
<1>1. \A p \in Pool : asleep'[p] = asleep[p]
  BY DEF Sleep, TypeOK, MainType, Thread, Pool
<1>2. WorkersSleep' /\ ShutLast'
  BY <1>1 DEF SleepInv, WorkersSleep, ShutLast, AtEnd
<1> QED
  BY <1>2 DEF SleepInv

\* Main waits for pool p.
LEMMA MainAwaits ==
  ASSUME TypeOK, SleepInv, NEW p \in Pool, Sleep("main", PushOf[p]),
         pc \in PushPlace[p], ~ Idle(p), pc \in {"addRead", "addWrite"} => IsQueueFull(p),
         UNCHANGED <<pc, site, queue, worker, shutdown>>
  PROVE  SleepInv'
<1>1. asleep'["main"] = PushOf[p]
  BY DEF Sleep, TypeOK, MainType, Thread
<1>2. Idle(p)' <=> Idle(p)
  BY DEF Idle, Busy
<1>3. IsQueueFull(p)' <=> IsQueueFull(p)
  BY DEF IsQueueFull, Busy
<1>4. PushOf[p] \in {"readPush", "writePush"}
  BY DEF PushOf, Pool
<1>5. MainSleeps'
  BY <1>1, <1>2, <1>3, <1>4, Conditions DEF MainSleeps
<1> QED
  BY <1>5, MainFallsAsleep

\* A full queue is not that of an idle pool.
LEMMA FullIsNotIdle ==
  ASSUME TypeOK, NEW p \in Pool, IsQueueFull(p)
  PROVE  ~ Idle(p)
<1>1. CASE MaxJobs > 2
  <2>1. Len(queue[p]) = MaxJobs - 2 /\ MaxJobs \in Nat
    BY <1>1, PipeAssumption DEF IsQueueFull, PipeAssumption
  <2>2. queue[p] # <<>>
    BY <1>1, <2>1
  <2> QED
    BY <2>2 DEF Idle
<1>2. CASE ~ (MaxJobs > 2)
  BY <1>2 DEF IsQueueFull, Idle
<1> QED
  BY <1>1, <1>2

\* A worker's step: it wakes whom it wakes, and sleeps or leaves with nothing
\* to do.
LEMMA SleepElsewhere ==
  ASSUME SleepInv, NEW p \in Pool,
         UNCHANGED <<pc, site, shutdown>>,
         \A q \in Pool : q # p =>
           asleep'[q] = asleep[q] /\ worker'[q] = worker[q] /\ queue'[q] = queue[q],
         worker'[p] = "exited" => shutdown[p],
         asleep'[p] # "no" =>
           /\ asleep'[p] = "pop" /\ worker'[p] = "ready" /\ queue'[p] = <<>>
           /\ shutdown[p] => pc = "wake" /\ site = p
  PROVE  WorkersSleep' /\ ShutLast'
<1>1. WorkersSleep'
  BY DEF SleepInv, WorkersSleep
<1>2. ShutLast'
  BY DEF SleepInv, ShutLast, AtEnd
<1> QED
  BY <1>1, <1>2

\* Main sleeps on, unless it is woken, while the other pool works.
LEMMA MainSleepsOn ==
  ASSUME SleepInv, NEW p \in Pool, UNCHANGED <<pc, completed, waitingOn>>,
         asleep'["main"] \in {"no", asleep["main"]},
         asleep["main"] = PushOf[p] /\ asleep'["main"] # "no" =>
           (Idle(p)' => Idle(p)) /\ (IsQueueFull(p) => IsQueueFull(p)'),
         asleep["main"] = "completed" /\ asleep'["main"] # "no" /\ p = "read" =>
           worker'["read"] = "running" \/ queue'["read"] # <<>>,
         \A q \in Pool : q # p => worker'[q] = worker[q] /\ queue'[q] = queue[q]
  PROVE  MainSleeps'
<1>1. CASE asleep'["main"] = "no"
  BY <1>1, Conditions DEF MainSleeps
<1>2. CASE asleep'["main"] # "no"
  <2>1. asleep'["main"] = asleep["main"]
    BY <1>2
  <2>2. \A q \in Pool : q # p => (Idle(q)' <=> Idle(q)) /\ (IsQueueFull(q)' <=> IsQueueFull(q))
    BY DEF Idle, IsQueueFull, Busy
  <2>3. ASSUME NEW q \in Pool, asleep'["main"] = PushOf[q]
        PROVE  pc' \in PushPlace[q] /\ ~ Idle(q)'
               /\ (pc' \in {"addRead", "addWrite"} => IsQueueFull(q)')
    <3>1. pc \in PushPlace[q] /\ ~ Idle(q) /\ (pc \in {"addRead", "addWrite"} => IsQueueFull(q))
      BY <2>1, <2>3 DEF SleepInv, MainSleeps
    <3> QED
      BY <1>2, <2>1, <2>2, <2>3, <3>1
  <2>4. ASSUME asleep'["main"] = "completed"
        PROVE  pc' = "next" /\ NoMatch' /\ (worker'["read"] = "running" \/ queue'["read"] # <<>>)
    <3>1. pc = "next" /\ NoMatch /\ (worker["read"] = "running" \/ queue["read"] # <<>>)
      BY <2>1, <2>4 DEF SleepInv, MainSleeps
    <3>2. NoMatch'
      BY <3>1 DEF NoMatch
    <3>3. p # "read" => worker'["read"] = worker["read"] /\ queue'["read"] = queue["read"]
      BY DEF Pool
    <3> QED
      BY <1>2, <2>1, <2>4, <3>1, <3>2, <3>3
  <2> QED
    BY <2>1, <2>3, <2>4 DEF SleepInv, MainSleeps
<1> QED
  BY <1>1, <1>2

LEMMA WorkerSleep ==
  ASSUME TypeOK, SleepInv, NEW p \in Pool, Worker(p)
  PROVE  SleepInv'
<1> USE DEF readVars, ioVars, mainVars
<1>0. /\ DOMAIN asleep = Thread /\ DOMAIN worker = Pool /\ DOMAIN queue = Pool
      /\ Pool \subseteq Thread /\ "main" \in Thread /\ "main" \notin Pool
      /\ asleep["main"] \in {"no", "readPush", "writePush", "completed"}
      /\ \A q \in Pool : asleep[q] \in {"no", "pop"}
  BY DEF TypeOK, MainType, PoolType, Thread, Pool, SleepInv, MainSleeps, WorkersSleep
<1>1. ASSUME Signal(PushOf[p])
      PROVE  /\ asleep'["main"] \in {"no", asleep["main"]} /\ asleep'["main"] # PushOf[p]
             /\ \A q \in Pool : asleep'[q] = asleep[q]
  <2>1. asleep' = [t \in Thread |-> IF asleep[t] = PushOf[p] THEN "no" ELSE asleep[t]]
    BY <1>1 DEF Signal
  <2>2. \A q \in Pool : asleep[q] # PushOf[p]
    BY <1>0, Conditions
  <2> QED
    BY <1>0, <2>1, <2>2, Conditions
<1>2. CASE Pop(p)
  <2>1. /\ UNCHANGED <<pc, site, shutdown, completed, waitingOn>> /\ Signal(PushOf[p])
        /\ asleep[p] = "no" /\ worker' = [worker EXCEPT ![p] = "running"]
        /\ \A q \in Pool : q # p => queue'[q] = queue[q]
    BY <1>0, <1>2 DEF Pop, Free
  <2>2. worker'[p] = "running" /\ \A q \in Pool : q # p => worker'[q] = worker[q]
    BY <1>0, <2>1
  <2>3. WorkersSleep' /\ ShutLast'
    BY <1>1, <2>1, <2>2, SleepElsewhere
  <2>4. MainSleeps'
    BY <1>1, <2>1, <2>2, MainSleepsOn
  <2> QED
    BY <2>3, <2>4 DEF SleepInv
<1>3. CASE PopWait(p)
  <2>1. /\ UNCHANGED <<pc, site, shutdown, completed, waitingOn, worker, queue>>
        /\ asleep' = [asleep EXCEPT ![p] = "pop"]
        /\ worker[p] = "ready" /\ queue[p] = <<>> /\ ~ shutdown[p]
    BY <1>3 DEF PopWait, Sleep, Free
  <2>2. /\ asleep'[p] = "pop" /\ asleep'["main"] = asleep["main"]
        /\ \A q \in Pool : q # p => asleep'[q] = asleep[q]
    BY <1>0, <2>1
  <2>3. WorkersSleep' /\ ShutLast'
    BY <2>1, <2>2, SleepElsewhere
  <2>4. (Idle(p)' <=> Idle(p)) /\ (IsQueueFull(p)' <=> IsQueueFull(p))
    BY <2>1 DEF Idle, IsQueueFull, Busy
  <2>5. asleep["main"] = "completed" => worker["read"] = "running" \/ queue["read"] # <<>>
    BY DEF SleepInv, MainSleeps
  <2>6. MainSleeps'
    BY <2>1, <2>2, <2>4, <2>5, MainSleepsOn
  <2> QED
    BY <2>3, <2>6 DEF SleepInv
<1>4. CASE WorkerExit(p)
  <2>1. /\ UNCHANGED <<pc, site, shutdown, completed, waitingOn, asleep, queue>>
        /\ worker' = [worker EXCEPT ![p] = "exited"]
        /\ asleep[p] = "no" /\ shutdown[p]
    BY <1>4 DEF WorkerExit, Free
  <2>2. \A q \in Pool : q # p => worker'[q] = worker[q]
    BY <1>0, <2>1
  <2>3. WorkersSleep' /\ ShutLast'
    BY <2>1, <2>2, SleepElsewhere
  <2>4. AtEnd
    BY <2>1 DEF SleepInv, ShutLast
  <2>5. asleep["main"] = "no"
    <3>1. \A q \in Pool : asleep["main"] # PushOf[q]
      BY <2>4 DEF SleepInv, MainSleeps, PushPlace, AtEnd, Pool
    <3>2. asleep["main"] # "completed"
      BY <2>4 DEF SleepInv, MainSleeps, AtEnd
    <3>3. asleep["main"] # "readPush" /\ asleep["main"] # "writePush"
      BY <3>1, Conditions DEF Pool
    <3> QED
      BY <1>0, <3>2, <3>3
  <2>6. MainSleeps'
    BY <2>1, <2>5, Conditions DEF MainSleeps
  <2> QED
    BY <2>3, <2>6 DEF SleepInv
<1>5. CASE JobDone(p)
  <2>1. /\ UNCHANGED <<pc, site, shutdown, completed, waitingOn, queue>> /\ Signal(PushOf[p])
        /\ worker[p] = "ending" /\ worker' = [worker EXCEPT ![p] = "ready"]
    BY <1>5 DEF JobDone
  <2>2. worker'[p] = "ready" /\ \A q \in Pool : q # p => worker'[q] = worker[q]
    BY <1>0, <2>1
  <2>3. asleep[p] = "no"
    BY <2>1 DEF SleepInv, WorkersSleep
  <2>4. WorkersSleep' /\ ShutLast'
    BY <1>1, <2>1, <2>2, <2>3, SleepElsewhere
  <2>5. asleep["main"] = "completed" /\ p = "read" => queue["read"] # <<>>
    BY <2>1 DEF SleepInv, MainSleeps
  <2>6. MainSleeps'
    BY <1>1, <2>1, <2>2, <2>5, MainSleepsOn
  <2> QED
    BY <2>4, <2>6 DEF SleepInv
<1> QED
  BY <1>2, <1>3, <1>4, <1>5 DEF Worker

\* A worker's job: the reader's wakes a main that waits for it.
LEMMA ExecuteSleep ==
  ASSUME TypeOK, SleepInv, ExecuteRead \/ ExecuteWrite
  PROVE  SleepInv'
<1> USE DEF readVars, ioVars, mainVars
<1>0. /\ DOMAIN asleep = Thread /\ DOMAIN worker = Pool
      /\ Pool \subseteq Thread /\ "main" \in Thread /\ "read" \in Pool /\ "write" \in Pool
      /\ \A q \in Pool : asleep[q] \in {"no", "pop"}
  BY DEF TypeOK, MainType, PoolType, Thread, Pool, SleepInv, WorkersSleep
<1>1. ASSUME NEW p \in Pool, UNCHANGED <<pc, site, shutdown, queue>>, worker[p] = "running",
             worker' = [worker EXCEPT ![p] = "ending"], \A q \in Pool : asleep'[q] = asleep[q]
      PROVE  /\ WorkersSleep' /\ ShutLast'
             /\ Idle(p)' => Idle(p)
             /\ IsQueueFull(p) => IsQueueFull(p)'
             /\ worker'[p] = "ending" /\ \A q \in Pool : q # p => worker'[q] = worker[q]
  <2>1. worker'[p] = "ending" /\ \A q \in Pool : q # p => worker'[q] = worker[q]
    BY <1>0, <1>1
  <2>2. asleep[p] = "no"
    BY <1>1 DEF SleepInv, WorkersSleep
  <2>3. WorkersSleep' /\ ShutLast'
    BY <1>1, <2>1, <2>2, SleepElsewhere
  <2>4. Idle(p)' => Idle(p)
    BY <2>1 DEF Idle, Busy
  <2>5. IsQueueFull(p) => IsQueueFull(p)'
    BY <1>1, <2>1 DEF IsQueueFull, Busy
  <2> QED
    BY <2>1, <2>3, <2>4, <2>5
<1>2. CASE ExecuteRead
  <2>1. /\ UNCHANGED <<pc, site, shutdown, queue, waitingOn>> /\ worker["read"] = "running"
        /\ worker' = [worker EXCEPT !["read"] = "ending"]
        /\ asleep' = [t \in Thread |-> IF asleep[t] = "completed" THEN "no" ELSE asleep[t]]
    BY <1>2 DEF ExecuteRead, Signal
  <2>2. /\ \A q \in Pool : asleep'[q] = asleep[q]
        /\ asleep'["main"] = IF asleep["main"] = "completed" THEN "no" ELSE asleep["main"]
    BY <1>0, <2>1
  <2>3. /\ WorkersSleep' /\ ShutLast' /\ (Idle("read")' => Idle("read"))
        /\ (IsQueueFull("read") => IsQueueFull("read")')
        /\ worker'["write"] = worker["write"]
    BY <1>0, <1>1, <2>1, <2>2
  <2>4. (Idle("write")' => Idle("write")) /\ (IsQueueFull("write") => IsQueueFull("write")')
    BY <2>1, <2>3 DEF Idle, IsQueueFull, Busy
  <2>5. MainSleeps'
    <3>1. \A p \in Pool : (Idle(p)' => Idle(p)) /\ (IsQueueFull(p) => IsQueueFull(p)')
      BY <2>3, <2>4 DEF Pool
    <3>2. asleep'["main"] # "completed" /\ asleep'["main"] \in {"no", asleep["main"]}
      BY <2>2
    <3> QED
      BY <2>1, <3>1, <3>2, Conditions DEF SleepInv, MainSleeps
  <2> QED
    BY <2>3, <2>5 DEF SleepInv
<1>3. CASE ExecuteWrite
  <2>1. /\ UNCHANGED <<pc, site, asleep, shutdown, queue, completed, waitingOn>>
        /\ worker["write"] = "running" /\ worker' = [worker EXCEPT !["write"] = "ending"]
    BY <1>3 DEF ExecuteWrite
  <2>2. /\ WorkersSleep' /\ ShutLast' /\ (Idle("write")' => Idle("write"))
        /\ (IsQueueFull("write") => IsQueueFull("write")')
        /\ \A q \in Pool : q # "write" => worker'[q] = worker[q]
    BY <1>0, <1>1, <2>1
  <2>3. MainSleeps'
    BY <1>0, <2>1, <2>2, MainSleepsOn
  <2> QED
    BY <2>2, <2>3 DEF SleepInv
<1> QED
  BY <1>2, <1>3

\* Reading: main sleeps in POOL_add and for the next job completed.
LEMMA ReadSleep ==
  ASSUME CountInv, SleepInv, ReadPool
  PROVE  SleepInv'
<1> USE DEF readVars, ioVars, mainVars
<1>0. TypeOK /\ "read" \in Pool
  BY DEF CountInv, Pool
<1>1. CASE OpenFails \/ Open \/ StartDone
  BY <1>1, MainGoesOnAlone DEF OpenFails, Open, StartDone, At, AtEnd
<1>2. CASE StartReading \/ Fill \/ FillRelease \/ NextNone
  BY <1>2, MainGoesOnAlone DEF StartReading, Fill, FillRelease, NextNone, At, GoTo, AtEnd
<1>3. ASSUME NEW i \in DOMAIN completed, NextJob(i) PROVE SleepInv'
  BY <1>3, MainGoesOnAlone DEF NextJob, At, GoTo, AtEnd
<1>4. CASE AddReadFull
  <2>1. /\ pc \in PushPlace["read"] /\ IsQueueFull("read") /\ Sleep("main", PushOf["read"])
        /\ UNCHANGED <<pc, site, queue, worker, shutdown>>
    BY <1>4 DEF AddReadFull, At, PushPlace, Pool
  <2>2. ~ Idle("read")
    BY <1>0, <2>1, FullIsNotIdle
  <2> QED
    BY <1>0, <2>1, <2>2, MainAwaits
<1>5. CASE AddReadQueued
  <2>1. /\ ~ AtEnd /\ UNCHANGED <<worker, shutdown>> /\ asleep["main"] = "no"
        /\ asleep' = [asleep EXCEPT !["read"] = "no"]
        /\ queue' = [queue EXCEPT !["read"] = Append(@, NewRead)]
    BY <1>5 DEF AddReadQueued, At, AtEnd
  <2>2. asleep'["main"] = "no" /\ asleep'["read"] = "no"
        /\ asleep'["write"] = asleep["write"] /\ queue'["write"] = queue["write"]
    BY <1>0, <2>1 DEF TypeOK, MainType, PoolType, Thread, Pool
  <2> QED
    BY <2>1, <2>2, MainGoesOn DEF Pool
<1>6. CASE AddReadInline
  BY <1>6, MainGoesOnAlone DEF AddReadInline, At, AtEnd
<1>7. CASE NextWait
  <2>1. /\ pc = "next" /\ NoMatch /\ InFlight > 0 /\ Sleep("main", "completed")
        /\ UNCHANGED <<pc, site, queue, worker, shutdown, completed, waitingOn>>
    BY <1>7 DEF NextWait, At
  <2>2. asleep'["main"] = "completed"
    BY <1>0, <2>1 DEF Sleep, TypeOK, MainType, Thread
  <2>3. Given("read") = InFlight
    <3>1. avail["read"] + Given("read") + Len(completed) + HeldCount = MaxJobs
      BY <2>1, Numbers DEF CountInv, ReadCount, AddCount, DoneCount
    <3>2. /\ InFlight = MaxJobs - (avail["read"] + Len(completed) + HeldCount)
          /\ avail["read"] \in Nat /\ Given("read") \in Nat /\ Len(completed) \in Nat
          /\ HeldCount \in Nat /\ MaxJobs \in Nat
      BY Numbers DEF InFlight
    <3> QED
      BY <3>1, <3>2
  <2>4. worker["read"] = "running" \/ queue["read"] # <<>>
    <3>1. SUFFICES ASSUME worker["read"] # "running", queue["read"] = <<>> PROVE FALSE
      OBVIOUS
    <3>2. Given("read") = 0
      BY <3>1, GivenIs
    <3> QED
      BY <2>1, <2>3, <3>2
  <2>5. NoMatch'
    BY <2>1 DEF NoMatch
  <2>6. MainSleeps'
    BY <2>1, <2>2, <2>4, <2>5, Conditions DEF MainSleeps
  <2> QED
    BY <1>0, <2>1, <2>6, MainFallsAsleep
<1> QED
  BY <1>1, <1>2, <1>3, <1>4, <1>5, <1>6, <1>7, AddReadIs DEF ReadPool

\* Decoding: main sleeps in POOL_add and until the frame is written.
LEMMA FrameSleep ==
  ASSUME CountInv, SleepInv, Frames
  PROVE  SleepInv'
<1> USE DEF readVars, ioVars, mainVars
<1>0. TypeOK /\ "write" \in Pool
  BY DEF CountInv, Pool
<1>1. CASE NoInput \/ UnknownHeader
  BY <1>1, MainGoesOnAlone DEF NoInput, UnknownHeader, Reject, At, GoTo, AtEnd
<1>2. CASE StartFrame \/ Decode
  BY <1>2, MainGoesOnAlone DEF StartFrame, Decode, DecodeBlock, At, GoTo, AtEnd
<1>3. CASE DecodeError \/ Premature \/ EndFrame
  BY <1>3, MainGoesOnAlone DEF DecodeError, Premature, EndFrame, Reject, At, GoTo, AtEnd
<1>4. CASE Reacquire \/ JoinFrame
  BY <1>4, MainGoesOnAlone DEF Reacquire, JoinFrame, At, GoTo, AtEnd
<1>5. CASE AddWriteFull
  <2>1. /\ pc \in PushPlace["write"] /\ IsQueueFull("write") /\ Sleep("main", PushOf["write"])
        /\ UNCHANGED <<pc, site, queue, worker, shutdown>>
    BY <1>5 DEF AddWriteFull, At, PushPlace, Pool
  <2>2. ~ Idle("write")
    BY <1>0, <2>1, FullIsNotIdle
  <2> QED
    BY <1>0, <2>1, <2>2, MainAwaits
<1>6. CASE AddWriteQueued
  <2>1. /\ ~ AtEnd /\ UNCHANGED <<worker, shutdown>> /\ asleep["main"] = "no"
        /\ asleep' = [asleep EXCEPT !["write"] = "no"]
        /\ queue' = [queue EXCEPT !["write"] = Append(@, block)]
    BY <1>6 DEF AddWriteQueued, At, AtEnd
  <2>2. asleep'["main"] = "no" /\ asleep'["write"] = "no"
        /\ asleep'["read"] = asleep["read"] /\ queue'["read"] = queue["read"]
    BY <1>0, <2>1 DEF TypeOK, MainType, PoolType, Thread, Pool
  <2> QED
    BY <2>1, <2>2, MainGoesOn DEF Pool
<1>7. CASE AddWriteInline
  BY <1>7, MainGoesOnAlone DEF AddWriteInline, At, AtEnd
<1>8. CASE JoinWait("write", "joinFrame")
  <2>1. /\ pc = "joinFrame" /\ ~ Idle("write") /\ Sleep("main", PushOf["write"])
        /\ UNCHANGED <<pc, site, queue, worker, shutdown>>
    BY <1>8 DEF JoinWait, At
  <2>2. pc \in PushPlace["write"]
    BY <2>1 DEF PushPlace, Pool
  <2> QED
    BY <1>0, <2>1, <2>2, MainAwaits
<1> QED
  BY <1>1, <1>2, <1>3, <1>4, <1>5, <1>6, <1>7, <1>8, AddWriteIs DEF Frames

\* Closing: main sleeps until a pool's jobs are done, shuts the pools down
\* and wakes their workers for the last time.
LEMMA CloseSleep ==
  ASSUME CountInv, SleepInv, Closing
  PROVE  SleepInv'
<1> USE DEF readVars, ioVars, mainVars
<1>0. TypeOK /\ "write" \in Pool /\ "read" \in Pool
  BY DEF CountInv, Pool
<1>1. ASSUME NEW p \in Pool, NEW place, JoinWait(p, place), place \in PushPlace[p],
             place \notin {"addRead", "addWrite"}
      PROVE  SleepInv'
  <2>1. /\ pc = place /\ ~ Idle(p) /\ Sleep("main", PushOf[p])
        /\ UNCHANGED <<pc, site, queue, worker, shutdown>>
    BY <1>1 DEF JoinWait, At
  <2> QED
    BY <1>0, <1>1, <2>1, MainAwaits
<1>2. CASE JoinWait("write", "closeDst") \/ JoinWait("read", "closeSrc")
  BY <1>0, <1>1, <1>2 DEF PushPlace, Pool
<1>3. CASE CloseDst \/ CloseSrc
  BY <1>3, MainGoesOnAlone DEF CloseDst, CloseSrc, At, GoTo, AtEnd
<1>4. ASSUME asleep["main"] = "no", asleep'["main"] = "no", WorkersSleep', ShutLast'
      PROVE  SleepInv'
  BY <1>4, Conditions DEF SleepInv, MainSleeps
<1>5. CASE Shut
  <2>1. /\ pc = "shut" /\ pc' = "wake" /\ asleep["main"] = "no"
        /\ UNCHANGED <<site, asleep, worker, queue>>
        /\ shutdown' = [shutdown EXCEPT ![site] = TRUE]
    BY <1>5 DEF Shut, At, GoTo
  <2>2. \A p \in Pool : shutdown'[p] => p = site \/ shutdown[p]
    BY <1>0, <2>1 DEF TypeOK, PoolType
  <2>3. \A p \in Pool : shutdown[p] => shutdown'[p]
    BY <1>0, <2>1 DEF TypeOK, PoolType
  <2>4. WorkersSleep'
    BY <2>1, <2>2 DEF SleepInv, WorkersSleep
  <2>5. ShutLast'
    BY <2>1, <2>3 DEF SleepInv, ShutLast, AtEnd
  <2> QED
    BY <1>4, <2>1, <2>4, <2>5
<1>6. CASE WakeAll
  <2>1. /\ pc = "wake" /\ pc' = "threads" /\ asleep["main"] = "no" /\ site \in Pool
        /\ UNCHANGED <<site, worker, queue, shutdown>>
        /\ asleep' = [asleep EXCEPT ![site] = "no"]
    BY <1>6 DEF WakeAll, At, CountInv, Places, AtEnd
  <2>2. /\ asleep'[site] = "no" /\ asleep'["main"] = "no"
        /\ \A p \in Pool : p # site => asleep'[p] = asleep[p]
    BY <1>0, <2>1 DEF TypeOK, MainType, Thread, Pool
  <2>3. WorkersSleep'
    BY <2>1, <2>2 DEF SleepInv, WorkersSleep
  <2>4. ShutLast'
    BY <2>1 DEF SleepInv, ShutLast, AtEnd
  <2> QED
    BY <1>4, <2>1, <2>2, <2>3, <2>4
<1>7. CASE FreeNext
  <2>1. /\ pc = "threads" /\ pc' = "shut" /\ site' = "read" /\ asleep["main"] = "no"
        /\ worker["write"] = "exited" /\ site = "write"
        /\ UNCHANGED <<asleep, worker, queue, shutdown>>
    BY <1>7 DEF FreeNext, At
  <2>2. WorkersSleep'
    BY <2>1 DEF SleepInv, WorkersSleep
  <2>3. ~ shutdown["read"]
    BY <2>1 DEF SleepInv, ShutLast
  <2>4. ShutLast'
    BY <2>1, <2>3 DEF SleepInv, ShutLast, AtEnd
  <2> QED
    BY <1>4, <2>1, <2>2, <2>4
<1>8. CASE ExitProgram
  <2>1. UNCHANGED <<pc, site, asleep, worker, queue, shutdown>> /\ asleep["main"] = "no"
    BY <1>8 DEF ExitProgram, At
  <2>2. WorkersSleep' /\ ShutLast'
    BY <2>1 DEF SleepInv, WorkersSleep, ShutLast, AtEnd
  <2> QED
    BY <1>4, <2>1, <2>2
<1> QED
  BY <1>2, <1>3, <1>5, <1>6, <1>7, <1>8 DEF Closing

\* Nobody sleeps differently when the queues and the workers are left alone.
LEMMA StaysAsleep ==
  ASSUME SleepInv,
         UNCHANGED <<pc, site, asleep, worker, queue, shutdown, completed, waitingOn>>
  PROVE  SleepInv'
<1>1. WorkersSleep' /\ ShutLast'
  BY DEF SleepInv, WorkersSleep, ShutLast, AtEnd
<1>2. MainSleeps'
  BY DEF SleepInv, MainSleeps, Idle, Busy, IsQueueFull, NoMatch
<1> QED
  BY <1>1, <1>2 DEF SleepInv

\* A thread that wakes unasked looks again.
LEMMA SpuriousSleep ==
  ASSUME TypeOK, SleepInv, NEW t \in Thread, Spurious(t)
  PROVE  SleepInv'
<1>1. /\ UNCHANGED <<pc, site, worker, queue, shutdown, completed, waitingOn>>
      /\ asleep' = [asleep EXCEPT ![t] = "no"]
  BY DEF Spurious, Sleep, ioVars, readVars
<1>2. \A u \in Thread : asleep'[u] \in {"no", asleep[u]}
  BY <1>1 DEF TypeOK, MainType
<1>3. WorkersSleep' /\ ShutLast'
  BY <1>1, <1>2 DEF SleepInv, WorkersSleep, ShutLast, AtEnd, Thread
<1>4. CASE asleep'["main"] = "no"
  BY <1>3, <1>4, Conditions DEF SleepInv, MainSleeps
<1>5. CASE asleep'["main"] = asleep["main"]
  <2>1. \A p \in Pool : (Idle(p)' <=> Idle(p)) /\ (IsQueueFull(p)' <=> IsQueueFull(p))
    BY <1>1 DEF Idle, Busy, IsQueueFull
  <2>2. NoMatch' <=> NoMatch
    BY <1>1 DEF NoMatch
  <2>3. MainSleeps'
    BY <1>1, <1>5, <2>1, <2>2 DEF SleepInv, MainSleeps
  <2> QED
    BY <1>3, <2>3 DEF SleepInv
<1> QED
  BY <1>2, <1>4, <1>5 DEF Thread

LEMMA InitSleep == Init => SleepInv
<1> SUFFICES ASSUME Init PROVE SleepInv
  OBVIOUS
<1>1. /\ \A t \in Thread : asleep[t] = "no"
      /\ \A p \in Pool : ~ shutdown[p] /\ worker[p] = "ready"
      /\ "main" \in Thread /\ Pool \subseteq Thread /\ "read" \in Pool
  BY DEF Init, Thread, Pool
<1>2. WorkersSleep /\ ShutLast
  BY <1>1 DEF WorkersSleep, ShutLast
<1>3. MainSleeps
  BY <1>1, Conditions DEF MainSleeps
<1> QED
  BY <1>2, <1>3 DEF SleepInv

LEMMA NextSleep == CountInv /\ SleepInv /\ [Next]_vars => SleepInv'
<1> SUFFICES ASSUME CountInv, SleepInv, [Next]_vars PROVE SleepInv'
  OBVIOUS
<1>0. TypeOK
  BY DEF CountInv
<1>1. CASE ReadPool
  BY <1>1, ReadSleep
<1>2. CASE Frames
  BY <1>2, FrameSleep
<1>3. CASE Closing
  BY <1>3, CloseSleep
<1>4. ASSUME NEW p \in Pool, Worker(p) PROVE SleepInv'
  BY <1>0, <1>4, WorkerSleep
<1>5. CASE ExecuteRead \/ ExecuteWrite
  BY <1>0, <1>5, ExecuteSleep
<1>6. CASE InputOutputError
  BY <1>6, StaysAsleep DEF InputOutputError, mainVars, ioVars, readVars
<1>7. ASSUME NEW t \in Thread, Spurious(t) PROVE SleepInv'
  BY <1>0, <1>7, SpuriousSleep
<1>8. CASE UNCHANGED vars
  BY <1>8, StaysAsleep DEF vars, mainVars, ioVars, readVars
<1> QED
  BY <1>1, <1>2, <1>3, <1>4, <1>5, <1>6, <1>7, <1>8 DEF Next, Gone

\* A pool that is not idle is at work while main still needs it.
LEMMA NotIdleWorks ==
  ASSUME TypeOK, SleepInv, NEW p \in Pool, ~ Idle(p), ~ AtEnd
  PROVE  AtWork(p)
<1>1. worker[p] \in {"ready", "running", "ending"}
  BY DEF TypeOK, PoolType, SleepInv, ShutLast
<1>2. queue[p] # <<>> => asleep[p] = "no"
  BY DEF SleepInv, WorkersSleep
<1> QED
  BY <1>1, <1>2 DEF AtWork, Idle, Busy

LEMMA SleepAwaited == CountInv /\ SleepInv => SleepersAwaited
<1> SUFFICES ASSUME CountInv, SleepInv PROVE SleepersAwaited
  OBVIOUS
<1>0. TypeOK /\ "read" \in Pool
  BY DEF CountInv, Pool
<1>1. ASSUME NEW p \in Pool, asleep[p] # "no"
      PROVE  queue[p] = <<>> /\ (shutdown[p] => pc = "wake" /\ site = p)
  BY <1>1 DEF SleepInv, WorkersSleep
<1>2. ASSUME NEW p \in Pool, asleep["main"] = PushOf[p]
      PROVE  AtWork(p) /\ (pc \in {"addRead", "addWrite"} => IsQueueFull(p))
  <2>1. pc \in PushPlace[p] /\ ~ Idle(p) /\ (pc \in {"addRead", "addWrite"} => IsQueueFull(p))
    BY <1>2 DEF SleepInv, MainSleeps
  <2>2. ~ AtEnd
    BY <2>1 DEF PushPlace, AtEnd
  <2> QED
    BY <1>0, <2>1, <2>2, NotIdleWorks
<1>3. ASSUME asleep["main"] = "completed"
      PROVE  NoMatch /\ AtWork("read") /\ (worker["read"] = "ending" => queue["read"] # <<>>)
  <2>1. pc = "next" /\ NoMatch /\ (worker["read"] = "running" \/ queue["read"] # <<>>)
    BY <1>3 DEF SleepInv, MainSleeps
  <2>2. ~ AtEnd /\ ~ Idle("read")
    BY <2>1 DEF AtEnd, Idle, Busy
  <2> QED
    BY <1>0, <2>1, <2>2, NotIdleWorks
<1> QED
  BY <1>1, <1>2, <1>3 DEF SleepersAwaited

\* A wake-up is never lost, whatever the number of jobs: a worker sleeps only
\* on an empty queue, main only where the queue is full, the jobs are not done
\* or the next read is not there, and only while a worker is awake to change it
\* (POOL_add, POOL_thread, AIO_ReadPool_getNextCompletedJob).
THEOREM SleepersAreAwaited == Spec => []SleepersAwaited
<1> QED
  BY InitSleep, NextSleep, SleepAwaited, Counted, PTL DEF Spec

\* The threads are never all asleep: the program cannot deadlock on its
\* condition variables.
THEOREM SomebodyIsAwake == Spec => [](\E t \in Thread : asleep[t] = "no")
<1> DEFINE Awake == \E t \in Thread : asleep[t] = "no"
<1>1. SleepInv => Awake
  <2> SUFFICES ASSUME SleepInv, \A t \in Thread : asleep[t] # "no" PROVE FALSE
    OBVIOUS
  <2>1. /\ asleep["main"] \in {"readPush", "writePush", "completed"}
        /\ \A p \in Pool : asleep[p] # "no"
    BY DEF SleepInv, MainSleeps, Thread
  <2>2. \A p \in Pool : worker[p] = "ready" /\ queue[p] = <<>> /\ Idle(p)
    BY <2>1 DEF SleepInv, WorkersSleep, Idle, Busy
  <2>3. "read" \in Pool /\ "write" \in Pool
    BY DEF Pool
  <2>4. CASE asleep["main"] = "completed"
    BY <2>2, <2>3, <2>4 DEF SleepInv, MainSleeps
  <2>5. CASE asleep["main"] # "completed"
    BY <2>1, <2>2, <2>3, <2>5, Conditions DEF SleepInv, MainSleeps
  <2> QED
    BY <2>4, <2>5
<1> QED
  BY <1>1, InitSleep, NextSleep, Counted, PTL DEF Spec
=============================================================================
