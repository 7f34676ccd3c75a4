----------------------------- MODULE CodingRun -----------------------------
(***************************************************************************)
(* The four coding routes: generate and redo, initial and final            *)
(* (routes/coding/initial_coding_routes.py, final_coding_routes.py).       *)
(*                                                                         *)
(* A run codes the posts of one workspace chunk by chunk with an LLM, batch *)
(* after batch, and keeps a row in function_progress that the front end    *)
(* polls by name.  Nothing keeps two runs apart: they are requests served  *)
(* by different worker processes, and one database operation is one action. *)
(* Within a run the posts of a batch are tasks of one event loop, so a     *)
(* stretch without an await is cut by other runs only (Free).              *)
(*                                                                         *)
(* Left out: a request refused before it touches the progress table (no    *)
(* context, no posts, no responses) never begins; failing database         *)
(* operations other than the insertion that meets a rival's row; the       *)
(* status column, which nobody reads; the INITIAL_COPY rows, which no step *)
(* of a run depends on.  Codes are the chunks whose codes, if the LLM      *)
(* found any, were inserted.                                               *)
(***************************************************************************)
EXTENDS Naturals, Sequences, FiniteSets

CONSTANTS
  Run,       \* requests
  Post,      \* selected posts of the track the run is on
  Chunks,    \* Chunks[p]: transcripts the post is cut into
  Batch,     \* the pages of post ids
  Kinds,     \* the assignments of a kind to every run to consider
  MaxCrash   \* bound: deaths of worker processes

Kind == {"initial", "redoInitial", "final", "remake"}

ASSUME RunAssumption ==
  /\ IsFiniteSet(Post)
  /\ Chunks \in [Post -> Nat \ {0}]
  /\ Batch \in Seq(SUBSET Post)
  /\ \A p \in Post : \E b \in DOMAIN Batch : p \in Batch[b]
  /\ \A a, b \in DOMAIN Batch : a # b => Batch[a] \cap Batch[b] = {}
  /\ Kinds \subseteq [Run -> Kind]
  /\ MaxCrash \in Nat

VARIABLES
  kind,     \* the route each run came in by; it never changes
  pc,       \* where the handler is
  batch,    \* the number of the batch it is at
  rows,     \* runs with a row in function_progress
  cur,      \* the column `current` of that row
  codes,    \* table qect: the chunks inserted and not deleted, with their run
  task,     \* process_post of each post
  at,       \* the chunk it is at
  seen,     \* the value of `current` a task has read
  late,     \* history: chunks stored by a run whose row was gone
  crashes, wiping

handlerVars == <<pc, batch>>
taskVars    == <<task, at, seen, late>>
vars == <<kind, handlerVars, rows, cur, codes, taskVars, crashes, wiping>>

Ended == {"ok", "failed", "dead"}
Slice == {"read", "write", "store"}

Initial(r) == kind[r] \in {"initial", "redoInitial"}

\* The runs that share a progress name and a codebook type with r.
Rivals(r) == {s \in Run : Initial(s) <=> Initial(r)}

Init ==
  /\ kind \in Kinds
  /\ pc    = [r \in Run |-> "idle"]
  /\ batch = [r \in Run |-> 1]
  /\ rows  = {}
  /\ cur   = [r \in Run |-> 0]
  /\ codes = {}
  /\ task  = [r \in Run |-> [p \in Post |-> "none"]]
  /\ at    = [r \in Run |-> [p \in Post |-> 1]]
  /\ seen  = [r \in Run |-> 0]
  /\ late  = [r \in Run |-> {}]
  /\ crashes = 0
  /\ wiping  = FALSE

\* Mutant: an await between two steps of a slice.
FreeAlways(r) == TRUE

\* No task of r's loop is between two database operations of a slice.
Free(r) == \A p \in Post : task[r][p] \notin Slice

-----------------------------------------------------------------------------
(* The handler up to its first batch                                       *)

\* Is there a row of this name?
Look(r) ==
  /\ pc[r] = "idle"
  /\ pc' = [pc EXCEPT ![r] = IF rows \cap Rivals(r) # {} THEN "clear" ELSE "insert"]
  /\ UNCHANGED <<kind, batch, rows, cur, codes, taskVars, crashes, wiping>>

\* Delete whatever row has this name now.
Clear(r) ==
  /\ pc[r] = "clear"
  /\ rows' = rows \ Rivals(r)
  /\ pc' = [pc EXCEPT ![r] = "insert"]
  /\ UNCHANGED <<kind, batch, cur, codes, taskVars, crashes, wiping>>

\* The row's primary key is its name, so the second of two rivals that have
\* both looked fails.
Insert(r) ==
  /\ pc[r] = "insert"
  /\ \/ /\ rows \cap Rivals(r) = {}
        /\ rows' = rows \cup {r}
        /\ cur' = [cur EXCEPT ![r] = 0]
        /\ pc' = [pc EXCEPT ![r] = "setup"]
     \/ /\ rows \cap Rivals(r) # {}
        /\ pc' = [pc EXCEPT ![r] = "failed"]
        /\ UNCHANGED <<rows, cur>>
  /\ UNCHANGED <<kind, batch, codes, taskVars, crashes, wiping>>

\* Mutant: the row is deleted at the end of the try block.
FinallyOk(r, how) ==
  /\ pc' = [pc EXCEPT ![r] = how]
  /\ rows' = IF how = "ok" /\ kind[r] # "redoInitial" THEN rows \ {r} ELSE rows

\* The finally block: delete the row of function_id, which a redo of the
\* initial codes has overwritten once it is past its set-up.
Finally(r, how) ==
  /\ pc' = [pc EXCEPT ![r] = how]
  /\ rows' = IF kind[r] = "redoInitial" /\ pc[r] # "setup"
               THEN rows ELSE rows \ {r}

\* get_llm_and_embeddings: an unknown model raises.
Setup(r) ==
  /\ pc[r] = "setup"
  /\ \/ Finally(r, "failed")
     \/ /\ pc' = [pc EXCEPT ![r] =
                    IF kind[r] \in {"redoInitial", "remake"} THEN "summarise" ELSE "drop"]
        /\ UNCHANGED rows
  /\ UNCHANGED <<kind, batch, cur, codes, taskVars, crashes, wiping>>

\* A redo has the LLM summarise the old codes before it deletes them.
Summarise(r) ==
  /\ pc[r] = "summarise"
  /\ \/ Finally(r, "failed")
     \/ pc' = [pc EXCEPT ![r] = "drop"] /\ UNCHANGED rows
  /\ UNCHANGED <<kind, batch, cur, codes, taskVars, crashes, wiping>>

\* Delete the old codes of this codebook type, of whichever run.
Drop(r) ==
  /\ pc[r] = "drop"
  /\ codes' = {c \in codes : c[1] \notin Rivals(r)}
  /\ pc' = [pc EXCEPT ![r] = "batch"]
  /\ UNCHANGED <<kind, batch, rows, cur, taskVars, crashes, wiping>>

-----------------------------------------------------------------------------
(* Batches of posts                                                        *)

\* Announce the next batch, which may raise, and start a task per post.
StartBatch(r) ==
  /\ pc[r] = "batch" /\ batch[r] <= Len(Batch)
  /\ \/ /\ Finally(r, "failed")
        /\ UNCHANGED task
     \/ /\ pc' = [pc EXCEPT ![r] = "gather"]
        /\ task' = [task EXCEPT ![r] =
                      [p \in Post |-> IF p \in Batch[batch[r]] THEN "llm" ELSE @[p]]]
        /\ UNCHANGED rows
  /\ UNCHANGED <<kind, batch, cur, codes, at, seen, late, crashes, wiping>>

\* "All posts processed successfully."
LastBatch(r) ==
  /\ pc[r] = "batch" /\ batch[r] > Len(Batch)
  /\ \/ Finally(r, "failed")
     \/ /\ pc' = [pc EXCEPT ![r] = IF Initial(r) THEN "merge" ELSE "close"]
        /\ UNCHANGED rows
  /\ UNCHANGED <<kind, batch, cur, codes, taskVars, crashes, wiping>>

\* Mutant: only posts coded to the end count.
SettledDone(r, p) == task[r][p] = "done"

\* A task gather has a result of.
Settled(r, p) == task[r][p] \in {"done", "gaveUp"}

Gathered(r) ==
  /\ pc[r] = "gather" /\ Free(r)
  /\ \A p \in Batch[batch[r]] : Settled(r, p)
  /\ batch' = [batch EXCEPT ![r] = @ + 1]
  /\ pc' = [pc EXCEPT ![r] = "batch"]
  /\ UNCHANGED <<kind, rows, cur, codes, taskVars, crashes, wiping>>

\* The first exception ends the run; the other tasks go on without it.
GatherRaises(r) ==
  /\ pc[r] = "gather" /\ Free(r)
  /\ \E p \in Batch[batch[r]] : task[r][p] = "raised"
  /\ Finally(r, "failed")
  /\ UNCHANGED <<kind, batch, cur, codes, taskVars, crashes, wiping>>

-----------------------------------------------------------------------------
(* process_post, one chunk after the other                                 *)

\* Mutant: the codes are stored before the row is looked at.
FirstStore(r) == "store"

\* What a task does first with the answer to a chunk.
First(r) == IF kind[r] = "final" THEN "read" ELSE "store"

\* The LLM has answered, or failed three times, which reads as no codes.
Answer(r, p) ==
  /\ task[r][p] = "llm" /\ Free(r)
  /\ task' = [task EXCEPT ![r][p] = First(r)]
  /\ UNCHANGED <<kind, handlerVars, rows, cur, codes, at, seen, late, crashes,
                 wiping>>

\* Mutant: the final routes catch a post's exception as well.
RaisesCaught(r, p) == task' = [task EXCEPT ![r][p] = "gaveUp"]

\* An exception in a task.  The initial routes catch it and report it,
\* unless reporting raises too; the final routes do not.
Raises(r, p) ==
  \/ /\ Initial(r)
     /\ task' = [task EXCEPT ![r][p] = "gaveUp"]
  \/ task' = [task EXCEPT ![r][p] = "raised"]

\* A post that cannot be read, a message that cannot be sent, an answer of
\* the wrong shape.
Fails(r, p) ==
  /\ task[r][p] = "llm" /\ Free(r)
  /\ Raises(r, p)
  /\ UNCHANGED <<kind, handlerVars, rows, cur, codes, at, seen, late, crashes,
                 wiping>>

\* On to the next chunk, or report the end, which may raise, and return.
Resume(r, p) ==
  /\ at' = [at EXCEPT ![r][p] = @ + 1]
  /\ \/ /\ at[r][p] < Chunks[p]
        /\ task' = [task EXCEPT ![r][p] = "llm"]
     \/ /\ at[r][p] >= Chunks[p]
        /\ task' = [task EXCEPT ![r][p] = "done"] \/ Raises(r, p)

\* find_one raises when the row is gone.
Read(r, p) ==
  /\ task[r][p] = "read"
  /\ \/ /\ r \in rows
        /\ seen' = [seen EXCEPT ![r] = cur[r]]
        /\ task' = [task EXCEPT ![r][p] = "write"]
     \/ /\ r \notin rows
        /\ Raises(r, p)
        /\ UNCHANGED seen
  /\ UNCHANGED <<kind, handlerVars, rows, cur, codes, at, late, crashes, wiping>>

\* The update of a row that is gone changes nothing.
Write(r, p) ==
  /\ task[r][p] = "write"
  /\ cur' = IF r \in rows THEN [cur EXCEPT ![r] = seen[r] + 1] ELSE cur
  /\ IF kind[r] = "final"
       THEN task' = [task EXCEPT ![r][p] = "store"] /\ UNCHANGED at
       ELSE Resume(r, p)
  /\ UNCHANGED <<kind, handlerVars, rows, codes, seen, late, crashes, wiping>>

\* Insert the chunk's codes, as many as the filters left.
Store(r, p) ==
  /\ task[r][p] = "store"
  /\ codes' = codes \cup {<<r, p, at[r][p]>>}
  /\ late' = IF r \in rows THEN late
             ELSE [late EXCEPT ![r] = @ \cup {<<p, at[r][p]>>}]
  /\ IF kind[r] = "initial"
       THEN task' = [task EXCEPT ![r][p] = "read"] /\ UNCHANGED at
       ELSE Resume(r, p)
  /\ UNCHANGED <<kind, handlerVars, rows, cur, seen, crashes, wiping>>

-----------------------------------------------------------------------------
(* The end of a run                                                        *)

\* Cluster the codes with the LLM, rename them, delete duplicates: for every
\* chunk stored the table goes on holding what was found in it.
Merge(r) ==
  /\ pc[r] = "merge"
  /\ \/ Finally(r, "failed")
     \/ pc' = [pc EXCEPT ![r] = "close"] /\ UNCHANGED rows
  /\ UNCHANGED <<kind, batch, cur, codes, taskVars, crashes, wiping>>

Close(r) ==
  /\ pc[r] = "close"
  /\ Finally(r, "ok")
  /\ UNCHANGED <<kind, batch, cur, codes, taskVars, crashes, wiping>>

\* The client hangs up: the handler and the tasks it awaits are cancelled.
Cancel(r) ==
  /\ pc[r] \in {"summarise", "batch", "gather", "merge"} /\ Free(r)
  /\ Finally(r, "failed")
  /\ task' = [task EXCEPT ![r] =
                [p \in Post |-> IF @[p] = "llm" THEN "none" ELSE @[p]]]
  /\ UNCHANGED <<kind, batch, cur, codes, at, seen, late, crashes, wiping>>

\* The worker process that serves r dies.
Crash(r) ==
  /\ pc[r] # "idle" /\ crashes < MaxCrash
  /\ pc[r] \in Ended => \E p \in Post : task[r][p] \in Slice \cup {"llm"}
  /\ crashes' = crashes + 1
  /\ wiping' = TRUE
  /\ pc' = [pc EXCEPT ![r] = IF @ \in Ended THEN @ ELSE "dead"]
  /\ task' = [task EXCEPT ![r] = [p \in Post |-> "none"]]
  /\ UNCHANGED <<kind, batch, rows, cur, codes, at, seen, late>>

\* A worker process that serves none of the runs dies.
CrashElsewhere ==
  /\ crashes < MaxCrash
  /\ crashes' = crashes + 1
  /\ wiping' = TRUE
  /\ UNCHANGED <<kind, handlerVars, rows, cur, codes, taskVars>>

\* Its replacement imports main.py, which empties the progress table.
Wipe ==
  /\ wiping
  /\ rows' = {}
  /\ wiping' = FALSE
  /\ UNCHANGED <<kind, handlerVars, cur, codes, taskVars, crashes>>

-----------------------------------------------------------------------------
Handler(r) ==
  \/ Clear(r) \/ Insert(r) \/ Setup(r) \/ Summarise(r) \/ Drop(r)
  \/ StartBatch(r) \/ LastBatch(r) \/ Gathered(r) \/ GatherRaises(r)
  \/ Merge(r) \/ Close(r)

PostStep(r, p) ==
  \/ Answer(r, p) \/ Fails(r, p) \/ Read(r, p) \/ Write(r, p) \/ Store(r, p)

Next ==
  \/ \E r \in Run : Look(r) \/ Handler(r) \/ Cancel(r) \/ Crash(r)
  \/ \E r \in Run, p \in Post : PostStep(r, p)
  \/ CrashElsewhere \/ Wipe

Spec == Init /\ [][Next]_vars

(* Fairness: the server keeps running every handler and task.  That every  *)
(* LLM task ends is an assumption: CallEnds of LlmTask says what it needs  *)
(* of the queue.  Nothing makes a request arrive, a client hang up or a    *)
(* process die.                                                            *)
Fairness ==
  \A r \in Run : /\ WF_vars(Handler(r))
                 /\ \A p \in Post : WF_vars(PostStep(r, p))

FairSpec == Spec /\ Fairness

-----------------------------------------------------------------------------
(* Properties                                                              *)

TypeOK ==
  /\ kind  \in [Run -> Kind]
  /\ pc    \in [Run -> {"idle", "clear", "insert", "setup", "summarise", "drop",
                        "batch", "gather", "merge", "close"} \cup Ended]
  /\ batch \in [Run -> 1..(Len(Batch) + 1)]
  /\ rows  \subseteq Run
  /\ cur   \in [Run -> Nat]
  /\ codes \subseteq Run \X Post \X Nat
  /\ task  \in [Run -> [Post -> {"none", "llm", "done", "gaveUp", "raised"} \cup Slice]]
  /\ at    \in [Run -> [Post -> Nat]]
  /\ \A r \in Run, p \in Post : at[r][p] \in 1..(Chunks[p] + 1)
  /\ seen  \in [Run -> Nat]
  /\ late  \in [Run -> SUBSET (Post \X Nat)]
  /\ crashes \in Nat
  /\ wiping  \in BOOLEAN

Chunk == UNION {{p} \X (1..Chunks[p]) : p \in Post}

\* The chunks of a run that its tasks have counted.
Counted(r) ==
  {c \in Chunk : \/ c[2] < at[r][c[1]]
                 \/ c[2] = at[r][c[1]] /\ kind[r] = "final" /\ task[r][c[1]] = "store"}

\* As long as a generating run has its row and its process, `current` is the number of chunks
\* its tasks have gone through, although every task reads it, adds one and
\* writes it back; so it passes `total`, the number of posts, with the first
\* post that is cut in two.
CountExact ==
  \A r \in rows : kind[r] \in {"initial", "final"} /\ pc[r] # "dead" =>
    cur[r] = Cardinality(Counted(r))

\* A generating run that has lost its row, to a rival, a restarted worker or
\* its own end, soon stops adding codes: a final run stores at most one more
\* chunk, an initial run at most one more of each post.
LateIsLittle ==
  \A r \in Run :
    /\ kind[r] = "final" => Cardinality(late[r]) <= 1
    /\ kind[r] = "initial" => \A c, d \in late[r] : c[1] = d[1] => c = d

\* Once a final run has answered, the tasks it left behind add no code: the
\* client may start it again.  (A remake keeps no progress, and its tasks do.)
EndedStoresNothing ==
  [][\A r \in Run : kind[r] = "final" /\ pc[r] \in Ended =>
       \A c \in codes' \ codes : c[1] # r]_vars

\* A final run, or a remake, that answers 200 has gone through every chunk of
\* every post, whatever its rivals did meanwhile.
OkMeansCoded ==
  \A r \in Run : pc[r] = "ok" /\ ~Initial(r) =>
    \A p \in Post : at[r][p] = Chunks[p] + 1

\* No run leaves its row behind, however it ends, but a redo of the initial
\* codes, and a run whose process died and is not replaced yet.
RowsCleaned ==
  \A r \in rows : pc[r] \in Ended =>
    kind[r] = "redoInitial" \/ (pc[r] = "dead" /\ wiping)

\* Every run that has begun ends.
RunEnds == \A r \in Run : pc[r] # "idle" ~> pc[r] \in Ended

-----------------------------------------------------------------------------
(* The inductive invariant behind them                                     *)

Live  == Slice \cup {"llm"}
Early == {"idle", "clear", "insert"}
Setting == Early \cup {"setup", "summarise", "drop"}

\* A task at work is at a chunk of its post.
AtInv == \A r \in Run, p \in Post :
  /\ task[r][p] \in Live => at[r][p] <= Chunks[p]
  /\ task[r][p] = "done" => at[r][p] = Chunks[p] + 1

\* The tasks of a batch that has not begun do not exist.
FreshInv == \A r \in Run : \A b \in DOMAIN Batch : \A p \in Batch[b] :
  b > batch[r] \/ (b = batch[r] /\ pc[r] \in Setting \cup {"batch"}) =>
    task[r][p] = "none" /\ at[r][p] = 1

\* Where the handler is says which tasks may be at work.
StageInv == \A r \in Run :
  /\ pc[r] \in Setting => batch[r] = 1
  /\ pc[r] = "gather" => batch[r] <= Len(Batch)
  /\ pc[r] \in {"merge", "close", "ok"} => batch[r] > Len(Batch)
  /\ pc[r] = "dead" => \A p \in Post : task[r][p] = "none"
  /\ \A p \in Post : task[r][p] \in Live =>
       pc[r] \in Ended \/ (pc[r] = "gather" /\ p \in Batch[batch[r]])

\* One task of a run at a time is between two operations of a slice.
OneSlice == \A r \in Run : \A p, q \in Post :
  task[r][p] \in Slice /\ task[r][q] \in Slice => p = q

\* A row belongs to a run that has inserted it and not yet cleaned it up.
RowInv == \A r \in rows :
  /\ pc[r] \notin Early
  /\ pc[r] \in Ended => kind[r] = "redoInitial" \/ (pc[r] = "dead" /\ wiping)

\* A value read is still the row's when it is written.
CountInv == \A r \in rows : pc[r] # "dead" =>
  /\ kind[r] \in {"initial", "final"} => cur[r] = Cardinality(Counted(r))
  /\ \A p \in Post : task[r][p] = "write" => seen[r] = cur[r]

\* What a run may still do once it has stored a chunk without a row.
LateInv == \A r \in Run : late[r] # {} =>
  /\ r \notin rows /\ pc[r] \notin Early
  /\ kind[r] = "final" =>
       /\ \A p \in Post : task[r][p] \notin {"write", "store"}
       /\ \A c, d \in late[r] : c = d
  /\ kind[r] = "initial" => \A c \in late[r] :
       /\ c[2] = at[r][c[1]]
       /\ \/ task[r][c[1]] \in {"read", "gaveUp", "raised"}
          \/ task[r][c[1]] = "none" /\ pc[r] \in Ended

\* A final run that has answered is past its last insertion.
EndedInv == \A r \in Run : kind[r] = "final" /\ pc[r] \in Ended =>
  \A p \in Post : task[r][p] \notin {"write", "store"}

\* The final routes only get past a batch that is coded to the end.
CodedInv == \A r \in Run : ~Initial(r) =>
  /\ \A p \in Post : task[r][p] # "gaveUp"
  /\ \A b \in DOMAIN Batch : b < batch[r] =>
       \A p \in Batch[b] : at[r][p] = Chunks[p] + 1

IInv == /\ TypeOK /\ AtInv /\ FreshInv /\ StageInv /\ OneSlice /\ RowInv
        /\ CountInv /\ LateInv /\ EndedInv /\ CodedInv
=============================================================================
