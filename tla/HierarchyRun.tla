---------------------------- MODULE HierarchyRun ----------------------------
(***************************************************************************)
(* The four routes that arrange codes: group-codes and regroup-codes       *)
(* (routes/coding/grouping_code_routes.py), theme-generation and           *)
(* redo-theme-generation (routes/coding/theme_routes.py), with the loop    *)
(* they share, batch_llm_hierarchy (controllers/coding_controller.py).     *)
(*                                                                         *)
(* A run summarises the codes, deletes the workspace's arrangement, puts   *)
(* the codes to the LLM batch by batch, and inserts first the codes the    *)
(* LLM placed, then those it did not.  Runs of one workspace may be served *)
(* by different processes: each database operation is an action.           *)
(*                                                                         *)
(* A call of process_llm_task ends as in LlmTask: with an answer, with the *)
(* empty list of a task that gave up, or by raising.                       *)
(*                                                                         *)
(* Left out: the refusal of a grouping without codes; how codes are        *)
(* summarised; names of clusters, and so the merging of those with equal   *)
(* names; changes the user makes to the table in between.                  *)
(***************************************************************************)
EXTENDS Naturals, Sequences

CONSTANTS
  Run,        \* requests of the workspace, all on the same table
  Kinds,      \* what the requests may be: a set of functions on Run
  N,          \* number of codes in the summary table
  ChunkSize   \* chunk_size

Kind == {"group", "regroup", "theme", "redo"}

ASSUME HierarchyAssumption ==
  /\ Kinds \subseteq [Run -> Kind]
  /\ N \in Nat \ {0}
  /\ ChunkSize \in Nat \ {0}

Key      == 1..N        \* the codes: summary_map
Invented == N + 1       \* a code the LLM made up
NoCode   == 0           \* the code None
Code     == Key \cup {Invented}

Chunk == [lo : Key, hi : Key]

\* What a run inserts: a code with a cluster or without one.
Row == [run : Run, code : Code \cup {NoCode}, placed : BOOLEAN]

VARIABLES
  kind,      \* the route each run came in by
  pc,        \* where the handler is
  chunks,    \* chunks: the batches of keys, as intervals
  at,        \* i, counted from 1
  clusters,  \* current_clusters: None, an empty list, or some
  placed,    \* the codes that occur in current_clusters
  table,     \* rows of grouped_codes or themes of the workspace
  asked,     \* history: keys a prompt could be built for
  robbed     \* history: another run has deleted rows of this one

loop == <<chunks, at, clusters, placed, asked>>
vars == <<kind, pc, loop, table, robbed>>

\* "torn": ended between the two insertions.
Over == {"done", "failed", "cancelled", "dead", "torn"}

Stored(r) == {row.code : row \in {x \in table : x.run = r}}

-----------------------------------------------------------------------------
\* chunks = [keys[i : i + chunk_size] for i in range(0, len(keys), chunk_size)]
FixedChunks ==
  [k \in 1..((N + ChunkSize - 1) \div ChunkSize) |->
     [lo |-> (k - 1) * ChunkSize + 1,
      hi |-> IF k * ChunkSize <= N THEN k * ChunkSize ELSE N]]

\* Mutant: the right half begins one key late.
HalvedLate(s, i) ==
  LET mid == s[i].lo + (s[i].hi - s[i].lo + 1) \div 2
  IN  [k \in 1..(Len(s) + 1) |->
         IF k < i THEN s[k]
         ELSE IF k = i THEN [lo |-> s[i].lo, hi |-> mid - 1]
         ELSE IF k = i + 1 THEN [lo |-> mid + 1, hi |-> s[i].hi]
         ELSE s[k - 1]]

\* chunks[:i] + [left, right] + chunks[i+1:]
Halved(s, i) ==
  LET mid == s[i].lo + (s[i].hi - s[i].lo + 1) \div 2
  IN  [k \in 1..(Len(s) + 1) |->
         IF k < i THEN s[k]
         ELSE IF k = i THEN [lo |-> s[i].lo, hi |-> mid - 1]
         ELSE IF k = i + 1 THEN [lo |-> mid, hi |-> s[i].hi]
         ELSE s[k - 1]]

Batch(r) == chunks[r][at[r]].lo .. chunks[r][at[r]].hi

Init ==
  /\ kind \in Kinds
  /\ pc       = [r \in Run |-> "idle"]
  /\ chunks   = [r \in Run |-> FixedChunks]
  /\ at       = [r \in Run |-> 1]
  /\ clusters = [r \in Run |-> "none"]
  /\ placed   = [r \in Run |-> {}]
  /\ table    = {}
  /\ asked    = [r \in Run |-> {}]
  /\ robbed   = [r \in Run |-> FALSE]

Goto(r, l) == pc' = [pc EXCEPT ![r] = l]

Begin(r) ==
  /\ pc[r] = "idle"
  /\ Goto(r, "summarise")
  /\ UNCHANGED <<kind, loop, table, robbed>>

\* A message that cannot be sent, or a summary that cannot be made.
SummariseRaises(r) ==
  /\ pc[r] = "summarise"
  /\ Goto(r, "failed")
  /\ UNCHANGED <<kind, loop, table, robbed>>

\* The codes are summarised: repo.delete({"coding_context_id": workspace_id}).
Clear(r) ==
  /\ pc[r] = "summarise"
  /\ table' = {}
  /\ robbed' = [s \in Run |-> robbed[s] \/ Stored(s) # {}]
  /\ Goto(r, "batch")
  /\ UNCHANGED <<kind, loop>>

\* A failing delete is printed and forgotten.
ClearFails(r) ==
  /\ pc[r] = "summarise"
  /\ Goto(r, "batch")
  /\ UNCHANGED <<kind, loop, table, robbed>>

-----------------------------------------------------------------------------
InLoop(r) == pc[r] = "batch" /\ at[r] <= Len(chunks[r])

\* From the second batch on the clusters so far are named in the prompt; a
\* theme has no "name": KeyError.
NamesRaise(r) == kind[r] \in {"theme", "redo"} /\ clusters[r] = "some"

\* Mutant: the keyword arguments of no continuation fit.
NoneFits(r) == clusters[r] = "none"

\* The first prompt of every route can be built.  Only the continuation of
\* group-codes takes the arguments it is called with.
PromptFits(r) == clusters[r] = "none" \/ kind[r] = "group"

ContinueRaises(r) ==
  /\ InLoop(r)
  /\ NamesRaise(r)
  /\ Goto(r, "failed")
  /\ UNCHANGED <<kind, loop, table, robbed>>

\* The LLM's clusters, if any: any codes, its own inventions included.
Answered(r) ==
  /\ InLoop(r) /\ ~NamesRaise(r) /\ PromptFits(r)
  /\ \E codes \in SUBSET Code :
       /\ placed' = [placed EXCEPT ![r] = @ \cup codes]
       /\ \E some \in {"some"} \cup (IF codes = {} THEN {"empty"} ELSE {}) :
            clusters' = [clusters EXCEPT ![r] = IF @ = "some" THEN @ ELSE some]
  /\ asked' = [asked EXCEPT ![r] = @ \cup Batch(r)]
  /\ at' = [at EXCEPT ![r] = @ + 1]
  /\ UNCHANGED <<kind, pc, chunks, table, robbed>>

\* An answer without the keys the route reads: it raises before anything is
\* inserted.
Malformed(r) ==
  /\ InLoop(r) /\ ~NamesRaise(r) /\ PromptFits(r)
  /\ Goto(r, "failed")
  /\ UNCHANGED <<kind, loop, table, robbed>>

\* Mutant: the batch is moved to the end of the list, to be tried again.
AskLater(r) ==
  /\ InLoop(r) /\ ~NamesRaise(r)
  /\ chunks' = [chunks EXCEPT ![r] =
       [k \in 1..Len(@) |-> IF k < at[r] THEN @[k]
                            ELSE IF k < Len(@) THEN @[k + 1] ELSE @[at[r]]]]
  /\ UNCHANGED <<kind, pc, at, clusters, placed, asked, table, robbed>>

\* The task gave up: [] is a list like any other.  A prompt whose arguments
\* do not fit raises inside the task, every time, and ends here.
GaveUp(r) ==
  /\ InLoop(r) /\ ~NamesRaise(r)
  /\ asked' = [asked EXCEPT ![r] = IF PromptFits(r) THEN @ \cup Batch(r) ELSE @]
  /\ clusters' = [clusters EXCEPT ![r] = IF @ = "none" THEN "empty" ELSE @]
  /\ at' = [at EXCEPT ![r] = @ + 1]
  /\ UNCHANGED <<kind, pc, chunks, placed, table, robbed>>

\* The task raised, for its own messages could not be sent: a batch of more
\* than one code is halved, the failure of a single one passed on.
TaskRaises(r) ==
  /\ InLoop(r) /\ ~NamesRaise(r)
  /\ IF chunks[r][at[r]].hi > chunks[r][at[r]].lo
       THEN /\ chunks' = [chunks EXCEPT ![r] = Halved(@, at[r])]
            /\ UNCHANGED pc
       ELSE /\ Goto(r, "failed")
            /\ UNCHANGED chunks
  /\ UNCHANGED <<kind, at, clusters, placed, asked, table, robbed>>

-----------------------------------------------------------------------------
\* insert_batch of the codes in the clusters.
StorePlaced(r) ==
  /\ pc[r] = "batch" /\ at[r] > Len(chunks[r])
  /\ table' = table \cup {[run |-> r, code |-> c, placed |-> TRUE] : c \in placed[r]}
  /\ Goto(r, "rest")
  /\ UNCHANGED <<kind, loop, robbed>>

StorePlacedFails(r) ==
  /\ pc[r] = "batch" /\ at[r] > Len(chunks[r])
  /\ Goto(r, "failed")
  /\ UNCHANGED <<kind, loop, table, robbed>>

\* Mutant: only the codes that were put to the LLM.
UnplacedAsked(r) ==
  IF asked[r] \ placed[r] # {} THEN asked[r] \ placed[r] ELSE {NoCode}

\* unplaced_codes, or one row without a code when there are none.
Unplaced(r) == IF Key \ placed[r] # {} THEN Key \ placed[r] ELSE {NoCode}

\* The grouping routes return; the theme routes announce their end first.
StoreRest(r) ==
  /\ pc[r] = "rest"
  /\ table' = table \cup {[run |-> r, code |-> c, placed |-> FALSE] : c \in Unplaced(r)}
  /\ Goto(r, IF kind[r] \in {"theme", "redo"} THEN "announce" ELSE "done")
  /\ UNCHANGED <<kind, loop, robbed>>

StoreRestFails(r) ==
  /\ pc[r] = "rest"
  /\ Goto(r, "torn")
  /\ UNCHANGED <<kind, loop, table, robbed>>

Announce(r) ==
  /\ pc[r] = "announce"
  /\ \/ Goto(r, "done")
     \/ Goto(r, "failed")
  /\ UNCHANGED <<kind, loop, table, robbed>>

\* Mutant: an await between the two insertions.
AwaitsMore == {"summarise", "batch", "rest", "announce"}

\* Where a handler awaits, and may be cancelled.
Awaits == {"summarise", "batch", "announce"}

\* The client hangs up.
Cancel(r) ==
  /\ pc[r] \in Awaits
  /\ Goto(r, "cancelled")
  /\ UNCHANGED <<kind, loop, table, robbed>>

\* The process dies.
Die(r) ==
  /\ pc[r] \in Awaits \cup {"rest"}
  /\ Goto(r, IF pc[r] = "rest" THEN "torn" ELSE "dead")
  /\ UNCHANGED <<kind, loop, table, robbed>>

-----------------------------------------------------------------------------
Step(r) ==
  \/ SummariseRaises(r) \/ Clear(r) \/ ClearFails(r)
  \/ ContinueRaises(r) \/ Answered(r) \/ Malformed(r) \/ GaveUp(r) \/ TaskRaises(r)
  \/ StorePlaced(r) \/ StorePlacedFails(r) \/ StoreRest(r) \/ StoreRestFails(r)
  \/ Announce(r)

Next == \E r \in Run : Begin(r) \/ Step(r) \/ Cancel(r) \/ Die(r)

Spec == Init /\ [][Next]_vars

\* The server runs every handler.  That every LLM task ends is an assumption:
\* CallEnds of LlmTask says what it needs of the queue.
FairSpec == Spec /\ \A r \in Run : WF_vars(Step(r))

-----------------------------------------------------------------------------
TypeOK ==
  /\ kind \in Kinds
  /\ pc \in [Run -> {"idle", "summarise", "batch", "rest", "announce"} \cup Over]
  /\ chunks \in [Run -> Seq(Chunk)]
  /\ at \in [Run -> Nat \ {0}]
  /\ clusters \in [Run -> {"none", "empty", "some"}]
  /\ placed \in [Run -> SUBSET Code]
  /\ table \subseteq Row
  /\ asked \in [Run -> SUBSET Key]
  /\ robbed \in [Run -> BOOLEAN]

\* A list of batches that holds every key once, in order.
Tiles(s) ==
  /\ s # <<>>
  /\ s[1].lo = 1 /\ s[Len(s)].hi = N
  /\ \A k \in 1..Len(s) : s[k].lo <= s[k].hi
  /\ \A k \in 1..(Len(s) - 1) : s[k + 1].lo = s[k].hi + 1

\* However often batches are halved, the list of batches holds every code
\* exactly once and in order, none of them empty, and the loop's index is
\* within it or one past it: no code is skipped or put to the LLM twice.
ChunksTile == \A r \in Run : Tiles(chunks[r]) /\ at[r] <= Len(chunks[r]) + 1

\* Whatever the LLM answers, a run that gets as far as its last insertion has
\* every code of the codebook in the table, either placed or unplaced but not
\* both, unless another run deleted rows of it in the meantime.
EveryCodeKept ==
  \A r \in Run : pc[r] \in {"announce", "done"} /\ ~robbed[r] =>
    \A c \in Key :
      \E b \in BOOLEAN :
        /\ [run |-> r, code |-> c, placed |-> b] \in table
        /\ [run |-> r, code |-> c, placed |-> ~b] \notin table

\* A run that fails, is cancelled or dies has stored nothing or all of it,
\* unless it ended between the two insertions.
WholeOrNothing ==
  \A r \in Run : pc[r] \in Over \ {"torn"} /\ ~robbed[r] =>
    Stored(r) = {} \/ Key \subseteq Stored(r)

\* A new grouping that ends well has put every code to the LLM, in a prompt
\* that could be built.
GroupingAsksAll ==
  \A r \in Run : pc[r] = "done" /\ kind[r] = "group" => asked[r] = Key

\* The same of every route: "Codes regrouped successfully!".
EveryCodeAsked == \A r \in Run : pc[r] = "done" => asked[r] = Key

\* A run that has begun ends.
RunEnds == \A r \in Run : pc[r] = "summarise" ~> pc[r] \in Over
=============================================================================
