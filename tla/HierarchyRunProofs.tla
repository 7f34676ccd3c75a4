------------------------- MODULE HierarchyRunProofs -------------------------
(***************************************************************************)
(* Proofs about HierarchyRun, for any number of runs and codes, any batch  *)
(* size and any assignment of routes.  The loop keeps its list of batches  *)
(* a partition of the codes (ChunksTile): that is about cutting a list, in *)
(* FixedTile and HalvedTile.  What a run has in the table depends only on  *)
(* how far it is and on whether another run has deleted since: RowsInv.    *)
(* How much of the codes the routes other than group-codes put to the LLM  *)
(* is what FirstInv says.                                                  *)
(***************************************************************************)
EXTENDS HierarchyRun, SequenceTheorems, TLAPS

\* The table holds nothing of a run, or every code once.
Nothing(r) == \A x \in table : x.run # r
Full(r) ==
  \A c \in Key :
    \E b \in BOOLEAN :
      /\ [run |-> r, code |-> c, placed |-> b] \in table
      /\ [run |-> r, code |-> c, placed |-> ~b] \notin table

\* The codes of the batches the loop has left behind.
Frontier(r) == IF at[r] <= Len(chunks[r]) THEN chunks[r][at[r]].lo - 1 ELSE N

\* Rows without a cluster are those of codes the LLM did not place.
ShapeInv ==
  \A x \in table :
    /\ x.placed => x.code \in placed[x.run]
    /\ ~x.placed => x.code \notin placed[x.run]

RowsInvOf(r) ==
  /\ pc[r] \in {"idle", "summarise", "batch"} => Nothing(r)
  /\ pc[r] = "rest" => \A x \in table : x.run = r => x.placed
  /\ pc[r] = "rest" /\ ~robbed[r] =>
       \A c \in placed[r] : [run |-> r, code |-> c, placed |-> TRUE] \in table
  /\ pc[r] \in {"announce", "done"} /\ ~robbed[r] => Full(r)
  /\ pc[r] \in {"failed", "cancelled", "dead"} /\ ~robbed[r] => Nothing(r) \/ Full(r)

RowsInv == ShapeInv /\ \A r \in Run : RowsInvOf(r)

AskedInv ==
  \A r \in Run :
    /\ kind[r] = "group" => asked[r] = 1..Frontier(r)
    /\ pc[r] \in {"rest", "announce", "done"} => at[r] = Len(chunks[r]) + 1

IInv == TypeOK /\ ChunksTile /\ AskedInv /\ RowsInv

-----------------------------------------------------------------------------
(* Lists of batches                                                        *)

\* The product of two naturals is monotonic.
LEMMA TimesMonotone ==
  ASSUME NEW a \in Nat, NEW b \in Nat, NEW c \in Nat, a <= b
  PROVE  a * c <= b * c
<1>1. PICK d \in Nat : b = a + d
  <2>1. b - a \in Nat /\ b = a + (b - a)
    OBVIOUS
  <2> QED
    BY <2>1
<1>2. b * c = a * c + d * c /\ d * c \in Nat /\ a * c \in Nat
  BY <1>1
<1> QED
  BY <1>2

\* The batches the loop begins with hold every code once, in order.
LEMMA FixedTile == FixedChunks \in Seq(Chunk) /\ Tiles(FixedChunks)
<1> DEFINE q == (N + ChunkSize - 1) \div ChunkSize
<1> USE HierarchyAssumption DEF HierarchyAssumption
<1>1. /\ q \in Nat \ {0}
      /\ q * ChunkSize \in Nat
      /\ q * ChunkSize <= N + ChunkSize - 1
      /\ N + ChunkSize - 1 < (q + 1) * ChunkSize
      /\ (q + 1) * ChunkSize = q * ChunkSize + ChunkSize
  OBVIOUS
<1>2. N <= q * ChunkSize
  BY <1>1
<1>3. ASSUME NEW k \in 1..(q - 1)
      PROVE  k * ChunkSize \in Nat /\ k * ChunkSize < N
  <2>1. k * ChunkSize <= (q - 1) * ChunkSize
    BY TimesMonotone, <1>1
  <2>2. (q - 1) * ChunkSize = q * ChunkSize - ChunkSize
    BY <1>1
  <2> QED
    BY <2>1, <2>2, <1>1
<1> DEFINE Lo(k) == (k - 1) * ChunkSize + 1
           Hi(k) == IF k * ChunkSize <= N THEN k * ChunkSize ELSE N
<1>4. ASSUME NEW k \in 1..q
      PROVE  Lo(k) \in Key /\ Hi(k) \in Key /\ Lo(k) <= Hi(k)
  <2>1. (k - 1) * ChunkSize \in Nat /\ (k - 1) * ChunkSize < N
    <3>1. CASE k = 1
      BY <3>1
    <3>2. CASE k # 1
      BY <3>2, <1>3, <1>1
    <3> QED
      BY <3>1, <3>2
  <2>2. k * ChunkSize = (k - 1) * ChunkSize + ChunkSize
    OBVIOUS
  <2> QED
    BY <2>1, <2>2 DEF Key
<1>5. FixedChunks = [k \in 1..q |-> [lo |-> Lo(k), hi |-> Hi(k)]]
  BY DEF FixedChunks
<1> HIDE DEF q, Lo, Hi
<1>6. FixedChunks \in [1..q -> Chunk]
  BY <1>4, <1>5 DEF Chunk
<1>7. FixedChunks \in Seq(Chunk) /\ Len(FixedChunks) = q
  BY <1>1, <1>6, SeqDef, LenProperties
<1>8. /\ FixedChunks # <<>>
      /\ FixedChunks[1].lo = 1 /\ FixedChunks[Len(FixedChunks)].hi = N
  <2>1. Lo(1) = 1 /\ Hi(q) = N
    BY <1>1, <1>2 DEF Lo, Hi
  <2> QED
    BY <1>1, <1>5, <1>7, <2>1, EmptySeq
<1>9. \A k \in 1..q : FixedChunks[k].lo <= FixedChunks[k].hi
  BY <1>4, <1>5
<1>10. ASSUME NEW k \in 1..(q - 1)
       PROVE  FixedChunks[k + 1].lo = FixedChunks[k].hi + 1
  <2>1. k \in 1..q /\ k + 1 \in 1..q
    BY <1>1
  <2>2. Lo(k + 1) = k * ChunkSize + 1 /\ Hi(k) = k * ChunkSize
    BY <1>1, <1>3 DEF Lo, Hi
  <2> QED
    BY <1>5, <2>1, <2>2
<1> QED
  BY <1>7, <1>8, <1>9, <1>10 DEF Tiles

\* Halving a batch of more than one code keeps the list a partition, and
\* leaves the batches before it and the beginning of this one alone.
LEMMA HalvedTile ==
  ASSUME NEW s \in Seq(Chunk), Tiles(s), NEW i \in 1..Len(s), s[i].hi > s[i].lo
  PROVE  /\ Halved(s, i) \in Seq(Chunk) /\ Tiles(Halved(s, i))
         /\ Len(Halved(s, i)) = Len(s) + 1
         /\ Halved(s, i)[i].lo = s[i].lo
<1> DEFINE mid == s[i].lo + (s[i].hi - s[i].lo + 1) \div 2
           t   == Halved(s, i)
           n   == Len(s)
<1> USE HierarchyAssumption DEF HierarchyAssumption
<1>1. n \in Nat /\ \A k \in 1..n : s[k] \in Chunk /\ s[k].lo \in Key /\ s[k].hi \in Key
  <2>1. n \in Nat /\ \A k \in 1..n : s[k] \in Chunk
    BY LenProperties, ElementOfSeq
  <2> QED
    BY <2>1 DEF Chunk
<1>2. /\ mid \in Key /\ mid - 1 \in Key
      /\ s[i].lo <= mid - 1 /\ mid <= s[i].hi
  <2>1. ASSUME NEW a \in Key, NEW b \in Key, a < b
        PROVE  LET m == a + (b - a + 1) \div 2
               IN  m \in Key /\ m - 1 \in Key /\ a <= m - 1 /\ m <= b
    BY <2>1 DEF Key
  <2>2. s[i].lo \in Key /\ s[i].hi \in Key /\ s[i].lo < s[i].hi
    BY <1>1 DEF Key
  <2> QED
    BY <2>1, <2>2
<1>3. t = [k \in 1..(n + 1) |->
             IF k < i THEN s[k]
             ELSE IF k = i THEN [lo |-> s[i].lo, hi |-> mid - 1]
             ELSE IF k = i + 1 THEN [lo |-> mid, hi |-> s[i].hi]
             ELSE s[k - 1]]
  BY DEF Halved
<1> HIDE DEF mid, t, n
<1>4. /\ \A k \in 1..(n + 1) : k < i => t[k] = s[k] /\ k \in 1..n
      /\ t[i] = [lo |-> s[i].lo, hi |-> mid - 1]
      /\ t[i + 1] = [lo |-> mid, hi |-> s[i].hi]
      /\ \A k \in 1..(n + 1) : k > i + 1 => t[k] = s[k - 1] /\ k - 1 \in 1..n
      /\ i \in 1..(n + 1) /\ i + 1 \in 1..(n + 1)
  BY <1>1, <1>3 DEF n
<1>5. \A k \in 1..(n + 1) : t[k] \in Chunk /\ t[k].lo <= t[k].hi
  <2> TAKE k \in 1..(n + 1)
  <2>0. \A j \in 1..n : s[j].lo <= s[j].hi
    BY DEF Tiles, n
  <2>1. CASE k < i
    BY <2>0, <2>1, <1>1, <1>4
  <2>2. CASE k = i
    BY <2>2, <1>1, <1>2, <1>4 DEF Chunk, n
  <2>3. CASE k = i + 1
    BY <2>3, <1>1, <1>2, <1>4 DEF Chunk, n
  <2>4. CASE k > i + 1
    BY <2>0, <2>4, <1>1, <1>4
  <2> QED
    BY <1>1, <2>1, <2>2, <2>3, <2>4 DEF n
<1>6. t \in [1..(n + 1) -> Chunk]
  <2>1. t = [k \in 1..(n + 1) |-> t[k]]
    BY <1>3, Zenon
  <2> QED
    BY <1>5, <2>1, Zenon
<1>7. t \in Seq(Chunk) /\ Len(t) = n + 1 /\ t # <<>>
  BY <1>1, <1>6, SeqDef, LenProperties, EmptySeq
<1>8. t[1].lo = 1
  <2>0. s[1].lo = 1
    BY DEF Tiles
  <2>1. CASE i = 1
    BY <2>0, <2>1, <1>4
  <2>2. CASE i > 1
    BY <2>0, <2>2, <1>1, <1>4
  <2> QED
    BY <2>1, <2>2 DEF n
<1>9. t[n + 1].hi = N
  <2>0. s[n].hi = N
    BY DEF Tiles, n
  <2>1. CASE i = n
    BY <2>0, <2>1, <1>4
  <2>2. CASE i < n
    BY <2>0, <2>2, <1>1, <1>4
  <2> QED
    BY <2>1, <2>2 DEF n
<1>10. ASSUME NEW k \in 1..n
       PROVE  t[k + 1].lo = t[k].hi + 1
  <2>0. \A j \in 1..(n - 1) : s[j + 1].lo = s[j].hi + 1
    BY DEF Tiles, n
  <2>1. CASE k + 1 < i
    <3>1. t[k + 1] = s[k + 1] /\ t[k] = s[k] /\ k \in 1..(n - 1)
      BY <2>1, <1>1, <1>4 DEF n
    <3> QED
      BY <3>1, <2>0
  <2>2. CASE k + 1 = i
    <3>1. t[k + 1].lo = s[k + 1].lo /\ t[k] = s[k] /\ k \in 1..(n - 1)
      BY <2>2, <1>1, <1>4 DEF n
    <3> QED
      BY <3>1, <2>0
  <2>3. CASE k = i
    BY <2>3, <1>2, <1>4 DEF Key
  <2>4. CASE k = i + 1
    <3>1. t[k + 1] = s[i + 1] /\ t[k].hi = s[i].hi /\ i \in 1..(n - 1)
      BY <2>4, <1>1, <1>4 DEF n
    <3> QED
      BY <3>1, <2>0
  <2>5. CASE k > i + 1
    <3>1. t[k + 1] = s[k] /\ t[k] = s[k - 1] /\ k - 1 \in 1..(n - 1)
      BY <2>5, <1>1, <1>4 DEF n
    <3>2. s[(k - 1) + 1].lo = s[k - 1].hi + 1
      BY <3>1, <2>0
    <3> QED
      BY <3>1, <3>2
  <2> QED
    BY <1>1, <2>1, <2>2, <2>3, <2>4, <2>5 DEF n
<1>11. Tiles(t)
  BY <1>1, <1>5, <1>7, <1>8, <1>9, <1>10 DEF Tiles
<1> QED
  BY <1>4, <1>7, <1>11 DEF t, n

-----------------------------------------------------------------------------
(* Steps                                                                   *)

\* A step that only moves a handler on, out of a place into one where no more
\* is asked of it.
LEMMA MoveKeeps ==
  ASSUME IInv, NEW r \in Run, NEW l, Goto(r, l), UNCHANGED <<kind, loop, table, robbed>>,
         \/ /\ pc[r] \in {"idle", "summarise", "batch"}
            /\ l \in {"summarise", "batch", "failed", "cancelled", "dead"}
         \/ pc[r] = "rest" /\ l = "torn"
         \/ pc[r] = "announce" /\ l \in {"done", "failed", "cancelled", "dead"}
  PROVE  IInv'
<1> USE DEF loop
<1>1. TypeOK'
  BY DEF IInv, TypeOK, Goto, Over
<1>2. ChunksTile'
  BY DEF IInv, ChunksTile, Tiles
<1>3. AskedInv'
  <2>1. \A q \in Run : Frontier(q)' = Frontier(q)
    BY DEF Frontier
  <2>2. ASSUME NEW q \in Run
        PROVE  pc'[q] \in {"rest", "announce", "done"} => at'[q] = Len(chunks'[q]) + 1
    BY DEF IInv, AskedInv, TypeOK, Goto
  <2> QED
    BY <2>1, <2>2 DEF IInv, AskedInv
<1>4. RowsInv'
  <2>1. ShapeInv'
    BY DEF IInv, RowsInv, ShapeInv
  <2>2. ASSUME NEW q \in Run PROVE RowsInvOf(q)'
    <3>1. /\ RowsInvOf(q)
          /\ Nothing(q)' <=> Nothing(q)
          /\ Full(q)' <=> Full(q)
      BY DEF IInv, RowsInv, Nothing, Full
    <3>2. CASE q # r
      <4>1. pc'[q] = pc[q]
        BY <3>2 DEF Goto, IInv, TypeOK
      <4> QED
        BY <3>1, <4>1 DEF RowsInvOf
    <3>3. CASE q = r
      <4>1. pc'[r] = l
        BY DEF Goto, IInv, TypeOK
      <4> QED
        BY <3>1, <3>3, <4>1 DEF RowsInvOf
    <3> QED
      BY <3>2, <3>3
  <2> QED
    BY <2>1, <2>2 DEF RowsInv
<1> QED
  BY <1>1, <1>2, <1>3, <1>4 DEF IInv

\* The beginning of a batch, while there is one.
LEMMA BatchBounds ==
  ASSUME IInv, NEW r \in Run, at[r] <= Len(chunks[r])
  PROVE  /\ at[r] \in 1..Len(chunks[r]) /\ Len(chunks[r]) \in Nat
         /\ chunks[r][at[r]] \in Chunk
         /\ chunks[r][at[r]].lo \in Key /\ chunks[r][at[r]].hi \in Key
         /\ chunks[r][at[r]].lo <= chunks[r][at[r]].hi
<1>1. chunks[r] \in Seq(Chunk) /\ Len(chunks[r]) \in Nat
  BY LenProperties DEF IInv, TypeOK
<1>2. at[r] \in 1..Len(chunks[r])
  BY <1>1 DEF IInv, TypeOK
<1>3. chunks[r][at[r]] \in Chunk
  BY <1>1, <1>2, ElementOfSeq
<1>4. chunks[r][at[r]].lo <= chunks[r][at[r]].hi
  BY <1>2 DEF IInv, ChunksTile, Tiles
<1>5. chunks[r][at[r]].lo \in Key /\ chunks[r][at[r]].hi \in Key
  BY <1>3 DEF Chunk
<1> QED
  BY <1>1, <1>2, <1>3, <1>4, <1>5

\* A batch is dealt with: only the loop moves on, and the clusters grow.
LEMMA AdvanceKeeps ==
  ASSUME IInv, NEW r \in Run, InLoop(r),
         at' = [at EXCEPT ![r] = @ + 1],
         UNCHANGED <<kind, pc, chunks, table, robbed>>,
         placed' \in [Run -> SUBSET Code], clusters' \in [Run -> {"none", "empty", "some"}],
         \A q \in Run \ {r} : placed'[q] = placed[q],
         asked' = [asked EXCEPT ![r] = IF PromptFits(r) THEN @ \cup Batch(r) ELSE @]
  PROVE  IInv'
<1>0. /\ pc[r] = "batch" /\ at[r] <= Len(chunks[r])
      /\ at'[r] = at[r] + 1 /\ at[r] \in Nat \ {0}
      /\ \A q \in Run \ {r} : at'[q] = at[q] /\ asked'[q] = asked[q]
  BY DEF InLoop, IInv, TypeOK
<1>1. /\ at[r] \in 1..Len(chunks[r]) /\ Len(chunks[r]) \in Nat
      /\ chunks[r][at[r]].lo \in Key /\ chunks[r][at[r]].hi \in Key
      /\ chunks[r][at[r]].lo <= chunks[r][at[r]].hi
  BY <1>0, BatchBounds
<1>2. TypeOK'
  <2>1. Batch(r) \subseteq Key
    BY <1>1, HierarchyAssumption DEF HierarchyAssumption, Batch, Key
  <2> QED
    BY <2>1, <1>0 DEF IInv, TypeOK
<1>3. ChunksTile'
  <2>1. \A q \in Run : Tiles(chunks[q]) /\ at[q] <= Len(chunks[q]) + 1
    BY DEF IInv, ChunksTile
  <2>2. at'[r] <= Len(chunks[r]) + 1
    BY <1>0, <1>1
  <2>3. \A q \in Run : Tiles(chunks[q])'
    BY <2>1 DEF Tiles
  <2> QED
    BY <1>0, <2>1, <2>2, <2>3 DEF ChunksTile
<1>4. AskedInv'
  <2>1. ASSUME NEW q \in Run, q # r
        PROVE  Frontier(q)' = Frontier(q) /\ asked'[q] = asked[q] /\ at'[q] = at[q]
    BY <2>1, <1>0 DEF Frontier
  <2>2. ASSUME kind[r] = "group" PROVE asked'[r] = 1..(Frontier(r)')
    <3>1. asked[r] = 1..(chunks[r][at[r]].lo - 1)
      BY <2>2, <1>0 DEF IInv, AskedInv, Frontier
    <3>2. asked'[r] = asked[r] \cup (chunks[r][at[r]].lo .. chunks[r][at[r]].hi)
      BY <2>2 DEF PromptFits, Batch, IInv, TypeOK
    <3>3. asked'[r] = 1..chunks[r][at[r]].hi
      <4>1. ASSUME NEW a \in Key, NEW b \in Key, a <= b
            PROVE  (1..(a - 1)) \cup (a..b) = 1..b
        BY <4>1, HierarchyAssumption DEF HierarchyAssumption, Key
      <4>2. (1..(chunks[r][at[r]].lo - 1)) \cup (chunks[r][at[r]].lo .. chunks[r][at[r]].hi)
              = 1..chunks[r][at[r]].hi
        BY <4>1, <1>1
      <4> QED
        BY <3>1, <3>2, <4>2, Zenon
    <3>4. Frontier(r)' = chunks[r][at[r]].hi
      <4>1. CASE at[r] = Len(chunks[r])
        <5>1. chunks[r][at[r]].hi = N
          BY <4>1 DEF IInv, ChunksTile, Tiles
        <5>2. ~(at'[r] <= Len(chunks'[r]))
          BY <4>1, <1>0, <1>1
        <5> QED
          BY <5>1, <5>2 DEF Frontier
      <4>2. CASE at[r] < Len(chunks[r])
        <5>1. at[r] \in 1..(Len(chunks[r]) - 1)
          BY <4>2, <1>1
        <5>2. chunks[r][at[r] + 1].lo = chunks[r][at[r]].hi + 1
          BY <5>1 DEF IInv, ChunksTile, Tiles
        <5>3. at'[r] <= Len(chunks'[r])
          BY <4>2, <1>0, <1>1
        <5>4. Frontier(r)' = chunks[r][at[r] + 1].lo - 1
          BY <5>3, <1>0 DEF Frontier
        <5> QED
          BY <5>2, <5>4, <1>1, HierarchyAssumption DEF HierarchyAssumption, Key
      <4> QED
        BY <4>1, <4>2, <1>1
    <3> QED
      BY <3>3, <3>4
  <2>3. ASSUME NEW q \in Run, kind'[q] = "group" PROVE asked'[q] = 1..(Frontier(q)')
    BY <2>1, <2>2, <2>3 DEF IInv, AskedInv
  <2>4. ASSUME NEW q \in Run, pc'[q] \in {"rest", "announce", "done"}
        PROVE  at'[q] = Len(chunks'[q]) + 1
    BY <2>1, <2>4, <1>0 DEF IInv, AskedInv
  <2> QED
    BY <2>3, <2>4 DEF AskedInv
<1>5. RowsInv'
  <2>1. Nothing(r)
    BY <1>0 DEF IInv, RowsInv, RowsInvOf
  <2>2. ASSUME NEW x \in table PROVE placed'[x.run] = placed[x.run]
    <3>1. x.run \in Run /\ x.run # r
      BY <2>1 DEF Nothing, IInv, TypeOK, Row
    <3> QED
      BY <3>1
  <2>3. ShapeInv'
    BY <2>2 DEF IInv, RowsInv, ShapeInv
  <2>4. ASSUME NEW q \in Run PROVE RowsInvOf(q)'
    <3>1. /\ RowsInvOf(q)
          /\ Nothing(q)' <=> Nothing(q)
          /\ Full(q)' <=> Full(q)
      BY DEF IInv, RowsInv, Nothing, Full
    <3>2. pc[q] = "rest" => placed'[q] = placed[q]
      BY <1>0
    <3> QED
      BY <3>1, <3>2 DEF RowsInvOf
  <2> QED
    BY <2>3, <2>4 DEF RowsInv
<1> QED
  BY <1>2, <1>3, <1>4, <1>5 DEF IInv

\* A batch is halved: the list changes behind the loop's index only.
LEMMA HalveKeeps ==
  ASSUME IInv, NEW r \in Run, InLoop(r), chunks[r][at[r]].hi > chunks[r][at[r]].lo,
         chunks' = [chunks EXCEPT ![r] = Halved(@, at[r])],
         UNCHANGED <<kind, pc, at, clusters, placed, asked, table, robbed>>
  PROVE  IInv'
<1>0. pc[r] = "batch" /\ at[r] <= Len(chunks[r])
  BY DEF InLoop
<1>1. /\ at[r] \in 1..Len(chunks[r]) /\ Len(chunks[r]) \in Nat
      /\ chunks[r] \in Seq(Chunk) /\ Tiles(chunks[r])
  BY <1>0, BatchBounds DEF IInv, TypeOK, ChunksTile
<1>2. /\ chunks'[r] = Halved(chunks[r], at[r])
      /\ \A q \in Run \ {r} : chunks'[q] = chunks[q]
      /\ chunks' \in [Run -> Seq(Chunk)]
      /\ Tiles(chunks'[r]) /\ Len(chunks'[r]) = Len(chunks[r]) + 1
      /\ chunks'[r][at[r]].lo = chunks[r][at[r]].lo
  <2>1. /\ Halved(chunks[r], at[r]) \in Seq(Chunk) /\ Tiles(Halved(chunks[r], at[r]))
        /\ Len(Halved(chunks[r], at[r])) = Len(chunks[r]) + 1
        /\ Halved(chunks[r], at[r])[at[r]].lo = chunks[r][at[r]].lo
    BY <1>1, HalvedTile
  <2>2. /\ chunks'[r] = Halved(chunks[r], at[r])
        /\ \A q \in Run \ {r} : chunks'[q] = chunks[q]
        /\ chunks' \in [Run -> Seq(Chunk)]
    BY <2>1 DEF IInv, TypeOK
  <2> QED
    BY <2>1, <2>2
<1>3. TypeOK'
  BY <1>2 DEF IInv, TypeOK
<1>4. ChunksTile'
  <2>1. ASSUME NEW q \in Run PROVE Tiles(chunks'[q]) /\ at'[q] <= Len(chunks'[q]) + 1
    <3>1. CASE q = r
      BY <3>1, <1>1, <1>2
    <3>2. CASE q # r
      BY <3>2, <1>2 DEF IInv, ChunksTile
    <3> QED
      BY <3>1, <3>2
  <2> QED
    BY <2>1 DEF ChunksTile, Tiles
<1>5. AskedInv'
  <2>1. ASSUME NEW q \in Run PROVE Frontier(q)' = Frontier(q)
    <3>1. CASE q = r
      BY <3>1, <1>0, <1>1, <1>2 DEF Frontier
    <3>2. CASE q # r
      BY <3>2, <1>2 DEF Frontier
    <3> QED
      BY <3>1, <3>2
  <2>2. ASSUME NEW q \in Run, pc'[q] \in {"rest", "announce", "done"}
        PROVE  at'[q] = Len(chunks'[q]) + 1
    BY <2>2, <1>0, <1>2 DEF IInv, AskedInv
  <2> QED
    BY <2>1, <2>2 DEF IInv, AskedInv
<1>6. RowsInv'
  BY DEF IInv, RowsInv, ShapeInv, RowsInvOf, Nothing, Full
<1> QED
  BY <1>3, <1>4, <1>5, <1>6 DEF IInv

\* A deletion: nothing is left of anybody, and who had rows is robbed.
LEMMA ClearKeeps ==
  ASSUME IInv, NEW r \in Run, Clear(r)
  PROVE  IInv'
<1> USE DEF loop
<1>0. /\ pc[r] = "summarise" /\ pc'[r] = "batch" /\ table' = {}
      /\ \A q \in Run \ {r} : pc'[q] = pc[q]
      /\ \A q \in Run : robbed'[q] <=> (robbed[q] \/ Stored(q) # {})
  BY DEF Clear, Goto, IInv, TypeOK
<1>1. TypeOK'
  <2>1. robbed' \in [Run -> BOOLEAN]
    BY DEF Clear
  <2> QED
    BY <2>1 DEF IInv, TypeOK, Clear, Goto, Row
<1>2. ChunksTile'
  BY DEF IInv, ChunksTile, Tiles, Clear
<1>3. AskedInv'
  <2>1. \A q \in Run : Frontier(q)' = Frontier(q)
    BY DEF Frontier, Clear
  <2>2. ASSUME NEW q \in Run
        PROVE  pc'[q] \in {"rest", "announce", "done"} => at'[q] = Len(chunks'[q]) + 1
    BY <1>0 DEF IInv, AskedInv, Clear
  <2> QED
    BY <2>1, <2>2 DEF IInv, AskedInv, Clear
<1>4. RowsInv'
  <2>1. ShapeInv'
    BY <1>0 DEF ShapeInv
  <2>2. ASSUME NEW q \in Run PROVE RowsInvOf(q)'
    <3>1. Nothing(q)'
      BY <1>0 DEF Nothing
    <3>2. ASSUME NEW x \in table, x.run = q PROVE robbed'[q]
      BY <3>2, <1>0 DEF Stored
    <3>3. ASSUME pc'[q] = "rest", ~robbed'[q], NEW c \in placed'[q] PROVE FALSE
      <4>1. /\ pc[q] = "rest" /\ ~robbed[q] /\ c \in placed[q]
        BY <3>3, <1>0 DEF Clear
      <4>2. [run |-> q, code |-> c, placed |-> TRUE] \in table
        BY <4>1 DEF IInv, RowsInv, RowsInvOf
      <4> QED
        BY <4>2, <3>2, <3>3
    <3>4. ASSUME pc'[q] \in {"announce", "done"}, ~robbed'[q] PROVE FALSE
      <4>1. pc[q] \in {"announce", "done"} /\ ~robbed[q]
        BY <3>4, <1>0
      <4>2. Full(q) /\ 1 \in Key
        BY <4>1, HierarchyAssumption DEF IInv, RowsInv, RowsInvOf, HierarchyAssumption, Key
      <4>3. PICK b \in BOOLEAN : [run |-> q, code |-> 1, placed |-> b] \in table
        BY <4>2 DEF Full
      <4> QED
        BY <4>3, <3>2, <3>4
    <3> QED
      BY <3>1, <3>3, <3>4, <1>0 DEF RowsInvOf
  <2> QED
    BY <2>1, <2>2 DEF RowsInv
<1> QED
  BY <1>1, <1>2, <1>3, <1>4 DEF IInv

\* What an insertion of one run's rows leaves alone: the other runs.
LEMMA OthersKeep ==
  ASSUME IInv, NEW r \in Run, NEW l, Goto(r, l), UNCHANGED <<kind, loop, robbed>>,
         NEW rows, \A x \in rows : x \in Row /\ x.run = r, table' = table \cup rows,
         NEW q \in Run, q # r
  PROVE  RowsInvOf(q)'
<1>1. /\ Nothing(q)' <=> Nothing(q)
      /\ Full(q)' <=> Full(q)
      /\ \A x : x.run = q => (x \in table' <=> x \in table)
  <2>1. \A x : x.run = q => (x \in table' <=> x \in table)
    OBVIOUS
  <2>2. \A c, b : [run |-> q, code |-> c, placed |-> b].run = q
    OBVIOUS
  <2> QED
    BY <2>1, <2>2 DEF Nothing, Full
<1>2. pc'[q] = pc[q] /\ placed'[q] = placed[q] /\ robbed'[q] = robbed[q]
  BY DEF Goto, IInv, TypeOK, loop
<1>3. \A c : [run |-> q, code |-> c, placed |-> TRUE].run = q
  OBVIOUS
<1>4. RowsInvOf(q)
  BY DEF IInv, RowsInv
<1> QED
  BY <1>1, <1>2, <1>3, <1>4 DEF RowsInvOf

\* An insertion moves its run on and changes nothing in the loop.
LEMMA StoreKeepsLoop ==
  ASSUME IInv, NEW r \in Run, NEW l, Goto(r, l), UNCHANGED <<kind, loop, robbed>>,
         pc[r] \in {"batch", "rest"}, l \in {"rest", "announce", "done"},
         at[r] = Len(chunks[r]) + 1,
         NEW rows, \A x \in rows : x \in Row, table' = table \cup rows
  PROVE  TypeOK' /\ ChunksTile' /\ AskedInv'
<1> USE DEF loop
<1>1. TypeOK'
  BY DEF IInv, TypeOK, Goto, Over
<1>2. ChunksTile'
  BY DEF IInv, ChunksTile, Tiles
<1>3. AskedInv'
  <2>1. \A q \in Run : Frontier(q)' = Frontier(q)
    BY DEF Frontier
  <2>2. ASSUME NEW q \in Run
        PROVE  pc'[q] \in {"rest", "announce", "done"} => at'[q] = Len(chunks'[q]) + 1
    BY DEF IInv, AskedInv, TypeOK, Goto
  <2> QED
    BY <2>1, <2>2 DEF IInv, AskedInv
<1> QED
  BY <1>1, <1>2, <1>3

\* The first insertion.
LEMMA StorePlacedKeeps ==
  ASSUME IInv, NEW r \in Run, StorePlaced(r)
  PROVE  IInv'
<1> DEFINE rows == {[run |-> r, code |-> c, placed |-> TRUE] : c \in placed[r]}
<1>0. /\ pc[r] = "batch" /\ at[r] > Len(chunks[r]) /\ table' = table \cup rows
      /\ Goto(r, "rest") /\ UNCHANGED <<kind, loop, robbed>>
  BY DEF StorePlaced
<1>1. at[r] = Len(chunks[r]) + 1
  BY <1>0, LenProperties DEF IInv, TypeOK, ChunksTile
<1>2. \A x \in rows : x \in Row /\ x.run = r /\ x.placed /\ x.code \in placed[r]
  <2> TAKE x \in rows
  <2>1. PICK c \in placed[r] : x = [run |-> r, code |-> c, placed |-> TRUE]
    OBVIOUS
  <2>2. c \in Code
    BY DEF IInv, TypeOK
  <2> QED
    BY <2>1, <2>2 DEF Row
<1>3. TypeOK' /\ ChunksTile' /\ AskedInv'
  <2> HIDE DEF rows
  <2> QED
    BY <1>0, <1>1, <1>2, StoreKeepsLoop
<1>4. ShapeInv'
  <2>1. placed' = placed
    BY <1>0 DEF loop
  <2> HIDE DEF rows
  <2> QED
    BY <1>0, <1>2, <2>1 DEF IInv, RowsInv, ShapeInv
<1>5. RowsInvOf(r)'
  <2>1. pc'[r] = "rest" /\ placed' = placed
    BY <1>0 DEF Goto, IInv, TypeOK, loop
  <2>2. Nothing(r)
    BY <1>0 DEF IInv, RowsInv, RowsInvOf
  <2>3. \A x \in table' : x.run = r => x.placed
    <3> HIDE DEF rows
    <3> QED
      BY <1>0, <1>2, <2>2 DEF Nothing
  <2>4. \A c \in placed[r] : [run |-> r, code |-> c, placed |-> TRUE] \in table'
    BY <1>0
  <2> QED
    BY <2>1, <2>3, <2>4 DEF RowsInvOf
<1>6. ASSUME NEW q \in Run, q # r PROVE RowsInvOf(q)'
  <2> HIDE DEF rows
  <2> QED
    <3>1. \A x \in rows : x \in Row /\ x.run = r
      BY <1>2, Zenon
    <3> QED
      BY <1>0, <1>6, <3>1, OthersKeep, Zenon
<1> QED
  BY <1>3, <1>4, <1>5, <1>6 DEF IInv, RowsInv

\* The second insertion: now every code is there, once.
LEMMA StoreRestKeeps ==
  ASSUME IInv, NEW r \in Run, StoreRest(r)
  PROVE  IInv'
<1> DEFINE rows == {[run |-> r, code |-> c, placed |-> FALSE] : c \in Unplaced(r)}
           l == IF kind[r] \in {"theme", "redo"} THEN "announce" ELSE "done"
<1> USE HierarchyAssumption DEF HierarchyAssumption
<1>0. /\ pc[r] = "rest" /\ table' = table \cup rows
      /\ Goto(r, l) /\ UNCHANGED <<kind, loop, robbed>> /\ l \in {"announce", "done"}
  BY DEF StoreRest
<1>1. at[r] = Len(chunks[r]) + 1
  BY <1>0 DEF IInv, AskedInv
<1>2. /\ Unplaced(r) \subseteq Key \cup {NoCode}
      /\ \A c \in Unplaced(r) : c \notin placed[r]
      /\ \A c \in Key : c \in Unplaced(r) <=> c \notin placed[r]
  <2>1. placed[r] \subseteq Code /\ NoCode \notin Code /\ NoCode \notin Key
    BY DEF IInv, TypeOK, Code, Key, NoCode, Invented
  <2> QED
    BY <2>1 DEF Unplaced
<1>3. \A x \in rows : x \in Row /\ x.run = r /\ ~x.placed /\ x.code \notin placed[r]
  <2> TAKE x \in rows
  <2>1. PICK c \in Unplaced(r) : x = [run |-> r, code |-> c, placed |-> FALSE]
    OBVIOUS
  <2>2. c \in Code \cup {NoCode} /\ c \notin placed[r]
    BY <1>2 DEF Code
  <2> QED
    BY <2>1, <2>2 DEF Row
<1>4. placed' = placed /\ pc'[r] = l /\ robbed' = robbed
  BY <1>0 DEF Goto, IInv, TypeOK, loop
<1>5. TypeOK' /\ ChunksTile' /\ AskedInv'
  <2> HIDE DEF rows, l
  <2> QED
    BY <1>0, <1>1, <1>3, StoreKeepsLoop
<1>6. ShapeInv'
  <2> HIDE DEF rows
  <2> QED
    BY <1>0, <1>3, <1>4 DEF IInv, RowsInv, ShapeInv
<1>7. RowsInvOf(r)'
  <2>1. ASSUME ~robbed[r], NEW c \in Key
        PROVE  \E b \in BOOLEAN :
                 /\ [run |-> r, code |-> c, placed |-> b] \in table'
                 /\ [run |-> r, code |-> c, placed |-> ~b] \notin table'
    <3> DEFINE in  == [run |-> r, code |-> c, placed |-> TRUE]
               out == [run |-> r, code |-> c, placed |-> FALSE]
    <3>1. in.run = r /\ in.placed /\ out.run = r /\ ~out.placed /\ in.code = c /\ out.code = c
      OBVIOUS
    <3>2. out \notin table
      BY <1>0, <3>1 DEF IInv, RowsInv, RowsInvOf
    <3>3. CASE c \in placed[r]
      <4>1. in \in table
        BY <1>0, <2>1, <3>3 DEF IInv, RowsInv, RowsInvOf
      <4>2. out \notin rows
        BY <1>3, <3>1, <3>3
      <4> QED
        BY <1>0, <3>2, <4>1, <4>2
    <3>4. CASE c \notin placed[r]
      <4>1. out \in rows
        BY <1>2, <3>4
      <4>2. in \notin rows
        BY <1>3, <3>1
      <4>3. in \notin table
        BY <3>1, <3>4 DEF IInv, RowsInv, ShapeInv
      <4> QED
        BY <1>0, <4>1, <4>2, <4>3
    <3> QED
      BY <3>3, <3>4
  <2>2. ~robbed[r] => Full(r)'
    BY <2>1 DEF Full
  <2> QED
    BY <1>0, <1>4, <2>2 DEF RowsInvOf
<1>8. ASSUME NEW q \in Run, q # r PROVE RowsInvOf(q)'
  <2> HIDE DEF rows, l
  <2> QED
    <3>1. \A x \in rows : x \in Row /\ x.run = r
      BY <1>3, Zenon
    <3> QED
      BY <1>0, <1>8, <3>1, OthersKeep, Zenon
<1> QED
  BY <1>5, <1>6, <1>7, <1>8 DEF IInv, RowsInv

\* Every step keeps the invariant.
LEMMA NextIInv == IInv /\ [Next]_vars => IInv'
<1> SUFFICES ASSUME IInv, [Next]_vars PROVE IInv'
  OBVIOUS
<1>1. CASE UNCHANGED vars
  <2>1. \A r \in Run : Frontier(r)' = Frontier(r) /\ (RowsInvOf(r)' <=> RowsInvOf(r))
    BY <1>1 DEF vars, loop, Frontier, RowsInvOf, Nothing, Full
  <2>2. TypeOK'
    BY <1>1 DEF vars, loop, IInv, TypeOK
  <2>3. ChunksTile'
    BY <1>1 DEF vars, loop, IInv, ChunksTile, Tiles
  <2>4. AskedInv' /\ RowsInv'
    BY <1>1, <2>1 DEF vars, loop, IInv, AskedInv, RowsInv, ShapeInv
  <2> QED
    BY <2>2, <2>3, <2>4 DEF IInv
<1>2. ASSUME NEW r \in Run, Begin(r) PROVE IInv'
  BY <1>2, MoveKeeps DEF Begin
<1>3. ASSUME NEW r \in Run, SummariseRaises(r) PROVE IInv'
  BY <1>3, MoveKeeps DEF SummariseRaises
<1>4. ASSUME NEW r \in Run, Clear(r) PROVE IInv'
  BY <1>4, ClearKeeps
<1>5. ASSUME NEW r \in Run, ClearFails(r) PROVE IInv'
  BY <1>5, MoveKeeps DEF ClearFails
<1>6. ASSUME NEW r \in Run, ContinueRaises(r) PROVE IInv'
  BY <1>6, MoveKeeps DEF ContinueRaises, InLoop
<1>7. ASSUME NEW r \in Run, Answered(r) PROVE IInv'
  <2>1. PICK codes \in SUBSET Code : placed' = [placed EXCEPT ![r] = @ \cup codes]
    BY <1>7 DEF Answered
  <2>2. /\ placed' \in [Run -> SUBSET Code]
        /\ \A q \in Run \ {r} : placed'[q] = placed[q]
    BY <2>1 DEF IInv, TypeOK
  <2>3. clusters' \in [Run -> {"none", "empty", "some"}]
    BY <1>7 DEF Answered, IInv, TypeOK
  <2>4. asked' = [asked EXCEPT ![r] = IF PromptFits(r) THEN @ \cup Batch(r) ELSE @]
    BY <1>7 DEF Answered
  <2> QED
    BY <1>7, <2>2, <2>3, <2>4, AdvanceKeeps DEF Answered
<1>8. ASSUME NEW r \in Run, Malformed(r) PROVE IInv'
  BY <1>8, MoveKeeps DEF Malformed, InLoop
<1>9. ASSUME NEW r \in Run, GaveUp(r) PROVE IInv'
  <2>1. /\ placed' \in [Run -> SUBSET Code]
        /\ \A q \in Run \ {r} : placed'[q] = placed[q]
        /\ clusters' \in [Run -> {"none", "empty", "some"}]
    BY <1>9 DEF GaveUp, IInv, TypeOK
  <2> QED
    BY <1>9, <2>1, AdvanceKeeps DEF GaveUp
<1>10. ASSUME NEW r \in Run, TaskRaises(r) PROVE IInv'
  <2>1. CASE chunks[r][at[r]].hi > chunks[r][at[r]].lo
    BY <1>10, <2>1, HalveKeeps DEF TaskRaises
  <2>2. CASE ~(chunks[r][at[r]].hi > chunks[r][at[r]].lo)
    BY <1>10, <2>2, MoveKeeps DEF TaskRaises, InLoop, loop
  <2> QED
    BY <2>1, <2>2
<1>11. ASSUME NEW r \in Run, StorePlaced(r) PROVE IInv'
  BY <1>11, StorePlacedKeeps
<1>12. ASSUME NEW r \in Run, StorePlacedFails(r) PROVE IInv'
  BY <1>12, MoveKeeps DEF StorePlacedFails
<1>13. ASSUME NEW r \in Run, StoreRest(r) PROVE IInv'
  BY <1>13, StoreRestKeeps
<1>14. ASSUME NEW r \in Run, StoreRestFails(r) PROVE IInv'
  BY <1>14, MoveKeeps DEF StoreRestFails
<1>15. ASSUME NEW r \in Run, Announce(r) PROVE IInv'
  BY <1>15, MoveKeeps DEF Announce
<1>16. ASSUME NEW r \in Run, Cancel(r) PROVE IInv'
  BY <1>16, MoveKeeps DEF Cancel, Awaits
<1>17. ASSUME NEW r \in Run, Die(r) PROVE IInv'
  BY <1>17, MoveKeeps DEF Die, Awaits
<1> QED
  BY <1>1, <1>2, <1>3, <1>4, <1>5, <1>6, <1>7, <1>8, <1>9, <1>10, <1>11, <1>12, <1>13,
     <1>14, <1>15, <1>16, <1>17 DEF Next, Step

LEMMA InitIInv == Init => IInv
<1> SUFFICES ASSUME Init PROVE IInv
  OBVIOUS
<1>1. \A r \in Run : /\ chunks[r] = FixedChunks /\ at[r] = 1
                     /\ pc[r] = "idle" /\ asked[r] = {}
  BY DEF Init
<1>2. FixedChunks \in Seq(Chunk) /\ Tiles(FixedChunks)
  BY FixedTile
<1>3. Len(FixedChunks) \in Nat \ {0} /\ FixedChunks[1].lo = 1
  BY <1>2, LenProperties, EmptySeq DEF Tiles
<1>4. TypeOK
  BY <1>2 DEF Init, TypeOK
<1>5. ChunksTile
  <2>1. ASSUME NEW r \in Run PROVE Tiles(chunks[r]) /\ at[r] <= Len(chunks[r]) + 1
    <3>1. Tiles(chunks[r])
      BY <1>1, <1>2, Zenon
    <3>2. Len(chunks[r]) = Len(FixedChunks) /\ at[r] = 1
      BY <1>1, Zenon
    <3> QED
      BY <1>3, <3>1, <3>2
  <2> QED
    BY <2>1 DEF ChunksTile
<1>6. AskedInv
  <2>1. ASSUME NEW r \in Run PROVE Frontier(r) = 0
    <3>1. Len(chunks[r]) = Len(FixedChunks) /\ chunks[r][at[r]].lo = FixedChunks[1].lo /\ at[r] = 1
      BY <1>1, Zenon
    <3> QED
      BY <1>3, <3>1 DEF Frontier
  <2>2. 1..0 = {}
    OBVIOUS
  <2> QED
    BY <1>1, <2>1, <2>2 DEF AskedInv
<1>7. RowsInv
  BY <1>1 DEF Init, RowsInv, ShapeInv, RowsInvOf, Nothing
<1> QED
  BY <1>4, <1>5, <1>6, <1>7 DEF IInv

-----------------------------------------------------------------------------
(* Theorems                                                                *)

\* The invariant holds: the types, the partition and what runs have stored.
THEOREM Inductive == Spec => []IInv
<1> QED
  BY InitIInv, NextIInv, PTL DEF Spec

\* Every variable keeps its type.
THEOREM TypeCorrect == Spec => []TypeOK
<1>1. IInv => TypeOK
  BY DEF IInv
<1> QED
  BY Inductive, <1>1, PTL

\* The batches hold every code exactly once, however often the loop of
\* batch_llm_hierarchy halves them.
THEOREM BatchesTile == Spec => []ChunksTile
<1>1. IInv => ChunksTile
  BY DEF IInv
<1> QED
  BY Inductive, <1>1, PTL

\* A run that gets to its end has every code in the table, once.
THEOREM CodesKept == Spec => []EveryCodeKept
<1>1. IInv => EveryCodeKept
  BY DEF IInv, RowsInv, RowsInvOf, Full, EveryCodeKept
<1> QED
  BY Inductive, <1>1, PTL

\* A run that is over has stored nothing or all of it.
THEOREM AllOrNothing == Spec => []WholeOrNothing
<1>1. IInv => WholeOrNothing
  <2> SUFFICES ASSUME IInv, NEW r \in Run, pc[r] \in Over \ {"torn"}, ~robbed[r]
               PROVE  Stored(r) = {} \/ Key \subseteq Stored(r)
    BY DEF WholeOrNothing
  <2>1. Nothing(r) \/ Full(r)
    BY DEF IInv, RowsInv, RowsInvOf, Over
  <2>2. CASE Nothing(r)
    BY <2>2 DEF Nothing, Stored
  <2>3. ASSUME Full(r), NEW c \in Key PROVE c \in Stored(r)
    <3>1. PICK b \in BOOLEAN : [run |-> r, code |-> c, placed |-> b] \in table
      BY <2>3 DEF Full
    <3> DEFINE row == [run |-> r, code |-> c, placed |-> b]
    <3>2. row \in {x \in table : x.run = r} /\ row.code = c
      BY <3>1
    <3> QED
      BY <3>2 DEF Stored
  <2> QED
    BY <2>1, <2>2, <2>3
<1> QED
  BY Inductive, <1>1, PTL

\* A new grouping that ends well has put every code to the LLM.
THEOREM GroupingAsks == Spec => []GroupingAsksAll
<1>1. IInv => GroupingAsksAll
  <2> SUFFICES ASSUME IInv, NEW r \in Run, pc[r] = "done", kind[r] = "group"
               PROVE  asked[r] = Key
    BY DEF GroupingAsksAll
  <2>1. Len(chunks[r]) \in Nat /\ at[r] = Len(chunks[r]) + 1
    BY LenProperties DEF IInv, TypeOK, AskedInv
  <2>2. Frontier(r) = N
    BY <2>1 DEF Frontier
  <2> QED
    BY <2>2 DEF IInv, AskedInv, Key
<1> QED
  BY Inductive, <1>1, PTL

-----------------------------------------------------------------------------
(* How far the other routes get                                            *)

\* The prompt of the first batch is the only one that a route other than
\* group-codes can build; theme routes do not come past a first batch with
\* clusters.
FirstInvOf(r) ==
  /\ chunks[r][1].hi <= ChunkSize
  /\ at[r] = 1 => clusters[r] = "none" /\ asked[r] = {}
  /\ at[r] > 1 => clusters[r] # "none"
  /\ at[r] > 1 /\ kind[r] # "group" => asked[r] = 1..chunks[r][1].hi
  /\ kind[r] \in {"theme", "redo"} /\ clusters[r] = "some" => at[r] = 2

FirstInv == \A r \in Run : FirstInvOf(r)

\* A route other than group-codes that ends well has put the codes of its
\* first batch to the LLM, and no others.
FirstBatchAsked ==
  \A r \in Run : pc[r] = "done" /\ kind[r] # "group" =>
    asked[r] = 1..chunks[r][1].hi /\ chunks[r][1].hi <= ChunkSize

\* A theme route that has clusters to insert has put every code to the LLM.
ThemesAskAll ==
  \A r \in Run : pc[r] \in {"rest", "announce", "done"} /\ kind[r] \in {"theme", "redo"}
                 /\ clusters[r] = "some" => asked[r] = Key

\* A run whose loop and first batch stand still.
LEMMA FirstSame ==
  ASSUME NEW r \in Run, FirstInvOf(r), kind' = kind, chunks'[r][1] = chunks[r][1], at'[r] = at[r],
         clusters'[r] = clusters[r], asked'[r] = asked[r]
  PROVE  FirstInvOf(r)'
BY DEF FirstInvOf

\* A batch is dealt with: the first is asked, of the others those of a
\* grouping.
LEMMA FirstAdvances ==
  ASSUME IInv, FirstInv, NEW r \in Run, InLoop(r),
         at' = [at EXCEPT ![r] = @ + 1], UNCHANGED <<kind, chunks>>,
         \A q \in Run \ {r} : clusters'[q] = clusters[q],
         clusters'[r] # "none",
         kind[r] \in {"theme", "redo"} /\ clusters'[r] = "some" => clusters[r] = "none",
         asked' = [asked EXCEPT ![r] = IF PromptFits(r) THEN @ \cup Batch(r) ELSE @]
  PROVE  FirstInv'
<1>0. /\ at'[r] = at[r] + 1 /\ at[r] \in Nat \ {0}
      /\ asked'[r] = IF PromptFits(r) THEN asked[r] \cup Batch(r) ELSE asked[r]
      /\ \A q \in Run \ {r} : at'[q] = at[q] /\ asked'[q] = asked[q]
  BY DEF IInv, TypeOK
<1>1. FirstInvOf(r)
  BY DEF FirstInv
<1>2. ASSUME kind[r] # "group" PROVE asked'[r] = 1..chunks[r][1].hi
  <2>1. CASE at[r] = 1
    <3>1. PromptFits(r) /\ asked[r] = {}
      BY <1>1, <2>1 DEF FirstInvOf, PromptFits
    <3>2. Batch(r) = 1..chunks[r][1].hi
      BY <2>1 DEF Batch, IInv, ChunksTile, Tiles
    <3> QED
      BY <1>0, <3>1, <3>2
  <2>2. CASE at[r] > 1
    <3>1. ~PromptFits(r) /\ asked[r] = 1..chunks[r][1].hi
      BY <1>1, <1>2, <2>2 DEF FirstInvOf, PromptFits
    <3> QED
      BY <1>0, <3>1
  <2> QED
    BY <1>0, <2>1, <2>2
<1>3. FirstInvOf(r)'
  <2>1. kind[r] \in {"theme", "redo"} /\ clusters'[r] = "some" => at[r] = 1
    <3>1. clusters[r] = "none" => ~(at[r] > 1)
      BY <1>1 DEF FirstInvOf
    <3> QED
      BY <1>0, <3>1
  <2>2. chunks[r][1].hi <= ChunkSize
    BY <1>1 DEF FirstInvOf
  <2> QED
    BY <1>0, <1>2, <2>1, <2>2 DEF FirstInvOf
<1>4. ASSUME NEW q \in Run, q # r PROVE FirstInvOf(q)'
  BY <1>0, <1>4, FirstSame DEF FirstInv
<1> QED
  BY <1>3, <1>4 DEF FirstInv

\* A batch is halved: the first batch only shrinks, and only before it is
\* asked.
LEMMA FirstHalves ==
  ASSUME IInv, FirstInv, NEW r \in Run, InLoop(r), chunks[r][at[r]].hi > chunks[r][at[r]].lo,
         chunks' = [chunks EXCEPT ![r] = Halved(@, at[r])],
         UNCHANGED <<kind, at, clusters, asked>>
  PROVE  FirstInv'
<1> DEFINE s == chunks[r]
<1>0. /\ at[r] \in 1..Len(s) /\ Len(s) \in Nat /\ s \in Seq(Chunk) /\ Tiles(s)
  BY BatchBounds DEF InLoop, IInv, TypeOK, ChunksTile
<1>1. /\ chunks'[r] = Halved(s, at[r])
      /\ \A q \in Run \ {r} : chunks'[q] = chunks[q]
  BY DEF IInv, TypeOK
<1>2. FirstInvOf(r) /\ ChunkSize \in Nat
  BY HierarchyAssumption DEF FirstInv, HierarchyAssumption
<1>3. CASE at[r] > 1
  <2>1. 1 \in 1..(Len(s) + 1) /\ 1 < at[r]
    BY <1>0, <1>3
  <2>2. Halved(s, at[r])[1] = s[1]
    BY <2>1 DEF Halved
  <2> QED
    BY <1>1, <1>2, <2>2, FirstSame DEF FirstInv
<1>4. CASE at[r] = 1
  <2>1. /\ Halved(s, 1) \in Seq(Chunk) /\ Tiles(Halved(s, 1)) /\ Len(Halved(s, 1)) = Len(s) + 1
    BY <1>0, <1>4, HalvedTile
  <2>2. Halved(s, 1)[2].hi = s[1].hi
    BY <1>0, <1>4 DEF Halved
  <2>3. /\ Halved(s, 1)[2].lo = Halved(s, 1)[1].hi + 1
        /\ Halved(s, 1)[2].lo <= Halved(s, 1)[2].hi
    BY <1>0, <1>4, <2>1 DEF Tiles
  <2>4. Halved(s, 1)[1].hi \in Nat /\ s[1].hi \in Nat
    <3>1. Halved(s, 1)[1] \in Chunk /\ s[1] \in Chunk
      BY <1>0, <1>4, <2>1, ElementOfSeq
    <3> QED
      BY <3>1 DEF Chunk, Key
  <2>5. chunks'[r][1].hi <= ChunkSize
    BY <1>1, <1>2, <1>4, <2>2, <2>3, <2>4 DEF FirstInvOf
  <2>6. FirstInvOf(r)'
    BY <1>2, <1>4, <2>5 DEF FirstInvOf
  <2> QED
    BY <1>1, <2>6, FirstSame DEF FirstInv
<1> QED
  BY <1>0, <1>3, <1>4

LEMMA NextFirst == IInv /\ FirstInv /\ [Next]_vars => FirstInv'
<1> SUFFICES ASSUME IInv, FirstInv, [Next]_vars PROVE FirstInv'
  OBVIOUS
<1>1. ASSUME UNCHANGED <<kind, loop>> PROVE FirstInv'
  BY <1>1, FirstSame DEF loop, FirstInv
<1>2. ASSUME NEW r \in Run, Answered(r) PROVE FirstInv'
  <2>1. PICK some \in {"some", "empty"} :
          clusters' = [clusters EXCEPT ![r] = IF @ = "some" THEN @ ELSE some]
    BY <1>2 DEF Answered
  <2>2. clusters'[r] # "none" /\ \A q \in Run \ {r} : clusters'[q] = clusters[q]
    BY <2>1 DEF IInv, TypeOK
  <2>3. /\ InLoop(r) /\ PromptFits(r) /\ UNCHANGED <<kind, chunks>>
        /\ at' = [at EXCEPT ![r] = @ + 1]
        /\ asked' = [asked EXCEPT ![r] = IF PromptFits(r) THEN @ \cup Batch(r) ELSE @]
    BY <1>2 DEF Answered
  <2>4. kind[r] \in {"theme", "redo"} => clusters[r] = "none"
    BY <2>3 DEF PromptFits
  <2> QED
    BY <2>2, <2>3, <2>4, FirstAdvances
<1>3. ASSUME NEW r \in Run, GaveUp(r) PROVE FirstInv'
  <2>1. /\ InLoop(r) /\ ~NamesRaise(r) /\ UNCHANGED <<kind, chunks>>
        /\ at' = [at EXCEPT ![r] = @ + 1]
        /\ asked' = [asked EXCEPT ![r] = IF PromptFits(r) THEN @ \cup Batch(r) ELSE @]
        /\ clusters' = [clusters EXCEPT ![r] = IF @ = "none" THEN "empty" ELSE @]
    BY <1>3 DEF GaveUp
  <2>2. /\ clusters'[r] = IF clusters[r] = "none" THEN "empty" ELSE clusters[r]
        /\ \A q \in Run \ {r} : clusters'[q] = clusters[q]
    BY <2>1 DEF IInv, TypeOK
  <2>3. clusters'[r] # "none" /\ (kind[r] \in {"theme", "redo"} => clusters'[r] # "some")
    BY <2>1, <2>2 DEF NamesRaise
  <2> QED
    BY <2>1, <2>2, <2>3, FirstAdvances
<1>4. ASSUME NEW r \in Run, TaskRaises(r) PROVE FirstInv'
  <2>1. CASE chunks[r][at[r]].hi > chunks[r][at[r]].lo
    BY <1>4, <2>1, FirstHalves DEF TaskRaises
  <2>2. CASE ~(chunks[r][at[r]].hi > chunks[r][at[r]].lo)
    BY <1>1, <1>4, <2>2 DEF TaskRaises, loop
  <2> QED
    BY <2>1, <2>2
<1>5. ASSUME NEW r \in Run, Begin(r) \/ Cancel(r) \/ Die(r) PROVE FirstInv'
  BY <1>1, <1>5 DEF Begin, Cancel, Die
<1>6. ASSUME NEW r \in Run, SummariseRaises(r) \/ Clear(r) \/ ClearFails(r) PROVE FirstInv'
  BY <1>1, <1>6 DEF SummariseRaises, Clear, ClearFails
<1>7. ASSUME NEW r \in Run, ContinueRaises(r) \/ Malformed(r) \/ Announce(r) PROVE FirstInv'
  BY <1>1, <1>7 DEF ContinueRaises, Malformed, Announce
<1>8. ASSUME NEW r \in Run, StorePlaced(r) \/ StorePlacedFails(r) PROVE FirstInv'
  BY <1>1, <1>8 DEF StorePlaced, StorePlacedFails
<1>9. ASSUME NEW r \in Run, StoreRest(r) \/ StoreRestFails(r) PROVE FirstInv'
  BY <1>1, <1>9 DEF StoreRest, StoreRestFails
<1>10. CASE UNCHANGED vars
  BY <1>1, <1>10 DEF vars
<1> QED
  BY <1>2, <1>3, <1>4, <1>5, <1>6, <1>7, <1>8, <1>9, <1>10 DEF Next, Step

LEMMA InitFirst == Init => FirstInv
<1> SUFFICES ASSUME Init, NEW r \in Run PROVE FirstInvOf(r)
  BY DEF FirstInv
<1>1. /\ chunks[r] = FixedChunks /\ at[r] = 1 /\ clusters[r] = "none" /\ asked[r] = {}
  BY DEF Init
<1>2. FixedChunks \in Seq(Chunk) /\ FixedChunks # <<>>
  BY FixedTile DEF Tiles
<1>3. FixedChunks[1].hi <= ChunkSize
  <2>1. 1 \in DOMAIN FixedChunks
    BY <1>2, LenProperties, EmptySeq
  <2>2. FixedChunks[1].hi = IF 1 * ChunkSize <= N THEN 1 * ChunkSize ELSE N
    BY <2>1 DEF FixedChunks
  <2> QED
    BY <2>2, HierarchyAssumption DEF HierarchyAssumption
<1> QED
  BY <1>1, <1>3 DEF FirstInvOf

\* At the end of the loop every batch is behind it, and there was one.
LEMMA LoopOver ==
  ASSUME IInv, NEW r \in Run, pc[r] \in {"rest", "announce", "done"}
  PROVE  at[r] = Len(chunks[r]) + 1 /\ Len(chunks[r]) \in Nat \ {0}
<1>1. chunks[r] \in Seq(Chunk) /\ chunks[r] # <<>> /\ at[r] = Len(chunks[r]) + 1
  BY DEF IInv, TypeOK, ChunksTile, Tiles, AskedInv
<1> QED
  BY <1>1, LenProperties, EmptySeq

\* With more codes than fit into one batch, regroup-codes and the theme routes
\* never ask the LLM about the others: whatever it answers, and however often
\* batches are halved, a run that ends well has asked about the first batch,
\* which has at most chunk_size codes (batch_llm_hierarchy and the arguments of
\* the continuation prompts).
THEOREM OthersAskFirstBatch == Spec => []FirstBatchAsked
<1>1. IInv /\ FirstInv => FirstBatchAsked
  <2> SUFFICES ASSUME IInv, FirstInv, NEW r \in Run, pc[r] = "done", kind[r] # "group"
               PROVE  asked[r] = 1..chunks[r][1].hi /\ chunks[r][1].hi <= ChunkSize
    BY DEF FirstBatchAsked
  <2>1. at[r] > 1
    BY LoopOver
  <2> QED
    BY <2>1 DEF FirstInv, FirstInvOf
<1> QED
  BY <1>1, InitFirst, NextFirst, Inductive, PTL DEF Spec

\* A theme route either fails, or inserts no theme, or has put every code to
\* the LLM: a second batch after a first with themes raises.
THEOREM ThemesAsk == Spec => []ThemesAskAll
<1>1. IInv /\ FirstInv => ThemesAskAll
  <2> SUFFICES ASSUME IInv, FirstInv, NEW r \in Run, pc[r] \in {"rest", "announce", "done"},
                      kind[r] \in {"theme", "redo"}, clusters[r] = "some"
               PROVE  asked[r] = Key
    BY DEF ThemesAskAll
  <2>1. at[r] = 2 /\ asked[r] = 1..chunks[r][1].hi
    BY DEF FirstInv, FirstInvOf
  <2>2. at[r] = Len(chunks[r]) + 1 /\ Len(chunks[r]) \in Nat \ {0}
    BY LoopOver
  <2>3. Len(chunks[r]) = 1
    <3>1. \A n \in Nat : n + 1 = 2 => n = 1
      OBVIOUS
    <3> QED
      BY <2>1, <2>2, <3>1, Zenon
  <2>4. chunks[r][1].hi = N
    BY <2>3 DEF IInv, ChunksTile, Tiles
  <2> QED
    BY <2>1, <2>4 DEF Key
<1> QED
  BY <1>1, InitFirst, NextFirst, Inductive, PTL DEF Spec
=============================================================================
