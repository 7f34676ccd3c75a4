---------------------- MODULE TransmissionDaemonProofs ----------------------
(***************************************************************************)
(* Proofs about the daemon manager, for any number of managers, requests   *)
(* and daemons, on either platform, with any cancellations and deaths.     *)
(* NeverTwoDaemons and AlwaysServed are about a single manager.            *)
(***************************************************************************)
EXTENDS TransmissionDaemon, FiniteSetTheorems, SequenceTheorems, TLAPS

-----------------------------------------------------------------------------
(* Queues of tasks: what a lock's owner can lose by another's move.        *)

\* A task that gives up waiting leaves a queue of tasks.
LEMMA DropType ==
  ASSUME NEW q \in Seq(User), NEW i \in DOMAIN q
  PROVE  Drop(q, i) \in Seq(User)
<1>1. Len(q) \in Nat /\ i \in 1..Len(q)
  OBVIOUS
<1>2. Len(q) - 1 \in Nat
  BY <1>1
<1>3. \A k \in 1..(Len(q) - 1) : (IF k < i THEN q[k] ELSE q[k + 1]) \in User
  BY <1>1
<1> QED
  BY <1>2, <1>3 DEF Drop

\* It is not the owner that gives up: the owner stays.
LEMMA DropOwns ==
  ASSUME NEW q \in Seq(User), NEW i \in DOMAIN q, NEW u \in User,
         Owns(q, u), q[i] # u
  PROVE  Owns(Drop(q, i), u)
<1>1. Len(q) \in Nat /\ i \in 1..Len(q) /\ q[1] = u
  BY DEF Owns
<1>2. i >= 2 /\ Len(q) - 1 \in Nat /\ 1 \in 1..(Len(q) - 1) /\ 1 < i
  BY <1>1
<1>3. Drop(q, i)[1] = u
  BY <1>1, <1>2 DEF Drop
<1>4. Drop(q, i) \in Seq(User)
  BY DropType
<1>5. DOMAIN Drop(q, i) = 1..(Len(q) - 1)
  BY DEF Drop
<1>6. Drop(q, i) # <<>>
  BY <1>2, <1>4, <1>5
<1> QED
  BY <1>3, <1>4, <1>6 DEF Owns

\* A task that joins does not displace the owner.
LEMMA AppendOwns ==
  ASSUME NEW q \in Seq(User), NEW u \in User, NEW v \in User, Owns(q, u)
  PROVE  Owns(Append(q, v), u)
<1>1. q # <<>> /\ q[1] = u /\ Len(q) \in Nat /\ Len(q) >= 1
  BY DEF Owns
<1>2. Append(q, v) \in Seq(User) /\ Len(Append(q, v)) = Len(q) + 1 /\ Append(q, v)[1] = u
  BY <1>1
<1> QED
  BY <1>2, <1>1 DEF Owns

-----------------------------------------------------------------------------
(* Counting                                                                *)

\* The requests inside are finitely many.
LEMMA CountedFinite ==
  ASSUME NEW m \in Mgr
  PROVE  IsFiniteSet(Counted(m)) /\ Cardinality(Counted(m)) \in Nat
<1>1. Counted(m) \subseteq User /\ IsFiniteSet(User)
  BY DaemonAssumption DEF Counted, DaemonAssumption
<1> QED
  BY <1>1, FS_Subset, FS_CardinalityType

\* A move between two places on the same side of the count.
LEMMA MoveKeeps ==
  ASSUME TypeOK, NEW u \in User, NEW p \in Place, GoTo(u, p),
         pc[u] \in Inside <=> p \in Inside, ref' = ref, RefCountsUsers
  PROVE  RefCountsUsers'
<1> SUFFICES ASSUME NEW m \in Mgr PROVE ref'[m] = Cardinality(Counted(m)')
  BY DEF RefCountsUsers
<1>1. \A v \in User : pc'[v] \in Inside <=> pc[v] \in Inside
  BY DEF GoTo, TypeOK
<1>2. Counted(m)' = Counted(m)
  BY <1>1 DEF Counted
<1> QED
  BY <1>2 DEF RefCountsUsers

\* A request is counted in.
LEMMA MoveIn ==
  ASSUME TypeOK, NEW u \in User, NEW p \in Inside, GoTo(u, p), pc[u] \notin Inside,
         ref' = [ref EXCEPT ![Home[u]] = @ + 1], RefCountsUsers
  PROVE  RefCountsUsers'
<1> SUFFICES ASSUME NEW m \in Mgr PROVE ref'[m] = Cardinality(Counted(m)')
  BY DEF RefCountsUsers
<1>1. pc'[u] \in Inside /\ \A v \in User : v # u => pc'[v] = pc[v]
  BY DEF GoTo, TypeOK
<1>2. CASE m = Home[u]
  <2>1. Counted(m)' = Counted(m) \cup {u} /\ u \notin Counted(m)
    BY <1>1, <1>2 DEF Counted
  <2>2. Cardinality(Counted(m)') = Cardinality(Counted(m)) + 1
    BY <2>1, CountedFinite, FS_AddElement
  <2> QED
    BY <2>2, <1>2 DEF RefCountsUsers, TypeOK
<1>3. CASE m # Home[u]
  <2>1. Counted(m)' = Counted(m)
    BY <1>1, <1>3 DEF Counted
  <2> QED
    BY <2>1, <1>3 DEF RefCountsUsers, TypeOK
<1> QED
  BY <1>2, <1>3

\* A request is counted out.
LEMMA MoveOut ==
  ASSUME TypeOK, NEW u \in User, NEW p \in Place \ Inside, GoTo(u, p), pc[u] \in Inside,
         ref' = [ref EXCEPT ![Home[u]] = ref[Home[u]] - 1], RefCountsUsers
  PROVE  RefCountsUsers'
<1> SUFFICES ASSUME NEW m \in Mgr PROVE ref'[m] = Cardinality(Counted(m)')
  BY DEF RefCountsUsers
<1>1. pc'[u] \notin Inside /\ \A v \in User : v # u => pc'[v] = pc[v]
  BY DEF GoTo, TypeOK
<1>2. CASE m = Home[u]
  <2>1. Counted(m)' = Counted(m) \ {u} /\ u \in Counted(m)
    BY <1>1, <1>2 DEF Counted
  <2>2. Cardinality(Counted(m)') = Cardinality(Counted(m)) - 1
    BY <2>1, CountedFinite, FS_RemoveElement
  <2> QED
    BY <2>2, <1>2 DEF RefCountsUsers, TypeOK
<1>3. CASE m # Home[u]
  <2>1. Counted(m)' = Counted(m)
    BY <1>1, <1>3 DEF Counted
  <2> QED
    BY <2>1, <1>3 DEF RefCountsUsers, TypeOK
<1> QED
  BY <1>2, <1>3

\* With nobody counted the count is zero, and it is positive otherwise.
LEMMA InsideCounts ==
  ASSUME TypeOK, RefCountsUsers, NEW u \in User, pc[u] \in Inside
  PROVE  ref[Home[u]] > 0
<1>1. Home[u] \in Mgr /\ u \in Counted(Home[u])
  BY DaemonAssumption DEF DaemonAssumption, Counted
<1>2. Cardinality(Counted(Home[u])) # 0
  BY <1>1, CountedFinite, FS_EmptySet
<1> QED
  BY <1>1, <1>2, CountedFinite DEF RefCountsUsers

-----------------------------------------------------------------------------
(* What one task does to a queue that another one owns.                    *)

\* A queue has one owner.
LEMMA OneOwner ==
  ASSUME NEW q, NEW u, NEW v, Owns(q, u), Owns(q, v)
  PROVE  u = v
  BY DEF Owns

\* Queueing for a lock or leaving it changes the holder of no other.
LEMMA LockKept ==
  ASSUME TypeOK, NEW u \in User, NEW v \in User, v # u, Owns(lock[Home[v]], v),
         \/ JoinLock(u) \/ QuitLock(u) \/ UNCHANGED lock
         \/ (Unlock(u) /\ Owns(lock[Home[u]], u))
  PROVE  Owns(lock'[Home[v]], v)
<1>1. /\ Home[u] \in Mgr /\ Home[v] \in Mgr
      /\ lock[Home[u]] \in Seq(User) /\ lock[Home[v]] \in Seq(User)
  BY DaemonAssumption DEF DaemonAssumption, TypeOK
<1>2. CASE JoinLock(u)
  <2>1. CASE Home[u] = Home[v]
    <3>1. lock'[Home[v]] = Append(lock[Home[v]], u)
      BY <1>1, <1>2, <2>1 DEF JoinLock, TypeOK
    <3> QED
      BY <1>1, <3>1, AppendOwns
  <2>2. CASE Home[u] # Home[v]
    BY <1>1, <1>2, <2>2 DEF JoinLock, TypeOK
  <2> QED
    BY <2>1, <2>2
<1>3. CASE QuitLock(u)
  <2>1. PICK i \in DOMAIN lock[Home[u]] :
          /\ lock[Home[u]][i] = u
          /\ lock' = [lock EXCEPT ![Home[u]] = Drop(@, i)]
    BY <1>3 DEF QuitLock
  <2>2. CASE Home[u] = Home[v]
    <3>1. lock'[Home[v]] = Drop(lock[Home[v]], i)
      BY <1>1, <2>1, <2>2 DEF TypeOK
    <3> QED
      BY <1>1, <2>1, <2>2, <3>1, DropOwns
  <2>3. CASE Home[u] # Home[v]
    BY <1>1, <2>1, <2>3 DEF TypeOK
  <2> QED
    BY <2>2, <2>3
<1>4. CASE Unlock(u) /\ Owns(lock[Home[u]], u)
  <2>1. Home[u] # Home[v]
    BY <1>4, OneOwner
  <2> QED
    BY <1>1, <1>4, <2>1 DEF Unlock, TypeOK
<1> QED
  BY <1>2, <1>3, <1>4

\* The same of the second lock.
LEMMA GateKept ==
  ASSUME TypeOK, NEW u \in User, NEW v \in User, v # u, Owns(gate[Home[v]], v),
         \/ gate' = [gate EXCEPT ![Home[u]] = Append(@, u)]
         \/ QuitGate(u) \/ UNCHANGED gate
         \/ (OpenGate(u) /\ Owns(gate[Home[u]], u))
  PROVE  Owns(gate'[Home[v]], v)
<1>1. /\ Home[u] \in Mgr /\ Home[v] \in Mgr
      /\ gate[Home[u]] \in Seq(User) /\ gate[Home[v]] \in Seq(User)
  BY DaemonAssumption DEF DaemonAssumption, TypeOK
<1>2. CASE gate' = [gate EXCEPT ![Home[u]] = Append(@, u)]
  <2>1. CASE Home[u] = Home[v]
    <3>1. gate'[Home[v]] = Append(gate[Home[v]], u)
      BY <1>1, <1>2, <2>1 DEF TypeOK
    <3> QED
      BY <1>1, <3>1, AppendOwns
  <2>2. CASE Home[u] # Home[v]
    BY <1>1, <1>2, <2>2 DEF TypeOK
  <2> QED
    BY <2>1, <2>2
<1>3. CASE QuitGate(u)
  <2>1. PICK i \in DOMAIN gate[Home[u]] :
          /\ gate[Home[u]][i] = u
          /\ gate' = [gate EXCEPT ![Home[u]] = Drop(@, i)]
    BY <1>3 DEF QuitGate
  <2>2. CASE Home[u] = Home[v]
    <3>1. gate'[Home[v]] = Drop(gate[Home[v]], i)
      BY <1>1, <2>1, <2>2 DEF TypeOK
    <3> QED
      BY <1>1, <2>1, <2>2, <3>1, DropOwns
  <2>3. CASE Home[u] # Home[v]
    BY <1>1, <2>1, <2>3 DEF TypeOK
  <2> QED
    BY <2>2, <2>3
<1>4. CASE OpenGate(u) /\ Owns(gate[Home[u]], u)
  <2>1. Home[u] # Home[v]
    BY <1>4, OneOwner
  <2> QED
    BY <1>1, <1>4, <2>1 DEF OpenGate, TypeOK
<1> QED
  BY <1>2, <1>3, <1>4

-----------------------------------------------------------------------------
(* Types                                                                   *)

\* The lock stays a queue of requests.
LEMMA LockType ==
  ASSUME TypeOK, NEW u \in User,
         \/ JoinLock(u) \/ QuitLock(u) \/ UNCHANGED lock
         \/ (Unlock(u) /\ Owns(lock[Home[u]], u))
  PROVE  lock' \in [Mgr -> Seq(User)]
<1>1. Home[u] \in Mgr /\ lock[Home[u]] \in Seq(User)
  BY DaemonAssumption DEF DaemonAssumption, TypeOK
<1>2. CASE JoinLock(u)
  <2>1. Append(lock[Home[u]], u) \in Seq(User)
    BY <1>1
  <2> QED
    BY <1>2, <2>1 DEF JoinLock, TypeOK
<1>3. CASE QuitLock(u)
  <2>1. PICK i \in DOMAIN lock[Home[u]] : lock' = [lock EXCEPT ![Home[u]] = Drop(@, i)]
    BY <1>3 DEF QuitLock
  <2>2. Drop(lock[Home[u]], i) \in Seq(User)
    BY <1>1, DropType
  <2> QED
    BY <2>1, <2>2 DEF TypeOK
<1>4. CASE Unlock(u) /\ Owns(lock[Home[u]], u)
  <2>1. Tail(lock[Home[u]]) \in Seq(User)
    BY <1>1, <1>4 DEF Owns
  <2> QED
    BY <1>4, <2>1 DEF Unlock, TypeOK
<1> QED
  BY <1>2, <1>3, <1>4 DEF TypeOK

\* So does the second one.
LEMMA GateType ==
  ASSUME TypeOK, NEW u \in User,
         \/ gate' = [gate EXCEPT ![Home[u]] = Append(@, u)]
         \/ QuitGate(u) \/ UNCHANGED gate
         \/ (OpenGate(u) /\ Owns(gate[Home[u]], u))
  PROVE  gate' \in [Mgr -> Seq(User)]
<1>1. Home[u] \in Mgr /\ gate[Home[u]] \in Seq(User)
  BY DaemonAssumption DEF DaemonAssumption, TypeOK
<1>2. CASE gate' = [gate EXCEPT ![Home[u]] = Append(@, u)]
  <2>1. Append(gate[Home[u]], u) \in Seq(User)
    BY <1>1
  <2> QED
    BY <1>2, <2>1 DEF TypeOK
<1>3. CASE QuitGate(u)
  <2>1. PICK i \in DOMAIN gate[Home[u]] : gate' = [gate EXCEPT ![Home[u]] = Drop(@, i)]
    BY <1>3 DEF QuitGate
  <2>2. Drop(gate[Home[u]], i) \in Seq(User)
    BY <1>1, DropType
  <2> QED
    BY <2>1, <2>2 DEF TypeOK
<1>4. CASE OpenGate(u) /\ Owns(gate[Home[u]], u)
  <2>1. Tail(gate[Home[u]]) \in Seq(User)
    BY <1>1, <1>4 DEF Owns
  <2> QED
    BY <1>4, <2>1 DEF OpenGate, TypeOK
<1> QED
  BY <1>2, <1>3, <1>4 DEF TypeOK

\* A daemon that dies keeps the types.
LEMMA DieType ==
  ASSUME TypeOK, NEW ds, Die(ds)
  PROVE  /\ alive' \subseteq Daemon /\ dying' \subseteq alive'
         /\ serving' \in alive' \cup {NoDaemon}
  BY DEF Die, TypeOK

\* Moving one request keeps the places typed.
LEMMA PcType ==
  ASSUME TypeOK, NEW u \in User, NEW p \in Place, GoTo(u, p)
  PROVE  pc' \in [User -> Place]
  BY DEF GoTo, TypeOK

\* The count stays a number.
LEMMA RefPlus ==
  ASSUME TypeOK, NEW m, ref' = [ref EXCEPT ![m] = @ + 1]
  PROVE  ref' \in [Mgr -> Nat]
<1>1. CASE m \in Mgr
  <2>1. ref[m] + 1 \in Nat
    BY <1>1 DEF TypeOK
  <2> QED
    BY <2>1 DEF TypeOK
<1>2. CASE m \notin Mgr
  BY <1>2 DEF TypeOK
<1> QED
  BY <1>1, <1>2

\* A request under the lock owns it, and one that stops the daemon owns the
\* gate: each action's queue moves are the ones the lemmas above speak of.
LEMMA QueueMoves ==
  ASSUME TypeOK, Holder, GateHeld, NEW u \in User,
         Enter(u) \/ EnterStep(u) \/ Leave(u) \/ ExitStep(u) \/ Cancel(u) \/ LateSpawn(u)
  PROVE  /\ \/ JoinLock(u) \/ QuitLock(u) \/ UNCHANGED lock
            \/ (Unlock(u) /\ Owns(lock[Home[u]], u))
         /\ \/ gate' = [gate EXCEPT ![Home[u]] = Append(@, u)]
            \/ QuitGate(u) \/ UNCHANGED gate
            \/ (OpenGate(u) /\ Owns(gate[Home[u]], u))
<1> USE DEF Holder, GateHeld
<1>1. CASE Enter(u)
  BY <1>1 DEF Enter
<1>2. CASE EnterStep(u)
  <2>1. CASE PassGate(u)
    BY <2>1 DEF PassGate
  <2>2. CASE EnterShared(u)
    BY <2>2 DEF EnterShared
  <2>3. CASE EnterFirst(u)
    BY <2>3 DEF EnterFirst, Fail
  <2>4. CASE List(u)
    BY <2>4 DEF List, Fail, Starting
  <2>5. CASE KillEnd(u)
    BY <2>5 DEF KillEnd
  <2>6. CASE Spawn(u)
    BY <2>6 DEF Spawn, Fail, Starting
  <2>7. CASE Ready(u)
    BY <2>7 DEF Ready, Starting
  <2>8. CASE StartTimeout(u)
    BY <2>8 DEF StartTimeout, Fail, Starting
  <2>9. ASSUME NEW d \in Daemon, Kill(u, d)
        PROVE  /\ UNCHANGED lock \/ (Unlock(u) /\ Owns(lock[Home[u]], u))
               /\ UNCHANGED gate
    BY <2>9 DEF Kill, Fail, Starting
  <2> QED
    BY <1>2, <2>1, <2>2, <2>3, <2>4, <2>5, <2>6, <2>7, <2>8, <2>9 DEF EnterStep
<1>3. CASE Leave(u)
  BY <1>3 DEF Leave
<1>4. CASE ExitStep(u)
  <2>1. CASE ExitLock(u)
    BY <2>1 DEF ExitLock
  <2>2. CASE StopBegin(u)
    BY <2>2 DEF StopBegin, ReleaseBoth, StopAwaited, Stopping
  <2>3. CASE StopEnd(u)
    BY <2>3 DEF StopEnd, ReleaseBoth, Stopping
  <2> QED
    BY <1>4, <2>1, <2>2, <2>3 DEF ExitStep
<1>5. CASE Cancel(u)
  <2>1. CASE CancelEnter(u)
    BY <2>1 DEF CancelEnter, Starting
  <2>2. CASE CancelLeave(u)
    BY <2>2 DEF CancelLeave
  <2>3. CASE CancelStop(u)
    BY <2>3 DEF CancelStop, ReleaseBoth, Stopping
  <2> QED
    BY <1>5, <2>1, <2>2, <2>3 DEF Cancel
<1>6. CASE LateSpawn(u)
  BY <1>6 DEF LateSpawn
<1> QED
  BY <1>1, <1>2, <1>3, <1>4, <1>5, <1>6

\* A step of a request keeps the types.
LEMMA UserStepType ==
  ASSUME TypeOK, Holder, GateHeld, RefCountsUsers, NEW u \in User,
         Enter(u) \/ EnterStep(u) \/ Leave(u) \/ ExitStep(u) \/ Cancel(u) \/ LateSpawn(u)
  PROVE  TypeOK'
<1> DEFINE QueuesType == lock' \in [Mgr -> Seq(User)] /\ gate' \in [Mgr -> Seq(User)]
<1>q. QueuesType
  BY QueueMoves, LockType, GateType
<1>h. Home[u] \in Mgr
  BY DaemonAssumption DEF DaemonAssumption
<1> USE DEF GoTo, Fail, Place, Starting, Stopping, Over, mgrVars, osVars, around
<1>1. CASE Enter(u)
  BY <1>1, <1>q DEF Enter, TypeOK
<1>2. CASE EnterStep(u)
  <2>1. CASE PassGate(u)
    BY <2>1, <1>q DEF PassGate, TypeOK
  <2>2. CASE EnterShared(u)
    <3>1. ref' \in [Mgr -> Nat]
      BY <2>2, RefPlus DEF EnterShared
    <3> QED
      BY <2>2, <3>1, <1>q DEF EnterShared, TypeOK
  <2>3. CASE EnterFirst(u)
    BY <2>3, <1>q DEF EnterFirst, TypeOK
  <2>4. CASE List(u)
    BY <2>4, <1>q DEF List, Listed, TypeOK
  <2>5. CASE KillEnd(u)
    BY <2>5, <1>q DEF KillEnd, TypeOK
  <2>6. CASE Spawn(u)
    <3>1. pc' \in [User -> Place]
      <4>1. pc \in [User -> Place]
        BY DEF TypeOK
      <4> QED
        BY <2>6, <4>1 DEF Spawn
    <3>2. proc' \in [Mgr -> Daemon \cup {NoDaemon}] /\ alive' \subseteq Daemon /\ alive \subseteq alive'
      <4>1. proc \in [Mgr -> Daemon \cup {NoDaemon}] /\ alive \subseteq Daemon
        BY DEF TypeOK
      <4> QED
        BY <2>6, <4>1 DEF Spawn
    <3> QED
      BY <2>6, <3>1, <3>2, <1>q DEF Spawn, TypeOK
  <2>7. CASE Ready(u)
    <3>1. ref' \in [Mgr -> Nat]
      BY <2>7, RefPlus DEF Ready
    <3> QED
      BY <2>7, <3>1, <1>q DEF Ready, TypeOK
  <2>8. CASE StartTimeout(u)
    BY <2>8, <1>q DEF StartTimeout, TypeOK
  <2>9. ASSUME NEW d \in Daemon, Kill(u, d) PROVE TypeOK'
    <3>1. CASE UNCHANGED osVars
      BY <2>9, <3>1, <1>q DEF Kill, TypeOK
    <3>2. CASE Die({d})
      <4>1. alive' \subseteq Daemon /\ dying' \subseteq alive' /\ serving' \in alive' \cup {NoDaemon}
        BY <3>2, DieType
      <4>2. victims' \in [User -> SUBSET Daemon] /\ pc' \in [User -> Place]
        BY <2>9 DEF Kill, TypeOK
      <4> QED
        BY <2>9, <4>1, <4>2, <1>q DEF Kill, TypeOK
    <3> QED
      BY <2>9, <3>1, <3>2 DEF Kill
  <2> QED
    BY <1>2, <2>1, <2>2, <2>3, <2>4, <2>5, <2>6, <2>7, <2>8, <2>9 DEF EnterStep
<1>3. CASE Leave(u)
  BY <1>3, <1>q DEF Leave, TypeOK
<1>4. CASE ExitStep(u)
  <2>1. CASE ExitLock(u)
    <3>1. ref[Home[u]] \in Nat /\ ref[Home[u]] > 0
      BY <2>1, <1>h, InsideCounts DEF ExitLock, Inside, TypeOK
    <3>2. ref[Home[u]] - 1 \in Nat
      BY <3>1
    <3>3. ref' = [ref EXCEPT ![Home[u]] = ref[Home[u]] - 1]
      BY <2>1 DEF ExitLock, Discounted
    <3>4. ref' \in [Mgr -> Nat]
      BY <3>2, <3>3 DEF TypeOK
    <3> QED
      BY <2>1, <3>4, <1>q DEF ExitLock, TypeOK
  <2>2. CASE StopBegin(u)
    <3>1. CASE UNCHANGED <<proc, osVars>>
      BY <2>2, <3>1, <1>q DEF StopBegin, StopAwaited, TypeOK
    <3>2. CASE Die({proc[Home[u]]}) /\ proc' = [proc EXCEPT ![Home[u]] = NoDaemon]
      <4>1. alive' \subseteq Daemon /\ dying' \subseteq alive' /\ serving' \in alive' \cup {NoDaemon}
        BY <3>2, DieType
      <4> QED
        BY <2>2, <3>2, <4>1, <1>q DEF StopBegin, StopAwaited, TypeOK
    <3>3. CASE proc[Home[u]] \in alive /\ dying' = dying \cup {proc[Home[u]]} /\ StopAwaited(u)
                /\ UNCHANGED <<alive, serving>>
      BY <2>2, <3>3, <1>q DEF StopBegin, StopAwaited, TypeOK
    <3> QED
      BY <2>2, <3>1, <3>2, <3>3 DEF StopBegin
  <2>3. CASE StopEnd(u)
    BY <2>3, <1>q DEF StopEnd, TypeOK
  <2> QED
    BY <1>4, <2>1, <2>2, <2>3 DEF ExitStep
<1>5. CASE Cancel(u)
  <2>0. cancels' \in Nat
    BY <1>5 DEF Cancel, TypeOK
  <2>1. CASE CancelEnter(u)
    BY <2>0, <2>1, <1>q DEF CancelEnter, TypeOK
  <2>2. CASE CancelLeave(u)
    BY <2>0, <2>2, <1>q DEF CancelLeave, TypeOK
  <2>3. CASE CancelStop(u)
    BY <2>0, <2>3, <1>q DEF CancelStop, TypeOK
  <2> QED
    BY <1>5, <2>1, <2>2, <2>3 DEF Cancel
<1>6. CASE LateSpawn(u)
  BY <1>6, <1>q DEF LateSpawn, TypeOK
<1> QED
  BY <1>1, <1>2, <1>3, <1>4, <1>5, <1>6

\* The steps of nobody's handler.
LEMMA OutsideStep ==
  ASSUME TypeOK,
         \/ \E m \in Mgr : Recheck(m)
         \/ \E d \in Daemon : Bind(d) \/ DaemonExits(d) \/ DaemonDies(d)
         \/ UNCHANGED vars
  PROVE  TypeOK' /\ UNCHANGED <<pc, gate, lock, ref, proc>>
<1> USE DEF mgrVars, osVars, around
<1>1. ASSUME NEW m \in Mgr, Recheck(m) PROVE TypeOK' /\ UNCHANGED <<pc, gate, lock, ref, proc>>
  BY <1>1 DEF Recheck, TypeOK
<1>2. ASSUME NEW d \in Daemon, Bind(d) PROVE TypeOK' /\ UNCHANGED <<pc, gate, lock, ref, proc>>
  BY <1>2 DEF Bind, TypeOK
<1>3. ASSUME NEW d \in Daemon, DaemonExits(d)
      PROVE  TypeOK' /\ UNCHANGED <<pc, gate, lock, ref, proc>>
  BY <1>3, DieType DEF DaemonExits, TypeOK
<1>4. ASSUME NEW d \in Daemon, DaemonDies(d)
      PROVE  TypeOK' /\ UNCHANGED <<pc, gate, lock, ref, proc>>
  BY <1>4, DieType DEF DaemonDies, TypeOK
<1>5. CASE UNCHANGED vars
  BY <1>5 DEF vars, TypeOK
<1> QED
  BY <1>1, <1>2, <1>3, <1>4, <1>5

-----------------------------------------------------------------------------
(* The lock, the gate and the count                                        *)

\* A request moves itself only, and touches the count only under the lock.
LEMMA OwnMoves ==
  ASSUME TypeOK, Holder, NEW u \in User,
         Enter(u) \/ EnterStep(u) \/ Leave(u) \/ ExitStep(u) \/ Cancel(u) \/ LateSpawn(u)
  PROVE  /\ \A v \in User : v # u => pc'[v] = pc[v]
         /\ \/ ref' = ref
            \/ /\ Owns(lock[Home[u]], u)
               /\ \A m \in Mgr : m # Home[u] => ref'[m] = ref[m]
<1> DEFINE Goal == /\ \A v \in User : v # u => pc'[v] = pc[v]
                   /\ \/ ref' = ref
                      \/ /\ Owns(lock[Home[u]], u)
                         /\ \A m \in Mgr : m # Home[u] => ref'[m] = ref[m]
<1> SUFFICES Goal
  OBVIOUS
<1> USE DEF TypeOK, GoTo, Fail, mgrVars
<1>1. CASE Enter(u)
  BY <1>1 DEF Enter
<1>2. CASE EnterStep(u)
  <2>1. CASE PassGate(u)
    BY <2>1 DEF PassGate
  <2>2. CASE EnterShared(u)
    BY <2>2 DEF EnterShared
  <2>3. CASE EnterFirst(u)
    BY <2>3 DEF EnterFirst
  <2>4. CASE List(u)
    BY <2>4 DEF List
  <2>5. CASE KillEnd(u)
    BY <2>5 DEF KillEnd
  <2>6. CASE Spawn(u)
    BY <2>6 DEF Spawn
  <2>7. CASE Ready(u)
    BY <2>7 DEF Ready, Holder, Starting
  <2>8. CASE StartTimeout(u)
    BY <2>8 DEF StartTimeout
  <2>9. ASSUME NEW d \in Daemon, Kill(u, d) PROVE Goal
    BY <2>9 DEF Kill
  <2> QED
    BY <1>2, <2>1, <2>2, <2>3, <2>4, <2>5, <2>6, <2>7, <2>8, <2>9 DEF EnterStep
<1>3. CASE Leave(u)
  BY <1>3 DEF Leave
<1>4. CASE ExitStep(u)
  <2>1. CASE ExitLock(u)
    BY <2>1 DEF ExitLock
  <2>2. CASE StopBegin(u)
    BY <2>2 DEF StopBegin, StopAwaited
  <2>3. CASE StopEnd(u)
    BY <2>3 DEF StopEnd
  <2> QED
    BY <1>4, <2>1, <2>2, <2>3 DEF ExitStep
<1>5. CASE Cancel(u)
  <2>1. CASE CancelEnter(u)
    BY <2>1 DEF CancelEnter
  <2>2. CASE CancelLeave(u)
    BY <2>2 DEF CancelLeave
  <2>3. CASE CancelStop(u)
    BY <2>3 DEF CancelStop
  <2> QED
    BY <1>5, <2>1, <2>2, <2>3 DEF Cancel
<1>6. CASE LateSpawn(u)
  BY <1>6 DEF LateSpawn
<1> QED
  BY <1>1, <1>2, <1>3, <1>4, <1>5, <1>6

\* A step of a request keeps the lock with the request at its head.
LEMMA UserStepHolder ==
  ASSUME TypeOK, Holder, GateHeld, RefCountsUsers, NEW u \in User,
         Enter(u) \/ EnterStep(u) \/ Leave(u) \/ ExitStep(u) \/ Cancel(u) \/ LateSpawn(u)
  PROVE  Holder'
<1>a. ASSUME NEW v \in User, v # u, pc'[v] \in Starting \cup Stopping
      PROVE  Owns(lock'[Home[v]], v) /\ ref'[Home[v]] = 0
  <2>1. pc[v] \in Starting \cup Stopping
    BY <1>a, OwnMoves
  <2>2. Owns(lock[Home[v]], v) /\ ref[Home[v]] = 0
    BY <2>1 DEF Holder
  <2>3. Owns(lock'[Home[v]], v)
    BY <1>a, <2>2, QueueMoves, LockKept
  <2>4. Home[v] \in Mgr
    BY DaemonAssumption DEF DaemonAssumption
  <2>5. ref' = ref \/ Home[v] # Home[u]
    BY <1>a, <2>2, OwnMoves, OneOwner
  <2>6. ref'[Home[v]] = ref[Home[v]]
    BY <2>4, <2>5, OwnMoves
  <2> QED
    BY <2>2, <2>3, <2>6
<1>b. pc'[u] \in Starting \cup Stopping => Owns(lock'[Home[u]], u) /\ ref'[Home[u]] = 0
  <2> SUFFICES ASSUME pc'[u] \in Starting \cup Stopping
               PROVE  Owns(lock'[Home[u]], u) /\ ref'[Home[u]] = 0
    OBVIOUS
  <2>h. Home[u] \in Mgr /\ ref[Home[u]] \in Nat
    BY DaemonAssumption DEF DaemonAssumption, TypeOK
  <2> USE DEF TypeOK, GoTo, Fail, mgrVars, Starting, Stopping
  <2>1. CASE Enter(u)
    BY <2>1 DEF Enter
  <2>2. CASE EnterStep(u)
    <3>1. CASE PassGate(u)
      BY <3>1 DEF PassGate
    <3>2. CASE EnterShared(u)
      BY <3>2 DEF EnterShared
    <3>3. CASE EnterFirst(u)
      BY <3>3, <2>h DEF EnterFirst, Shares
    <3>4. CASE List(u)
      BY <3>4 DEF List, Holder
    <3>5. CASE KillEnd(u)
      BY <3>5 DEF KillEnd, Holder
    <3>6. CASE Spawn(u)
      BY <3>6 DEF Spawn, Holder
    <3>7. CASE Ready(u)
      BY <3>7 DEF Ready
    <3>8. CASE StartTimeout(u)
      BY <3>8 DEF StartTimeout
    <3>9. ASSUME NEW d \in Daemon, Kill(u, d) PROVE Owns(lock'[Home[u]], u) /\ ref'[Home[u]] = 0
      BY <3>9 DEF Kill, Holder
    <3> QED
      BY <2>2, <3>1, <3>2, <3>3, <3>4, <3>5, <3>6, <3>7, <3>8, <3>9 DEF EnterStep
  <2>3. CASE Leave(u)
    BY <2>3 DEF Leave
  <2>4. CASE ExitStep(u)
    <3>1. CASE ExitLock(u)
      BY <3>1, <2>h DEF ExitLock, Discounted, LastOut
    <3>2. CASE StopBegin(u)
      BY <3>2 DEF StopBegin, StopAwaited, ReleaseBoth, Holder
    <3>3. CASE StopEnd(u)
      BY <3>3 DEF StopEnd, ReleaseBoth
    <3> QED
      BY <2>4, <3>1, <3>2, <3>3 DEF ExitStep
  <2>5. CASE Cancel(u)
    <3>1. CASE CancelEnter(u)
      BY <3>1 DEF CancelEnter
    <3>2. CASE CancelLeave(u)
      BY <3>2 DEF CancelLeave
    <3>3. CASE CancelStop(u)
      BY <3>3 DEF CancelStop
    <3> QED
      BY <2>5, <3>1, <3>2, <3>3 DEF Cancel
  <2>6. CASE LateSpawn(u)
    BY <2>6 DEF LateSpawn, Holder
  <2> QED
    BY <2>1, <2>2, <2>3, <2>4, <2>5, <2>6
<1> QED
  BY <1>a, <1>b DEF Holder

\* The same of the second lock.
LEMMA UserStepGate ==
  ASSUME TypeOK, Holder, GateHeld, NEW u \in User,
         Enter(u) \/ EnterStep(u) \/ Leave(u) \/ ExitStep(u) \/ Cancel(u) \/ LateSpawn(u)
  PROVE  GateHeld'
<1>a. ASSUME NEW v \in User, v # u, pc'[v] = "stopping"
      PROVE  Owns(gate'[Home[v]], v)
  <2>1. Owns(gate[Home[v]], v)
    BY <1>a, OwnMoves DEF GateHeld
  <2> QED
    BY <1>a, <2>1, QueueMoves, GateKept
<1>b. pc'[u] = "stopping" => Owns(gate'[Home[u]], u)
  <2>1. CASE StopBegin(u)
    BY <2>1 DEF StopBegin, StopAwaited, GoTo, TypeOK
  <2>2. CASE LateSpawn(u)
    BY <2>2 DEF LateSpawn, GateHeld
  <2>3. CASE Enter(u) \/ EnterStep(u) \/ Leave(u) \/ Cancel(u)
    <3>1. pc'[u] # "stopping"
      <4>1. CASE Enter(u) \/ Leave(u)
        BY <4>1 DEF Enter, Leave, GoTo, TypeOK
      <4>2. CASE EnterStep(u)
        <5>1. ASSUME NEW d \in Daemon, Kill(u, d) PROVE pc'[u] # "stopping"
          BY <5>1 DEF Kill, Fail, GoTo, TypeOK
        <5>2. CASE PassGate(u) \/ EnterShared(u) \/ EnterFirst(u) \/ KillEnd(u)
          BY <5>2 DEF PassGate, EnterShared, EnterFirst, KillEnd, Fail, GoTo, TypeOK
        <5>3. CASE List(u) \/ Spawn(u) \/ Ready(u) \/ StartTimeout(u)
          BY <5>3 DEF List, Spawn, Ready, StartTimeout, Fail, GoTo, TypeOK
        <5> QED
          BY <4>2, <5>1, <5>2, <5>3 DEF EnterStep
      <4>3. CASE Cancel(u)
        BY <4>3 DEF Cancel, CancelEnter, CancelLeave, CancelStop, GoTo, TypeOK
      <4> QED
        BY <2>3, <4>1, <4>2, <4>3
    <3> QED
      BY <3>1
  <2>4. CASE ExitLock(u) \/ StopEnd(u)
    BY <2>4 DEF ExitLock, StopEnd, GoTo, TypeOK
  <2> QED
    BY <2>1, <2>2, <2>3, <2>4 DEF ExitStep
<1> QED
  BY <1>a, <1>b DEF GateHeld

\* A step of a request changes the count as it enters or leaves.
LEMMA UserStepCount ==
  ASSUME TypeOK, Holder, RefCountsUsers, NEW u \in User,
         Enter(u) \/ EnterStep(u) \/ Leave(u) \/ ExitStep(u) \/ Cancel(u) \/ LateSpawn(u)
  PROVE  RefCountsUsers'
<1> DEFINE Sideways == \E p \in Place : /\ GoTo(u, p)
                                        /\ pc[u] \in Inside <=> p \in Inside
<1>a. ASSUME Sideways, ref' = ref PROVE RefCountsUsers'
  <2>1. PICK p \in Place : GoTo(u, p) /\ (pc[u] \in Inside <=> p \in Inside)
    BY <1>a
  <2> QED
    BY <1>a, <2>1, MoveKeeps
<1>b. ASSUME UNCHANGED <<pc, ref>> PROVE RefCountsUsers'
  BY <1>b DEF RefCountsUsers, Counted
<1> USE DEF Place, Starting, Stopping, Over, Inside, mgrVars
<1>1. CASE Enter(u)
  BY <1>1, <1>a DEF Enter
<1>2. CASE EnterStep(u)
  <2>1. CASE EnterShared(u)
    BY <2>1, MoveIn DEF EnterShared
  <2>2. CASE Ready(u)
    BY <2>2, MoveIn DEF Ready
  <2>3. ASSUME NEW d \in Daemon, Kill(u, d) PROVE RefCountsUsers'
    <3>1. CASE Fail(u)
      BY <2>3, <3>1, <1>a DEF Kill, Fail
    <3>2. CASE UNCHANGED <<pc, lock>>
      BY <2>3, <3>2, <1>b DEF Kill
    <3> QED
      BY <2>3, <3>1, <3>2 DEF Kill
  <2>4. CASE PassGate(u)
    BY <2>4, <1>a DEF PassGate
  <2>5. CASE EnterFirst(u)
    BY <2>5, <1>a DEF EnterFirst, Fail
  <2>6. CASE List(u)
    BY <2>6, <1>a DEF List, Fail
  <2>7. CASE KillEnd(u)
    BY <2>7, <1>a DEF KillEnd
  <2>8. CASE Spawn(u)
    BY <2>8, <1>a DEF Spawn, Fail
  <2>9. CASE StartTimeout(u)
    BY <2>9, <1>a DEF StartTimeout, Fail
  <2> QED
    BY <1>2, <2>1, <2>2, <2>3, <2>4, <2>5, <2>6, <2>7, <2>8, <2>9 DEF EnterStep
<1>3. CASE Leave(u)
  BY <1>3, <1>a DEF Leave
<1>4. CASE ExitStep(u)
  <2>1. CASE ExitLock(u)
    <3>1. ref' = [ref EXCEPT ![Home[u]] = ref[Home[u]] - 1] /\ pc[u] \in Inside
      BY <2>1 DEF ExitLock, Discounted
    <3>2. GoTo(u, "stopGate") \/ GoTo(u, "done")
      BY <2>1 DEF ExitLock
    <3> QED
      BY <3>1, <3>2, MoveOut
  <2>2. CASE StopBegin(u)
    BY <2>2, <1>a DEF StopBegin, StopAwaited
  <2>3. CASE StopEnd(u)
    BY <2>3, <1>a DEF StopEnd
  <2> QED
    BY <1>4, <2>1, <2>2, <2>3 DEF ExitStep
<1>5. CASE Cancel(u)
  <2>1. CASE CancelEnter(u)
    BY <2>1, <1>a DEF CancelEnter
  <2>2. CASE CancelLeave(u)
    BY <2>2, <1>a DEF CancelLeave
  <2>3. CASE CancelStop(u)
    BY <2>3, <1>a DEF CancelStop
  <2> QED
    BY <1>5, <2>1, <2>2, <2>3 DEF Cancel
<1>6. CASE LateSpawn(u)
  BY <1>6, <1>b DEF LateSpawn
<1> QED
  BY <1>1, <1>2, <1>3, <1>4, <1>5, <1>6

-----------------------------------------------------------------------------
(* The invariant, and what follows from it                                 *)

\* The invariant holds at the start.
LEMMA InitIInv == Init => IInv
<1> SUFFICES ASSUME Init PROVE IInv
  OBVIOUS
<1>1. TypeOK
  BY DEF Init, TypeOK, Place
<1>2. Holder /\ GateHeld
  BY DEF Init, Holder, GateHeld, Starting, Stopping
<1>3. RefCountsUsers
  <2>1. \A m \in Mgr : Counted(m) = {}
    BY DEF Init, Counted, Inside
  <2> QED
    BY <2>1, FS_EmptySet DEF Init, RefCountsUsers
<1> QED
  BY <1>1, <1>2, <1>3 DEF IInv

\* Every step keeps the invariant.
LEMMA NextIInv == IInv /\ [Next]_vars => IInv'
<1> SUFFICES ASSUME IInv, [Next]_vars PROVE IInv'
  OBVIOUS
<1>0. TypeOK /\ Holder /\ GateHeld /\ RefCountsUsers
  BY DEF IInv
<1>1. ASSUME NEW u \in User,
             Enter(u) \/ EnterStep(u) \/ Leave(u) \/ ExitStep(u) \/ Cancel(u) \/ LateSpawn(u)
      PROVE  IInv'
  BY <1>0, <1>1, UserStepType, UserStepHolder, UserStepGate, UserStepCount DEF IInv
<1>2. CASE \/ \E m \in Mgr : Recheck(m)
           \/ \E d \in Daemon : Bind(d) \/ DaemonExits(d) \/ DaemonDies(d)
           \/ UNCHANGED vars
  <2>1. TypeOK' /\ UNCHANGED <<pc, gate, lock, ref, proc>>
    BY <1>0, <1>2, OutsideStep
  <2>2. Holder' /\ GateHeld' /\ RefCountsUsers'
    BY <1>0, <2>1 DEF Holder, GateHeld, RefCountsUsers, Counted
  <2> QED
    BY <2>1, <2>2 DEF IInv
<1> QED
  BY <1>1, <1>2 DEF Next

\* TypeOK together with the ownership of the lock and the gate, and the count
\* of __aenter__ and __aexit__, is inductive.
THEOREM Inductive == Spec => []IInv
  BY InitIInv, NextIInv, PTL DEF Spec

\* No handler of GlobalTransmissionDaemonManager leaves its types.
THEOREM TypeCorrect == Spec => []TypeOK
<1>1. IInv => TypeOK
  BY DEF IInv
<1> QED
  BY <1>1, Inductive, PTL

\* _ref_count is exact, whatever fails or is cancelled wherever it waits.
THEOREM RefCountExact == Spec => []RefCountsUsers
<1>1. IInv => RefCountsUsers
  BY DEF IInv
<1> QED
  BY <1>1, Inductive, PTL

\* Only a task under the lock, with nobody counted in, replaces or drops
\* _process: never while a request uses the daemon.
THEOREM NeverReplacedInUse == Spec => KeptInUse
<1>1. ASSUME IInv, [Next]_vars
      PROVE  [\A u \in User : pc[u] = "body" => proc'[Home[u]] = proc[Home[u]]]_vars
  <2> SUFFICES ASSUME NEW w \in User, pc[w] = "body"
               PROVE  proc'[Home[w]] = proc[Home[w]]
    OBVIOUS
  <2>0. TypeOK /\ Holder /\ RefCountsUsers
    BY <1>1 DEF IInv
  <2>1. ref[Home[w]] > 0 /\ Home[w] \in Mgr
    BY <2>0, InsideCounts, DaemonAssumption DEF Inside, DaemonAssumption
  <2>2. ASSUME NEW u \in User,
               Enter(u) \/ EnterStep(u) \/ Leave(u) \/ ExitStep(u) \/ Cancel(u)
                 \/ LateSpawn(u)
        PROVE  \/ proc' = proc
               \/ ref[Home[u]] = 0 /\ \E x : proc' = [proc EXCEPT ![Home[u]] = x]
    <3>1. CASE Enter(u) \/ Leave(u) \/ LateSpawn(u)
      BY <3>1 DEF Enter, Leave, LateSpawn, mgrVars
    <3>2. CASE Cancel(u)
      BY <3>2 DEF Cancel, CancelEnter, CancelLeave, CancelStop, mgrVars
    <3>3. CASE EnterStep(u)
      <4>1. CASE Spawn(u)
        BY <2>0, <4>1 DEF Spawn, Holder, Starting
      <4>2. ASSUME NEW d \in Daemon, Kill(u, d) PROVE proc' = proc
        BY <4>2 DEF Kill, mgrVars
      <4> QED
        BY <3>3, <4>1, <4>2 DEF EnterStep, PassGate, EnterShared, EnterFirst, List, KillEnd, Ready,
           StartTimeout, mgrVars
    <3>4. CASE ExitStep(u)
      <4>1. CASE ExitLock(u)
        BY <4>1 DEF ExitLock
      <4>2. CASE StopBegin(u)
        BY <2>0, <4>2 DEF StopBegin, StopAwaited, Holder, Stopping
      <4>3. CASE StopEnd(u)
        BY <2>0, <4>3 DEF StopEnd, Holder, Stopping
      <4> QED
        BY <3>4, <4>1, <4>2, <4>3 DEF ExitStep
    <3> QED
      BY <2>2, <3>1, <3>2, <3>3, <3>4
  <2>3. ASSUME NEW u \in User,
               Enter(u) \/ EnterStep(u) \/ Leave(u) \/ ExitStep(u) \/ Cancel(u)
                 \/ LateSpawn(u)
        PROVE  proc'[Home[w]] = proc[Home[w]]
    <3>1. CASE proc' = proc
      BY <3>1
    <3>2. CASE ref[Home[u]] = 0 /\ \E x : proc' = [proc EXCEPT ![Home[u]] = x]
      BY <2>1, <3>2 DEF TypeOK
    <3> QED
      BY <2>2, <2>3, <3>1, <3>2
  <2>4. CASE \/ \E m \in Mgr : Recheck(m)
             \/ \E d \in Daemon : Bind(d) \/ DaemonExits(d) \/ DaemonDies(d)
             \/ UNCHANGED vars
    BY <2>0, <2>4, OutsideStep
  <2> QED
    BY <1>1, <2>3, <2>4 DEF Next
<1> QED
  BY <1>1, Inductive, PTL DEF Spec, KeptInUse
-----------------------------------------------------------------------------
(* Daemons: what a manager starts, kills and leaves behind, while it is    *)
(* the only one that has had requests                                      *)

\* On Windows a start sees every daemon before it kills, and kills them all
\* before it spawns.
KillInv ==
  windows /\ cancels = 0 /\ OneWorker =>
    /\ late = {}
    /\ \A d, e \in alive : d = e
    /\ \A u \in User : /\ pc[u] = "killing" => alive \subseteq victims[u]
                       /\ pc[u] = "spawning" => alive = {}

\* A daemon exits only while the request that stops it waits for that.
ExitInv ==
  Undisturbed /\ OneWorker =>
    /\ \A u \in User : pc[u] \in Inside => serving # NoDaemon
    /\ dying # {} => \E u \in User : pc[u] = "stopping"
    /\ \A u \in User : pc[u] = "stopping" => dying \subseteq {proc[Home[u]]}

\* A daemon that runs has a request that will stop it.
Minding == {"waiting", "body", "leaving", "stopGate", "stopping"}

MindedInv ==
  Undisturbed /\ (\A u \in User : pc[u] # "failed") =>
    \A m \in Mgr : proc[m] \in alive => \E u \in User : Home[u] = m /\ pc[u] \in Minding

\* Only a cancellation makes a request get lost in __aexit__.
LostInv == cancels = 0 => \A u \in User : pc[u] # "lost"

\* A request does not come twice, so a worker that has had one has had one.
LEMMA OneWorkerBefore ==
  ASSUME IInv, [Next]_vars, OneWorker'
  PROVE  OneWorker
<1> SUFFICES ASSUME NEW v \in User, pc[v] # "out" PROVE pc'[v] # "out"
  BY DEF OneWorker
<1>0. TypeOK /\ Holder
  BY DEF IInv
<1> USE DEF GoTo, Fail, TypeOK
<1>1. ASSUME NEW u \in User, Enter(u) \/ Leave(u) \/ LateSpawn(u) PROVE pc'[v] # "out"
  BY <1>0, <1>1 DEF Enter, Leave, LateSpawn
<1>2. ASSUME NEW u \in User, EnterStep(u) PROVE pc'[v] # "out"
  <2>1. ASSUME NEW d \in Daemon, Kill(u, d) PROVE pc'[v] # "out"
    BY <1>0, <2>1 DEF Kill
  <2>2. CASE PassGate(u) \/ EnterShared(u) \/ EnterFirst(u) \/ KillEnd(u)
    BY <1>0, <2>2 DEF PassGate, EnterShared, EnterFirst, KillEnd
  <2>3. CASE List(u) \/ Spawn(u) \/ Ready(u) \/ StartTimeout(u)
    BY <1>0, <2>3 DEF List, Spawn, Ready, StartTimeout
  <2> QED
    BY <1>2, <2>1, <2>2, <2>3 DEF EnterStep
<1>3. ASSUME NEW u \in User, ExitStep(u) PROVE pc'[v] # "out"
  BY <1>0, <1>3 DEF ExitStep, ExitLock, StopBegin, StopAwaited, StopEnd
<1>4. ASSUME NEW u \in User, Cancel(u) PROVE pc'[v] # "out"
  BY <1>0, <1>4 DEF Cancel, CancelEnter, CancelLeave, CancelStop
<1>5. CASE \/ \E m \in Mgr : Recheck(m)
           \/ \E d \in Daemon : Bind(d) \/ DaemonExits(d) \/ DaemonDies(d)
           \/ UNCHANGED vars
  BY <1>0, <1>5, OutsideStep
<1> QED
  BY <1>1, <1>2, <1>3, <1>4, <1>5 DEF Next

\* One request at a time starts or stops the daemon of the only worker.
LEMMA OneAtWork ==
  ASSUME TypeOK, Holder, OneWorker, NEW u \in User, NEW v \in User,
         pc[u] \in Starting \cup Stopping, pc[v] \in Starting \cup Stopping
  PROVE  u = v
<1>1. Home[u] = Home[v]
  BY DEF OneWorker, Starting, Stopping
<1>2. Owns(lock[Home[u]], u) /\ Owns(lock[Home[u]], v)
  BY <1>1 DEF Holder
<1> QED
  BY <1>2, OneOwner

\* While it does, nobody uses that daemon.
LEMMA NobodyInside ==
  ASSUME TypeOK, Holder, RefCountsUsers, OneWorker,
         NEW u \in User, pc[u] \in Starting \cup Stopping, NEW v \in User
  PROVE  pc[v] \notin Inside
<1> SUFFICES ASSUME pc[v] \in Inside PROVE FALSE
  OBVIOUS
<1>1. Home[u] = Home[v]
  BY DEF OneWorker, Starting, Stopping, Inside
<1>2. ref[Home[v]] = 0
  BY <1>1 DEF Holder
<1> QED
  BY <1>2, InsideCounts

\* Every step keeps KillInv.
LEMMA NextKill ==
  ASSUME IInv, KillInv, [Next]_vars
  PROVE  KillInv'
<1> SUFFICES ASSUME windows', cancels' = 0, OneWorker'
             PROVE  /\ late' = {}
                    /\ \A d, e \in alive' : d = e
                    /\ \A u \in User : /\ pc'[u] = "killing" => alive' \subseteq victims'[u]
                                       /\ pc'[u] = "spawning" => alive' = {}
  BY DEF KillInv
<1>0. TypeOK /\ Holder /\ OneWorker
  BY OneWorkerBefore DEF IInv
<1> DEFINE Goal == /\ late' = {}
                   /\ \A d, e \in alive' : d = e
                   /\ \A u \in User : /\ pc'[u] = "killing" => alive' \subseteq victims'[u]
                                      /\ pc'[u] = "spawning" => alive' = {}
<1> USE DEF mgrVars, osVars, around, GoTo, Fail
<1>s. ASSUME UNCHANGED <<windows, cancels, late>>, alive' \subseteq alive,
             \A v \in User : pc'[v] \in {"killing", "spawning"} =>
                               pc'[v] = pc[v] /\ victims'[v] = victims[v]
      PROVE  Goal
  BY <1>0, <1>s DEF KillInv
<1>1. ASSUME NEW u \in User, EnterStep(u) PROVE Goal
  <2>1. CASE List(u)
    <3>1. late' = {} /\ alive' = alive
      BY <1>0, <2>1 DEF List, KillInv
    <3>2. CASE Fail(u) /\ UNCHANGED victims
      BY <1>0, <1>s, <2>1, <3>2 DEF List, TypeOK
    <3>3. CASE victims' = [victims EXCEPT ![u] = Listed] /\ GoTo(u, "killing")
      <4>1. victims'[u] = alive /\ pc'[u] = "killing"
        BY <1>0, <3>3 DEF TypeOK, Listed
      <4>2. \A v \in User : v # u => pc'[v] = pc[v] /\ victims'[v] = victims[v]
        BY <1>0, <3>3 DEF TypeOK
      <4> QED
        BY <1>0, <2>1, <3>1, <4>1, <4>2 DEF List, KillInv
    <3> QED
      BY <2>1, <3>2, <3>3 DEF List
  <2>2. ASSUME NEW d \in Daemon, Kill(u, d) PROVE Goal
    <3>1. CASE Fail(u) /\ victims' = [victims EXCEPT ![u] = {}] /\ UNCHANGED osVars
      BY <1>0, <1>s, <2>2, <3>1 DEF Kill, TypeOK
    <3>2. CASE Die({d}) /\ victims' = [victims EXCEPT ![u] = @ \ {d}] /\ UNCHANGED pc
      <4>1. late' = {} /\ alive' = alive \ {d}
        BY <1>0, <2>2, <3>2 DEF Kill, Die, KillInv
      <4>2. victims'[u] = victims[u] \ {d} /\ \A v \in User : v # u => victims'[v] = victims[v]
        BY <1>0, <3>2 DEF TypeOK
      <4> QED
        BY <1>0, <2>2, <3>2, <4>1, <4>2 DEF Kill, KillInv
    <3> QED
      BY <2>2, <3>1, <3>2 DEF Kill
  <2>3. CASE KillEnd(u)
    <3>1. pc[u] = "killing" /\ victims[u] = {} /\ UNCHANGED <<alive, late, victims>>
      BY <2>3 DEF KillEnd
    <3>2. alive = {} /\ late = {}
      BY <1>0, <2>3, <3>1 DEF KillEnd, KillInv
    <3> QED
      BY <3>1, <3>2
  <2>4. CASE Spawn(u)
    <3>1. CASE Fail(u) /\ UNCHANGED alive
      BY <1>0, <1>s, <2>4, <3>1 DEF Spawn, TypeOK
    <3>2. ASSUME NEW d \in Daemon, alive' = alive \cup {d}, GoTo(u, "waiting") PROVE Goal
      <4>1. pc[u] = "spawning" /\ late' = {} /\ alive' = {d}
        BY <1>0, <2>4, <3>2 DEF Spawn, KillInv
      <4>2. ASSUME NEW v \in User PROVE pc'[v] \notin {"killing", "spawning"}
        <5>1. CASE v = u
          BY <1>0, <3>2, <5>1 DEF TypeOK
        <5>2. CASE v # u
          BY <1>0, <3>2, <4>1, <5>2, OneAtWork DEF TypeOK, Starting
        <5> QED
          BY <5>1, <5>2
      <4> QED
        BY <4>1, <4>2
    <3> QED
      BY <2>4, <3>1, <3>2 DEF Spawn
  <2>5. CASE EnterFirst(u)
    <3>1. windows
      BY <2>5 DEF EnterFirst
    <3> QED
      BY <1>0, <1>s, <2>5, <3>1 DEF EnterFirst, TypeOK
  <2>6. CASE PassGate(u) \/ EnterShared(u) \/ Ready(u) \/ StartTimeout(u)
    BY <1>0, <1>s, <2>6 DEF PassGate, EnterShared, Ready, StartTimeout, TypeOK
  <2> QED
    BY <1>1, <2>1, <2>2, <2>3, <2>4, <2>5, <2>6 DEF EnterStep
<1>2. ASSUME NEW u \in User, Enter(u) \/ Leave(u) PROVE Goal
  BY <1>0, <1>2, <1>s DEF Enter, Leave, TypeOK
<1>3. ASSUME NEW u \in User, ExitStep(u) PROVE Goal
  <2>1. CASE ExitLock(u) \/ StopEnd(u)
    BY <1>0, <2>1, <1>s DEF ExitLock, StopEnd, TypeOK
  <2>2. CASE StopBegin(u)
    BY <1>0, <2>2, <1>s DEF StopBegin, StopAwaited, Die, TypeOK
  <2> QED
    BY <1>3, <2>1, <2>2 DEF ExitStep
<1>4. ASSUME NEW u \in User, Cancel(u) PROVE Goal
  BY <1>0, <1>4 DEF Cancel, TypeOK
<1>5. ASSUME NEW u \in User, LateSpawn(u) PROVE Goal
  BY <1>0, <1>5 DEF LateSpawn, KillInv
<1>6. ASSUME NEW d \in Daemon, Bind(d) \/ DaemonExits(d) \/ DaemonDies(d) PROVE Goal
  BY <1>6, <1>s DEF Bind, DaemonExits, DaemonDies, Die
<1>7. CASE (\E x \in Mgr : Recheck(x)) \/ UNCHANGED vars
  BY <1>7, <1>s DEF Recheck, vars
<1> QED
  BY <1>1, <1>2, <1>3, <1>4, <1>5, <1>6, <1>7 DEF Next

\* On Windows, as long as one worker has had all requests and no handler is
\* cancelled, there are never two daemons.
THEOREM NeverTwoDaemons == Spec => []OneDaemon
<1>1. Init => KillInv
  BY DEF Init, KillInv
<1>2. IInv /\ KillInv /\ [Next]_vars => KillInv'
  BY NextKill
<1>3. KillInv => OneDaemon
  <2> SUFFICES ASSUME KillInv, windows, cancels = 0, OneWorker
               PROVE  Cardinality(alive) <= 1
    BY DEF OneDaemon
  <2>1. CASE alive = {}
    BY <2>1, FS_EmptySet
  <2>2. ASSUME NEW d \in alive PROVE Cardinality(alive) <= 1
    <3>1. alive = {d}
      BY DEF KillInv
    <3>2. Cardinality({d}) = 1
      BY FS_Singleton
    <3> QED
      BY <3>1, <3>2
  <2> QED
    BY <2>1, <2>2
<1> QED
  BY <1>1, <1>2, <1>3, InitIInv, NextIInv, PTL DEF Spec

\* On Windows, the daemon that a start waits for is the only one that runs.
OwnInv ==
  windows /\ cancels = 0 /\ OneWorker =>
    \A u \in User : pc[u] = "waiting" => alive \subseteq {proc[Home[u]]}

\* On Windows, as long as one worker has had all requests and no handler is
\* cancelled, the daemon that answers a start is the one it has started.
OwnWhenAlone ==
  [][windows /\ cancels = 0 /\ OneWorker =>
       \A u \in User : Ready(u) => serving = proc[Home[u]]]_vars

\* Every step keeps OwnInv.
LEMMA NextOwn ==
  ASSUME IInv, KillInv, OwnInv, [Next]_vars
  PROVE  OwnInv'
<1> SUFFICES ASSUME windows', cancels' = 0, OneWorker', NEW v \in User, pc'[v] = "waiting"
             PROVE  alive' \subseteq {proc'[Home[v]]}
  BY DEF OwnInv
<1>0. TypeOK /\ Holder /\ OneWorker
  BY OneWorkerBefore DEF IInv
<1> USE DEF mgrVars, osVars, around
\* A start waits on while the daemons only get fewer.
<1>s. ASSUME UNCHANGED <<windows, cancels, proc>>, alive' \subseteq alive, pc[v] = "waiting"
      PROVE  alive' \subseteq {proc'[Home[v]]}
  BY <1>0, <1>s DEF OwnInv
<1>1. ASSUME NEW u \in User, Spawn(u) PROVE alive' \subseteq {proc'[Home[v]]}
  <2>1. /\ pc[u] = "spawning" /\ windows /\ cancels = 0
        /\ \A w \in User : w # u => pc'[w] = pc[w]
    BY <1>0, <1>1 DEF Spawn, Fail, GoTo, TypeOK
  <2>2. v = u
    BY <1>0, <2>1, OneAtWork DEF Starting
  <2>3. alive = {}
    BY <1>0, <2>1 DEF KillInv
  <2>4. PICK d \in Daemon : proc' = [proc EXCEPT ![Home[u]] = d] /\ alive' = alive \cup {d}
    BY <1>0, <1>1, <2>2 DEF Spawn, Fail, GoTo, TypeOK
  <2>5. proc'[Home[u]] = d
    BY <1>0, <2>4, DaemonAssumption DEF TypeOK, DaemonAssumption
  <2> QED
    BY <2>2, <2>3, <2>4, <2>5
<1>2. ASSUME NEW u \in User, EnterStep(u), ~Spawn(u) PROVE alive' \subseteq {proc'[Home[v]]}
  <2>1. ASSUME NEW d \in Daemon, Kill(u, d) PROVE alive' \subseteq {proc'[Home[v]]}
    <3>1. pc[v] = "waiting"
      BY <1>0, <2>1 DEF Kill, Fail, GoTo, TypeOK
    <3> QED
      BY <1>s, <2>1, <3>1 DEF Kill, Die
  <2>2. CASE PassGate(u) \/ EnterShared(u) \/ EnterFirst(u)
    BY <1>0, <1>s, <2>2 DEF PassGate, EnterShared, EnterFirst, Fail, GoTo, TypeOK
  <2>3. CASE List(u) \/ KillEnd(u)
    BY <1>0, <1>s, <2>3 DEF List, KillEnd, Fail, GoTo, TypeOK
  <2>4. CASE Ready(u) \/ StartTimeout(u)
    BY <1>0, <1>s, <2>4 DEF Ready, StartTimeout, Fail, GoTo, TypeOK
  <2> QED
    BY <1>2, <2>1, <2>2, <2>3, <2>4 DEF EnterStep
<1>3. ASSUME NEW u \in User, Enter(u) \/ Leave(u) PROVE alive' \subseteq {proc'[Home[v]]}
  BY <1>0, <1>3, <1>s DEF Enter, Leave, GoTo, TypeOK
<1>4. ASSUME NEW u \in User, ExitStep(u) PROVE alive' \subseteq {proc'[Home[v]]}
  <2>1. CASE ExitLock(u)
    BY <1>0, <1>s, <2>1 DEF ExitLock, GoTo, TypeOK
  <2>2. CASE StopBegin(u) \/ StopEnd(u)
    <3>1. pc[u] \in Stopping /\ pc[v] = "waiting"
      BY <1>0, <2>2 DEF StopBegin, StopAwaited, StopEnd, GoTo, Stopping, TypeOK
    <3> QED
      BY <1>0, <3>1, OneAtWork DEF Starting, Stopping
  <2> QED
    BY <1>4, <2>1, <2>2 DEF ExitStep
<1>5. ASSUME NEW u \in User, Cancel(u) PROVE FALSE
  BY <1>0, <1>5 DEF Cancel, TypeOK
<1>6. ASSUME NEW u \in User, LateSpawn(u) PROVE FALSE
  BY <1>0, <1>6 DEF LateSpawn, KillInv
<1>7. ASSUME NEW d \in Daemon, Bind(d) \/ DaemonExits(d) \/ DaemonDies(d)
      PROVE  alive' \subseteq {proc'[Home[v]]}
  BY <1>7, <1>s DEF Bind, DaemonExits, DaemonDies, Die
<1>8. CASE (\E x \in Mgr : Recheck(x)) \/ UNCHANGED vars
  BY <1>8, <1>s DEF Recheck, vars
<1> QED
  BY <1>1, <1>2, <1>3, <1>4, <1>5, <1>6, <1>7, <1>8 DEF Next

\* What __aenter__ reports holds on Windows as long as one worker has had all
\* requests and no handler is cancelled: the daemon that answers is the one it
\* has started.  A request to a second worker makes it false (StartedIsOwn).
THEOREM StartsItsOwn == Spec => OwnWhenAlone
<1> DEFINE Inv == IInv /\ KillInv /\ OwnInv
           Own == windows /\ cancels = 0 /\ OneWorker => \A u \in User : Ready(u) => serving = proc[Home[u]]
<1>1. Init => Inv
  <2>1. Init => KillInv /\ OwnInv
    BY DEF Init, KillInv, OwnInv
  <2> QED
    BY <2>1, InitIInv
<1>2. Inv /\ [Next]_vars => Inv'
  BY NextIInv, NextKill, NextOwn
<1>3. Inv => [Own]_vars
  <2> SUFFICES ASSUME IInv, OwnInv, windows, cancels = 0, OneWorker, NEW u \in User, Ready(u)
               PROVE  serving = proc[Home[u]]
    OBVIOUS
  <2>1. serving \in alive /\ pc[u] = "waiting"
    BY DEF Ready, IInv, TypeOK
  <2> QED
    BY <2>1 DEF OwnInv
<1> QED
  BY <1>1, <1>2, <1>3, PTL DEF Spec, OwnWhenAlone

\* Every step keeps ExitInv.
LEMMA NextExit ==
  ASSUME IInv, ExitInv, [Next]_vars
  PROVE  ExitInv'
<1> DEFINE Goal == /\ \A u \in User : pc'[u] \in Inside => serving' # NoDaemon
                   /\ dying' # {} => \E u \in User : pc'[u] = "stopping"
                   /\ \A u \in User : pc'[u] = "stopping" => dying' \subseteq {proc'[Home[u]]}
<1> SUFFICES ASSUME Undisturbed', OneWorker' PROVE Goal
  BY DEF ExitInv
<1>0. TypeOK /\ Holder /\ RefCountsUsers /\ OneWorker
  BY OneWorkerBefore DEF IInv
<1> USE DEF Undisturbed, mgrVars, osVars, around, GoTo, Fail
<1>s. ASSUME UNCHANGED <<cancels, deaths, dying, proc>>,
             serving' = serving \/ serving' # NoDaemon,
             \A v \in User : /\ pc'[v] \in Inside => pc[v] \in Inside \/ serving # NoDaemon
                             /\ pc[v] = "stopping" <=> pc'[v] = "stopping"
      PROVE  Goal
  BY <1>0, <1>s DEF ExitInv
\* During a start, and before a stop, nobody is inside and no daemon exits.
<1>n. ASSUME NEW u \in User, pc[u] \in Starting \cup {"stopGate"}, UNCHANGED <<cancels, deaths>>
      PROVE  dying = {} /\ \A v \in User : pc[v] \notin Inside
  <2>1. \A v \in User : pc[v] \notin Inside
    BY <1>0, <1>n, NobodyInside DEF Stopping
  <2>2. \A v \in User : pc[v] # "stopping"
    BY <1>0, <1>n, OneAtWork DEF Starting, Stopping
  <2> QED
    BY <1>0, <1>n, <2>1, <2>2 DEF ExitInv
<1>1. ASSUME NEW u \in User, EnterStep(u) PROVE Goal
  <2>1. ASSUME NEW d \in Daemon, Kill(u, d) PROVE Goal
    <3>1. dying = {} /\ \A v \in User : pc[v] \notin Inside
      BY <1>n, <2>1 DEF Kill, Starting
    <3>2. \A v \in User : pc'[v] \notin Inside
      BY <1>0, <2>1, <3>1 DEF Kill, TypeOK, Inside
    <3>3. dying' = {}
      BY <2>1, <3>1 DEF Kill, Die
    <3> QED
      BY <3>2, <3>3
  <2>2. CASE Spawn(u)
    <3>1. dying = {} /\ \A v \in User : pc[v] \notin Inside
      BY <1>n, <2>2 DEF Spawn, Starting
    <3>2. \A v \in User : pc'[v] \notin Inside
      BY <1>0, <2>2, <3>1 DEF Spawn, TypeOK, Inside
    <3> QED
      BY <2>2, <3>1, <3>2 DEF Spawn
  <2>3. CASE PassGate(u) \/ EnterFirst(u) \/ List(u) \/ KillEnd(u) \/ StartTimeout(u)
    BY <1>0, <1>s, <2>3 DEF PassGate, EnterFirst, List, KillEnd, StartTimeout, TypeOK, Inside
  <2>4. CASE Ready(u)
    BY <1>0, <1>s, <2>4 DEF Ready, TypeOK, Inside
  <2>5. CASE EnterShared(u)
    \* Somebody is inside already, and is served.
    <3>1. Home[u] \in Mgr /\ ref[Home[u]] > 0
      BY <2>5, DaemonAssumption DEF DaemonAssumption, EnterShared, Shares
    <3>2. Counted(Home[u]) # {}
      BY <1>0, <3>1, FS_EmptySet DEF RefCountsUsers
    <3>3. PICK v \in User : pc[v] \in Inside
      BY <3>2 DEF Counted
    <3>4. serving # NoDaemon
      BY <1>0, <2>5, <3>3 DEF EnterShared, ExitInv
    <3> QED
      BY <1>0, <1>s, <2>5, <3>4 DEF EnterShared, TypeOK
  <2> QED
    BY <1>1, <2>1, <2>2, <2>3, <2>4, <2>5 DEF EnterStep
<1>2. ASSUME NEW u \in User, Enter(u) \/ Leave(u) PROVE Goal
  BY <1>0, <1>2, <1>s DEF Enter, Leave, TypeOK, Inside
<1>3. ASSUME NEW u \in User, ExitStep(u) PROVE Goal
  <2>1. CASE ExitLock(u)
    BY <1>0, <2>1, <1>s DEF ExitLock, TypeOK, Inside
  <2>2. CASE StopBegin(u)
    <3>1. dying = {} /\ \A v \in User : pc[v] \notin Inside
      BY <1>n, <2>2 DEF StopBegin
    <3>2. \A v \in User : pc'[v] \notin Inside
      BY <1>0, <2>2, <3>1 DEF StopBegin, StopAwaited, TypeOK, Inside
    <3>3. \/ dying' = {}
          \/ dying' = {proc[Home[u]]} /\ UNCHANGED proc /\ pc'[u] = "stopping"
      BY <1>0, <2>2, <3>1 DEF StopBegin, StopAwaited, Die, TypeOK
    <3>4. \A v \in User : pc'[v] = "stopping" => v = u
      <4>1. \A v \in User : v # u => pc[v] # "stopping"
        BY <1>0, <2>2, OneAtWork DEF StopBegin, Stopping
      <4> QED
        BY <1>0, <2>2, <4>1, OwnMoves DEF ExitStep
    <3> QED
      BY <3>2, <3>3, <3>4
  <2>3. CASE StopEnd(u)
    <3>1. dying = {} /\ dying' = {}
      BY <1>0, <2>3 DEF StopEnd, ExitInv, TypeOK
    <3>2. \A v \in User : pc[v] \notin Inside
      BY <1>0, <2>3, NobodyInside DEF StopEnd, Stopping
    <3>3. \A v \in User : pc'[v] \notin Inside
      BY <1>0, <2>3, <3>2 DEF StopEnd, TypeOK, Inside
    <3> QED
      BY <3>1, <3>3
  <2> QED
    BY <1>3, <2>1, <2>2, <2>3 DEF ExitStep
<1>4. ASSUME NEW u \in User, Cancel(u) PROVE Goal
  BY <1>0, <1>4 DEF Cancel, TypeOK
<1>5. ASSUME NEW u \in User, LateSpawn(u) PROVE Goal
  BY <1>5, <1>s DEF LateSpawn
<1>6. ASSUME NEW d \in Daemon, Bind(d) PROVE Goal
  <2>1. serving' # NoDaemon
    BY <1>6, DaemonAssumption DEF Bind, DaemonAssumption
  <2> QED
    BY <1>6, <2>1, <1>s DEF Bind
<1>7. ASSUME NEW d \in Daemon, DaemonExits(d) PROVE Goal
  <2>1. PICK u \in User : pc[u] = "stopping"
    BY <1>0, <1>7 DEF DaemonExits, ExitInv
  <2>2. \A v \in User : pc[v] \notin Inside
    BY <1>0, <2>1, NobodyInside DEF Stopping
  <2> QED
    BY <1>0, <1>7, <2>1, <2>2 DEF DaemonExits, Die, ExitInv
<1>8. ASSUME NEW d \in Daemon, DaemonDies(d) PROVE Goal
  BY <1>0, <1>8 DEF DaemonDies, TypeOK
<1>9. CASE (\E x \in Mgr : Recheck(x)) \/ UNCHANGED vars
  BY <1>9, <1>s DEF Recheck, vars
<1> QED
  BY <1>1, <1>2, <1>3, <1>4, <1>5, <1>6, <1>7, <1>8, <1>9 DEF Next

\* As long as one worker has had all requests, no daemon dies and no handler is
\* cancelled, something answers on the RPC port while a request uses the daemon.
THEOREM AlwaysServed == Spec => []ServedInUse
<1>1. Init => ExitInv
  BY DEF Init, ExitInv, Inside
<1>2. IInv /\ ExitInv /\ [Next]_vars => ExitInv'
  BY NextExit
<1>3. ExitInv => ServedInUse
  BY DEF ExitInv, ServedInUse, Inside
<1> QED
  BY <1>1, <1>2, <1>3, InitIInv, NextIInv, PTL DEF Spec

\* Every step keeps LostInv.
LEMMA NextLost ==
  ASSUME TypeOK, Holder, LostInv, [Next]_vars
  PROVE  LostInv'
<1> SUFFICES ASSUME cancels' = 0, NEW v \in User, pc'[v] = "lost" PROVE FALSE
  BY DEF LostInv
<1>1. ASSUME NEW u \in User,
             Enter(u) \/ EnterStep(u) \/ Leave(u) \/ ExitStep(u) \/ LateSpawn(u)
      PROVE  FALSE
  <2>1. cancels = 0 /\ pc[v] # "lost"
    BY <1>1 DEF Enter, EnterStep, Leave, ExitStep, LateSpawn, PassGate, EnterShared, EnterFirst,
       List, Kill, KillEnd, Spawn, Ready, StartTimeout, ExitLock, StopBegin, StopEnd, around, LostInv
  <2>2. v = u /\ pc'[u] # pc[u]
    BY <1>1, <2>1, OwnMoves
  <2>3. CASE Enter(u) \/ Leave(u) \/ LateSpawn(u)
    BY <2>2, <2>3 DEF Enter, Leave, LateSpawn, GoTo, TypeOK
  <2>4. CASE EnterStep(u)
    <3>1. ASSUME NEW d \in Daemon, Kill(u, d) PROVE FALSE
      BY <2>2, <3>1 DEF Kill, Fail, GoTo, TypeOK
    <3>2. CASE PassGate(u) \/ EnterShared(u) \/ EnterFirst(u) \/ KillEnd(u)
      BY <2>2, <3>2 DEF PassGate, EnterShared, EnterFirst, KillEnd, Fail, GoTo, TypeOK
    <3>3. CASE List(u) \/ Spawn(u) \/ Ready(u) \/ StartTimeout(u)
      BY <2>2, <3>3 DEF List, Spawn, Ready, StartTimeout, Fail, GoTo, TypeOK
    <3> QED
      BY <2>4, <3>1, <3>2, <3>3 DEF EnterStep
  <2>5. CASE ExitStep(u)
    BY <2>2, <2>5 DEF ExitStep, ExitLock, StopBegin, StopAwaited, StopEnd, GoTo, TypeOK
  <2> QED
    BY <1>1, <2>3, <2>4, <2>5
<1>2. ASSUME NEW u \in User, Cancel(u) PROVE FALSE
  BY <1>2 DEF Cancel, TypeOK
<1>3. CASE \/ \E m \in Mgr : Recheck(m)
           \/ \E d \in Daemon : Bind(d) \/ DaemonExits(d) \/ DaemonDies(d)
           \/ UNCHANGED vars
  BY <1>3 DEF Recheck, Bind, DaemonExits, DaemonDies, around, vars, LostInv
<1> QED
  BY <1>1, <1>2, <1>3 DEF Next
\* When a request leaves and is not the last one, another is still inside.
LEMMA AnotherInside ==
  ASSUME TypeOK, RefCountsUsers, LostInv, cancels = 0, NEW u \in User,
         pc[u] = "leaving", ~LastOut(Home[u])
  PROVE  \E v \in User : v # u /\ Home[v] = Home[u] /\ pc[v] \in {"body", "leaving"}
<1> DEFINE m == Home[u]
<1>1. m \in Mgr /\ u \in Counted(m)
  BY DaemonAssumption DEF DaemonAssumption, Counted, Inside
<1>2. Cardinality(Counted(m)) # 1
  BY <1>1 DEF LastOut, RefCountsUsers
<1>3. Counted(m) # {u}
  BY <1>2, FS_Singleton
<1>4. PICK v \in Counted(m) : v # u
  BY <1>1, <1>3
<1> QED
  BY <1>4 DEF Counted, Inside, LostInv

\* Every step keeps MindedInv.
LEMMA NextMinded ==
  ASSUME IInv, LostInv, MindedInv, [Next]_vars
  PROVE  MindedInv'
<1>0. TypeOK /\ Holder /\ GateHeld /\ RefCountsUsers
  BY DEF IInv
<1> DEFINE Minds(v, m) == Home[v] = m /\ pc[v] \in Minding
<1> SUFFICES ASSUME Undisturbed', \A v \in User : pc'[v] # "failed",
                    NEW m \in Mgr, proc'[m] \in alive'
             PROVE  \E v \in User : Minds(v, m)'
  BY DEF MindedInv
<1> USE DEF Undisturbed, mgrVars, osVars, around, GoTo, Fail
\* Who minds the daemon already goes on, unless it is his step.
<1>s. ASSUME UNCHANGED <<cancels, deaths>>, proc'[m] = proc[m], proc[m] \in alive,
             \A v \in User : pc[v] # "failed",
             \A v \in User : pc'[v] = pc[v] \/ pc'[v] \in Minding
      PROVE  \E v \in User : Minds(v, m)'
  <2>1. PICK v \in User : Minds(v, m)
    BY <1>s DEF MindedInv
  <2>2. pc'[v] \in Minding
    BY <1>s, <2>1
  <2> QED
    BY <2>1, <2>2
<1>1. ASSUME NEW u \in User,
             Enter(u) \/ EnterStep(u) \/ Leave(u) \/ ExitStep(u) \/ LateSpawn(u)
      PROVE  \E v \in User : Minds(v, m)'
  <2>o. \A v \in User : v # u => pc'[v] = pc[v]
    BY <1>0, <1>1, OwnMoves
  <2>c. UNCHANGED <<cancels, deaths>>
    BY <1>1 DEF Enter, EnterStep, Leave, ExitStep, LateSpawn, PassGate, EnterShared, EnterFirst,
       List, Kill, KillEnd, Spawn, Ready, StartTimeout, ExitLock, StopBegin, StopEnd
  <2>f. \A v \in User : pc[v] # "failed"
    <3>1. pc'[u] = pc[u] \/ pc[u] # "failed"
      BY <1>1 DEF Enter, EnterStep, Leave, ExitStep, LateSpawn, PassGate, EnterShared, EnterFirst,
         List, Kill, KillEnd, Spawn, Ready, StartTimeout, ExitLock, StopBegin, StopEnd
    <3> QED
      BY <2>o, <3>1
  \* A step of a request that does not mind it, and starts none.
  <2>s. ASSUME pc[u] \notin Minding \/ pc'[u] = pc[u] \/ pc'[u] \in Minding,
               proc' = proc, proc[m] \in alive
        PROVE  \E v \in User : Minds(v, m)'
    <3>1. PICK v \in User : Minds(v, m)
      BY <2>s, <2>c, <2>f DEF MindedInv
    <3>2. pc'[v] \in Minding
      BY <2>o, <2>s, <3>1
    <3> QED
      BY <3>1, <3>2
  <2>1. CASE Enter(u) \/ Leave(u)
    BY <1>0, <2>1, <2>s DEF Enter, Leave, Minding, TypeOK
  <2>2. CASE LateSpawn(u)
    <3>1. proc[m] \in alive
      BY <2>2 DEF LateSpawn, Fresh, Free
    <3> QED
      BY <2>2, <2>s, <3>1 DEF LateSpawn
  <2>3. CASE EnterStep(u)
    <3>1. ASSUME NEW d \in Daemon, Kill(u, d) PROVE \E v \in User : Minds(v, m)'
      BY <2>s, <3>1 DEF Kill, Die, Minding
    <3>2. CASE Spawn(u)
      <4>1. PICK d \in Daemon : /\ Fresh(d) /\ GoTo(u, "waiting")
                                /\ proc' = [proc EXCEPT ![Home[u]] = d]
                                /\ alive' = alive \cup {d}
        BY <1>0, <3>2 DEF Spawn, TypeOK
      <4>2. CASE m = Home[u]
        <5>1. pc'[u] \in Minding
          BY <1>0, <4>1 DEF TypeOK, Minding
        <5> QED
          BY <4>2, <5>1
      <4>3. CASE m # Home[u]
        <5>1. proc'[m] = proc[m] /\ proc[m] \in alive
          BY <1>0, <4>1, <4>3 DEF TypeOK, Fresh, Free
        <5>2. \A v \in User : pc'[v] = pc[v] \/ pc'[v] \in Minding
          BY <1>0, <4>1 DEF TypeOK, Minding
        <5> QED
          BY <2>c, <2>f, <5>1, <5>2, <1>s
      <4> QED
        BY <4>2, <4>3
    <3>3. CASE PassGate(u) \/ EnterShared(u) \/ EnterFirst(u) \/ List(u) \/ KillEnd(u)
      BY <2>s, <3>3 DEF PassGate, EnterShared, EnterFirst, List, KillEnd, Minding
    <3>4. CASE Ready(u) \/ StartTimeout(u)
      BY <1>0, <2>s, <3>4 DEF Ready, StartTimeout, Minding, TypeOK
    <3> QED
      BY <2>3, <3>1, <3>2, <3>3, <3>4 DEF EnterStep
  <2>4. CASE ExitLock(u)
    <3>1. proc' = proc /\ proc[m] \in alive
      BY <2>4 DEF ExitLock
    <3>2. CASE LastOut(Home[u])
      BY <1>0, <2>4, <3>1, <3>2, <2>s DEF ExitLock, Minding, TypeOK
    <3>3. CASE ~LastOut(Home[u])
      <4>1. PICK v \in User : v # u /\ Home[v] = Home[u] /\ pc[v] \in {"body", "leaving"}
        BY <1>0, <2>4, <2>c, <3>3, AnotherInside DEF ExitLock
      <4>2. CASE m = Home[u]
        BY <2>o, <4>1, <4>2 DEF Minding
      <4>3. CASE m # Home[u]
        <5>1. PICK w \in User : Minds(w, m)
          BY <2>c, <2>f, <3>1 DEF MindedInv
        <5> QED
          BY <2>o, <4>3, <5>1
      <4> QED
        BY <4>2, <4>3
    <3> QED
      BY <3>2, <3>3
  <2>5. CASE StopBegin(u) \/ StopEnd(u)
    <3>1. pc'[u] \in {"done", "stopping"}
      BY <1>0, <2>5 DEF StopBegin, StopAwaited, StopEnd, TypeOK
    <3>2. alive' \subseteq alive
      BY <2>5 DEF StopBegin, StopEnd, Die
    <3>3. CASE m = Home[u]
      <4>1. CASE proc'[m] = NoDaemon
        BY <1>0, <3>2, <4>1, DaemonAssumption DEF TypeOK, DaemonAssumption
      <4>2. CASE proc'[m] # NoDaemon
        BY <1>0, <2>5, <3>3, <4>2 DEF StopBegin, StopAwaited, StopEnd, TypeOK, Minding
      <4> QED
        BY <4>1, <4>2
    <3>4. CASE m # Home[u]
      <4>1. proc'[m] = proc[m]
        BY <1>0, <2>5, <3>4 DEF StopBegin, StopAwaited, StopEnd, TypeOK
      <4>2. PICK w \in User : Minds(w, m)
        BY <2>c, <2>f, <3>2, <4>1 DEF MindedInv
      <4> QED
        BY <2>o, <3>4, <4>2
    <3> QED
      BY <3>3, <3>4
  <2> QED
    BY <1>1, <2>1, <2>2, <2>3, <2>4, <2>5 DEF ExitStep
<1>2. ASSUME NEW u \in User, Cancel(u) PROVE FALSE
  BY <1>0, <1>2 DEF Cancel, TypeOK
<1>3. ASSUME NEW d \in Daemon, DaemonDies(d) PROVE FALSE
  BY <1>0, <1>3 DEF DaemonDies, TypeOK
<1>4. ASSUME NEW d \in Daemon, Bind(d) \/ DaemonExits(d) PROVE \E v \in User : Minds(v, m)'
  BY <1>4, <1>s DEF Bind, DaemonExits, Die
<1>5. CASE (\E x \in Mgr : Recheck(x)) \/ UNCHANGED vars
  BY <1>5, <1>s DEF Recheck, vars
<1> QED
  BY <1>1, <1>2, <1>3, <1>4, <1>5 DEF Next

\* With no death and no cancellation, a manager that nobody is in leaves no
\* daemon of its own behind, unless a start failed.
THEOREM StoppedAfterUse == Spec => []StoppedWhenUnused
<1> DEFINE Inv == IInv /\ LostInv /\ MindedInv
<1>1. Init => Inv
  <2>1. Init => LostInv
    BY DEF Init, LostInv
  <2>2. Init => MindedInv
    BY DEF Init, MindedInv
  <2> QED
    BY <2>1, <2>2, InitIInv
<1>2. Inv /\ [Next]_vars => Inv'
  <2>1. IInv => TypeOK /\ Holder
    BY DEF IInv
  <2> QED
    BY <2>1, NextIInv, NextLost, NextMinded
<1>3. Inv => StoppedWhenUnused
  BY DEF MindedInv, StoppedWhenUnused, Minding
<1> QED
  BY <1>1, <1>2, <1>3, PTL DEF Spec

-----------------------------------------------------------------------------
(* The two locks are never left behind                                     *)

LockPlaces == {"queued", "leaving"} \cup Starting \cup Stopping
GatePlaces == {"gate"} \cup Stopping

\* A queue that holds each member of a set once, and nothing else.
Lists(q, S) ==
  /\ \A i, k \in DOMAIN q : q[i] = q[k] => i = k
  /\ S = {q[i] : i \in DOMAIN q}

Queues(q, place, P) ==
  \A m \in Mgr : Lists(q[m], {u \in User : Home[u] = m /\ place[u] \in P})

\* A lock's queue holds exactly the requests that wait for it or hold it: who
\* has failed, was cancelled or is done is in none.
QueueInv == Queues(lock, pc, LockPlaces) /\ Queues(gate, pc, GatePlaces)

\* A daemon that a request waits for was told to exit.
ToldInv ==
  \A u \in User : pc[u] = "stopping" => proc[Home[u]] \in dying \/ proc[Home[u]] \notin alive

\* A request that waits for no lock: what it waits for comes by itself.
CanGo(u) ==
  \/ pc[u] \in {"gate", "stopGate"} /\ Owns(gate[Home[u]], u)
  \/ pc[u] \in {"queued", "leaving"} \cup Starting /\ Owns(lock[Home[u]], u)
  \/ pc[u] = "stopping" /\ (proc[Home[u]] \in dying \/ proc[Home[u]] \notin alive)

\* While a request waits for a lock, one of the same manager can go on.
SomebodyGoes ==
  \A u \in User : pc[u] \in LockPlaces \cup GatePlaces =>
    \E v \in User : Home[v] = Home[u] /\ CanGo(v)

LEMMA AppendLists ==
  ASSUME NEW q \in Seq(User), NEW S, NEW u \in User, Lists(q, S), u \notin S
  PROVE  Lists(Append(q, u), S \cup {u})
<1> DEFINE r == Append(q, u)
           n == Len(q)
<1>1. /\ n \in Nat /\ DOMAIN q = 1..n /\ DOMAIN r = 1..(n + 1)
      /\ r[n + 1] = u /\ \A i \in 1..n : r[i] = q[i]
  OBVIOUS
<1>2. \A i \in 1..(n + 1) : i = n + 1 \/ i \in 1..n
  BY <1>1
<1>3. \A i \in 1..n : q[i] # u /\ q[i] \in S
  BY <1>1 DEF Lists
<1> HIDE DEF r, n
<1>4. \A i, k \in DOMAIN r : r[i] = r[k] => i = k
  BY <1>1, <1>2, <1>3 DEF Lists
<1>5. S \cup {u} = {r[i] : i \in DOMAIN r}
  <2>1. \A i \in DOMAIN r : r[i] \in S \cup {u}
    BY <1>1, <1>2, <1>3
  <2>2. u \in {r[i] : i \in DOMAIN r}
    <3>1. n + 1 \in DOMAIN r
      BY <1>1
    <3> QED
      BY <1>1, <3>1
  <2>3. ASSUME NEW v \in S PROVE v \in {r[i] : i \in DOMAIN r}
    <3>1. PICK i \in 1..n : q[i] = v
      BY <1>1 DEF Lists
    <3>2. i \in DOMAIN r /\ r[i] = v
      BY <1>1, <3>1
    <3> QED
      BY <3>2
  <2> QED
    BY <2>1, <2>2, <2>3
<1> QED
  BY <1>4, <1>5 DEF Lists, r

LEMMA DropLists ==
  ASSUME NEW q \in Seq(User), NEW S, Lists(q, S), NEW j \in DOMAIN q
  PROVE  Lists(Drop(q, j), S \ {q[j]})
<1> DEFINE r == Drop(q, j)
           n == Len(q)
           At(i) == IF i < j THEN i ELSE i + 1
<1>1. /\ n \in Nat /\ DOMAIN q = 1..n /\ j \in 1..n
      /\ DOMAIN r = 1..(n - 1) /\ \A i \in 1..(n - 1) : r[i] = IF i < j THEN q[i] ELSE q[i + 1]
  BY DEF Drop
<1> HIDE DEF r, n
<1>2. \A i \in 1..(n - 1) : At(i) \in 1..n /\ At(i) # j /\ r[i] = q[At(i)]
  BY <1>1
<1>3. \A i, k \in 1..(n - 1) : At(i) = At(k) => i = k
  BY <1>1
<1> HIDE DEF At
<1>4. \A i, k \in DOMAIN r : r[i] = r[k] => i = k
  BY <1>1, <1>2, <1>3 DEF Lists
<1>5. \A i \in DOMAIN r : r[i] \in S \ {q[j]}
  BY <1>1, <1>2 DEF Lists
<1>6. ASSUME NEW v \in S \ {q[j]} PROVE v \in {r[i] : i \in DOMAIN r}
  <2>1. PICK k \in 1..n : q[k] = v /\ k # j
    BY <1>1 DEF Lists
  <2>2. \E i \in 1..(n - 1) : At(i) = k
    <3>1. CASE k < j
      <4>1. k \in 1..(n - 1) /\ At(k) = k
        BY <1>1, <3>1 DEF At
      <4> QED
        BY <4>1
    <3>2. CASE k > j
      <4>1. k - 1 \in 1..(n - 1) /\ At(k - 1) = k
        BY <1>1, <3>2 DEF At
      <4> QED
        BY <4>1
    <3> QED
      BY <1>1, <2>1, <3>1, <3>2
  <2> QED
    BY <1>1, <1>2, <2>1, <2>2
<1>7. S \ {q[j]} = {r[i] : i \in DOMAIN r}
  BY <1>5, <1>6
<1>8. Lists(r, S \ {q[j]})
  <2> HIDE DEF At
  <2> QED
    BY <1>4, <1>7 DEF Lists
<1> QED
  BY <1>8 DEF r

LEMMA TailLists ==
  ASSUME NEW q \in Seq(User), NEW S, NEW u, Lists(q, S), Owns(q, u)
  PROVE  Lists(Tail(q), S \ {u})
<1>1. /\ Len(q) \in Nat /\ Len(q) >= 1 /\ q[1] = u /\ 1 \in DOMAIN q
  BY DEF Owns
<1>2. Tail(q) = Drop(q, 1)
  <2> DEFINE n == Len(q)
  <2>0. Tail(q) \in Seq(User) /\ Len(Tail(q)) = n - 1 /\ \A i \in 1..(n - 1) : Tail(q)[i] = q[i + 1]
    BY <1>1
  <2>1. Tail(q) \in [1..(n - 1) -> User] /\ \A i \in 1..(n - 1) : Tail(q)[i] = q[i + 1]
    BY <2>0, LenProperties
  <2>2. /\ Drop(q, 1) = [i \in 1..(n - 1) |-> IF i < 1 THEN q[i] ELSE q[i + 1]]
        /\ \A i \in 1..(n - 1) : ~(i < 1)
    BY DEF Drop
  <2>3. Drop(q, 1) = [i \in 1..(n - 1) |-> q[i + 1]]
    BY <2>2
  <2> HIDE DEF n
  <2>4. Tail(q) = [i \in 1..(n - 1) |-> Tail(q)[i]]
    BY <2>1
  <2> QED
    BY <2>1, <2>3, <2>4
<1>3. Lists(Drop(q, 1), S \ {q[1]})
  BY <1>1, DropLists
<1> QED
  BY <1>1, <1>2, <1>3

\* What one request does to a queue when it moves to place p.
Joins(q, r, u) == r = [q EXCEPT ![Home[u]] = Append(@, u)]
Leaves(q, r, u) ==
  \/ Owns(q[Home[u]], u) /\ r = [q EXCEPT ![Home[u]] = Tail(@)]
  \/ \E i \in DOMAIN q[Home[u]] : q[Home[u]][i] = u /\ r = [q EXCEPT ![Home[u]] = Drop(@, i)]

LEMMA QueueKept ==
  ASSUME NEW q \in [Mgr -> Seq(User)], NEW place \in [User -> Place], NEW P,
         Queues(q, place, P), NEW u \in User, NEW p, NEW r,
         \/ r = q /\ (place[u] \in P <=> p \in P)
         \/ Joins(q, r, u) /\ place[u] \notin P /\ p \in P
         \/ Leaves(q, r, u) /\ p \notin P
  PROVE  Queues(r, [place EXCEPT ![u] = p], P)
<1> DEFINE new == [place EXCEPT ![u] = p]
           Of(f, m) == {v \in User : Home[v] = m /\ f[v] \in P}
<1>1. Home[u] \in Mgr /\ new[u] = p /\ \A v \in User : v # u => new[v] = place[v]
  BY DaemonAssumption DEF DaemonAssumption
<1> HIDE DEF new
<1>2. ASSUME NEW m \in Mgr, m # Home[u] PROVE Lists(r[m], Of(new, m))
  <2>1. r[m] = q[m]
    BY <1>2 DEF Joins, Leaves
  <2>2. Of(new, m) = Of(place, m)
    BY <1>1, <1>2
  <2> QED
    BY <2>1, <2>2 DEF Queues
<1>3. Lists(r[Home[u]], Of(new, Home[u]))
  <2>0. Lists(q[Home[u]], Of(place, Home[u])) /\ q[Home[u]] \in Seq(User)
    BY <1>1 DEF Queues
  <2>1. CASE r = q /\ (place[u] \in P <=> p \in P)
    <3>1. Of(new, Home[u]) = Of(place, Home[u])
      BY <1>1, <2>1
    <3> QED
      BY <2>0, <2>1, <3>1
  <2>2. CASE Joins(q, r, u) /\ place[u] \notin P /\ p \in P
    <3>1. Of(new, Home[u]) = Of(place, Home[u]) \cup {u} /\ u \notin Of(place, Home[u])
      BY <1>1, <2>2
    <3>2. r[Home[u]] = Append(q[Home[u]], u)
      BY <1>1, <2>2 DEF Joins
    <3> HIDE DEF Of
    <3> QED
      BY <2>0, <3>1, <3>2, AppendLists
  <2>3. CASE Leaves(q, r, u) /\ p \notin P
    <3>1. Of(new, Home[u]) = Of(place, Home[u]) \ {u}
      BY <1>1, <2>3
    <3> HIDE DEF Of
    <3>2. CASE Owns(q[Home[u]], u) /\ r = [q EXCEPT ![Home[u]] = Tail(@)]
      <4>1. r[Home[u]] = Tail(q[Home[u]])
        BY <1>1, <3>2
      <4> QED
        BY <2>0, <3>1, <3>2, <4>1, TailLists
    <3>3. ASSUME NEW i \in DOMAIN q[Home[u]], q[Home[u]][i] = u,
                 r = [q EXCEPT ![Home[u]] = Drop(@, i)]
          PROVE  Lists(r[Home[u]], Of(new, Home[u]))
      <4>1. r[Home[u]] = Drop(q[Home[u]], i)
        BY <1>1, <3>3
      <4> QED
        BY <2>0, <3>1, <3>3, <4>1, DropLists
    <3> QED
      BY <2>3, <3>2, <3>3 DEF Leaves
  <2> QED
    BY <2>1, <2>2, <2>3
<1> QED
  BY <1>2, <1>3 DEF Queues, new

\* A move of one request, with what it does to the two locks.
LEMMA MoveQueues ==
  ASSUME TypeOK, QueueInv, NEW u \in User, NEW p, GoTo(u, p),
         \/ lock' = lock /\ (pc[u] \in LockPlaces <=> p \in LockPlaces)
         \/ Joins(lock, lock', u) /\ pc[u] \notin LockPlaces /\ p \in LockPlaces
         \/ Leaves(lock, lock', u) /\ p \notin LockPlaces,
         \/ gate' = gate /\ (pc[u] \in GatePlaces <=> p \in GatePlaces)
         \/ Joins(gate, gate', u) /\ pc[u] \notin GatePlaces /\ p \in GatePlaces
         \/ Leaves(gate, gate', u) /\ p \notin GatePlaces
  PROVE  QueueInv'
<1>0. /\ pc' = [pc EXCEPT ![u] = p] /\ pc \in [User -> Place]
      /\ lock \in [Mgr -> Seq(User)] /\ gate \in [Mgr -> Seq(User)]
  BY DEF GoTo, TypeOK
<1>1. Queues(lock', pc', LockPlaces)
  BY <1>0, QueueKept DEF QueueInv
<1>2. Queues(gate', pc', GatePlaces)
  BY <1>0, QueueKept DEF QueueInv
<1> QED
  BY <1>1, <1>2 DEF QueueInv, Queues

\* Every step keeps QueueInv: a request leaves the queues it is in when it
\* fails, is cancelled or is done.
LEMMA NextQueues == IInv /\ QueueInv /\ [Next]_vars => QueueInv'
<1> SUFFICES ASSUME IInv, QueueInv, [Next]_vars PROVE QueueInv'
  OBVIOUS
<1>0. TypeOK /\ Holder /\ GateHeld
  BY DEF IInv
<1> USE DEF mgrVars, LockPlaces, GatePlaces, Joins, Leaves
<1>s. ASSUME UNCHANGED <<pc, lock, gate>> PROVE QueueInv'
  BY <1>s DEF QueueInv, Queues
\* Out of the queue, as its owner.
<1>l. ASSUME NEW u \in User, Unlock(u), Owns(lock[Home[u]], u) PROVE Leaves(lock, lock', u)
  BY <1>l DEF Unlock
<1>g. ASSUME NEW u \in User, OpenGate(u), Owns(gate[Home[u]], u) PROVE Leaves(gate, gate', u)
  BY <1>g DEF OpenGate
<1>o. \A u \in User : pc[u] \in Starting \cup Stopping => Owns(lock[Home[u]], u)
  BY <1>0 DEF Holder
<1>f. ASSUME NEW u \in User, Fail(u), gate' = gate, Owns(lock[Home[u]], u),
             pc[u] \in {"queued"} \cup Starting
      PROVE  QueueInv'
  <2>1. GoTo(u, "failed") /\ Leaves(lock, lock', u)
    BY <1>f, <1>l DEF Fail
  <2> QED
    BY <1>0, <1>f, <2>1, MoveQueues DEF Starting, Stopping
<1>b. ASSUME NEW u \in User, NEW p, p \notin LockPlaces \cup GatePlaces, GoTo(u, p),
             ReleaseBoth(u), Owns(lock[Home[u]], u), Owns(gate[Home[u]], u)
      PROVE  QueueInv'
  <2>1. Leaves(lock, lock', u) /\ Leaves(gate, gate', u)
    BY <1>b, <1>l, <1>g DEF ReleaseBoth
  <2> QED
    BY <1>0, <1>b, <2>1, MoveQueues
<1>1. ASSUME NEW u \in User, EnterStep(u) PROVE QueueInv'
  <2>1. CASE PassGate(u)
    <3>1. Leaves(gate, gate', u) /\ Joins(lock, lock', u)
      BY <2>1, <1>g DEF PassGate, JoinLock
    <3> QED
      BY <1>0, <2>1, <3>1, MoveQueues DEF PassGate, Starting, Stopping
  <2>2. CASE EnterShared(u)
    <3>1. Leaves(lock, lock', u) /\ gate' = gate
      BY <2>2, <1>l DEF EnterShared
    <3> QED
      BY <1>0, <2>2, <3>1, MoveQueues DEF EnterShared, Starting, Stopping
  <2>3. CASE EnterFirst(u)
    <3>1. CASE Fail(u)
      BY <1>f, <2>3, <3>1 DEF EnterFirst
    <3>2. ASSUME NEW p \in {"listing", "spawning"}, GoTo(u, p), UNCHANGED lock PROVE QueueInv'
      BY <1>0, <2>3, <3>2, MoveQueues DEF EnterFirst, Starting, Stopping
    <3> QED
      BY <2>3, <3>1, <3>2 DEF EnterFirst
  <2>4. CASE List(u)
    <3>1. CASE Fail(u)
      BY <1>f, <1>o, <2>4, <3>1 DEF List, Starting
    <3>2. CASE GoTo(u, "killing") /\ UNCHANGED lock
      BY <1>0, <2>4, <3>2, MoveQueues DEF List, Starting, Stopping
    <3> QED
      BY <2>4, <3>1, <3>2 DEF List
  <2>5. ASSUME NEW d \in Daemon, Kill(u, d) PROVE QueueInv'
    <3>1. CASE Fail(u)
      BY <1>f, <1>o, <2>5, <3>1 DEF Kill, Starting
    <3>2. CASE UNCHANGED <<pc, lock>>
      BY <1>s, <2>5, <3>2 DEF Kill
    <3> QED
      BY <2>5, <3>1, <3>2 DEF Kill
  <2>6. CASE KillEnd(u)
    BY <1>0, <2>6, MoveQueues DEF KillEnd, Starting, Stopping
  <2>7. CASE Spawn(u)
    <3>1. CASE Fail(u)
      BY <1>f, <1>o, <2>7, <3>1 DEF Spawn, Starting
    <3>2. CASE GoTo(u, "waiting") /\ UNCHANGED lock
      BY <1>0, <2>7, <3>2, MoveQueues DEF Spawn, Starting, Stopping
    <3> QED
      BY <2>7, <3>1, <3>2 DEF Spawn
  <2>8. CASE Ready(u)
    <3>1. Leaves(lock, lock', u) /\ gate' = gate
      BY <2>8, <1>l, <1>o DEF Ready, Starting
    <3> QED
      BY <1>0, <2>8, <3>1, MoveQueues DEF Ready, Starting, Stopping
  <2>9. CASE StartTimeout(u)
    BY <1>f, <1>o, <2>9 DEF StartTimeout, Starting
  <2> QED
    BY <1>1, <2>1, <2>2, <2>3, <2>4, <2>5, <2>6, <2>7, <2>8, <2>9 DEF EnterStep
<1>2. ASSUME NEW u \in User, Enter(u) PROVE QueueInv'
  <2>1. CASE GoTo(u, "queued") /\ JoinLock(u) /\ UNCHANGED gate
    BY <1>0, <1>2, <2>1, MoveQueues DEF Enter, JoinLock, Starting, Stopping
  <2>2. CASE GoTo(u, "gate") /\ gate' = [gate EXCEPT ![Home[u]] = Append(@, u)] /\ UNCHANGED lock
    BY <1>0, <1>2, <2>2, MoveQueues DEF Enter, Starting, Stopping
  <2> QED
    BY <1>2, <2>1, <2>2 DEF Enter
<1>3. ASSUME NEW u \in User, Leave(u) PROVE QueueInv'
  BY <1>0, <1>3, MoveQueues DEF Leave, JoinLock, Starting, Stopping
<1>4. ASSUME NEW u \in User, ExitStep(u) PROVE QueueInv'
  <2>1. CASE ExitLock(u)
    <3>1. CASE GoTo(u, "stopGate") /\ UNCHANGED lock
                 /\ gate' = [gate EXCEPT ![Home[u]] = Append(@, u)]
      BY <1>0, <2>1, <3>1, MoveQueues DEF ExitLock, Starting, Stopping
    <3>2. CASE GoTo(u, "done") /\ Unlock(u) /\ UNCHANGED gate
      <4>1. Leaves(lock, lock', u)
        BY <2>1, <3>2, <1>l DEF ExitLock
      <4> QED
        BY <1>0, <2>1, <3>2, <4>1, MoveQueues DEF ExitLock, Starting, Stopping
    <3> QED
      BY <2>1, <3>1, <3>2 DEF ExitLock
  <2>2. CASE StopBegin(u)
    <3>1. pc[u] = "stopGate" /\ Owns(gate[Home[u]], u) /\ Owns(lock[Home[u]], u)
      BY <1>o, <2>2 DEF StopBegin, Stopping
    <3>2. ASSUME NEW p \in {"failed", "done"}, GoTo(u, p), ReleaseBoth(u) PROVE QueueInv'
      BY <1>b, <3>1, <3>2 DEF Starting, Stopping
    <3>3. CASE GoTo(u, "stopping") /\ UNCHANGED <<gate, lock>>
      BY <1>0, <3>1, <3>3, MoveQueues DEF Starting, Stopping
    <3> QED
      BY <2>2, <3>2, <3>3 DEF StopBegin, StopAwaited
  <2>3. CASE StopEnd(u)
    <3>1. Owns(gate[Home[u]], u) /\ Owns(lock[Home[u]], u)
      BY <1>0, <1>o, <2>3 DEF StopEnd, GateHeld, Stopping
    <3> QED
      BY <1>b, <2>3, <3>1 DEF StopEnd, Starting, Stopping
  <2> QED
    BY <1>4, <2>1, <2>2, <2>3 DEF ExitStep
<1>5. ASSUME NEW u \in User, Cancel(u) PROVE QueueInv'
  <2>1. CASE CancelEnter(u)
    <3>1. GoTo(u, "failed")
      BY <2>1 DEF CancelEnter
    <3>2. CASE pc[u] = "gate" /\ QuitGate(u) /\ UNCHANGED lock
      BY <1>0, <3>1, <3>2, MoveQueues DEF QuitGate, Starting, Stopping
    <3>3. CASE pc[u] = "queued" /\ QuitLock(u) /\ UNCHANGED gate
      BY <1>0, <3>1, <3>3, MoveQueues DEF QuitLock, Starting, Stopping
    <3>4. CASE pc[u] \in Starting /\ Unlock(u) /\ UNCHANGED gate
      BY <1>f, <1>o, <3>1, <3>4 DEF Fail
    <3> QED
      BY <2>1, <3>2, <3>3, <3>4 DEF CancelEnter, Starting
  <2>2. CASE CancelLeave(u)
    BY <1>0, <2>2, MoveQueues DEF CancelLeave, QuitLock, Starting, Stopping
  <2>3. CASE CancelStop(u)
    <3>1. Owns(gate[Home[u]], u) /\ Owns(lock[Home[u]], u)
      BY <1>0, <1>o, <2>3 DEF CancelStop, GateHeld, Stopping
    <3> QED
      BY <1>b, <2>3, <3>1 DEF CancelStop, Starting, Stopping
  <2> QED
    BY <1>5, <2>1, <2>2, <2>3 DEF Cancel
<1>6. CASE \/ \E u \in User : LateSpawn(u)
           \/ \E m \in Mgr : Recheck(m)
           \/ \E d \in Daemon : Bind(d) \/ DaemonExits(d) \/ DaemonDies(d)
           \/ UNCHANGED vars
  BY <1>s, <1>6 DEF LateSpawn, Recheck, Bind, DaemonExits, DaemonDies, vars
<1> QED
  BY <1>1, <1>2, <1>3, <1>4, <1>5, <1>6 DEF Next

\* Every step keeps ToldInv: nobody else touches the process of a manager whose
\* daemon is being stopped, and a new daemon is no old one.
LEMMA NextTold == IInv /\ ToldInv /\ [Next]_vars => ToldInv'
<1> SUFFICES ASSUME IInv, ToldInv, [Next]_vars, NEW v \in User, pc'[v] = "stopping"
             PROVE  proc'[Home[v]] \in dying' \/ proc'[Home[v]] \notin alive'
  BY DEF ToldInv
<1>0. TypeOK /\ Holder
  BY DEF IInv
<1> DEFINE Goal == proc'[Home[v]] \in dying' \/ proc'[Home[v]] \notin alive'
<1> USE DEF mgrVars, osVars, GoTo, Fail
<1>s. ASSUME proc' = proc, pc[v] = "stopping",
             \/ UNCHANGED <<alive, dying>>
             \/ \E ds : alive' = alive \ ds /\ dying' = dying \ ds
             \/ \E d : Fresh(d) /\ alive' = alive \cup {d} /\ dying' = dying
      PROVE  Goal
  <2>1. proc[Home[v]] \in dying \/ proc[Home[v]] \notin alive
    BY <1>s DEF ToldInv
  <2>2. Home[v] \in Mgr
    BY DaemonAssumption DEF DaemonAssumption
  <2> QED
    BY <1>s, <2>1, <2>2 DEF Fresh, Free
<1>1. ASSUME NEW u \in User, EnterStep(u) PROVE Goal
  <2>1. ASSUME NEW d \in Daemon, Kill(u, d) PROVE Goal
    <3>1. pc[v] = "stopping"
      BY <1>0, <2>1 DEF Kill, TypeOK
    <3> QED
      BY <1>s, <2>1, <3>1 DEF Kill, Die
  <2>2. CASE Spawn(u)
    <3>1. pc[v] = "stopping" /\ pc[u] = "spawning"
      BY <1>0, <2>2 DEF Spawn, TypeOK
    <3>2. Home[v] # Home[u]
      BY <1>0, <3>1, OneOwner DEF Holder, Starting, Stopping
    <3>3. Home[u] \in Mgr /\ Home[v] \in Mgr
      BY DaemonAssumption DEF DaemonAssumption
    <3>4. CASE UNCHANGED <<proc, alive>>
      BY <1>s, <2>2, <3>1, <3>4 DEF Spawn
    <3>5. ASSUME NEW d \in Daemon, Fresh(d), proc' = [proc EXCEPT ![Home[u]] = d],
                 alive' = alive \cup {d}
          PROVE  Goal
      <4>1. proc'[Home[v]] = proc[Home[v]] /\ proc[Home[v]] # d
        BY <1>0, <3>2, <3>3, <3>5 DEF TypeOK, Fresh, Free
      <4>2. proc[Home[v]] \in dying \/ proc[Home[v]] \notin alive
        BY <3>1 DEF ToldInv
      <4> QED
        BY <2>2, <3>5, <4>1, <4>2 DEF Spawn
    <3> QED
      BY <2>2, <3>4, <3>5 DEF Spawn
  <2>3. CASE PassGate(u) \/ EnterShared(u) \/ EnterFirst(u) \/ List(u) \/ KillEnd(u)
    BY <1>0, <1>s, <2>3 DEF PassGate, EnterShared, EnterFirst, List, KillEnd, TypeOK
  <2>4. CASE Ready(u) \/ StartTimeout(u)
    BY <1>0, <1>s, <2>4 DEF Ready, StartTimeout, TypeOK
  <2> QED
    BY <1>1, <2>1, <2>2, <2>3, <2>4 DEF EnterStep
<1>2. ASSUME NEW u \in User, Enter(u) \/ Leave(u) PROVE Goal
  BY <1>0, <1>2, <1>s DEF Enter, Leave, TypeOK
<1>3. ASSUME NEW u \in User, ExitStep(u) PROVE Goal
  <2>1. CASE ExitLock(u)
    BY <1>0, <1>s, <2>1 DEF ExitLock, TypeOK
  <2>2. CASE StopBegin(u) \/ StopEnd(u)
    <3>1. pc[u] \in Stopping /\ (v = u \/ (pc[v] = "stopping" /\ v # u))
      BY <1>0, <2>2 DEF StopBegin, StopAwaited, StopEnd, Stopping, TypeOK
    <3>2. Home[u] \in Mgr /\ Home[v] \in Mgr
      BY DaemonAssumption DEF DaemonAssumption
    <3>3. CASE v = u
      <4>1. proc' = proc /\ dying' = dying \cup {proc[Home[u]]}
        BY <1>0, <2>2, <3>3 DEF StopBegin, StopAwaited, StopEnd, TypeOK
      <4> QED
        BY <3>3, <4>1
    <3>4. CASE pc[v] = "stopping" /\ v # u
      <4>1. Home[v] # Home[u]
        BY <1>0, <3>1, <3>4, OneOwner DEF Holder, Stopping
      <4>2. proc'[Home[v]] = proc[Home[v]]
        BY <1>0, <2>2, <3>2, <4>1 DEF StopBegin, StopAwaited, StopEnd, TypeOK
      <4>3. \/ UNCHANGED <<alive, dying>>
            \/ alive' = alive \ {proc[Home[u]]} /\ dying' = dying \ {proc[Home[u]]}
            \/ alive' = alive /\ dying \subseteq dying'
        BY <2>2 DEF StopBegin, StopEnd, Die
      <4>4. proc[Home[v]] \in dying \/ proc[Home[v]] \notin alive
        BY <3>4 DEF ToldInv
      <4> QED
        BY <4>2, <4>3, <4>4
    <3> QED
      BY <3>1, <3>3, <3>4
  <2> QED
    BY <1>3, <2>1, <2>2 DEF ExitStep
<1>4. ASSUME NEW u \in User, Cancel(u) PROVE Goal
  <2>1. pc[v] = "stopping"
    BY <1>0, <1>4 DEF Cancel, CancelEnter, CancelLeave, CancelStop, TypeOK
  <2> QED
    BY <1>s, <1>4, <2>1 DEF Cancel, CancelEnter, CancelLeave, CancelStop
<1>5. ASSUME NEW u \in User, LateSpawn(u) PROVE Goal
  BY <1>5, <1>s DEF LateSpawn
<1>6. ASSUME NEW d \in Daemon, Bind(d) \/ DaemonExits(d) \/ DaemonDies(d) PROVE Goal
  BY <1>6, <1>s DEF Bind, DaemonExits, DaemonDies, Die
<1>7. CASE (\E m \in Mgr : Recheck(m)) \/ UNCHANGED vars
  BY <1>7, <1>s DEF Recheck, vars
<1> QED
  BY <1>1, <1>2, <1>3, <1>4, <1>5, <1>6, <1>7 DEF Next

\* The owner of a queue that is not empty is one of those it lists.
LEMMA OwnerListed ==
  ASSUME NEW q \in Seq(User), NEW S, Lists(q, S), NEW u \in S
  PROVE  \E v \in S : Owns(q, v)
<1>1. q # <<>> /\ 1 \in DOMAIN q
  BY DEF Lists
<1>2. q[1] \in S
  BY <1>1 DEF Lists
<1> QED
  BY <1>1, <1>2 DEF Owns

\* The holder of the lock goes on, unless it is the last request out and waits
\* for the gate: then it holds the gate itself or the gate is passed on.
LEMMA OwnerGoes ==
  ASSUME IInv, QueueInv, ToldInv, NEW u \in User, pc[u] \in LockPlaces
  PROVE  \E v \in User : Home[v] = Home[u] /\ CanGo(v)
<1> DEFINE m == Home[u]
           InLock == {v \in User : Home[v] = m /\ pc[v] \in LockPlaces}
           InGate == {v \in User : Home[v] = m /\ pc[v] \in GatePlaces}
<1>1. m \in Mgr /\ lock[m] \in Seq(User) /\ gate[m] \in Seq(User)
  BY DaemonAssumption DEF DaemonAssumption, IInv, TypeOK
<1>2. Lists(lock[m], InLock) /\ Lists(gate[m], InGate)
  BY <1>1 DEF QueueInv, Queues
<1>3. PICK v \in InLock : Owns(lock[m], v)
  <2>1. u \in InLock
    OBVIOUS
  <2> HIDE DEF InLock
  <2> QED
    BY <1>1, <1>2, <2>1, OwnerListed
<1>4. CASE pc[v] # "stopGate"
  <2>1. CanGo(v)
    BY <1>3, <1>4 DEF CanGo, LockPlaces, Stopping, ToldInv
  <2> QED
    BY <2>1
<1>5. CASE pc[v] = "stopGate"
  <2>1. v \in InGate
    BY <1>5 DEF GatePlaces, Stopping
  <2>2. PICK w \in InGate : Owns(gate[m], w)
    <3> HIDE DEF InGate
    <3> QED
      BY <1>1, <1>2, <2>1, OwnerListed
  <2>3. CanGo(w)
    BY <2>2 DEF CanGo, GatePlaces, Stopping, ToldInv
  <2> QED
    BY <2>3
<1> QED
  BY <1>4, <1>5

\* Each lock's queue holds exactly the requests that wait for the lock or hold
\* it, once, whatever starts fail and whichever handlers are cancelled where:
\* __aenter__ and __aexit__ release both locks on every path.
THEOREM LocksReleased == Spec => []QueueInv
<1>1. Init => QueueInv
  <2> SUFFICES ASSUME Init PROVE QueueInv
    OBVIOUS
  <2>1. ASSUME NEW m \in Mgr, NEW P, P \in {LockPlaces, GatePlaces}
        PROVE  Lists(<<>>, {u \in User : Home[u] = m /\ pc[u] \in P})
    <3>1. \A u \in User : pc[u] \notin P
      BY <2>1 DEF Init, LockPlaces, GatePlaces, Starting, Stopping
    <3>2. DOMAIN <<>> = {}
      OBVIOUS
    <3> QED
      BY <3>1, <3>2 DEF Lists
  <2>2. \A m \in Mgr : lock[m] = <<>> /\ gate[m] = <<>>
    BY DEF Init
  <2> QED
    BY <2>1, <2>2 DEF QueueInv, Queues
<1> QED
  BY <1>1, NextQueues, Inductive, PTL DEF Spec

\* The two locks never block each other: while a request waits for one of them,
\* some request of the same manager can go on, or waits for a daemon that was
\* told to exit.
THEOREM LocksNeverBlock == Spec => []SomebodyGoes
<1>1. Init => ToldInv
  BY DEF Init, ToldInv
<1>2. IInv /\ QueueInv /\ ToldInv => SomebodyGoes
  <2> SUFFICES ASSUME IInv, QueueInv, ToldInv, NEW u \in User,
                      pc[u] \in LockPlaces \cup GatePlaces
               PROVE  \E v \in User : Home[v] = Home[u] /\ CanGo(v)
    BY DEF SomebodyGoes
  <2>1. CASE pc[u] \in LockPlaces
    BY <2>1, OwnerGoes
  <2>2. CASE pc[u] = "gate"
    <3> DEFINE InGate == {v \in User : Home[v] = Home[u] /\ pc[v] \in GatePlaces}
    <3>1. /\ Home[u] \in Mgr /\ gate[Home[u]] \in Seq(User)
          /\ Lists(gate[Home[u]], InGate) /\ u \in InGate
      BY <2>2, DaemonAssumption DEF DaemonAssumption, IInv, TypeOK, QueueInv, Queues, GatePlaces
    <3>2. PICK w \in InGate : Owns(gate[Home[u]], w)
      <4> HIDE DEF InGate
      <4> QED
        BY <3>1, OwnerListed
    <3>3. CanGo(w)
      BY <3>2 DEF CanGo, GatePlaces, Stopping, ToldInv
    <3> QED
      BY <3>3
  <2> QED
    BY <2>1, <2>2 DEF LockPlaces, GatePlaces
<1> QED
  BY <1>1, <1>2, NextTold, LocksReleased, Inductive, PTL DEF Spec
=============================================================================
