------------------------- MODULE TransmissionDaemon -------------------------
(***************************************************************************)
(* GlobalTransmissionDaemonManager of services/transmission_service.py:    *)
(* the transmission-daemon process that torrent requests share.            *)
(*                                                                         *)
(* A request enters the manager (__aenter__), uses the daemon, and leaves  *)
(* it (__aexit__).  The first one in starts the daemon, the last one out   *)
(* terminates it.  Every HTTP worker process has a manager of its own, and *)
(* all their daemons want the same RPC port.                               *)
(*                                                                         *)
(* The handlers of one manager are tasks of one event loop: an action is   *)
(* what a task does from one await to the next.  An asyncio.Lock is the    *)
(* queue of the tasks that hold it (the head) or wait for it.  A client    *)
(* that goes away cancels its handler wherever it waits                    *)
(* (AbortOnDisconnectMiddleware), at most once.                            *)
(***************************************************************************)
EXTENDS Naturals, Sequences, FiniteSets

CONSTANTS
  Mgr,         \* managers, one per HTTP worker process
  User,        \* requests
  Home,        \* Home[u]: the manager that serves request u
  Daemon,      \* transmission-daemon processes
  MaxCancel,   \* bound: handlers cancelled while they wait
  MaxDeath,    \* bound: daemons that die unasked
  NoDaemon

ASSUME DaemonAssumption ==
  /\ Home \in [User -> Mgr]
  /\ IsFiniteSet(User)
  /\ MaxCancel \in Nat
  /\ MaxDeath \in Nat
  /\ NoDaemon \notin Daemon

VARIABLES
  pc,          \* where the request is
  gate,        \* _termination_lock
  lock,        \* _lock
  ref,         \* _ref_count
  proc,        \* _process
  present,     \* transmission_present
  victims,     \* processes the request has listed and has yet to kill
  late,        \* requests cancelled while their spawn was under way
  alive,       \* daemons that run
  dying,       \* those of them that were sent SIGTERM
  serving,     \* the one that holds the RPC port
  windows,     \* sys.platform == "win32"
  cancels, deaths

mgrVars == <<ref, proc, present>>
osVars  == <<alive, dying, serving>>
around  == <<windows, cancels, deaths>>
vars    == <<pc, gate, lock, mgrVars, victims, late, osVars, around>>

Starting == {"listing", "killing", "spawning", "waiting"}
Stopping == {"stopGate", "stopping"}
Over     == {"done", "failed", "lost"}
Inside   == {"body", "leaving", "lost"}
Place    == {"out", "gate", "queued", "body", "leaving"} \cup Starting
              \cup Stopping \cup Over

Init ==
  /\ pc      = [u \in User |-> "out"]
  /\ gate    = [m \in Mgr |-> <<>>]
  /\ lock    = [m \in Mgr |-> <<>>]
  /\ ref     = [m \in Mgr |-> 0]
  /\ proc    = [m \in Mgr |-> NoDaemon]
  /\ present \in [Mgr -> BOOLEAN]
  /\ victims = [u \in User |-> {}]
  /\ late    = {}
  /\ alive   = {}
  /\ dying   = {}
  /\ serving = NoDaemon
  /\ windows \in BOOLEAN
  /\ cancels = 0
  /\ deaths  = 0

Owns(q, u) == q # <<>> /\ Head(q) = u

\* The queue without its i-th task, which gave up waiting.
Drop(q, i) == [k \in 1..(Len(q) - 1) |-> IF k < i THEN q[k] ELSE q[k + 1]]

GoTo(u, place) == pc' = [pc EXCEPT ![u] = place]
JoinLock(u) == lock' = [lock EXCEPT ![Home[u]] = Append(@, u)]
Unlock(u) == lock' = [lock EXCEPT ![Home[u]] = Tail(@)]
OpenGate(u) == gate' = [gate EXCEPT ![Home[u]] = Tail(@)]

QuitLock(u) == \E i \in DOMAIN lock[Home[u]] :
  /\ lock[Home[u]][i] = u
  /\ lock' = [lock EXCEPT ![Home[u]] = Drop(@, i)]

QuitGate(u) == \E i \in DOMAIN gate[Home[u]] :
  /\ gate[Home[u]][i] = u
  /\ gate' = [gate EXCEPT ![Home[u]] = Drop(@, i)]

\* `raise` inside `async with self._lock`.
Fail(u) == GoTo(u, "failed") /\ Unlock(u)

\* Process ids that nobody uses or remembers.
Free == {d \in Daemon : /\ d \notin alive
                        /\ \A m \in Mgr : proc[m] # d
                        /\ \A u \in User : d \notin victims[u]}

\* A new process gets one of them; which one makes no difference.
Fresh(d) == d \in Free /\ d = CHOOSE e \in Free : TRUE

Die(ds) ==
  /\ alive' = alive \ ds
  /\ dying' = dying \ ds
  /\ serving' = IF serving \in ds THEN NoDaemon ELSE serving

-----------------------------------------------------------------------------
(* __aenter__                                                              *)

\* Acquire and release _termination_lock, then ask for _lock.
Enter(u) ==
  /\ pc[u] = "out"
  /\ \/ /\ gate[Home[u]] = <<>>
        /\ GoTo(u, "queued") /\ JoinLock(u)
        /\ UNCHANGED gate
     \/ /\ gate[Home[u]] # <<>>
        /\ GoTo(u, "gate")
        /\ gate' = [gate EXCEPT ![Home[u]] = Append(@, u)]
        /\ UNCHANGED lock
  /\ UNCHANGED <<mgrVars, victims, late, osVars, around>>

PassGate(u) ==
  /\ pc[u] = "gate" /\ Owns(gate[Home[u]], u)
  /\ GoTo(u, "queued") /\ JoinLock(u) /\ OpenGate(u)
  /\ UNCHANGED <<mgrVars, victims, late, osVars, around>>

\* The manager's daemon is in use: no need to start one.
Shares(m) == ref[m] > 0

EnterShared(u) ==
  /\ pc[u] = "queued" /\ Owns(lock[Home[u]], u)
  /\ Shares(Home[u])
  /\ ref' = [ref EXCEPT ![Home[u]] = @ + 1]
  /\ GoTo(u, "body") /\ Unlock(u)
  /\ UNCHANGED <<gate, proc, present, victims, late, osVars, around>>

EnterFirst(u) ==
  LET m == Home[u] IN
  /\ pc[u] = "queued" /\ Owns(lock[m], u)
  /\ ~Shares(m)
  /\ \/ ~present[m] /\ Fail(u)
     \/ /\ present[m]
        /\ GoTo(u, IF windows THEN "listing" ELSE "spawning")
        /\ UNCHANGED lock
  /\ UNCHANGED <<gate, mgrVars, victims, late, osVars, around>>

\* Mutant: tasklist is never asked.
ListedNone == {}

\* Every process of that name, whoever started it.
Listed == alive

\* _kill_existing_daemons: list, then kill one by one; each may raise.
List(u) ==
  /\ pc[u] = "listing"
  /\ \/ Fail(u) /\ UNCHANGED victims
     \/ /\ victims' = [victims EXCEPT ![u] = Listed]
        /\ GoTo(u, "killing")
        /\ UNCHANGED lock
  /\ UNCHANGED <<gate, mgrVars, late, osVars, around>>

Kill(u, d) ==
  /\ pc[u] = "killing" /\ d \in victims[u]
  /\ \/ /\ d \in alive /\ Fail(u)
        /\ victims' = [victims EXCEPT ![u] = {}]
        /\ UNCHANGED osVars
     \/ /\ Die({d})
        /\ victims' = [victims EXCEPT ![u] = @ \ {d}]
        /\ UNCHANGED <<pc, lock>>
  /\ UNCHANGED <<gate, mgrVars, late, around>>

KillEnd(u) ==
  /\ pc[u] = "killing" /\ victims[u] = {}
  /\ GoTo(u, "spawning")
  /\ UNCHANGED <<gate, lock, mgrVars, victims, late, osVars, around>>

Spawn(u) ==
  /\ pc[u] = "spawning"
  /\ \/ Fail(u) /\ UNCHANGED <<proc, alive>>
     \/ \E d \in Daemon :
          /\ Fresh(d)
          /\ proc' = [proc EXCEPT ![Home[u]] = d]
          /\ alive' = alive \cup {d}
          /\ GoTo(u, "waiting")
          /\ UNCHANGED lock
  /\ UNCHANGED <<gate, ref, present, victims, late, dying, serving, around>>

\* wait_for_transmission: something answers on the RPC port.
Ready(u) ==
  /\ pc[u] = "waiting" /\ serving # NoDaemon
  /\ ref' = [ref EXCEPT ![Home[u]] = @ + 1]
  /\ GoTo(u, "body") /\ Unlock(u)
  /\ UNCHANGED <<gate, proc, present, victims, late, osVars, around>>

\* Nothing answered for 120 s: the process that was started is left alone.
StartTimeout(u) ==
  /\ pc[u] = "waiting" /\ serving = NoDaemon
  /\ Fail(u)
  /\ UNCHANGED <<gate, mgrVars, victims, late, osVars, around>>

-----------------------------------------------------------------------------
(* __aexit__                                                               *)

\* The body returned, raised or was cancelled.
Leave(u) ==
  /\ pc[u] = "body"
  /\ GoTo(u, "leaving") /\ JoinLock(u)
  /\ UNCHANGED <<gate, mgrVars, victims, late, osVars, around>>

\* Mutants: off by one, either way; a second decrement.
LastOutEarly(m) == ref[m] <= 2
LastOutLate(m) == ref[m] = 0
DiscountedTwice(m) == ref[m] - 2

\* The request about to leave is the last one.
LastOut(m) == ref[m] = 1

Discounted(m) == ref[m] - 1

\* Decrement; the last one out asks for _termination_lock.
ExitLock(u) ==
  LET m == Home[u] IN
  /\ pc[u] = "leaving" /\ Owns(lock[m], u)
  /\ ref' = [ref EXCEPT ![m] = Discounted(m)]
  /\ \/ /\ LastOut(m)
        /\ gate' = [gate EXCEPT ![m] = Append(@, u)]
        /\ GoTo(u, "stopGate")
        /\ UNCHANGED lock
     \/ /\ ~LastOut(m)
        /\ GoTo(u, "done") /\ Unlock(u)
        /\ UNCHANGED gate
  /\ UNCHANGED <<proc, present, victims, late, osVars, around>>

\* Mutant: no `finally` around the termination.
ReleaseLockOnly(u) == Unlock(u) /\ UNCHANGED gate

\* `finally` of the termination, and the end of `async with self._lock`.
ReleaseBoth(u) == OpenGate(u) /\ Unlock(u)

\* Mutant: wait() is not awaited.
StopUnawaited(u) ==
  /\ GoTo(u, "done") /\ ReleaseBoth(u)
  /\ proc' = [proc EXCEPT ![Home[u]] = NoDaemon]

\* `await self._process.wait()`
StopAwaited(u) == GoTo(u, "stopping") /\ UNCHANGED <<gate, lock, proc>>

\* terminate() of a process that is gone raises; taskkill ends it at once.
StopBegin(u) ==
  LET m == Home[u] IN
  /\ pc[u] = "stopGate" /\ Owns(gate[m], u)
  /\ \/ /\ proc[m] \notin alive
        /\ GoTo(u, "failed") /\ ReleaseBoth(u)
        /\ UNCHANGED <<proc, osVars>>
     \/ /\ proc[m] \in alive /\ windows
        /\ Die({proc[m]})
        /\ proc' = [proc EXCEPT ![m] = NoDaemon]
        /\ GoTo(u, "done") /\ ReleaseBoth(u)
     \/ /\ proc[m] \in alive /\ ~windows
        /\ dying' = dying \cup {proc[m]}
        /\ StopAwaited(u)
        /\ UNCHANGED <<alive, serving>>
  /\ UNCHANGED <<ref, present, victims, late, around>>

\* wait() returns.
StopEnd(u) ==
  LET m == Home[u] IN
  /\ pc[u] = "stopping" /\ proc[m] \notin alive
  /\ proc' = [proc EXCEPT ![m] = NoDaemon]
  /\ GoTo(u, "done") /\ ReleaseBoth(u)
  /\ UNCHANGED <<ref, present, victims, late, osVars, around>>

-----------------------------------------------------------------------------
(* Cancellation, and what happens outside the manager                      *)

\* Cancelled in __aenter__, before or under the lock.  A taskkill under way
\* counts as finished or as not begun.
CancelEnter(u) ==
  /\ \/ pc[u] = "gate" /\ QuitGate(u) /\ UNCHANGED <<lock, late>>
     \/ /\ pc[u] = "queued" /\ ~Owns(lock[Home[u]], u)
        /\ QuitLock(u)
        /\ UNCHANGED <<gate, late>>
     \/ pc[u] \in Starting /\ Unlock(u) /\ UNCHANGED <<gate, late>>
     \/ /\ pc[u] = "spawning" /\ windows /\ Unlock(u)
        /\ late' = late \cup {u}
        /\ UNCHANGED gate
  /\ GoTo(u, "failed")
  /\ victims' = [victims EXCEPT ![u] = {}]
  /\ UNCHANGED <<mgrVars, osVars, windows, deaths>>

\* Cancelled in __aexit__ while it waits for the lock: nothing is counted.
CancelLeave(u) ==
  /\ pc[u] = "leaving" /\ ~Owns(lock[Home[u]], u)
  /\ GoTo(u, "lost") /\ QuitLock(u)
  /\ UNCHANGED <<gate, mgrVars, victims, late, osVars, windows, deaths>>

\* Cancelled while the daemon exits: _process keeps naming it.
CancelStop(u) ==
  /\ pc[u] = "stopping"
  /\ GoTo(u, "failed") /\ ReleaseBoth(u)
  /\ UNCHANGED <<mgrVars, victims, late, osVars, windows, deaths>>

Cancel(u) ==
  /\ cancels < MaxCancel
  /\ cancels' = cancels + 1
  /\ CancelEnter(u) \/ CancelLeave(u) \/ CancelStop(u)

\* The executor's Popen returns to nobody.
LateSpawn(u) ==
  /\ u \in late
  /\ late' = late \ {u}
  /\ \E d \in Daemon : Fresh(d) /\ alive' = alive \cup {d}
  /\ UNCHANGED <<pc, gate, lock, mgrVars, victims, dying, serving, around>>

\* recheck_transmission, on GET /check-transmission.
Recheck(m) ==
  /\ present' = [present EXCEPT ![m] = ~@]
  /\ UNCHANGED <<pc, gate, lock, ref, proc, victims, late, osVars, around>>

\* A daemon binds the RPC port if it is free, exits when it was told to, or
\* dies on its own.
Bind(d) ==
  /\ d \in alive /\ serving = NoDaemon
  /\ serving' = d
  /\ UNCHANGED <<pc, gate, lock, mgrVars, victims, late, alive, dying, around>>

DaemonExits(d) ==
  /\ d \in dying
  /\ Die({d})
  /\ UNCHANGED <<pc, gate, lock, mgrVars, victims, late, around>>

DaemonDies(d) ==
  /\ d \in alive /\ deaths < MaxDeath
  /\ deaths' = deaths + 1
  /\ Die({d})
  /\ UNCHANGED <<pc, gate, lock, mgrVars, victims, late, windows, cancels>>

EnterStep(u) ==
  \/ PassGate(u) \/ EnterShared(u) \/ EnterFirst(u) \/ List(u) \/ KillEnd(u)
  \/ Spawn(u) \/ Ready(u) \/ StartTimeout(u)
  \/ \E d \in Daemon : Kill(u, d)

ExitStep(u) == ExitLock(u) \/ StopBegin(u) \/ StopEnd(u)

Next ==
  \/ \E u \in User : \/ Enter(u) \/ EnterStep(u) \/ Leave(u) \/ ExitStep(u)
                     \/ Cancel(u) \/ LateSpawn(u)
  \/ \E m \in Mgr : Recheck(m)
  \/ \E d \in Daemon : Bind(d) \/ DaemonExits(d) \/ DaemonDies(d)

Spec == Init /\ [][Next]_vars

(* Fairness: an event loop runs the tasks that are ready, locks are first  *)
(* come first served, every wait under the lock has a time limit or is an  *)
(* operating system call that returns; transmission-daemon exits on        *)
(* SIGTERM.  Nothing makes a body end.                                     *)
Fairness ==
  /\ \A u \in User : WF_vars(EnterStep(u)) /\ WF_vars(ExitStep(u))
  /\ \A d \in Daemon : WF_vars(DaemonExits(d))

FairSpec == Spec /\ Fairness

-----------------------------------------------------------------------------
(* Properties                                                              *)

TypeOK ==
  /\ pc      \in [User -> Place]
  /\ gate    \in [Mgr -> Seq(User)]
  /\ lock    \in [Mgr -> Seq(User)]
  /\ ref     \in [Mgr -> Nat]
  /\ proc    \in [Mgr -> Daemon \cup {NoDaemon}]
  /\ present \in [Mgr -> BOOLEAN]
  /\ victims \in [User -> SUBSET Daemon]
  /\ late    \subseteq User
  /\ alive   \subseteq Daemon
  /\ dying   \subseteq alive
  /\ serving \in alive \cup {NoDaemon}
  /\ windows \in BOOLEAN
  /\ cancels \in Nat
  /\ deaths  \in Nat

\* Requests that __aenter__ counted and __aexit__ has not discounted.
Counted(m) == {u \in User : Home[u] = m /\ pc[u] \in Inside}

\* _ref_count is the number of requests counted in and not out again,
\* whatever starts fail, and whichever handlers are cancelled where: only a
\* cancellation in __aexit__ itself ever leaves it too high.
RefCountsUsers == \A m \in Mgr : ref[m] = Cardinality(Counted(m))

\* While a request uses the daemon, its manager neither replaces nor drops
\* the process: no start or stop of another request comes in between.
KeptInUse ==
  [][\A u \in User : pc[u] = "body" => proc'[Home[u]] = proc[Home[u]]]_vars

Undisturbed == cancels = 0 /\ deaths = 0

\* All requests so far came to the same one of the HTTP workers.  Nothing in the
\* code sees to that: main.py runs three of them on one RPC port.
OneWorker ==
  \A u, v \in User : pc[u] # "out" /\ pc[v] # "out" => Home[u] = Home[v]

\* On Windows, unless a handler is cancelled, one worker never has two daemons,
\* whatever starts time out, because the next start kills what it finds.  It is
\* false as soon as two workers both list before either spawns.
OneDaemon ==
  windows /\ cancels = 0 /\ OneWorker => Cardinality(alive) <= 1

\* With no daemon dying and no handler cancelled, something answers on the
\* RPC port as long as a request uses the daemon, and only one worker has had
\* requests.  It is false with a second one, whose start kills, or whose last
\* request out ends, the daemon that both are using.
ServedInUse ==
  Undisturbed /\ OneWorker =>
    \A u \in User : pc[u] = "body" => serving # NoDaemon

\* With no daemon dying and no handler cancelled, a manager that nobody is
\* in leaves no daemon of its own behind, unless a start failed.
StoppedWhenUnused ==
  \A m \in Mgr :
    /\ Undisturbed
    /\ proc[m] \in alive
    /\ \A u \in User : Home[u] = m => pc[u] \in {"out", "gate", "done"}
    => \E u \in User : pc[u] = "failed"

\* A request that asks for the daemon gets it or is refused, however long
\* other requests use it: no failure, cancellation or death leaves a lock
\* held.
RequestsAnswered ==
  \A u \in User : pc[u] \in {"gate", "queued"} ~> pc[u] \in {"body"} \cup Over

\* A request that leaves gets out.
LeaversLeave == \A u \in User : pc[u] = "leaving" ~> pc[u] \in Over

-----------------------------------------------------------------------------
(* The inductive invariant behind RefCountsUsers and KeptInUse.            *)

\* Starting and stopping happen under the lock, with nobody counted in.
Holder ==
  \A u \in User : pc[u] \in Starting \cup Stopping =>
    Owns(lock[Home[u]], u) /\ ref[Home[u]] = 0

\* New requests are held back until the daemon has exited.
GateHeld == \A u \in User : pc[u] = "stopping" => Owns(gate[Home[u]], u)

IInv == TypeOK /\ Holder /\ GateHeld /\ RefCountsUsers

-----------------------------------------------------------------------------
(* What the source says and the code does not do                           *)

\* __aenter__ reports "Transmission daemon started.": the daemon that
\* answers is the one it has started.
StartedIsOwn ==
  [][\A u \in User : Ready(u) => serving = proc[Home[u]]]_vars
=============================================================================
