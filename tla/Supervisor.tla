---------------------------- MODULE Supervisor ----------------------------
(***************************************************************************)
(* ai/supervisor.py: the Supervisor starts and stops agents under one      *)
(* asyncio.Lock and drives each started agent with a tick-loop task.       *)
(*                                                                         *)
(* The program is one asyncio event loop: what runs between two awaits is  *)
(* atomic, so an action here is the code between two suspension points.    *)
(* Processes are the coroutines that call the Supervisor: the control      *)
(* requests (Clients), the shutdown hook (Main) and, for each key, the     *)
(* child coroutine stop(key) that stop_all gathers (the key itself).       *)
(***************************************************************************)
EXTENDS Naturals, Sequences

CONSTANTS
    Keys,       \* the keys of self.agents
    Traders,    \* agents built on agents/crypto_agent.py: they set running at
                \* the end of start() and own a kill switch; the others set
                \* running on the first line of start()
    Slots,      \* identities of asyncio task objects, per key
    Clients,    \* concurrent control requests
    Main,       \* the coroutine of the shutdown hook
    None

ASSUME ProcsAssumption ==
    /\ Traders \subseteq Keys
    /\ Keys \cap Clients = {}
    /\ Main \notin Keys \cup Clients
    /\ None \notin Keys \cup Slots

VARIABLES
    running,    \* agent.running, per key
    tasks,      \* self.tasks: the registered task of a key, or None
    loop,       \* where the tick-loop task <<key, slot>> stands
    queue,      \* the asyncio.Lock: its holder first, then its waiters
    pc, call,   \* where a caller stands, and in which call
    victim      \* the local variable `task` of stop()

vars == <<running, tasks, loop, queue, pc, call, victim>>

Procs == Clients \cup Keys \cup {Main}

(***************************************************************************)
(* "new": created, first step not run; "tick": inside agent.on_tick();     *)
(* "sleep": in asyncio.sleep(interval); "stillborn" and "cancelled":       *)
(* cancel() was called before, or after, the first step; "done": finished  *)
(* (or never created).                                                     *)
(***************************************************************************)
LoopStates == {"new", "tick", "sleep", "stillborn", "cancelled", "done"}

Ops == {"none", "start", "stop", "stop_all"}
Calls == [op : Ops, key : Keys \cup {None}]
NoCall == [op |-> "none", key |-> None]
PCs == {"idle", "spawned", "queued", "starting", "joining", "stopping", "gathering"}

TypeOK ==
    /\ running \in [Keys -> BOOLEAN]
    /\ tasks \in [Keys -> Slots \cup {None}]
    /\ loop \in [Keys -> [Slots -> LoopStates]]
    /\ queue \in Seq(Procs)
    /\ pc \in [Procs -> PCs]
    /\ call \in [Procs -> Calls]
    /\ victim \in [Procs -> Slots \cup {None}]

Init ==
    /\ running = [k \in Keys |-> FALSE]
    /\ tasks = [k \in Keys |-> None]
    /\ loop = [k \in Keys |-> [s \in Slots |-> "done"]]
    /\ queue = <<>>
    /\ pc = [p \in Procs |-> "idle"]
    /\ call = [p \in Procs |-> NoCall]
    /\ victim = [p \in Procs |-> None]

-----------------------------------------------------------------------------
(* The lock.  asyncio.Lock is FIFO and a newcomer never overtakes a waiter. *)

Enqueue(p) ==
    /\ queue' = Append(queue, p)
    /\ pc' = [pc EXCEPT ![p] = "queued"]

\* p holds the lock and has not run its critical section yet.
Granted(p, op) ==
    /\ pc[p] = "queued"
    /\ call[p].op = op
    /\ queue # <<>> /\ Head(queue) = p

\* Leaving `async with self._lock` and returning to the caller.
Return(p) ==
    /\ queue' = Tail(queue)
    /\ pc' = [pc EXCEPT ![p] = "idle"]
    /\ call' = [call EXCEPT ![p] = NoCall]

Live(k, s) == loop[k][s] # "done"
Registered(k) == tasks[k] # None

-----------------------------------------------------------------------------
(* start(key) *)

CallStart(c, k) ==
    /\ pc[c] = "idle"
    /\ Enqueue(c)
    /\ call' = [call EXCEPT ![c] = [op |-> "start", key |-> k]]
    /\ UNCHANGED <<running, tasks, loop, victim>>

\* "already started" or "already running": nothing is done.
StartNoop(p) ==
    LET k == call[p].key IN
    /\ Granted(p, "start")
    /\ Registered(k) \/ running[k]
    /\ Return(p)
    /\ UNCHANGED <<running, tasks, loop, victim>>

\* Seeded fault: only agent.running is tested, not `key in self.tasks`.
StartIgnoresTasks(p) ==
    LET k == call[p].key IN
    /\ Granted(p, "start")
    /\ ~running[k]
    /\ pc' = [pc EXCEPT ![p] = "starting"]
    /\ running' = [running EXCEPT ![k] = k \notin Traders]
    /\ UNCHANGED <<tasks, loop, queue, call, victim>>

\* Seeded fault: start() revives an agent whose registered loop has died.
StartRevives(p) ==
    LET k == call[p].key IN
    /\ Granted(p, "start")
    /\ Registered(k) => ~Live(k, tasks[k])
    /\ ~running[k]
    /\ pc' = [pc EXCEPT ![p] = "starting"]
    /\ running' = [running EXCEPT ![k] = k \notin Traders]
    /\ UNCHANGED <<tasks, loop, queue, call, victim>>

\* await agent.start(), up to its first suspension.
StartBegins(p) ==
    LET k == call[p].key IN
    /\ Granted(p, "start")
    /\ ~Registered(k)
    /\ ~running[k]
    /\ pc' = [pc EXCEPT ![p] = "starting"]
    /\ running' = [running EXCEPT ![k] = k \notin Traders]
    /\ UNCHANGED <<tasks, loop, queue, call, victim>>

\* agent.start() returned: the tick loop is created and registered.
StartReturns(p) ==
    LET k == call[p].key IN
    /\ pc[p] = "starting"
    /\ running' = [running EXCEPT ![k] = TRUE]
    /\ \E s \in Slots :
        /\ ~Live(k, s)
        /\ loop' = [loop EXCEPT ![k][s] = "new"]
        /\ tasks' = [tasks EXCEPT ![k] = s]
    /\ Return(p)
    /\ UNCHANGED victim

\* agent.start() raised: what it did to `running` stays.
StartRaises(p) ==
    /\ pc[p] = "starting"
    /\ Return(p)
    /\ UNCHANGED <<running, tasks, loop, victim>>

-----------------------------------------------------------------------------
(* stop(key) *)

CallStop(c, k) ==
    /\ pc[c] = "idle"
    /\ Enqueue(c)
    /\ call' = [call EXCEPT ![c] = [op |-> "stop", key |-> k]]
    /\ UNCHANGED <<running, tasks, loop, victim>>

AfterCancel(state) ==
    CASE state = "new"               -> "stillborn"
      [] state \in {"tick", "sleep"} -> "cancelled"
      [] OTHER                       -> state

\* What stop() does to the registered task: its new state, what stop() waits
\* for, and where it goes on.
StopWith(p, state, waitFor, next) ==
    LET k == call[p].key
        s == tasks[k]
    IN
    /\ Granted(p, "stop")
    /\ Registered(k)
    /\ tasks' = [tasks EXCEPT ![k] = None]
    /\ loop' = [loop EXCEPT ![k][s] = state]
    /\ victim' = [victim EXCEPT ![p] = waitFor]
    /\ pc' = [pc EXCEPT ![p] = next]
    /\ UNCHANGED <<running, queue, call>>

\* Seeded faults: stop() never calls task.cancel(); it does not wait for the
\* cancelled task.
StopWithoutCancel(p) ==
    LET k == call[p].key IN StopWith(p, loop[k][tasks[k]], tasks[k], "joining")
StopWithoutJoin(p) ==
    LET k == call[p].key IN StopWith(p, AfterCancel(loop[k][tasks[k]]), None, "stopping")

\* self.tasks.pop(key), task.cancel(), and waiting for the task.
StopCancels(p) ==
    LET k == call[p].key IN StopWith(p, AfterCancel(loop[k][tasks[k]]), tasks[k], "joining")

\* await agent.stop() up to its first suspension; every agent clears running first.
StopAgent(p) ==
    LET k == call[p].key IN
    /\ \/ Granted(p, "stop") /\ ~Registered(k)
       \/ pc[p] = "joining" /\ ~Live(k, victim[p])
    /\ running' = [running EXCEPT ![k] = FALSE]
    /\ victim' = [victim EXCEPT ![p] = None]
    /\ pc' = [pc EXCEPT ![p] = "stopping"]
    /\ UNCHANGED <<tasks, loop, queue, call>>

\* agent.stop() returned or raised: the lock is released either way.
StopEnds(p) ==
    /\ pc[p] = "stopping"
    /\ Return(p)
    /\ UNCHANGED <<running, tasks, loop, victim>>

-----------------------------------------------------------------------------
(* stop_all() *)

CallStopAll ==
    /\ pc[Main] = "idle"
    /\ Enqueue(Main)
    /\ call' = [call EXCEPT ![Main] = [op |-> "stop_all", key |-> None]]
    /\ UNCHANGED <<running, tasks, loop, victim>>

\* Seeded fault: the gather runs inside the `async with self._lock` block.
StopAllHoldsLock ==
    LET doomed == {k \in Keys : Registered(k)} IN
    /\ Granted(Main, "stop_all")
    /\ pc' = [p \in Procs |-> IF p = Main THEN "gathering"
                              ELSE IF p \in doomed THEN "spawned" ELSE pc[p]]
    /\ call' = [p \in Procs |-> IF p \in doomed THEN [op |-> "stop", key |-> p]
                                ELSE call[p]]
    /\ UNCHANGED <<running, tasks, loop, queue, victim>>

\* The keys are copied under the lock, the lock is released, and gather wraps
\* one stop(k) per copied key in a task of its own.
StopAllSpawns ==
    LET doomed == {k \in Keys : Registered(k)} IN
    /\ Granted(Main, "stop_all")
    /\ queue' = Tail(queue)
    /\ pc' = [p \in Procs |-> IF p = Main THEN "gathering"
                              ELSE IF p \in doomed THEN "spawned" ELSE pc[p]]
    /\ call' = [p \in Procs |-> IF p \in doomed THEN [op |-> "stop", key |-> p]
                                ELSE call[p]]
    /\ UNCHANGED <<running, tasks, loop, victim>>

\* The first step of a gathered stop(k).
ChildCalls(k) ==
    /\ pc[k] = "spawned"
    /\ Enqueue(k)
    /\ UNCHANGED <<running, tasks, loop, call, victim>>

StopAllReturns ==
    /\ pc[Main] = "gathering"
    /\ \A k \in Keys : pc[k] = "idle"
    /\ pc' = [pc EXCEPT ![Main] = "idle"]
    /\ call' = [call EXCEPT ![Main] = NoCall]
    /\ UNCHANGED <<running, tasks, loop, queue, victim>>

-----------------------------------------------------------------------------
(* _tick_loop(key, agent) *)

\* The top of the while loop: on_tick() only when the agent is running.
LoopWakes(k, s) ==
    /\ loop[k][s] \in {"new", "sleep"}
    /\ loop' = [loop EXCEPT ![k][s] = IF running[k] THEN "tick" ELSE "sleep"]
    /\ UNCHANGED <<running, tasks, queue, pc, call, victim>>

TickReturns(k, s) ==
    /\ loop[k][s] = "tick"
    /\ loop' = [loop EXCEPT ![k][s] = "sleep"]
    /\ UNCHANGED <<running, tasks, queue, pc, call, victim>>

\* The kill switch of a trading agent clears running and then awaits its webhook.
TickTripsKillSwitch(k, s) ==
    /\ k \in Traders
    /\ loop[k][s] = "tick"
    /\ running[k]
    /\ running' = [running EXCEPT ![k] = FALSE]
    /\ UNCHANGED <<tasks, loop, queue, pc, call, victim>>

\* Seeded fault: the `finally` of the tick loop does not clear running.
TickRaisesRunning(k, s) ==
    /\ loop[k][s] = "tick"
    /\ loop' = [loop EXCEPT ![k][s] = "done"]
    /\ UNCHANGED <<running, tasks, queue, pc, call, victim>>

\* on_tick() raised: `except Exception` logs, `finally` clears running, and the
\* finished task stays in self.tasks.
TickRaises(k, s) ==
    /\ loop[k][s] = "tick"
    /\ loop' = [loop EXCEPT ![k][s] = "done"]
    /\ running' = [running EXCEPT ![k] = FALSE]
    /\ UNCHANGED <<tasks, queue, pc, call, victim>>

\* CancelledError is thrown into the task.  A task that never ran its first
\* step is not inside the try block, so its `finally` does not run.
CancelDelivered(k, s) ==
    /\ loop[k][s] \in {"stillborn", "cancelled"}
    /\ loop' = [loop EXCEPT ![k][s] = "done"]
    /\ running' = [running EXCEPT ![k] = @ /\ loop[k][s] = "stillborn"]
    /\ UNCHANGED <<tasks, queue, pc, call, victim>>

-----------------------------------------------------------------------------
Request(c) == \E k \in Keys : CallStart(c, k) \/ CallStop(c, k)

\* The steps a caller takes once its call is queued.
CallStep(p) ==
    \/ StartNoop(p) \/ StartBegins(p) \/ StartReturns(p) \/ StartRaises(p)
    \/ StopCancels(p) \/ StopAgent(p) \/ StopEnds(p)

LoopStep(k, s) ==
    \/ LoopWakes(k, s) \/ TickReturns(k, s) \/ TickTripsKillSwitch(k, s)
    \/ TickRaises(k, s) \/ CancelDelivered(k, s)

ShutdownStep == StopAllSpawns \/ StopAllReturns

Next ==
    \/ \E c \in Clients : Request(c)
    \/ CallStopAll
    \/ \E p \in Procs : CallStep(p)
    \/ ShutdownStep
    \/ \E k \in Keys : ChildCalls(k)
    \/ \E k \in Keys, s \in Slots : LoopStep(k, s)

Spec == Init /\ [][Next]_vars

(***************************************************************************)
(* The event loop runs every ready callback, and the awaits inside         *)
(* agent.start() and agent.stop() end (network calls time out).  Nobody is *)
(* obliged to call, and a tick need not end: stop() cancels it.            *)
(***************************************************************************)
Fairness ==
    /\ \A p \in Procs : WF_vars(CallStep(p))
    /\ WF_vars(ShutdownStep)
    /\ \A k \in Keys : WF_vars(ChildCalls(k))
    /\ \A k \in Keys, s \in Slots : WF_vars(CancelDelivered(k, s))

FairSpec == Spec /\ Fairness

-----------------------------------------------------------------------------
(* Safety *)

InSection(p) == pc[p] \in {"starting", "joining", "stopping"}

\* self._lock: two calls are never inside start() or stop() at once, although
\* each of them suspends inside its critical section.
LockExclusion ==
    \A p, q \in Procs : InSection(p) /\ InSection(q) => p = q

\* No agent is ever driven by two tick loops, whatever order starts, stops,
\* crashes and cancellations come in; an agent ticked twice trades twice.
OneLoopPerAgent ==
    \A k \in Keys : \A s, t \in Slots : Live(k, s) /\ Live(k, t) => s = t

\* A loop that is still alive can be reached: it is in self.tasks, or a stop()
\* has taken it out, cancelled it and is waiting for it.
NoOrphanLoop ==
    \A k \in Keys, s \in Slots :
        Live(k, s) =>
            \/ tasks[k] = s /\ loop[k][s] \notin {"stillborn", "cancelled"}
            \/ /\ tasks[k] = None
               /\ loop[k][s] \in {"stillborn", "cancelled"}
               /\ \E p \in Procs : pc[p] = "joining" /\ call[p].key = k /\ victim[p] = s

\* agent.start() and agent.stop() never overlap a tick of the same agent: the
\* portfolio start() replaces and the snapshot stop() writes are not in use.
HandlersRunAlone ==
    \A p \in Procs : pc[p] \in {"starting", "stopping"} =>
        LET k == call[p].key IN
        /\ \A s \in Slots : ~Live(k, s)
        /\ tasks[k] = None
        /\ pc[p] = "stopping" => ~running[k]

\* agent.running may lag behind the tick loop, but only in the known ways: a
\* running agent without a loop is being started, being stopped, or is what a
\* start() that raised too late has left behind.
RunningHasLoop ==
    \A k \in Keys \cap Traders : running[k] =>
        \/ \E s \in Slots : Live(k, s)
        \/ \E p \in Procs : pc[p] = "joining" /\ call[p].key = k

\* A tick begins only in the registered loop of a running agent: never after
\* the stop() that cancelled the loop, never in a loop an earlier start made.
TicksAreRegistered ==
    [][\A k \in Keys, s \in Slots :
        loop[k][s] # "tick" /\ loop'[k][s] = "tick" => tasks[k] = s /\ running[k]]_vars

Crashed(k) == Registered(k) /\ ~Live(k, tasks[k])

\* An agent whose loop died stays dead under any number of start() calls; only
\* a stop() of that agent clears it.
CrashClearedByStopOnly ==
    [][\A k \in Keys : Crashed(k) /\ ~Crashed(k)' =>
        /\ ~Registered(k)'
        /\ \E p \in Procs : call[p] = [op |-> "stop", key |-> k] /\ pc'[p] = "joining"]_vars

-----------------------------------------------------------------------------
(* Liveness *)

\* The FIFO lock serves every start() and stop(), and none waits forever for
\* the task it cancelled.
CallsComplete == \A c \in Clients : pc[c] = "queued" ~> pc[c] = "idle"

\* Every loop stop_all() found registered is cancelled and gone in the end, and
\* stop_all() returns, although other calls compete for the lock.
ShutdownReachesLoops ==
    /\ \A k \in Keys, s \in Slots :
           pc[k] = "spawned" /\ tasks[k] = s ~> loop[k][s] = "done"
    /\ pc[Main] = "gathering" ~> pc[Main] = "idle"

-----------------------------------------------------------------------------
(* The abstract specification this module implements *)

PhaseOf(k) ==
    IF Registered(k) THEN IF Live(k, tasks[k]) THEN "live" ELSE "dead"
    ELSE IF \E s \in Slots : Live(k, s) THEN "closing" ELSE "stopped"

Lifecycle == INSTANCE AgentLifecycle WITH
    phase <- [k \in Keys |-> PhaseOf(k)],
    ticking <- {k \in Keys : \E s \in Slots : loop[k][s] = "tick"}

\* The locked, suspended, cancelled and gathered code keeps the life cycle of
\* AgentLifecycle: every step moves at most one agent along one of its arrows.
ImplementsLifecycle == Lifecycle!Spec

\* Under the scheduler's fairness a closing loop is always closed in the end.
ImplementsFairLifecycle == Lifecycle!FairSpec
=============================================================================
