-------------------------- MODULE ControlPlane --------------------------
(***************************************************************************)
(* The control requests of routers/control.py (/start and /stop) between   *)
(* the guards of the gateway -- the rate limiter, the circuit breaker, the *)
(* idempotency cache -- and the Supervisor, with the agent_state gauge.    *)
(*                                                                         *)
(* The Supervisor is what the module of that name proves of it: the calls  *)
(* are served one after the other in the order they came in, and an agent  *)
(* goes through the phases of AgentLifecycle.  The code after the call     *)
(* (gauge, breaker) follows its return with no await in between.           *)
(*                                                                         *)
(* Time is discrete, and what the code compares with the clock is kept as  *)
(* an age that stops growing at the limit it is compared with.             *)
(***************************************************************************)
EXTENDS Integers, Sequences, FiniteSets, SlidingWindow

CONSTANTS
    Agents, Clients,    \* agents, and requests that can be in progress at once
    Users,              \* keys of the rate limiter
    Threshold, Window, Cooldown,    \* of the gateway's CircuitBreaker
    Ttl,                \* of the IdempotencyCache
    Count, Minute       \* the rate "Count per Minute"

ASSUME ControlAssumption ==
    /\ IsFiniteSet(Clients)
    /\ Threshold \in Nat \ {0} /\ Window \in Nat /\ Cooldown \in Nat \ {0}
    /\ Ttl \in Nat \ {0} /\ Count \in Nat /\ Minute \in Nat \ {0}

Ops == {"start", "stop"}

VARIABLES
    hits,       \* limiter: ages of the admitted requests, per user and endpoint
    failures,   \* breaker: ages of the remembered errors, oldest first
    openFor,    \* breaker: age of _opened_at; -1: closed
    seen,       \* idempotency cache: age of each key; Ttl: not there
    queue,      \* calls of the Supervisor in progress, the one served first
    request,    \* the command of each client; op "none": no call
    phase,      \* each agent: "stopped", "live" (it has a loop), or "dead" (it has
                \* none, and start() takes it for started)
    gauge       \* agents whose agent_state gauge is 1

vars == <<hits, failures, openFor, seen, queue, request, phase, gauge>>
breaker == <<failures, openFor>>
calls == <<queue, request>>
agents == <<phase, gauge>>

Commands == [op : Ops, agent : Agents]
NoCommand == [op |-> "none"]

TypeOK ==
    /\ hits \in [Users \X Ops -> Seq(0..Minute - 1)]
    /\ \A b \in Users \X Ops : Len(hits[b]) <= Count + 1
    /\ failures \in Seq(0..Window + 1)
    /\ openFor \in -1..Cooldown
    /\ seen \in [Ops \X Agents -> 0..Ttl]
    /\ queue \in Seq(Clients)
    /\ \A i \in 1..Len(queue) : request[queue[i]] \in Commands
    /\ request \in [Clients -> Commands \cup {NoCommand}]
    /\ phase \in [Agents -> {"stopped", "live", "dead"}]
    /\ gauge \subseteq Agents

Init ==
    /\ hits = [b \in Users \X Ops |-> <<>>]
    /\ failures = <<>> /\ openFor = -1
    /\ seen = [c \in Ops \X Agents |-> Ttl]
    /\ queue = <<>> /\ request = [c \in Clients |-> NoCommand]
    /\ phase = [k \in Agents |-> "stopped"]
    /\ gauge = {}

-----------------------------------------------------------------------------
(* The guards, each with what asking it changes *)

\* Seeded fault: the limit is tested after the request was counted.
LimitedLate(u, op) == Len(hits[u, op]) > Count + 1

\* Limiter.limit: the stamps of the last minute, and this request's.
Limited(u, op) == Len(hits[u, op]) > Count
Hit(u, op) == hits' = [hits EXCEPT ![<<u, op>>] = Append(@, 0)]

Closed == openFor = -1
Expired == openFor = Cooldown

\* CircuitBreaker.allow() closes a breaker whose cooldown is over.
Close == openFor' = -1 /\ failures' = <<>>

\* Seeded fault: allow() answers True whatever the breaker's state.
AllowsAlways == TRUE

Allows == Closed \/ Expired
AskBreaker == IF Expired THEN Close ELSE UNCHANGED breaker

Fresh(op, k) == seen[op, k] = Ttl
Remember(op, k) == seen' = [seen EXCEPT ![<<op, k>>] = 0]

-----------------------------------------------------------------------------
(* /start and /stop *)

\* 429: nothing is recorded.  423 or 404: the limiter has counted the request,
\* and the breaker was asked.
Refuse(u, op) ==
    /\ ~Limited(u, op)
    /\ Hit(u, op)
    /\ AskBreaker
    /\ UNCHANGED <<seen, calls, agents>>

\* {"ok": True, "duplicate": True}
AnswerDuplicate(u, op, k) ==
    /\ ~Limited(u, op) /\ Allows /\ ~Fresh(op, k)
    /\ Hit(u, op) /\ AskBreaker
    /\ UNCHANGED <<seen, calls, agents>>

\* The key is stored before the call of the Supervisor.
Admit(c, u, op, k) ==
    /\ request[c] = NoCommand
    /\ ~Limited(u, op) /\ Allows /\ Fresh(op, k)
    /\ Hit(u, op) /\ AskBreaker /\ Remember(op, k)
    /\ queue' = Append(queue, c)
    /\ request' = [request EXCEPT ![c] = [op |-> op, agent |-> k]]
    /\ UNCHANGED agents

Served(c) == queue # <<>> /\ Head(queue) = c
Leave(c) ==
    /\ queue' = Tail(queue)
    /\ request' = [request EXCEPT ![c] = NoCommand]

\* Seeded fault: record_success clears the breaker without asking allow().
SuccessCloses == Close

\* record_success: an open breaker stays open until its cooldown is over.
RecordSuccess == IF Allows THEN Close ELSE UNCHANGED breaker

\* _purge drops the errors that are older than the window.
Recent == Unexpired(failures, Window)

\* Seeded fault: `>` instead of `>=`.
OpensLate ==
    LET now == Append(Recent, 0) IN
    /\ failures' = now
    /\ openFor' = IF Len(now) > Threshold /\ Closed THEN 0 ELSE openFor

RecordError ==
    LET now == Append(Recent, 0) IN
    /\ failures' = now
    /\ openFor' = IF Len(now) >= Threshold /\ Closed THEN 0 ELSE openFor

\* Seeded fault: the gauge is set with the breaker's success, which an open breaker ignores.
StartReturnsQuietly(c) ==
    LET k == request[c].agent IN
    /\ Served(c) /\ request[c].op = "start"
    /\ phase' = [phase EXCEPT ![k] = IF @ = "stopped" THEN "live" ELSE @]
    /\ gauge' = IF Allows THEN gauge \cup {k} ELSE gauge
    /\ RecordSuccess
    /\ Leave(c)
    /\ UNCHANGED <<hits, seen>>

\* supervisor.start() returned: it started the agent, or did nothing because the
\* agent has a task already, alive or dead.
StartReturns(c) ==
    LET k == request[c].agent IN
    /\ Served(c) /\ request[c].op = "start"
    /\ phase' = [phase EXCEPT ![k] = IF @ = "stopped" THEN "live" ELSE @]
    /\ gauge' = gauge \cup {k}
    /\ RecordSuccess
    /\ Leave(c)
    /\ UNCHANGED <<hits, seen>>

\* agent.start() raised; the LearningEngine is `running` by then.
StartFails(c) ==
    LET k == request[c].agent IN
    /\ Served(c) /\ request[c].op = "start"
    /\ phase[k] = "stopped"
    /\ phase' \in {phase, [phase EXCEPT ![k] = "dead"]}
    /\ RecordError
    /\ Leave(c)
    /\ UNCHANGED <<hits, seen, gauge>>

\* supervisor.stop() returned; when agent.stop() raises the loop is gone as well,
\* but the gauge is not set.
StopReturns(c) ==
    LET k == request[c].agent IN
    /\ Served(c) /\ request[c].op = "stop"
    /\ phase' = [phase EXCEPT ![k] = "stopped"]
    /\ gauge' = gauge \ {k}
    /\ RecordSuccess
    /\ Leave(c)
    /\ UNCHANGED <<hits, seen>>

StopFails(c) ==
    /\ Served(c) /\ request[c].op = "stop"
    /\ phase' = [phase EXCEPT ![request[c].agent] = "stopped"]
    /\ RecordError
    /\ Leave(c)
    /\ UNCHANGED <<hits, seen, gauge>>

-----------------------------------------------------------------------------
(* The rest of the gateway *)

\* An agent's loop dies of an exception: no gauge is touched.
LoopDies(k) ==
    /\ phase[k] = "live"
    /\ phase' = [phase EXCEPT ![k] = "dead"]
    /\ UNCHANGED <<hits, breaker, seen, calls, gauge>>

\* status_payload, from /status or the dashboard: state() asks allow().
Poll ==
    /\ Expired
    /\ Close
    /\ UNCHANGED <<hits, seen, calls, agents>>

Older(age, limit) == IF age < limit THEN age + 1 ELSE age

\* The limiter keeps the stamps of the last minute; they are in order, so that the others
\* are in front.
TimePasses ==
    /\ hits' = [b \in Users \X Ops |->
                  Unexpired([i \in 1..Len(hits[b]) |-> hits[b][i] + 1], Minute - 1)]
    /\ failures' = [i \in 1..Len(failures) |-> Older(failures[i], Window + 1)]
    /\ openFor' = IF Closed THEN openFor ELSE Older(openFor, Cooldown)
    /\ seen' = [c \in Ops \X Agents |-> Older(seen[c], Ttl)]
    /\ UNCHANGED <<calls, agents>>

Finish(c) == StartReturns(c) \/ StartFails(c) \/ StopReturns(c) \/ StopFails(c)

Next ==
    \/ \E u \in Users, op \in Ops : Refuse(u, op)
    \/ \E u \in Users, op \in Ops, k \in Agents :
        \/ AnswerDuplicate(u, op, k)
        \/ \E c \in Clients : Admit(c, u, op, k)
    \/ \E c \in Clients : Finish(c)
    \/ \E k \in Agents : LoopDies(k)
    \/ Poll \/ TimePasses

Spec == Init /\ [][Next]_vars

-----------------------------------------------------------------------------
(* Properties *)

\* Once open, the breaker stays open for its whole cooldown, from the error that
\* opened it: neither the success nor the failure of a request that was admitted
\* before shortens or restarts it.
HoldsCooldown ==
    [][~Allows => (openFor' = openFor \/ openFor' = openFor + 1)]_vars

\* A closed breaker has seen fewer errors than its threshold within the window, in
\* whatever order requests failed and succeeded; an open one remembers no more than the
\* errors that opened it and those of the requests in progress (guards.py:50-77).
ErrorsCounted ==
    /\ Closed => Len(Recent) < Threshold
    /\ Len(failures) <= Threshold + Cardinality(Clients) - 1

\* The gauge may show a loop that is gone, but it never hides one that is alive, however
\* requests overlap and fail (control.py:60-102, gateway/metrics.py:21).
GaugeHidesNoLoop == \A k \in Agents : phase[k] = "live" => k \in gauge
=============================================================================
