------------------------- MODULE SupervisorProofs -------------------------
(***************************************************************************)
(* Proofs about Supervisor for every set of agents, requests and task      *)
(* objects.  Mutual exclusion of the lock carries the argument: a caller   *)
(* inside start() or stop() is the head of the queue, so at most one task  *)
(* is being joined, and a live loop that is not registered is that task.   *)
(***************************************************************************)
EXTENDS Supervisor, TLAPS

\* A caller inside its critical section is the one that holds the lock.
HoldsLock ==
    \A p \in Procs : InSection(p) => queue # <<>> /\ Head(queue) = p

\* A call of start() or stop() is about an agent, and a join is about a task of
\* an agent that is no longer registered.
CallsAreAboutAgents ==
    \A p \in Procs :
        /\ call[p].op \in {"start", "stop"} => call[p].key \in Keys
        /\ InSection(p) => call[p].key \in Keys
        /\ pc[p] = "joining" => victim[p] \in Slots /\ tasks[call[p].key] = None

\* The gathered children exist only while stop_all() waits for them.
ChildrenAreGathered ==
    \A k \in Keys : pc[k] # "idle" => pc[Main] = "gathering"

\* A trading agent that is being started is not running yet.
TradersStartLate ==
    \A p \in Procs : pc[p] = "starting" /\ call[p].key \in Traders => ~running[call[p].key]

IInv ==
    /\ TypeOK
    /\ HoldsLock
    /\ CallsAreAboutAgents
    /\ ChildrenAreGathered
    /\ NoOrphanLoop
    /\ HandlersRunAlone
    /\ TradersStartLate
    /\ RunningHasLoop

-----------------------------------------------------------------------------
(* The FIFO lock: what joining and leaving the queue do to its head. *)
LEMMA QueueFacts ==
    ASSUME NEW q \in Seq(Procs), NEW p \in Procs
    PROVE  /\ Append(q, p) \in Seq(Procs)
           /\ Append(q, p) # <<>>
           /\ q # <<>> => Head(Append(q, p)) = Head(q)
           /\ q # <<>> => Tail(q) \in Seq(Procs)
BY SMTT(30)

THEOREM InitIInv == Init => IInv
BY ProcsAssumption DEF Init, IInv, TypeOK, HoldsLock, CallsAreAboutAgents, ChildrenAreGathered,
    NoOrphanLoop, HandlersRunAlone, TradersStartLate, RunningHasLoop, Procs, InSection, Live,
    NoCall, Calls, Ops, PCs, LoopStates

LEMMA RequestKeeps ==
    ASSUME IInv, NEW c \in Clients, Request(c)
    PROVE  IInv'
<1> USE DEF IInv, Procs
<1>1. PICK k \in Keys : CallStart(c, k) \/ CallStop(c, k)
  BY DEF Request
<1>2. /\ pc[c] = "idle"
      /\ Enqueue(c)
      /\ \E op \in {"start", "stop"} : call' = [call EXCEPT ![c] = [op |-> op, key |-> k]]
      /\ UNCHANGED <<running, tasks, loop, victim>>
  BY <1>1 DEF CallStart, CallStop
<1>3. TypeOK'
  BY <1>2, QueueFacts DEF TypeOK, Enqueue, Calls, Ops, PCs
<1>4. \A p \in Procs : p # c => pc'[p] = pc[p] /\ call'[p] = call[p]
  BY <1>2 DEF TypeOK, Enqueue
<1>5. pc'[c] = "queued" /\ call'[c].op \in {"start", "stop"} /\ call'[c].key = k
  BY <1>2 DEF TypeOK, Enqueue
<1>6. HoldsLock'
  BY <1>2, <1>4, <1>5, QueueFacts DEF HoldsLock, InSection, Enqueue, TypeOK
<1>7. CallsAreAboutAgents' /\ TradersStartLate'
  BY <1>2, <1>4, <1>5 DEF CallsAreAboutAgents, TradersStartLate, InSection
<1>8. ChildrenAreGathered'
  BY <1>4, ProcsAssumption DEF ChildrenAreGathered
<1>9. NoOrphanLoop' /\ HandlersRunAlone' /\ RunningHasLoop'
  BY <1>2, <1>4, <1>5 DEF NoOrphanLoop, HandlersRunAlone, RunningHasLoop, Live
<1> QED BY <1>3, <1>6, <1>7, <1>8, <1>9

\* While p is granted the lock, or inside its section, nobody else is inside.
LEMMA SoleHolder ==
    ASSUME IInv, NEW p \in Procs, NEW q \in Procs, InSection(q),
           InSection(p) \/ \E op \in Ops : Granted(p, op)
    PROVE  p = q /\ InSection(p)
BY DEF IInv, HoldsLock, Granted, InSection

\* What leaving the critical section does to the callers.
LEMMA ReturnFacts ==
    ASSUME IInv, NEW p \in Procs, Return(p),
           InSection(p) \/ \E op \in Ops : Granted(p, op)
    PROVE  /\ queue' \in Seq(Procs) /\ pc' \in [Procs -> PCs] /\ call' \in [Procs -> Calls]
           /\ \A q \in Procs : ~InSection(q)'
           /\ pc'[p] = "idle" /\ call'[p] = NoCall
           /\ \A q \in Procs : q # p => pc'[q] = pc[q] /\ call'[q] = call[q]
           /\ \A k \in Keys : pc'[k] # "idle" => pc[k] # "idle"
           /\ pc[Main] = "gathering" => pc'[Main] = "gathering"
<1>1. queue # <<>>
  BY DEF IInv, HoldsLock, Granted
<1>2. queue' \in Seq(Procs) /\ pc' \in [Procs -> PCs] /\ call' \in [Procs -> Calls]
  BY <1>1, QueueFacts DEF IInv, TypeOK, Return, NoCall, Calls, Ops, PCs
<1>3. /\ pc'[p] = "idle" /\ call'[p] = NoCall
      /\ \A q \in Procs : q # p => pc'[q] = pc[q] /\ call'[q] = call[q]
  BY DEF IInv, TypeOK, Return
<1>4. \A q \in Procs : ~InSection(q)'
  BY <1>3, SoleHolder DEF InSection
<1>5. pc[p] # "gathering"
  BY DEF InSection, Granted
<1> QED BY <1>2, <1>3, <1>4, <1>5 DEF Procs

\* A return that changes nothing but the lock and the caller.
LEMMA QuietReturnKeeps ==
    ASSUME IInv, NEW p \in Procs, Return(p), UNCHANGED <<running, tasks, loop, victim>>,
           InSection(p) \/ \E op \in Ops : Granted(p, op),
           pc[p] # "joining"
    PROVE  IInv'
<1> USE DEF IInv
<1>1. \A q \in Procs : pc[q] # "joining"
  BY SoleHolder DEF InSection
<1>2. TypeOK'
  BY ReturnFacts DEF TypeOK
<1>3. HoldsLock' /\ ChildrenAreGathered' /\ TradersStartLate' /\ HandlersRunAlone'
  BY ReturnFacts DEF HoldsLock, ChildrenAreGathered, TradersStartLate, HandlersRunAlone, InSection
<1>4. CallsAreAboutAgents'
  BY ReturnFacts DEF CallsAreAboutAgents, NoCall, InSection
<1>5. NoOrphanLoop' /\ RunningHasLoop'
  BY <1>1 DEF NoOrphanLoop, RunningHasLoop, Live
<1> QED BY <1>2, <1>3, <1>4, <1>5

LEMMA StartNoopKeeps ==
    ASSUME IInv, NEW p \in Procs, StartNoop(p)
    PROVE  IInv'
BY QuietReturnKeeps DEF StartNoop, Granted, Ops

LEMMA StartBeginsKeeps ==
    ASSUME IInv, NEW p \in Procs, StartBegins(p)
    PROVE  IInv'
<1> DEFINE k == call[p].key
<1> USE DEF IInv
<1>1. /\ Granted(p, "start") /\ ~Registered(k) /\ ~running[k]
      /\ pc' = [pc EXCEPT ![p] = "starting"]
      /\ running' = [running EXCEPT ![k] = k \notin Traders]
      /\ UNCHANGED <<tasks, loop, queue, call, victim>>
  BY DEF StartBegins
<1>2. \A q \in Procs : ~InSection(q)
  BY <1>1, SoleHolder DEF Ops, Granted, InSection
<1>3. k \in Keys
  BY <1>1 DEF CallsAreAboutAgents, Granted
<1>4. /\ pc'[p] = "starting"
      /\ \A q \in Procs : q # p => pc'[q] = pc[q]
      /\ \A j \in Keys : j # k => running'[j] = running[j]
      /\ running'[k] = (k \notin Traders)
  BY <1>1, <1>3 DEF TypeOK
<1>5. TypeOK'
  BY <1>1 DEF TypeOK, PCs
<1>6. HoldsLock' /\ CallsAreAboutAgents' /\ ChildrenAreGathered' /\ TradersStartLate'
  BY <1>1, <1>2, <1>3, <1>4, ZenonT(60) DEF HoldsLock, CallsAreAboutAgents, ChildrenAreGathered,
     TradersStartLate, InSection, Granted, Procs
<1>7. \A s \in Slots : ~Live(k, s)
  BY <1>1, <1>2, <1>3, ProcsAssumption DEF NoOrphanLoop, Registered, InSection
<1>8. NoOrphanLoop'
  BY <1>1, <1>2 DEF NoOrphanLoop, Live, InSection
<1>9. HandlersRunAlone'
  BY <1>1, <1>2, <1>4, <1>7 DEF HandlersRunAlone, Live, Registered, InSection
<1>10. RunningHasLoop'
  <2> SUFFICES ASSUME NEW j \in Keys \cap Traders, running'[j]
               PROVE  \E s \in Slots : Live(j, s)'
    BY DEF RunningHasLoop
  <2>1. j # k /\ running[j]
    BY <1>4
  <2> QED
    BY <1>1, <1>2, <2>1 DEF RunningHasLoop, InSection, Live
<1> QED BY <1>5, <1>6, <1>8, <1>9, <1>10

LEMMA StartReturnsKeeps ==
    ASSUME IInv, NEW p \in Procs, StartReturns(p)
    PROVE  IInv'
<1> DEFINE k == call[p].key
<1> USE DEF IInv
<1>1. PICK s \in Slots :
        /\ pc[p] = "starting"
        /\ running' = [running EXCEPT ![k] = TRUE]
        /\ ~Live(k, s)
        /\ loop' = [loop EXCEPT ![k][s] = "new"]
        /\ tasks' = [tasks EXCEPT ![k] = s]
        /\ Return(p)
        /\ UNCHANGED victim
  BY DEF StartReturns
<1>2. InSection(p) /\ k \in Keys
  BY <1>1 DEF InSection, CallsAreAboutAgents
<1>3. \A t \in Slots : ~Live(k, t)
  BY <1>1, <1>2 DEF HandlersRunAlone
<1>4. /\ tasks'[k] = s /\ loop'[k][s] = "new"
      /\ \A t \in Slots : t # s => loop'[k][t] = "done"
      /\ \A j \in Keys : j # k => /\ tasks'[j] = tasks[j]
                                  /\ loop'[j] = loop[j]
                                  /\ running'[j] = running[j]
  BY <1>1, <1>2, <1>3 DEF TypeOK, Live
<1>5. TypeOK'
  BY <1>1, <1>2, ReturnFacts DEF TypeOK, LoopStates
<1>6. \A q \in Procs : pc[q] # "joining"
  BY <1>1, <1>2, SoleHolder DEF InSection
<1>7. HoldsLock' /\ ChildrenAreGathered' /\ TradersStartLate' /\ HandlersRunAlone'
  BY <1>1, <1>2, ReturnFacts DEF HoldsLock, ChildrenAreGathered, TradersStartLate, HandlersRunAlone, InSection
<1>8. CallsAreAboutAgents'
  BY <1>1, <1>2, ReturnFacts DEF CallsAreAboutAgents, NoCall, InSection
<1>9. NoOrphanLoop' /\ RunningHasLoop'
  BY <1>4, <1>6 DEF NoOrphanLoop, RunningHasLoop, Live
<1> QED BY <1>5, <1>7, <1>8, <1>9

LEMMA StartRaisesKeeps ==
    ASSUME IInv, NEW p \in Procs, StartRaises(p)
    PROVE  IInv'
BY QuietReturnKeeps DEF StartRaises, InSection

LEMMA StopEndsKeeps ==
    ASSUME IInv, NEW p \in Procs, StopEnds(p)
    PROVE  IInv'
BY QuietReturnKeeps DEF StopEnds, InSection

LEMMA StopCancelsKeeps ==
    ASSUME IInv, NEW p \in Procs, StopCancels(p)
    PROVE  IInv'
<1> DEFINE k == call[p].key
           s == tasks[k]
<1> USE DEF IInv
<1>1. /\ Granted(p, "stop")
      /\ Registered(k)
      /\ tasks' = [tasks EXCEPT ![k] = None]
      /\ loop' = [loop EXCEPT ![k][s] = AfterCancel(loop[k][s])]
      /\ victim' = [victim EXCEPT ![p] = s]
      /\ pc' = [pc EXCEPT ![p] = "joining"]
      /\ UNCHANGED <<running, queue, call>>
  BY DEF StopCancels, StopWith
<1>2. \A q \in Procs : ~InSection(q)
  BY <1>1, SoleHolder DEF Ops, Granted, InSection
<1>3. k \in Keys /\ s \in Slots
  BY <1>1 DEF CallsAreAboutAgents, Granted, Registered, TypeOK
<1>4. /\ pc'[p] = "joining" /\ victim'[p] = s
      /\ \A q \in Procs : q # p => pc'[q] = pc[q] /\ victim'[q] = victim[q]
      /\ tasks'[k] = None
      /\ loop'[k][s] = AfterCancel(loop[k][s])
      /\ \A t \in Slots : t # s => loop'[k][t] = loop[k][t]
      /\ \A j \in Keys : j # k => tasks'[j] = tasks[j] /\ loop'[j] = loop[j]
  BY <1>1, <1>3 DEF TypeOK
<1>5. /\ AfterCancel(loop[k][s]) \in LoopStates
      /\ AfterCancel(loop[k][s]) # "done" =>
            loop[k][s] # "done" /\ AfterCancel(loop[k][s]) \in {"stillborn", "cancelled"}
      /\ AfterCancel(loop[k][s]) = "done" => loop[k][s] = "done"
  <2>1. loop[k][s] \in LoopStates
    BY <1>3 DEF TypeOK
  <2>2. Live(k, s) => loop[k][s] \notin {"stillborn", "cancelled"}
    BY <1>1, <1>3 DEF NoOrphanLoop, Registered
  <2> QED BY <2>1, <2>2 DEF AfterCancel, LoopStates, Live
<1>6. TypeOK'
  BY <1>1, <1>3, <1>5 DEF TypeOK, PCs
<1>7. HoldsLock' /\ ChildrenAreGathered' /\ TradersStartLate'
  BY <1>1, <1>2, <1>4 DEF HoldsLock, ChildrenAreGathered, TradersStartLate, InSection, Granted, Procs
<1>8. CallsAreAboutAgents'
  BY <1>1, <1>2, <1>3, <1>4 DEF CallsAreAboutAgents, InSection
<1>9. \A t \in Slots : t # s => ~Live(k, t)
  BY <1>1, <1>2, <1>3, ProcsAssumption DEF NoOrphanLoop, InSection, Registered
<1>10. NoOrphanLoop'
  <2> SUFFICES ASSUME NEW j \in Keys, NEW t \in Slots, Live(j, t)'
               PROVE  \/ tasks'[j] = t /\ loop'[j][t] \notin {"stillborn", "cancelled"}
                      \/ /\ tasks'[j] = None /\ loop'[j][t] \in {"stillborn", "cancelled"}
                         /\ \E q \in Procs : pc'[q] = "joining" /\ call'[q].key = j /\ victim'[q] = t
    BY DEF NoOrphanLoop
  <2>1. CASE j # k
    <3>1. Live(j, t) /\ loop'[j] = loop[j] /\ tasks'[j] = tasks[j]
      BY <1>4, <2>1 DEF Live
    <3>2. tasks[j] = t /\ loop[j][t] \notin {"stillborn", "cancelled"}
      BY <1>2, <3>1 DEF NoOrphanLoop, InSection
    <3> QED BY <3>1, <3>2
  <2>2. CASE j = k /\ t # s
    BY <1>4, <1>9, <2>2 DEF Live
  <2>3. CASE j = k /\ t = s
    <3>1. loop'[j][t] \in {"stillborn", "cancelled"} /\ tasks'[j] = None
      BY <1>4, <1>5, <2>3 DEF Live
    <3>2. pc'[p] = "joining" /\ call'[p].key = j /\ victim'[p] = t
      BY <1>1, <1>4, <2>3
    <3> QED BY <3>1, <3>2
  <2> QED BY <2>1, <2>2, <2>3
<1>11. HandlersRunAlone'
  <2>1. \A q \in Procs : pc'[q] \notin {"starting", "stopping"}
    BY <1>2, <1>4 DEF InSection
  <2> QED BY <2>1 DEF HandlersRunAlone
<1>12. RunningHasLoop'
  <2> SUFFICES ASSUME NEW j \in Keys \cap Traders, running'[j]
               PROVE  \/ \E t \in Slots : Live(j, t)'
                      \/ \E q \in Procs : pc'[q] = "joining" /\ call'[q].key = j
    BY DEF RunningHasLoop
  <2>1. CASE j = k
    <3>1. pc'[p] = "joining" /\ call'[p].key = j
      BY <1>1, <1>4, <2>1
    <3> QED BY <3>1
  <2>2. CASE j # k
    <3>1. \E t \in Slots : Live(j, t)
      BY <1>1, <1>2 DEF RunningHasLoop, InSection
    <3> QED BY <1>4, <2>2, <3>1 DEF Live
  <2> QED BY <2>1, <2>2
<1> QED BY <1>6, <1>7, <1>8, <1>10, <1>11, <1>12

LEMMA StopAgentKeeps ==
    ASSUME IInv, NEW p \in Procs, StopAgent(p)
    PROVE  IInv'
<1> DEFINE k == call[p].key
<1> USE DEF IInv
<1>1. /\ \/ Granted(p, "stop") /\ ~Registered(k)
         \/ pc[p] = "joining" /\ ~Live(k, victim[p])
      /\ running' = [running EXCEPT ![k] = FALSE]
      /\ victim' = [victim EXCEPT ![p] = None]
      /\ pc' = [pc EXCEPT ![p] = "stopping"]
      /\ UNCHANGED <<tasks, loop, queue, call>>
  BY DEF StopAgent
<1>2. \A q \in Procs : InSection(q) => q = p /\ pc[p] = "joining"
  BY <1>1, SoleHolder DEF Ops, Granted, InSection
<1>3. k \in Keys /\ tasks[k] = None
  BY <1>1 DEF CallsAreAboutAgents, Granted, Registered, InSection
<1>4. /\ pc'[p] = "stopping" /\ victim'[p] = None
      /\ \A q \in Procs : q # p => pc'[q] = pc[q] /\ victim'[q] = victim[q]
      /\ running'[k] = FALSE
      /\ \A j \in Keys : j # k => running'[j] = running[j]
  BY <1>1, <1>3 DEF TypeOK
<1>5. \A t \in Slots : ~Live(k, t)
  BY <1>1, <1>2, <1>3, ProcsAssumption DEF NoOrphanLoop, InSection, Granted
<1>6. \A j \in Keys, t \in Slots : Live(j, t) => tasks[j] = t
  BY <1>1, <1>2, <1>5 DEF NoOrphanLoop, InSection
<1>7. TypeOK'
  BY <1>1 DEF TypeOK, PCs
<1>8. HoldsLock' /\ ChildrenAreGathered' /\ TradersStartLate'
  BY <1>1, <1>2, <1>4 DEF HoldsLock, ChildrenAreGathered, TradersStartLate, InSection, Granted, Procs
<1>9. CallsAreAboutAgents'
  BY <1>1, <1>2, <1>3, <1>4 DEF CallsAreAboutAgents, InSection
<1>10. NoOrphanLoop'
  BY <1>1, <1>6, ProcsAssumption DEF NoOrphanLoop, Live
<1>11. HandlersRunAlone'
  BY <1>1, <1>2, <1>3, <1>4, <1>5 DEF HandlersRunAlone, Live, InSection
<1>12. RunningHasLoop'
  BY <1>1, <1>2, <1>3, <1>4 DEF RunningHasLoop, Live, InSection
<1> QED BY <1>7, <1>8, <1>9, <1>10, <1>11, <1>12

LEMMA CallStopAllKeeps ==
    ASSUME IInv, CallStopAll
    PROVE  IInv'
<1> USE DEF IInv
<1>1. /\ pc[Main] = "idle"
      /\ Enqueue(Main)
      /\ call' = [call EXCEPT ![Main] = [op |-> "stop_all", key |-> None]]
      /\ UNCHANGED <<running, tasks, loop, victim>>
      /\ Main \in Procs
  BY DEF CallStopAll, Procs
<1>2. /\ pc'[Main] = "queued" /\ call'[Main].op = "stop_all"
      /\ \A p \in Procs : p # Main => pc'[p] = pc[p] /\ call'[p] = call[p]
  BY <1>1 DEF TypeOK, Enqueue
<1>3. TypeOK'
  BY <1>1, QueueFacts DEF TypeOK, Enqueue, Calls, Ops, PCs
<1>4. HoldsLock'
  BY <1>1, <1>2, QueueFacts DEF HoldsLock, InSection, Enqueue, TypeOK
<1>5. CallsAreAboutAgents' /\ TradersStartLate'
  BY <1>1, <1>2 DEF CallsAreAboutAgents, TradersStartLate, InSection
<1>6. ChildrenAreGathered'
  BY <1>1, <1>2, ProcsAssumption DEF ChildrenAreGathered, Procs
<1>7. NoOrphanLoop' /\ HandlersRunAlone' /\ RunningHasLoop'
  BY <1>1, <1>2 DEF NoOrphanLoop, HandlersRunAlone, RunningHasLoop, Live
<1> QED BY <1>3, <1>4, <1>5, <1>6, <1>7

LEMMA ChildCallsKeeps ==
    ASSUME IInv, NEW c \in Keys, ChildCalls(c)
    PROVE  IInv'
<1> USE DEF IInv
<1>1. /\ pc[c] = "spawned"
      /\ Enqueue(c)
      /\ UNCHANGED <<running, tasks, loop, call, victim>>
      /\ c \in Procs
  BY DEF ChildCalls, Procs
<1>2. /\ pc'[c] = "queued"
      /\ \A p \in Procs : p # c => pc'[p] = pc[p]
  BY <1>1 DEF TypeOK, Enqueue
<1>3. TypeOK'
  BY <1>1, QueueFacts DEF TypeOK, Enqueue, PCs
<1>4. HoldsLock'
  BY <1>1, <1>2, QueueFacts DEF HoldsLock, InSection, Enqueue, TypeOK
<1>5. CallsAreAboutAgents' /\ TradersStartLate'
  BY <1>1, <1>2 DEF CallsAreAboutAgents, TradersStartLate, InSection
<1>6. ChildrenAreGathered'
  BY <1>1, <1>2, ProcsAssumption DEF ChildrenAreGathered, Procs
<1>7. NoOrphanLoop' /\ HandlersRunAlone' /\ RunningHasLoop'
  BY <1>1, <1>2 DEF NoOrphanLoop, HandlersRunAlone, RunningHasLoop, Live
<1> QED BY <1>3, <1>4, <1>5, <1>6, <1>7

LEMMA StopAllSpawnsKeeps ==
    ASSUME IInv, StopAllSpawns
    PROVE  IInv'
<1> DEFINE doomed == {k \in Keys : Registered(k)}
<1> USE DEF IInv
<1>1. /\ Granted(Main, "stop_all")
      /\ queue' = Tail(queue)
      /\ pc' = [p \in Procs |-> IF p = Main THEN "gathering"
                                ELSE IF p \in doomed THEN "spawned" ELSE pc[p]]
      /\ call' = [p \in Procs |-> IF p \in doomed THEN [op |-> "stop", key |-> p] ELSE call[p]]
      /\ UNCHANGED <<running, tasks, loop, victim>>
      /\ Main \in Procs
  BY DEF StopAllSpawns, Procs
<1>2. \A q \in Procs : ~InSection(q)
  BY <1>1, SoleHolder DEF Ops, Granted, InSection
<1>3. \A q \in Procs : ~InSection(q)'
  BY <1>1, <1>2 DEF InSection
<1>4. TypeOK'
  <2>1. queue' \in Seq(Procs)
    BY <1>1, QueueFacts DEF TypeOK, Granted
  <2>2. call' \in [Procs -> Calls]
    BY <1>1 DEF TypeOK, Calls, Ops
  <2>3. pc' \in [Procs -> PCs]
    BY <1>1 DEF TypeOK, PCs
  <2> QED BY <1>1, <2>1, <2>2, <2>3 DEF TypeOK
<1>5. CallsAreAboutAgents'
  <2>1. ASSUME NEW q \in Procs, call'[q].op \in {"start", "stop"}
        PROVE  call'[q].key \in Keys
    <3>1. CASE q \in doomed  BY <3>1, <1>1
    <3>2. CASE q \notin doomed  BY <2>1, <3>2, <1>1 DEF CallsAreAboutAgents
    <3> QED BY <3>1, <3>2
  <2> QED BY <2>1, <1>3 DEF CallsAreAboutAgents, InSection
<1>6. HoldsLock' /\ TradersStartLate' /\ HandlersRunAlone'
  BY <1>3 DEF HoldsLock, TradersStartLate, HandlersRunAlone, InSection
<1>7. ChildrenAreGathered'
  BY <1>1 DEF ChildrenAreGathered
<1>8. NoOrphanLoop' /\ RunningHasLoop'
  BY <1>1, <1>2 DEF NoOrphanLoop, RunningHasLoop, Live, InSection
<1> QED BY <1>4, <1>5, <1>6, <1>7, <1>8

LEMMA StopAllReturnsKeeps ==
    ASSUME IInv, StopAllReturns
    PROVE  IInv'
<1> USE DEF IInv
<1>1. /\ pc[Main] = "gathering"
      /\ \A k \in Keys : pc[k] = "idle"
      /\ pc' = [pc EXCEPT ![Main] = "idle"]
      /\ call' = [call EXCEPT ![Main] = NoCall]
      /\ UNCHANGED <<running, tasks, loop, queue, victim>>
      /\ Main \in Procs
  BY DEF StopAllReturns, Procs
<1>2. /\ pc'[Main] = "idle" /\ call'[Main] = NoCall
      /\ \A p \in Procs : p # Main => pc'[p] = pc[p] /\ call'[p] = call[p]
  BY <1>1 DEF TypeOK
<1>3. TypeOK'
  BY <1>1 DEF TypeOK, NoCall, Calls, Ops, PCs
<1>4. HoldsLock' /\ CallsAreAboutAgents' /\ TradersStartLate'
  BY <1>1, <1>2 DEF HoldsLock, CallsAreAboutAgents, TradersStartLate, InSection, NoCall
<1>5. ChildrenAreGathered'
  BY <1>1, <1>2, ProcsAssumption DEF ChildrenAreGathered, Procs
<1>6. NoOrphanLoop' /\ HandlersRunAlone' /\ RunningHasLoop'
  BY <1>1, <1>2 DEF NoOrphanLoop, HandlersRunAlone, RunningHasLoop, Live
<1> QED BY <1>3, <1>4, <1>5, <1>6

(* A step of a live loop touches that loop and running, and never sets running. *)
LEMMA LoopStepKeeps ==
    ASSUME IInv, NEW k \in Keys, NEW s \in Slots, LoopStep(k, s)
    PROVE  IInv'
<1> USE DEF IInv
<1>1. /\ Live(k, s)
      /\ UNCHANGED <<tasks, queue, pc, call, victim>>
      /\ \E to \in LoopStates :
           /\ loop' = [loop EXCEPT ![k][s] = to]
           /\ loop[k][s] \in {"stillborn", "cancelled"} => to = "done"
           /\ to \notin {"stillborn", "cancelled"}
           /\ to = "done" => ~running'[k] \/ loop[k][s] = "stillborn"
      /\ \E r \in BOOLEAN : running' = [running EXCEPT ![k] = r] /\ (r => running[k])
  <2>1. CASE LoopWakes(k, s)
    BY <2>1 DEF LoopWakes, TypeOK, LoopStates, Live
  <2>2. CASE TickReturns(k, s)
    BY <2>2 DEF TickReturns, TypeOK, LoopStates, Live
  <2>3. CASE TickTripsKillSwitch(k, s)
    BY <2>3, ZenonT(60) DEF TickTripsKillSwitch, TypeOK, LoopStates, Live
  <2>4. CASE TickRaises(k, s)
    BY <2>4 DEF TickRaises, TypeOK, LoopStates, Live
  <2>5. CASE CancelDelivered(k, s)
    BY <2>5 DEF CancelDelivered, TypeOK, LoopStates, Live
  <2> QED BY <2>1, <2>2, <2>3, <2>4, <2>5 DEF LoopStep
<1>a. PICK to \in LoopStates :
        /\ loop' = [loop EXCEPT ![k][s] = to]
        /\ loop[k][s] \in {"stillborn", "cancelled"} => to = "done"
        /\ to \notin {"stillborn", "cancelled"}
        /\ to = "done" => ~running'[k] \/ loop[k][s] = "stillborn"
  BY <1>1
<1>b. PICK r \in BOOLEAN : running' = [running EXCEPT ![k] = r] /\ (r => running[k])
  BY <1>1
<1>2. /\ \A j \in Keys : running'[j] => running[j]
      /\ \A j \in Keys, t \in Slots : j # k \/ t # s => loop'[j][t] = loop[j][t]
  <2>1. \A j \in Keys : running'[j] => running[j]
    BY <1>b DEF TypeOK
  <2>2. \A j \in Keys, t \in Slots : j # k \/ t # s => loop'[j][t] = loop[j][t]
    BY <1>a DEF TypeOK
  <2> QED BY <2>1, <2>2
<1>3. /\ Live(k, s)' => loop[k][s] \notin {"stillborn", "cancelled"}
      /\ loop'[k][s] \notin {"stillborn", "cancelled"}
      /\ ~Live(k, s)' => ~running'[k] \/ loop[k][s] = "stillborn"
  <2>1. loop'[k][s] = to
    BY <1>a DEF TypeOK
  <2> QED BY <1>a, <2>1 DEF Live
<1>4. TypeOK'
  <2>1. running' \in [Keys -> BOOLEAN]
    BY <1>b DEF TypeOK
  <2>2. loop' \in [Keys -> [Slots -> LoopStates]]
    BY <1>a DEF TypeOK
  <2> QED BY <1>1, <2>1, <2>2 DEF TypeOK
<1>5. HoldsLock' /\ CallsAreAboutAgents' /\ ChildrenAreGathered'
  BY <1>1 DEF HoldsLock, CallsAreAboutAgents, ChildrenAreGathered, InSection
<1>6. TradersStartLate'
  BY <1>1, <1>2 DEF TradersStartLate
<1>7. NoOrphanLoop'
  BY <1>1, <1>2, <1>3 DEF NoOrphanLoop, Live
<1>8. HandlersRunAlone'
  <2> SUFFICES ASSUME NEW p \in Procs, pc[p] \in {"starting", "stopping"}
               PROVE  /\ \A t \in Slots : ~Live(call[p].key, t)'
                      /\ tasks[call[p].key] = None
                      /\ pc[p] = "stopping" => ~running'[call[p].key]
    BY <1>1 DEF HandlersRunAlone
  <2>1. call[p].key \in Keys /\ call[p].key # k
    BY <1>1 DEF CallsAreAboutAgents, HandlersRunAlone, InSection
  <2>2. \A t \in Slots : ~Live(call[p].key, t)
    BY DEF HandlersRunAlone
  <2>3. \A t \in Slots : ~Live(call[p].key, t)'
    BY <1>1, <1>2, <2>1, <2>2 DEF Live
  <2> QED
    BY <1>2, <2>1, <2>3 DEF HandlersRunAlone
<1>9. RunningHasLoop'
  <2> SUFFICES ASSUME NEW j \in Keys \cap Traders, running'[j]
               PROVE  \/ \E t \in Slots : Live(j, t)'
                      \/ \E p \in Procs : pc[p] = "joining" /\ call[p].key = j
    BY <1>1 DEF RunningHasLoop
  <2>1. CASE j # k
    BY <1>2, <2>1 DEF RunningHasLoop, Live
  <2>2. CASE j = k
    BY <1>1, <1>3, <2>2 DEF NoOrphanLoop, Live
  <2> QED BY <2>1, <2>2
<1> QED BY <1>4, <1>5, <1>6, <1>7, <1>8, <1>9

LEMMA NextKeeps == IInv /\ [Next]_vars => IInv'
<1> SUFFICES ASSUME IInv, [Next]_vars PROVE IInv'
  OBVIOUS
<1>1. ASSUME NEW c \in Clients, Request(c) PROVE IInv'
  BY <1>1, RequestKeeps
<1>2. CASE CallStopAll
  BY <1>2, CallStopAllKeeps
<1>3. ASSUME NEW p \in Procs, CallStep(p) PROVE IInv'
  BY <1>3, StartNoopKeeps, StartBeginsKeeps, StartReturnsKeeps, StartRaisesKeeps,
     StopCancelsKeeps, StopAgentKeeps, StopEndsKeeps DEF CallStep
<1>4. CASE ShutdownStep
  BY <1>4, StopAllSpawnsKeeps, StopAllReturnsKeeps DEF ShutdownStep
<1>5. ASSUME NEW k \in Keys, ChildCalls(k) PROVE IInv'
  BY <1>5, ChildCallsKeeps
<1>6. ASSUME NEW k \in Keys, NEW s \in Slots, LoopStep(k, s) PROVE IInv'
  BY <1>6, LoopStepKeeps
<1>7. CASE UNCHANGED vars
  BY <1>7 DEF vars, IInv, TypeOK, HoldsLock, CallsAreAboutAgents, ChildrenAreGathered, NoOrphanLoop,
     HandlersRunAlone, TradersStartLate, RunningHasLoop, InSection, Live
<1> QED BY <1>1, <1>2, <1>3, <1>4, <1>5, <1>6, <1>7 DEF Next

(* The inductive invariant holds in every reachable state. *)
THEOREM InductiveInvariant == Spec => []IInv
<1>1. Init => IInv  BY InitIInv
<1>2. IInv /\ [Next]_vars => IInv'  BY NextKeeps
<1> QED BY <1>1, <1>2, PTL DEF Spec

(* Every variable keeps its type. *)
THEOREM TypeCorrect == Spec => []TypeOK
<1>1. IInv => TypeOK  BY DEF IInv
<1> QED BY <1>1, InductiveInvariant, PTL

(* The critical sections of start() and stop() exclude each other, although    *)
(* each of them suspends inside.                                               *)
THEOREM LockIsExclusive == Spec => []LockExclusion
<1>1. IInv => LockExclusion  BY DEF IInv, HoldsLock, LockExclusion
<1> QED BY <1>1, InductiveInvariant, PTL

(* No interleaving of starts, stops, crashes, kill switches and cancellations  *)
(* leaves an agent with two live tick loops.                                   *)
THEOREM NeverTwoLoops == Spec => []OneLoopPerAgent
<1>1. ASSUME IInv, NEW k \in Keys, NEW s \in Slots, NEW t \in Slots, Live(k, s), Live(k, t)
      PROVE  s = t
  <2> USE <1>1 DEF IInv
  <2>1. CASE tasks[k] # None
    BY <2>1 DEF NoOrphanLoop
  <2>2. CASE tasks[k] = None
    <3>1. PICK p \in Procs : pc[p] = "joining" /\ victim[p] = s
      BY <2>2, ProcsAssumption DEF NoOrphanLoop
    <3>2. PICK q \in Procs : pc[q] = "joining" /\ victim[q] = t
      BY <2>2, ProcsAssumption DEF NoOrphanLoop
    <3>3. p = q
      BY <3>1, <3>2, SoleHolder DEF InSection
    <3> QED BY <3>1, <3>2, <3>3
  <2> QED BY <2>1, <2>2
<1>2. IInv => OneLoopPerAgent  BY <1>1 DEF OneLoopPerAgent
<1> QED BY <1>2, InductiveInvariant, PTL

(* Every live loop is registered, or cancelled and being waited for.           *)
THEOREM LoopsAreReachable == Spec => []NoOrphanLoop
<1>1. IInv => NoOrphanLoop  BY DEF IInv
<1> QED BY <1>1, InductiveInvariant, PTL

(* agent.start() and agent.stop() never run while the agent is ticking.        *)
THEOREM HandlersDoNotOverlapTicks == Spec => []HandlersRunAlone
<1>1. IInv => HandlersRunAlone  BY DEF IInv
<1> QED BY <1>1, InductiveInvariant, PTL

(* A trading agent that says it is running has a live loop or is being stopped. *)
THEOREM RunningTradersHaveLoops == Spec => []RunningHasLoop
<1>1. IInv => RunningHasLoop  BY DEF IInv
<1> QED BY <1>1, InductiveInvariant, PTL

-----------------------------------------------------------------------------
(* Action properties and the refinement need to know which steps touch a loop. *)

LEMMA LoopChanges ==
    ASSUME IInv, [Next]_vars
    PROVE  \/ UNCHANGED <<tasks, loop>>
           \/ \E p \in Procs : StartReturns(p)
           \/ \E p \in Procs : StopCancels(p)
           \/ \E k \in Keys, s \in Slots : LoopStep(k, s)
BY DEF Next, vars, Request, CallStart, CallStop, CallStopAll, CallStep, StartNoop, StartBegins,
   StartRaises, StopAgent, StopEnds, ShutdownStep, StopAllSpawns, StopAllReturns, ChildCalls

\* start() registers a new loop for an agent that had none.
LEMMA StartEffect ==
    ASSUME IInv, NEW p \in Procs, StartReturns(p)
    PROVE  /\ call[p].key \in Keys
           /\ tasks[call[p].key] = None
           /\ \A t \in Slots : ~Live(call[p].key, t)
           /\ \E s \in Slots :
                /\ tasks'[call[p].key] = s
                /\ loop'[call[p].key][s] = "new"
                /\ \A j \in Keys : j # call[p].key => tasks'[j] = tasks[j]
                /\ \A j \in Keys, t \in Slots :
                     j # call[p].key \/ t # s => loop'[j][t] = loop[j][t]
<1>1. pc[p] = "starting" /\ InSection(p)
  BY DEF StartReturns, InSection
<1>2. PICK s \in Slots : /\ loop' = [loop EXCEPT ![call[p].key][s] = "new"]
                        /\ tasks' = [tasks EXCEPT ![call[p].key] = s]
  BY DEF StartReturns
<1>3. call[p].key \in Keys
  BY <1>1 DEF IInv, CallsAreAboutAgents
<1>4. /\ tasks'[call[p].key] = s
      /\ loop'[call[p].key][s] = "new"
      /\ \A j \in Keys : j # call[p].key => tasks'[j] = tasks[j]
      /\ \A j \in Keys, t \in Slots :
           j # call[p].key \/ t # s => loop'[j][t] = loop[j][t]
  BY <1>2, <1>3 DEF IInv, TypeOK
<1>5. tasks[call[p].key] = None /\ \A t \in Slots : ~Live(call[p].key, t)
  BY <1>1 DEF IInv, HandlersRunAlone
<1> QED BY <1>3, <1>4, <1>5

\* stop() takes the registered loop out and cancels it if it is alive.
LEMMA StopEffect ==
    ASSUME IInv, NEW p \in Procs, StopCancels(p)
    PROVE  LET k == call[p].key
               s == tasks[k]
           IN  /\ k \in Keys /\ s \in Slots /\ s # None
               /\ call[p].op = "stop" /\ pc'[p] = "joining"
               /\ tasks'[k] = None
               /\ \A j \in Keys : j # k => tasks'[j] = tasks[j]
               /\ \A j \in Keys, t \in Slots : j # k \/ t # s => loop'[j][t] = loop[j][t]
               /\ ~Live(k, s) => loop'[k][s] = "done"
               /\ Live(k, s) => loop'[k][s] \in {"stillborn", "cancelled"}
               /\ \A t \in Slots : t # s => ~Live(k, t)
<1> DEFINE k == call[p].key
           s == tasks[k]
<1> USE DEF IInv
<1>1. /\ Granted(p, "stop") /\ Registered(k)
      /\ tasks' = [tasks EXCEPT ![k] = None]
      /\ loop' = [loop EXCEPT ![k][s] = AfterCancel(loop[k][s])]
      /\ pc' = [pc EXCEPT ![p] = "joining"]
  BY DEF StopCancels, StopWith
<1>2. k \in Keys /\ s \in Slots /\ s # None /\ call[p].op = "stop"
  BY <1>1 DEF CallsAreAboutAgents, Granted, Registered, TypeOK
<1>3. pc'[p] = "joining"
  BY <1>1 DEF TypeOK
<1>4. loop[k][s] \in LoopStates
  BY <1>2 DEF TypeOK
<1>5. Live(k, s) => loop[k][s] \notin {"stillborn", "cancelled"}
  BY <1>2 DEF NoOrphanLoop
<1>6. \A t \in Slots : t # s => ~Live(k, t)
  BY <1>2 DEF NoOrphanLoop
<1>7. /\ ~Live(k, s) => AfterCancel(loop[k][s]) = "done"
      /\ Live(k, s) => AfterCancel(loop[k][s]) \in {"stillborn", "cancelled"}
  BY <1>4, <1>5 DEF AfterCancel, LoopStates, Live
<1>8. /\ tasks'[k] = None
      /\ \A j \in Keys : j # k => tasks'[j] = tasks[j]
      /\ \A j \in Keys, t \in Slots : j # k \/ t # s => loop'[j][t] = loop[j][t]
      /\ loop'[k][s] = AfterCancel(loop[k][s])
  BY <1>1, <1>2 DEF TypeOK
<1> QED BY <1>2, <1>3, <1>6, <1>7, <1>8

(* A tick begins only in the registered loop of a running agent.               *)
THEOREM TicksOnlyRegistered == Spec => TicksAreRegistered
<1>1. ASSUME IInv, [Next]_vars, NEW k \in Keys, NEW s \in Slots,
             loop[k][s] # "tick", loop'[k][s] = "tick"
      PROVE  tasks[k] = s /\ running[k]
  <2> USE <1>1
  <2>1. ASSUME NEW p \in Procs, StartReturns(p) PROVE FALSE
    BY <2>1, StartEffect DEF IInv, TypeOK
  <2>2. ASSUME NEW p \in Procs, StopCancels(p) PROVE FALSE
    BY <2>2, StopEffect, SMTT(30) DEF IInv, TypeOK, Live
  <2>3. ASSUME NEW j \in Keys, NEW t \in Slots, LoopStep(j, t) PROVE tasks[k] = s /\ running[k]
    <3>1. LoopWakes(j, t)
      BY <2>3 DEF LoopStep, TickReturns, TickTripsKillSwitch, TickRaises, CancelDelivered, IInv, TypeOK
    <3>2. j = k /\ t = s /\ running[k] /\ loop[k][s] \in {"new", "sleep"}
      BY <3>1 DEF LoopWakes, IInv, TypeOK
    <3> QED BY <3>2 DEF IInv, NoOrphanLoop, Live
  <2> QED BY <2>1, <2>2, <2>3, LoopChanges DEF LoopStep
<1>2. IInv /\ [Next]_vars =>
        [\A k \in Keys, s \in Slots :
           loop[k][s] # "tick" /\ loop'[k][s] = "tick" => tasks[k] = s /\ running[k]]_vars
  BY <1>1
<1> QED BY <1>2, InductiveInvariant, PTL DEF Spec, TicksAreRegistered

(* A crashed agent is cleared by a stop of that agent and by nothing else.     *)
THEOREM CrashesNeedStop == Spec => CrashClearedByStopOnly
<1>1. ASSUME IInv, [Next]_vars, NEW k \in Keys, Crashed(k), ~Crashed(k)'
      PROVE  /\ ~Registered(k)'
             /\ \E p \in Procs : call[p] = [op |-> "stop", key |-> k] /\ pc'[p] = "joining"
  <2> USE <1>1
  <2>1. tasks[k] \in Slots /\ tasks[k] # None /\ loop[k][tasks[k]] = "done"
    BY DEF Crashed, Registered, Live, IInv, TypeOK
  <2>2. ASSUME NEW p \in Procs, StartReturns(p) PROVE FALSE
    BY <2>1, <2>2, StartEffect DEF IInv, TypeOK, Crashed, Registered, Live
  <2>3. ASSUME NEW j \in Keys, NEW t \in Slots, LoopStep(j, t) PROVE FALSE
    <3>1. loop[j][t] # "done" /\ tasks' = tasks
      BY <2>3 DEF LoopStep, LoopWakes, TickReturns, TickTripsKillSwitch, TickRaises, CancelDelivered
    <3>2. loop'[k][tasks[k]] = "done"
      BY <2>1, <2>3, <3>1 DEF LoopStep, LoopWakes, TickReturns, TickTripsKillSwitch, TickRaises,
         CancelDelivered, IInv, TypeOK
    <3> QED BY <2>1, <3>1, <3>2 DEF Crashed, Registered, Live
  <2>4. ASSUME NEW p \in Procs, StopCancels(p) PROVE ~Registered(k)' /\ call[p].key = k
    BY <2>1, <2>4, StopEffect DEF Crashed, Registered, Live
  <2>5. ASSUME NEW p \in Procs, StopCancels(p)
        PROVE  call[p] = [op |-> "stop", key |-> k] /\ pc'[p] = "joining"
    BY <2>4, <2>5, StopEffect DEF IInv, TypeOK, Calls
  <2>6. CASE UNCHANGED <<tasks, loop>>
    BY <2>6 DEF Crashed, Registered, Live
  <2> QED BY <2>2, <2>3, <2>4, <2>5, <2>6, LoopChanges
<1>2. IInv /\ [Next]_vars =>
        [\A k \in Keys : Crashed(k) /\ ~Crashed(k)' =>
           /\ ~Registered(k)'
           /\ \E p \in Procs : call[p] = [op |-> "stop", key |-> k] /\ pc'[p] = "joining"]_vars
  BY <1>1
<1> QED BY <1>2, InductiveInvariant, PTL DEF Spec, CrashClearedByStopOnly

-----------------------------------------------------------------------------
(* The Supervisor implements AgentLifecycle. *)

Phase == [k \in Keys |-> PhaseOf(k)]
Ticking == {k \in Keys : \E s \in Slots : loop[k][s] = "tick"}

\* A step that changes one agent only changes the abstract state at that agent.
LEMMA OthersKeepPhase ==
    ASSUME NEW k \in Keys,
           \A j \in Keys : j # k => tasks'[j] = tasks[j] /\ \A t \in Slots : loop'[j][t] = loop[j][t],
           TypeOK, TypeOK'
    PROVE  Phase' = [Phase EXCEPT ![k] = PhaseOf(k)']
<1>1. \A j \in Keys : j # k => PhaseOf(j)' = PhaseOf(j)
  BY DEF PhaseOf, Registered, Live, TypeOK
<1> QED BY <1>1 DEF Phase

LEMMA StartRefines ==
    ASSUME IInv, IInv', NEW p \in Procs, StartReturns(p)
    PROVE  Lifecycle!Start(call[p].key)
<1>0. PICK k \in Keys : k = call[p].key
  BY StartEffect
<1>1. PICK s \in Slots :
        /\ tasks[k] = None /\ \A t \in Slots : ~Live(k, t)
        /\ tasks'[k] = s /\ loop'[k][s] = "new"
        /\ \A j \in Keys : j # k => tasks'[j] = tasks[j]
        /\ \A j \in Keys, t \in Slots : j # k \/ t # s => loop'[j][t] = loop[j][t]
  BY <1>0, StartEffect
<1>2. PhaseOf(k) = "stopped" /\ PhaseOf(k)' = "live"
  BY <1>1, ProcsAssumption DEF PhaseOf, Registered, Live
<1>3. Phase' = [Phase EXCEPT ![k] = "live"]
  BY <1>1, <1>2, OthersKeepPhase DEF IInv
<1>4. Ticking' = Ticking
  BY <1>1 DEF Ticking, Live
<1> QED BY <1>0, <1>2, <1>3, <1>4 DEF Lifecycle!Start, Lifecycle!Move, Phase, Ticking

LEMMA StopRefines ==
    ASSUME IInv, IInv', NEW p \in Procs, StopCancels(p)
    PROVE  \E k \in Keys : Lifecycle!Close(k) \/ Lifecycle!Clear(k)
<1>0. PICK k \in Keys, s \in Slots : k = call[p].key /\ s = tasks[k] /\ s # None
  BY StopEffect
<1>1. /\ tasks[k] = s /\ s # None
      /\ tasks'[k] = None
      /\ \A j \in Keys : j # k => tasks'[j] = tasks[j]
      /\ \A j \in Keys, t \in Slots : j # k \/ t # s => loop'[j][t] = loop[j][t]
      /\ ~Live(k, s) => loop'[k][s] = "done"
      /\ Live(k, s) => loop'[k][s] \in {"stillborn", "cancelled"}
      /\ \A t \in Slots : t # s => ~Live(k, t)
  BY <1>0, StopEffect
<1>2. Phase' = [Phase EXCEPT ![k] = PhaseOf(k)']
  BY <1>1, OthersKeepPhase DEF IInv
<1>3. Ticking' = Ticking \ {k}
  BY <1>1 DEF Ticking, Live
<1>4. CASE Live(k, s)
  <2>1. PhaseOf(k) = "live" /\ PhaseOf(k)' = "closing"
    BY <1>1, <1>4 DEF PhaseOf, Registered, Live
  <2>2. Lifecycle!Close(k)
    BY <1>2, <1>3, <2>1 DEF Lifecycle!Close, Lifecycle!Move, Phase, Ticking
  <2> QED BY <2>2
<1>5. CASE ~Live(k, s)
  <2>1. PhaseOf(k) = "dead" /\ PhaseOf(k)' = "stopped"
    BY <1>1, <1>5 DEF PhaseOf, Registered, Live
  <2>2. k \notin Ticking
    BY <1>1, <1>5 DEF Ticking, Live
  <2>3. Ticking' = Ticking
    BY <1>3, <2>2
  <2>4. Lifecycle!Clear(k)
    BY <1>2, <2>1, <2>3 DEF Lifecycle!Clear, Lifecycle!Move, Phase, Ticking
  <2> QED BY <2>4
<1> QED BY <1>4, <1>5

LEMMA LoopRefines ==
    ASSUME IInv, IInv', NEW k \in Keys, NEW s \in Slots, LoopStep(k, s)
    PROVE  \/ UNCHANGED <<Phase, Ticking>>
           \/ Lifecycle!Tick(k) \/ Lifecycle!EndTick(k) \/ Lifecycle!Die(k) \/ Lifecycle!Closed(k)
<1> USE DEF IInv
<1>1. Live(k, s) /\ tasks' = tasks
  BY DEF LoopStep, LoopWakes, TickReturns, TickTripsKillSwitch, TickRaises, CancelDelivered, Live
<1>2. \A j \in Keys, t \in Slots : j # k \/ t # s => loop'[j][t] = loop[j][t]
  BY DEF LoopStep, LoopWakes, TickReturns, TickTripsKillSwitch, TickRaises, CancelDelivered, TypeOK
<1>3. Phase' = [Phase EXCEPT ![k] = PhaseOf(k)']
  BY <1>1, <1>2, OthersKeepPhase
<1>4. \A t \in Slots : t # s => ~Live(k, t)
  <2>1. ASSUME NEW t \in Slots, t # s, Live(k, t) PROVE FALSE
    <3>1. CASE tasks[k] # None  BY <1>1, <2>1, <3>1 DEF NoOrphanLoop
    <3>2. CASE tasks[k] = None
      <4>1. PICK p \in Procs : pc[p] = "joining" /\ victim[p] = s
        BY <1>1, <3>2, ProcsAssumption DEF NoOrphanLoop
      <4>2. PICK q \in Procs : pc[q] = "joining" /\ victim[q] = t
        BY <2>1, <3>2, ProcsAssumption DEF NoOrphanLoop
      <4> QED BY <2>1, <4>1, <4>2, SoleHolder DEF InSection
    <3> QED BY <3>1, <3>2
  <2> QED BY <2>1
<1>5. Phase[k] = PhaseOf(k)
  BY DEF Phase
<1>6. CASE LoopWakes(k, s) \/ TickReturns(k, s) \/ TickTripsKillSwitch(k, s)
  <2>1. loop[k][s] \in {"new", "tick", "sleep"} /\ loop'[k][s] \in {"tick", "sleep"}
    BY <1>6 DEF LoopWakes, TickReturns, TickTripsKillSwitch, TypeOK
  <2>2. PhaseOf(k) = "live" /\ PhaseOf(k)' = "live"
    BY <1>1, <2>1, ProcsAssumption DEF NoOrphanLoop, PhaseOf, Registered, Live
  <2>3. Phase' = Phase
    BY <1>3, <2>2 DEF Phase
  <2>4. CASE loop'[k][s] = "tick"
    <3>1. Ticking' = Ticking \cup {k}
      BY <1>2, <2>4 DEF Ticking
    <3> QED BY <2>2, <2>3, <3>1, <1>5 DEF Lifecycle!Tick, Phase, Ticking
  <2>5. CASE loop'[k][s] = "sleep"
    <3>1. Ticking' = Ticking \ {k}
      BY <1>2, <1>4, <2>5 DEF Ticking, Live
    <3> QED BY <2>3, <3>1 DEF Lifecycle!EndTick, Phase, Ticking
  <2> QED BY <2>1, <2>4, <2>5
<1>7. CASE TickRaises(k, s)
  <2>1. loop[k][s] = "tick" /\ loop'[k][s] = "done"
    BY <1>7 DEF TickRaises, TypeOK
  <2>2. PhaseOf(k) = "live" /\ PhaseOf(k)' = "dead"
    BY <1>1, <2>1, ProcsAssumption DEF NoOrphanLoop, PhaseOf, Registered, Live
  <2>3. k \in Ticking /\ Ticking' = Ticking \ {k}
    BY <1>2, <1>4, <2>1 DEF Ticking, Live
  <2> QED BY <1>3, <1>5, <2>2, <2>3 DEF Lifecycle!Die, Lifecycle!Move, Phase, Ticking
<1>8. CASE CancelDelivered(k, s)
  <2>1. loop[k][s] \in {"stillborn", "cancelled"} /\ loop'[k][s] = "done"
    BY <1>8 DEF CancelDelivered, TypeOK
  <2>2. tasks[k] = None
    BY <1>1, <2>1 DEF NoOrphanLoop
  <2>3. PhaseOf(k) = "closing" /\ PhaseOf(k)' = "stopped"
    BY <1>1, <1>2, <1>4, <2>1, <2>2 DEF PhaseOf, Registered, Live
  <2>4. Ticking' = Ticking
    BY <1>2, <2>1 DEF Ticking
  <2> QED BY <1>3, <1>5, <2>3, <2>4 DEF Lifecycle!Closed, Lifecycle!Move, Phase, Ticking
<1> QED BY <1>6, <1>7, <1>8 DEF LoopStep

(* Every behaviour of the Supervisor is one of AgentLifecycle: each step moves *)
(* at most one agent along one arrow of its life cycle.                        *)
THEOREM SupervisorImplementsLifecycle == Spec => ImplementsLifecycle
<1>1. Init => Lifecycle!Init
  BY DEF Init, Lifecycle!Init, PhaseOf, Registered, Live
<1>2. ASSUME IInv, IInv', [Next]_vars PROVE [Lifecycle!Next]_(Lifecycle!vars)
  <2> USE <1>2
  <2>1. ASSUME NEW p \in Procs, StartReturns(p) PROVE Lifecycle!Next
    BY <2>1, StartRefines, StartEffect DEF Lifecycle!Next
  <2>2. ASSUME NEW p \in Procs, StopCancels(p) PROVE Lifecycle!Next
    <3>1. PICK k \in Keys : Lifecycle!Close(k) \/ Lifecycle!Clear(k)
      BY <2>2, StopRefines
    <3> QED BY <3>1 DEF Lifecycle!Next
  <2>3. ASSUME NEW k \in Keys, NEW s \in Slots, LoopStep(k, s)
        PROVE  Lifecycle!Next \/ UNCHANGED Lifecycle!vars
    BY <2>3, LoopRefines DEF Lifecycle!Next, Lifecycle!vars, Phase, Ticking
  <2>4. CASE UNCHANGED <<tasks, loop>>
    BY <2>4 DEF Lifecycle!vars, PhaseOf, Registered, Live
  <2> QED BY <2>1, <2>2, <2>3, <2>4, LoopChanges
<1> QED
  BY <1>1, <1>2, InductiveInvariant, PTL DEF Spec, ImplementsLifecycle, Lifecycle!Spec
=============================================================================
