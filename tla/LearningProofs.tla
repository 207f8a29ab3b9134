--------------------------- MODULE LearningProofs ---------------------------
(***************************************************************************)
(* Theorems about Learning, for any number of symbols and policies and any *)
(* clock, and about the rows of TrainingData, proved with TLAPS.           *)
(***************************************************************************)
EXTENDS Learning, TrainingData, SequenceTheorems, WellFoundedInduction, TLAPS

-----------------------------------------------------------------------------
(* The greatest element of a bounded set. *)

LEMMA LeastExists ==
    ASSUME NEW S \in SUBSET Nat, S # {}
    PROVE  \E n \in S : \A m \in S : n <= m
<1> DEFINE R == OpToRel(<, Nat)
<1>1. \A m, n \in Nat : <<m, n>> \in R <=> m < n
  BY DEF OpToRel
<1>2. PICK n \in S : \A m \in S : ~ (<<m, n>> \in R)
  <2> HIDE DEF R
  <2>1. IsWellFoundedOn(R, Nat)
    BY NatLessThanWellFounded DEF R
  <2> QED BY <2>1, WFMin
<1> HIDE DEF R
<1>3. \A m \in S : ~(m < n)
  BY <1>1, <1>2
<1> QED BY <1>3

LEMMA GreatestExists ==
    ASSUME NEW N \in Nat, NEW S \in SUBSET (0..N), S # {}
    PROVE  Greatest(S) \in S /\ \A m \in S : m <= Greatest(S)
<1>1. PICK gap \in {N - n : n \in S} : \A other \in {N - n : n \in S} : gap <= other
  <2>1. \A n \in S : N - n \in Nat
    OBVIOUS
  <2>2. PICK n \in S : TRUE
    OBVIOUS
  <2>3. N - n \in {N - m : m \in S}
    OBVIOUS
  <2>4. {N - m : m \in S} \in SUBSET Nat /\ {N - m : m \in S} # {}
    BY <2>1, <2>3
  <2> QED BY <2>4, LeastExists
<1>2. PICK n \in S : gap = N - n
  BY <1>1
<1>3. \A m \in S : m <= n
  BY <1>1, <1>2
<1> QED BY <1>3 DEF Greatest

-----------------------------------------------------------------------------
(* The invariant. *)

\* Who has stopped, and what is saved then: a stopped engine's task is cancelled and waited
\* for, and once it is gone the newest snapshot is what the engine knows.
Stopped ==
    /\ ~running /\ Live(training) => training.cancelled /\ stopping
    /\ stopping => ~running
    /\ training.cancelled => ~running
    /\ ~running /\ ~stopping /\ snapshot.taken =>
        snapshot.active = active /\ snapshot.cursor = cursor

\* A training that has yielded has just created the newest policy.
Created == training.state = "yielded" => policies # <<>>

\* Only promote and rollback give a policy another stage than shadow.
Staged == \A v \in Versions : policies[v].stage # "shadow" => policies[v].moved

IInv == TypeOK /\ Stopped /\ Created /\ Staged /\ NothingSkipped /\ PassedOver

LEMMA InitIInv == Init => IInv
<1> SUFFICES ASSUME Init PROVE IInv
  OBVIOUS
<1>1. policies \in Seq(Row) /\ Len(policies) = 0
  BY DEF Init
<1>2. 0 \in 0..SymbolCount /\ 0 \in 0..MaxClock /\ 0 \in 0..Len(policies)
  BY <1>1, LearningAssumption
<1>3. TypeOK
  <2>1. training \in [state : {"done", "ready", "yielded"}, at : 0..SymbolCount,
                      cancelled : BOOLEAN]
    BY <1>2 DEF Init, Done
  <2>2. snapshot \in [taken : BOOLEAN, active : 0..Len(policies), cursor : 0..MaxClock]
    BY <1>2 DEF Init, NoSnapshot
  <2> QED BY <1>1, <1>2, <2>1, <2>2 DEF Init, TypeOK
<1>4. Stopped /\ Created /\ Staged /\ NothingSkipped /\ PassedOver
  BY <1>1 DEF Init, Stopped, Created, Staged, NothingSkipped, PassedOver, Versions,
              Done, Live, NoSnapshot
<1> QED BY <1>3, <1>4 DEF IInv

LEMMA ReadyFacts ==
    /\ Ready.state = "ready" /\ Ready.cancelled = FALSE
    /\ Ready \in [state : {"done", "ready", "yielded"}, at : 0..SymbolCount,
                  cancelled : BOOLEAN]
BY LearningAssumption DEF Ready

LEMMA ScheduleFacts ==
    ASSUME TypeOK, NEW wanted \in BOOLEAN
    PROVE  /\ Schedule(wanted) \in {training, Ready}
           /\ Ready.state = "ready" /\ ~Ready.cancelled
           /\ training.state = "yielded" => Schedule(wanted) = training
           /\ Schedule(wanted) \in [state : {"done", "ready", "yielded"}, at : 0..SymbolCount,
                                    cancelled : BOOLEAN]
BY LearningAssumption DEF TypeOK, Schedule, Ready, Live

LEMMA LatestShadowFacts ==
    ASSUME TypeOK
    PROVE  /\ LatestShadow \in 0..Len(policies)
           /\ \A v \in Versions : policies[v].stage = "shadow" => v <= LatestShadow
           /\ LatestShadow # 0 => policies[LatestShadow].stage = "shadow"
<1> DEFINE shadows == {v \in Versions : policies[v].stage = "shadow"}
<1>1. Len(policies) \in Nat /\ shadows \in SUBSET (0..Len(policies)) /\ 0 \notin shadows
  BY DEF TypeOK, Versions
<1>2. CASE shadows = {}
  BY <1>1, <1>2 DEF LatestShadow
<1>3. CASE shadows # {}
  <2>1. Greatest(shadows) \in shadows /\ \A m \in shadows : m <= Greatest(shadows)
    BY <1>1, <1>3, GreatestExists
  <2>2. LatestShadow = Greatest(shadows)
    BY <1>3 DEF LatestShadow
  <2> HIDE DEF LatestShadow
  <2> QED BY <1>1, <2>1, <2>2
<1> QED BY <1>2, <1>3

LEMMA AdoptedFacts ==
    ASSUME TypeOK
    PROVE  /\ Adopted \in 0..Len(policies)
           /\ Adopted < active => policies[active].stage # "shadow"
<1>1. Adopted = active \/ Adopted = LatestShadow
  BY DEF Adopted
<1>2. active \in 0..Len(policies) /\ Len(policies) \in Nat
  BY DEF TypeOK
<1>3. Adopted \in 0..Len(policies)
  BY <1>1, <1>2, LatestShadowFacts
<1>4. ASSUME Adopted < active, policies[active].stage = "shadow" PROVE FALSE
  <2>1. Adopted = LatestShadow
    BY <1>1, <1>2, <1>4
  <2>2. active \in Versions
    BY <1>2, <1>3, <1>4 DEF Versions
  <2> QED BY <1>2, <1>3, <1>4, <2>1, <2>2, LatestShadowFacts
<1> QED BY <1>3, <1>4

\* What a training leaves behind a policy it did not adopt.
LEMMA NotOverlooked ==
    ASSUME IInv, NEW v \in Versions, v > Adopted
    PROVE  policies[v].moved \/ policies[v].cut
<1> USE DEF IInv
<1>1. Len(policies) \in Nat /\ v \in 1..Len(policies)
  BY DEF TypeOK, Versions
<1>2. CASE training.state = "yielded"
  <2>1. policies[v].stage # "shadow"
    <3> SUFFICES ASSUME policies[v].stage = "shadow" PROVE FALSE
      OBVIOUS
    <3>1. LatestShadow \in Nat /\ v <= LatestShadow
      BY <1>1, LatestShadowFacts
    <3>2. Adopted = LatestShadow
      BY <1>1, <1>2, <3>1 DEF Adopted
    <3> QED BY <1>1, <3>1, <3>2
  <2> QED BY <2>1 DEF Staged
<1>3. CASE training.state # "yielded"
  <2>1. Adopted = active
    BY <1>3 DEF Adopted
  <2> QED BY <1>3, <2>1 DEF PassedOver
<1> QED BY <1>2, <1>3

\* A training that goes on is one of a running engine.
LEMMA TrainingRuns ==
    ASSUME IInv, Runs
    PROVE  running /\ ~training.cancelled
BY DEF IInv, Stopped, Runs

LEMMA TrainSymbolKeeps ==
    ASSUME IInv, TrainSymbol
    PROVE  IInv'
<1> USE DEF IInv, TrainSymbol, Create
<1> DEFINE new == [stage |-> "shadow", moved |-> FALSE, cut |-> FALSE]
<1>1. PICK n \in Nat : n = Len(policies)
  BY DEF TypeOK
<1>2. /\ policies' \in Seq(Row) /\ Len(policies') = n + 1 /\ policies'[n + 1] = new
      /\ \A v \in 1..n : policies'[v] = policies[v]
  <2>1. new \in Row
    BY DEF Row
  <2> QED BY <1>1, <2>1 DEF TypeOK
<1>3. running /\ training'.state = "yielded" /\ ~training'.cancelled
      /\ training' \in [state : {"done", "ready", "yielded"}, at : 0..SymbolCount,
                        cancelled : BOOLEAN]
  BY TrainingRuns, LearningAssumption DEF Symbols
<1>4. active' = Adopted /\ Adopted \in 0..n /\ UNCHANGED <<running, stopping, snapshot, due,
                                                        cursor, waiting>>
  BY <1>1, AdoptedFacts DEF Runs, engine, feed
<1>5. TypeOK'
  BY <1>1, <1>2, <1>3, <1>4 DEF TypeOK
<1>6. Stopped' /\ Created' /\ NothingSkipped'
  BY <1>2, <1>3, <1>4 DEF Stopped, Created, NothingSkipped, Live
<1>7. Staged'
  BY <1>1, <1>2 DEF Staged, Versions
<1>8. PassedOver'
  <2> SUFFICES ASSUME NEW v \in 1..(n + 1), v > active'
               PROVE  \/ policies'[v].moved \/ policies'[v].cut
                      \/ v = n + 1 /\ training'.state = "yielded"
    BY <1>2 DEF PassedOver, Versions
  <2>1. CASE v \in 1..n
    BY <1>1, <1>2, <1>4, <2>1, NotOverlooked DEF Versions
  <2>2. CASE v = n + 1
    BY <1>3, <2>2
  <2>3. v \in 1..n \/ v = n + 1
    OBVIOUS
  <2> QED BY <2>1, <2>2, <2>3
<1> QED BY <1>5, <1>6, <1>7, <1>8

LEMMA TrainStopsKeeps ==
    ASSUME IInv, TrainEnds \/ TrainFails
    PROVE  IInv'
<1> USE DEF IInv
<1>1. Runs /\ training' = Done /\ policies' = policies /\ due' \in BOOLEAN
  BY DEF TrainEnds, TrainFails, TypeOK
<1>2. running /\ active' = Adopted /\ Adopted \in 0..Len(policies)
      /\ UNCHANGED <<running, stopping, snapshot, cursor, waiting>>
  BY <1>1, TrainingRuns, AdoptedFacts DEF Runs, engine, feed
<1>3. Done \in [state : {"done", "ready", "yielded"}, at : 0..SymbolCount,
                cancelled : BOOLEAN] /\ ~Live(Done) /\ ~Done.cancelled
      /\ Done.state # "yielded"
  BY LearningAssumption DEF Done, Live
<1>4. TypeOK'
  BY <1>1, <1>2, <1>3 DEF TypeOK
<1>5. Stopped' /\ Created' /\ Staged' /\ NothingSkipped'
  BY <1>1, <1>2, <1>3 DEF Stopped, Created, Staged, NothingSkipped, Versions, Live
<1>6. PassedOver'
  BY <1>1, <1>2, NotOverlooked DEF PassedOver, Versions
<1> QED BY <1>4, <1>5, <1>6

LEMMA CutRow ==
    ASSUME NEW row \in Row, NEW new, new = [row EXCEPT !.cut = TRUE]
    PROVE  new \in Row /\ new.stage = row.stage /\ new.moved = row.moved /\ new.cut
BY DEF Row

LEMMA MovedRow ==
    ASSUME NEW row \in Row, NEW stage \in {"shadow", "canary"},
           NEW new, new = [row EXCEPT !.stage = stage, !.moved = TRUE]
    PROVE  new \in Row /\ new.moved
BY DEF Row

LEMMA Replaced ==
    ASSUME NEW s \in Seq(Row), NEW v \in 1..Len(s), NEW row \in Row,
           NEW t, t = [s EXCEPT ![v] = row]
    PROVE  /\ t \in Seq(Row) /\ Len(t) = Len(s) /\ t[v] = row
           /\ \A w \in 1..Len(s) : w # v => t[w] = s[w]
OBVIOUS

LEMMA RowsReplaced ==
    ASSUME NEW v \in 1..Len(policies), NEW row \in Row, policies \in Seq(Row),
           policies' = [policies EXCEPT ![v] = row]
    PROVE  /\ policies' \in Seq(Row) /\ Len(policies') = Len(policies) /\ policies'[v] = row
           /\ \A w \in 1..Len(policies) : w # v => policies'[w] = policies[w]
BY Replaced

LEMMA CancelLandsKeeps ==
    ASSUME IInv, CancelLands
    PROVE  IInv'
<1> USE DEF IInv, CancelLands
<1>1. PICK n \in Nat : n = Len(policies)
  BY DEF TypeOK
<1>2. ~running /\ stopping /\ UNCHANGED <<running, stopping, snapshot, active, due, cursor, waiting>>
  BY DEF Stopped, engine, feed
<1>3. Done \in [state : {"done", "ready", "yielded"}, at : 0..SymbolCount,
                cancelled : BOOLEAN] /\ ~Live(Done) /\ ~Done.cancelled
      /\ Done.state # "yielded"
  BY LearningAssumption DEF Done, Live
<1>4. /\ policies' \in Seq(Row) /\ Len(policies') = n
      /\ \A v \in 1..n : /\ policies'[v].stage = policies[v].stage
                         /\ policies'[v].moved = policies[v].moved
                         /\ policies[v].cut => policies'[v].cut
      /\ training.state = "yielded" => policies'[n].cut
  <2>1. CASE training.state = "yielded"
    <3>1. n \in 1..n
      BY <1>1, <2>1 DEF Created, TypeOK
    <3>2. policies \in Seq(Row) /\ policies[n] \in Row
      BY <1>1, <3>1 DEF TypeOK
    <3>3. PICK row : row = [policies[n] EXCEPT !.cut = TRUE]
      OBVIOUS
    <3>4. /\ row \in Row /\ row.stage = policies[n].stage
          /\ row.moved = policies[n].moved /\ row.cut
      BY <3>2, <3>3, CutRow
    <3>5. policies' = [policies EXCEPT ![n] = row]
      BY <1>1, <2>1, <3>3
    <3>6. /\ policies' \in Seq(Row) /\ Len(policies') = n /\ policies'[n] = row
          /\ \A v \in 1..n : v # n => policies'[v] = policies[v]
      <4> HIDE DEF IInv, CancelLands
      <4> QED BY <1>1, <3>1, <3>2, <3>4, <3>5, RowsReplaced
    <3>7. ASSUME NEW v \in 1..n
          PROVE  /\ policies'[v].stage = policies[v].stage
                 /\ policies'[v].moved = policies[v].moved
                 /\ policies[v].cut => policies'[v].cut
      BY <3>4, <3>6
    <3> QED BY <3>4, <3>6, <3>7
  <2>2. CASE training.state # "yielded"
    BY <1>1, <2>2 DEF TypeOK
  <2> QED BY <2>1, <2>2
<1>5. TypeOK'
  BY <1>1, <1>2, <1>3, <1>4 DEF TypeOK
<1>6. Stopped' /\ Created' /\ NothingSkipped'
  BY <1>2, <1>3 DEF Stopped, Created, NothingSkipped, Live
<1>7. Staged' /\ PassedOver'
  BY <1>1, <1>2, <1>4 DEF Staged, PassedOver, Versions
<1> QED BY <1>5, <1>6, <1>7

LEMMA SetStageKeeps ==
    ASSUME IInv, NEW v \in Versions, NEW stage \in {"shadow", "canary"}, SetStage(v, stage)
    PROVE  IInv'
<1> USE DEF IInv, SetStage
<1>1. PICK n \in Nat : n = Len(policies) /\ v \in 1..n
  BY DEF TypeOK, Versions
<1>2. UNCHANGED <<running, stopping, training, snapshot, active, due, cursor, waiting>>
  BY DEF engine, feed
<1>3. /\ policies' \in Seq(Row) /\ Len(policies') = n
      /\ \A w \in 1..n : w # v => policies'[w] = policies[w]
      /\ policies'[v].moved
  <2>1. policies \in Seq(Row) /\ policies[v] \in Row
    BY <1>1 DEF TypeOK
  <2>2. PICK row : row = [policies[v] EXCEPT !.stage = stage, !.moved = TRUE]
    OBVIOUS
  <2>3. row \in Row /\ row.moved
    BY <2>1, <2>2, MovedRow
  <2>4. policies' = [policies EXCEPT ![v] = row]
    BY <2>2
  <2>5. /\ policies' \in Seq(Row) /\ Len(policies') = Len(policies) /\ policies'[v] = row
        /\ \A w \in 1..Len(policies) : w # v => policies'[w] = policies[w]
    <3> HIDE DEF IInv, SetStage
    <3> QED BY <1>1, <2>1, <2>3, <2>4, RowsReplaced
  <2> QED BY <1>1, <2>3, <2>5
<1>4. TypeOK'
  BY <1>1, <1>2, <1>3 DEF TypeOK
<1>5. Stopped' /\ NothingSkipped'
  BY <1>2 DEF Stopped, NothingSkipped, Live
<1>6. Created'
  BY <1>1, <1>2, <1>3 DEF Created
<1>7. Staged' /\ PassedOver'
  BY <1>1, <1>2, <1>3 DEF Staged, PassedOver, Versions
<1> QED BY <1>4, <1>5, <1>6, <1>7

\* Starting resumes what the engine knew when it stopped.
LEMMA ResumeFacts ==
    ASSUME IInv, Start
    PROVE  active' = active /\ cursor' = cursor /\ ~Live(training)
BY DEF IInv, Stopped, Start, Resume

LEMMA StartKeeps ==
    ASSUME IInv, Start
    PROVE  IInv'
<1>1. /\ running' = TRUE /\ stopping = FALSE /\ training' = Ready
      /\ UNCHANGED <<stopping, active, cursor, policies, due, waiting, snapshot>>
  BY ResumeFacts DEF IInv, TypeOK, Start, Schedule
<1> USE DEF IInv
<1>2. TypeOK'
  <2>1. training' \in [state : {"done", "ready", "yielded"}, at : 0..SymbolCount,
                       cancelled : BOOLEAN]
    BY <1>1, ReadyFacts
  <2> QED BY <1>1, <2>1 DEF TypeOK
<1>3. Stopped'
  BY <1>1, ReadyFacts DEF Stopped
<1>5. Created' /\ Staged' /\ NothingSkipped'
  BY <1>1, ReadyFacts DEF Created, Staged, NothingSkipped, Versions
<1>4. PassedOver'
  BY <1>1, ResumeFacts DEF PassedOver, Versions, Live
<1> QED BY <1>2, <1>3, <1>4, <1>5

LEMMA SavedType ==
    ASSUME TypeOK
    PROVE  Saved(active, cursor) \in
               [taken : BOOLEAN, active : 0..Len(policies), cursor : 0..MaxClock]
BY DEF TypeOK, Saved

LEMMA StopBeginsKeeps ==
    ASSUME IInv, StopBegins
    PROVE  IInv'
<1> USE DEF IInv, StopBegins
<1>1. training' \in [state : {"done", "ready", "yielded"}, at : 0..SymbolCount,
                     cancelled : BOOLEAN] /\ training'.state = training.state
  BY DEF TypeOK
<1>2. TypeOK'
  BY <1>1, SavedType DEF TypeOK, feed, Live
<1>3. Stopped'
  BY DEF TypeOK, Stopped, Live, Saved, feed
<1>4. Created' /\ Staged' /\ NothingSkipped' /\ PassedOver'
  BY <1>1 DEF Created, Staged, NothingSkipped, PassedOver, Versions, feed
<1> QED BY <1>2, <1>3, <1>4

LEMMA StopEndsKeeps ==
    ASSUME IInv, StopEnds
    PROVE  IInv'
<1> USE DEF IInv, StopEnds
<1>1. TypeOK'
  BY SavedType DEF TypeOK, feed
<1>2. Stopped'
  BY DEF Stopped, Live, Saved, feed
<1>3. Created' /\ Staged' /\ NothingSkipped' /\ PassedOver'
  BY DEF Created, Staged, NothingSkipped, PassedOver, Versions, feed
<1> QED BY <1>1, <1>2, <1>3

LEMMA RefreshFacts ==
    ASSUME IInv, Refresh
    PROVE  cursor' \in 0..MaxClock /\ waiting' = {}
<1>1. cursor \in 0..MaxClock /\ waiting \subseteq 1..MaxClock
  BY DEF IInv, TypeOK
<1>2. Fresh = waiting
  BY DEF Fresh, IInv, NothingSkipped
<1>3. PICK S : S = {cursor} \cup Fresh
  OBVIOUS
<1>4. S \in SUBSET (0..MaxClock) /\ S # {}
  BY <1>1, <1>2, <1>3, LearningAssumption
<1>5. Greatest(S) \in 0..MaxClock
  BY <1>4, LearningAssumption, GreatestExists
<1> QED BY <1>2, <1>3, <1>5 DEF Refresh

LEMMA TickKeeps ==
    ASSUME IInv, Tick \/ TickFails
    PROVE  IInv'
<1> USE DEF IInv
<1>1. Refresh /\ running /\ ~stopping /\ UNCHANGED <<running, stopping, policies, active, due>>
  BY DEF Tick, TickFails, Refresh
<1>2. cursor' \in 0..MaxClock /\ waiting' = {}
  BY <1>1, RefreshFacts
<1>3. training' \in {training, Ready} /\ (training.state = "yielded" => training' = training)
      /\ training' \in [state : {"done", "ready", "yielded"}, at : 0..SymbolCount,
                        cancelled : BOOLEAN]
  BY ScheduleFacts DEF Tick, TickFails, TypeOK
<1>4. Ready.state = "ready" /\ ~Ready.cancelled /\ ~training.cancelled
  BY <1>1 DEF Ready, Stopped, TypeOK
<1>5. snapshot' \in [taken : BOOLEAN, active : 0..Len(policies), cursor : 0..MaxClock]
  <2>1. Saved(active, cursor') \in
            [taken : BOOLEAN, active : 0..Len(policies), cursor : 0..MaxClock]
    BY <1>2 DEF TypeOK, Saved
  <2>2. snapshot' \in {snapshot, Saved(active, cursor')}
    BY DEF Tick, TickFails
  <2> QED BY <2>1, <2>2 DEF TypeOK
<1>6. TypeOK'
  BY <1>1, <1>2, <1>3, <1>5 DEF TypeOK
<1>7. Stopped' /\ Created' /\ Staged' /\ NothingSkipped' /\ PassedOver'
  BY <1>1, <1>2, <1>3, <1>4 DEF Stopped, Created, Staged, NothingSkipped, PassedOver,
                                 Versions, Live
<1> QED BY <1>6, <1>7

LEMMA WorldKeeps ==
    ASSUME IInv, IntervalPasses \/ (\E now \in 1..MaxClock : AddEvent(now))
    PROVE  IInv'
<1> USE DEF IInv
<1>1. UNCHANGED <<running, stopping, training, policies, active, cursor, snapshot>>
      /\ due' \in BOOLEAN
  BY DEF IntervalPasses, AddEvent, engine, feed, TypeOK
<1>2. waiting' \in SUBSET (1..MaxClock) /\ \A ts \in waiting' : ts > cursor
  BY DEF IntervalPasses, AddEvent, feed, TypeOK, NothingSkipped
<1>3. TypeOK'
  BY <1>1, <1>2 DEF TypeOK
<1>4. Stopped' /\ Created' /\ Staged' /\ NothingSkipped' /\ PassedOver'
  BY <1>1, <1>2 DEF Stopped, Created, Staged, NothingSkipped, PassedOver, Versions, Live
<1> QED BY <1>3, <1>4

LEMMA StepIInv ==
    ASSUME IInv, [Next]_vars
    PROVE  IInv'
<1>1. CASE UNCHANGED vars
  BY <1>1 DEF vars, IInv, TypeOK, Stopped, Created, Staged, NothingSkipped, PassedOver,
              Versions, Live
<1>2. CASE Train
  BY <1>2, TrainSymbolKeeps, TrainStopsKeeps DEF Train
<1>3. CASE CancelLands
  BY <1>3, CancelLandsKeeps
<1>4. CASE Start \/ StopBegins \/ StopEnds
  BY <1>4, StartKeeps, StopBeginsKeeps, StopEndsKeeps
<1>5. CASE Tick \/ TickFails
  BY <1>5, TickKeeps
<1>6. CASE Rollback
  <2>1. Len(policies) \in Versions
    BY <1>6 DEF Rollback, Versions, IInv, TypeOK
  <2> QED BY <1>6, <2>1, SetStageKeeps DEF Rollback
<1>7. ASSUME NEW v \in Versions, Promote(v) PROVE IInv'
  BY <1>7, SetStageKeeps DEF Promote
<1>8. CASE IntervalPasses \/ \E ts \in 1..MaxClock : AddEvent(ts)
  BY <1>8, WorldKeeps
<1> QED BY <1>1, <1>2, <1>3, <1>4, <1>5, <1>6, <1>7, <1>8 DEF Next

LEMMA Invariant == Spec => []IInv
BY InitIInv, StepIInv, PTL DEF Spec

\* Every variable has its type.
THEOREM TypeCorrect == Spec => []TypeOK
BY Invariant, PTL DEF IInv

\* The engine overlooks no policy but one that was given a stage by hand, whose training a
\* stop cut short, or that is being trained (learning_engine.py:171-178).
THEOREM NonePassedOver == Spec => []PassedOver
BY Invariant, PTL DEF IInv

\* No event that was stamped after the cursor is behind it before it was cached
\* (hourly_refresh.py:10-28).
THEOREM NoEventSkipped == Spec => []NothingSkipped
BY Invariant, PTL DEF IInv

-----------------------------------------------------------------------------
(* What a step may never do. *)

\* What leaves the active policy alone, the cursor, and the number of policies.
LEMMA Bystanders ==
    ASSUME IInv,
           \/ CancelLands \/ StopBegins \/ StopEnds \/ Rollback \/ IntervalPasses
           \/ (\E v \in Versions : Promote(v)) \/ (\E ts \in 1..MaxClock : AddEvent(ts))
           \/ UNCHANGED vars
    PROVE  active' = active /\ cursor' = cursor /\ Len(policies') = Len(policies)
<1>1. ASSUME NEW v, NEW stage, SetStage(v, stage)
      PROVE  active' = active /\ cursor' = cursor /\ Len(policies') = Len(policies)
  BY <1>1 DEF SetStage, feed, IInv, TypeOK
<1>2. CASE CancelLands
  BY <1>2 DEF CancelLands, feed, IInv, TypeOK
<1>3. CASE StopBegins \/ StopEnds \/ IntervalPasses \/ \E ts \in 1..MaxClock : AddEvent(ts)
  BY <1>3 DEF StopBegins, StopEnds, IntervalPasses, AddEvent, feed, IInv
<1>4. CASE Rollback \/ \E v \in Versions : Promote(v)
  BY <1>1, <1>4 DEF Rollback, Promote
<1> QED BY <1>2, <1>3, <1>4 DEF vars

\* The active version goes back only when its policy has left stage shadow
\* (learning_engine.py:175-178).
THEOREM NoFallBackFromShadow == Spec => FallsBackOnlyAfterPromotion
<1>1. ASSUME IInv, [Next]_vars
      PROVE  [active' < active => policies[active].stage # "shadow"]_vars
  <2> SUFFICES ASSUME active' < active PROVE policies[active].stage # "shadow"
    OBVIOUS
  <2>1. active' # active
    BY <1>1 DEF IInv, TypeOK
  <2>2. Train \/ Start \/ Tick \/ TickFails
    BY <1>1, <2>1, Bystanders DEF Next
  <2>3. CASE Train
    BY <1>1, <2>3, AdoptedFacts DEF Train, TrainSymbol, TrainEnds, TrainFails, Runs, IInv
  <2>4. CASE Start
    BY <1>1, <2>1, <2>4, ResumeFacts
  <2>5. CASE Tick \/ TickFails
    BY <2>1, <2>5 DEF Tick, TickFails, Refresh
  <2> QED BY <2>2, <2>3, <2>4, <2>5
<1> QED BY <1>1, Invariant, PTL DEF Spec, FallsBackOnlyAfterPromotion

\* While the engine is stopped, and by the start that ends it, what it has learned stays as
\* it is (learning_engine.py:67-94).
THEOREM FrozenWhileStopped == Spec => StoppedIsFrozen
<1>1. ASSUME IInv, [Next]_vars
      PROVE  [~running => active' = active /\ cursor' = cursor
                          /\ Len(policies') = Len(policies)]_vars
  <2> SUFFICES ASSUME ~running
               PROVE  active' = active /\ cursor' = cursor /\ Len(policies') = Len(policies)
    OBVIOUS
  <2>1. ~Train
    BY <1>1, TrainingRuns DEF Train, TrainSymbol, TrainEnds, TrainFails
  <2>2. ~Tick /\ ~TickFails
    BY DEF Tick, TickFails, Refresh
  <2>3. CASE Start
    BY <1>1, <2>3, ResumeFacts DEF Start
  <2> QED BY <1>1, <2>1, <2>2, <2>3, Bystanders DEF Next
<1> QED BY <1>1, Invariant, PTL DEF Spec, StoppedIsFrozen

-----------------------------------------------------------------------------
(* The rows a policy is trained and judged on *)

LEMMA CutoffWithin ==
    ASSUME NEW n \in Nat \ {0}, NEW pct \in 0..100
    PROVE  Cutoff(n, pct) \in 1..n
<1>1. PICK p \in Nat : p = n * pct
  OBVIOUS
<1>2. p <= n * 100
  <2>1. n * pct <= n * 100
    OBVIOUS
  <2> QED BY <1>1, <2>1
<1>3. p \div 100 \in Nat /\ p \div 100 <= n
  BY <1>1, <1>2
<1> QED BY <1>1, <1>3 DEF Cutoff, Larger

\* No row is lost by the split, and a model is tested on rows that come after all those it
\* was trained on; when the fraction leaves nothing to test on, and only then, it is tested
\* on the last row it was trained on (learning/features/offline.py:76-84).
THEOREM SplitKeepsTime ==
    ASSUME NEW S, NEW rows \in Seq(S), rows # <<>>, NEW pct \in 0..100
    PROVE  /\ TrainRows(rows, pct) # <<>> /\ TestRows(rows, pct) # <<>>
           /\ \/ /\ Cutoff(Len(rows), pct) < Len(rows)
                 /\ TrainRows(rows, pct) \o TestRows(rows, pct) = rows
              \/ /\ Cutoff(Len(rows), pct) = Len(rows)
                 /\ TrainRows(rows, pct) = rows
                 /\ TestRows(rows, pct) = <<rows[Len(rows)]>>
<1>1. PICK n \in Nat : n = Len(rows) /\ n # 0 /\ rows \in [1..n -> S]
  BY EmptySeq, LenProperties
<1>2. PICK cut \in 1..n : cut = Cutoff(n, pct)
  <2>1. n \in Nat \ {0}
    BY <1>1
  <2> QED BY <2>1, CutoffWithin
<1>3. PICK train : train = TrainRows(rows, pct)
  OBVIOUS
<1>4. PICK test : test = TestRows(rows, pct)
  OBVIOUS
<1>5. train = [i \in 1..cut |-> rows[i]]
  BY <1>1, <1>2, <1>3 DEF TrainRows
<1>6. train \in Seq(S) /\ Len(train) = cut /\ train # <<>>
  BY <1>1, <1>2, <1>5
<1>7. CASE cut < n
  <2>1. test = [i \in 1..(n - cut) |-> rows[cut + i]]
    BY <1>1, <1>2, <1>4, <1>7 DEF TestRows
  <2>2. test \in Seq(S) /\ Len(test) = n - cut /\ test # <<>>
    <3>1. PICK k \in Nat : k = n - cut /\ k # 0
      BY <1>1, <1>2, <1>7
    <3>2. \A i \in 1..k : cut + i \in 1..n
      BY <1>1, <1>2, <3>1
    <3>3. test = [i \in 1..k |-> rows[cut + i]]
      BY <2>1, <3>1
    <3>4. \A i \in 1..k : rows[cut + i] \in S
      BY <1>1, <3>2
    <3>5. test \in [1..k -> S]
      BY <3>3, <3>4
    <3>6. Len(test) = k
      BY <3>1, <3>3
    <3> QED BY <3>1, <3>5, <3>6, SeqDef, EmptySeq
  <2>3. train \o test = rows
    <3>1. Len(train \o test) = n /\ train \o test \in Seq(S)
      <4>1. Len(train \o test) = Len(train) + Len(test) /\ train \o test \in Seq(S)
        BY <1>6, <2>2, ConcatProperties
      <4>2. cut + (n - cut) = n
        BY <1>1, <1>2
      <4> QED BY <1>6, <2>2, <4>1, <4>2
    <3>2. ASSUME NEW i \in 1..n PROVE (train \o test)[i] = rows[i]
      BY <1>1, <1>2, <1>5, <1>6, <2>1, <2>2, ConcatProperties, SMTT(30)
    <3> QED BY <1>1, <3>1, <3>2, SeqEqual
  <2> QED BY <1>1, <1>2, <1>3, <1>4, <1>6, <1>7, <2>2, <2>3
<1>8. CASE cut = n
  <2>1. train = rows
    BY <1>1, <1>5, <1>8
  <2>2. test = <<rows[n]>>
    <3>1. test = SubSeq(rows, n, n)
      BY <1>1, <1>2, <1>4, <1>8 DEF TestRows
    <3>2. rows[n] \in S
      BY <1>1
    <3>3. /\ SubSeq(rows, n, n) \in Seq(S) /\ Len(SubSeq(rows, n, n)) = 1
          /\ SubSeq(rows, n, n)[1] = rows[n]
      BY <1>1, <3>2, SubSeqProperties
    <3>4. <<rows[n]>> \in Seq(S) /\ Len(<<rows[n]>>) = 1 /\ <<rows[n]>>[1] = rows[n]
      BY <3>2
    <3>5. SubSeq(rows, n, n) = <<rows[n]>>
      <4>1. PICK one : one = <<rows[n]>>
        OBVIOUS
      <4>2. PICK other : other = SubSeq(rows, n, n)
        OBVIOUS
      <4>3. \A i \in 1..Len(other) : other[i] = one[i]
        BY <3>3, <3>4, <4>1, <4>2
      <4>4. other = one
        BY <3>3, <3>4, <4>1, <4>2, <4>3, SeqEqual
      <4> QED BY <4>1, <4>2, <4>4
    <3> QED BY <3>1, <3>5
  <2> QED BY <1>1, <1>2, <1>3, <1>4, <1>6, <1>8, <2>1, <2>2
<1> QED BY <1>2, <1>7, <1>8

\* Neither a return nor a window of returns sees the prices after its own.
LEMMA ReturnsStay ==
    ASSUME NEW prices \in Seq(Int), NEW next \in Int, NEW i \in 1..Len(prices)
    PROVE  /\ Len(Append(prices, next)) = Len(prices) + 1
           /\ Returns(Append(prices, next))[i] = Returns(prices)[i]
<1>1. PICK n \in Nat : n = Len(prices) /\ prices \in [1..n -> Int]
  BY LenProperties
<1>2. PICK more : more = Append(prices, next)
  OBVIOUS
<1>3. Len(more) = n + 1 /\ \A j \in 1..n : more[j] = prices[j]
  BY <1>1, <1>2, AppendProperties
<1>4. i \in 1..n /\ i \in 1..(n + 1) /\ (i # 1 => i - 1 \in 1..n)
  BY <1>1
<1>5. Returns(more)[i] = IF i = 1 THEN 0 ELSE Change(more[i - 1], more[i])
  BY <1>3, <1>4 DEF Returns
<1>6. Returns(prices)[i] = IF i = 1 THEN 0 ELSE Change(prices[i - 1], prices[i])
  BY <1>1, <1>4 DEF Returns
<1> QED BY <1>1, <1>2, <1>3, <1>4, <1>5, <1>6

LEMMA RollingStays ==
    ASSUME NEW prices \in Seq(Int), NEW next \in Int, NEW i \in 1..Len(prices),
           NEW width \in Nat
    PROVE  Rolling(Returns(Append(prices, next)), i, width) = Rolling(Returns(prices), i, width)
<1>1. PICK n \in Nat : n = Len(prices) /\ i \in 1..n
  BY LenProperties
<1>2. PICK old : old = Returns(prices)
  OBVIOUS
<1>3. PICK new : new = Returns(Append(prices, next))
  OBVIOUS
<1>4. \A j \in 1..n : new[j] = old[j]
  BY <1>1, <1>2, <1>3, ReturnsStay
<1>5. PICK from \in Int : from = Larger(1, i - width + 1) /\ from >= 1
  <2>1. PICK a \in Int : a = i - width + 1
    BY <1>1
  <2>2. Larger(1, a) \in Int /\ Larger(1, a) >= 1
    BY DEF Larger
  <2> QED BY <2>1, <2>2
<1>6. SubSeq(new, from, i) = SubSeq(old, from, i)
  <2>1. PICK S : S = {new[j] : j \in 1..n}
    OBVIOUS
  <2>2. ASSUME NEW j \in from..i PROVE j \in 1..n /\ new[j] \in S /\ old[j] \in S
    BY <1>1, <1>4, <1>5, <2>1
  <2>3. PICK a : a = SubSeq(new, from, i)
    OBVIOUS
  <2>4. PICK b : b = SubSeq(old, from, i)
    OBVIOUS
  <2>5. i \in Int
    BY <1>1
  <2>6. /\ a \in Seq(S) /\ Len(a) = IF from <= i THEN i - from + 1 ELSE 0
        /\ \A j \in 1..(i - from + 1) : a[j] = new[from + j - 1]
    BY <2>2, <2>3, <2>5, SubSeqProperties
  <2>7. /\ b \in Seq(S) /\ Len(b) = IF from <= i THEN i - from + 1 ELSE 0
        /\ \A j \in 1..(i - from + 1) : b[j] = old[from + j - 1]
    BY <2>2, <2>4, <2>5, SubSeqProperties
  <2>8. ASSUME NEW j \in 1..Len(a) PROVE a[j] = b[j]
    <3>1. PICK k \in from..i : k = from + j - 1 /\ j \in 1..(i - from + 1)
      BY <1>1, <1>5, <2>6, SMTT(30)
    <3> QED BY <1>4, <2>2, <2>6, <2>7, <3>1
  <2>9. Len(a) = Len(b)
    BY <2>6, <2>7
  <2>10. a = b
    BY <2>6, <2>7, <2>8, <2>9, SeqEqual
  <2> QED BY <2>3, <2>4, <2>10
<1> QED BY <1>2, <1>3, <1>5, <1>6 DEF Rolling

\* What a row says of the past is final: one more snapshot leaves every row as it was, but
\* for the forward return and the label, and these only in the last of them.  So no other
\* column lets a model see what it is to foretell (learning/features/offline.py:36-73).
THEOREM RowsOfThePastStay ==
    ASSUME NEW prices \in Seq(Int), NEW next \in Int, NEW i \in 1..Len(prices)
    PROVE  LET before == Dataset(prices)[i]
               after == Dataset(Append(prices, next))[i]
           IN /\ after.price = before.price /\ after.return = before.return
              /\ after.rolling_return = before.rolling_return
              /\ i # Len(prices) => after = before
<1>1. PICK n \in Nat : n = Len(prices) /\ i \in 1..n
  BY LenProperties
<1>2. PICK more : more = Append(prices, next)
  OBVIOUS
<1>3. Len(more) = n + 1 /\ \A j \in 1..n : more[j] = prices[j]
  BY <1>1, <1>2, AppendProperties
<1>4. Returns(more)[i] = Returns(prices)[i]
  BY <1>2, ReturnsStay
<1>5. Mean(Rolling(Returns(more), i, 5)) = Mean(Rolling(Returns(prices), i, 5))
  BY <1>2, RollingStays
<1>6. Dataset(prices)[i] =
        [price |-> prices[i], return |-> Returns(prices)[i],
         rolling_return |-> Mean(Rolling(Returns(prices), i, 5)),
         forward_return |-> Forward(prices, i), label |-> Forward(prices, i) > 0]
  BY <1>1 DEF Dataset
<1>7. Dataset(more)[i] =
        [price |-> more[i], return |-> Returns(more)[i],
         rolling_return |-> Mean(Rolling(Returns(more), i, 5)),
         forward_return |-> Forward(more, i), label |-> Forward(more, i) > 0]
  <2>1. i \in 1..(n + 1)
    BY <1>1
  <2> QED BY <1>3, <2>1 DEF Dataset
<1>8. more[i] = prices[i]
  BY <1>1, <1>3
<1>9. i # n => Forward(more, i) = Forward(prices, i)
  <2> SUFFICES ASSUME i # n PROVE Forward(more, i) = Forward(prices, i)
    OBVIOUS
  <2>1. i + 1 \in 1..n /\ i < n /\ i < n + 1
    BY <1>1
  <2> QED BY <1>1, <1>3, <1>8, <2>1 DEF Forward
<1>10. /\ Dataset(more)[i].price = Dataset(prices)[i].price
       /\ Dataset(more)[i].return = Dataset(prices)[i].return
       /\ Dataset(more)[i].rolling_return = Dataset(prices)[i].rolling_return
  BY <1>4, <1>5, <1>6, <1>7, <1>8
<1>11. i # n => Dataset(more)[i] = Dataset(prices)[i]
  BY <1>4, <1>5, <1>6, <1>7, <1>8, <1>9
<1> QED BY <1>1, <1>2, <1>10, <1>11
=============================================================================
