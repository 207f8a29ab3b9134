------------------------------ MODULE Learning ------------------------------
(***************************************************************************)
(* The learning engine (ai/learning_engine.py) over the store of           *)
(* learning/: each tick caches the features of new market events and       *)
(* advises on them, a background task trains a policy per symbol and       *)
(* adopts the newest one in stage shadow, and the learning API promotes.   *)
(*                                                                         *)
(* The store is a list per table in the process (sqlmodel/__init__.py), so *)
(* every call is atomic; the only suspension points are the `sleep(0)` at  *)
(* the end of run_nightly and stop()'s wait for the cancelled task.        *)
(* start(), stop() and the ticks of an agent exclude each other (module    *)
(* Supervisor); the learning API runs between any two steps.  Ids and      *)
(* versions of policies coincide: both count the rows.                     *)
(***************************************************************************)
EXTENDS Naturals, Sequences

CONSTANTS SymbolCount,            \* symbols of the engine, trained in this order
          MaxPolicies, MaxClock   \* bounds of the model

ASSUME LearningAssumption ==
    SymbolCount \in Nat \ {0} /\ MaxPolicies \in Nat /\ MaxClock \in Nat

VARIABLES
    running,    \* self.running
    stopping,   \* stop() waits for the task it cancelled
    training,   \* self.training_task: where it is suspended, and at which symbol
    policies,   \* the Policy table, by version
    active,     \* state.active_policy_version, 0 for None
    due,        \* train_interval has elapsed since state.last_train_ts
    cursor,     \* state.last_event_ts
    waiting,    \* stamps of the market events that came after the cursor, not yet cached
    snapshot    \* the newest row of LearningSnapshot

vars == <<running, stopping, training, policies, active, due, cursor, waiting, snapshot>>
engine == <<running, stopping, snapshot>>
feed == <<cursor, waiting>>

Symbols == 1..SymbolCount
Versions == 1..Len(policies)
Done == [state |-> "done", at |-> 0, cancelled |-> FALSE]
Ready == [state |-> "ready", at |-> 0, cancelled |-> FALSE]
NoSnapshot == [taken |-> FALSE, active |-> 0, cursor |-> 0]

\* "canary" is any stage but shadow.  moved: the policy was given a stage by promote or
\* rollback; cut: its training was cancelled before the engine looked it up.
Row == [stage : {"shadow", "canary"}, moved : BOOLEAN, cut : BOOLEAN]

TypeOK ==
    /\ running \in BOOLEAN /\ stopping \in BOOLEAN /\ due \in BOOLEAN
    /\ training \in [state : {"done", "ready", "yielded"}, at : 0..SymbolCount,
                     cancelled : BOOLEAN]
    /\ policies \in Seq(Row) /\ active \in 0..Len(policies)
    /\ cursor \in 0..MaxClock /\ waiting \in SUBSET (1..MaxClock)
    /\ snapshot \in [taken : BOOLEAN, active : 0..Len(policies), cursor : 0..MaxClock]

Init ==
    /\ running = FALSE /\ stopping = FALSE /\ training = Done
    /\ policies = <<>> /\ active = 0 /\ due = TRUE
    /\ cursor = 0 /\ waiting = {} /\ snapshot = NoSnapshot

Live(t) == t.state # "done"
Greatest(S) == CHOOSE n \in S : \A m \in S : m <= n

-----------------------------------------------------------------------------
(* The policy registry and the learning API's promotion.                   *)

\* latest_policy(engine, "shadow"), 0 for None.
LatestShadow ==
    LET shadows == {v \in Versions : policies[v].stage = "shadow"}
    IN IF shadows = {} THEN 0 ELSE Greatest(shadows)

\* The metrics run_nightly records, and names a caller's thresholds may carry.  A recorded
\* metric is compared only when its name starts or ends with min or max (or ends with
\* pct); the limit is the caller's, so either outcome is possible.
Recorded == {"accuracy", "sharpe", "max_drawdown", "win_rate"}
Named == {"max_drawdown", "sharpe", "sharpe_min"}
Asked == SUBSET Named
CanPromote(thresholds) == thresholds \subseteq Recorded

SetStage(v, stage) ==
    /\ policies' = [policies EXCEPT ![v].stage = stage, ![v].moved = TRUE]
    /\ UNCHANGED <<engine, training, active, due, feed>>

\* promote(): the newest policy only, and only if it passes the caller's thresholds.
Promote(v) ==
    /\ v = Len(policies)
    /\ \E thresholds \in Asked : CanPromote(thresholds)
    /\ SetStage(v, "canary")

\* rollback(), offered beside promote() though no route calls it: the newest policy goes
\* back to shadow, whatever its stage.
Rollback == policies # <<>> /\ SetStage(Len(policies), "shadow")

-----------------------------------------------------------------------------
(* The training task: from one suspension point to the next.               *)

\* Seeded faults: the version after the newest one; the oldest policy in shadow.
AdoptedOldest ==
    LET shadows == {v \in Versions : policies[v].stage = "shadow"}
    IN IF training.state = "yielded" /\ shadows # {}
       THEN CHOOSE v \in shadows : \A w \in shadows : v <= w ELSE active

\* What the engine takes for its policy when run_nightly returns with one created: the
\* newest policy in shadow now, which need not be the one created.
Adopted ==
    IF training.state = "yielded" /\ LatestShadow # 0 THEN LatestShadow ELSE active

Runs ==
    /\ Live(training) /\ ~training.cancelled
    /\ active' = Adopted
    /\ UNCHANGED <<engine, feed>>

\* create_policy
Create ==
    policies' = Append(policies, [stage |-> "shadow", moved |-> FALSE, cut |-> FALSE])

\* The next symbol with market data gets a policy; those between have none and are passed
\* over at once (which symbols have data is left open).
TrainSymbol ==
    /\ Runs /\ Len(policies) < MaxPolicies
    /\ \E s \in Symbols : s > training.at
                          /\ training' = [state |-> "yielded", at |-> s, cancelled |-> FALSE]
    /\ Create
    /\ UNCHANGED due

TrainEnds ==
    /\ Runs /\ training' = Done
    /\ due' = FALSE /\ UNCHANGED policies

\* train_classifier raises (predict_proba overflows on unscaled prices when most labels are
\* 0): last_train_ts is left alone, so that the next tick trains again.
TrainFails ==
    /\ Runs /\ training.at < SymbolCount /\ training' = Done
    /\ UNCHANGED <<policies, due>>

\* The cancellation ends the task at its suspension point, or before its first step.
CancelLands ==
    /\ Live(training) /\ training.cancelled
    /\ training' = Done
    /\ policies' = IF training.state = "yielded"
                   THEN [policies EXCEPT ![Len(policies)].cut = TRUE] ELSE policies
    /\ UNCHANGED <<engine, active, due, feed>>

-----------------------------------------------------------------------------
(* start() and stop().                                                     *)

\* Seeded fault: a finished task still takes the place of the next one.
ScheduleOnce(wanted) ==
    IF wanted /\ ~Live(training) /\ policies = <<>> THEN Ready ELSE training

Schedule(wanted) == IF wanted /\ ~Live(training) THEN Ready ELSE training
Saved(a, c) == [taken |-> TRUE, active |-> a, cursor |-> c]

\* Seeded fault: a start does not read the snapshot but begins anew.
StartAnew ==
    /\ ~running /\ ~stopping
    /\ running' = TRUE /\ active' = 0 /\ training' = Schedule(TRUE)
    /\ UNCHANGED <<stopping, policies, due, feed, snapshot>>

\* load_snapshot
Resume ==
    IF snapshot.taken THEN active' = snapshot.active /\ cursor' = snapshot.cursor
                      ELSE UNCHANGED <<active, cursor>>

Start ==
    /\ ~running /\ ~stopping
    /\ running' = TRUE
    /\ Resume
    /\ training' = Schedule(TRUE)
    /\ UNCHANGED <<stopping, policies, due, waiting, snapshot>>

\* Seeded fault: stop() neither cancels the training nor waits for it.
StopLeavesTask ==
    /\ ~stopping /\ running' = FALSE
    /\ snapshot' = Saved(active, cursor)
    /\ UNCHANGED <<stopping, training, policies, active, due, feed>>

StopBegins ==
    /\ ~stopping
    /\ running' = FALSE /\ stopping' = Live(training)
    /\ IF Live(training)
       THEN training' = [training EXCEPT !.cancelled = TRUE] /\ UNCHANGED snapshot
       ELSE snapshot' = Saved(active, cursor) /\ UNCHANGED training
    /\ UNCHANGED <<policies, active, due, feed>>

StopEnds ==
    /\ stopping /\ ~Live(training)
    /\ stopping' = FALSE
    /\ snapshot' = Saved(active, cursor)
    /\ UNCHANGED <<running, training, policies, active, due, feed>>

-----------------------------------------------------------------------------
(* on_tick(): cache the new events, emit advice, schedule a training.      *)

\* list_events_since: only what is stamped after the cursor.  Events without a symbol are
\* passed over and do not move the cursor; they are left out.
Fresh == {ts \in waiting : ts > cursor}

\* Seeded fault: the cursor moves before the events are cached.
RefreshCursorOnly ==
    /\ running /\ ~stopping
    /\ cursor' = Greatest({cursor} \cup Fresh)
    /\ UNCHANGED <<running, stopping, waiting, policies, active, due>>

Refresh ==
    /\ running /\ ~stopping
    /\ cursor' = Greatest({cursor} \cup Fresh)
    /\ waiting' = waiting \ Fresh
    /\ UNCHANGED <<running, stopping, policies, active, due>>

\* Every snapshot_interval-th tick is saved; which one it is, is left open.
Tick ==
    /\ Refresh
    /\ training' = Schedule(due)
    /\ snapshot' \in {snapshot, Saved(active, cursor')}

\* Redis refuses the get for a symbol without a live entry: the cursor has moved, the tick
\* ends before its training and its snapshot.  (When it refuses a set of the refresh, the
\* cursor stays and the events are read again: nothing shows.)
TickFails == Refresh /\ UNCHANGED <<training, snapshot>>

-----------------------------------------------------------------------------
(* The producers and time.                                                 *)

\* add_event at a wall clock that may stand still or be set back: an event stamped no later
\* than the cursor is never listed.
AddEvent(now) ==
    /\ now > cursor
    /\ waiting' = waiting \cup {now}
    /\ UNCHANGED <<engine, training, policies, active, due, cursor>>

IntervalPasses ==
    /\ due' = TRUE
    /\ UNCHANGED <<engine, training, policies, active, feed>>

Train == TrainSymbol \/ TrainEnds \/ TrainFails

Next ==
    \/ Start \/ StopBegins \/ StopEnds \/ CancelLands \/ Train \/ Tick \/ TickFails
    \/ Rollback \/ IntervalPasses
    \/ \E v \in Versions : Promote(v)
    \/ \E ts \in 1..MaxClock : AddEvent(ts)

\* The event loop resumes what is ready, the tick loop of a running agent goes on, and
\* Redis does not refuse every tick forever.
Fairness == WF_vars(Train) /\ WF_vars(CancelLands) /\ WF_vars(StopEnds) /\ WF_vars(Tick)

Spec == Init /\ [][Next]_vars /\ Fairness

-----------------------------------------------------------------------------
(* Properties.                                                             *)

\* The engine never overlooks a policy: one newer than the active one was given a stage by
\* hand, lost its training to stop(), or is being trained right now
\* (learning_engine.py:171-178).
PassedOver ==
    \A v \in Versions :
        v > active => \/ policies[v].moved \/ policies[v].cut
                      \/ v = Len(policies) /\ training.state = "yielded"

\* The active version goes back only when the policy it names has left stage shadow
\* (learning_engine.py:175-178).
FallsBackOnlyAfterPromotion ==
    [][active' < active => policies[active].stage # "shadow"]_vars

\* Until the engine is started again, and by that start itself, nothing the engine has
\* learned changes: the training that stop() cancels creates and adopts nothing more, and
\* start() resumes what stop() saved (learning_engine.py:67-94).
StoppedIsFrozen ==
    [][~running => active' = active /\ cursor' = cursor
                   /\ Len(policies') = Len(policies)]_vars

\* The cursor never passes a market event that was stamped after it and has not been cached
\* (hourly_refresh.py:10-28).
NothingSkipped == \A ts \in waiting : ts > cursor

\* A training that is due is begun, unless the engine is stopped first
\* (learning_engine.py:161-169).
DueIsTrained == running /\ due ~> Live(training) \/ ~running
=============================================================================
