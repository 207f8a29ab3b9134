# A verified model of the agent network

TLA+ modules, TLC configurations and TLAPS proofs for the parts of this repository
that carry its control logic: the Supervisor that runs the agents, the trading agents
and the orders they place, the control API in front of the Supervisor, the LinkedIn
agent, the learning engine, the console with its backend and its connection, and the
Telegram bot. `PROJECT.json` maps every definition to the lines it translates and lists
the runs, the hazards, the findings and the theorems.

Source paths below are relative to `src/`.

## 1. The system

Three programs share the repository. The **gateway** (`gateway.py`) is one asyncio
process: a FastAPI application that owns a `Supervisor` and its agents, a control API, a
status API, a LinkedIn agent and its poller. The **console** (`app/`) is a separate demo
backend with a React frontend, which does not talk to the Supervisor. The **Telegram
bot** (`telegram/`) is a client of the gateway's control API with a limiter of its own.

| Component | State it keeps | Operations | What makes it correct |
|---|---|---|---|
| Supervisor (`ai/supervisor.py`) | one asyncio lock, `tasks`, each agent's `running` | `start`, `stop`, `stop_all`, one tick loop per agent | at most one live loop per agent; no loop nobody can stop; start/stop handlers never overlap a tick; every call returns |
| Trading agent (`agents/crypto_agent.py`, `gold_agent.py`) | paper portfolio, price cache, session equities, kill switch, breaker, canary state, latest snapshot | `start`, `stop`, `on_tick` | caps, drawdown stop and halts hold over ticks, restarts and crashes; an agent that resumes gets back the last tick that was to be saved |
| Risk and guards (`risk/`, `agents/utils/`, `agents/modes/`) | highs, cooldowns, failures, canary errors | pre-trade check, trailing stop, record/reset, should_halt | the stops they promise happen |
| Market data checks and order sizes (`data/quality.py`, `agents/utils/market_rules.py`, `risk/`) | price history | validate, cap, round | an order stays within its caps and a sale within what is held, but for half a unit of the market's precision; cash and positions are never negative |
| Order execution (`oms/`, `adapters/exchange/`, `ai/utils/retry.py`) | token buckets, slices, attempts | TWAP, best quote, failover, retry | no fill twice unless an answer was lost; a good order is recorded in full; the best price is tried first; the order ends |
| Control API (`routers/control.py`, `gateway/guards.py`, `slowapi/`) | limiter stamps, breaker, idempotency keys, gauge | `/start`, `/stop`, `/status` | the breaker opens at its threshold and for its whole cooldown, however results interleave |
| LinkedIn agent (`agents/linkedin_agent/`) | daily counter, tokens, table of scheduled posts | login, post, schedule, poll | the quota, once-only publication, final states, due posts are settled |
| Learning (`ai/learning_engine.py`, `learning/`) | training task, event cursor, active version, policies and their stages | start, stop, tick, nightly run, promote, rollback | no policy and no event is overlooked; a stop freezes what was learned; a due training begins |
| Console (`app/backend`, `app/frontend`) | the agents, `online`, pending restarts; what is shown; client socket | start, stop, restart, broadcast, telemetry, refresh, reconnect | a restart has one end; what is shown settles on what is; one live socket per client |
| Telegram bot (`telegram/bot.py`) | command history per user, buttons in the chat | commands, buttons | the calls it makes are bounded, whatever button or command makes them |
| Dashboard socket, strategies, backtests, auth, audit, telemetry | little or none | pass-through or numerical | not modelled, see section 7 |

How they interact. A control request passes the limiter, the breaker and the idempotency
cache and then awaits the Supervisor, whose lock serves calls in arrival order. The
Supervisor awaits `agent.start()`, keeps a task that calls `agent.on_tick()`, and cancels
that task at whatever await it stands. A tick asks the router for quotes and orders, the
router asks venues through adapters that run the exchange client in worker threads, and
what comes back is booked in the portfolio, written to the trades table and, at the end
of the tick, to a snapshot that the next `start()` reads, if it is configured to. The LinkedIn poller runs on the
event loop, the LinkedIn routes in the thread pool, both on one service object. The
learning engine is an agent under the Supervisor with a training task of its own, over
the tables the trading agents fill, while the learning API promotes and rolls back. The
console's backend pushes changes and telemetry over the socket and answers requests on
connections of their own, so that its view has three writers.

What is hard: cancellation at any await; worker threads that a cancellation does not
stop; requests that were executed although they raised; state read before an await and
used after it (exposures, the breaker, the quota); exceptions thrown on error paths (the
webhook), which kill a loop; restarts with only the database left; halts with no way out.

## 2. Modules

```
AgentLifecycle   what the Supervisor promises of each agent (abstract)
Supervisor       the lock, the calls, the loops; implements AgentLifecycle
                   MCSupervisor (model values)     SupervisorProofs
SlicedOrder      what an order promises the tick that awaits it (abstract)
OrderExecution   one order over slices, venues and retries; implements SlicedOrder
                                                   OrderExecutionProofs
MarketRules      checks of market data, strategy, sizes of orders, booking (operators)
TradingAgent     several ticks of one agent, with restarts and crashes
                   MCTradingAgent (with facts about MarketRules)
                                                   TradingAgentProofs (of both)
SlidingWindow    stamps that are dropped when too old (operator)
ControlPlane     control requests, guards, breaker, gauge
                                                   ControlPlaneProofs (and Telegram)
LinkedIn         login, handlers, poller, quota, scheduled posts
                                                   LinkedInProofs
Learning         the learning engine, its training task, the policies
TrainingData     rows, split, drawdown, buckets, caps (operators)
                   MCLearning (with facts about TrainingData)
                                                   LearningProofs (of both)
Console          the console's view of its backend  ConsoleProofs
StatusSocket     the console's reconnecting websocket
                                                   StatusSocketProofs
Telegram         the bot's commands, buttons and limiter
```

A module takes its neighbours as far as they matter to it: `ControlPlane` uses of the
Supervisor what `Supervisor` shows (calls are served one at a time in arrival order; an
agent's phases are those of `AgentLifecycle`); `TradingAgent` uses of an order that it is
filled and booked, booked in part and raises, fails, or is cancelled: the four results of
`SlicedOrder`, which `OrderExecution` implements; the Supervisor uses of an agent that
its handlers and ticks return, raise or are cancelled, and `Learning` of the Supervisor
that start, stop and ticks of one agent do not overlap; `Console` takes of its connection
that it comes up again (`StatusSocket`).

Every module is written at the grain of asyncio: an action is the code from one await to
the next. Definitions keep the names of the code where possible. Definitions marked
"Seeded fault" take no part in the specifications: they are plausible bugs that the
properties are tried against.

### Supervisor and AgentLifecycle

State: `running` and `tasks` of the code, `loop` (what each task object does), `queue`
(the lock's holder and waiters in FIFO order), `pc` and `call` of each caller, `victim`
(the task a stop awaits). Callers are control requests, the shutdown hook, and one child
per key that `stop_all` gathers. `start` and `stop` are split where they await
(`StartBegins` / `StartReturns` / `StartRaises`, `StopCancels` / `StopAgent` /
`StopEnds`). Two kinds of agent are told apart: those that set `running` last
(`CryptoTradingAgent.start`) and those that set it first (`LearningEngine.start`).
A cancelled loop may be "stillborn": cancelled before its first step, so that its
`finally` never runs and `running` stays True until `agent.stop()`.

`AgentLifecycle` has the phases stopped, live, dead and closing. `ImplementsLifecycle`
and `ImplementsFairLifecycle` are the refinement: an agent is live while its registered
loop lives, dead when its registered loop is done, closing while a cancelled loop winds
down.

### OrderExecution and SlicedOrder

One order: child orders (`slice` of `slices`), the quotes of a slice, the requests sent
to each venue, tokens, and at the exchanges the fills and the answers lost. `Quote` is an
iteration of `best_quote`; `ExecuteFirst`, `FailOver` and `Exhaust` are the loop of
`router.execute`; `Retry` and `Resend` are `with_retry`; `Answered`, `NextSlice` and
`Settle` are `execute_twap` and the booking in `_execute_order`, which may raise after
any number of trades (`SettleAll`: the portfolio refuses one, or it is not written);
`Alerted` and `AlertRaises` are the error path with its audit and its webhook, either of
which may raise. A request may be filled and raise
(`Raised`), and one whose task is cancelled goes on in its thread (`adrift`,
`DriftEnds`). Tokens come back one at a time (`Refill`) at any moment, which stands for
every elapsed time.

`SlicedOrder` is the order without venues, quotes, tokens, retries and lost answers:
parts executed one after the other, nothing booked before the last of them, then all trades
unless the booking raises midway, and after the end nothing but the one part that a cancelled
order may have left at an exchange. The refinement takes a slice for executed once it has a
fill that was not lost. What the trades table knows of the fills is said of each way an order
ends (`RecordsMatchFills`): in full when it ends well, nothing when it failed, and when an
exception ended it either all slices are filled and some trades may be missing, or a slice
failed and nothing is written.

### TradingAgent

A paper agent with the configuration `setup`: `share`, of whose parts one is live in mode
"canary" (1 in mode "live"), `every` (`snapshot_every`) and `resume`, any of `Setups` and
another one in a new process. `BeginTick` has the guards at the head of `on_tick` and takes the
exposures; `DataRejected`, `StrategyRaises` and `Decide` are one iteration over the
symbols up to an order or a rejection; `OrderFilled`, `BookingRaises`, `OrderFails`,
`AlertSent` and `AlertRaises` are the order; `EndTick` and `KillAlerted` are the drawdown
check and `CountTick`, which writes a snapshot after every `snapshot_every` ticks. `Stop`
cancels at any await, `Start` takes over what `Restored` is (the snapshot with resume on, a
new portfolio otherwise), `Crash` leaves the database only. Any audit, trade or snapshot may
fail to be written, which ends the tick loop. Quantities are rounded as `conform_qty` does
(`Lots`), also to a precision coarser than the step, so that the portfolio may be asked for
more cash than there is or to sell more than it holds; it refuses (`Accepts`), on either
side, and `BookingRaises`.

Abstractions: quantities and prices are small naturals, fees and the 5 % cash margin are
left out; the strategy's decision is a choice, as are cooldown, session window and
volatility cap, to do nothing or to buy less (`MarketRules` computes them); how many old failures a record forgets is a choice. A start that
raises is left out, since the next one replaces all that it had set. Mode "shadow" places
no orders and is left out.

### MarketRules

Operators without state, in whole numbers (a quantity counts the smallest part, a price
is per part, ratios are percentages, divisions round down): the checks of candles and
prices with the history they judge by, the momentum strategy and its score, the session
window and the cooldown, the chain from a risk-parity target over the volatility's cap and
the cash to a rounded quantity, and the average price. The module computes what
`TradingAgent` leaves open: which data pass, what is decided, when an agent may act and how
small an order gets. The strategy is that of an installation with numpy, as
`requirements.txt` asks for.

### ControlPlane

`Refuse`, `AnswerDuplicate` and `Admit` are a control route up to its await;
`StartReturns`, `StartFails`, `StopReturns` and `StopFails` are the code after it.
Time is discrete: stamps are ages that stop at the limit they are compared with, and a
list of them is purged from the front (`Unexpired`, of `SlidingWindow`, for the `popleft`
loops of the breaker, the limiter and the bot).
`Poll` is any reader of the status, since `CircuitBreaker.state()` closes an expired
breaker. A dead agent is one that `start` takes for started: its loop died, or its
`start()` raised after it had set `running`.

### LinkedIn

Each thread goes through check of the quota and the token, request, count. The request's
outcomes are accepted, refused, throttled, or published with the answer lost. The poller
adds the reading of due posts and the marking of each; a post is scheduled with the state
its request names, and only pending ones are read. `Login` saves the token, also when the
request for its owner that follows fails; `Expire` is any moment at which the code takes
the token for expired. `Midnight` and `Restart` come at any point.
The history variables `sent`, `today`, `lost`, `overnight`, `restarts` and `earlier`
record what the properties speak of. That reading and resetting the counter is one step
assumes that threads are not switched between two statements with no call that blocks;
the requests in between are separate steps.

### Learning and TrainingData

The engine's tables are lists in the process, so that the only suspension points are the
`sleep(0)` of the nightly run after each policy and the wait of `stop()` for the task it
cancelled. `training` is where the task is suspended; `Train` takes it from one point to
the next: adopting the policy created before it, then creating another, ending, or
failing. `StopBegins`, `CancelLands` and `StopEnds` are `stop()`; `Tick` reads the events
after the cursor, caches them, schedules a training when one is due and may save a
snapshot; `TickFails` is the feature store refusing in the middle. `Promote`, of the
learning API, and `Rollback`, which no route calls so far, come between any two steps. Which limits of a promotion a
policy passes is left open; that a metric it has not recorded fails it is not.

Abstractions: `resume` is on, as the registry and the default have it; events without a
symbol, which leave the cursor alone, and the advice, scores and drift counters, which are
written and never read by the engine, are left out. `TrainingData` has, as operators, the
rows made of market snapshots, their split in time, the drawdown of a backtest, the
histogram of the drift monitor and the caps of a policy.

### Console

One agent and the gateway as the backend has them (`status`, `gateway`), and as the
console shows them (`shown`, `shownGateway`). Every task of the backend that broadcasts
has one send to this console under way at most (`sends`), which arrives any time after
the change and in any order with the others; a connection that is lost takes them along.
A request of the console is set and broadcast (`Serve`) and answered on a connection of
its own (`Answer`), or its outcome is lost (`Fail`); `ServeOther` is another client's.
`Pick`, `TellAgent` and `TellGateway` are `telemetry_loop`, which broadcasts a copy of the
agent it took before an earlier await. `GoOffline` and `Restore` are a restart of the
gateway and its end 1.5 seconds later.

Abstractions: an agent that was never started (idle) differs from a stopped one only in
its buttons and is left out, as are metrics and the terminal; one refresh is under way at
a time. `loadingAgent` does not keep a second request off, since a click on another agent
takes it away, and so does not guard `Click`.

### Telegram

A handler asks the limiter before its first await and shares nothing after it, so it is
one action. `Command`, `ReadLogs`, `ListAgents` and `Control` are the commands by what
they need and do, `PressControl` and `PressConfirm` the buttons, `Deny` the limiter's
refusal. What the gateway answers decides only what the bot says. `posts` is a history
variable: the control calls of the last window. The specification is `BotSpec`: its names
differ from those of `ControlPlane`, so that one module can hold the proofs of both, which
share the lemmas on the window.

### StatusSocket

The browser side of the console's status connection. `net` is what the browser knows of
each WebSocket object, `socket`, `closedByUser` and `timers` are the state of
`StatusWebSocket`, and `Mount` and `Unmount` are the effect of the dashboard component
that calls `connect()` and `disconnect()`. `close()` takes effect with a later event, and
a socket closed while connecting fails: `Closed` runs `onerror` and then `onclose`, which
both act on the field and not on the socket they were set on. `overlap` and `stray`
record when a `connect()` overtook the events of an older socket and when a timer
outlived an unmount. The backoff of the timers is left out: a timer fires at any time.

## 3. Runs

| Run | Shows | States |
|---|---|---|
| `supervisor_safety` | lock, loops, handlers, ticks, refinement | 64 000 |
| `supervisor_liveness` | calls return, shutdown reaches loops, closing loops close | 81 000 |
| `order_execution` | fills against records, venue order, refinement, termination | 494 000 |
| `trading_agent` | caps, drawdown, snapshot with its configurations, halts | 4 185 000 |
| `control_plane` | breaker under interleaved results | 400 000 |
| `linkedin` | quota, publication, settlement, with logins and expired tokens | 520 000 |
| `status_socket` | reconnection, one live connection | 3 700 |
| `learning` | policies and events overlooked, stops, trainings that are due | 94 000 |
| `console` | one end per restart, the view settles | 677 000 |
| `telegram` | control calls bounded, blocks end | 10 500 |
| `trailing_stop`, `throttled` | findings, section 6 | |

Bounds, and why they suffice:

- Supervisor: two agents (one of each kind), two requests besides the shutdown hook, as
  many task objects as can be alive together. Races need two callers of one agent and a
  third party; waiters beyond three only wait. The theorems have no such bound.
- OrderExecution: two venues, two slices, three attempts, buckets of two tokens. Two
  venues have all orders of failure and preference, two slices have a first, a last and
  a between; a token spent by the quote can be the last one. With three venues and
  smaller buckets (1.6 million states) nothing else appears. The safety properties are proved without bounds.
- TradingAgent: two symbols, prices 2 and 3, three ticks that do something. Two symbols
  make exposures stale within a tick; a third of the value lost exceeds the drawdown
  limit of 20 %; the thresholds of failures and errors are two, so that one is not enough
  and the next tick sees the halt. The configurations (`MCSetups`) are a canary that saves
  each tick, and live trading that saves every second one, with and without resume: with
  three ticks the third is lost by a restart and the second is not. The second symbol's
  market knows even quantities only (`MCPrecision`), so that its orders are rounded up
  beyond cash, caps and what is held. `MaxTicks` is the only bound on behaviour.
- ControlPlane: one agent, three clients, thresholds and windows of two. Three requests
  in progress are enough for results to arrive after the breaker opened, after its
  cooldown, and after it was closed and reopened. Nothing is bounded beyond the constants.
- LinkedIn: one handler and the poller, two scheduled posts, a quota of two, two days,
  one lost answer and one restart (`MaxDays`, `MaxLost`, `MaxRestarts`). Two threads
  passing the check together, at the limit and over midnight, are the cases there are.
- StatusSocket: three sockets and three timers: a current socket, an older one whose
  events are late, and one more that a timer opens. Four of each pass as well, and the
  theorems have no bound but `MaxTimers`, which is arbitrary.

- Learning: two symbols, three policies (`MaxPolicies`), two stamps (`MaxClock`). A
  training of two symbols has a first, a between and a last suspension; with three
  policies an older one in shadow is left when the newest is promoted; two stamps tell
  an event before the cursor from one after it. All safety is proved without bounds.
- Console: two requests of the console (`Requests`), besides other clients, the telemetry,
  the restart and its end: a start and a stop whose sends and answers overtake each other.
- Telegram: an operator and a viewer, a limit of two in a window of three: windows that
  begin at each moment, and one that is partly over. The bot is listed as an operator,
  so that the buttons can fire at all (see section 6).
- The operators of MarketRules and TrainingData are compared with their reference
  definitions for all small arguments, as assumptions that TLC evaluates in the runs
  `trading_agent` (`TargetsShareTheCap`, `LevelNeedsHalfTheWindow`,
  `CoarsePrecisionOversells`, `SwingsAreSold`) and `learning` (`PastIsFinal`, `DrawdownIsLargestFall`).

`CHECK_DEADLOCK FALSE` is set for `order_execution` only: an order ends.

## 4. Fairness

- Supervisor: weak fairness of each caller's and each loop's steps. asyncio runs every ready task,
  handlers and ticks return, raise or are cancelled at an await. Callers need not call,
  and a loop need not crash.
- OrderExecution: weak fairness of the order's steps: sleeps are finite and the exchange
  client's requests time out. Cancellation and refills are not fair.
- LinkedIn: weak fairness of the poller's steps: it wakes up every minute and its calls
  return or raise. The client sets no timeout of its own, so this is an assumption about
  the network.
- Learning: weak fairness of the training's steps, of the end of a cancellation and of a
  stop, since the event loop resumes what is ready, and of the tick, since the loop of a
  running agent goes on and the feature store does not refuse forever.
- Console: weak fairness of the telemetry and the restart tasks and of the connection,
  which comes up again; strong fairness of taking this agent, since `random.choice` picks
  each one again and again. Nothing is assumed of requests, answers and refreshes.
- Telegram: time passes.
- TradingAgent, ControlPlane and StatusSocket state no liveness.

## 5. Proofs

Proved with TLAPS for all values of the constants that satisfy the named assumptions.

**SupervisorProofs** (from `ProcsAssumption` and the other assumptions of
`Supervisor`). `OneLoopPerAgent` and the rest are not inductive on their own: that a
start finds no live loop depends on every live loop being registered or awaited, which
depends on the caller that cancelled it holding the lock, which depends on the queue's
head being the only caller inside. `IInv` is the conjunction of the type invariant, the
properties, and what each position of a caller implies about the lock and its victim.
`InductiveInvariant` is proved one action at a time from the effect of the three actions
that change `tasks` or `loop`; all safety properties follow, and
`CrashClearedByStopOnly` and `TicksAreRegistered` as action properties.
`SupervisorImplementsLifecycle` shows that each step is a step of `AgentLifecycle` or a
stutter, with `OthersKeepPhase` saying that a step about one agent leaves the abstract
state of the others alone.

**OrderExecutionProofs** (from `OrderAssumption`). `IInv` counts, for each slice, fills
against lost answers and says by phase which slices are filled, open or untouched, and
that a request adrift implies a cancelled order. From it follow
`DuplicateNeedsLostAck`, the three parts of `RecordsMatchFills` (`OkOrderIsRecorded`,
`FailedOrderIsUnwritten`, `RaisedOrderIsExplained`), `OneSeriesPerVenue` and, as an action
property, `BestQuoteFirst`. Those of a failed or raised order need that a slice which was
answered has a fill that was not lost, and that nothing is written before the last slice.
`OrderImplementsSlicedOrder` is the refinement: the invariant says which slices are
executed in each phase (`ExecutedSlices`), so that an answer executes the next one, a
request that raised executes none, and an order that fails has not executed its last.

**StatusSocketProofs** (from `SocketsAssumption`). `NeverStranded` needs that the field
holds a socket only after `connect()` reset `closedByUser` (`FieldIsConnected`);
`SocketsMatchConsole` needs that without an overlap there is one WebSocket at most and a
live one is in the field (`NoOverlapOneSocket`), and that nothing happens after an unmount
that left no timer (`UnmountedIsQuiet`). The conjunction is inductive.

**LearningProofs** (from `LearningAssumption`). `PassedOver` must be strengthened: that
the lookup after a training finds the policy just created, or a newer one, needs that the
last policy is still in shadow unless it was moved (`Staged`), that a suspended training
has created one (`Created`), and that a stopped engine has no training that could adopt
one (`Stopped`). `IInv` adds `NothingSkipped`, which the cursor's maximum keeps;
`GreatestExists` gives the greatest element of a bounded set without induction. The
action properties `FallsBackOnlyAfterPromotion` and `StoppedIsFrozen` follow from it.

**ConsoleProofs** (from `ConsoleAssumption`). `OneRestorePending` is inductive with the
type invariant, for any set of requests.

`SplitKeepsTime` and `RowsOfThePastStay` are about the rows of `TrainingData`, for any
prices: the split tests on what comes after the rows trained on, and only the forward
return and the label of a row change when one more snapshot is there.

**TradingAgentProofs** (from `AgentAssumption`, for any finite set of symbols and any
prices, caps and limits). `TypeCorrect` needs that the snapshot has the types of the
portfolio, since a restart takes it over (`SavedType`), and that an order that is out is
for a symbol in hand (`Placed`). That neither cash nor a position gets negative is
Portfolio's refusal (`BookType`), for any precision: an order may ask for more of both.
`OvershootBounded` is about sums over the symbols. `CapInv` adds that nothing is remembered
between ticks (`Flat`) and that each symbol's purchase passed the caps on its own with the
exposures of the beginning (`WithinCaps`), from which the bound follows for any one symbol
left out. That a sum grows with one more element and is no more than another's is proved by
induction over subsets (`SubsetInduction`), with the claim given as a set.
`DrawdownIsCaught` needs that the kill switch is set before its webhook is awaited
(`DrawdownInv`), and `SnapshotCurrent` that a portfolio with cash below zero, as that of no
snapshot, is never saved; `HaltsStay` needs the types only.
Of the operators of `MarketRules`, `RoundStepBelow` and `ConformBelow` bound a rounded
quantity by the one asked for when the market's precision is at least as fine as its step,
and by half a unit of its last decimal more otherwise. `SellIsCovered` and `BuyWithinCaps`
carry both bounds to a sale and to what a buy costs, for every market: exact where the
precision is as fine as the step (`Fine`), half a unit more where it is not. `CapShrinks`,
`AverageBetween` and `TargetsWithinTotal` follow the chain of an order,
`HistoryEndsWithThePrice` is about the window prices are judged by, and `BuyNeedsSurge`
says when the strategy can buy at all.

**LinkedInProofs** (from `LinkedInAssumption`, for any handlers, posts and limits).
`DoneStaysDone` needs that what a poller has in hand is pending. `SentOnce` needs more:
that a pending post was sent by earlier processes only, unless it is the one in the poller's
hand between its publication and its mark, or the poller has died on it (`PendingOnce`), and
that an answer is only there for what was published (`AnsweredWasSent`). `QuotaHolds`
counts: posts counted today and threads past the check share the limit and one place for
each other thread (`InHand`); what was published today is made up of a full share of each
process that was restarted today, of lost answers, of posts checked the day before, and of
what is or is about to be counted (`Backed`).

**ControlPlaneProofs** (from `ControlAssumption`). `TypeCorrect` includes that the limiter
lets in no more than its rate and one; for this the ages must be in order, oldest first, or
dropping the front would leave old ones behind (`HitsType`). `GaugeIsHonest` and
`CooldownIsKept` follow from the types. `BreakerCounts` needs two relations: the queue is
as long as there are requests in progress (`CallsCounted`), and an open breaker's errors
together with the calls that may still fail stay below the threshold and the clients
(`RoomForErrors`), since nothing is admitted while it is open. `BotCallsBounded` is about
`Telegram` (from `TelegramAssumption`), whose window slides in the same way: aligned at
their ends, each post of the window has an admitted command that is no older
(`Covered`), and the limiter drops no command of the window, so that there are no more
posts than commands remembered.

Model-checked only: all liveness and `ImplementsFairLifecycle` (fairness is beyond the
prover); `DrawdownIsLargestFall` and `LevelNeedsHalfTheWindow` (recursion along a
sequence, medians).

## 6. Findings

- `trailing_stop`: the trailing stop never fires. `TrailingStopTracker.update` takes the
  current price for the high when there is no entry, and makes an entry only when the
  price is above the high or the stop fires.
- `throttled`: a scheduled post refused with HTTP 429 is marked failed for good.

Not findings, since nothing in the repository says otherwise, but worth knowing.

- Gateway: "5/minute" admits six requests (`slowapi/__init__.py:43` compares with `>`; a
  test agrees). Start, stop and start again within five seconds answers ok and leaves the
  agent stopped; a failed start answers ok, as a duplicate, when repeated at once. An open
  breaker refuses `/stop` as well. The gauge `agent_state` stays 1 when a loop dies, and
  starting a dead agent sets it to 1 (it hides no live loop: `GaugeHidesNoLoop`).
- Trading: a stop that interrupts a tick after a booking loses the trade at the next
  start, since `stop()` writes no snapshot; with `snapshot_every` above 1 so are the trades
  of the ticks since the last snapshot, and with resume off all of them. An order filled
  whole may have only some of its trades written, or none, when its booking raises. Halts outlive `stop()` and `start()`
  (`HaltsAreForever`). A lasting jump of the price beyond the tolerated range is refused
  until it fills half of the history, and each refusal counts against the breaker, which
  is then tripped for good. A market whose precision is coarser than its step rounds up,
  so that a sale may exceed what is held, and a buy the cash and the caps, by half a unit;
  the portfolio's refusal ends the tick loop, each time anew. A NaN price passes `validate_ticker`. The failure
  of a later TWAP slice drops the records of the earlier fills, and an order in flight may
  be filled after `stop()` returned.
- Strategy: `momentum_ema` buys only when its fast average is at least half above the slow
  one (`BuyNeedsSurge`), and sells on volatility alone, however prices go
  (`SwingsAreSold`). A session window over midnight is never open. Without numpy a window
  that is not yet full is divided by its full width, and the returns are the oldest ones.
- LinkedIn: `is_expired` compares an instant with a naive UTC time taken for local time,
  so that a token expires early or late by the host's offset.
- Learning: a policy of the nightly run cannot be promoted under the configured
  thresholds, because it records none of their names, and a threshold whose name fits no
  pattern of `can_promote` is not compared. `forward_return` is among the columns a model
  is trained on and gives the label away (`PastIsFinal` names it). A split that leaves
  nothing to test on tests on the last training row. The drawdown does not see a loss
  before the first gain. The drift monitor never gets a baseline.
- Console: a remount before the old socket's events (React's StrictMode does one at once)
  leaves two live connections, so that each event is delivered twice.
- Telegram: the start and stop buttons check the role of the author of the message, which
  is the bot; unless the bot is listed among the operators, nobody can use them.

## 7. Not modelled, and why

Live balances (the exchange is the state); a clock set back, after which the snapshot with
the greatest time stamp (`learning/snapshots.py:23`, `persistence/snapshot.py:31`) is not
the latest; that an equity is made of cached prices of several moments, when the data of a
symbol were rejected (the agent takes its cache for the market, and so does `DrawdownCaught`); shadow trades and audit rows (written, never
read); authentication and middleware, including that the dashboard's socket goes on after
its token has expired (stateless: a check when a connection is made); the backtests of
strategies, the regression, the bandits and the search for parameters (numerical code without control
state; the models choose their answer); the frontend's rendering; the vendored stand-ins for FastAPI,
SQLModel, Pydantic, Prometheus and jose, and the setup scripts.
`services/scheduler.py` never runs its jobs (its scheduler is a stub).

## 8. Plan

Every component with control state of its own has a module, and every safety property the
runs check is a theorem. What could still be proved:

1. That `TradingAgent`'s four results of an order
   are those of `SlicedOrder` is an argument in this README and not a theorem.
2. The drawdown of the backtest as the largest fall, by an invariant over prefixes.
3. `LevelNeedsHalfTheWindow`, which needs facts about medians.
