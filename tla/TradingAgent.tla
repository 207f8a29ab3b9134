-------------------------- MODULE TradingAgent --------------------------
(***************************************************************************)
(* A paper trading agent (agents/crypto_agent.py and its gold subclass)    *)
(* over several ticks: the guards at the head of on_tick(), one symbol     *)
(* after the other, risk checks against exposures taken once per tick, the *)
(* order, the drawdown check, the snapshot, and what stop(), start(), an   *)
(* exception or a crash of the process leave of all that.  Any write to    *)
(* the database and any webhook may raise, which ends the tick loop.       *)
(*                                                                         *)
(* An action is the code between two awaits.  The venues, slices and       *)
(* retries of one order are in OrderExecution; here it is filled, fails,   *)
(* or is cancelled.  Fees and the cash safety margin are left out: they    *)
(* only make an order smaller.  A quantity is counted in the smallest part *)
(* that is traded live: a lot of Share parts, one part of it live.         *)
(***************************************************************************)
EXTENDS Integers, Functions, MarketRules

CONSTANTS
    Symbols,        \* allowed_pairs, numbered 1, 2, ...
    Prices,         \* what the market may ask
    Setups,         \* what the registry may configure: share, the inverse of
                    \* canary_live_fraction (1 stands for mode "live"); every,
                    \* snapshot_every; resume
    Precision,      \* per symbol, the unit of a quantity's last decimal; 0: not given
    StartCash,      \* starting_cash
    MaxTrade, CapTotal, CapSymbol,  \* the notional caps of RiskCaps
    DrawdownPct,    \* max_drawdown_pct_session
    CanaryLossPct,  \* ShadowStats.drawdown_limit
    TrailingPct,    \* trailing_stop_pct
    MaxFailures,    \* CircuitBreakerConfig.max_failures
    MaxErrors,      \* ShadowStats.max_errors
    MaxTicks        \* bound of the model: the ticks that do something

ASSUME AgentAssumption ==
    /\ Symbols \subseteq Nat \ {0} /\ IsFiniteSet(Symbols)
    /\ \A s \in Symbols : 1..s \subseteq Symbols
    /\ Prices \subseteq Nat \ {0} /\ Precision \in [Symbols -> Nat]
    /\ Setups \subseteq [share : Nat \ {0}, every : Nat \ {0}, resume : BOOLEAN]
    /\ StartCash \in Nat /\ MaxTrade \in Nat /\ CapTotal \in Nat /\ CapSymbol \in Nat
    /\ DrawdownPct \in Nat /\ MaxFailures \in Nat \ {0} /\ MaxErrors \in Nat \ {0}
    /\ MaxTicks \in Nat

VARIABLES
    setup,          \* the agent's configuration
    pc, sym,        \* where the agent stands, and the symbol in hand
    cash, qty,      \* the paper portfolio
    cache,          \* price_cache; 0: no price yet
    highs,          \* TrailingStopTracker.highs; 0: no entry
    kill,           \* kill_switch_triggered
    events, tripped,    \* circuit_breaker: remembered failures, tripped
    errors, worst,  \* mode_state: remembered errors, worst canary loss in percent
    startEq, highEq,    \* session_start_equity, session_high_equity
    exposures,      \* this tick's exposures per symbol
    bought,         \* notionals passed for buying in this tick, per symbol
    pending,        \* the order being executed
    saved,          \* the latest snapshot in the database
    tickCounter,    \* tick_counter: the ticks finished by this process
    ticks           \* the ticks begun by all of them

book == <<cash, qty>>
guards == <<kill, tripped, events, errors, worst>>
session == <<startEq, highEq>>
tick == <<exposures, bought>>
counts == <<tickCounter, ticks>>
vars == <<setup, pc, sym, book, cache, highs, guards, session, tick, pending, saved, counts>>

Zero == [s \in Symbols |-> 0]
NoOrder == [side |-> "none", lots |-> 0]
NoSnapshot == [cash |-> -1, qty |-> Zero, cache |-> Zero]

TypeOK ==
    /\ setup \in Setups
    /\ pc \in {"down", "idle", "market", "order", "alert", "killed", "dead"}
    /\ sym \in Symbols \cup {0}
    /\ cash \in Nat
    /\ \A f \in {qty, cache, highs, exposures, bought} : f \in [Symbols -> Nat]
    /\ kill \in BOOLEAN /\ tripped \in BOOLEAN
    /\ events \in 0..MaxFailures /\ errors \in 0..MaxErrors
    /\ worst \in 0..100
    /\ startEq \in Nat /\ highEq \in Nat
    /\ pending.side \in {"none", "buy", "sell"} /\ pending.lots \in Nat
    /\ saved = NoSnapshot \/ saved.cash \in Nat
    /\ tickCounter \in Nat /\ ticks \in 0..MaxTicks

Init ==
    /\ setup \in Setups
    /\ pc = "down" /\ sym = 0
    /\ cash = StartCash /\ qty = Zero
    /\ cache = Zero /\ highs = Zero
    /\ kill = FALSE /\ tripped = FALSE /\ events = 0 /\ errors = 0 /\ worst = 0
    /\ startEq = 0 /\ highEq = 0
    /\ exposures = Zero /\ bought = Zero /\ pending = NoOrder
    /\ saved = NoSnapshot /\ tickCounter = 0 /\ ticks = 0

Exposures(q, c) == [s \in Symbols |-> q[s] * c[s]]
Equity(m, q, c) == m + SumFunction(Exposures(q, c))

-----------------------------------------------------------------------------
(* start() and stop() *)

\* What start() makes of the portfolio and the prices: with resume on, the latest
\* snapshot, if there is one; a new portfolio otherwise.
Restored ==
    IF setup.resume /\ saved # NoSnapshot THEN saved
    ELSE [cash |-> StartCash, qty |-> Zero, cache |-> cache]

\* And a new session; the canary's state, the highs and tick_counter are kept.
StartKeeping(trip, failures) ==
    LET equity == Equity(Restored.cash, Restored.qty, Restored.cache) IN
    /\ pc = "down"
    /\ pc' = "idle"
    /\ cash' = Restored.cash /\ qty' = Restored.qty /\ cache' = Restored.cache
    /\ kill' = FALSE /\ tripped' = trip /\ events' = failures
    /\ startEq' = equity /\ highEq' = equity
    /\ UNCHANGED <<setup, sym, highs, errors, worst, tick, pending, saved, counts>>

\* Seeded fault: start() also resets the circuit breaker.
StartForgives == StartKeeping(FALSE, 0)

Start == StartKeeping(tripped, events)

\* The tick in progress, if any, leaves its locals behind.
Leaves(next) ==
    /\ pc' = next
    /\ sym' = 0 /\ exposures' = Zero /\ bought' = Zero /\ pending' = NoOrder

\* Supervisor.stop(): the tick is cancelled at the await it stands at.  Nothing
\* is saved.
Stop ==
    /\ pc # "down"
    /\ Leaves("down")
    /\ UNCHANGED <<setup, book, cache, highs, guards, session, saved, counts>>

\* The process dies and is started again, with the registry as it is then: the
\* database is what is left.
Crash ==
    /\ setup' \in Setups
    /\ Leaves("down")
    /\ cash' = StartCash /\ qty' = Zero /\ cache' = Zero /\ highs' = Zero
    /\ kill' = FALSE /\ tripped' = FALSE /\ events' = 0 /\ errors' = 0 /\ worst' = 0
    /\ startEq' = 0 /\ highEq' = 0 /\ tickCounter' = 0
    /\ UNCHANGED <<saved, ticks>>

-----------------------------------------------------------------------------
(* on_tick() *)

\* CircuitBreaker.record: failures older than the window may be forgotten, but
\* only those recorded under the same key.
Record ==
    \E n \in 0..events :
        /\ events' = Least(n + 1, MaxFailures)
        /\ tripped' = (tripped \/ n + 1 >= MaxFailures)

\* ModeState.should_halt
Halted == setup.share > 1 /\ (errors >= MaxErrors \/ worst >= CanaryLossPct)

\* Seeded fault: on_tick() does not ask should_halt().
ArmedInCanary == ~kill /\ ~tripped

Armed == ~kill /\ ~tripped /\ ~Halted

BeginTick ==
    /\ pc = "idle" /\ ticks < MaxTicks
    /\ Armed
    /\ pc' = "market" /\ sym' = IF 1 \in Symbols THEN 1 ELSE 0
    /\ ticks' = ticks + 1
    /\ exposures' = Exposures(qty, cache)
    /\ UNCHANGED <<setup, book, cache, highs, guards, session, bought, pending, saved, tickCounter>>

\* `continue` of the loop over the symbols; sym 0: the loop is over.
NextSymbol ==
    /\ pc' = "market"
    /\ sym' = IF sym + 1 \in Symbols THEN sym + 1 ELSE 0

Trading == pc = "market" /\ sym # 0

\* The fetch fails, or the data are rejected by data/quality.py.
DataRejected ==
    /\ Trading
    /\ Record
    /\ NextSymbol
    /\ UNCHANGED <<setup, book, cache, highs, kill, errors, worst, session, tick, pending, saved, counts>>

StrategyRaises(price) ==
    /\ Trading
    /\ Record
    /\ NextSymbol
    /\ cache' = [cache EXCEPT ![sym] = price]
    /\ UNCHANGED <<setup, book, highs, kill, errors, worst, session, tick, pending, saved, counts>>

\* TrailingStopTracker.update: whether it fires, and the high it keeps.
Held == qty[sym] > 0    \* _position_qty
HighBefore(price) == IF highs[sym] = 0 THEN price ELSE highs[sym]
StopFires(price) ==
    /\ Held /\ TrailingPct > 0
    /\ price <= HighBefore(price)
    /\ price * 100 <= HighBefore(price) * (100 - TrailingPct)
HighAfter(price) ==
    IF ~Held \/ TrailingPct = 0 THEN 0
    ELSE IF price > HighBefore(price) \/ StopFires(price) THEN price
    ELSE highs[sym]

\* A lot is share parts.  conform_qty makes whole lots, and multiples of the market's
\* last decimal: where that is the larger unit, more than there is of either.
Lots(amount) ==
    Conform(amount, [step |-> setup.share, precision |-> Precision[sym]]) \div setup.share
Notional(lots, price) == lots * setup.share * price

\* Seeded fault: check_pre_trade without its test of the total exposure.
PassesSymbolOnly(notional) ==
    /\ notional <= MaxTrade
    /\ exposures[sym] + notional <= CapSymbol

\* check_pre_trade, with the exposures of the beginning of the tick.
Passes(notional) ==
    /\ notional <= MaxTrade
    /\ SumFunction(exposures) + notional <= CapTotal
    /\ exposures[sym] + notional <= CapSymbol

\* The order goes out, or the risk check rejects it and the breaker counts it; either
\* is audited first.
Submit(side, lots, price) ==
    /\ lots > 0
    /\ \/ /\ Passes(Notional(lots, price))
          /\ pc' = "order" /\ sym' = sym
          /\ pending' = [side |-> side, lots |-> lots]
          /\ bought' = IF side = "buy" THEN [bought EXCEPT ![sym] = Notional(lots, price)] ELSE bought
          /\ UNCHANGED <<exposures, events, tripped>>
       \/ ~Passes(Notional(lots, price)) /\ Record /\ NextSymbol /\ UNCHANGED <<tick, pending>>
       \/ Leaves("dead") /\ UNCHANGED <<events, tripped>>

\* A sell decision, or the trailing stop: what is held, as the market counts it.
Sell(price) == Submit("sell", Lots(qty[sym]), price)

\* The budget is capped; the volatility cap may make it smaller (MarketRules!BuyQty).
Buy(price) ==
    /\ ~Held
    /\ \E amount \in 1..(Least(cash, MaxTrade) \div price) : Submit("buy", Lots(amount), price)

\* The strategy holds, a cooldown is not over, or nothing is left after rounding.
Pass == NextSymbol /\ UNCHANGED <<tick, pending, events, tripped>>

Decide(price) ==
    /\ Trading
    /\ cache' = [cache EXCEPT ![sym] = price]
    /\ highs' = [highs EXCEPT ![sym] = HighAfter(price)]
    /\ \/ Held /\ Sell(price)
       \/ ~StopFires(price) /\ Buy(price)
       \/ Pass
    /\ UNCHANGED <<setup, book, kill, errors, worst, session, saved, counts>>

\* Seeded fault: Portfolio.buy without its test of the cash.
NeverTooDear(cost) == FALSE

\* Portfolio.buy raises "insufficient cash" when the price has moved too far.
TooDear(cost) == cost > cash

\* The order was answered: the breaker forgets everything.
Reset == events' = 0 /\ tripped' = FALSE

\* The portfolio takes a purchase that it can pay and a sale that it holds.
Accepts(lots, price) ==
    IF pending.side = "buy" THEN ~TooDear(lots * price) ELSE ~Oversold(lots, qty[sym])

\* One part of a lot is live, at the price of the moment.
Book(lots, price) ==
    /\ Accepts(lots, price)
    /\ cash' = IF pending.side = "buy" THEN cash - lots * price ELSE cash + lots * price
    /\ qty' = [qty EXCEPT ![sym] = IF pending.side = "buy" THEN @ + lots ELSE @ - lots]

OrderFilled(price) ==
    /\ pc = "order"
    /\ Book(pending.lots, price)
    /\ Reset
    /\ pending' = NoOrder
    /\ NextSymbol
    /\ UNCHANGED <<setup, cache, highs, kill, errors, worst, session, tick, saved, counts>>

\* Booking is outside the try block: the exception of a portfolio that refuses a slice,
\* or of a trade that is not written, ends the tick loop.  What was booked before stays
\* in the portfolio.
BookingRaises(price, lots) ==
    /\ pc = "order"
    /\ Book(lots, price)
    /\ Reset
    /\ Leaves("dead")
    /\ UNCHANGED <<setup, cache, highs, kill, errors, worst, session, saved, counts>>

\* All venues failed: the canary counts an error, and the webhook is awaited.
OrderFails ==
    /\ pc = "order"
    /\ \E n \in 0..errors : errors' = Least(n + 1, MaxErrors)
    /\ pc' = "alert" /\ pending' = NoOrder
    /\ UNCHANGED <<setup, sym, book, cache, highs, kill, events, tripped, worst, session, tick, saved, counts>>

\* The breaker counts the error after the webhook, which may also raise.
AlertSent ==
    /\ pc = "alert"
    /\ Record
    /\ NextSymbol
    /\ UNCHANGED <<setup, book, cache, highs, kill, errors, worst, session, tick, pending, saved, counts>>

\* So may its audit, before the error is counted, and the kill switch's.
AlertRaises ==
    /\ pc \in {"order", "alert", "killed"}
    /\ Leaves("dead")
    /\ UNCHANGED <<setup, book, cache, highs, guards, session, saved, counts>>

Persist == saved' = [cash |-> cash, qty |-> qty, cache |-> cache]

\* ModeState.update_drawdown keeps the worst loss against the session's start.
LossPct(eq) ==
    IF startEq = 0 \/ eq >= startEq THEN 0 ELSE ((startEq - eq) * 100) \div startEq

\* The tick is counted; every so many of them a snapshot is written.
CountTick ==
    /\ tickCounter' = tickCounter + 1
    /\ IF tickCounter' % setup.every = 0
       THEN \/ pc' = "idle" /\ Persist
            \/ pc' = "dead" /\ UNCHANGED saved
       ELSE pc' = "idle" /\ UNCHANGED saved

\* Seeded fault: the kill switch compares with the start of the session.
BelowStart(eq) == eq * 100 < startEq * (100 - DrawdownPct)

BelowHigh(eq) ==
    LET high == IF eq > highEq THEN eq ELSE highEq IN
    eq * 100 < high * (100 - DrawdownPct)

\* The loop over the symbols is over; _update_metrics only sets gauges.
Finished == pc = "market" /\ sym = 0

\* After the last symbol: the drawdown check; the kill switch awaits its webhook before
\* the tick is counted.
EndTick ==
    LET eq == Equity(cash, qty, cache) IN
    /\ Finished
    /\ highEq' = IF eq > highEq THEN eq ELSE highEq
    /\ worst' = IF LossPct(eq) > worst THEN LossPct(eq) ELSE worst
    /\ IF BelowHigh(eq)
       THEN kill' = TRUE /\ pc' = "killed" /\ UNCHANGED <<saved, tickCounter>>
       ELSE CountTick /\ UNCHANGED kill
    /\ exposures' = Zero /\ bought' = Zero
    /\ UNCHANGED <<setup, sym, book, cache, highs, tripped, events, errors, startEq, pending, ticks>>

\* Seeded fault: the tick that trips the kill switch writes no snapshot.
KillUnsaved ==
    /\ pc = "killed"
    /\ pc' = "idle"
    /\ tickCounter' = tickCounter + 1
    /\ UNCHANGED <<setup, sym, book, cache, highs, guards, session, tick, pending, saved, ticks>>

KillAlerted ==
    /\ pc = "killed"
    /\ CountTick
    /\ UNCHANGED <<setup, sym, book, cache, highs, guards, session, tick, pending, ticks>>

TickStep ==
    \/ BeginTick \/ DataRejected
    \/ \E price \in Prices :
        \/ StrategyRaises(price) \/ Decide(price)
        \/ OrderFilled(price)
        \/ \E lots \in 0..pending.lots : BookingRaises(price, lots)
    \/ OrderFails \/ AlertSent \/ AlertRaises \/ EndTick \/ KillAlerted

Next == Start \/ Stop \/ Crash \/ TickStep

Spec == Init /\ [][Next]_vars

-----------------------------------------------------------------------------
(* Properties *)

\* The caps are tested against the exposures of the beginning of the tick, so a
\* tick may exceed the total cap, but by one trade less than it buys at most.
TickOvershootBounded ==
    LET buys == {s \in Symbols : bought[s] > 0} IN
    \A s \in buys :
        SumFunction(exposures) + SumFunction(bought)
            <= CapTotal + SumFunction([b \in buys \ {s} |-> MaxTrade])

Resting == pc \in {"idle", "down"}

\* A breaker that is tripped when a tick ends stays tripped and stops all trading:
\* stop() and start() do not reset it, and no order can, since no tick runs.
TrippedForever == [][tripped /\ Resting => (tripped' /\ Resting') \/ Crash]_vars

\* A canary halted by its errors or its loss trades no more, however long ago the
\* errors were: only a new error would make the old ones be forgotten.
HaltedForever == [][Halted /\ Resting => (Halted' /\ Resting') \/ Crash]_vars

\* Neither halt is ever left but by a new process (crypto_agent.py:200-210).
HaltsAreForever == TrippedForever /\ HaltedForever

\* Between ticks an agent that may trade is within the drawdown limit of the
\* highest equity of its session.
DrawdownCaught ==
    pc = "idle" /\ ~kill => Equity(cash, qty, cache) * 100 >= highEq * (100 - DrawdownPct)

\* When an agent that resumes rests after a multiple of snapshot_every ticks, a stop and a
\* start, or a new process that resumes, would give it the very portfolio it has; nothing
\* is promised with resume off, nor of the trades of a tick in progress, of one that an
\* exception ended, or of the ticks since such a multiple (crypto_agent.py:152, 299-303).
SnapshotIsCurrent ==
    pc = "idle" /\ setup.resume /\ tickCounter % setup.every = 0 =>
        Restored.cash = cash /\ Restored.qty = qty

\* The trailing stop fires, when a symbol is decided on, for a position whose price
\* is TrailingPct or more below the price of the tick before.
TrailingStopFires ==
    [][\A price \in Prices :
        /\ Decide(price) /\ ~StrategyRaises(price)
        /\ qty[sym] > 0 /\ price * 100 <= cache[sym] * (100 - TrailingPct)
        => StopFires(price)]_vars
=============================================================================
