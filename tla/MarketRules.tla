---------------------------- MODULE MarketRules ----------------------------
(***************************************************************************)
(* The arithmetic between a market's data and an order of the trading      *)
(* agents: the checks of the data (data/quality.py), what the strategy     *)
(* makes of them (strategies/momentum_ema.py), when an agent may act       *)
(* (utils/schedule.py, risk/cooldowns.py), the size of an order            *)
(* (risk/portfolio_limits.py, agents/utils/market_rules.py) and its        *)
(* booking (agents/utils/portfolio.py).  TradingAgent leaves open which    *)
(* data pass, what is decided and how small an order gets; here they are   *)
(* computed.                                                               *)
(*                                                                         *)
(* Numbers are whole: a quantity counts the smallest part an exchange      *)
(* knows, a price is paid per part, ratios are percentages.  Where the     *)
(* code divides floats, the result here is rounded down.                   *)
(***************************************************************************)
EXTENDS Integers, Sequences, FiniteSets, Functions

Least(a, b) == IF a < b THEN a ELSE b
Most(a, b) == IF a < b THEN b ELSE a
Distance(a, b) == IF a < b THEN b - a ELSE a - b

-----------------------------------------------------------------------------
(* data/quality.py *)

\* A candle has a stamp ts, a close and a volume; finite: neither of them is NaN or
\* infinite.  (Shorter rows are left out.)
Usable(candle) == candle.finite /\ candle.volume > 0

Gap(from, to, maxPct) == from > 0 /\ 100 * Distance(from, to) > maxPct * from

\* validate_ohlcv
ValidOhlcv(candles, maxGapPct) ==
    LET n == Len(candles) IN
    /\ n >= 2
    /\ \A i \in 1..n : Usable(candles[i])
    /\ \A i \in 2..n : candles[i - 1].ts < candles[i].ts
    /\ ~Gap(candles[n - 1].close, candles[n].close, maxGapPct)

\* The k-th smallest price, and twice the median.
Ranked(history, k) ==
    CHOOSE p \in Range(history) :
        /\ Cardinality({i \in DOMAIN history : history[i] < p}) < k
        /\ Cardinality({i \in DOMAIN history : history[i] <= p}) >= k
TwiceMedian(history) ==
    LET n == Len(history) IN Ranked(history, (n + 1) \div 2) + Ranked(history, n \div 2 + 1)

\* validate_ticker
ValidTicker(price, history, maxPct) ==
    /\ price > 0
    /\ history # <<>> => ~Gap(TwiceMedian(history), 2 * price, maxPct)

\* The last `width` values, or as many as there are.
Newest(values, width) == SubSeq(values, Most(1, Len(values) - width + 1), Len(values))

\* update_history, which the agent calls before it validates: a price is judged by a
\* history that it is part of, and a rejected price stays there.
UpdateHistory(history, price, window) ==
    Newest(Append(history, price), window)

-----------------------------------------------------------------------------
(* The strategy, as it computes with numpy, and its score *)

Average(values) == SumFunction(values) \div Len(values)

\* How far the average of the newest closes is above the average of more of them.
MomentumPct(fast, slow) == Most(0, Least(100, (100 * (fast - slow)) \div Most(1, slow)))

\* The deviation of the last 20 returns, times the root of 21, which is 100 at most.
VolatilityPct(closes) ==
    LET last == Newest(closes, 21)
        returns == [i \in 1..Len(last) - 1 |-> (100 * (last[i + 1] - last[i])) \div last[i]]
        variance == Average([i \in DOMAIN returns |-> (returns[i] - Average(returns)) ^ 2])
    IN CHOOSE pct \in 0..100 :
          pct ^ 2 <= 21 * variance /\ (pct = 100 \/ 21 * variance < (pct + 1) ^ 2)

\* signal_strength and to_signal, in hundredths of a percent.
Score(momentumPct, volPct, newsPct) == 50 * momentumPct + 30 * (100 - volPct) + 20 * newsPct
Signal(score) == IF score >= 6500 THEN "buy" ELSE IF score <= 3500 THEN "sell" ELSE "hold"

\* compute_features and signal; the news are always 0.5.
Decision(closes, fast, slow) ==
    LET momentum == MomentumPct(Average(Newest(closes, fast)), Average(Newest(closes, slow)))
    IN Signal(Score(momentum, VolatilityPct(closes), 50))

-----------------------------------------------------------------------------
(* When an agent may act *)

\* in_trading_session, in minutes of the day: a window over midnight is never open.
InSession(now, windows) == \E w \in windows : w.start <= now /\ now <= w.end

\* too_soon: only a try that was not too soon itself is remembered, whatever becomes of it.
TooSoon(now, last, duplicateSecs) == now - last < duplicateSecs
LastTry(now, last, duplicateSecs) == IF TooSoon(now, last, duplicateSecs) THEN last ELSE now

-----------------------------------------------------------------------------
(* The size of an order *)

\* round_step
RoundStep(qty, step) ==
    IF step <= 0 THEN Most(0, qty) ELSE (Most(0, qty) \div step) * step

\* Python's round() to a multiple of unit: to the nearest, a tie to the even one.
RoundTo(qty, unit) ==
    LET n == qty \div unit
        rest == qty % unit
    IN IF 2 * rest > unit \/ (2 * rest = unit /\ n % 2 = 1) THEN (n + 1) * unit ELSE n * unit

\* conform_qty; precision is the unit of the market's last decimal, 0 when it names none.
Conform(qty, market) ==
    LET rounded == RoundStep(qty, market.step)
    IN IF market.precision = 0 THEN rounded ELSE RoundTo(rounded, market.precision)

\* _kelly_multiplier and dynamic_notional_cap
KellyPct(volPct) == Most(10, Least(100, 10000 \div (100 + 5 * volPct)))
DynamicCap(volPct, target, maxTrade) == (Least(target, maxTrade) * KellyPct(volPct)) \div 100

\* risk_parity_targets, weighing with the inverse of a volatility of at least one percent.
Weight(volPct) == 10000 \div Most(volPct, 1)
RiskParity(volPct, total, maxTrade) ==
    LET weights == [s \in DOMAIN volPct |-> Weight(volPct[s])]
        cap == Least(total, maxTrade * Cardinality(DOMAIN volPct))
    IN [s \in DOMAIN volPct |-> (cap * weights[s]) \div SumFunction(weights)]

\* _available_cash
Available(cash, safetyPct) == (cash * safetyPct) \div 100

\* _handle_buy, up to the check of its caps; 0: nothing is bought.
BuyQty(available, price, cap, maxTrade, market) ==
    LET budget == Least(available, maxTrade)
        qty == Conform(Least(budget, cap) \div price, market)
    IN IF budget <= 0 \/ qty * price < market.minNotional THEN 0 ELSE qty

-----------------------------------------------------------------------------
(* Portfolio *)

\* Portfolio.buy: the average price of a position after qty more at price.
AvgPrice(avg, held, price, qty) ==
    IF held + qty > 0 THEN (avg * held + price * qty) \div (held + qty) ELSE 0

\* Portfolio.sell raises "insufficient position".
Oversold(qty, held) == qty > held
=============================================================================
