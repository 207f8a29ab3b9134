--------------------------- MODULE MCTradingAgent ---------------------------
(***************************************************************************)
(* TradingAgent for TLC, and the operators of MarketRules checked for all  *)
(* small arguments: what their proofs cannot reach (sums and medians).     *)
(***************************************************************************)
EXTENDS TradingAgent

\* A canary, live trading, and an agent that does not resume.
MCSetups ==
    {[share |-> 2, every |-> 1, resume |-> TRUE],
     [share |-> 1, every |-> 2, resume |-> TRUE],
     [share |-> 1, every |-> 2, resume |-> FALSE]}

\* The market of the second symbol knows even quantities only.
MCPrecision == [s \in {1, 2} |-> IF s = 2 THEN 2 ELSE 0]

\* The targets never add up to more than the total cap, and the calmer of two symbols
\* gets no smaller one (risk/portfolio_limits.py:27-39).
ASSUME TargetsShareTheCap ==
    \A volPct \in [1..3 -> {0, 3, 20, 50}], total \in {0, 7, 20}, maxTrade \in {0, 5, 9} :
        LET targets == RiskParity(volPct, total, maxTrade) IN
        /\ SumFunction(targets) <= Least(total, 3 * maxTrade)
        /\ \A s, t \in 1..3 : volPct[s] <= volPct[t] => targets[s] >= targets[t]

\* The history after n prices of a new level, from a window full of the old one.
Moved(n, window) == [i \in 1..window |-> IF i <= window - n THEN 100 ELSE 120]

\* A new price level out of the tolerated range is refused until it fills half of the
\* window and accepted from then on, although each price refused counts against the
\* breaker (data/quality.py:48-70, crypto_agent.py:253-259).
ASSUME LevelNeedsHalfTheWindow ==
    \A window \in 1..7 : \A n \in 0..window - 1 :
        LET history == UpdateHistory(Moved(n, window), 120, window) IN
        /\ history = Moved(n + 1, window)
        /\ ValidTicker(120, history, 5) <=> 2 * (n + 1) > window

\* Each decision can be reached: a steady surge is bought, a flat market held, and what is
\* sold is a market that swings, though it falls no more than it rises
\* (strategies/momentum_ema.py:43-70, quant/scoring.py:21-30).
ASSUME SwingsAreSold ==
    /\ Decision(<<1, 2, 4, 8>>, 2, 4) = "buy"
    /\ Decision(<<4, 4, 4, 4>>, 2, 4) = "hold" /\ Decision(<<8, 4, 2, 1>>, 2, 4) = "hold"
    /\ Decision(<<2, 4, 2, 4>>, 2, 4) = "sell"

\* A precision coarser than the step rounds up: an order may exceed what it was
\* computed from, and a sale what is held (agents/utils/market_rules.py:20-21).
ASSUME CoarsePrecisionOversells ==
    \E held \in 1..20 : Oversold(Conform(held, [step |-> 1, precision |-> 10]), held)
=============================================================================
