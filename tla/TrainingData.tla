---------------------------- MODULE TrainingData ----------------------------
(***************************************************************************)
(* What the learning engine trains and judges its policies on: the rows    *)
(* made of the market snapshots (learning/features/offline.py), their      *)
(* split, the drawdown of the backtest (learning/eval/backtest.py), the    *)
(* histogram of the drift monitor (learning/eval/monitor.py) and the caps  *)
(* a policy may carry (learning/policy/builder.py).                        *)
(*                                                                         *)
(* Prices are whole, returns are in percent and rounded down; volume,     *)
(* rolling deviation and the profit of trades are left out: more columns   *)
(* made of the rows up to their own.                                       *)
(***************************************************************************)
EXTENDS Integers, Sequences

Larger(a, b) == IF a < b THEN b ELSE a
Smaller(a, b) == IF a < b THEN a ELSE b

Change(from, to) == IF from = 0 THEN 0 ELSE ((to - from) * 100) \div from

\* _rolling: the last `width` values up to the i-th.
Rolling(values, i, width) == SubSeq(values, Larger(1, i - width + 1), i)
Total(values) ==
    LET sum[i \in 0..Len(values)] == IF i = 0 THEN 0 ELSE sum[i - 1] + values[i]
    IN sum[Len(values)]
Mean(values) == IF values = <<>> THEN 0 ELSE Total(values) \div Len(values)

\* build_offline_dataset; the snapshots are sorted by their stamp.
Returns(prices) ==
    [i \in 1..Len(prices) |-> IF i = 1 THEN 0 ELSE Change(prices[i - 1], prices[i])]
Forward(prices, i) == IF i < Len(prices) THEN Change(prices[i], prices[i + 1]) ELSE 0
Dataset(prices) ==
    [i \in 1..Len(prices) |->
        [price |-> prices[i],
         return |-> Returns(prices)[i],
         rolling_return |-> Mean(Rolling(Returns(prices), i, 5)),
         forward_return |-> Forward(prices, i),
         label |-> Forward(prices, i) > 0]]

\* _prepare_xy: a model is trained on every column but the stamp and its target.
Columns == {"price", "return", "rolling_return", "forward_return"}

\* time_series_split; with nothing left to test on, the last training row serves again.
Cutoff(n, pct) == Larger(1, (n * pct) \div 100)
TrainRows(rows, pct) == SubSeq(rows, 1, Cutoff(Len(rows), pct))
TestRows(rows, pct) ==
    LET n == Len(rows)
        from == Cutoff(n, pct)
    IN IF from < n THEN SubSeq(rows, from + 1, n) ELSE SubSeq(rows, from, from)

\* run_backtest: the largest fall of the cumulative return from its peak so far, which
\* begins at the first return, not at 0.
Cumulative(returns) == [i \in 1..Len(returns) |-> Total(SubSeq(returns, 1, i))]
MaxDrawdown(returns) ==
    LET sums == Cumulative(returns)
        upTo[i \in 0..Len(returns)] ==
            IF i = 0 THEN [peak |-> -1000, worst |-> 0]
            ELSE LET peak == Larger(upTo[i - 1].peak, sums[i])
                 IN [peak |-> peak, worst |-> Larger(upTo[i - 1].worst, peak - sums[i])]
    IN upTo[Len(returns)].worst

\* DriftMonitor.check: the bucket, 0 to 9, of a value in the range of all of them.
Bucket(value, low, high) == Smaller(9, ((value - low) * 10) \div (high - low))

\* build_policy_bundle: what a policy asks for is cut to the caps of the engine.
Capped(asked, limit) == IF asked > limit THEN limit ELSE asked
=============================================================================
