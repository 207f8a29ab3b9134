----------------------------- MODULE MCLearning -----------------------------
(***************************************************************************)
(* Learning for TLC, and the operators of TrainingData checked for all     *)
(* small arguments.                                                        *)
(***************************************************************************)
EXTENDS Learning, TrainingData

Prices == UNION {[1..n -> {0, 50, 100, 200}] : n \in 1..5}

\* What a row says of the past is final: one snapshot more leaves the rows before as they
\* were, but for the column made of the next price and the label, and that only in the
\* last of them.  That column is among those a model is trained on and gives the label
\* away (learning/features/offline.py:36-73, learning/models/supervised.py:61-70).
ASSUME PastIsFinal ==
    \A p \in Prices, next \in {0, 50, 100, 200} :
        LET before == Dataset(p)
            after == Dataset(Append(p, next))
        IN \A i \in 1..Len(p) :
            \/ after[i] = before[i]
            \/ /\ i = Len(p)
               /\ \A c \in Columns \ {"forward_return"} : after[i][c] = before[i][c]

\* The drawdown is the largest fall between two moments (learning/eval/backtest.py:18-30).
ASSUME DrawdownIsLargestFall ==
    \A returns \in UNION {[1..n -> -2..2] : n \in 1..4} :
        LET sums == Cumulative(returns)
            later == {sums[i] - sums[j] : <<i, j>> \in
                        {ij \in (1..Len(returns)) \X (1..Len(returns)) : ij[1] <= ij[2]}}
        IN /\ MaxDrawdown(returns) \in later
           /\ \A fall \in later : fall <= MaxDrawdown(returns)
=============================================================================
