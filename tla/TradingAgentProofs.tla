------------------------ MODULE TradingAgentProofs ------------------------
(***************************************************************************)
(* Theorems about the operators of MarketRules, for all quantities, prices *)
(* and limits, and about TradingAgent, for any symbols, prices, caps and   *)
(* number of ticks, proved with TLAPS.                                     *)
(***************************************************************************)
EXTENDS TradingAgent, SequenceTheorems, FiniteSetTheorems, TLAPS

LEMMA Division ==
    ASSUME NEW a \in Nat, NEW b \in Nat \ {0}
    PROVE  /\ a \div b \in Nat /\ a % b \in 0..(b - 1)
           /\ a = b * (a \div b) + (a % b)
OBVIOUS

LEMMA DivisionBelow ==
    ASSUME NEW a \in Nat, NEW b \in Nat \ {0}
    PROVE  (a \div b) * b <= a /\ a - (a \div b) * b < b
BY Division

\* round_step never rounds up, and loses less than a step (market_rules.py:7-11).
THEOREM RoundStepBelow ==
    ASSUME NEW amount \in Nat, NEW step \in Nat
    PROVE  /\ RoundStep(amount, step) \in 0..amount
           /\ step > 0 => amount - RoundStep(amount, step) < step
<1>1. Most(0, amount) = amount
  BY DEF Most
<1>2. CASE step = 0
  BY <1>1, <1>2 DEF RoundStep
<1>3. CASE step > 0
  <2>1. (amount \div step) * step \in Nat
    BY <1>3, Division
  <2>2. (amount \div step) * step <= amount /\ amount - (amount \div step) * step < step
    BY <1>3, DivisionBelow
  <2>3. RoundStep(amount, step) = (amount \div step) * step
    BY <1>1, <1>3 DEF RoundStep
  <2> HIDE DEF RoundStep
  <2> QED BY <2>1, <2>2, <2>3
<1> QED BY <1>2, <1>3

\* round() misses a quantity by half of its unit at most, in either direction, and keeps
\* what is a multiple of the unit.
LEMMA RoundToNear ==
    ASSUME NEW amount \in Nat, NEW unit \in Nat \ {0}
    PROVE  /\ RoundTo(amount, unit) \in Nat
           /\ 2 * RoundTo(amount, unit) <= 2 * amount + unit
           /\ amount % unit = 0 => RoundTo(amount, unit) = amount
<1> DEFINE n == amount \div unit
           rest == amount % unit
<1>1. n \in Nat /\ rest \in 0..(unit - 1) /\ amount = unit * n + rest
  BY Division
<1>2. (n + 1) * unit = unit * n + unit /\ n * unit = unit * n /\ unit * n \in Nat
  BY <1>1
<1>3. \/ RoundTo(amount, unit) = (n + 1) * unit /\ 2 * rest >= unit
      \/ RoundTo(amount, unit) = n * unit
  BY <1>1 DEF RoundTo
<1>4. rest = 0 => RoundTo(amount, unit) = n * unit
  BY <1>1 DEF RoundTo
<1> HIDE DEF n, rest
<1>5. rest = 0 => RoundTo(amount, unit) = amount
  BY <1>1, <1>2, <1>4
<1>6. RoundTo(amount, unit) \in Nat /\ 2 * RoundTo(amount, unit) <= 2 * amount + unit
  BY <1>1, <1>2, <1>3
<1> QED BY <1>5, <1>6 DEF rest

-----------------------------------------------------------------------------
(* Quantities. *)

\* A market whose last decimal is no coarser than its step, as a well-formed entry says.
Fine(market) ==
    \/ market.precision = 0
    \/ \E k \in Nat \ {0} : market.step = k * market.precision

LEMMA MultipleHasNoRest ==
    ASSUME NEW k \in Nat, NEW b \in Nat \ {0}
    PROVE  (k * b) % b = 0
<1>1. PICK a \in Nat : a = k * b
  OBVIOUS
<1>2. PICK d \in Nat, r \in 0..(b - 1) : k * b = b * d + r /\ r = (k * b) % b
  BY <1>1, Division
<1>3. r = b * (k - d)
  BY <1>2
<1>4. CASE k - d >= 1
  BY <1>2, <1>3, <1>4
<1>5. CASE k - d <= 0
  BY <1>2, <1>3, <1>5
<1> QED BY <1>2, <1>4, <1>5

\* A quantity made to conform is at most the one asked for when the market's precision fits
\* its step; otherwise it exceeds it by up to half of the last decimal's unit
\* (market_rules.py:14-22).
THEOREM ConformBelow ==
    ASSUME NEW amount \in Nat, NEW market, market.step \in Nat, market.precision \in Nat
    PROVE  /\ Conform(amount, market) \in Nat
           /\ 2 * Conform(amount, market) <= 2 * amount + market.precision
           /\ Fine(market) => Conform(amount, market) <= amount
<1> DEFINE rounded == RoundStep(amount, market.step)
<1>1. rounded \in 0..amount
  BY RoundStepBelow
<1>2. CASE market.precision = 0
  <2>1. Conform(amount, market) = rounded
    BY <1>2 DEF Conform
  <2> QED BY <1>1, <1>2, <2>1
<1>3. CASE market.precision > 0
  <2>1. Conform(amount, market) = RoundTo(rounded, market.precision)
    BY <1>3 DEF Conform
  <2>2. /\ Conform(amount, market) \in Nat
        /\ 2 * Conform(amount, market) <= 2 * rounded + market.precision
        /\ rounded % market.precision = 0 => Conform(amount, market) = rounded
    <3>1. PICK q \in Nat, unit \in Nat \ {0} : q = rounded /\ unit = market.precision
      BY <1>1, <1>3
    <3>2. /\ RoundTo(q, unit) \in Nat /\ 2 * RoundTo(q, unit) <= 2 * q + unit
          /\ q % unit = 0 => RoundTo(q, unit) = q
      BY RoundToNear
    <3> HIDE DEF rounded
    <3> QED BY <2>1, <3>1, <3>2
  <2>3. ASSUME NEW k \in Nat \ {0}, market.step = k * market.precision
        PROVE  rounded % market.precision = 0
    <3>1. market.step \in Nat \ {0} /\ Most(0, amount) = amount
      BY <1>3, <2>3 DEF Most
    <3>2. rounded = (amount \div market.step) * market.step /\ amount \div market.step \in Nat
      BY <3>1, Division DEF RoundStep
    <3>3. PICK m \in Nat : rounded = m * market.step
      BY <3>2
    <3>4. rounded = (m * k) * market.precision /\ m * k \in Nat
      BY <2>3, <3>3
    <3> QED BY <1>3, <3>4, MultipleHasNoRest
  <2>4. Fine(market) => Conform(amount, market) <= amount
    BY <1>1, <1>3, <2>2, <2>3 DEF Fine
  <2> HIDE DEF rounded
  <2> QED BY <1>1, <2>2, <2>4
<1> QED BY <1>2, <1>3

\* What is offered of a position sold whole exceeds what is held by half of the last
\* decimal's unit at most; where the market's precision fits its step it does not exceed
\* it, and Portfolio.sell accepts it (crypto_agent.py:454, portfolio.py:30-33).
THEOREM SellIsCovered ==
    ASSUME NEW held \in Nat, NEW market, market.step \in Nat, market.precision \in Nat,
           NEW amount, amount = Conform(held, market)
    PROVE  /\ Oversold(amount, held) => 2 * (amount - held) <= market.precision
           /\ Fine(market) => ~Oversold(amount, held)
<1>1. /\ amount \in Nat /\ 2 * amount <= 2 * held + market.precision
      /\ Fine(market) => amount <= held
  BY ConformBelow
<1> QED BY <1>1 DEF Oversold

-----------------------------------------------------------------------------
(* Caps. *)

\* The multiplier takes a tenth of the cap at least and the whole at most
\* (portfolio_limits.py:9-13).
LEMMA KellyBounds ==
    ASSUME NEW volPct \in Nat
    PROVE  KellyPct(volPct) \in 10..100
<1>1. 10000 \div (100 + 5 * volPct) \in Nat
  BY Division
<1> QED BY <1>1 DEF KellyPct, Most, Least

\* The volatility only makes a cap smaller (portfolio_limits.py:16-24).
THEOREM CapShrinks ==
    ASSUME NEW volPct \in Nat, NEW target \in Nat, NEW maxTrade \in Nat
    PROVE  /\ DynamicCap(volPct, target, maxTrade) \in Nat
           /\ DynamicCap(volPct, target, maxTrade) <= target
           /\ DynamicCap(volPct, target, maxTrade) <= maxTrade
<1>1. PICK base \in Nat : base = Least(target, maxTrade) /\ base <= target /\ base <= maxTrade
  BY DEF Least
<1>2. PICK pct \in 10..100 : pct = KellyPct(volPct)
  BY KellyBounds
<1>3. base * pct \in Nat /\ base * pct <= base * 100
  BY <1>2
<1>4. (base * pct) \div 100 \in Nat /\ (base * pct) \div 100 <= base
  BY <1>3
<1>5. DynamicCap(volPct, target, maxTrade) = (base * pct) \div 100
  BY <1>1, <1>2 DEF DynamicCap
<1> QED BY <1>1, <1>4, <1>5

\* What _handle_buy hands to the checks costs no less than the exchange's minimum and no
\* more than any of the cash available, the cap of a trade and the cap of the symbol where
\* the market's precision fits its step.  Elsewhere its last rounding, which no check of the
\* cash follows, may exceed each of them by the price of half of the last decimal's unit.
\* TradingAgent's Buy chooses from this range (crypto_agent.py:425-435).
THEOREM BuyWithinCaps ==
    ASSUME NEW available \in Int, NEW price \in Nat \ {0}, NEW cap \in Nat,
           NEW maxTrade \in Nat, NEW market, market.step \in Nat, market.precision \in Nat,
           market.minNotional \in Nat,
           NEW amount, amount = BuyQty(available, price, cap, maxTrade, market), amount # 0,
           NEW limit \in {available, maxTrade, cap}
    PROVE  /\ amount \in Nat /\ amount * price >= market.minNotional
           /\ 2 * (amount * price) <= 2 * limit + market.precision * price
           /\ Fine(market) => amount * price <= limit
<1> DEFINE budget == Least(available, maxTrade)
           asked == Least(budget, cap) \div price
<1>0. amount = IF budget <= 0 \/ Conform(asked, market) * price < market.minNotional THEN 0
            ELSE Conform(asked, market)
  BY DEF BuyQty
<1>1. ~(budget <= 0) /\ amount = Conform(asked, market) /\ ~(amount * price < market.minNotional)
  <2> HIDE DEF budget, asked
  <2> QED BY <1>0
<1>2. budget \in Nat /\ budget <= available /\ budget <= maxTrade
  BY <1>1 DEF Least
<1>3. /\ Least(budget, cap) \in Nat
      /\ Least(budget, cap) <= budget /\ Least(budget, cap) <= cap
  BY <1>2 DEF Least
<1>4. asked \in Nat /\ asked * price <= Least(budget, cap)
  BY <1>3, Division, DivisionBelow
<1> HIDE DEF budget, asked
<1>5. asked * price \in Nat /\ limit \in Int /\ asked * price <= limit
  BY <1>2, <1>3, <1>4
<1>6. /\ amount \in Nat /\ 2 * amount <= 2 * asked + market.precision
      /\ Fine(market) => amount <= asked
  BY <1>1, <1>4, ConformBelow
<1>7. PICK unit \in Nat : unit = market.precision
  OBVIOUS
<1>8. 2 * (amount * price) <= 2 * (asked * price) + unit * price
  <2>1. (2 * amount) * price <= (2 * asked + unit) * price
    BY <1>4, <1>6, <1>7
  <2>2. /\ (2 * amount) * price = 2 * (amount * price)
        /\ (2 * asked + unit) * price = 2 * (asked * price) + unit * price
    BY <1>4, <1>6
  <2> QED BY <2>1, <2>2
<1>9. 2 * (amount * price) <= 2 * limit + market.precision * price
  <2>1. amount * price \in Nat /\ unit * price \in Nat
    BY <1>6
  <2> QED BY <1>5, <1>7, <1>8, <2>1
<1>10. ASSUME Fine(market) PROVE amount * price <= limit
  <2>1. amount * price \in Nat /\ amount * price <= asked * price
    BY <1>4, <1>6, <1>10
  <2> QED BY <1>5, <2>1
<1>11. amount * price >= market.minNotional
  <2>1. amount * price \in Nat
    BY <1>6
  <2> QED BY <1>1, <2>1
<1> QED BY <1>6, <1>9, <1>10, <1>11

-----------------------------------------------------------------------------
(* Booking and the history of prices. *)

\* The average price of a position lies between the old one and the price paid
\* (portfolio.py:21-28).
THEOREM AverageBetween ==
    ASSUME NEW avg \in Nat, NEW held \in Nat, NEW price \in Nat, NEW amount \in Nat \ {0}
    PROVE  /\ Least(avg, price) <= AvgPrice(avg, held, price, amount)
           /\ AvgPrice(avg, held, price, amount) <= Most(avg, price)
<1> DEFINE total == held + amount
           worth == avg * held + price * amount
<1>1. PICK low \in Nat, high \in Nat :
        /\ low = Least(avg, price) /\ high = Most(avg, price)
        /\ low <= avg /\ low <= price /\ avg <= high /\ price <= high
  BY DEF Least, Most
<1>2. low * held <= avg * held /\ avg * held <= high * held
  BY <1>1
<1>3. low * amount <= price * amount /\ price * amount <= high * amount
  BY <1>1
<1>4. worth \in Nat /\ total \in Nat \ {0} /\ low * total <= worth /\ worth <= high * total
  BY <1>2, <1>3
<1>5. AvgPrice(avg, held, price, amount) = worth \div total
  BY DEF AvgPrice
<1> HIDE DEF total, worth
<1>6. PICK q \in Nat, r \in 0..(total - 1) : q = worth \div total /\ worth = total * q + r
  BY <1>4, Division
<1>7. low <= q
  <2> SUFFICES ASSUME q + 1 <= low PROVE FALSE
    BY <1>6
  <2>1. total * (q + 1) <= total * low
    BY <1>4
  <2> QED BY <1>4, <1>6, <2>1
<1>8. q <= high
  <2> SUFFICES ASSUME high + 1 <= q PROVE FALSE
    BY <1>6
  <2>1. total * (high + 1) <= total * q
    BY <1>4, <1>6
  <2> QED BY <1>4, <1>6, <2>1
<1> QED BY <1>1, <1>5, <1>6, <1>7, <1>8

\* The strategy buys nothing but a surge: the average of the newest closes is at least half
\* above that of the longer series, and more the more prices swing.  It sells on swings
\* alone, however prices go (momentum_ema.py:43-52, scoring.py:21-30).
THEOREM BuyNeedsSurge ==
    ASSUME NEW fast \in Nat, NEW slow \in Nat, NEW volPct \in 0..100,
           NEW momentum, momentum = MomentumPct(fast, slow),
           NEW signal, signal = Signal(Score(momentum, volPct, 50))
    PROVE  /\ signal = "buy" => 2 * fast >= 3 * slow /\ 5 * momentum >= 250 + 3 * volPct
           /\ signal = "sell" => 3 * volPct >= 50 + 5 * momentum
<1>1. PICK base \in Nat \ {0} : base = Most(1, slow) /\ (slow > 0 => base = slow)
  BY DEF Most
<1>2. PICK rise \in Int : rise = (100 * (fast - slow)) \div base
  BY <1>1
<1>3. momentum = Most(0, Least(100, rise))
  BY <1>1, <1>2 DEF MomentumPct
<1>4. momentum \in 0..100 /\ (momentum > 0 => rise >= momentum)
  BY <1>3 DEF Most, Least
<1>5. /\ signal = "buy" => 50 * momentum + 30 * (100 - volPct) + 1000 >= 6500
      /\ signal = "sell" => 50 * momentum + 30 * (100 - volPct) + 1000 <= 3500
  BY <1>4 DEF Signal, Score
<1>6. ASSUME momentum >= 50 PROVE 2 * fast >= 3 * slow
  <2>1. CASE slow = 0
    BY <2>1
  <2>2. CASE slow > 0
    <3>1. rise >= 50 /\ base = slow
      BY <1>1, <1>4, <1>6, <2>2
    <3>2. PICK a \in Int : a = 100 * (fast - slow)
      OBVIOUS
    <3>3. a = slow * rise + (a % slow) /\ a % slow \in 0..(slow - 1)
      BY <1>2, <2>2, <3>1, <3>2
    <3>4. PICK over \in Nat : rise = 50 + over
      BY <1>2, <3>1
    <3>5. slow * rise = 50 * slow + slow * over /\ slow * over \in Nat
      BY <2>2, <3>4
    <3> QED BY <2>2, <3>2, <3>3, <3>5
  <2> QED BY <2>1, <2>2
<1>7. signal = "buy" => 5 * momentum >= 250 + 3 * volPct /\ momentum >= 50
  BY <1>4, <1>5
<1>8. signal = "sell" => 3 * volPct >= 50 + 5 * momentum
  BY <1>4, <1>5
<1> QED BY <1>6, <1>7, <1>8

LEMMA Ending ==
    ASSUME NEW s \in Seq(Nat), NEW first \in 1..Len(s), NEW new, new = SubSeq(s, first, Len(s))
    PROVE  /\ new \in Seq(Nat) /\ Len(new) = Len(s) - first + 1 /\ new[Len(new)] = s[Len(s)]
           /\ \A i \in 1..Len(new) : new[i] = s[first + i - 1]
<1>1. PICK n \in Nat : n = Len(s) /\ first \in 1..n
  OBVIOUS
<1>2. \A i \in first..n : s[i] \in Nat
  BY <1>1
<1>3. first \in Nat \ {0} /\ n >= first
  BY <1>1
<1>4. new = SubSeq(s, first, n)
  BY <1>1
<1>5. Len(new) = n - first + 1
  BY <1>1, <1>3, <1>4
<1>6. new = [i \in 1..(n - first + 1) |-> s[i + first - 1]]
  BY <1>1, <1>3, <1>4
<1>7. \A i \in 1..(n - first + 1) : i + first - 1 \in first..n /\ i + first - 1 = first + i - 1
  BY <1>1
<1>8. new \in [1..(n - first + 1) -> Nat]
  BY <1>2, <1>6, <1>7
<1>9. new \in Seq(Nat)
  <2>1. n - first + 1 \in Nat
    BY <1>1
  <2> QED BY <1>8, <2>1, SMTT(30)
<1>10. \A i \in 1..(n - first + 1) : new[i] = s[first + i - 1]
  BY <1>6, <1>7
<1> QED BY <1>1, <1>5, <1>9, <1>10

\* The history keeps the newest prices, its window's worth at most, and ends with the price
\* that is about to be judged by it (quality.py:67-70).
THEOREM HistoryEndsWithThePrice ==
    ASSUME NEW history \in Seq(Nat), NEW price \in Nat, NEW window \in Nat \ {0},
           NEW new, new = UpdateHistory(history, price, window)
    PROVE  /\ new \in Seq(Nat) /\ Len(new) = Least(Len(history) + 1, window)
           /\ new[Len(new)] = price
           /\ \A i \in 1..(Len(new) - 1) : new[i] = history[Len(history) + 1 - Len(new) + i]
<1>1. PICK longer : longer = Append(history, price)
  OBVIOUS
<1>2. PICK n \in Nat : n = Len(history)
  OBVIOUS
<1>3. /\ longer \in Seq(Nat) /\ Len(longer) = n + 1 /\ longer[n + 1] = price
      /\ \A i \in 1..n : longer[i] = history[i]
  BY <1>1, <1>2
<1>4. PICK first \in Nat : first = IF window <= n THEN n + 2 - window ELSE 1
  <2>1. CASE window <= n
    BY <2>1
  <2>2. CASE ~(window <= n)
    BY <2>2
  <2> QED BY <2>1, <2>2
<1>5. first \in 1..(n + 1) /\ n + 1 - first + 1 = Least(n + 1, window)
  BY <1>4 DEF Least
<1>6. new = SubSeq(longer, first, Len(longer))
  <2>1. new = SubSeq(longer, Most(1, Len(longer) - window + 1), Len(longer))
    BY <1>1 DEF UpdateHistory, Newest
  <2>2. Most(1, Len(longer) - window + 1) = first
    BY <1>3, <1>4 DEF Most
  <2> QED BY <2>1, <2>2
<1>7. /\ new \in Seq(Nat) /\ Len(new) = n + 1 - first + 1 /\ new[Len(new)] = longer[n + 1]
      /\ \A i \in 1..Len(new) : new[i] = longer[first + i - 1]
  BY <1>3, <1>5, <1>6, Ending
<1>8. ASSUME NEW i \in 1..(Len(new) - 1) PROVE new[i] = history[n + 1 - Len(new) + i]
  <2>0. PICK m \in Nat : m = Len(new) /\ m = n + 1 - first + 1 /\ i \in 1..(m - 1)
    BY <1>5, <1>7
  <2>1. first + i - 1 \in 1..n /\ n + 1 - Len(new) + i = first + i - 1 /\ i \in 1..Len(new)
    BY <1>5, <2>0
  <2> QED BY <1>3, <1>7, <2>1
<1> QED BY <1>2, <1>3, <1>5, <1>7, <1>8

-----------------------------------------------------------------------------
(* Sums over finite sets. *)

LEMMA LeastExists ==
    ASSUME NEW S \in SUBSET Nat, S # {}
    PROVE  \E n \in S : \A m \in S : n <= m
<1> DEFINE R == OpToRel(<, Nat)
<1>1. \A m, n \in Nat : <<m, n>> \in R <=> m < n
  BY DEF OpToRel
<1>2. PICK n \in S : \A m \in S : ~ (<<m, n>> \in R)
  <2> HIDE DEF R
  <2>1. IsWellFoundedOn(R, Nat)
    BY NatLessThanWellFounded DEF R
  <2> QED BY <2>1, WFMin
<1> HIDE DEF R
<1>3. \A m \in S : ~(m < n)
  BY <1>1, <1>2
<1> QED BY <1>3

\* Induction over the subsets of a finite set, the claim given as the set of those of which
\* it holds.
LEMMA SubsetInduction ==
    ASSUME NEW D, IsFiniteSet(D), NEW Good,
           \A s \in SUBSET D : (\A t \in SUBSET s : t # s => t \in Good) => s \in Good
    PROVE  \A s \in SUBSET D : s \in Good
<1> DEFINE Bad == {s \in SUBSET D : s \notin Good}
           Sizes == {Cardinality(s) : s \in Bad}
<1> SUFFICES ASSUME Bad # {} PROVE FALSE
  OBVIOUS
<1>1. \A s \in SUBSET D : IsFiniteSet(s) /\ Cardinality(s) \in Nat
  BY FS_Subset, FS_CardinalityType
<1>2. PICK n \in Sizes : \A m \in Sizes : n <= m
  <2>1. Sizes \in SUBSET Nat /\ Sizes # {}
    BY <1>1
  <2> HIDE DEF Sizes
  <2> QED BY <2>1, LeastExists
<1>3. PICK s \in Bad : n = Cardinality(s)
  OBVIOUS
<1>4. \A t \in SUBSET s : t # s => Cardinality(t) < Cardinality(s)
  <2> TAKE t \in SUBSET s
  <2>1. Cardinality(t) <= Cardinality(s) /\ (Cardinality(s) = Cardinality(t) => s = t)
    BY <1>1, FS_Subset
  <2> QED BY <1>1, <2>1
<1>5. \A t \in SUBSET s : t # s => t \in Good
  <2> SUFFICES ASSUME NEW t \in SUBSET s, t # s, t \in Bad PROVE FALSE
    OBVIOUS
  <2>1. n <= Cardinality(t)
    BY <1>2
  <2> QED BY <1>1, <1>3, <1>4, <2>1
<1> QED BY <1>5

-----------------------------------------------------------------------------
Pick(s) == CHOOSE x \in s : TRUE

\* What a sum over D goes through: its sums over the subsets of D.
Adds(f, D, g) ==
    g = [s \in SUBSET D |-> IF s = {} THEN 0 ELSE f[Pick(s)] + g[s \ {Pick(s)}]]

LEMMA SumIsChosen ==
    ASSUME NEW f, NEW D
    PROVE  SumFunctionOnSet(f, D) = (CHOOSE g : Adds(f, D, g))[D]
BY DEF SumFunctionOnSet, FoldFunctionOnSet, MapThenFoldSet, Adds, Pick

LEMMA PickIn == ASSUME NEW s, s # {} PROVE Pick(s) \in s
BY DEF Pick

\* By induction on n: on the subsets of up to n elements the sums exist.
LEMMA AddsExists ==
    ASSUME NEW f, NEW D, IsFiniteSet(D)
    PROVE  \E g : Adds(f, D, g)
<1> DEFINE Upto(n) == {s \in SUBSET D : Cardinality(s) <= n}
           Following(g, s) == IF s = {} THEN 0 ELSE f[Pick(s)] + g[s \ {Pick(s)}]
           Has(n) == \E g : g = [s \in Upto(n) |-> Following(g, s)]
           Bad == {n \in Nat : ~Has(n)}
<1>1. \A s \in SUBSET D : IsFiniteSet(s) /\ Cardinality(s) \in Nat
  BY FS_Subset, FS_CardinalityType
<1>2. Bad = {}
  <2> SUFFICES ASSUME Bad # {} PROVE FALSE
    OBVIOUS
  <2>1. PICK n \in Bad : \A m \in Bad : n <= m
    <3> HIDE DEF Has
    <3>1. Bad \in SUBSET Nat
      OBVIOUS
    <3> HIDE DEF Bad
    <3> QED BY <3>1, LeastExists
  <2>2. CASE n = 0
    <3>1. \A s \in Upto(0) : s = {}
      BY <1>1, FS_EmptySet
    <3> DEFINE g == [s \in Upto(0) |-> 0]
    <3>2. g = [s \in Upto(0) |-> Following(g, s)]
      BY <3>1
    <3>3. Has(0)
      <4> HIDE DEF g
      <4> QED BY <3>2
    <3> QED BY <2>1, <2>2, <3>3
  <2>3. CASE n # 0
    <3>1. n - 1 \in Nat /\ Has(n - 1) /\ n \in Nat
      <4> HIDE DEF Has
      <4> QED BY <2>1, <2>3
    <3>2. PICK g : g = [s \in Upto(n - 1) |-> Following(g, s)]
      BY <3>1
    <3> DEFINE h == [s \in Upto(n) |-> Following(g, s)]
    <3>3. ASSUME NEW s \in Upto(n) PROVE Following(g, s) = Following(h, s)
      <4>1. CASE s = {}
        BY <4>1
      <4>2. CASE s # {}
        <5> DEFINE t == s \ {Pick(s)}
        <5>1. Cardinality(t) = Cardinality(s) - 1 /\ t \in SUBSET D
          BY <1>1, <4>2, PickIn, FS_RemoveElement
        <5>2. t \in Upto(n - 1) /\ t \in Upto(n)
          BY <1>1, <3>1, <5>1
        <5>3. g[t] = Following(g, t) /\ h[t] = Following(g, t)
          <6> HIDE DEF t, Following, Upto
          <6> QED BY <3>2, <5>2 DEF h
        <5> QED BY <4>2, <5>3
      <4> QED BY <4>1, <4>2
    <3>4. h = [s \in Upto(n) |-> Following(h, s)]
      <4> HIDE DEF Following, Upto
      <4> DEFINE k == [s \in Upto(n) |-> Following(h, s)]
      <4>1. DOMAIN h = DOMAIN k /\ \A s \in Upto(n) : h[s] = k[s]
        BY <3>3
      <4> QED BY <4>1
    <3>5. Has(n)
      <4> HIDE DEF h
      <4> QED BY <3>4
    <3> QED BY <2>1, <3>5
  <2> QED BY <2>2, <2>3
<1>3. Has(Cardinality(D))
  <2> HIDE DEF Has
  <2> QED BY <1>1, <1>2
<1>4. Upto(Cardinality(D)) = SUBSET D
  BY FS_Subset
<1> QED BY <1>3, <1>4 DEF Adds

\* The sums are those of the functions, however large a set they are taken for.
LEMMA AddsUnique ==
    ASSUME NEW f, NEW g, NEW D, NEW E, NEW F, NEW G, IsFiniteSet(D), IsFiniteSet(E),
           Adds(f, D, F), Adds(g, E, G),
           NEW s \in SUBSET (D \cap E), \A i \in s : f[i] = g[i]
    PROVE  F[s] = G[s]
<1> DEFINE Good == {t \in SUBSET s : F[t] = G[t]}
<1>1. IsFiniteSet(s)
  BY FS_Subset
<1>2. ASSUME NEW t \in SUBSET s, \A u \in SUBSET t : u # t => u \in Good
      PROVE  t \in Good
  <2>1. /\ F[t] = IF t = {} THEN 0 ELSE f[Pick(t)] + F[t \ {Pick(t)}]
        /\ G[t] = IF t = {} THEN 0 ELSE g[Pick(t)] + G[t \ {Pick(t)}]
    BY DEF Adds
  <2>2. t # {} => Pick(t) \in t
    BY PickIn
  <2>3. t # {} => F[t \ {Pick(t)}] = G[t \ {Pick(t)}]
    BY <1>2, <2>2
  <2> QED BY <2>1, <2>2, <2>3
<1>3. s \in Good
  <2> HIDE DEF Good
  <2> QED BY <1>1, <1>2, SubsetInduction
<1> QED BY <1>3

LEMMA SumAdds ==
    ASSUME NEW f, NEW D, IsFiniteSet(D), NEW F, Adds(f, D, F), NEW s \in SUBSET D
    PROVE  SumFunctionOnSet(f, s) = F[s]
<1>1. IsFiniteSet(s)
  BY FS_Subset
<1> DEFINE G == CHOOSE G : Adds(f, s, G)
<1>2. Adds(f, s, G)
  BY <1>1, AddsExists
<1>3. SumFunctionOnSet(f, s) = G[s]
  BY SumIsChosen
<1> HIDE DEF G
<1> QED BY <1>1, <1>2, <1>3, AddsUnique

LEMMA SumFold ==
    ASSUME NEW f, NEW D, IsFiniteSet(D)
    PROVE  SumFunctionOnSet(f, D) =
               IF D = {} THEN 0 ELSE f[Pick(D)] + SumFunctionOnSet(f, D \ {Pick(D)})
<1>1. PICK F : Adds(f, D, F)
  BY AddsExists
<1>2. F[D] = IF D = {} THEN 0 ELSE f[Pick(D)] + F[D \ {Pick(D)}]
  BY <1>1 DEF Adds
<1>3. \A s \in SUBSET D : SumFunctionOnSet(f, s) = F[s]
  BY <1>1, SumAdds
<1> QED BY <1>2, <1>3

LEMMA SumType ==
    ASSUME NEW f, NEW D, IsFiniteSet(D), \A i \in D : f[i] \in Nat
    PROVE  SumFunctionOnSet(f, D) \in Nat
<1> DEFINE Good == {s \in SUBSET D : SumFunctionOnSet(f, s) \in Nat}
<1>1. ASSUME NEW s \in SUBSET D, \A t \in SUBSET s : t # s => t \in Good
      PROVE  s \in Good
  <2>1. IsFiniteSet(s)
    BY FS_Subset
  <2>2. CASE s = {}
    <3>1. SumFunctionOnSet(f, s) = 0
      BY <2>1, <2>2, SumFold
    <3> QED BY <3>1
  <2>3. CASE s # {}
    <3>1. Pick(s) \in s /\ s \ {Pick(s)} # s
      BY <2>3, PickIn
    <3>2. SumFunctionOnSet(f, s \ {Pick(s)}) \in Nat
      BY <1>1, <3>1
    <3>3. SumFunctionOnSet(f, s) = f[Pick(s)] + SumFunctionOnSet(f, s \ {Pick(s)})
      BY <2>1, <2>3, SumFold
    <3> QED BY <3>1, <3>2, <3>3
  <2> QED BY <2>2, <2>3
<1>2. D \in Good
  <2> HIDE DEF Good
  <2> QED BY <1>1, SubsetInduction
<1> QED BY <1>2

\* Any element may be taken out first.
LEMMA SumTakesOut ==
    ASSUME NEW f, NEW D, IsFiniteSet(D), \A i \in D : f[i] \in Nat, NEW x \in D
    PROVE  SumFunctionOnSet(f, D) = f[x] + SumFunctionOnSet(f, D \ {x})
<1> DEFINE Sum(s) == SumFunctionOnSet(f, s)
           Good == {s \in SUBSET D : \A y \in s : Sum(s) = f[y] + Sum(s \ {y})}
<1>1. \A s \in SUBSET D : IsFiniteSet(s) /\ Sum(s) \in Nat
  <2> TAKE s \in SUBSET D
  <2>1. IsFiniteSet(s)
    BY FS_Subset
  <2> QED BY <2>1, SumType
<1>2. ASSUME NEW s \in SUBSET D, \A t \in SUBSET s : t # s => t \in Good
      PROVE  s \in Good
  <2> SUFFICES ASSUME NEW y \in s PROVE Sum(s) = f[y] + Sum(s \ {y})
    OBVIOUS
  <2> DEFINE z == Pick(s)
  <2>1. z \in s
    BY PickIn
  <2>2. Sum(s) = f[z] + Sum(s \ {z})
    BY <1>1, SumFold
  <2>3. CASE y # z
    <3>1. (s \ {z}) \ {y} = (s \ {y}) \ {z}
      OBVIOUS
    <3>2. Sum(s \ {z}) = f[y] + Sum((s \ {z}) \ {y})
      <4>1. s \ {z} \in Good /\ y \in s \ {z}
        BY <1>2, <2>1, <2>3
      <4> QED BY <4>1
    <3>3. Sum(s \ {y}) = f[z] + Sum((s \ {y}) \ {z})
      <4>1. s \ {y} \in Good /\ z \in s \ {y}
        BY <1>2, <2>1, <2>3
      <4> QED BY <4>1
    <3>4. /\ f[y] \in Nat /\ f[z] \in Nat /\ Sum((s \ {y}) \ {z}) \in Nat
          /\ Sum(s \ {y}) \in Nat /\ Sum(s \ {z}) \in Nat
      BY <1>1, <2>1
    <3>5. \A a, b, u \in Nat : a + (b + u) = b + (a + u)
      OBVIOUS
    <3>6. f[z] + (f[y] + Sum((s \ {y}) \ {z})) = f[y] + (f[z] + Sum((s \ {y}) \ {z}))
      BY <3>4, <3>5
    <3>7. Sum(s \ {z}) = f[y] + Sum((s \ {y}) \ {z})
      BY <3>1, <3>2
    <3> QED BY <2>2, <3>3, <3>6, <3>7
  <2> QED BY <2>2, <2>3
<1>3. D \in Good
  <2> HIDE DEF Good
  <2> QED BY <1>2, SubsetInduction
<1> QED BY <1>3

LEMMA SumEmpty ==
    ASSUME NEW f
    PROVE  SumFunctionOnSet(f, {}) = 0
BY SumFold, FS_EmptySet

LEMMA SumAgrees ==
    ASSUME NEW f, NEW g, NEW D, IsFiniteSet(D), \A i \in D : f[i] = g[i]
    PROVE  SumFunctionOnSet(f, D) = SumFunctionOnSet(g, D)
<1>1. PICK F : Adds(f, D, F)
  BY AddsExists
<1>2. PICK G : Adds(g, D, G)
  BY AddsExists
<1>3. F[D] = G[D]
  BY <1>1, <1>2, AddsUnique
<1>4. SumFunctionOnSet(f, D) = F[D] /\ SumFunctionOnSet(g, D) = G[D]
  BY <1>1, <1>2, SumAdds
<1> QED BY <1>3, <1>4

\* A sum of smaller terms is smaller; terms that are 0 may be left out.
LEMMA SumBelow ==
    ASSUME NEW f, NEW g, NEW D, IsFiniteSet(D), NEW B \in SUBSET D,
           \A i \in D : f[i] \in Nat, \A i \in B : g[i] \in Nat /\ f[i] <= g[i],
           \A i \in D \ B : f[i] = 0
    PROVE  SumFunctionOnSet(f, D) <= SumFunctionOnSet(g, B)
<1> DEFINE Sum(h, s) == SumFunctionOnSet(h, s)
           Good == {s \in SUBSET D : Sum(f, s) <= Sum(g, s \cap B)}
<1>1. ASSUME NEW s \in SUBSET D, \A t \in SUBSET s : t # s => t \in Good
      PROVE  s \in Good
  <2>1. IsFiniteSet(s) /\ IsFiniteSet(s \cap B)
    BY FS_Subset
  <2>2. CASE s = {}
    <3>1. Sum(f, s) = 0 /\ Sum(g, s \cap B) = 0
      BY <2>2, SumEmpty
    <3> QED BY <3>1
  <2>3. CASE s # {}
    <3>1. PICK x \in s : TRUE
      BY <2>3
    <3>2. Sum(f, s) = f[x] + Sum(f, s \ {x})
      BY <2>1, SumTakesOut
    <3>3. Sum(f, s \ {x}) <= Sum(g, (s \ {x}) \cap B)
      BY <1>1
    <3>4. IsFiniteSet(s \ {x}) /\ IsFiniteSet((s \ {x}) \cap B)
      BY FS_Subset
    <3>5. /\ Sum(f, s \ {x}) \in Nat /\ Sum(g, (s \ {x}) \cap B) \in Nat
          /\ Sum(f, s) \in Nat /\ Sum(g, s \cap B) \in Nat
      BY <2>1, <3>4, SumType
    <3>6. CASE x \in B
      <4>1. Sum(g, s \cap B) = g[x] + Sum(g, (s \cap B) \ {x})
        BY <2>1, <3>6, SumTakesOut
      <4>2. (s \cap B) \ {x} = (s \ {x}) \cap B
        OBVIOUS
      <4>3. Sum(g, s \cap B) = g[x] + Sum(g, (s \ {x}) \cap B)
        BY <4>1, <4>2
      <4>4. f[x] \in Nat /\ g[x] \in Nat /\ f[x] <= g[x]
        BY <3>6
      <4>5. Sum(f, s) <= Sum(g, s \cap B)
        BY <3>2, <3>3, <3>5, <4>3, <4>4
      <4> QED BY <4>5
    <3>7. CASE x \notin B
      <4>1. s \cap B = (s \ {x}) \cap B /\ f[x] = 0
        BY <3>7
      <4>2. Sum(f, s) = Sum(f, s \ {x})
        BY <3>2, <3>5, <4>1
      <4>3. Sum(g, s \cap B) = Sum(g, (s \ {x}) \cap B)
        BY <4>1
      <4> QED BY <3>3, <4>2, <4>3
    <3> QED BY <3>6, <3>7
  <2> QED BY <2>2, <2>3
<1>2. D \in Good
  <2> HIDE DEF Good
  <2> QED BY <1>1, SubsetInduction
<1>3. D \cap B = B
  OBVIOUS
<1> QED BY <1>2, <1>3

\* A common factor.
LEMMA SumScaled ==
    ASSUME NEW f, NEW g, NEW D, IsFiniteSet(D), NEW k \in Nat,
           \A i \in D : f[i] \in Nat /\ g[i] = k * f[i]
    PROVE  SumFunctionOnSet(g, D) = k * SumFunctionOnSet(f, D)
<1> DEFINE Sum(h, s) == SumFunctionOnSet(h, s)
           Good == {s \in SUBSET D : Sum(g, s) = k * Sum(f, s)}
<1>1. ASSUME NEW s \in SUBSET D, \A t \in SUBSET s : t # s => t \in Good
      PROVE  s \in Good
  <2>1. IsFiniteSet(s)
    BY FS_Subset
  <2>2. CASE s = {}
    <3>1. Sum(f, s) = 0 /\ Sum(g, s) = 0
      BY <2>2, SumEmpty
    <3> QED BY <3>1
  <2>3. CASE s # {}
    <3>1. PICK x \in s : TRUE
      BY <2>3
    <3>2. \A i \in D : g[i] \in Nat
      OBVIOUS
    <3>3. Sum(f, s) = f[x] + Sum(f, s \ {x}) /\ Sum(g, s) = g[x] + Sum(g, s \ {x})
      BY <2>1, <3>2, SumTakesOut
    <3>4. Sum(g, s \ {x}) = k * Sum(f, s \ {x})
      BY <1>1
    <3>5. IsFiniteSet(s \ {x})
      BY FS_Subset
    <3>6. Sum(f, s \ {x}) \in Nat
      BY <3>5, SumType
    <3>7. \A a, b \in Nat : k * a + k * b = k * (a + b)
      OBVIOUS
    <3>8. g[x] = k * f[x] /\ f[x] \in Nat
      OBVIOUS
    <3>9. Sum(g, s) = k * Sum(f, s)
      BY <3>3, <3>4, <3>6, <3>7, <3>8
    <3> QED BY <3>9
  <2> QED BY <2>2, <2>3
<1>2. D \in Good
  <2> HIDE DEF Good
  <2> QED BY <1>1, SubsetInduction
<1> QED BY <1>2

-----------------------------------------------------------------------------
(* Shares of the total cap. *)

LEMMA DivisionMonotone ==
    ASSUME NEW a \in Nat, NEW c \in Nat, a <= c, NEW b \in Nat \ {0}
    PROVE  a \div b <= c \div b
<1>1. PICK p \in Nat, r \in 0..(b - 1) : p = a \div b /\ a = b * p + r
  BY Division
<1>2. PICK q \in Nat, t \in 0..(b - 1) : q = c \div b /\ c = b * q + t
  BY Division
<1>3. SUFFICES ASSUME q + 1 <= p PROVE FALSE
  BY <1>1, <1>2
<1>4. b * (q + 1) <= b * p /\ b * (q + 1) = b * q + b
  BY <1>3
<1> QED BY <1>1, <1>2, <1>4

LEMMA DivisionByMore ==
    ASSUME NEW a \in Nat, NEW b \in Nat \ {0}, NEW c \in Nat, b <= c
    PROVE  a \div c <= a \div b
<1>1. PICK p \in Nat, r \in 0..(c - 1) : p = a \div c /\ a = c * p + r
  BY Division
<1>2. PICK q \in Nat, t \in 0..(b - 1) : q = a \div b /\ a = b * q + t
  BY Division
<1>3. SUFFICES ASSUME q + 1 <= p PROVE FALSE
  BY <1>1, <1>2
<1>4. b * (q + 1) <= b * p /\ b * p <= c * p /\ b * (q + 1) = b * q + b
  BY <1>3
<1>5. c * p \in Nat /\ b * p \in Nat /\ b * q \in Nat
  OBVIOUS
<1> QED BY <1>1, <1>2, <1>4, <1>5

LEMMA DivisionPositive ==
    ASSUME NEW a \in Nat, NEW b \in Nat \ {0}, b <= a
    PROVE  a \div b \in Nat \ {0}
<1>1. PICK q \in Nat, r \in 0..(b - 1) : q = a \div b /\ a = b * q + r
  BY Division
<1> QED BY <1>1

\* Volatilities up to 10000 percent have a weight, the calmer the greater.
LEMMA WeightFacts ==
    ASSUME NEW v \in Nat, v <= 10000, NEW w \in Nat, v <= w
    PROVE  Weight(v) \in Nat \ {0} /\ Weight(w) <= Weight(v)
<1>1. /\ Most(v, 1) \in Nat \ {0} /\ Most(v, 1) <= 10000
      /\ Most(w, 1) \in Nat \ {0} /\ Most(v, 1) <= Most(w, 1)
  BY DEF Most
<1>2. PICK a \in Nat : a = 10000
  OBVIOUS
<1>3. a \div Most(v, 1) \in Nat \ {0}
  BY <1>1, <1>2, DivisionPositive
<1>4. a \div Most(w, 1) <= a \div Most(v, 1)
  BY <1>1, DivisionByMore
<1> QED BY <1>2, <1>3, <1>4 DEF Weight

\* The targets never add up to more than the total cap and the caps of the trades, and the
\* calmer of two symbols gets no smaller one (portfolio_limits.py:27-39); for volatilities
\* up to 10000 percent, beyond which a weight is rounded down to 0.
THEOREM TargetsWithinTotal ==
    ASSUME NEW D, IsFiniteSet(D), D # {},
           NEW volPct \in [D -> Nat], \A s \in D : volPct[s] <= 10000,
           NEW total \in Nat, NEW maxTrade \in Nat
    PROVE  /\ RiskParity(volPct, total, maxTrade) \in [D -> Nat]
           /\ SumFunction(RiskParity(volPct, total, maxTrade)) <= total
           /\ SumFunction(RiskParity(volPct, total, maxTrade)) <= maxTrade * Cardinality(D)
           /\ \A s, t \in D : volPct[s] <= volPct[t] =>
                RiskParity(volPct, total, maxTrade)[t] <= RiskParity(volPct, total, maxTrade)[s]
<1> DEFINE weights == [s \in D |-> Weight(volPct[s])]
           cap == Least(total, maxTrade * Cardinality(D))
           weight == SumFunctionOnSet(weights, D)
           targets == [s \in D |-> (cap * weights[s]) \div weight]
           sum == SumFunctionOnSet(targets, D)
<1>1. RiskParity(volPct, total, maxTrade) = targets /\ SumFunction(targets) = sum
  BY DEF RiskParity, SumFunction
<1>2. /\ cap \in Nat /\ cap <= total /\ cap <= maxTrade * Cardinality(D)
  <2>1. Cardinality(D) \in Nat
    BY FS_CardinalityType
  <2>2. maxTrade * Cardinality(D) \in Nat
    BY <2>1
  <2> QED BY <2>2 DEF Least
<1>3. \A s \in D : volPct[s] \in Nat /\ volPct[s] <= 10000
  OBVIOUS
<1>4. \A s \in D : weights[s] \in Nat \ {0}
  <2> TAKE s \in D
  <2>1. Weight(volPct[s]) \in Nat \ {0}
    BY <1>3, WeightFacts
  <2> QED BY <2>1
<1>5. weight \in Nat \ {0}
  <2>1. PICK x \in D : TRUE
    OBVIOUS
  <2>2. \A i \in D : weights[i] \in Nat
    BY <1>4
  <2> HIDE DEF weights
  <2>3. weight = weights[x] + SumFunctionOnSet(weights, D \ {x})
    BY <2>2, SumTakesOut
  <2>4. IsFiniteSet(D \ {x})
    BY FS_Subset
  <2>5. SumFunctionOnSet(weights, D \ {x}) \in Nat
    BY <2>2, <2>4, SumType
  <2> QED BY <1>4, <2>3, <2>5
<1>6. \A s \in D : cap * weights[s] \in Nat
  <2> TAKE s \in D
  <2> QED BY <1>2, <1>4
<1> HIDE DEF weights, cap, weight
<1>7. \A s \in D : targets[s] \in Nat /\ weight * targets[s] <= cap * weights[s]
  <2> TAKE s \in D
  <2>1. PICK a \in Nat : a = cap * weights[s]
    BY <1>6
  <2>2. a \div weight \in Nat /\ (a \div weight) * weight <= a
    <3>1. PICK b \in Nat \ {0} : b = weight
      BY <1>5
    <3>2. a \div b \in Nat
      OBVIOUS
    <3>3. (a \div b) * b <= a
      BY DivisionBelow
    <3> QED BY <3>1, <3>2, <3>3
  <2>3. targets[s] = a \div weight
    BY <2>1
  <2>4. weight * targets[s] = (a \div weight) * weight
    <3>1. PICK q \in Nat : q = a \div weight
      BY <2>2
    <3>2. weight * q = q * weight
      BY <1>5
    <3> QED BY <2>3, <3>1, <3>2
  <2> QED BY <2>1, <2>2, <2>3, <2>4
<1> HIDE DEF targets
<1>8. sum \in Nat /\ weight * sum <= cap * weight
  <2> DEFINE scaled == [s \in D |-> weight * targets[s]]
             shared == [s \in D |-> cap * weights[s]]
  <2>1. sum \in Nat
    BY <1>7, SumType
  <2>2. SumFunctionOnSet(scaled, D) = weight * sum
    BY <1>5, <1>7, SumScaled
  <2>3. SumFunctionOnSet(shared, D) = cap * weight
    BY <1>2, <1>4, SumScaled DEF weight
  <2>4. \A s \in D : scaled[s] \in Nat /\ shared[s] \in Nat /\ scaled[s] <= shared[s]
    BY <1>5, <1>6, <1>7
  <2> HIDE DEF scaled, shared, sum
  <2>5. SumFunctionOnSet(scaled, D) <= SumFunctionOnSet(shared, D)
    BY <2>4, SumBelow
  <2> QED BY <2>1, <2>2, <2>3, <2>5
<1> HIDE DEF sum
<1>9. sum <= cap
  <2> SUFFICES ASSUME cap + 1 <= sum PROVE FALSE
    BY <1>2, <1>8
  <2>1. weight * (cap + 1) <= weight * sum /\ weight * (cap + 1) = cap * weight + weight
    BY <1>2, <1>5, <1>8
  <2>2. cap * weight \in Nat /\ weight * sum \in Nat
    BY <1>2, <1>5, <1>8
  <2> QED BY <1>5, <1>8, <2>1, <2>2
<1>10. ASSUME NEW s \in D, NEW t \in D, volPct[s] <= volPct[t]
       PROVE  targets[t] <= targets[s]
  <2>1. Weight(volPct[t]) <= Weight(volPct[s])
    BY <1>3, <1>10, WeightFacts
  <2>2. weights[t] <= weights[s]
    BY <2>1 DEF weights
  <2>3. cap * weights[t] <= cap * weights[s]
    BY <1>2, <1>4, <2>2
  <2>4. (cap * weights[t]) \div weight <= (cap * weights[s]) \div weight
    <3>1. PICK a \in Nat, c \in Nat, b \in Nat \ {0} :
            a = cap * weights[t] /\ c = cap * weights[s] /\ b = weight
      BY <1>5, <1>6
    <3>2. a \div b <= c \div b
      BY <2>3, <3>1, DivisionMonotone
    <3> QED BY <3>1, <3>2
  <2> QED BY <2>4 DEF targets
<1>11. targets \in [D -> Nat]
  BY <1>7 DEF targets
<1>12. maxTrade * Cardinality(D) \in Nat
  BY FS_CardinalityType
<1> QED BY <1>1, <1>2, <1>8, <1>9, <1>10, <1>11, <1>12

-----------------------------------------------------------------------------
(* The trading agent: type correctness *)

USE DEF book, guards, session, tick, counts

\* What a snapshot holds, once there is one.
SavedType ==
    \/ saved = NoSnapshot
    \/ saved \in [cash : Nat, qty : [Symbols -> Nat], cache : [Symbols -> Nat]]

\* An order that is out is for a symbol, and buys or sells.  (How much it may sell is not
\* known before it is booked: see SellIsCovered.)
Placed ==
    /\ pc \in {"order", "alert"} => sym \in Symbols
    /\ pc = "order" => pending.side \in {"buy", "sell"}

AgentInv == TypeOK /\ SavedType /\ Placed

LEMMA ZeroType == Zero \in [Symbols -> Nat]
BY DEF Zero

LEMMA NoOrderType == NoOrder.side = "none" /\ NoOrder.lots \in Nat
BY DEF NoOrder

LEMMA SetupType ==
    ASSUME TypeOK
    PROVE  setup.share \in Nat \ {0} /\ setup.every \in Nat \ {0}
BY AgentAssumption DEF TypeOK

LEMMA SumNat ==
    ASSUME NEW f \in [Symbols -> Nat]
    PROVE  SumFunction(f) \in Nat
<1>1. SumFunctionOnSet(f, Symbols) \in Nat
  BY AgentAssumption, SumType
<1> QED BY <1>1 DEF SumFunction

LEMMA EquityNat ==
    ASSUME NEW m \in Nat, NEW q \in [Symbols -> Nat], NEW c \in [Symbols -> Nat]
    PROVE  Exposures(q, c) \in [Symbols -> Nat] /\ Equity(m, q, c) \in Nat
<1>1. \A s \in Symbols : q[s] * c[s] \in Nat
  OBVIOUS
<1>2. Exposures(q, c) \in [Symbols -> Nat]
  BY <1>1 DEF Exposures
<1>3. SumFunction(Exposures(q, c)) \in Nat
  BY <1>2, SumNat
<1> QED BY <1>2, <1>3 DEF Equity

LEMMA LossIsPercent ==
    ASSUME TypeOK, NEW eq \in Nat
    PROVE  LossPct(eq) \in 0..100
<1>1. startEq \in Nat
  BY DEF TypeOK
<1>2. CASE startEq = 0 \/ eq >= startEq
  BY <1>2 DEF LossPct
<1>3. CASE ~(startEq = 0 \/ eq >= startEq)
  <2>1. PICK a \in Nat, b \in Nat \ {0} : a = (startEq - eq) * 100 /\ b = startEq /\ a <= b * 100
    BY <1>1, <1>3
  <2>2. PICK q \in Nat, r \in 0..(b - 1) : q = a \div b /\ a = b * q + r
    BY Division
  <2>3. q <= 100
    <3> SUFFICES ASSUME 101 <= q PROVE FALSE
      BY <2>2
    <3>1. b * 101 <= b * q
      BY <2>1
    <3> QED BY <2>1, <2>2, <3>1
  <2>4. LossPct(eq) = q
    BY <1>3, <2>1, <2>2 DEF LossPct
  <2> QED BY <2>3, <2>4
<1> QED BY <1>2, <1>3

LEMMA RecordType ==
    ASSUME TypeOK, Record
    PROVE  events' \in 0..MaxFailures /\ tripped' \in BOOLEAN
BY AgentAssumption DEF TypeOK, Record, Least

LEMMA NextSymbolType ==
    ASSUME TypeOK, NextSymbol
    PROVE  pc' = "market" /\ sym' \in Symbols \cup {0}
BY DEF NextSymbol

\* Whatever the market's precision, the lots of an amount are counted.
LEMMA LotsNat ==
    ASSUME TypeOK, sym \in Symbols, NEW amount \in Nat
    PROVE  Lots(amount) \in Nat
<1> DEFINE market == [step |-> setup.share, precision |-> Precision[sym]]
<1>1. setup.share \in Nat \ {0} /\ Precision[sym] \in Nat
  BY SetupType, AgentAssumption
<1>2. market.step \in Nat /\ market.precision \in Nat
  BY <1>1
<1>3. Lots(amount) = Conform(amount, market) \div setup.share
  BY DEF Lots
<1> HIDE DEF market
<1>4. Conform(amount, market) \in Nat
  BY <1>2, ConformBelow
<1> QED BY <1>1, <1>3, <1>4, Division

LEMMA InitAgent == Init => AgentInv
<1> SUFFICES ASSUME Init PROVE AgentInv
  OBVIOUS
<1>1. 0 \in 0..MaxFailures /\ 0 \in 0..MaxErrors /\ 0 \in 0..MaxTicks /\ 0 \in 0..100
  BY AgentAssumption
<1>2. TypeOK
  BY <1>1, ZeroType, NoOrderType, AgentAssumption DEF Init, TypeOK
<1> QED BY <1>2 DEF Init, AgentInv, SavedType, Placed

\* The tick in progress is left: its locals are gone.
LEMMA LeavesType ==
    ASSUME NEW next \in {"down", "dead"}, Leaves(next)
    PROVE  /\ pc' \in {"down", "dead"} /\ sym' = 0
           /\ exposures' \in [Symbols -> Nat] /\ bought' \in [Symbols -> Nat]
           /\ pending' = NoOrder
BY ZeroType DEF Leaves

LEMMA RestoredType ==
    ASSUME AgentInv
    PROVE  /\ Restored.cash \in Nat
           /\ Restored.qty \in [Symbols -> Nat] /\ Restored.cache \in [Symbols -> Nat]
<1>1. CASE setup.resume /\ saved # NoSnapshot
  BY <1>1 DEF AgentInv, SavedType, Restored
<1>2. CASE ~(setup.resume /\ saved # NoSnapshot)
  BY <1>2, ZeroType, AgentAssumption DEF AgentInv, TypeOK, Restored
<1> QED BY <1>1, <1>2

LEMMA StartAgent ==
    ASSUME AgentInv, Start
    PROVE  AgentInv'
<1> DEFINE equity == Equity(Restored.cash, Restored.qty, Restored.cache)
<1>1. equity \in Nat
  BY RestoredType, EquityNat
<1>2. /\ pc' = "idle" /\ kill' = FALSE
      /\ cash' = Restored.cash /\ qty' = Restored.qty /\ cache' = Restored.cache
      /\ startEq' = equity /\ highEq' = equity
      /\ UNCHANGED <<setup, sym, highs, tripped, events, errors, worst, tick, pending, saved,
                    counts>>
  BY DEF Start, StartKeeping
<1> HIDE DEF equity
<1>3. TypeOK'
  BY <1>1, <1>2, RestoredType DEF AgentInv, TypeOK, NoSnapshot, Zero
<1> QED BY <1>2, <1>3 DEF AgentInv, SavedType, Placed, NoSnapshot, Zero

LEMMA StopAgent ==
    ASSUME AgentInv, Stop \/ AlertRaises
    PROVE  AgentInv'
<1>1. /\ pc' \in {"down", "dead"} /\ sym' = 0 /\ pending' = NoOrder
      /\ exposures' \in [Symbols -> Nat] /\ bought' \in [Symbols -> Nat]
  BY LeavesType DEF Stop, AlertRaises
<1>2. UNCHANGED <<setup, book, cache, highs, guards, session, saved, counts>>
  BY DEF Stop, AlertRaises
<1>3. TypeOK'
  BY <1>1, <1>2, NoOrderType DEF AgentInv, TypeOK, NoSnapshot, Zero
<1> QED BY <1>1, <1>2, <1>3 DEF AgentInv, SavedType, Placed, NoSnapshot, Zero

LEMMA CrashAgent ==
    ASSUME AgentInv, Crash
    PROVE  AgentInv'
<1>1. /\ pc' \in {"down", "dead"} /\ sym' = 0 /\ pending' = NoOrder
      /\ exposures' \in [Symbols -> Nat] /\ bought' \in [Symbols -> Nat]
  BY LeavesType DEF Crash
<1>2. 0 \in 0..MaxFailures /\ 0 \in 0..MaxErrors /\ 0 \in 0..100
  BY AgentAssumption
<1>3. TypeOK'
  BY <1>1, <1>2, ZeroType, NoOrderType, AgentAssumption
     DEF AgentInv, TypeOK, Crash, NoSnapshot, Zero
<1> QED BY <1>1, <1>3 DEF AgentInv, SavedType, Placed, Crash, NoSnapshot, Zero

LEMMA BeginAgent ==
    ASSUME AgentInv, BeginTick
    PROVE  AgentInv'
<1>1. Exposures(qty, cache) \in [Symbols -> Nat]
  BY EquityNat DEF AgentInv, TypeOK
<1>2. sym' \in Symbols \cup {0} /\ ticks' \in 0..MaxTicks
  BY AgentAssumption DEF AgentInv, TypeOK, BeginTick
<1>3. TypeOK'
  BY <1>1, <1>2 DEF AgentInv, TypeOK, BeginTick, NoSnapshot, Zero
<1> QED BY <1>3 DEF AgentInv, SavedType, Placed, BeginTick, NoSnapshot, Zero

LEMMA SkipAgent ==
    ASSUME AgentInv,
           DataRejected \/ AlertSent \/ (\E price \in Prices : StrategyRaises(price))
    PROVE  AgentInv'
<1>1. /\ events' \in 0..MaxFailures /\ tripped' \in BOOLEAN
      /\ pc' = "market" /\ sym' \in Symbols \cup {0}
  BY RecordType, NextSymbolType DEF AgentInv, DataRejected, StrategyRaises, AlertSent
<1>2. cache' \in [Symbols -> Nat]
  BY AgentAssumption DEF AgentInv, TypeOK, DataRejected, StrategyRaises, AlertSent
<1>3. UNCHANGED <<setup, book, highs, kill, errors, worst, session, tick, pending, saved, counts>>
  BY DEF DataRejected, StrategyRaises, AlertSent
<1>4. TypeOK'
  BY <1>1, <1>2, <1>3 DEF AgentInv, TypeOK, NoSnapshot, Zero
<1> QED BY <1>1, <1>3, <1>4 DEF AgentInv, SavedType, Placed, NoSnapshot, Zero

\* What a decision leaves: an order, the next symbol, or, when an audit raises, no tick.
Decided ==
    /\ pc' \in {"order", "market", "dead"} /\ sym' \in Symbols \cup {0}
    /\ pc' = "order" => sym' = sym /\ pending'.side \in {"buy", "sell"}
    /\ pending'.side \in {"none", "buy", "sell"} /\ pending'.lots \in Nat
    /\ exposures' \in [Symbols -> Nat] /\ bought' \in [Symbols -> Nat]
    /\ events' \in 0..MaxFailures /\ tripped' \in BOOLEAN

LEMMA SubmitType ==
    ASSUME AgentInv, sym \in Symbols, NEW price \in Prices, NEW side \in {"buy", "sell"},
           NEW lots \in Nat, Submit(side, lots, price)
    PROVE  Decided
<1>1. CASE /\ pc' = "order" /\ sym' = sym
           /\ pending' = [side |-> side, lots |-> lots]
           /\ bought' = IF side = "buy" THEN [bought EXCEPT ![sym] = Notional(lots, price)]
                        ELSE bought
           /\ UNCHANGED <<exposures, events, tripped>>
  <2>1. Notional(lots, price) \in Nat
    <3>1. setup.share \in Nat /\ price \in Nat
      BY SetupType, AgentAssumption DEF AgentInv
    <3> QED BY <3>1 DEF Notional
  <2>2. bought' \in [Symbols -> Nat]
    BY <1>1, <2>1 DEF AgentInv, TypeOK
  <2> QED BY <1>1, <2>2 DEF AgentInv, TypeOK, Decided
<1>2. CASE Record /\ NextSymbol /\ UNCHANGED <<tick, pending>>
  BY <1>2, RecordType, NextSymbolType DEF AgentInv, TypeOK, Decided
<1>3. CASE Leaves("dead") /\ UNCHANGED <<events, tripped>>
  BY <1>3, LeavesType, NoOrderType DEF AgentInv, TypeOK, Leaves, Decided
<1> QED BY <1>1, <1>2, <1>3 DEF Submit

\* Sell, Buy and Pass.
LEMMA DecisionType ==
    ASSUME AgentInv, sym \in Symbols, NEW price \in Prices, Sell(price) \/ Buy(price) \/ Pass
    PROVE  Decided
<1>1. CASE Sell(price)
  <2>1. Lots(qty[sym]) \in Nat
    BY LotsNat DEF AgentInv, TypeOK
  <2>2. Submit("sell", Lots(qty[sym]), price)
    BY <1>1 DEF Sell
  <2> QED BY <2>1, <2>2, SubmitType
<1>2. CASE Buy(price)
  <2>1. PICK amount \in 1..(Least(cash, MaxTrade) \div price) : Submit("buy", Lots(amount), price)
    BY <1>2 DEF Buy
  <2>2. Lots(amount) \in Nat
    BY LotsNat DEF AgentInv
  <2> QED BY <2>1, <2>2, SubmitType
<1>3. CASE Pass
  <2>1. NextSymbol /\ UNCHANGED <<tick, pending, events, tripped>>
    BY <1>3 DEF Pass
  <2> QED BY <2>1, NextSymbolType DEF AgentInv, TypeOK, Decided
<1> QED BY <1>1, <1>2, <1>3

LEMMA DecideFacts ==
    ASSUME AgentInv, NEW price \in Prices, Decide(price)
    PROVE  sym \in Symbols /\ (Sell(price) \/ Buy(price) \/ Pass) /\ Decided
<1>1. sym \in Symbols /\ (Sell(price) \/ Buy(price) \/ Pass)
  BY DEF AgentInv, TypeOK, Decide, Trading
<1> QED BY <1>1, DecisionType

LEMMA DecideAgent ==
    ASSUME AgentInv, NEW price \in Prices, Decide(price)
    PROVE  AgentInv'
<1>1. sym \in Symbols /\ Decided
  BY DecideFacts
<1>2. price \in Nat
  BY AgentAssumption
<1>3. HighAfter(price) \in Nat
  BY <1>1, <1>2 DEF AgentInv, TypeOK, HighAfter
<1>4. cache' \in [Symbols -> Nat] /\ highs' \in [Symbols -> Nat]
  BY <1>2, <1>3 DEF AgentInv, TypeOK, Decide
<1>5. UNCHANGED <<setup, book, kill, errors, worst, session, saved, counts>>
  BY DEF Decide
<1>6. TypeOK'
  BY <1>1, <1>4, <1>5 DEF AgentInv, TypeOK, Decided, NoSnapshot, Zero
<1> QED BY <1>1, <1>5, <1>6 DEF AgentInv, SavedType, Placed, Decided, NoSnapshot, Zero

\* The portfolio refuses what would make the cash or a position negative.
LEMMA BookType ==
    ASSUME AgentInv, pc = "order", NEW price \in Prices, NEW lots \in Nat, Book(lots, price)
    PROVE  cash' \in Nat /\ qty' \in [Symbols -> Nat]
<1>1. sym \in Symbols /\ cash \in Nat /\ qty \in [Symbols -> Nat]
  BY DEF AgentInv, TypeOK, Placed
<1>2. lots * price \in Nat
  BY AgentAssumption
<1>3. CASE pending.side = "buy"
  BY <1>1, <1>2, <1>3 DEF Book, Accepts, TooDear
<1>4. CASE pending.side # "buy"
  <2>1. lots <= qty[sym] /\ qty[sym] \in Nat
    BY <1>1, <1>4 DEF Book, Accepts, Oversold
  <2>2. qty[sym] - lots \in Nat
    BY <2>1
  <2> QED BY <1>1, <1>2, <1>4, <2>2 DEF Book
<1> QED BY <1>3, <1>4

LEMMA FillAgent ==
    ASSUME AgentInv, NEW price \in Prices,
           OrderFilled(price) \/ \E lots \in 0..pending.lots : BookingRaises(price, lots)
    PROVE  AgentInv'
<1>1. cash' \in Nat /\ qty' \in [Symbols -> Nat]
  <2>1. PICK lots \in Nat : pc = "order" /\ Book(lots, price)
    BY DEF AgentInv, TypeOK, OrderFilled, BookingRaises
  <2> QED BY <2>1, BookType
<1>2. events' \in 0..MaxFailures /\ tripped' \in BOOLEAN
  <2>1. events' = 0 /\ tripped' = FALSE
    BY DEF OrderFilled, BookingRaises, Reset
  <2>2. 0 \in 0..MaxFailures
    BY AgentAssumption
  <2> QED BY <2>1, <2>2
<1>3. /\ pc' \in {"market", "down", "dead"} /\ sym' \in Symbols \cup {0} /\ pending' = NoOrder
      /\ exposures' \in [Symbols -> Nat] /\ bought' \in [Symbols -> Nat]
  <2>1. CASE OrderFilled(price)
    BY <2>1, NextSymbolType DEF AgentInv, TypeOK, OrderFilled
  <2>2. CASE \E lots \in 0..pending.lots : BookingRaises(price, lots)
    BY <2>2, LeavesType DEF BookingRaises
  <2> QED BY <2>1, <2>2
<1>4. UNCHANGED <<setup, cache, highs, kill, errors, worst, session, saved, counts>>
  BY DEF OrderFilled, BookingRaises
<1>5. TypeOK'
  BY <1>1, <1>2, <1>3, <1>4, NoOrderType DEF AgentInv, TypeOK, NoSnapshot, Zero
<1> QED BY <1>3, <1>4, <1>5 DEF AgentInv, SavedType, Placed, NoSnapshot, Zero

LEMMA FailAgent ==
    ASSUME AgentInv, OrderFails
    PROVE  AgentInv'
<1>1. errors' \in 0..MaxErrors
  BY AgentAssumption DEF AgentInv, TypeOK, OrderFails, Least
<1>2. sym \in Symbols /\ pc' = "alert" /\ pending' = NoOrder
  BY DEF AgentInv, Placed, OrderFails
<1>3. TypeOK'
  BY <1>1, <1>2, NoOrderType DEF AgentInv, TypeOK, OrderFails, NoSnapshot, Zero
<1> QED BY <1>2, <1>3 DEF AgentInv, SavedType, Placed, OrderFails, NoSnapshot, Zero

\* Counting a tick ends it, or the loop.
LEMMA CountTickType ==
    ASSUME AgentInv, CountTick
    PROVE  /\ pc' \in {"idle", "dead"} /\ tickCounter' \in Nat
           /\ saved' = saved \/ saved' = [cash |-> cash, qty |-> qty, cache |-> cache]
<1>1. tickCounter' \in Nat
  BY DEF AgentInv, TypeOK, CountTick
<1> QED BY <1>1 DEF CountTick, Persist

LEMMA EndAgent ==
    ASSUME AgentInv, EndTick \/ KillAlerted
    PROVE  AgentInv'
<1> DEFINE eq == Equity(cash, qty, cache)
<1>1. eq \in Nat
  BY EquityNat DEF AgentInv, TypeOK
<1>2. LossPct(eq) \in 0..100
  BY <1>1, LossIsPercent DEF AgentInv
<1> HIDE DEF eq
<1>3. highEq' \in Nat /\ worst' \in 0..100
  BY <1>1, <1>2 DEF AgentInv, TypeOK, EndTick, KillAlerted, eq
<1>4. kill' \in BOOLEAN /\ exposures' \in [Symbols -> Nat] /\ bought' \in [Symbols -> Nat]
  BY ZeroType DEF AgentInv, TypeOK, EndTick, KillAlerted
<1>5. /\ pc' \in {"killed", "idle", "dead"} /\ tickCounter' \in Nat
      /\ saved' = saved \/ saved' = [cash |-> cash, qty |-> qty, cache |-> cache]
  <2>1. CASE CountTick
    BY <2>1, CountTickType
  <2>2. CASE pc' = "killed" /\ UNCHANGED <<saved, tickCounter>>
    BY <2>2 DEF AgentInv, TypeOK
  <2> QED BY <2>1, <2>2 DEF EndTick, KillAlerted
<1>6. UNCHANGED <<setup, sym, book, cache, highs, tripped, events, errors, startEq, pending, ticks>>
  BY DEF EndTick, KillAlerted
<1>7. SavedType'
  BY <1>5, <1>6 DEF AgentInv, TypeOK, SavedType, NoSnapshot, Zero
<1>8. TypeOK'
  BY <1>3, <1>4, <1>5, <1>6, <1>7 DEF AgentInv, TypeOK, SavedType, NoSnapshot, Zero
<1> QED BY <1>5, <1>7, <1>8 DEF AgentInv, Placed

LEMMA StepAgent == AgentInv /\ [Next]_vars => AgentInv'
<1> SUFFICES ASSUME AgentInv, [Next]_vars PROVE AgentInv'
  OBVIOUS
<1>1. CASE Start \/ Stop \/ Crash
  BY <1>1, StartAgent, StopAgent, CrashAgent
<1>2. CASE BeginTick
  BY <1>2, BeginAgent
<1>3. CASE DataRejected \/ AlertSent
  BY <1>3, SkipAgent
<1>4. ASSUME NEW price \in Prices,
             \/ StrategyRaises(price) \/ Decide(price) \/ OrderFilled(price)
             \/ \E lots \in 0..pending.lots : BookingRaises(price, lots)
      PROVE  AgentInv'
  BY <1>4, SkipAgent, DecideAgent, FillAgent
<1>5. CASE OrderFails \/ AlertRaises \/ EndTick \/ KillAlerted
  BY <1>5, FailAgent, StopAgent, EndAgent
<1>6. CASE UNCHANGED vars
  BY <1>6 DEF AgentInv, TypeOK, SavedType, Placed, vars, counts, NoSnapshot, Zero
<1> QED BY <1>1, <1>2, <1>3, <1>4, <1>5, <1>6 DEF Next, TickStep

\* Every variable keeps its type; in particular neither the cash nor a position is ever
\* negative, whatever order is booked at whatever price (portfolio.py:17-40).
THEOREM TypeCorrect == Spec => []TypeOK
<1>1. AgentInv => TypeOK
  BY DEF AgentInv
<1> QED BY <1>1, InitAgent, StepAgent, PTL DEF Spec

-----------------------------------------------------------------------------
(* The caps of a tick *)

\* Between ticks nothing is remembered of what was bought in one.
Flat == pc \in {"idle", "down", "dead", "killed"} => bought = Zero

\* What was bought for a symbol passed the caps on its own, with the exposures of the
\* beginning of the tick.
WithinCaps ==
    \A s \in Symbols : bought[s] > 0 =>
        bought[s] <= MaxTrade /\ SumFunction(exposures) + bought[s] <= CapTotal

CapInv == AgentInv /\ Flat /\ WithinCaps

LEMMA NothingBought ==
    ASSUME bought = Zero
    PROVE  WithinCaps
BY DEF WithinCaps, Zero

LEMMA InitCap == Init => CapInv
BY InitAgent, NothingBought DEF Init, CapInv, Flat

LEMMA DecideCap ==
    ASSUME CapInv, NEW price \in Prices, Decide(price)
    PROVE  Flat' /\ WithinCaps'
<1>1. /\ sym \in Symbols /\ (Sell(price) \/ Buy(price) \/ Pass)
      /\ pc' \in {"order", "market", "dead"} /\ bought \in [Symbols -> Nat]
  BY DecideFacts DEF CapInv, AgentInv, TypeOK, Decided
<1>2. \/ Leaves("dead")
      \/ UNCHANGED tick /\ pc' # "dead"
      \/ /\ \E n : Passes(n) /\ bought' = [bought EXCEPT ![sym] = n]
         /\ exposures' = exposures /\ pc' # "dead"
  <2>1. ASSUME NEW side, NEW lots, Submit(side, lots, price)
        PROVE  \/ Leaves("dead")
               \/ UNCHANGED tick /\ pc' # "dead"
               \/ /\ \E n : Passes(n) /\ bought' = [bought EXCEPT ![sym] = n]
                  /\ exposures' = exposures /\ pc' # "dead"
    BY <2>1 DEF Submit, NextSymbol
  <2>2. CASE Pass
    BY <2>2 DEF Pass, NextSymbol
  <2>3. CASE Sell(price)
    BY <2>1, <2>3 DEF Sell
  <2>4. CASE Buy(price)
    BY <2>1, <2>4 DEF Buy
  <2> QED BY <1>1, <2>2, <2>3, <2>4
<1>3. CASE Leaves("dead")
  <2>1. bought' = Zero
    BY <1>3 DEF Leaves
  <2> QED BY <2>1 DEF Flat, WithinCaps, Zero
<1>4. CASE UNCHANGED tick /\ pc' # "dead"
  BY <1>1, <1>4 DEF CapInv, Flat, WithinCaps
<1>5. CASE /\ \E n : Passes(n) /\ bought' = [bought EXCEPT ![sym] = n]
           /\ exposures' = exposures /\ pc' # "dead"
  BY <1>1, <1>5 DEF CapInv, Flat, WithinCaps, Passes
<1> QED BY <1>2, <1>3, <1>4, <1>5

LEMMA StepCap == CapInv /\ [Next]_vars => CapInv'
<1> SUFFICES ASSUME CapInv, [Next]_vars PROVE CapInv'
  OBVIOUS
<1>1. AgentInv'
  BY StepAgent DEF CapInv
<1>2. CASE Stop \/ Crash \/ AlertRaises \/ EndTick
           \/ \E price \in Prices, lots \in 0..pending.lots : BookingRaises(price, lots)
  <2>1. bought' = Zero
    BY <1>2 DEF Stop, Crash, AlertRaises, EndTick, BookingRaises, Leaves
  <2>2. WithinCaps'
    BY <2>1 DEF WithinCaps, Zero
  <2> QED BY <1>1, <2>1, <2>2 DEF CapInv, Flat, Zero
<1>3. CASE Start \/ BeginTick \/ KillAlerted
  <2>1. bought = Zero /\ bought' = bought
    BY <1>3 DEF CapInv, Flat, Start, StartKeeping, BeginTick, KillAlerted
  <2>2. WithinCaps'
    BY <2>1 DEF WithinCaps, Zero
  <2> QED BY <1>1, <2>1, <2>2 DEF CapInv, Flat, Zero
<1>4. CASE \/ DataRejected \/ AlertSent \/ OrderFails
           \/ \E price \in Prices : StrategyRaises(price) \/ OrderFilled(price)
  <2>1. UNCHANGED tick /\ pc' \in {"market", "alert"}
    BY <1>4 DEF DataRejected, AlertSent, OrderFails, StrategyRaises, OrderFilled, NextSymbol
  <2> QED BY <1>1, <2>1 DEF CapInv, Flat, WithinCaps
<1>5. CASE \E price \in Prices : Decide(price)
  BY <1>1, <1>5, DecideCap DEF CapInv
<1>6. CASE UNCHANGED vars
  BY <1>1, <1>6 DEF CapInv, Flat, WithinCaps, vars, Zero
<1> QED BY <1>2, <1>3, <1>4, <1>5, <1>6 DEF Next, TickStep

\* However many symbols a tick buys, the exposures of its beginning and its purchases exceed
\* the total cap by one trade less than it buys at most (rules.py:16-33, crypto_agent.py:223, 436).
THEOREM OvershootBounded == Spec => []TickOvershootBounded
<1>1. CapInv => TickOvershootBounded
  <2> SUFFICES ASSUME CapInv, NEW s \in Symbols, bought[s] > 0
               PROVE  LET buys == {b \in Symbols : bought[b] > 0} IN
                      SumFunction(exposures) + SumFunction(bought)
                          <= CapTotal + SumFunction([b \in buys \ {s} |-> MaxTrade])
    BY DEF TickOvershootBounded
  <2> DEFINE buys == {b \in Symbols : bought[b] > 0}
             others == buys \ {s}
             most == [b \in others |-> MaxTrade]
  <2>1. /\ bought \in [Symbols -> Nat] /\ exposures \in [Symbols -> Nat]
        /\ IsFiniteSet(Symbols) /\ MaxTrade \in Nat /\ CapTotal \in Nat
    BY AgentAssumption DEF CapInv, AgentInv, TypeOK
  <2>2. SumFunctionOnSet(bought, Symbols) = bought[s] + SumFunctionOnSet(bought, Symbols \ {s})
    BY <2>1, SumTakesOut
  <2>3. IsFiniteSet(Symbols \ {s}) /\ IsFiniteSet(others) /\ others \in SUBSET (Symbols \ {s})
    BY <2>1, FS_Subset
  <2>4. SumFunctionOnSet(bought, Symbols \ {s}) <= SumFunctionOnSet(most, others)
    <3>1. \A b \in Symbols \ {s} : bought[b] \in Nat
      BY <2>1
    <3>2. \A b \in others : most[b] \in Nat /\ bought[b] <= most[b]
      BY <2>1 DEF CapInv, WithinCaps
    <3>3. \A b \in (Symbols \ {s}) \ others : bought[b] = 0
      BY <2>1
    <3> HIDE DEF most, others
    <3> QED BY <2>3, <3>1, <3>2, <3>3, SumBelow
  <2>5. /\ SumFunction(exposures) \in Nat /\ bought[s] \in Nat
        /\ SumFunction(exposures) + bought[s] <= CapTotal
    BY <2>1, SumNat DEF CapInv, WithinCaps
  <2>6. SumFunctionOnSet(bought, Symbols \ {s}) \in Nat
    BY <2>1, <2>3, SumType
  <2>7. SumFunctionOnSet(most, others) \in Nat
    BY <2>1, <2>3, SumType
  <2>8. /\ SumFunction(bought) = SumFunctionOnSet(bought, Symbols)
        /\ SumFunction(most) = SumFunctionOnSet(most, others)
    BY <2>1 DEF SumFunction
  <2> HIDE DEF most, others
  <2>9. SumFunction(exposures) + SumFunction(bought) <= CapTotal + SumFunction(most)
    BY <2>1, <2>2, <2>4, <2>5, <2>6, <2>7, <2>8
  <2> QED BY <2>9 DEF most, others
<1> QED BY <1>1, InitCap, StepCap, PTL DEF Spec

-----------------------------------------------------------------------------
(* The drawdown, the snapshot and the halts *)

\* The kill switch is set before its webhook is awaited.
DrawdownInv == AgentInv /\ (pc = "killed" => kill) /\ DrawdownCaught

LEMMA StepDrawdown == DrawdownInv /\ [Next]_vars => DrawdownInv'
<1> SUFFICES ASSUME DrawdownInv, [Next]_vars PROVE DrawdownInv'
  OBVIOUS
<1>1. AgentInv'
  BY StepAgent DEF DrawdownInv
<1>2. CASE Start
  <2>1. /\ pc' = "idle" /\ highEq' = Equity(cash', qty', cache')
    BY <1>2 DEF Start, StartKeeping
  <2>2. PICK eq \in Nat : eq = Equity(cash', qty', cache')
    BY <1>1, EquityNat DEF AgentInv, TypeOK
  <2>3. eq * 100 >= eq * (100 - DrawdownPct)
    BY AgentAssumption
  <2>4. DrawdownCaught'
    BY <2>1, <2>2, <2>3 DEF DrawdownCaught, Equity, Exposures
  <2> QED BY <1>1, <2>1, <2>4 DEF DrawdownInv
<1>3. CASE EndTick
  <2> DEFINE eq == Equity(cash, qty, cache)
  <2>1. eq \in Nat /\ highEq \in Nat /\ DrawdownPct \in Nat
    BY EquityNat, AgentAssumption DEF DrawdownInv, AgentInv, TypeOK
  <2>2. Equity(cash', qty', cache') = eq
    BY <1>3 DEF EndTick
  <2>3. /\ highEq' = IF eq > highEq THEN eq ELSE highEq
        /\ \/ pc' = "killed" /\ kill'
           \/ pc' \in {"idle", "dead"} /\ ~BelowHigh(eq)
    BY <1>3, CountTickType DEF EndTick, DrawdownInv
  <2>4. ~BelowHigh(eq) => eq * 100 >= highEq' * (100 - DrawdownPct)
    <3> HIDE DEF eq
    <3>1. BelowHigh(eq) <=> eq * 100 < highEq' * (100 - DrawdownPct)
      BY <2>3 DEF BelowHigh
    <3>2. highEq' * (100 - DrawdownPct) \in Int /\ eq * 100 \in Int
      BY <2>1, <2>3
    <3> QED BY <3>1, <3>2
  <2>5. DrawdownCaught'
    BY <2>2, <2>3, <2>4 DEF DrawdownCaught, Equity, Exposures
  <2> QED BY <1>1, <2>3, <2>5 DEF DrawdownInv
<1>4. CASE KillAlerted
  BY <1>1, <1>4 DEF DrawdownInv, DrawdownCaught, KillAlerted
<1>5. CASE /\ Stop \/ Crash \/ TickStep \/ UNCHANGED vars
           /\ ~EndTick /\ ~KillAlerted
  <2>1. \/ pc' \in {"down", "dead", "market", "order", "alert"}
        \/ UNCHANGED vars
    <3>1. ASSUME NEW price \in Prices, Decide(price) PROVE pc' \in {"order", "market", "dead"}
      BY <3>1, DecideFacts DEF DrawdownInv, Decided
    <3> QED BY <1>5, <3>1
          DEF Stop, Crash, TickStep, Leaves, BeginTick, DataRejected, StrategyRaises, OrderFilled,
              BookingRaises, OrderFails, AlertSent, AlertRaises, NextSymbol
  <2>2. CASE UNCHANGED vars
    BY <1>1, <2>2 DEF DrawdownInv, DrawdownCaught, Equity, Exposures, vars
  <2> QED BY <1>1, <2>1, <2>2 DEF DrawdownInv, DrawdownCaught
<1> QED BY <1>2, <1>3, <1>4, <1>5 DEF Next

\* An agent that may begin a tick is within the drawdown limit of the highest equity of its
\* session: the tick that leaves it sets the kill switch (crypto_agent.py:622-662).
THEOREM DrawdownIsCaught == Spec => []DrawdownCaught
<1>1. Init => DrawdownInv
  BY InitAgent DEF Init, DrawdownInv, DrawdownCaught
<1>2. DrawdownInv => DrawdownCaught
  BY DEF DrawdownInv
<1> QED BY <1>1, <1>2, StepDrawdown, PTL DEF Spec

\* An agent that resumes may be stopped and started whenever it rests after a multiple of
\* snapshot_every ticks, the one that trips the kill switch too, and has its portfolio
\* again, whatever was stopped, failed or crashed before (crypto_agent.py:127-168, 299-369).
THEOREM SnapshotCurrent == Spec => []SnapshotIsCurrent
<1>1. Init => SnapshotIsCurrent
  BY DEF Init, SnapshotIsCurrent
<1>2. ASSUME AgentInv, SnapshotIsCurrent, [Next]_vars PROVE SnapshotIsCurrent'
  <2>1. CASE Start
    <3>1. /\ cash' = Restored.cash /\ qty' = Restored.qty /\ cache' = Restored.cache
          /\ UNCHANGED <<setup, saved>>
      BY <2>1 DEF Start, StartKeeping
    <3>2. Restored'.cash = Restored.cash /\ Restored'.qty = Restored.qty
      BY <3>1 DEF Restored, NoSnapshot, Zero
    <3> QED BY <3>1, <3>2 DEF SnapshotIsCurrent
  <2>2. CASE EndTick \/ KillAlerted
    <3> SUFFICES ASSUME pc' = "idle", setup'.resume, tickCounter' % setup'.every = 0
                 PROVE  Restored'.cash = cash' /\ Restored'.qty = qty'
      BY DEF SnapshotIsCurrent
    <3>1. CountTick /\ UNCHANGED <<setup, cash, qty>>
      BY <2>2 DEF EndTick, KillAlerted
    <3>2. saved' = [cash |-> cash, qty |-> qty, cache |-> cache]
      BY <3>1 DEF CountTick, Persist
    <3>3. saved' # NoSnapshot'
      <4>1. cash \in Nat
        BY <1>2 DEF AgentInv, TypeOK
      <4> QED BY <3>2, <4>1 DEF NoSnapshot
    <3> QED BY <3>1, <3>2, <3>3 DEF Restored
  <2>3. CASE /\ Stop \/ Crash \/ TickStep
             /\ ~EndTick /\ ~KillAlerted
    <3>1. ASSUME NEW price \in Prices, Decide(price) PROVE pc' \in {"order", "market", "dead"}
      BY <1>2, <3>1, DecideFacts DEF Decided
    <3>2. pc' \in {"down", "dead", "market", "order", "alert"}
      BY <2>3, <3>1
         DEF Stop, Crash, TickStep, Leaves, BeginTick, DataRejected, StrategyRaises, OrderFilled,
             BookingRaises, OrderFails, AlertSent, AlertRaises, NextSymbol
    <3> QED BY <3>2 DEF SnapshotIsCurrent
  <2>4. CASE UNCHANGED vars
    BY <1>2, <2>4 DEF SnapshotIsCurrent, Restored, vars, NoSnapshot, Zero
  <2> QED BY <1>2, <2>1, <2>2, <2>3, <2>4 DEF Next
<1> QED BY <1>1, <1>2, InitAgent, StepAgent, PTL DEF Spec

\* What an agent at rest may do.
LEMMA AtRest ==
    ASSUME Resting, [Next]_vars
    PROVE  \/ BeginTick \/ Crash
           \/ Resting' /\ UNCHANGED <<setup, tripped, events, errors, worst>>
BY DEF Resting, Next, Start, StartKeeping, Stop, Leaves, TickStep, DataRejected, StrategyRaises,
       Decide, Trading, OrderFilled, BookingRaises, OrderFails, AlertSent, AlertRaises, EndTick,
       Finished, KillAlerted, vars

\* Neither a tripped breaker nor a halted canary is ever left but by a new process: what
\* would reset them runs in a tick, and no tick runs (crypto_agent.py:200-210).
THEOREM HaltsStay == Spec => HaltsAreForever
<1>1. ASSUME [Next]_vars, tripped, Resting PROVE (tripped' /\ Resting') \/ Crash
  BY <1>1, AtRest DEF BeginTick, Armed
<1>2. ASSUME [Next]_vars, Halted, Resting PROVE (Halted' /\ Resting') \/ Crash
  BY <1>2, AtRest DEF BeginTick, Armed, Halted
<1>3. [Next]_vars => [tripped /\ Resting => (tripped' /\ Resting') \/ Crash]_vars
  BY <1>1
<1>4. [Next]_vars => [Halted /\ Resting => (Halted' /\ Resting') \/ Crash]_vars
  BY <1>2
<1> QED BY <1>3, <1>4, PTL DEF Spec, HaltsAreForever, TrippedForever, HaltedForever
=============================================================================
