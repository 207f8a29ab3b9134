---------------------- MODULE OrderExecutionProofs ----------------------
(***************************************************************************)
(* Theorems about OrderExecution, for any number of venues, attempts,      *)
(* slices and any rate limit, proved with TLAPS.                           *)
(***************************************************************************)
EXTENDS OrderExecution, TLAPS

Open == phase \in {"quoting", "sending", "backoff", "alerting"}

\* The slices already sent are filled once for each lost answer and once more;
\* those to come have met no exchange.
SlicesInOrder ==
    /\ slice <= slices
    /\ \A i \in 1..MaxSlices :
        /\ i < slice => fills[i] = 1 + lost[i]
        /\ i > slice => fills[i] = 0 /\ lost[i] = 0

\* The current slice has no fill that was answered until it is settled.
CurrentSlice ==
    /\ Open => fills[slice] = lost[slice]
    /\ phase = "pausing" => slice < slices /\ fills[slice] = 1 + lost[slice]
    /\ outcome = "ok" => slice = slices /\ fills[slice] = 1 + lost[slice]
    /\ outcome = "error" => fills[slice] = lost[slice]
    /\ outcome = "raised" =>
        \/ slice = slices /\ fills[slice] = 1 + lost[slice]
        \/ rows = 0 /\ fills[slice] = lost[slice]
    /\ fills[slice] <= 1 + lost[slice]

\* What is written, and when a request may be adrift.
Endings ==
    /\ (phase = "over") <=> (outcome # "none")
    /\ outcome = "ok" => rows = slices
    /\ outcome \notin {"ok", "raised"} => rows = 0
    /\ outcome = "raised" => rows <= slices
    /\ adrift # 0 => outcome = "cancelled" /\ adrift = slice /\ fills[slice] = lost[slice]

\* A venue still to be tried has had no request; the current one is not tried again.
SeriesOfRequests ==
    /\ \A v \in Venues : sent[v] <= Tries
    /\ phase = "quoting" => \A v \in Venues : sent[v] = 0
    /\ \A v \in todo : sent[v] = 0
    /\ phase \in {"sending", "backoff"} =>
        at \in Venues /\ at \notin todo /\ sent[at] >= 1
    /\ phase = "backoff" => sent[at] < Tries

IInv == TypeOK /\ SlicesInOrder /\ CurrentSlice /\ Endings /\ SeriesOfRequests

-----------------------------------------------------------------------------
LEMMA SlicesBounded == TwapSlices \in 1..MaxSlices
BY OrderAssumption DEF TwapSlices

LEMMA TriesPositive == Tries \in Nat \ {0}
BY OrderAssumption DEF Tries

\* An order begins with nothing sent, filled or written.
THEOREM InitIInv == Init => IInv
<1> SUFFICES ASSUME Init PROVE IInv
  OBVIOUS
<1>1. TypeOK
  BY SlicesBounded, OrderAssumption DEF Init, TypeOK, Phases, Outcomes, NoQuotes, NothingSent
<1>2. SlicesInOrder /\ CurrentSlice /\ Endings
  BY SlicesBounded, OrderAssumption DEF Init, SlicesInOrder, CurrentSlice, Endings, Open
<1>3. SeriesOfRequests
  BY TriesPositive DEF Init, SeriesOfRequests, NothingSent
<1> QED BY <1>1, <1>2, <1>3 DEF IInv

\* What every step but the ends of an order leaves as it was.
LEMMA EndingsKept ==
    ASSUME IInv, UNCHANGED <<rows, outcome, adrift, slices>>, phase # "over", phase' # "over"
    PROVE  Endings'
BY DEF IInv, Endings

\* The fills of a slice that stays open, or of one that is closed.
LEMMA FillsKept ==
    ASSUME IInv, UNCHANGED <<fills, lost, slice, slices, outcome>>, Open, Open'
    PROVE  SlicesInOrder' /\ CurrentSlice'
BY DEF IInv, TypeOK, SlicesInOrder, CurrentSlice, Endings, Open

LEMMA RefillKeeps ==
    ASSUME IInv, NEW v \in Venues, Refill(v)
    PROVE  IInv'
<1> USE DEF IInv, Refill, order
<1>0. tokens' \in [Venues -> 0..Burst]
  <2>1. tokens[v] + 1 \in 0..Burst
    BY OrderAssumption DEF TypeOK
  <2> QED BY <2>1 DEF TypeOK
<1>1. TypeOK'
  BY <1>0 DEF TypeOK
<1>2. SlicesInOrder' /\ CurrentSlice' /\ Endings' /\ SeriesOfRequests'
  BY DEF SlicesInOrder, CurrentSlice, Endings, SeriesOfRequests, Open, Tries
<1> QED BY <1>1, <1>2

LEMMA QuoteKeeps ==
    ASSUME IInv, NEW v \in Venues, NEW price \in Prices \cup {0}, Quote(v, price)
    PROVE  IInv'
<1> USE DEF IInv, Quote, order
<1>1. v \in todo /\ tokens[v] \in 1..Burst
  BY DEF FirstIn, Funded, HasToken, TypeOK
<1>2. TypeOK'
  <2>1. tokens[v] - 1 \in 0..Burst
    BY <1>1, OrderAssumption
  <2>2. tokens' \in [Venues -> 0..Burst] /\ quotes' \in [Venues -> Prices \cup {0}]
    BY <2>1 DEF TypeOK, Spend
  <2>3. todo' \subseteq Venues
    BY DEF TypeOK
  <2> QED BY <2>2, <2>3 DEF TypeOK
<1>3. SlicesInOrder' /\ CurrentSlice'
  BY FillsKept DEF Open
<1>4. Endings'
  BY EndingsKept
<1>5. SeriesOfRequests'
  BY DEF SeriesOfRequests, Tries
<1> QED BY <1>2, <1>3, <1>4, <1>5

\* Beginning a series of requests at a venue of S, none of which was tried.
LEMMA TryFacts ==
    ASSUME IInv, NEW S \in SUBSET Venues, NEW v \in Venues, Try(v, S),
           \A u \in S : sent[u] = 0
    PROVE  /\ v \in S /\ tokens' \in [Venues -> 0..Burst]
           /\ phase' = "sending" /\ at' = v /\ todo' = S \ {v}
           /\ sent' \in [Venues -> Nat] /\ sent'[v] = 1
           /\ \A u \in Venues : u # v => sent'[u] = sent[u]
           /\ SeriesOfRequests'
<1> USE DEF IInv, Try, Send, order
<1>1. v \in S /\ tokens[v] \in 1..Burst
  BY DEF NextToTry, FirstIn, Funded, HasToken, TypeOK
<1>2. tokens' \in [Venues -> 0..Burst]
  BY <1>1, OrderAssumption DEF Spend, TypeOK
<1>3. /\ sent' \in [Venues -> Nat] /\ sent'[v] = 1
      /\ \A u \in Venues : u # v => sent'[u] = sent[u]
  BY <1>1 DEF TypeOK
<1>4. Tries' = Tries
  BY DEF Tries
<1>5. SeriesOfRequests'
  BY <1>1, <1>3, <1>4, TriesPositive DEF SeriesOfRequests, TypeOK
<1> QED BY <1>1, <1>2, <1>3, <1>5

LEMMA ExecuteFirstKeeps ==
    ASSUME IInv, NEW v \in Venues, ExecuteFirst(v)
    PROVE  IInv'
<1> USE DEF IInv, ExecuteFirst, QuotesIn
<1>1. \A u \in Venues : sent[u] = 0
  BY DEF SeriesOfRequests
<1>2. SeriesOfRequests' /\ phase' = "sending" /\ at' = v /\ todo' = Venues \ {v}
      /\ sent' \in [Venues -> Nat] /\ tokens' \in [Venues -> 0..Burst]
  BY <1>1, TryFacts
<1>3. UNCHANGED <<order, slice, quotes, fills, lost, adrift, rows, outcome>>
  BY DEF Try
<1>4. TypeOK'
  BY <1>2, <1>3 DEF TypeOK, Phases, order
<1>5. SlicesInOrder' /\ CurrentSlice' /\ Endings'
  BY <1>2, <1>3, FillsKept, EndingsKept DEF Open, order
<1> QED BY <1>2, <1>4, <1>5

LEMMA GiveUpKeeps ==
    ASSUME IInv, NEW S \in SUBSET Venues, GiveUp(S), UNCHANGED <<fills, lost>>, Open
    PROVE  IInv'
<1> USE DEF IInv, GiveUp, order
<1>1. TypeOK'
  BY DEF TypeOK, Phases
<1>2. SlicesInOrder' /\ CurrentSlice' /\ Endings'
  BY FillsKept, EndingsKept DEF Open
<1>3. SeriesOfRequests'
  BY DEF SeriesOfRequests, Tries
<1> QED BY <1>1, <1>2, <1>3

\* A request that raised leaves the current slice without an answered fill.
LEMMA RaisedFacts ==
    ASSUME IInv, phase = "sending", Raised, UNCHANGED <<slice, slices, outcome>>, Open'
    PROVE  /\ fills' \in [1..MaxSlices -> Nat] /\ lost' \in [1..MaxSlices -> Nat]
           /\ SlicesInOrder' /\ CurrentSlice'
<1> USE DEF IInv, Raised, Filled
<1>1. fills' \in [1..MaxSlices -> Nat] /\ lost' \in [1..MaxSlices -> Nat]
  BY SMTT(30) DEF TypeOK
<1>2. fills[slice] = lost[slice] /\ outcome = "none"
  BY DEF CurrentSlice, Endings, Open
<1>3. /\ fills'[slice] = lost'[slice]
      /\ \A i \in 1..MaxSlices : i # slice => fills'[i] = fills[i] /\ lost'[i] = lost[i]
  BY <1>2 DEF TypeOK
<1>4. SlicesInOrder'
  BY <1>3 DEF SlicesInOrder, TypeOK
<1>5. CurrentSlice'
  <2>1. slice' = slice /\ outcome' = "none" /\ phase' # "pausing"
    BY <1>2 DEF Open
  <2>2. lost'[slice] \in Nat
    BY <1>1 DEF TypeOK
  <2> QED BY <1>3, <2>1, <2>2 DEF CurrentSlice
<1> QED BY <1>1, <1>4, <1>5

LEMMA RetryKeeps ==
    ASSUME IInv, Retry
    PROVE  IInv'
<1> USE DEF IInv, Retry, order
<1>1. /\ fills' \in [1..MaxSlices -> Nat] /\ lost' \in [1..MaxSlices -> Nat]
      /\ SlicesInOrder' /\ CurrentSlice'
  BY RaisedFacts DEF Open
<1>2. TypeOK'
  BY <1>1 DEF TypeOK, Phases
<1>3. Endings'
  BY EndingsKept
<1>4. SeriesOfRequests'
  BY DEF SeriesOfRequests, Tries
<1> QED BY <1>1, <1>2, <1>3, <1>4

LEMMA ResendKeeps ==
    ASSUME IInv, Resend
    PROVE  IInv'
<1> USE DEF IInv, Resend, Send, order
<1>1. at \in Venues /\ at \notin todo /\ sent[at] < Tries
  BY DEF SeriesOfRequests
<1>2. /\ sent' \in [Venues -> Nat] /\ sent'[at] = sent[at] + 1
      /\ \A u \in Venues : u # at => sent'[u] = sent[u]
  BY <1>1 DEF TypeOK
<1>3. TypeOK'
  BY <1>1, <1>2 DEF TypeOK, Phases
<1>4. SlicesInOrder' /\ CurrentSlice' /\ Endings'
  BY FillsKept, EndingsKept DEF Open
<1>5. Tries' = Tries
  BY DEF Tries
<1>6. SeriesOfRequests'
  BY <1>1, <1>2, <1>5, TriesPositive DEF SeriesOfRequests, TypeOK
<1> QED BY <1>3, <1>4, <1>6

LEMMA FailOverKeeps ==
    ASSUME IInv, NEW v \in Venues, FailOver(v)
    PROVE  IInv'
<1> USE DEF IInv, FailOver, LastFailed
<1>1. todo \in SUBSET Venues /\ \A u \in todo : sent[u] = 0
  BY DEF TypeOK, SeriesOfRequests
<1>2. SeriesOfRequests' /\ phase' = "sending" /\ at' = v /\ todo' = todo \ {v}
      /\ sent' \in [Venues -> Nat] /\ tokens' \in [Venues -> 0..Burst]
  BY <1>1, TryFacts
<1>3. UNCHANGED <<order, slice, quotes, adrift, rows, outcome>>
  BY DEF Try
<1>4. /\ fills' \in [1..MaxSlices -> Nat] /\ lost' \in [1..MaxSlices -> Nat]
      /\ SlicesInOrder' /\ CurrentSlice'
  BY <1>2, <1>3, RaisedFacts DEF Open, order
<1>5. TypeOK'
  BY <1>2, <1>3, <1>4 DEF TypeOK, Phases, order
<1>6. Endings'
  BY <1>2, <1>3, EndingsKept DEF order
<1> QED BY <1>2, <1>4, <1>5, <1>6

LEMMA ExhaustKeeps ==
    ASSUME IInv, Exhaust
    PROVE  IInv'
<1> USE DEF IInv, Exhaust, LastFailed, GiveUp, order
<1>1. /\ fills' \in [1..MaxSlices -> Nat] /\ lost' \in [1..MaxSlices -> Nat]
      /\ SlicesInOrder' /\ CurrentSlice'
  BY RaisedFacts DEF Open
<1>2. TypeOK'
  BY <1>1 DEF TypeOK, Phases
<1>3. Endings'
  BY EndingsKept
<1>4. SeriesOfRequests'
  BY DEF SeriesOfRequests, Tries
<1> QED BY <1>1, <1>2, <1>3, <1>4

LEMMA AnsweredKeeps ==
    ASSUME IInv, Answered
    PROVE  IInv'
<1> USE DEF IInv, Answered, Filled, order
<1>1. /\ slice \in 1..MaxSlices /\ slices \in 1..MaxSlices /\ slice <= slices
      /\ fills[slice] = lost[slice] /\ outcome = "none" /\ rows = 0 /\ adrift = 0
  BY DEF TypeOK, SlicesInOrder, CurrentSlice, Endings, Open
<1>2. /\ fills' \in [1..MaxSlices -> Nat] /\ fills'[slice] = 1 + lost[slice]
      /\ \A i \in 1..MaxSlices : i # slice => fills'[i] = fills[i]
  BY <1>1 DEF TypeOK
<1>3. SlicesInOrder'
  BY <1>1, <1>2 DEF SlicesInOrder, TypeOK
<1>4. \/ /\ slice = slices /\ phase' = "over"
         /\ \/ outcome' = "ok" /\ rows' = slices
            \/ outcome' = "raised" /\ rows' \in 0..slices
      \/ slice < slices /\ phase' = "pausing" /\ outcome' = outcome /\ rows' = rows
  BY DEF SettleAll, Settle, PauseBetween
<1>5. todo' = {} /\ at' = 0
  BY DEF SettleAll, Settle, PauseBetween
<1>6. TypeOK'
  <2>1. rows' \in 0..MaxSlices
    BY <1>1, <1>4, OrderAssumption
  <2> QED BY <1>2, <1>4, <1>5, <2>1 DEF TypeOK, Phases, Outcomes
<1>7. CurrentSlice'
  BY <1>1, <1>2, <1>4 DEF CurrentSlice, Open, TypeOK
<1>8. Endings'
  <2>1. 0..slices \subseteq Nat /\ \A n \in 0..slices : n <= slices
    BY <1>1
  <2> QED BY <1>1, <1>4, <2>1 DEF Endings
<1>9. SeriesOfRequests'
  BY <1>4, <1>5 DEF SeriesOfRequests, Tries
<1> QED BY <1>3, <1>6, <1>7, <1>8, <1>9

LEMMA NextSliceKeeps ==
    ASSUME IInv, NextSlice
    PROVE  IInv'
<1> USE DEF IInv, NextSlice, order
<1>1. /\ slice \in 1..MaxSlices /\ slices \in 1..MaxSlices /\ slice < slices
      /\ fills[slice] = 1 + lost[slice] /\ outcome = "none"
  BY DEF TypeOK, CurrentSlice, Endings
<1>2. slice + 1 \in 1..MaxSlices /\ fills[slice + 1] = 0 /\ lost[slice + 1] = 0
  BY <1>1, OrderAssumption DEF SlicesInOrder
<1>3. TypeOK'
  BY <1>2 DEF TypeOK, Phases, NoQuotes, NothingSent
<1>4. SlicesInOrder'
  BY <1>1 DEF SlicesInOrder
<1>5. CurrentSlice'
  BY <1>1, <1>2 DEF CurrentSlice, Open
<1>6. Endings'
  BY EndingsKept
<1>7. SeriesOfRequests'
  BY TriesPositive DEF SeriesOfRequests, NothingSent, Tries
<1> QED BY <1>3, <1>4, <1>5, <1>6, <1>7

LEMMA AlertedKeeps ==
    ASSUME IInv, Alerted \/ AlertRaises
    PROVE  IInv'
<1> USE DEF IInv, Alerted, AlertRaises, order
<1>1. TypeOK'
  BY DEF TypeOK, Phases, Outcomes
<1>2. outcome = "none" /\ rows = 0 /\ adrift = 0 /\ fills[slice] = lost[slice]
  BY DEF Endings, CurrentSlice, Open
<1>3. 0 <= slices
  BY DEF TypeOK
<1>4. SlicesInOrder' /\ Endings' /\ SeriesOfRequests'
  BY <1>2, <1>3 DEF SlicesInOrder, Endings, SeriesOfRequests, Tries
<1>5. CurrentSlice'
  BY <1>2 DEF CurrentSlice, Open
<1> QED BY <1>1, <1>4, <1>5

LEMMA CancelKeeps ==
    ASSUME IInv, Cancel
    PROVE  IInv'
<1> USE DEF IInv, Cancel, order
<1>1. outcome = "none" /\ rows = 0 /\ adrift = 0
  BY DEF Endings
<1>2. phase = "sending" => fills[slice] = lost[slice]
  BY DEF CurrentSlice, Open
<1>3. TypeOK'
  BY DEF TypeOK, Phases, Outcomes
<1>4. SlicesInOrder' /\ SeriesOfRequests'
  BY DEF SlicesInOrder, SeriesOfRequests, Tries
<1>5. Endings'
  BY <1>1, <1>2 DEF Endings
<1>6. CurrentSlice'
  BY DEF CurrentSlice, Open
<1> QED BY <1>3, <1>4, <1>5, <1>6

LEMMA DriftEndsKeeps ==
    ASSUME IInv, DriftEnds
    PROVE  IInv'
<1> USE DEF IInv, DriftEnds, order
<1>1. outcome = "cancelled" /\ phase = "over" /\ adrift = slice /\ fills[slice] = lost[slice]
  BY DEF Endings
<1>2. /\ fills' \in [1..MaxSlices -> Nat] /\ fills'[slice] <= 1 + lost[slice]
      /\ \A i \in 1..MaxSlices : i # slice => fills'[i] = fills[i]
  <2>1. slice \in 1..MaxSlices /\ fills \in [1..MaxSlices -> Nat] /\ lost[slice] \in Nat
    BY DEF TypeOK
  <2>2. CASE fills' = [fills EXCEPT ![adrift] = @ + 1]
    BY <1>1, <2>1, <2>2
  <2>3. CASE fills' = fills
    BY <1>1, <2>1, <2>3
  <2> QED BY <2>2, <2>3
<1>3. TypeOK'
  <2>1. adrift' \in 0..MaxSlices
    BY OrderAssumption
  <2> QED BY <1>2, <2>1 DEF TypeOK
<1>4. SlicesInOrder'
  BY <1>2 DEF SlicesInOrder, TypeOK
<1>5. CurrentSlice' /\ Endings' /\ SeriesOfRequests'
  BY <1>1, <1>2 DEF CurrentSlice, Endings, SeriesOfRequests, Open, Tries
<1> QED BY <1>3, <1>4, <1>5

LEMMA NextKeeps == IInv /\ [Next]_vars => IInv'
<1> SUFFICES ASSUME IInv, [Next]_vars PROVE IInv'
  OBVIOUS
<1>1. CASE OrderStep
  <2>1. CASE \E v \in Venues, price \in Prices \cup {0} : Quote(v, price)
    BY <2>1, QuoteKeeps
  <2>2. CASE \E v \in Venues : ExecuteFirst(v) \/ FailOver(v)
    BY <2>2, ExecuteFirstKeeps, FailOverKeeps
  <2>3. CASE ExecuteNone
    BY <2>3, GiveUpKeeps DEF ExecuteNone, QuotesIn, Open
  <2>4. CASE Exhaust \/ Retry \/ Resend
    BY <2>4, ExhaustKeeps, RetryKeeps, ResendKeeps
  <2>5. CASE Answered \/ NextSlice \/ Alerted \/ AlertRaises
    BY <2>5, AnsweredKeeps, NextSliceKeeps, AlertedKeeps
  <2> QED BY <1>1, <2>1, <2>2, <2>3, <2>4, <2>5 DEF OrderStep
<1>2. CASE Cancel \/ DriftEnds \/ \E v \in Venues : Refill(v)
  BY <1>2, CancelKeeps, DriftEndsKeeps, RefillKeeps
<1>3. CASE UNCHANGED vars
  BY <1>3 DEF vars, IInv, TypeOK, SlicesInOrder, CurrentSlice, Endings, SeriesOfRequests, Open, Tries
<1> QED BY <1>1, <1>2, <1>3 DEF Next

\* IInv is inductive, so it holds of every order.
THEOREM InductiveInvariant == Spec => []IInv
<1>1. IInv /\ [Next]_vars => IInv'
  BY NextKeeps
<1> QED BY <1>1, InitIInv, PTL DEF Spec

-----------------------------------------------------------------------------
\* Every reachable state of an order is well typed.
THEOREM OrderTypeCorrect == Spec => []TypeOK
<1>1. IInv => TypeOK
  BY DEF IInv
<1> QED BY <1>1, InductiveInvariant, PTL

\* With any number of venues and attempts, and a cancellation at any await, a
\* child order is filled at most once more than answers were lost.
THEOREM NoUnexplainedDuplicate == Spec => []DuplicateNeedsLostAck
<1>1. IInv => DuplicateNeedsLostAck
  <2> SUFFICES ASSUME IInv, NEW i \in 1..MaxSlices PROVE fills[i] <= 1 + lost[i]
    BY DEF DuplicateNeedsLostAck
  <2>1. i < slice \/ i = slice \/ i > slice
    BY DEF IInv, TypeOK
  <2>2. fills[i] \in Nat /\ lost[i] \in Nat
    BY DEF IInv, TypeOK
  <2>3. CASE i = slice
    BY <2>3 DEF IInv, CurrentSlice
  <2>4. CASE i # slice
    BY <2>1, <2>2, <2>4 DEF IInv, SlicesInOrder
  <2> QED BY <2>3, <2>4
<1> QED BY <1>1, InductiveInvariant, PTL

\* In an order whose last slice is answered, each one is filled.
LEMMA LastAnswered ==
    ASSUME IInv, slice = slices, fills[slice] = 1 + lost[slice]
    PROVE  FilledWhole
<1>1. \A i \in 1..slices : i \in 1..MaxSlices /\ (i < slice \/ i = slice)
  BY OrderAssumption DEF IInv, TypeOK
<1> QED BY <1>1 DEF IInv, SlicesInOrder, FilledWhole

\* One of which nothing is written has been sent up to the current slice.
LEMMA NoRows ==
    ASSUME IInv, rows = 0
    PROVE  Unwritten
<1>1. \A i \in 1..slices : i \in 1..MaxSlices
  BY OrderAssumption DEF IInv, TypeOK
<1> QED BY <1>1 DEF IInv, SlicesInOrder, Unwritten

\* An order that ends well is written slice by slice, whatever failed on the way.
THEOREM OkOrdersAreRecorded == Spec => []OkOrderIsRecorded
<1>1. IInv => OkOrderIsRecorded
  <2> SUFFICES ASSUME IInv, outcome = "ok" PROVE rows = slices /\ FilledWhole
    BY DEF OkOrderIsRecorded
  <2> QED BY LastAnswered DEF IInv, Endings, CurrentSlice
<1> QED BY <1>1, InductiveInvariant, PTL

\* An order that failed or was cancelled has written nothing, every slice before the
\* current one is filled at an exchange, and after a failure the current one is not.
THEOREM FailedOrdersAreUnwritten == Spec => []FailedOrderIsUnwritten
<1>1. IInv => FailedOrderIsUnwritten
  BY NoRows DEF IInv, Endings, CurrentSlice, FailedOrderIsUnwritten
<1> QED BY <1>1, InductiveInvariant, PTL

\* Trades are missing after an exception either of an order that is filled whole, or all
\* of them.
THEOREM RaisedOrdersAreExplained == Spec => []RaisedOrderIsExplained
<1>1. IInv => RaisedOrderIsExplained
  <2> SUFFICES ASSUME IInv, outcome = "raised"
               PROVE  \/ rows <= slices /\ FilledWhole
                      \/ Unwritten /\ fills[slice] = lost[slice]
    BY DEF RaisedOrderIsExplained
  <2>1. \/ rows <= slices /\ slice = slices /\ fills[slice] = 1 + lost[slice]
        \/ rows = 0 /\ fills[slice] = lost[slice]
    BY DEF IInv, Endings, CurrentSlice
  <2> QED BY <2>1, LastAnswered, NoRows
<1> QED BY <1>1, InductiveInvariant, PTL

\* No venue is asked for a slice in two series of attempts.
THEOREM VenuesTriedOnce == Spec => []OneSeriesPerVenue
<1>1. IInv => OneSeriesPerVenue
  BY DEF IInv, SeriesOfRequests, OneSeriesPerVenue
<1> QED BY <1>1, InductiveInvariant, PTL

-----------------------------------------------------------------------------
\* The first request of a slice is the one execute() begins once the quotes are in.
LEMMA FirstRequest ==
    ASSUME IInv, [Next]_vars, NEW v \in Venues, sent = NothingSent, sent'[v] = 1
    PROVE  ExecuteFirst(v)
<1>1. \A u \in Venues : sent[u] = 0
  BY DEF NothingSent
<1>2. sent' # sent
  BY <1>1
<1>3. phase \notin {"sending", "backoff"}
  BY <1>1 DEF IInv, SeriesOfRequests
<1>4. sent' # NothingSent
  BY <1>2
<1>5. PICK w \in Venues : ExecuteFirst(w)
  BY <1>2, <1>3, <1>4 DEF Next, OrderStep, vars, Quote, FailOver, LastFailed, ExecuteNone, Exhaust,
      GiveUp, Retry, Resend, Answered, NextSlice, Alerted, AlertRaises, Cancel, DriftEnds, Refill
<1>6. w = v
  BY <1>1, <1>5 DEF ExecuteFirst, Try, Send, IInv, TypeOK
<1> QED BY <1>5, <1>6

\* In each of the four ways an order ends, what is written is known from what was filled,
\* and no trade is written of an order that was filled in part.
THEOREM RecordsAreTrue == Spec => []RecordsMatchFills
BY OkOrdersAreRecorded, FailedOrdersAreUnwritten, RaisedOrdersAreExplained, PTL
   DEF RecordsMatchFills

\* The best price with a token left gets the first request, on either side of the
\* market and with any number of venues.
THEOREM BestPriceIsTriedFirst == Spec => BestQuoteFirst
<1> DEFINE Best(b) == \A u \in Quoted :
                        /\ IF side = "buy" THEN quotes[b] <= quotes[u] ELSE quotes[b] >= quotes[u]
                        /\ quotes[u] = quotes[b] => b <= u
           Step == \A v, b \in Venues :
                    /\ sent = NothingSent /\ sent'[v] = 1
                    /\ quotes[b] > 0 /\ tokens[b] > 0
                    /\ Best(b)
                    => v = b
<1>1. ASSUME IInv, [Next]_vars PROVE Step
  <2> SUFFICES ASSUME NEW v \in Venues, NEW b \in Venues, sent = NothingSent, sent'[v] = 1,
                      quotes[b] > 0, tokens[b] > 0, Best(b)
               PROVE  v = b
    OBVIOUS
  <2>1. NextToTry(v, Funded(Venues))
    BY <1>1, FirstRequest DEF ExecuteFirst, Try
  <2>2. side \in {"buy", "sell"} /\ Venues \subseteq Nat
            /\ \A u \in Venues : quotes[u] \in Nat
    <3>1. side \in {"buy", "sell"} /\ quotes \in [Venues -> Prices \cup {0}]
      BY <1>1 DEF IInv, TypeOK
    <3>2. Prices \cup {0} \subseteq Nat /\ Venues \subseteq Nat
      BY OrderAssumption
    <3>3. \A u \in Venues : quotes[u] \in Prices \cup {0}
      BY <3>1
    <3> QED BY <3>1, <3>2, <3>3
  <2>3. b \in Quoted /\ b \in Funded(Venues)
    BY DEF Quoted, Funded, HasToken
  <2>4. IsBest(b)
    BY <2>2, <2>3 DEF IsBest, Better, Quoted
  <2>5. IsBest(v)
    BY <2>1, <2>3, <2>4 DEF NextToTry
  <2>6. v \in Quoted /\ quotes[v] = quotes[b]
    BY <2>2, <2>3, <2>4, <2>5 DEF IsBest, Better
  <2> QED BY <2>2, <2>3, <2>4, <2>5, <2>6 DEF IsBest
<1>2. IInv /\ [Next]_vars => [Step]_vars
  BY <1>1
<1>3. Spec => [][Step]_vars
  BY <1>2, InductiveInvariant, PTL DEF Spec
<1> QED BY <1>3 DEF BestQuoteFirst

-----------------------------------------------------------------------------
(* OrderExecution implements SlicedOrder.                                  *)

\* Which slices are executed, by the phase.
LEMMA ExecutedSlices ==
    ASSUME IInv
    PROVE  /\ slice \in 1..slices
           /\ \A i \in 1..slices : (i < slice => i \in Executed) /\ (i > slice => i \notin Executed)
           /\ Open => slice \notin Executed
           /\ phase = "pausing" => slice < slices
           /\ phase # "over" => outcome = "none" /\ rows = 0 /\ adrift = 0
<1>1. slice \in 1..slices /\ \A i \in 1..slices : i \in 1..MaxSlices
  BY OrderAssumption DEF IInv, TypeOK, SlicesInOrder
<1>2. \A i \in 1..slices : fills[i] \in Nat /\ lost[i] \in Nat
  BY <1>1 DEF IInv, TypeOK
<1>3. \A i \in 1..slices : (i < slice => i \in Executed) /\ (i > slice => i \notin Executed)
  BY <1>1, <1>2 DEF IInv, SlicesInOrder, Executed
<1>4. Open => slice \notin Executed
  BY <1>1, <1>2 DEF IInv, CurrentSlice, Executed
<1>5. phase = "pausing" => slice < slices
  BY DEF IInv, CurrentSlice
<1>6. phase # "over" => outcome = "none" /\ rows = 0 /\ adrift = 0
  BY DEF IInv, Endings
<1> QED BY <1>1, <1>3, <1>4, <1>5, <1>6

\* A request that raised executes nothing: its fill, if any, is a lost one.
LEMMA RaisedExecutesNothing ==
    ASSUME IInv, Raised, UNCHANGED slices
    PROVE  Executed' = Executed
<1>1. CASE UNCHANGED <<fills, lost>>
  BY <1>1 DEF Executed
<1>2. CASE Filled /\ lost' = [lost EXCEPT ![slice] = @ + 1]
  <2>1. /\ slice \in 1..MaxSlices /\ slices \in 1..MaxSlices
        /\ fills \in [1..MaxSlices -> Nat] /\ lost \in [1..MaxSlices -> Nat]
    BY DEF IInv, TypeOK
  <2>2. \A i \in 1..MaxSlices : /\ fills[i] \in Nat /\ lost[i] \in Nat
                                /\ fills'[i] = IF i = slice THEN fills[i] + 1 ELSE fills[i]
                                /\ lost'[i] = IF i = slice THEN lost[i] + 1 ELSE lost[i]
    BY <1>2, <2>1 DEF Filled
  <2>3. \A i \in 1..slices : i \in 1..MaxSlices
    BY <2>1, OrderAssumption
  <2>4. \A i \in 1..slices : fills'[i] > lost'[i] <=> fills[i] > lost[i]
    BY <2>2, <2>3
  <2> QED BY <2>4 DEF Executed
<1> QED BY <1>1, <1>2 DEF Raised

\* One more fill of the current slice, still open, executes it, as the next in order.
LEMMA FillExecutes ==
    ASSUME IInv, fills' = [fills EXCEPT ![slice] = @ + 1], UNCHANGED <<lost, slices>>,
           slice \notin Executed, fills[slice] = lost[slice]
    PROVE  slice \in 1..slices /\ Order!Execute(slice)
<1>1. slice \in 1..slices /\ \A j \in 1..slices : j < slice => j \in Executed
  BY ExecutedSlices
<1>2. \A i \in 1..slices : fills[i] \in Nat /\ lost[i] \in Nat /\ i \in 1..MaxSlices
  BY OrderAssumption DEF IInv, TypeOK
<1>3. \A i \in 1..slices : fills'[i] = IF i = slice THEN fills[i] + 1 ELSE fills[i]
  BY <1>2 DEF IInv, TypeOK
<1>4. Executed' = Executed \cup {slice}
  BY <1>1, <1>2, <1>3 DEF Executed
<1> QED BY <1>1, <1>4 DEF Order!Execute

LEMMA AnsweredRefines ==
    ASSUME IInv, Answered
    PROVE  Order!Next
<1> USE DEF Answered, order
<1>1. fills[slice] = lost[slice] /\ slice \notin Executed /\ outcome = "none"
  BY ExecutedSlices DEF IInv, CurrentSlice, Open
<1>2. slice \in 1..slices /\ Order!Execute(slice)
  BY <1>1, FillExecutes DEF Filled
<1>3. CASE SettleAll
  <2>1. slice = slices /\ \/ outcome' = "ok" /\ rows' = slices
                          \/ outcome' = "raised" /\ rows' \in 0..slices
    BY <1>3 DEF SettleAll, Settle
  <2> QED BY <1>1, <1>2, <2>1 DEF Order!Finish, Order!Next
<1>4. CASE PauseBetween
  BY <1>1, <1>2, <1>4 DEF PauseBetween, Order!Fill, Order!Next
<1> QED BY <1>3, <1>4

LEMMA EndRefines ==
    ASSUME IInv, Alerted \/ AlertRaises \/ Cancel
    PROVE  Order!Next
<1>1. slices \notin Executed /\ outcome = "none" /\ phase # "over"
  <2>1. phase # "over"
    BY DEF Alerted, AlertRaises, Cancel
  <2>2. Open \/ phase = "pausing"
    BY <2>1 DEF IInv, TypeOK, Phases, Open
  <2>3. slices \in 1..MaxSlices /\ slice \in 1..slices
    BY ExecutedSlices DEF IInv, TypeOK
  <2>4. slice = slices \/ slices > slice
    BY <2>3
  <2> QED BY <2>1, <2>2, <2>3, <2>4, ExecutedSlices
<1>2. Executed' = Executed /\ UNCHANGED <<slices, rows>>
  BY DEF Alerted, AlertRaises, Cancel, order, Executed
<1>3. CASE Alerted \/ AlertRaises
  BY <1>1, <1>2, <1>3 DEF Alerted, AlertRaises, Order!Fail, Order!Next
<1>4. CASE Cancel
  BY <1>1, <1>2, <1>4 DEF Cancel, Order!Cancel, Order!Next
<1> QED BY <1>3, <1>4

LEMMA DriftRefines ==
    ASSUME IInv, DriftEnds
    PROVE  Order!Next
<1> USE DEF DriftEnds, order
<1>1. adrift = slice /\ fills[slice] = lost[slice]
  BY DEF IInv, Endings
<1>2. CASE UNCHANGED fills
  BY <1>2 DEF Order!LateLoss, Order!Next, Executed
<1>3. CASE fills' = [fills EXCEPT ![adrift] = @ + 1]
  <2>1. fills[slice] \in Nat /\ lost[slice] \in Nat
    BY DEF IInv, TypeOK
  <2>2. slice \notin Executed
    BY <1>1, <2>1 DEF Executed
  <2>3. slice \in 1..slices /\ Order!Execute(slice)
    BY <1>1, <1>3, <2>2, FillExecutes
  <2>4. adrift # 0
    OBVIOUS
  <2> QED BY <2>3, <2>4 DEF Order!LateFill, Order!Next
<1> QED BY <1>2, <1>3

\* Everything below the slices is invisible to the tick that awaits the order.
LEMMA InnerStepsStutter ==
    ASSUME IInv,
           \/ \E v \in Venues, price \in Prices \cup {0} : Quote(v, price)
           \/ \E v \in Venues : ExecuteFirst(v) \/ FailOver(v) \/ Refill(v)
           \/ ExecuteNone \/ Exhaust \/ Retry \/ Resend \/ NextSlice
    PROVE  UNCHANGED Order!vars
<1>1. UNCHANGED <<slices, rows, outcome, adrift>>
  BY DEF Quote, ExecuteFirst, FailOver, Refill, ExecuteNone, Exhaust, Retry, Resend, NextSlice,
      Try, GiveUp, order
<1>2. UNCHANGED <<fills, lost>> \/ Raised
  BY DEF Quote, ExecuteFirst, FailOver, LastFailed, Refill, ExecuteNone, Exhaust, Retry, Resend,
      NextSlice
<1>3. Executed' = Executed
  BY <1>1, <1>2, RaisedExecutesNothing DEF Executed
<1> QED BY <1>1, <1>3 DEF Order!vars

\* For any number of venues, attempts and slices, an order is one of SlicedOrder.
THEOREM OrderImplementsSlicedOrder == Spec => ImplementsOrder
<1>1. Init => Order!Init
  <2> SUFFICES ASSUME Init PROVE Order!Init
    OBVIOUS
  <2>1. slices \in 1..MaxSlices
    BY InitIInv DEF IInv, TypeOK
  <2>2. Executed = {}
    BY OrderAssumption, <2>1 DEF Init, Executed
  <2> QED BY <2>1, <2>2 DEF Init, Order!Init
<1>2. ASSUME IInv, [Next]_vars PROVE [Order!Next]_(Order!vars)
  <2>1. CASE Answered \/ Alerted \/ AlertRaises \/ Cancel \/ DriftEnds
    BY <1>2, <2>1, AnsweredRefines, EndRefines, DriftRefines
  <2>2. CASE UNCHANGED vars
    BY <2>2 DEF vars, Order!vars, Executed
  <2> QED BY <1>2, <2>1, <2>2, InnerStepsStutter DEF Next, OrderStep
<1> QED
  BY <1>1, <1>2, InductiveInvariant, PTL DEF Spec, ImplementsOrder, Order!Spec
=============================================================================
