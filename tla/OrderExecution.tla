------------------------- MODULE OrderExecution -------------------------
(***************************************************************************)
(* One order of a trading agent, from CryptoTradingAgent._execute_order    *)
(* down: the TWAP slices of oms/algos.py, the venues of                    *)
(* adapters/exchange/router.py with their token buckets, the retries of    *)
(* oms/execution.py and ai/utils/retry.py, and the trades written at the   *)
(* end.  The exchanges are outside the program: a request may be filled    *)
(* and answered, filled with its answer lost, or refused.                  *)
(*                                                                         *)
(* An action is the code between two awaits.  The supervisor may cancel    *)
(* the task at each await; a request is made in a worker thread            *)
(* (asyncio.to_thread), which a cancellation does not stop.                *)
(***************************************************************************)
EXTENDS Naturals

CONSTANTS
    Venues,      \* the exchanges, numbered in configuration order
    Prices,      \* what a venue may quote
    Attempts,    \* requests with_retry makes at one venue
    Burst,       \* capacity of a venue's token bucket
    TwapSeconds, \* config "twap_seconds"
    MaxSlices    \* max_slices of execute_twap

ASSUME OrderAssumption ==
    /\ Venues \subseteq Nat \ {0}
    /\ Prices \subseteq Nat \ {0}
    /\ Attempts \in Nat \ {0} /\ Burst \in Nat
    /\ TwapSeconds \in Nat /\ MaxSlices \in Nat \ {0}

VARIABLES
    paper, side,    \* how the agent trades, and the order's side
    slices, slice,  \* how many child orders, and the current one
    phase,
    todo,           \* venues still to be asked for a quote, or to be tried
    quotes,         \* this slice's quotes; 0: none
    at,             \* the venue a request is being made at
    sent,           \* requests made at each venue for this slice
    tokens,         \* the token buckets
    fills, lost,    \* per slice: fills at the exchanges, answers lost
    adrift,         \* the slice of a request whose task was cancelled; 0: none
    rows,           \* trades written for this order
    outcome

vars == <<paper, side, slices, slice, phase, todo, quotes, at, sent, tokens,
          fills, lost, adrift, rows, outcome>>

order == <<paper, side, slices>>

Phases == {"quoting", "sending", "backoff", "pausing", "alerting", "over"}
Outcomes == {"none", "ok", "raised", "error", "cancelled"}

NoQuotes == [v \in Venues |-> 0]
NothingSent == [v \in Venues |-> 0]

\* slices = max(1, min(max_slices, seconds // 5)), when the order is sliced at all.
TwapSlices ==
    LET wanted == TwapSeconds \div 5 IN
    IF TwapSeconds <= 5 THEN 1 ELSE IF wanted < MaxSlices THEN wanted ELSE MaxSlices

TypeOK ==
    /\ paper \in BOOLEAN /\ side \in {"buy", "sell"}
    /\ slices \in 1..MaxSlices /\ slice \in 1..MaxSlices
    /\ phase \in Phases /\ outcome \in Outcomes
    /\ todo \subseteq Venues
    /\ quotes \in [Venues -> Prices \cup {0}]
    /\ at \in Venues \cup {0}
    /\ sent \in [Venues -> Nat]
    /\ tokens \in [Venues -> 0..Burst]
    /\ fills \in [1..MaxSlices -> Nat] /\ lost \in [1..MaxSlices -> Nat]
    /\ adrift \in 0..MaxSlices /\ rows \in 0..MaxSlices

\* A small notional or a slow venue makes the order a single child.
Init ==
    /\ paper \in BOOLEAN /\ side \in {"buy", "sell"}
    /\ slices \in {1, TwapSlices} /\ slice = 1
    /\ phase = "quoting" /\ outcome = "none"
    /\ todo = Venues /\ quotes = NoQuotes /\ at = 0 /\ sent = NothingSent
    /\ tokens \in [Venues -> 0..Burst]
    /\ fills = [i \in 1..MaxSlices |-> 0] /\ lost = [i \in 1..MaxSlices |-> 0]
    /\ adrift = 0 /\ rows = 0

\* acquire() computes the refill from the time passed, up to the capacity.
Refill(v) ==
    /\ phase # "over"
    /\ tokens[v] < Burst
    /\ tokens' = [tokens EXCEPT ![v] = @ + 1]
    /\ UNCHANGED <<order, slice, phase, todo, quotes, at, sent, fills, lost, adrift, rows, outcome>>

-----------------------------------------------------------------------------
(* router.best_quote *)

HasToken(v) == tokens[v] > 0
Spend(v) == tokens' = [tokens EXCEPT ![v] = @ - 1]

\* The venues are visited in their order; one without a token is passed over,
\* with no await.
FirstIn(v, S) == v \in S /\ \A u \in S : v <= u
Funded(S) == {v \in S : HasToken(v)}

\* The ticker of the next venue that has a token: a price, or (0) a failure or a
\* price that is not positive.
Quote(v, price) ==
    /\ phase = "quoting"
    /\ FirstIn(v, Funded(todo))
    /\ Spend(v)
    /\ quotes' = [quotes EXCEPT ![v] = price]
    /\ todo' = {u \in todo : u > v}
    /\ UNCHANGED <<order, slice, phase, at, sent, fills, lost, adrift, rows, outcome>>

Better(p, q) == IF side = "sell" THEN p > q ELSE p < q
Quoted == {v \in Venues : quotes[v] > 0}

\* Seeded fault: candidates.sort without `reverse` for a sale.
IsCheapest(v) ==
    /\ v \in Quoted
    /\ \A u \in Quoted :
        quotes[v] <= quotes[u] /\ (quotes[u] = quotes[v] => v <= u)

\* candidates.sort is stable: among equals the first venue wins.
IsBest(v) ==
    /\ v \in Quoted
    /\ \A u \in Quoted :
        ~Better(quotes[u], quotes[v]) /\ (quotes[u] = quotes[v] => v <= u)

\* The next venue execute() tries: the best quote if it is still to be tried,
\* then configuration order.
NextToTry(v, S) ==
    IF \E b \in S : IsBest(b) THEN v \in S /\ IsBest(v) ELSE FirstIn(v, S)

-----------------------------------------------------------------------------
(* router.execute over the venues, executor.execute at one of them *)

Send(v) ==
    /\ phase' = "sending"
    /\ at' = v
    /\ sent' = [sent EXCEPT ![v] = @ + 1]

\* Seeded fault: `ordered.insert(0, best)` without `ordered.remove(best)`.
TryTwice(v, S) ==
    /\ NextToTry(v, Funded(S))
    /\ Spend(v)
    /\ todo' = IF IsBest(v) /\ sent[v] = 0 THEN S ELSE S \ {v}
    /\ Send(v)
    /\ UNCHANGED <<order, slice, quotes, adrift, rows, outcome>>

\* The first request at the next venue that has a token.
Try(v, S) ==
    /\ NextToTry(v, Funded(S))
    /\ Spend(v)
    /\ todo' = S \ {v}
    /\ Send(v)
    /\ UNCHANGED <<order, slice, quotes, adrift, rows, outcome>>

\* Seeded fault: an exhausted bucket is waited for.
WaitForToken(S) ==
    /\ Funded(S) = {}
    /\ UNCHANGED vars

\* "All venues failed to execute order": the error is recorded and the webhook
\* is awaited.
GiveUp(S) ==
    /\ Funded(S) = {}
    /\ phase' = "alerting"
    /\ at' = 0 /\ todo' = {}
    /\ UNCHANGED <<order, slice, quotes, sent, tokens, adrift, rows, outcome>>

QuotesIn == phase = "quoting" /\ Funded(todo) = {}
ExecuteFirst(v) == QuotesIn /\ Try(v, Venues) /\ UNCHANGED <<fills, lost>>
ExecuteNone == QuotesIn /\ GiveUp(Venues) /\ UNCHANGED <<fills, lost>>

\* A paper fill is computed from a ticker, in one attempt.
Tries == IF paper THEN 1 ELSE Attempts

Filled == fills' = [fills EXCEPT ![slice] = @ + 1]

\* The request raised, having reached the exchange or not.
Raised ==
    \/ UNCHANGED <<fills, lost>>
    \/ ~paper /\ Filled /\ lost' = [lost EXCEPT ![slice] = @ + 1]

\* with_retry sleeps after a failed attempt that was not the last.
Retry ==
    /\ phase = "sending" /\ sent[at] < Tries
    /\ Raised
    /\ phase' = "backoff"
    /\ UNCHANGED <<order, slice, todo, quotes, at, sent, tokens, adrift, rows, outcome>>

Resend ==
    /\ phase = "backoff"
    /\ Send(at)
    /\ UNCHANGED <<order, slice, todo, quotes, tokens, fills, lost, adrift, rows, outcome>>

LastFailed == phase = "sending" /\ sent[at] >= Tries /\ Raised
FailOver(v) == LastFailed /\ Try(v, todo)
Exhaust == LastFailed /\ GiveUp(todo)

-----------------------------------------------------------------------------
(* execute_twap over the slices, and the end of _execute_order *)

\* The payloads are booked and written with no await in between.
Settle(n, result) ==
    /\ rows' = n /\ outcome' = result
    /\ phase' = "over" /\ at' = 0 /\ todo' = {}

\* The last child order is answered.  Outside of the try block, the portfolio may refuse
\* a payload, a number in it may not convert, and a trade or its audit may not be
\* written: the trades written before stay.
SettleAll ==
    /\ slice = slices
    /\ \/ Settle(slices, "ok")
       \/ \E n \in 0..slices : Settle(n, "raised")

PauseBetween ==
    /\ slice < slices
    /\ phase' = "pausing" /\ at' = 0 /\ todo' = {}
    /\ UNCHANGED <<rows, outcome>>

Answered ==
    /\ phase = "sending"
    /\ Filled
    /\ SettleAll \/ PauseBetween
    /\ UNCHANGED <<order, slice, quotes, sent, tokens, lost, adrift>>

NextSlice ==
    /\ phase = "pausing"
    /\ slice' = slice + 1
    /\ phase' = "quoting"
    /\ todo' = Venues /\ quotes' = NoQuotes /\ sent' = NothingSent
    /\ UNCHANGED <<order, at, tokens, fills, lost, adrift, rows, outcome>>

\* Seeded fault: execute_twap goes on with the next slice after a failed one.
SkipFailedSlice ==
    /\ phase = "alerting"
    /\ IF slice < slices
       THEN phase' = "pausing" /\ UNCHANGED outcome
       ELSE phase' = "over" /\ outcome' = "error"
    /\ UNCHANGED <<order, slice, todo, quotes, at, sent, tokens, fills, lost, adrift, rows>>

\* The webhook was sent: the circuit breaker counts the error and _execute_order
\* returns.
Alerted ==
    /\ phase = "alerting"
    /\ phase' = "over" /\ outcome' = "error"
    /\ UNCHANGED <<order, slice, todo, quotes, at, sent, tokens, fills, lost, adrift, rows>>

\* The audit or the webhook raised inside the `except` block: the tick loop dies of it.
AlertRaises ==
    /\ phase = "alerting"
    /\ phase' = "over" /\ outcome' = "raised"
    /\ UNCHANGED <<order, slice, todo, quotes, at, sent, tokens, fills, lost, adrift, rows>>

-----------------------------------------------------------------------------
(* Supervisor.stop() cancels the tick *)

\* Seeded fault: with_retry catches BaseException, CancelledError included.
CancelRetried ==
    /\ phase = "sending" /\ sent[at] < Tries
    /\ phase' = "backoff"
    /\ adrift' = slice
    /\ UNCHANGED <<order, slice, todo, quotes, at, sent, tokens, fills, lost, rows, outcome>>

\* Seeded fault: _execute_order catches the cancellation too and sends its alert.
CancelAlerts ==
    /\ phase # "over"
    /\ phase' = "alerting" /\ at' = 0 /\ todo' = {}
    /\ adrift' = IF phase = "sending" /\ ~paper THEN slice ELSE adrift
    /\ UNCHANGED <<order, slice, quotes, sent, tokens, fills, lost, rows, outcome>>

\* No `except Exception` on the way catches CancelledError, so nothing is
\* retried or written; a live request goes on in its thread.
Cancel ==
    /\ phase # "over"
    /\ phase' = "over" /\ outcome' = "cancelled" /\ at' = 0 /\ todo' = {}
    /\ adrift' = IF phase = "sending" /\ ~paper THEN slice ELSE adrift
    /\ UNCHANGED <<order, slice, quotes, sent, tokens, fills, lost, rows>>

\* The thread's request ends, filled or not, and nobody reads its result.
DriftEnds ==
    /\ adrift # 0
    /\ adrift' = 0
    /\ \/ fills' = [fills EXCEPT ![adrift] = @ + 1]
       \/ UNCHANGED fills
    /\ UNCHANGED <<order, slice, phase, todo, quotes, at, sent, tokens, lost, rows, outcome>>

-----------------------------------------------------------------------------
OrderStep ==
    \/ \E v \in Venues, price \in Prices \cup {0} : Quote(v, price)
    \/ \E v \in Venues : ExecuteFirst(v) \/ FailOver(v)
    \/ ExecuteNone \/ Exhaust
    \/ Retry \/ Resend \/ Answered \/ NextSlice
    \/ Alerted \/ AlertRaises

Next ==
    \/ OrderStep
    \/ Cancel \/ DriftEnds
    \/ \E v \in Venues : Refill(v)

Spec == Init /\ [][Next]_vars

\* Every await of the order ends: sleeps are finite, requests time out.
FairSpec == Spec /\ WF_vars(OrderStep)

-----------------------------------------------------------------------------
(* The abstract specification this module implements *)

\* A slice is executed once it has a fill that was not lost.
Executed == {i \in 1..slices : fills[i] > lost[i]}

Order == INSTANCE SlicedOrder WITH
    MaxParts <- MaxSlices, parts <- slices, executed <- Executed,
    booked <- rows, result <- outcome, late <- adrift # 0

-----------------------------------------------------------------------------
(* Properties *)

\* With every venue, retry, failover, lost answer and cancellation, an order is one of
\* SlicedOrder: the slices are executed one after the other, nothing is booked before the
\* last one is, then all unless the booking raises, and an ended order does nothing more
\* (crypto_agent.py:486-580).
ImplementsOrder == Order!Spec

\* A child order is filled a second time only when the answer to an earlier fill
\* was lost: neither a retry, a failover to another venue nor a cancellation with
\* a request in flight duplicates it otherwise.
DuplicateNeedsLostAck == \A i \in 1..MaxSlices : fills[i] <= 1 + lost[i]

\* The exchanges hold one fill per slice besides those whose answers were lost.
FilledWhole == \A i \in 1..slices : fills[i] = 1 + lost[i]

\* Nothing is written, of as many fills as slices came before the current one; no later
\* slice was sent.
Unwritten ==
    /\ rows = 0
    /\ \A i \in 1..slices :
        /\ i < slice => fills[i] = 1 + lost[i]
        /\ i > slice => fills[i] = 0

\* An order that ends well has a trade for each slice, each filled once.
OkOrderIsRecorded == outcome = "ok" => rows = slices /\ FilledWhole

\* An error or a cancellation leaves nothing written; after an error no fill of the
\* current slice was answered.
FailedOrderIsUnwritten ==
    /\ outcome \in {"error", "cancelled"} => Unwritten
    /\ outcome = "error" => fills[slice] = lost[slice]

\* An exception that leaves _execute_order comes from the booking of an order filled
\* whole, and trades of that order may be missing; or from the `except` block of a failed
\* one, and nothing is written.
RaisedOrderIsExplained ==
    outcome = "raised" =>
        \/ rows <= slices /\ FilledWhole
        \/ Unwritten /\ fills[slice] = lost[slice]

\* In each of the four ways an order ends, what is written is known from what was filled:
\* one trade a slice when it ends well, none when it fails or is cancelled, and when an
\* exception leaves it, none or no more than the slices, each filled once; so no trade is
\* ever written of an order that was filled in part (crypto_agent.py:486-580).
RecordsMatchFills == OkOrderIsRecorded /\ FailedOrderIsUnwritten /\ RaisedOrderIsExplained

\* However many venues fail, none gets more requests for a slice than one series
\* of attempts, and none gets one without a token taken for it.
OneSeriesPerVenue ==
    /\ \A v \in Venues : sent[v] <= Tries
    /\ phase \in {"sending", "backoff"} => at \notin todo

\* The first request of a slice goes to the venue with the best price for that
\* side, the first of them in configuration order, if its bucket has a token left
\* after the quotes took theirs.
BestQuoteFirst ==
    [][\A v, b \in Venues :
        /\ sent = NothingSent /\ sent'[v] = 1
        /\ quotes[b] > 0 /\ tokens[b] > 0
        /\ \A u \in Quoted :
            /\ IF side = "buy" THEN quotes[b] <= quotes[u] ELSE quotes[b] >= quotes[u]
            /\ quotes[u] = quotes[b] => b <= u
        => v = b]_vars

\* No order hangs: the retries, the failovers and the slices all come to an end.
OrderEnds == <>(phase = "over")
=============================================================================
