--------------------------- MODULE SlicedOrder ---------------------------
(***************************************************************************)
(* What _execute_order promises the tick that awaits it, without venues,   *)
(* quotes, tokens, retries or lost answers: the parts of an order are      *)
(* executed one after the other; nothing is booked before the last part    *)
(* is executed, and then everything, unless the booking itself is cut      *)
(* short by an exception; once the order has ended nothing follows, but    *)
(* for the one part a cancelled order may still have at an exchange.  This *)
(* is the order of module TradingAgent.                                    *)
(***************************************************************************)
EXTENDS Naturals

CONSTANT MaxParts

VARIABLES
    parts,      \* how many parts the order has
    executed,   \* those executed
    booked,     \* trades booked and written
    result,     \* how the order ended
    late        \* a request of a cancelled order is still on its way

vars == <<parts, executed, booked, result, late>>

Init ==
    /\ parts \in 1..MaxParts
    /\ executed = {} /\ booked = 0 /\ result = "none" /\ late = FALSE

\* The next part, in order.
Execute(i) ==
    /\ i \in (1..parts) \ executed
    /\ \A j \in 1..parts : j < i => j \in executed
    /\ executed' = executed \cup {i}
    /\ UNCHANGED parts

\* A part that others follow.
Fill(i) == result = "none" /\ i < parts /\ Execute(i) /\ UNCHANGED <<booked, result, late>>

\* The last one: all is booked, or what came before an exception.
Finish ==
    /\ result = "none"
    /\ Execute(parts)
    /\ \/ result' = "ok" /\ booked' = parts
       \/ result' = "raised" /\ booked' \in 0..parts
    /\ UNCHANGED late

\* A failure ends the order before its last part, and books nothing.
Fail ==
    /\ result = "none" /\ parts \notin executed
    /\ result' \in {"error", "raised"}
    /\ UNCHANGED <<parts, executed, booked, late>>

\* So does a cancellation, which a request may outlive.
Cancel ==
    /\ result = "none" /\ parts \notin executed
    /\ result' = "cancelled" /\ late' \in BOOLEAN
    /\ UNCHANGED <<parts, executed, booked>>

LateFill(i) == late /\ late' = FALSE /\ Execute(i) /\ UNCHANGED <<booked, result>>
LateLoss == late /\ late' = FALSE /\ UNCHANGED <<parts, executed, booked, result>>

Next ==
    \/ \E i \in 1..parts : Fill(i) \/ LateFill(i)
    \/ Finish \/ Fail \/ Cancel \/ LateLoss

Spec == Init /\ [][Next]_vars
=============================================================================
