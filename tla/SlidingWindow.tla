--------------------------- MODULE SlidingWindow ---------------------------
(***************************************************************************)
(* What the limiters and the circuit breaker share: a list of stamps,      *)
(* oldest first, whose front is dropped (popleft) as long as it is too     *)
(* old.  Stamps are ages here.                                             *)
(***************************************************************************)
EXTENDS Integers, Sequences

\* What is left of ages, the oldest first, when those over the limit are dropped from the
\* front.
Unexpired(ages, limit) ==
    LET kept == {i \in 1..Len(ages) : ages[i] <= limit}
        first == CHOOSE i \in kept \cup {Len(ages) + 1} : \A j \in kept : i <= j
    IN SubSeq(ages, first, Len(ages))
=============================================================================
