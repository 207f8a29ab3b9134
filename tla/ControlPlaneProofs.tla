------------------------ MODULE ControlPlaneProofs ------------------------
(***************************************************************************)
(* Theorems about ControlPlane, for any agents, clients, users, rates and  *)
(* limits of the guards, and about the limiter of Telegram, whose window   *)
(* slides in the same way; proved with TLAPS.                              *)
(***************************************************************************)
EXTENDS ControlPlane, Telegram, SequenceTheorems, FiniteSetTheorems, WellFoundedInduction, TLAPS

-----------------------------------------------------------------------------
(* What is dropped from the front of the ages *)

LEMMA LeastExists ==
    ASSUME NEW S \in SUBSET Nat, S # {}
    PROVE  \E n \in S : \A m \in S : n <= m
<1> DEFINE R == OpToRel(<, Nat)
<1>1. \A m, n \in Nat : <<m, n>> \in R <=> m < n
  BY DEF OpToRel
<1>2. PICK n \in S : \A m \in S : ~ (<<m, n>> \in R)
  <2> HIDE DEF R
  <2>1. IsWellFoundedOn(R, Nat)
    BY NatLessThanWellFounded DEF R
  <2> QED BY <2>1, WFMin
<1> HIDE DEF R
<1>3. \A m \in S : ~(m < n)
  BY <1>1, <1>2
<1> QED BY <1>3

\* What is left is a suffix, and whatever is in front of it is over the limit.
LEMMA UnexpiredSuffix ==
    ASSUME NEW ages \in Seq(Int), NEW limit \in Int
    PROVE  \E first \in 1..(Len(ages) + 1) :
              /\ Unexpired(ages, limit) = SubSeq(ages, first, Len(ages))
              /\ \A j \in 1..(first - 1) : ages[j] > limit
              /\ first <= Len(ages) => ages[first] <= limit
<1> DEFINE n == Len(ages)
           kept == {i \in 1..n : ages[i] <= limit}
           first == CHOOSE i \in kept \cup {n + 1} : \A j \in kept : i <= j
<1>1. n \in Nat /\ \A i \in 1..n : ages[i] \in Int
  OBVIOUS
<1>2. \E i \in kept \cup {n + 1} : \A j \in kept \cup {n + 1} : i <= j
  <2>1. kept \cup {n + 1} \in SUBSET Nat /\ kept \cup {n + 1} # {}
    BY <1>1
  <2> HIDE DEF kept, n
  <2> QED BY <2>1, LeastExists
<1>3. first \in kept \cup {n + 1} /\ \A j \in kept : first <= j
  BY <1>2
<1>4. Unexpired(ages, limit) = SubSeq(ages, first, n)
  BY DEF Unexpired
<1> HIDE DEF first
<1>5. first \in 1..(n + 1)
  BY <1>1, <1>3
<1>6. ASSUME NEW j \in 1..(first - 1) PROVE ages[j] > limit
  <2>1. j \in 1..n /\ ~(first <= j)
    BY <1>1, <1>5
  <2> QED BY <1>1, <1>3, <2>1
<1>7. first <= n => ages[first] <= limit
  BY <1>1, <1>3
<1> QED BY <1>4, <1>5, <1>6, <1>7

LEMMA SuffixFacts ==
    ASSUME NEW S, NEW s \in Seq(S), NEW first \in 1..(Len(s) + 1),
           NEW rest, rest = SubSeq(s, first, Len(s))
    PROVE  /\ rest \in Seq(S) /\ Len(rest) = Len(s) + 1 - first
           /\ \A i \in 1..Len(rest) : rest[i] = s[first + i - 1]
<1>1. PICK n \in Nat : n = Len(s) /\ first \in 1..(n + 1)
  OBVIOUS
<1>2. rest = [i \in 1..(n - first + 1) |-> s[i + first - 1]]
  BY <1>1
<1>3. \A i \in 1..(n - first + 1) : i + first - 1 \in 1..n /\ i + first - 1 = first + i - 1
  BY <1>1
<1>4. n - first + 1 \in Nat /\ n - first + 1 = n + 1 - first
  BY <1>1
<1>5. Len(rest) = n - first + 1
  BY <1>1, <1>2, <1>4
<1>6. \A i \in 1..(n - first + 1) : rest[i] = s[first + i - 1] /\ rest[i] \in S
  BY <1>1, <1>2, <1>3
<1>7. rest \in [1..(n - first + 1) -> S]
  BY <1>2, <1>6
<1>8. rest \in Seq(S)
  BY <1>4, <1>7
<1> QED BY <1>1, <1>4, <1>5, <1>6, <1>8

\* It is no longer than it was, and of the same kind.
LEMMA UnexpiredType ==
    ASSUME NEW S \in SUBSET Int, NEW ages \in Seq(S), NEW limit \in Int
    PROVE  /\ Unexpired(ages, limit) \in Seq(S)
           /\ Len(Unexpired(ages, limit)) \in 0..Len(ages)
<1>1. ages \in Seq(Int) /\ Len(ages) \in Nat
  <2>1. PICK n \in Nat : n = Len(ages) /\ ages \in [1..n -> S]
    OBVIOUS
  <2>2. ages \in [1..n -> Int]
    BY <2>1
  <2> QED BY <2>1, <2>2
<1>2. PICK first \in 1..(Len(ages) + 1) :
            Unexpired(ages, limit) = SubSeq(ages, first, Len(ages))
  BY <1>1, UnexpiredSuffix
<1>3. /\ Unexpired(ages, limit) \in Seq(S)
      /\ Len(Unexpired(ages, limit)) = Len(ages) + 1 - first
  BY <1>2, SuffixFacts
<1> QED BY <1>1, <1>2, <1>3

\* The oldest is in front.
InOrder(ages) == \A i, j \in 1..Len(ages) : i <= j => ages[i] >= ages[j]

\* Of ages in order, nothing over the limit is left.
LEMMA UnexpiredInOrder ==
    ASSUME NEW ages \in Seq(Int), NEW limit \in Int, InOrder(ages)
    PROVE  /\ InOrder(Unexpired(ages, limit))
           /\ \A i \in 1..Len(Unexpired(ages, limit)) :
                 Unexpired(ages, limit)[i] \in Int /\ Unexpired(ages, limit)[i] <= limit
<1>1. PICK first \in 1..(Len(ages) + 1) :
            /\ Unexpired(ages, limit) = SubSeq(ages, first, Len(ages))
            /\ first <= Len(ages) => ages[first] <= limit
  BY UnexpiredSuffix
<1>2. PICK n \in Nat : n = Len(ages) /\ first \in 1..(n + 1)
  OBVIOUS
<1>3. PICK rest : rest = Unexpired(ages, limit)
  OBVIOUS
<1>4. /\ Len(rest) = n + 1 - first
      /\ \A i \in 1..Len(rest) : rest[i] = ages[first + i - 1]
  BY <1>1, <1>2, <1>3, SuffixFacts
<1>5. \A i \in 1..Len(rest) : first + i - 1 \in first..n /\ first + i - 1 \in 1..n
  BY <1>2, <1>4
<1>6. \A i \in 1..Len(rest) : rest[i] \in Int /\ rest[i] <= limit
  <2> TAKE i \in 1..Len(rest)
  <2>1. PICK k \in first..n : k = first + i - 1 /\ rest[i] = ages[k]
    BY <1>4, <1>5
  <2>2. first \in 1..n /\ k \in 1..n /\ first <= k /\ ages[k] \in Int /\ ages[first] \in Int
    BY <1>2, <2>1
  <2>3. ages[first] >= ages[k] /\ ages[first] <= limit
    BY <1>1, <1>2, <2>2 DEF InOrder
  <2> QED BY <2>1, <2>2, <2>3
<1>7. InOrder(rest)
  <2> SUFFICES ASSUME NEW i \in 1..Len(rest), NEW j \in 1..Len(rest), i <= j
               PROVE  rest[i] >= rest[j]
    BY DEF InOrder
  <2>1. /\ first + i - 1 \in 1..n /\ first + j - 1 \in 1..n
        /\ first + i - 1 <= first + j - 1
    BY <1>2, <1>4, <1>5
  <2>2. ages[first + i - 1] >= ages[first + j - 1]
    BY <1>2, <2>1 DEF InOrder
  <2> QED BY <1>4, <2>2
<1> QED BY <1>3, <1>6, <1>7

-----------------------------------------------------------------------------
(* Type correctness, by the parts of the state *)

HitsType ==
    /\ hits \in [Users \X Ops -> Seq(0..Minute - 1)]
    /\ \A b \in Users \X Ops : Len(hits[b]) <= Count + 1 /\ InOrder(hits[b])

BreakerType == failures \in Seq(0..Window + 1) /\ openFor \in -1..Cooldown

\* No client has two calls in the queue.
CallsType ==
    /\ queue \in Seq(Clients)
    /\ \A i, j \in 1..Len(queue) : queue[i] = queue[j] => i = j
    /\ \A i \in 1..Len(queue) : request[queue[i]] \in Commands
    /\ request \in [Clients -> Commands \cup {NoCommand}]

AgentsType ==
    phase \in [Agents -> {"stopped", "live", "dead"}] /\ gauge \subseteq Agents

SeenType == seen \in [Ops \X Agents -> 0..Ttl]

TypeInv == HitsType /\ BreakerType /\ CallsType /\ AgentsType /\ SeenType

LEMMA InitType == Init => TypeInv
<1> SUFFICES ASSUME Init PROVE TypeInv
  OBVIOUS
<1> USE ControlAssumption DEF Init
<1>1. HitsType
  BY DEF HitsType, InOrder
<1>2. BreakerType /\ CallsType /\ AgentsType /\ SeenType
  BY DEF BreakerType, CallsType, AgentsType, SeenType
<1> QED BY <1>1, <1>2 DEF TypeInv

\* A 0 at the end keeps ages in order.
LEMMA OrderedAppend ==
    ASSUME NEW limit \in Nat, NEW old \in Seq(0..limit), InOrder(old),
           NEW new, new = Append(old, 0)
    PROVE  new \in Seq(0..limit) /\ Len(new) = Len(old) + 1 /\ InOrder(new)
<1>1. PICK n \in Nat : n = Len(old) /\ old \in [1..n -> 0..limit]
  OBVIOUS
<1>2. \A i \in 1..n : old[i] \in Nat
  BY <1>1
<1>3. 0 \in 0..limit
  OBVIOUS
<1>4. new \in Seq(0..limit)
  BY <1>3, AppendProperties
<1>5. /\ Len(new) = n + 1 /\ new[n + 1] = 0
      /\ \A i \in 1..n : new[i] = old[i]
  BY <1>1, <1>3, AppendProperties
<1>6. ASSUME NEW i \in 1..n + 1, NEW j \in 1..n + 1, i <= j PROVE new[i] >= new[j]
  <2>1. CASE j \in 1..n
    <3>1. i \in 1..n
      BY <1>6, <2>1
    <3> QED BY <1>1, <1>5, <1>6, <2>1, <3>1 DEF InOrder
  <2>2. CASE j = n + 1
    <3>1. i \in 1..n \/ i = n + 1
      BY <1>1
    <3>2. new[i] \in Nat
      BY <1>2, <1>5, <3>1
    <3> QED BY <1>5, <2>2, <3>2
  <2> QED BY <1>1, <2>1, <2>2
<1> QED BY <1>1, <1>4, <1>5, <1>6 DEF InOrder

\* A request is counted last, and only when there is room.
LEMMA HitKeeps ==
    ASSUME HitsType, NEW u \in Users, NEW op \in Ops, ~Limited(u, op), Hit(u, op)
    PROVE  HitsType'
<1>1. PICK b \in Users \X Ops : b = <<u, op>>
  OBVIOUS
<1>2. PICK limit \in Nat : limit = Minute - 1
  BY ControlAssumption
<1>3. PICK old \in Seq(0..limit) : old = hits[b]
  BY <1>2 DEF HitsType
<1>4. PICK new : new = Append(old, 0)
  OBVIOUS
<1>5. InOrder(old) /\ ~(Len(old) > Count)
  BY <1>1, <1>3 DEF HitsType, Limited
<1>6. new \in Seq(0..limit) /\ Len(new) = Len(old) + 1 /\ InOrder(new)
  BY <1>4, <1>5, OrderedAppend
<1>7. Len(new) <= Count + 1
  <2>1. PICK n \in Nat : n = Len(old)
    BY <1>3
  <2>2. Count \in Nat
    BY ControlAssumption
  <2> QED BY <1>5, <1>6, <2>1, <2>2
<1>8. hits' = [hits EXCEPT ![b] = new]
  BY <1>1, <1>3, <1>4 DEF Hit
<1>9. hits' \in [Users \X Ops -> Seq(0..Minute - 1)]
  BY <1>2, <1>6, <1>8 DEF HitsType
<1>10. ASSUME NEW c \in Users \X Ops PROVE Len(hits'[c]) <= Count + 1 /\ InOrder(hits'[c])
  <2>1. CASE c = b
    BY <1>6, <1>7, <1>8, <2>1 DEF HitsType
  <2>2. CASE c # b
    BY <1>8, <2>2 DEF HitsType
  <2> QED BY <2>1, <2>2
<1> QED BY <1>9, <1>10 DEF HitsType

\* A moment later, ages in order are still in order and within the limit, and each that is
\* left is one more than that at its place from the end.
Later(ages, limit) == Unexpired([i \in 1..Len(ages) |-> ages[i] + 1], limit)

LEMMA MomentLater ==
    ASSUME NEW limit \in Nat, NEW old \in Seq(0..limit), InOrder(old)
    PROVE  \E rest \in Seq(0..limit) :
              /\ rest = Later(old, limit) /\ Len(rest) \in 0..Len(old) /\ InOrder(rest)
              /\ \A i \in 1..Len(rest) : rest[i] = old[Len(old) - Len(rest) + i] + 1
<1> DEFINE aged == [i \in 1..Len(old) |-> old[i] + 1]
<1>1. PICK n \in Nat : n = Len(old) /\ old \in [1..n -> 0..limit]
  OBVIOUS
<1>2. \A i \in 1..n : old[i] \in Nat
  BY <1>1
<1>3. aged \in Seq(Nat) /\ Len(aged) = n /\ \A i \in 1..n : aged[i] = old[i] + 1
  BY <1>1, <1>2
<1>4. PICK rest : rest = Unexpired(aged, limit) /\ rest = Later(old, limit)
  BY DEF Later
<1> HIDE DEF aged
<1>5. aged \in Seq(Int) /\ InOrder(aged)
  BY <1>1, <1>2, <1>3, SeqMonotonic DEF InOrder
<1>6. PICK first \in 1..(Len(aged) + 1) : rest = SubSeq(aged, first, Len(aged))
  <2>1. limit \in Int
    OBVIOUS
  <2> QED BY <1>4, <1>5, <2>1, UnexpiredSuffix
<1>7. /\ rest \in Seq(Nat) /\ Len(rest) = n + 1 - first
      /\ \A i \in 1..Len(rest) : rest[i] = aged[first + i - 1]
  <2>1. /\ rest \in Seq(Nat) /\ Len(rest) = Len(aged) + 1 - first
        /\ \A i \in 1..Len(rest) : rest[i] = aged[first + i - 1]
    BY <1>3, <1>6, SuffixFacts
  <2> QED BY <1>3, <2>1
<1>8. InOrder(rest) /\ \A i \in 1..Len(rest) : rest[i] <= limit
  <2>1. limit \in Int
    OBVIOUS
  <2> QED BY <1>4, <1>5, <2>1, UnexpiredInOrder
<1>9. rest \in Seq(0..limit)
  <2>1. PICK m \in Nat : m = Len(rest) /\ rest \in [1..m -> Nat]
    BY <1>7, LenProperties
  <2>2. \A i \in 1..m : rest[i] \in 0..limit
    BY <1>8, <2>1
  <2>3. rest \in [1..m -> 0..limit]
    BY <2>1, <2>2
  <2> QED BY <2>3, SeqDef
<1>10. ASSUME NEW i \in 1..Len(rest) PROVE rest[i] = old[n - Len(rest) + i] + 1
  <2>1. n - Len(rest) + i = first + i - 1 /\ first + i - 1 \in 1..n
    BY <1>1, <1>3, <1>6, <1>7
  <2> QED BY <1>3, <1>7, <2>1
<1>11. Len(rest) \in 0..n
  BY <1>1, <1>3, <1>6, <1>7
<1> QED BY <1>1, <1>4, <1>8, <1>9, <1>10, <1>11

\* Time drops what is a minute old from the front.
LEMMA TimeKeepsHits == HitsType /\ TimePasses => HitsType'
<1> SUFFICES ASSUME HitsType, TimePasses PROVE HitsType'
  OBVIOUS
<1>1. ASSUME NEW b \in Users \X Ops
      PROVE  /\ hits'[b] \in Seq(0..Minute - 1)
             /\ Len(hits'[b]) <= Count + 1 /\ InOrder(hits'[b])
  <2>1. PICK limit \in Nat : limit = Minute - 1
    BY ControlAssumption
  <2>2. PICK old \in Seq(0..limit) : old = hits[b] /\ InOrder(old) /\ Len(old) <= Count + 1
    BY <2>1 DEF HitsType
  <2>3. PICK n \in Nat : n = Len(old)
    BY <2>2
  <2>4. PICK rest \in Seq(0..limit) :
               rest = Later(old, limit) /\ Len(rest) \in 0..n /\ InOrder(rest)
    BY <2>2, <2>3, MomentLater
  <2>5. hits'[b] = rest
    BY <2>1, <2>2, <2>4 DEF TimePasses, Later
  <2> QED BY <2>1, <2>2, <2>3, <2>4, <2>5, ControlAssumption
<1>2. hits' \in [Users \X Ops -> Seq(0..Minute - 1)]
  BY <1>1 DEF TimePasses
<1> QED BY <1>1, <1>2 DEF HitsType

LEMMA RecentType ==
    ASSUME BreakerType
    PROVE  Recent \in Seq(0..Window + 1) /\ Len(Recent) \in 0..Len(failures)
<1>1. 0..Window + 1 \in SUBSET Int /\ Window \in Int
  BY ControlAssumption
<1> QED BY <1>1, UnexpiredType DEF BreakerType, Recent

LEMMA BreakerKeeps ==
    ASSUME BreakerType, AskBreaker \/ RecordSuccess \/ RecordError \/ Close \/ UNCHANGED breaker
    PROVE  BreakerType'
<1>1. <<>> \in Seq(0..Window + 1) /\ -1 \in -1..Cooldown /\ 0 \in -1..Cooldown
  BY ControlAssumption
<1>2. CASE RecordError
  <2>1. 0 \in 0..Window + 1
    BY ControlAssumption
  <2>2. failures' \in Seq(0..Window + 1)
    BY <1>2, <2>1, RecentType, AppendProperties DEF RecordError
  <2>3. openFor' \in -1..Cooldown
    BY <1>1, <1>2 DEF RecordError, BreakerType
  <2> QED BY <2>2, <2>3 DEF BreakerType
<1>3. CASE Close \/ UNCHANGED breaker
  BY <1>1, <1>3 DEF BreakerType, Close, breaker
<1> QED BY <1>2, <1>3 DEF AskBreaker, RecordSuccess

LEMMA TimeKeepsBreaker == BreakerType /\ TimePasses => BreakerType'
<1> SUFFICES ASSUME BreakerType, TimePasses PROVE BreakerType'
  OBVIOUS
<1>1. openFor' \in -1..Cooldown
  BY ControlAssumption DEF BreakerType, TimePasses, Older, Closed
<1>2. failures' \in Seq(0..Window + 1)
  <2>1. PICK n \in Nat : n = Len(failures) /\ failures \in [1..n -> 0..Window + 1]
    BY LenProperties DEF BreakerType
  <2>2. ASSUME NEW i \in 1..n PROVE Older(failures[i], Window + 1) \in 0..Window + 1
    BY <2>1, ControlAssumption DEF Older
  <2>3. failures' = [i \in 1..n |-> Older(failures[i], Window + 1)]
    BY <2>1 DEF TimePasses
  <2>4. failures' \in [1..n -> 0..Window + 1]
    BY <2>2, <2>3
  <2> QED BY <2>1, <2>4, SeqDef, ZenonT(60)
<1> QED BY <1>1, <1>2 DEF BreakerType

LEMMA AdmitKeepsCalls ==
    ASSUME CallsType, NEW c \in Clients, NEW u, NEW op \in Ops, NEW k \in Agents,
           Admit(c, u, op, k)
    PROVE  /\ CallsType' /\ Len(queue') = Len(queue) + 1
           /\ request[c] = NoCommand /\ request'[c] \in Commands
           /\ \A d \in Clients : d # c => request'[d] = request[d]
<1>1. PICK n \in Nat : n = Len(queue) /\ queue \in [1..n -> Clients]
  BY LenProperties DEF CallsType
<1>2. PICK command \in Commands : request' = [request EXCEPT ![c] = command]
  BY DEF Admit, Commands
<1>3. /\ queue' \in Seq(Clients) /\ Len(queue') = n + 1 /\ queue'[n + 1] = c
      /\ \A i \in 1..n : queue'[i] = queue[i]
  BY <1>1, AppendProperties DEF Admit, CallsType
<1>4. NoCommand \notin Commands
  BY DEF NoCommand, Commands, Ops
<1>5. \A i \in 1..n : queue[i] \in Clients /\ queue[i] # c
  BY <1>1, <1>4 DEF Admit, CallsType
<1>6. /\ request' \in [Clients -> Commands \cup {NoCommand}]
      /\ request'[c] = command /\ \A d \in Clients : d # c => request'[d] = request[d]
  BY <1>2 DEF CallsType
<1>7. \A i \in 1..n + 1 : i \in 1..n \/ i = n + 1
  OBVIOUS
<1>8. \A i, j \in 1..n + 1 : queue'[i] = queue'[j] => i = j
  BY <1>1, <1>3, <1>5, <1>7 DEF CallsType
<1>9. \A i \in 1..n + 1 : request'[queue'[i]] \in Commands
  BY <1>1, <1>2, <1>3, <1>5, <1>6, <1>7 DEF CallsType
<1> QED BY <1>1, <1>2, <1>3, <1>6, <1>8, <1>9 DEF CallsType, Admit

LEMMA LeaveKeepsCalls ==
    ASSUME CallsType, NEW c \in Clients, Served(c), Leave(c)
    PROVE  /\ CallsType' /\ Len(queue') = Len(queue) - 1 /\ Len(queue) > 0
           /\ request[c] \in Commands /\ request'[c] = NoCommand
           /\ \A d \in Clients : d # c => request'[d] = request[d]
<1>1. PICK n \in Nat : n = Len(queue) /\ queue \in [1..n -> Clients]
  BY LenProperties DEF CallsType
<1>2. n > 0 /\ queue[1] = c /\ request[c] \in Commands
  <2>1. queue # <<>> /\ Head(queue) = c
    BY DEF Served
  <2>2. n > 0 /\ queue[1] = c
    BY <1>1, <2>1, HeadTailProperties DEF CallsType
  <2> QED BY <1>1, <2>2 DEF CallsType
<1>3. /\ queue' \in Seq(Clients) /\ Len(queue') = n - 1
      /\ \A i \in 1..(n - 1) : queue'[i] = queue[i + 1]
  BY <1>1, HeadTailProperties DEF Leave, Served, CallsType
<1>4. \A i \in 1..(n - 1) : i + 1 \in 1..n /\ i + 1 # 1
  BY <1>1
<1>5. \A i \in 1..(n - 1) : queue[i + 1] \in Clients /\ queue[i + 1] # c
  BY <1>1, <1>2, <1>4 DEF CallsType
<1>6. /\ request' \in [Clients -> Commands \cup {NoCommand}]
      /\ request'[c] = NoCommand /\ \A d \in Clients : d # c => request'[d] = request[d]
  BY DEF Leave, CallsType
<1>7. \A i, j \in 1..(n - 1) : queue'[i] = queue'[j] => i = j
  <2> TAKE i, j \in 1..(n - 1)
  <2>1. queue[i + 1] = queue[j + 1] => i + 1 = j + 1
    BY <1>1, <1>4 DEF CallsType
  <2> QED BY <1>3, <2>1
<1>8. \A i \in 1..(n - 1) : request'[queue'[i]] \in Commands
  BY <1>1, <1>3, <1>4, <1>5, <1>6 DEF CallsType
<1> QED BY <1>1, <1>2, <1>3, <1>6, <1>7, <1>8 DEF CallsType

LEMMA FinishKeeps ==
    ASSUME TypeInv, NEW c \in Clients, Finish(c)
    PROVE  TypeInv' /\ (RecordSuccess \/ RecordError) /\ Served(c) /\ Leave(c)
<1>1. (RecordSuccess \/ RecordError) /\ Served(c) /\ Leave(c) /\ UNCHANGED <<hits, seen>>
  BY DEF Finish, StartReturns, StartFails, StopReturns, StopFails
<1>2. BreakerType'
  BY <1>1, BreakerKeeps DEF TypeInv
<1>3. CallsType' /\ request[c] \in Commands
  BY <1>1, LeaveKeepsCalls DEF TypeInv
<1>4. PICK k \in Agents : k = request[c].agent
  BY <1>3 DEF Commands
<1>5. \/ phase' = phase
      \/ \E p \in {"stopped", "live", "dead"} : phase' = [phase EXCEPT ![k] = p]
  BY <1>4 DEF Finish, StartReturns, StartFails, StopReturns, StopFails, TypeInv, AgentsType
<1>6. gauge' \in {gauge, gauge \cup {k}, gauge \ {k}}
  BY <1>4 DEF Finish, StartReturns, StartFails, StopReturns, StopFails
<1>7. AgentsType'
  BY <1>5, <1>6 DEF TypeInv, AgentsType
<1>8. HitsType' /\ SeenType'
  BY <1>1 DEF TypeInv, HitsType, SeenType
<1> QED BY <1>1, <1>2, <1>3, <1>7, <1>8 DEF TypeInv

\* A request that asks the limiter and the breaker.
LEMMA RequestKeeps ==
    ASSUME TypeInv, NEW u \in Users, NEW op \in Ops, ~Limited(u, op), Hit(u, op), AskBreaker,
           CallsType', SeenType', UNCHANGED agents
    PROVE  TypeInv'
<1>1. HitsType'
  BY HitKeeps DEF TypeInv
<1>2. BreakerType'
  BY BreakerKeeps DEF TypeInv
<1>3. AgentsType'
  BY DEF TypeInv, AgentsType, agents
<1> QED BY <1>1, <1>2, <1>3 DEF TypeInv

LEMMA StepType == TypeInv /\ [Next]_vars => TypeInv'
<1> SUFFICES ASSUME TypeInv, [Next]_vars PROVE TypeInv'
  OBVIOUS
<1>1. UNCHANGED calls => CallsType'
  BY DEF TypeInv, CallsType, calls
<1>2. UNCHANGED seen => SeenType'
  BY DEF TypeInv, SeenType
<1>3. ASSUME NEW u \in Users, NEW op \in Ops, Refuse(u, op) PROVE TypeInv'
  BY <1>1, <1>2, <1>3, RequestKeeps DEF Refuse
<1>4. ASSUME NEW u \in Users, NEW op \in Ops, NEW k \in Agents, AnswerDuplicate(u, op, k)
      PROVE  TypeInv'
  BY <1>1, <1>2, <1>4, RequestKeeps DEF AnswerDuplicate
<1>5. ASSUME NEW u \in Users, NEW op \in Ops, NEW k \in Agents, NEW c \in Clients,
             Admit(c, u, op, k)
      PROVE  TypeInv'
  <2>1. SeenType'
    BY <1>5, ControlAssumption DEF Admit, Remember, TypeInv, SeenType
  <2>2. CallsType'
    BY <1>5, AdmitKeepsCalls DEF TypeInv
  <2> QED BY <1>5, <2>1, <2>2, RequestKeeps DEF Admit
<1>6. ASSUME NEW c \in Clients, Finish(c) PROVE TypeInv'
  BY <1>6, FinishKeeps
<1>7. ASSUME NEW k \in Agents, LoopDies(k) PROVE TypeInv'
  <2>1. BreakerType'
    BY <1>7, BreakerKeeps DEF LoopDies, TypeInv
  <2>2. HitsType' /\ AgentsType'
    BY <1>7 DEF LoopDies, TypeInv, HitsType, AgentsType
  <2> QED BY <1>1, <1>2, <1>7, <2>1, <2>2 DEF LoopDies, TypeInv
<1>8. CASE Poll
  <2>1. BreakerType'
    BY <1>8, BreakerKeeps DEF Poll, TypeInv
  <2>2. HitsType' /\ AgentsType'
    BY <1>8 DEF Poll, TypeInv, HitsType, AgentsType, agents
  <2> QED BY <1>1, <1>2, <1>8, <2>1, <2>2 DEF Poll, TypeInv
<1>9. CASE TimePasses
  <2>1. BreakerType' /\ HitsType'
    BY <1>9, TimeKeepsBreaker, TimeKeepsHits DEF TypeInv
  <2>2. SeenType'
    BY <1>9, ControlAssumption DEF TimePasses, Older, TypeInv, SeenType
  <2>3. AgentsType' /\ CallsType'
    BY <1>1, <1>9 DEF TimePasses, TypeInv, AgentsType, agents
  <2> QED BY <2>1, <2>2, <2>3 DEF TypeInv
<1>10. CASE UNCHANGED vars
  <2>1. HitsType' /\ BreakerType' /\ AgentsType'
    BY <1>10 DEF vars, TypeInv, HitsType, BreakerType, AgentsType
  <2> QED BY <1>1, <1>2, <1>10, <2>1 DEF vars, calls, TypeInv
<1> QED BY <1>3, <1>4, <1>5, <1>6, <1>7, <1>8, <1>9, <1>10 DEF Next

LEMMA TypeAlways == Spec => []TypeInv
<1> QED BY InitType, StepType, PTL DEF Spec

\* Every variable has its type, and no endpoint has let in more than its rate and one
\* request in a minute (slowapi/__init__.py:38-45).
THEOREM TypeCorrect == Spec => []TypeOK
<1>1. TypeInv => TypeOK
  BY DEF TypeInv, HitsType, BreakerType, CallsType, AgentsType, SeenType, TypeOK
<1> QED BY <1>1, TypeAlways, PTL

-----------------------------------------------------------------------------
(* The gauge *)

GaugeInv == TypeInv /\ GaugeHidesNoLoop

LEMMA StepGauge == GaugeInv /\ [Next]_vars => GaugeHidesNoLoop'
<1> SUFFICES ASSUME GaugeInv, [Next]_vars PROVE GaugeHidesNoLoop'
  OBVIOUS
<1>1. ASSUME NEW c \in Clients, Finish(c) PROVE GaugeHidesNoLoop'
  <2>1. phase \in [Agents -> {"stopped", "live", "dead"}]
    BY DEF GaugeInv, TypeInv, AgentsType
  <2>2. CASE StartReturns(c) \/ StopReturns(c)
    BY <2>1, <2>2 DEF StartReturns, StopReturns, GaugeInv, GaugeHidesNoLoop
  <2>3. CASE StartFails(c) \/ StopFails(c)
    BY <2>1, <2>3 DEF StartFails, StopFails, GaugeInv, GaugeHidesNoLoop
  <2> QED BY <1>1, <2>2, <2>3 DEF Finish
<1>2. ASSUME NEW k \in Agents, LoopDies(k) PROVE GaugeHidesNoLoop'
  BY <1>2 DEF LoopDies, GaugeInv, TypeInv, AgentsType, GaugeHidesNoLoop
<1>3. UNCHANGED agents => GaugeHidesNoLoop'
  BY DEF agents, GaugeInv, GaugeHidesNoLoop
<1> QED BY <1>1, <1>2, <1>3
           DEF Next, Refuse, AnswerDuplicate, Admit, Poll, TimePasses, vars, agents

\* A loop that is alive is shown by the gauge, however requests overlap, fail and find the
\* breaker open, and loops die (control.py:60-102).
THEOREM GaugeIsHonest == Spec => []GaugeHidesNoLoop
<1>1. Init => GaugeHidesNoLoop
  BY DEF Init, GaugeHidesNoLoop
<1> QED BY <1>1, TypeAlways, StepGauge, PTL DEF Spec, GaugeInv

-----------------------------------------------------------------------------
(* The circuit breaker *)

\* Once open, the breaker is not closed or opened anew before its cooldown is over
\* (guards.py:54-77).
THEOREM CooldownIsKept == Spec => HoldsCooldown
<1> DEFINE Holds == ~Allows => (openFor' = openFor \/ openFor' = openFor + 1)
<1>1. TypeInv /\ [Next]_vars => [Holds]_vars
  <2> SUFFICES ASSUME TypeInv, [Next]_vars, ~Allows PROVE openFor' \in {openFor, openFor + 1}
    OBVIOUS
  <2>1. ~Closed /\ ~Expired
    BY DEF Allows
  <2>2. AskBreaker \/ RecordSuccess \/ RecordError \/ UNCHANGED breaker => openFor' = openFor
    BY <2>1 DEF AskBreaker, RecordSuccess, RecordError, Allows, breaker
  <2>3. TimePasses => openFor' \in {openFor, openFor + 1}
    BY DEF TimePasses, Older
  <2>4. ASSUME NEW c \in Clients, Finish(c) PROVE RecordSuccess \/ RecordError
    BY <2>4, FinishKeeps
  <2>5. ~Poll
    BY <2>1 DEF Poll
  <2> QED BY <2>2, <2>3, <2>4, <2>5 DEF Next, Refuse, AnswerDuplicate, Admit, LoopDies, vars, breaker
<1> QED BY <1>1, TypeAlways, PTL DEF Spec, HoldsCooldown

\* The errors an open breaker remembers, and the calls in progress, each of which may add
\* one: no call is let in before the breaker closes.
Pending == {c \in Clients : request[c] # NoCommand}
CallsCounted == Len(queue) = Cardinality(Pending)
RoomForErrors ==
    IF Closed THEN Len(failures) < Threshold
    ELSE Len(failures) + Len(queue) <= Threshold + Cardinality(Clients) - 1
ErrorsInv == TypeInv /\ CallsCounted /\ RoomForErrors

LEMMA Lengths ==
    ASSUME TypeInv
    PROVE  /\ Len(failures) \in Nat /\ Len(queue) \in Nat
           /\ Threshold \in Nat \ {0} /\ Cardinality(Clients) \in Nat
<1>1. Len(failures) \in Nat /\ Len(queue) \in Nat
  BY LenProperties DEF TypeInv, BreakerType, CallsType
<1> QED BY <1>1, ControlAssumption, FS_CardinalityType

LEMMA PendingFits ==
    ASSUME TypeInv, CallsCounted
    PROVE  IsFiniteSet(Pending) /\ Len(queue) <= Cardinality(Clients)
<1>1. Pending \subseteq Clients
  BY DEF Pending
<1> QED BY <1>1, ControlAssumption, FS_Subset DEF CallsCounted

LEMMA StepCalls == TypeInv /\ CallsCounted /\ [Next]_vars => CallsCounted'
<1> SUFFICES ASSUME TypeInv, CallsCounted, [Next]_vars PROVE CallsCounted'
  OBVIOUS
<1>1. IsFiniteSet(Pending) /\ NoCommand \notin Commands
  BY PendingFits DEF NoCommand, Commands, Ops
<1>2. ASSUME NEW u \in Users, NEW op \in Ops, NEW k \in Agents, NEW c \in Clients,
             Admit(c, u, op, k)
      PROVE  CallsCounted'
  <2>1. /\ Len(queue') = Len(queue) + 1
        /\ request[c] = NoCommand /\ request'[c] \in Commands
        /\ \A d \in Clients : d # c => request'[d] = request[d]
    BY <1>2, AdmitKeepsCalls DEF TypeInv
  <2>2. Pending' = Pending \cup {c} /\ c \notin Pending
    BY <1>1, <2>1 DEF Pending
  <2>3. Cardinality(Pending \cup {c}) = Cardinality(Pending) + 1
    BY <1>1, <2>2, FS_AddElement
  <2> QED BY <2>1, <2>2, <2>3 DEF CallsCounted
<1>3. ASSUME NEW c \in Clients, Finish(c) PROVE CallsCounted'
  <2>1. /\ Len(queue') = Len(queue) - 1
        /\ request[c] \in Commands /\ request'[c] = NoCommand
        /\ \A d \in Clients : d # c => request'[d] = request[d]
    BY <1>3, FinishKeeps, LeaveKeepsCalls DEF TypeInv
  <2>2. Pending' = Pending \ {c} /\ c \in Pending
    BY <1>1, <2>1 DEF Pending
  <2>3. Cardinality(Pending \ {c}) = Cardinality(Pending) - 1
    BY <1>1, <2>2, FS_RemoveElement
  <2> QED BY <2>1, <2>2, <2>3 DEF CallsCounted
<1>4. UNCHANGED calls => CallsCounted'
  BY DEF calls, CallsCounted, Pending
<1> QED BY <1>2, <1>3, <1>4
           DEF Next, Refuse, AnswerDuplicate, LoopDies, Poll, TimePasses, vars, calls

\* The breaker opens with exactly as many errors as its threshold.
LEMMA ErrorKeepsRoom ==
    ASSUME ErrorsInv, RecordError, Len(queue') = Len(queue) - 1, Len(queue) > 0
    PROVE  RoomForErrors'
<1>1. PICK f \in Nat, q \in Nat, t \in Nat \ {0}, m \in Nat :
            f = Len(failures) /\ q = Len(queue) /\ t = Threshold /\ m = Cardinality(Clients)
  BY Lengths DEF ErrorsInv
<1>2. PICK n \in 1..f + 1 : n = Len(failures')
  <2>1. PICK r \in 0..f : r = Len(Recent) /\ Recent \in Seq(0..Window + 1)
    BY <1>1, RecentType DEF ErrorsInv, TypeInv
  <2>2. 0 \in 0..Window + 1
    BY ControlAssumption
  <2>3. Len(failures') = r + 1
    BY <2>1, <2>2, AppendProperties DEF RecordError
  <2> QED BY <1>1, <2>1, <2>3
<1>3. openFor' = IF n >= t /\ Closed THEN 0 ELSE openFor
  BY <1>1, <1>2 DEF RecordError
<1>4. q <= m /\ q > 0 /\ Len(queue') = q - 1
  BY <1>1, PendingFits DEF ErrorsInv
<1>5. CASE Closed /\ n < t
  <2>1. Closed'
    BY <1>1, <1>2, <1>3, <1>5 DEF Closed
  <2> QED BY <1>1, <1>2, <1>5, <2>1 DEF RoomForErrors
<1>6. CASE Closed /\ n >= t
  <2>1. ~Closed'
    BY <1>3, <1>6 DEF Closed
  <2>2. f < t
    BY <1>1, <1>6 DEF ErrorsInv, RoomForErrors
  <2>3. n + (q - 1) <= t + m - 1
    BY <1>1, <1>2, <1>4, <1>6, <2>2
  <2> QED BY <1>1, <1>2, <1>4, <2>1, <2>3 DEF RoomForErrors
<1>7. CASE ~Closed
  <2>1. ~Closed'
    BY <1>3, <1>7 DEF Closed
  <2>2. f + q <= t + m - 1
    BY <1>1, <1>7 DEF ErrorsInv, RoomForErrors
  <2>3. n + (q - 1) <= t + m - 1
    BY <1>1, <1>2, <1>4, <2>2
  <2> QED BY <1>1, <1>2, <1>4, <2>1, <2>3 DEF RoomForErrors
<1> QED BY <1>1, <1>2, <1>5, <1>6, <1>7

LEMMA StepRoom == ErrorsInv /\ [Next]_vars => RoomForErrors'
<1> SUFFICES ASSUME ErrorsInv, [Next]_vars PROVE RoomForErrors'
  OBVIOUS
<1>1. Close => RoomForErrors'
  BY Lengths DEF ErrorsInv, Close, RoomForErrors, Closed
<1>2. UNCHANGED <<failures, openFor, queue>> => RoomForErrors'
  BY DEF ErrorsInv, RoomForErrors, Closed
<1>3. AskBreaker /\ UNCHANGED queue => RoomForErrors'
  BY <1>1, <1>2 DEF AskBreaker, breaker
<1>4. ASSUME NEW u \in Users, NEW op \in Ops, NEW k \in Agents, NEW c \in Clients,
             Admit(c, u, op, k)
      PROVE  RoomForErrors'
  <2>1. Close \/ (Closed /\ UNCHANGED breaker)
    BY <1>4 DEF Admit, Allows, AskBreaker, Closed, Expired
  <2>2. Closed /\ UNCHANGED breaker => RoomForErrors'
    BY DEF ErrorsInv, RoomForErrors, Closed, breaker
  <2> QED BY <1>1, <2>1, <2>2
<1>5. ASSUME NEW c \in Clients, Finish(c) PROVE RoomForErrors'
  <2>1. Len(queue') = Len(queue) - 1 /\ Len(queue) > 0 /\ (RecordSuccess \/ RecordError)
    BY <1>5, FinishKeeps, LeaveKeepsCalls DEF ErrorsInv, TypeInv
  <2>2. UNCHANGED breaker => RoomForErrors'
    BY <2>1, Lengths DEF ErrorsInv, RoomForErrors, Closed, breaker
  <2> QED BY <1>1, <2>1, <2>2, ErrorKeepsRoom DEF RecordSuccess
<1>6. CASE TimePasses
  <2>1. Len(failures') = Len(failures) /\ UNCHANGED queue
    BY <1>6, Lengths DEF TimePasses, ErrorsInv, calls
  <2>2. Closed' <=> Closed
    BY <1>6, ControlAssumption DEF TimePasses, Older, Closed, ErrorsInv, TypeInv, BreakerType
  <2> QED BY <2>1, <2>2 DEF ErrorsInv, RoomForErrors
<1>7. CASE Poll
  BY <1>1, <1>7 DEF Poll
<1> QED BY <1>2, <1>3, <1>4, <1>5, <1>6, <1>7
           DEF Next, Refuse, AnswerDuplicate, LoopDies, vars, calls, breaker

\* However requests that were let in before overlap and end, a closed breaker has seen fewer
\* errors than its threshold within the window, and the list of errors is bounded
\* (guards.py:50-77).
THEOREM BreakerCounts == Spec => []ErrorsCounted
<1>1. Init => ErrorsInv
  <2> SUFFICES ASSUME Init PROVE ErrorsInv
    OBVIOUS
  <2>1. TypeInv
    BY InitType
  <2>2. Pending = {} /\ Len(queue) = 0 /\ Len(failures) = 0
    BY DEF Init, Pending
  <2> QED BY <2>1, <2>2, Lengths, FS_EmptySet
          DEF Init, ErrorsInv, CallsCounted, RoomForErrors, Closed
<1>2. ErrorsInv /\ [Next]_vars => ErrorsInv'
  BY StepType, StepCalls, StepRoom DEF ErrorsInv
<1>3. ErrorsInv => ErrorsCounted
  <2> SUFFICES ASSUME ErrorsInv PROVE ErrorsCounted
    OBVIOUS
  <2>1. Len(Recent) \in 0..Len(failures)
    BY RecentType DEF ErrorsInv, TypeInv
  <2> QED BY <2>1, Lengths DEF ErrorsInv, RoomForErrors, ErrorsCounted
<1> QED BY <1>1, <1>2, <1>3, PTL DEF Spec

-----------------------------------------------------------------------------
(* The limiter of the Telegram bot, which purges its history in the same   *)
(* way.                                                                    *)

\* Each of the posts is backed by a command admitted no earlier, the newest by the newest.
Covered(old, made) ==
    /\ Len(made) <= Len(old)
    /\ \A i \in 1..Len(made) : old[Len(old) - Len(made) + i] <= made[i]

BotInv ==
    /\ BotTypeOK
    /\ \A u \in People :
          /\ Len(history[u]) <= MaxCommands
          /\ InOrder(posts[u]) /\ Covered(history[u], posts[u])

\* The limiter forgets no command that backs a post of the window.
LEMMA PurgeCovers ==
    ASSUME NEW limit \in Nat, NEW old \in Seq(0..limit + 1), NEW made \in Seq(0..limit),
           Covered(old, made)
    PROVE  \E rest \in Seq(0..limit + 1) :
              /\ rest = Unexpired(old, limit) /\ Len(rest) \in 0..Len(old)
              /\ Covered(rest, made)
<1>1. PICK n \in Nat : n = Len(old) /\ old \in [1..n -> 0..limit + 1]
  BY LenProperties
<1>2. PICK m \in Nat : m = Len(made) /\ made \in [1..m -> 0..limit]
  BY LenProperties
<1>3. old \in Seq(Int)
  <2>1. 0..limit + 1 \subseteq Int
    OBVIOUS
  <2> QED BY <2>1, SeqMonotonic
<1>4. PICK rest : rest = Unexpired(old, limit)
  OBVIOUS
<1>5. PICK first \in 1..(Len(old) + 1) :
            /\ rest = SubSeq(old, first, Len(old))
            /\ \A j \in 1..(first - 1) : old[j] > limit
  <2>1. limit \in Int
    OBVIOUS
  <2> QED BY <1>3, <1>4, <2>1, UnexpiredSuffix
<1>6. /\ rest \in Seq(0..limit + 1) /\ Len(rest) = n + 1 - first
      /\ \A i \in 1..Len(rest) : rest[i] = old[first + i - 1]
  <2>1. /\ rest \in Seq(0..limit + 1) /\ Len(rest) = Len(old) + 1 - first
        /\ \A i \in 1..Len(rest) : rest[i] = old[first + i - 1]
    BY <1>5, SuffixFacts
  <2> QED BY <1>1, <2>1
<1>7. first \in 1..n + 1
  BY <1>1, <1>5
<1>8. m <= n /\ \A i \in 1..m : old[n - m + i] <= made[i]
  BY <1>1, <1>2 DEF Covered
<1>9. m <= n + 1 - first
  <2> SUFFICES ASSUME m > n + 1 - first PROVE FALSE
    BY <1>1, <1>2, <1>7
  <2>1. 1 \in 1..m /\ n - m + 1 \in 1..(first - 1)
    BY <1>1, <1>2, <1>7, <1>8
  <2>2. old[n - m + 1] <= made[1] /\ made[1] <= limit /\ made[1] \in Nat
    BY <1>2, <1>8, <2>1, SMTT(30)
  <2>3. old[n - m + 1] > limit /\ old[n - m + 1] \in Nat
    BY <1>1, <1>5, <1>7, <2>1
  <2> QED BY <2>2, <2>3
<1>10. Covered(rest, made)
  <2>1. ASSUME NEW i \in 1..m PROVE rest[Len(rest) - m + i] <= made[i]
    <3>1. Len(rest) - m + i \in 1..Len(rest) /\ first + (Len(rest) - m + i) - 1 = n - m + i
      BY <1>1, <1>2, <1>6, <1>7, <1>9
    <3> QED BY <1>6, <1>8, <3>1
  <2> QED BY <1>2, <1>6, <1>9, <2>1 DEF Covered
<1> QED BY <1>1, <1>4, <1>6, <1>7, <1>10

LEMMA NextPlace ==
    ASSUME NEW n \in Nat, NEW m \in Nat, m <= n, NEW i \in 1..m, i # m
    PROVE  /\ i + 1 \in 1..m /\ n - m + (i + 1) \in 1..n
           /\ n + 1 - m + i = n - m + (i + 1)
OBVIOUS

\* A command is admitted; a post may follow at once.
LEMMA AdmissionCovers ==
    ASSUME NEW limit \in Nat, NEW old \in Seq(0..limit + 1), NEW made \in Seq(0..limit),
           Covered(old, made), InOrder(made)
    PROVE  /\ Covered(Append(old, 0), made)
           /\ Covered(Append(old, 0), Append(made, 0))
<1>1. PICK n \in Nat : n = Len(old) /\ old \in [1..n -> 0..limit + 1]
  BY LenProperties
<1>2. PICK m \in Nat : m = Len(made) /\ made \in [1..m -> 0..limit]
  BY LenProperties
<1>3. m <= n /\ \A i \in 1..m : old[n - m + i] <= made[i]
  BY <1>1, <1>2 DEF Covered
<1>4. PICK new : new = Append(old, 0)
  OBVIOUS
<1>5. PICK more : more = Append(made, 0)
  OBVIOUS
<1>6. /\ Len(new) = n + 1 /\ new[n + 1] = 0
      /\ \A i \in 1..n : new[i] = old[i] /\ new[i] \in Nat
  <2>1. 0 \in 0..limit + 1
    OBVIOUS
  <2> QED BY <1>1, <1>4, <2>1, AppendProperties
<1>7. /\ Len(more) = m + 1 /\ more[m + 1] = 0
      /\ \A i \in 1..m : more[i] = made[i]
  <2>1. 0 \in 0..limit
    OBVIOUS
  <2> QED BY <1>2, <1>5, <2>1, AppendProperties
<1>8. ASSUME NEW i \in 1..m PROVE new[n + 1 - m + i] <= made[i]
  <2>1. CASE i = m
    <3>1. n + 1 - m + i = n + 1 /\ made[i] \in Nat
      BY <1>1, <1>2, <2>1
    <3> QED BY <1>6, <3>1
  <2>2. CASE i # m
    <3>1. PICK k \in 1..m : k = i + 1
      BY <1>3, <2>2, NextPlace
    <3>2. PICK p \in 1..n : p = n - m + k /\ p = n + 1 - m + i
      BY <1>3, <2>2, <3>1, NextPlace
    <3>3. made[i] >= made[k] /\ made[i] \in Nat /\ made[k] \in Nat
      BY <1>2, <3>1 DEF InOrder
    <3>4. old[p] <= made[k] /\ new[p] = old[p] /\ new[p] \in Nat
      BY <1>3, <1>6, <3>1, <3>2
    <3>5. new[p] <= made[i]
      BY <3>3, <3>4, SMTT(30)
    <3> QED BY <3>2, <3>5
  <2> QED BY <2>1, <2>2
<1>9. ASSUME NEW i \in 1..m + 1 PROVE new[n + 1 - (m + 1) + i] <= more[i]
  <2>1. CASE i = m + 1
    <3>1. n + 1 - (m + 1) + i = n + 1
      BY <1>1, <1>2, <2>1
    <3> QED BY <1>6, <1>7, <2>1, <3>1
  <2>2. CASE i # m + 1
    <3>1. i \in 1..m /\ n + 1 - (m + 1) + i = n - m + i /\ n - m + i \in 1..n
      BY <1>1, <1>2, <1>3, <2>2
    <3> QED BY <1>3, <1>6, <1>7, <3>1
  <2> QED BY <2>1, <2>2
<1>10. Covered(new, made)
  BY <1>1, <1>2, <1>3, <1>6, <1>8 DEF Covered
<1>11. Covered(new, more)
  <2>1. m + 1 <= n + 1
    BY <1>1, <1>2, <1>3
  <2> QED BY <1>6, <1>7, <1>9, <2>1 DEF Covered
<1> QED BY <1>4, <1>5, <1>10, <1>11

\* As time passes, stamps grow old together.
AgedTo(old, limit) ==
    [i \in 1..Len(old) |-> IF old[i] <= limit THEN old[i] + 1 ELSE old[i]]

LEMMA SamePlace ==
    ASSUME NEW n \in Nat, NEW m \in Nat, m <= n, NEW r \in 0..m, NEW i \in 1..r
    PROVE  m - r + i \in 1..m /\ n - r + i \in 1..n /\ n - r + i = n - m + (m - r + i)
OBVIOUS

LEMMA OneMore ==
    ASSUME NEW a \in Nat, NEW b \in Nat, NEW c \in Nat, a <= b + 1, b <= c
    PROVE  a <= c + 1
OBVIOUS

LEMMA TimeCovers ==
    ASSUME NEW limit \in Nat, NEW old \in Seq(0..limit + 1), NEW made \in Seq(0..limit),
           Covered(old, made), InOrder(made)
    PROVE  /\ AgedTo(old, limit) \in Seq(0..limit + 1) /\ Len(AgedTo(old, limit)) = Len(old)
           /\ Later(made, limit) \in Seq(0..limit) /\ InOrder(Later(made, limit))
           /\ Covered(AgedTo(old, limit), Later(made, limit))
<1>1. PICK n \in Nat : n = Len(old) /\ old \in [1..n -> 0..limit + 1]
  BY LenProperties
<1>2. PICK m \in Nat : m = Len(made) /\ made \in [1..m -> 0..limit]
  BY LenProperties
<1>3. m <= n /\ \A i \in 1..m : old[n - m + i] <= made[i]
  BY <1>1, <1>2 DEF Covered
<1>4. PICK aged : aged = AgedTo(old, limit)
  OBVIOUS
<1>5. /\ aged = [i \in 1..n |-> aged[i]]
      /\ \A i \in 1..n : aged[i] \in 0..limit + 1 /\ aged[i] <= old[i] + 1 /\ old[i] \in Nat
  BY <1>1, <1>4 DEF AgedTo
<1>6. aged \in Seq(0..limit + 1) /\ Len(aged) = n
  <2>1. aged \in [1..n -> 0..limit + 1]
    BY <1>5
  <2>2. aged \in Seq(0..limit + 1)
    BY <2>1, SeqDef
  <2>3. Len(aged) = n
    BY <1>1, <1>4 DEF AgedTo
  <2> QED BY <2>2, <2>3
<1>7. PICK rest \in Seq(0..limit) :
            /\ rest = Later(made, limit) /\ Len(rest) \in 0..m /\ InOrder(rest)
            /\ \A i \in 1..Len(rest) : rest[i] = made[m - Len(rest) + i] + 1
  BY <1>2, MomentLater
<1>8. PICK r \in 0..m : r = Len(rest)
  BY <1>7
<1>9. ASSUME NEW i \in 1..r PROVE aged[n - r + i] <= rest[i]
  <2>1. PICK j \in 1..m : j = m - r + i
    BY <1>3, SamePlace
  <2>2. PICK k \in 1..n : k = n - r + i /\ k = n - m + j
    BY <1>3, <2>1, SamePlace
  <2>3. old[k] <= made[j] /\ made[j] \in Nat /\ rest[i] = made[j] + 1
    <3>1. made[j] \in Nat
      BY <1>2
    <3>2. old[k] <= made[j]
      BY <1>3, <2>2
    <3> QED BY <1>7, <1>8, <2>1, <3>1, <3>2
  <2>4. aged[k] \in Nat /\ aged[k] <= old[k] + 1 /\ old[k] \in Nat
    BY <1>5
  <2>5. aged[k] <= rest[i]
    BY <2>3, <2>4, OneMore
  <2> QED BY <2>2, <2>5
<1>10. Covered(aged, rest)
  <2>1. r <= n
    BY <1>1, <1>2, <1>3, <1>8
  <2> QED BY <1>6, <1>8, <1>9, <2>1 DEF Covered
<1> QED BY <1>1, <1>4, <1>6, <1>7, <1>10

\* What holds of one user, and what each admission does about it.
UserInv(u) ==
    /\ history[u] \in Seq(0..Span + 1) /\ posts[u] \in Seq(0..Span)
    /\ Len(history[u]) <= MaxCommands
    /\ InOrder(posts[u]) /\ Covered(history[u], posts[u])

LEMMA PassKeeps ==
    ASSUME BotInv, NEW u \in People, Pass(u),
           Post(u) \/ UNCHANGED posts
    PROVE  UserInv(u)'
<1>1. PICK limit \in Nat : limit = Span
  BY TelegramAssumption
<1>2. PICK old \in Seq(0..limit + 1) : old = history[u] /\ Len(old) <= MaxCommands
  BY <1>1 DEF BotInv, BotTypeOK
<1>3. PICK made \in Seq(0..limit) : made = posts[u] /\ InOrder(made) /\ Covered(old, made)
  BY <1>1, <1>2 DEF BotInv, BotTypeOK
<1>4. PICK rest \in Seq(0..limit + 1) :
            rest = Unexpired(old, limit) /\ Len(rest) \in Nat /\ Covered(rest, made)
  BY <1>3, PurgeCovers
<1>5. Remembered(u) = rest
  BY <1>1, <1>2, <1>4 DEF Remembered
<1>6. history'[u] = Append(rest, 0)
  BY <1>5 DEF Pass, BotInv, BotTypeOK
<1>7. Append(rest, 0) \in Seq(0..limit + 1) /\ Len(Append(rest, 0)) = Len(rest) + 1
  <2>1. 0 \in 0..limit + 1
    OBVIOUS
  <2> QED BY <1>4, <2>1, AppendProperties
<1>8. Len(rest) + 1 <= MaxCommands
  BY <1>4, <1>5, TelegramAssumption DEF Pass, RateLimited
<1>9. Covered(Append(rest, 0), made) /\ Covered(Append(rest, 0), Append(made, 0))
  BY <1>3, <1>4, AdmissionCovers
<1>10. Append(made, 0) \in Seq(0..limit) /\ InOrder(Append(made, 0))
  BY <1>3, OrderedAppend
<1>11. posts'[u] = made \/ posts'[u] = Append(made, 0)
  BY <1>3 DEF Post, BotInv, BotTypeOK
<1> QED BY <1>1, <1>3, <1>6, <1>7, <1>8, <1>9, <1>10, <1>11 DEF UserInv

LEMMA DenyKeeps ==
    ASSUME BotInv, NEW u \in People, Deny(u)
    PROVE  UserInv(u)'
<1>1. PICK limit \in Nat : limit = Span
  BY TelegramAssumption
<1>2. PICK old \in Seq(0..limit + 1) : old = history[u] /\ Len(old) <= MaxCommands
  BY <1>1 DEF BotInv, BotTypeOK
<1>3. PICK made \in Seq(0..limit) : made = posts[u] /\ InOrder(made) /\ Covered(old, made)
  BY <1>1, <1>2 DEF BotInv, BotTypeOK
<1>4. PICK rest \in Seq(0..limit + 1) :
            rest = Unexpired(old, limit) /\ Len(rest) \in 0..Len(old) /\ Covered(rest, made)
  BY <1>3, PurgeCovers
<1>5. Remembered(u) = rest
  BY <1>1, <1>2, <1>4 DEF Remembered
<1>6. history'[u] = rest /\ posts'[u] = made
  BY <1>3, <1>5 DEF Deny, BotInv, BotTypeOK
<1>7. Len(rest) <= MaxCommands
  <2>1. PICK n \in Nat : n = Len(old)
    BY <1>2
  <2> QED BY <1>2, <1>4, <2>1, TelegramAssumption
<1> QED BY <1>1, <1>3, <1>4, <1>6, <1>7 DEF UserInv

LEMMA TimeKeeps ==
    ASSUME BotInv, NEW u \in People, ClockAdvances
    PROVE  UserInv(u)'
<1>1. PICK limit \in Nat : limit = Span
  BY TelegramAssumption
<1>2. PICK old \in Seq(0..limit + 1) : old = history[u] /\ Len(old) <= MaxCommands
  BY <1>1 DEF BotInv, BotTypeOK
<1>3. PICK made \in Seq(0..limit) : made = posts[u] /\ InOrder(made) /\ Covered(old, made)
  BY <1>1, <1>2 DEF BotInv, BotTypeOK
<1>4. history'[u] = AgedTo(old, limit)
  BY <1>1, <1>2 DEF ClockAdvances, AgedTo
<1>5. posts'[u] = Later(made, limit)
  BY <1>1, <1>3 DEF ClockAdvances, Later
<1>6. /\ AgedTo(old, limit) \in Seq(0..limit + 1) /\ Len(AgedTo(old, limit)) = Len(old)
      /\ Later(made, limit) \in Seq(0..limit) /\ InOrder(Later(made, limit))
      /\ Covered(AgedTo(old, limit), Later(made, limit))
  BY <1>3, TimeCovers
<1> QED BY <1>1, <1>2, <1>4, <1>5, <1>6 DEF UserInv

\* The invariant is that of each user, and of the chat.
LEMMA ByUser ==
    ASSUME history' = [u \in People |-> history'[u]], posts' = [u \in People |-> posts'[u]],
           \A u \in People : UserInv(u)',
           listed' \in BOOLEAN, confirms' \subseteq Buttons
    PROVE  BotInv'
<1>1. \A u \in People :
         /\ history'[u] \in Seq(0..Span + 1) /\ posts'[u] \in Seq(0..Span)
         /\ Len(history'[u]) <= MaxCommands
         /\ InOrder(posts'[u]) /\ Covered(history'[u], posts'[u])
  BY DEF UserInv
<1>2. history' \in [People -> Seq(0..Span + 1)] /\ posts' \in [People -> Seq(0..Span)]
  BY <1>1
<1> QED BY <1>1, <1>2 DEF BotInv, BotTypeOK

\* An admission or a refusal of one user changes nothing of the others.
LEMMA OneUser ==
    ASSUME BotInv, NEW u \in People, NEW old, NEW made,
           history' = [history EXCEPT ![u] = old],
           posts' = posts \/ posts' = [posts EXCEPT ![u] = made], UserInv(u)'
    PROVE  /\ history' = [v \in People |-> history'[v]] /\ posts' = [v \in People |-> posts'[v]]
           /\ \A v \in People : UserInv(v)'
<1>1. history \in [People -> Seq(0..Span + 1)] /\ posts \in [People -> Seq(0..Span)]
  BY DEF BotInv, BotTypeOK
<1>2. history' = [v \in People |-> history'[v]] /\ posts' = [v \in People |-> posts'[v]]
  BY <1>1
<1>3. ASSUME NEW v \in People, v # u PROVE UserInv(v)'
  <2>1. history'[v] = history[v] /\ posts'[v] = posts[v]
    BY <1>1, <1>3
  <2> QED BY <2>1 DEF UserInv, BotInv, BotTypeOK
<1> QED BY <1>2, <1>3

LEMMA StepBot == BotInv /\ [BotNext]_botVars => BotInv'
<1> SUFFICES ASSUME BotInv, [BotNext]_botVars PROVE BotInv'
  OBVIOUS
<1>1. ASSUME NEW u \in People, Pass(u), Post(u) \/ UNCHANGED posts,
             listed' \in BOOLEAN, confirms' \subseteq Buttons
      PROVE  BotInv'
  <2>1. UserInv(u)'
    BY <1>1, PassKeeps
  <2>2. /\ history' = [v \in People |-> history'[v]] /\ posts' = [v \in People |-> posts'[v]]
        /\ \A v \in People : UserInv(v)'
    BY <1>1, <2>1, OneUser DEF Pass, Post
  <2> QED BY <1>1, <2>2, ByUser
<1>2. listed \in BOOLEAN /\ confirms \subseteq Buttons
  BY DEF BotInv, BotTypeOK
<1>3. ASSUME NEW u \in People,
             \/ Command(u) \/ ReadLogs(u) \/ ListAgents(u)
             \/ Control(u) \/ PressConfirm(u)
      PROVE  BotInv'
  BY <1>1, <1>2, <1>3 DEF Command, ReadLogs, ListAgents, List, Control,
                          PressConfirm, chat
<1>4. ASSUME NEW u \in People, Deny(u) PROVE BotInv'
  <2>1. UserInv(u)'
    BY <1>4, DenyKeeps
  <2>2. /\ history' = [v \in People |-> history'[v]] /\ posts' = [v \in People |-> posts'[v]]
        /\ \A v \in People : UserInv(v)'
    BY <1>4, <2>1, OneUser DEF Deny
  <2> QED BY <1>2, <1>4, <2>2, ByUser DEF Deny, chat
<1>5. CASE ClockAdvances
  <2>1. \A u \in People : UserInv(u)'
    BY <1>5, TimeKeeps
  <2>2. /\ history' = [v \in People |-> history'[v]] /\ posts' = [v \in People |-> posts'[v]]
    BY <1>5 DEF ClockAdvances
  <2> QED BY <1>2, <1>5, <2>1, <2>2, ByUser DEF ClockAdvances, chat
<1>6. ASSUME NEW button \in Buttons, PressControl(button) PROVE BotInv'
  BY <1>6 DEF PressControl, BotInv, BotTypeOK
<1>7. CASE UNCHANGED botVars
  BY <1>7 DEF botVars, BotInv, BotTypeOK
<1> QED BY <1>3, <1>4, <1>5, <1>6, <1>7 DEF BotNext

\* For any people, operators, limit and window: in no window does the bot make more control
\* calls for a user than the limit (telegram/bot.py:26-34).  Each call needs an admitted
\* command that is no older, and the limiter forgets none of the window.
THEOREM BotCallsBounded == BotSpec => []PostsBounded
<1>1. BotInit => BotInv
  <2> SUFFICES ASSUME BotInit PROVE BotInv
    OBVIOUS
  <2>1. BotTypeOK
    <3>1. <<>> \in Seq(0..Span + 1) /\ <<>> \in Seq(0..Span)
      BY EmptySeq
    <3> QED BY <3>1, Zenon DEF BotInit, BotTypeOK
  <2>2. ASSUME NEW u \in People
        PROVE  history[u] = <<>> /\ posts[u] = <<>>
    BY DEF BotInit
  <2>3. Len(<<>>) = 0 /\ 0 <= MaxCommands
    BY TelegramAssumption
  <2>4. InOrder(<<>>) /\ Covered(<<>>, <<>>)
    BY DEF InOrder, Covered
  <2> QED BY <2>1, <2>2, <2>3, <2>4 DEF BotInv
<1>2. BotInv /\ [BotNext]_botVars => BotInv'
  BY StepBot
<1>3. BotInv => PostsBounded
  <2> SUFFICES ASSUME BotInv, NEW u \in People PROVE Len(posts[u]) <= MaxCommands
    BY DEF PostsBounded
  <2>1. PICK n \in Nat : n = Len(history[u])
    BY DEF BotInv, BotTypeOK
  <2>2. PICK m \in Nat : m = Len(posts[u])
    BY DEF BotInv, BotTypeOK
  <2>3. m <= n /\ n <= MaxCommands
    BY <2>1, <2>2 DEF BotInv, Covered
  <2> QED BY <2>1, <2>2, <2>3, TelegramAssumption
<1> QED BY <1>1, <1>2, <1>3, PTL DEF BotSpec
=============================================================================
