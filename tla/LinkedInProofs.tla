------------------------- MODULE LinkedInProofs -------------------------
(***************************************************************************)
(* Theorems about LinkedIn, for any threads, posts, limit and bounds,      *)
(* proved with TLAPS.                                                      *)
(***************************************************************************)
EXTENDS LinkedIn, FiniteSetTheorems, TLAPS

Places == {"idle", "next", "checked", "posted", "published", "throttled", "failed", "dead"}

-----------------------------------------------------------------------------
(* Type correctness *)

LEMMA ThreadsFacts ==
    /\ IsFiniteSet(Threads) /\ IsFiniteSet(Handlers)
    /\ Poller \in Threads /\ Handlers \subseteq Threads
    /\ Cardinality(Handlers) \in Nat
    /\ Cardinality(Threads) = Cardinality(Handlers) + 1
BY LinkedInAssumption, FS_AddElement, FS_CardinalityType DEF Threads

LEMMA InitType == Init => TypeOK
<1> SUFFICES ASSUME Init PROVE TypeOK
  OBVIOUS
<1>1. 0 \in 0..MaxDays /\ 0 \in 0..MaxLost /\ 0 \in 0..MaxRestarts /\ 0 \in 0..0
  BY LinkedInAssumption
<1>2. 0 \in 0..Cardinality(Threads)
  BY ThreadsFacts
<1>3. pc \in [Threads -> Places] /\ \A t \in Handlers : pc[t] = "idle"
  BY ThreadsFacts DEF Init, Places
<1> QED BY <1>1, <1>2, <1>3 DEF Init, TypeOK, Places

\* A step that moves one thread, and what is not about its place.
LEMMA MoveType ==
    ASSUME TypeOK, NEW t \in Threads, NEW place \in Places, Becomes(t, place),
           t # Poller => place \in {"idle", "checked", "posted"}
    PROVE  /\ pc' \in [Threads -> Places]
           /\ \A h \in Handlers : pc'[h] \in {"idle", "checked", "posted"}
BY LinkedInAssumption, ThreadsFacts DEF TypeOK, Becomes, Places

LEMMA StepType == TypeOK /\ [Next]_vars => TypeOK'
<1> SUFFICES ASSUME TypeOK, [Next]_vars PROVE TypeOK'
  OBVIOUS
<1> USE LinkedInAssumption DEF quota, table, world, period, Places
<1>1. ASSUME NEW t \in Threads,
             Check(t) \/ Abandon(t) \/ Accept(t) \/ LoseAnswer(t) \/ Throttle(t) \/ Count(t)
      PROVE  TypeOK'
  <2>1. /\ pc' \in [Threads -> Places]
        /\ \A h \in Handlers : pc'[h] \in {"idle", "checked", "posted"}
    BY <1>1, MoveType DEF Check, Abandon, Accept, LoseAnswer, Throttle, Count, Raise
  <2>2. reset' \in 0..MaxDays /\ count' \in Nat
    BY <1>1 DEF TypeOK, Check, Abandon, Accept, LoseAnswer, Throttle, Count
  <2>3. sent' \in [Posts -> Nat] /\ today' \in Nat /\ lost' \in 0..MaxLost
    BY <1>1 DEF TypeOK, Check, Abandon, Accept, LoseAnswer, Throttle, Count, Publish
  <2>4. UNCHANGED <<table, batch, period>>
    BY <1>1 DEF Check, Abandon, Accept, LoseAnswer, Throttle, Count
  <2> QED BY <2>1, <2>2, <2>3, <2>4 DEF TypeOK
<1>2. ASSUME NEW p \in Posts, Schedule(p) PROVE TypeOK'
  <2>1. PICK state \in {"pending", "draft"} : status' = [status EXCEPT ![p] = state]
    BY <1>2 DEF Schedule
  <2>2. p \notin batch
    BY <1>2 DEF TypeOK, Schedule
  <2> QED BY <1>2, <2>1, <2>2 DEF TypeOK, Schedule
<1>3. ASSUME NEW p \in Posts, ComeDue(p) PROVE TypeOK'
  BY <1>3 DEF TypeOK, ComeDue
<1>4. CASE Login \/ Expire
  BY <1>4 DEF TypeOK, Login, SaveToken, Expire
<1>5. ASSUME NEW place \in Places, Becomes(Poller, place),
             UNCHANGED <<quota, due, token, world, period>>,
             \/ UNCHANGED status /\ batch' \subseteq {p \in due : status[p] = "pending"}
             \/ \E final \in {"completed", "failed"} : Mark(final)
      PROVE  TypeOK'
  <2>1. /\ pc' \in [Threads -> Places]
        /\ \A h \in Handlers : pc'[h] \in {"idle", "checked", "posted"}
    BY <1>5, MoveType, ThreadsFacts
  <2>2. /\ status' \in [Posts -> {"none", "pending", "draft", "completed", "failed"}]
        /\ batch' \subseteq {p \in due : status'[p] = "pending"}
    BY <1>5 DEF TypeOK, Mark
  <2> QED BY <1>5, <2>1, <2>2 DEF TypeOK
<1>6. CASE Poll \/ MarkCompleted \/ MarkRaises \/ MarkFailed \/ PollEnds \/ PollerDies
  BY <1>5, <1>6 DEF TypeOK, Poll, MarkCompleted, MarkRaises, MarkFailed, PollEnds, PollerDies
<1>7. CASE Midnight
  <2>1. Cardinality({t \in Threads : pc[t] = "checked"}) \in 0..Cardinality(Threads)
    BY ThreadsFacts, FS_Subset, FS_CardinalityType
  <2> QED BY <1>7, <2>1 DEF TypeOK, Midnight
<1>8. CASE Restart
  <2>1. /\ pc' \in [Threads -> Places]
        /\ \A h \in Handlers : pc'[h] \in {"idle", "checked", "posted"}
    BY <1>8, ThreadsFacts DEF Restart
  <2> QED BY <1>8, <2>1 DEF TypeOK, Restart
<1>9. CASE UNCHANGED vars
  BY <1>9 DEF TypeOK, vars
<1> QED BY <1>1, <1>2, <1>3, <1>4, <1>6, <1>7, <1>8, <1>9 DEF Next

\* Every variable keeps its type; in particular the poller only publishes what is due and
\* still pending (linkedin_agent/scheduler.py, storage.py).
THEOREM TypeCorrect == Spec => []TypeOK
BY InitType, StepType, PTL DEF Spec

-----------------------------------------------------------------------------
(* What is done is done *)

\* A post in hand is pending, so a post that was marked is in nobody's hands: it is not
\* published, marked or polled again (linkedin_agent/storage.py, due_posts).
THEOREM DoneStaysDone == Spec => DoneIsFinal
<1> DEFINE Done(p) == status[p] \in {"completed", "failed"}
           Final(p) == status'[p] = status[p] /\ sent'[p] = sent[p]
<1>1. ASSUME TypeOK, [Next]_vars, NEW p \in Posts, Done(p) PROVE Final(p)
  <2> USE DEF table, world
  <2>1. p \notin batch /\ ~Current(p)
    BY <1>1 DEF TypeOK, Current
  <2>2. ASSUME NEW t \in Threads,
               Check(t) \/ Abandon(t) \/ Accept(t) \/ LoseAnswer(t) \/ Throttle(t) \/ Count(t)
        PROVE  Final(p)
    BY <1>1, <2>1, <2>2
       DEF TypeOK, Check, Abandon, Accept, LoseAnswer, Throttle, Count, Publish
  <2>3. ASSUME NEW q \in Posts, Schedule(q) \/ ComeDue(q) PROVE Final(p)
    BY <1>1, <2>3 DEF TypeOK, Schedule, ComeDue
  <2>4. ASSUME NEW final, Mark(final), UNCHANGED world PROVE Final(p)
    BY <1>1, <2>1, <2>4 DEF TypeOK, Mark
  <2>5. CASE MarkCompleted \/ MarkFailed
    BY <2>4, <2>5 DEF MarkCompleted, MarkFailed
  <2>6. CASE \/ Login \/ Expire \/ Poll \/ MarkRaises \/ PollEnds \/ PollerDies
             \/ Midnight \/ Restart \/ UNCHANGED vars
    BY <2>6 DEF Login, Expire, Poll, MarkRaises, PollEnds, PollerDies, Midnight, Restart, vars
  <2> QED BY <1>1, <2>2, <2>3, <2>5, <2>6 DEF Next
<1>2. TypeOK /\ [Next]_vars =>
        [\A p \in Posts : status[p] \in {"completed", "failed"} =>
            status'[p] = status[p] /\ sent'[p] = sent[p]]_vars
  BY <1>1
<1> QED BY <1>2, TypeCorrect, PTL DEF Spec, DoneIsFinal

-----------------------------------------------------------------------------
(* Sent once *)

\* Only a post that was handled was ever sent.
Unsent == \A p \in Posts : status[p] \in {"none", "draft"} => sent[p] = 0

\* A pending post has been sent by no process but those before this one, unless it is the
\* one in hand, between its publication and its mark, or the poller has died on it.
PendingOnce ==
    \A p \in Posts : status[p] = "pending" =>
        \/ sent[p] <= restarts
        \/ pc[Poller] = "dead"
        \/ Current(p) /\ pc[Poller] \in {"posted", "published", "failed"}

\* The answer to a post is there only once it was published.
AnsweredWasSent ==
    pc[Poller] \in {"posted", "published"} =>
        \A p \in batch : Current(p) => sent[p] > 0

SentInv == TypeOK /\ Unsent /\ PendingOnce /\ AnsweredWasSent /\ SentOncePerProcess

LEMMA InitSent == Init => SentInv
BY InitType, LinkedInAssumption
   DEF Init, SentInv, Unsent, PendingOnce, AnsweredWasSent, SentOncePerProcess, TypeOK, Threads

LEMMA CurrentUnique ==
    ASSUME TypeOK, NEW p, NEW q, Current(p), Current(q)
    PROVE  p = q /\ p \in Posts /\ status[p] = "pending"
BY LinkedInAssumption DEF TypeOK, Current

\* The steps of a handler publish no scheduled post.
LEMMA HandlerSent ==
    ASSUME SentInv, NEW t \in Handlers,
           Check(t) \/ Abandon(t) \/ Accept(t) \/ LoseAnswer(t) \/ Throttle(t) \/ Count(t)
    PROVE  SentInv'
<1>1. TypeOK'
  BY StepType, ThreadsFacts DEF Next, SentInv
<1>2. UNCHANGED <<status, batch, restarts>> /\ pc'[Poller] = pc[Poller]
  BY LinkedInAssumption, ThreadsFacts
     DEF SentInv, TypeOK, Check, Abandon, Accept, LoseAnswer, Throttle, Count,
         table, period, Becomes, Raise
<1>3. \A p \in Posts : sent'[p] = sent[p]
  BY LinkedInAssumption
     DEF SentInv, TypeOK, Check, Abandon, Accept, LoseAnswer, Throttle, Count, Publish, world
<1>4. \A p : Current(p)' <=> Current(p)
  BY <1>2 DEF Current
<1>5. batch \subseteq Posts
  BY DEF SentInv, TypeOK
<1> QED BY <1>1, <1>2, <1>3, <1>4, <1>5
        DEF SentInv, Unsent, PendingOnce, AnsweredWasSent, SentOncePerProcess

\* LinkedIn publishes the poller's post: it passed the check, so this process has not sent
\* it yet.
LEMMA PublishSent ==
    ASSUME SentInv, pc[Poller] = "checked", Publish(Poller),
           UNCHANGED <<status, batch, restarts>>,
           NEW place \in {"posted", "failed"}, Becomes(Poller, place), TypeOK'
    PROVE  SentInv'
<1>1. pc'[Poller] = place
  BY ThreadsFacts DEF SentInv, TypeOK, Becomes
<1>2. \A p \in Posts : sent'[p] = IF Current(p) THEN sent[p] + 1 ELSE sent[p]
  BY DEF Publish
<1>3. \A p : Current(p)' <=> Current(p)
  BY DEF Current
<1>4. \A p \in Posts : status[p] = "pending" => sent[p] <= restarts
  BY DEF SentInv, PendingOnce
<1>5. \A p \in Posts : Current(p) => status[p] = "pending"
  BY CurrentUnique DEF SentInv
<1>6. restarts \in Nat /\ sent \in [Posts -> Nat] /\ batch \subseteq Posts
  BY LinkedInAssumption DEF SentInv, TypeOK
<1>7. Unsent'
  BY <1>2, <1>5 DEF SentInv, Unsent
<1>8. PendingOnce'
  BY <1>1, <1>2, <1>3, <1>4 DEF PendingOnce
<1>9. AnsweredWasSent'
  BY <1>2, <1>3, <1>6 DEF AnsweredWasSent
<1>10. SentOncePerProcess'
  BY <1>2, <1>4, <1>5, <1>6 DEF SentInv, SentOncePerProcess
<1> QED BY <1>7, <1>8, <1>9, <1>10 DEF SentInv

\* The other steps of the poller in post_text publish nothing; its post stays in hand.
LEMMA PollerWaits ==
    ASSUME SentInv, UNCHANGED <<status, sent, restarts>>, TypeOK',
           NEW place \in Places, Becomes(Poller, place),
           \/ /\ UNCHANGED batch
              /\ \/ pc[Poller] \in {"next", "checked"} /\ place \notin {"posted", "published"}
                 \/ pc[Poller] = "posted" /\ place = "published"
                 \/ pc[Poller] = "published" /\ place = "failed"
           \/ pc[Poller] = "idle" /\ place = "next"
           \/ place = "dead"
    PROVE  SentInv'
<1>1. pc'[Poller] = place
  BY ThreadsFacts DEF SentInv, TypeOK, Becomes
<1>2. UNCHANGED batch => \A p : Current(p)' <=> Current(p)
  BY DEF Current
<1>3. PendingOnce'
  BY <1>1, <1>2 DEF SentInv, PendingOnce
<1>4. AnsweredWasSent'
  BY <1>1, <1>2 DEF SentInv, AnsweredWasSent
<1> QED BY <1>3, <1>4 DEF SentInv, Unsent, SentOncePerProcess

\* The post in hand is marked: the others were not in hand.
LEMMA MarkSent ==
    ASSUME SentInv, UNCHANGED <<sent, restarts>>, TypeOK',
           pc[Poller] \in {"published", "failed", "throttled"}, Becomes(Poller, "next"),
           NEW final \in {"completed", "failed"}, Mark(final),
           final = "completed" => pc[Poller] = "published"
    PROVE  SentInv'
<1>1. pc'[Poller] = "next"
  BY ThreadsFacts DEF SentInv, TypeOK, Becomes
<1>2. PICK p \in batch : Current(p) /\ status' = [status EXCEPT ![p] = final]
  BY DEF Mark
<1>3. p \in Posts /\ status[p] = "pending" /\ \A q : Current(q) => q = p
  BY <1>2, CurrentUnique DEF SentInv
<1>4. status'[p] = final /\ \A q \in Posts \ {p} : status'[q] = status[q]
  BY <1>2, <1>3 DEF SentInv, TypeOK
<1>5. \A q \in Posts \ {p} : status[q] = "pending" => sent[q] <= restarts
  BY <1>3 DEF SentInv, PendingOnce
<1>6. Unsent'
  BY <1>4 DEF SentInv, Unsent
<1>7. PendingOnce'
  BY <1>4, <1>5 DEF PendingOnce
<1>8. AnsweredWasSent'
  BY <1>1 DEF AnsweredWasSent
<1>9. SentOncePerProcess'
  BY <1>2, <1>4 DEF SentInv, SentOncePerProcess, AnsweredWasSent
<1> QED BY <1>6, <1>7, <1>8, <1>9 DEF SentInv

LEMMA PollerSent ==
    ASSUME SentInv, TypeOK',
           \/ Check(Poller) \/ Abandon(Poller) \/ Accept(Poller) \/ LoseAnswer(Poller)
           \/ Throttle(Poller) \/ Count(Poller)
    PROVE  SentInv'
<1> USE DEF table, world, period
<1>1. CASE Check(Poller)
  <2>1. PICK place \in {"failed", "checked"} : Becomes(Poller, place)
    BY <1>1 DEF Check, Raise
  <2> QED BY <1>1, <2>1, PollerWaits DEF Check, Places
<1>2. CASE Abandon(Poller)
  BY <1>2, PollerWaits DEF Abandon, Raise, Places
<1>3. CASE Accept(Poller)
  BY <1>3, PublishSent DEF Accept
<1>4. CASE LoseAnswer(Poller)
  BY <1>4, PublishSent DEF LoseAnswer, Raise
<1>5. CASE Throttle(Poller)
  BY <1>5, PollerWaits DEF Throttle, Places
<1>6. CASE Count(Poller)
  BY <1>6, PollerWaits DEF Count, Places
<1> QED BY <1>1, <1>2, <1>3, <1>4, <1>5, <1>6

LEMMA StepSent == SentInv /\ [Next]_vars => SentInv'
<1> SUFFICES ASSUME SentInv, [Next]_vars PROVE SentInv'
  OBVIOUS
<1> USE DEF table, world, period
<1>1. TypeOK'
  BY StepType DEF SentInv
<1>2. ASSUME NEW t \in Threads,
             Check(t) \/ Abandon(t) \/ Accept(t) \/ LoseAnswer(t) \/ Throttle(t) \/ Count(t)
      PROVE  SentInv'
  <2>1. CASE t = Poller
    BY <1>1, <1>2, <2>1, PollerSent
  <2>2. CASE t \in Handlers
    BY <1>2, <2>2, HandlerSent
  <2> QED BY <2>1, <2>2 DEF Threads
<1>3. ASSUME NEW p \in Posts, Schedule(p) PROVE SentInv'
  <2>1. PICK state \in {"pending", "draft"} : status' = [status EXCEPT ![p] = state]
    BY <1>3 DEF Schedule
  <2>2. UNCHANGED <<sent, batch, pc, restarts>> /\ sent[p] = 0 /\ status[p] = "none"
    BY <1>3 DEF SentInv, Schedule, Unsent
  <2>3. status'[p] = state /\ \A q \in Posts \ {p} : status'[q] = status[q]
    BY <2>1 DEF SentInv, TypeOK
  <2>4. \A q : Current(q)' <=> Current(q)
    BY <2>2 DEF Current
  <2>5. Unsent' /\ SentOncePerProcess'
    BY <2>2, <2>3 DEF SentInv, Unsent, SentOncePerProcess
  <2>6. PendingOnce'
    BY <2>2, <2>3, <2>4, LinkedInAssumption DEF SentInv, TypeOK, PendingOnce
  <2>7. AnsweredWasSent'
    BY <2>2, <2>4 DEF SentInv, AnsweredWasSent
  <2> QED BY <1>1, <2>5, <2>6, <2>7 DEF SentInv
<1>4. CASE \/ \E p \in Posts : ComeDue(p)
           \/ Login \/ Expire \/ Midnight \/ UNCHANGED vars
  <2>1. UNCHANGED <<status, sent, batch, pc, restarts>>
    BY <1>4 DEF ComeDue, Login, Expire, Midnight, vars
  <2>2. \A q : Current(q)' <=> Current(q)
    BY <2>1 DEF Current
  <2> QED BY <1>1, <2>1, <2>2
          DEF SentInv, Unsent, PendingOnce, AnsweredWasSent, SentOncePerProcess
<1>5. CASE Poll
  BY <1>1, <1>5, PollerWaits DEF Poll, Places
<1>6. CASE MarkCompleted
  BY <1>1, <1>6, MarkSent DEF MarkCompleted
<1>7. CASE MarkRaises
  BY <1>1, <1>7, PollerWaits DEF MarkRaises, Places
<1>8. CASE MarkFailed
  BY <1>1, <1>8, MarkSent DEF MarkFailed
<1>9. CASE PollEnds
  BY <1>1, <1>9, PollerWaits DEF PollEnds, Places
<1>10. CASE PollerDies
  BY <1>1, <1>10, PollerWaits DEF PollerDies, Places
<1>11. CASE Restart
  <2>1. UNCHANGED <<status, sent>> /\ pc'[Poller] = "idle" /\ restarts' = restarts + 1
    BY <1>11, ThreadsFacts DEF Restart
  <2>2. restarts \in Nat /\ sent \in [Posts -> Nat]
    BY LinkedInAssumption DEF SentInv, TypeOK
  <2>3. PendingOnce' /\ SentOncePerProcess'
    BY <2>1, <2>2 DEF SentInv, PendingOnce, SentOncePerProcess
  <2> QED BY <1>1, <2>1, <2>3 DEF SentInv, Unsent, AnsweredWasSent
<1> QED BY <1>2, <1>3, <1>4, <1>5, <1>6, <1>7, <1>8, <1>9, <1>10, <1>11 DEF Next

\* A scheduled post is published at most once by each process: whatever answer is lost or
\* refused, the post is marked before another is taken (linkedin_agent/scheduler.py).
THEOREM SentOnce == Spec => []SentOncePerProcess
<1>1. SentInv => SentOncePerProcess
  BY DEF SentInv
<1> QED BY <1>1, InitSent, StepSent, PTL DEF Spec

-----------------------------------------------------------------------------
(* The quota *)

\* The threads at a place, and how their number changes when one of them moves.
At(place) == {t \in Threads : pc[t] = place}

LEMMA SomeThreads ==
    ASSUME NEW S \in SUBSET Threads
    PROVE  IsFiniteSet(S) /\ Cardinality(S) \in Nat
BY ThreadsFacts, FS_Subset, FS_CardinalityType

LEMMA AtFacts ==
    ASSUME NEW place
    PROVE  /\ IsFiniteSet(At(place)) /\ Cardinality(At(place)) \in Nat
           /\ Cardinality(At(place)') \in Nat
<1>1. At(place) \in SUBSET Threads /\ At(place)' \in SUBSET Threads
  BY DEF At
<1> QED BY <1>1, SomeThreads

LEMMA MoveCounts ==
    ASSUME TypeOK, NEW t \in Threads, NEW to, Becomes(t, to), NEW place
    PROVE  Cardinality(At(place)') =
               Cardinality(At(place)) + (IF place = to THEN 1 ELSE 0)
                                      - (IF place = pc[t] THEN 1 ELSE 0)
<1>1. pc' = [pc EXCEPT ![t] = to] /\ pc \in [Threads -> Places]
  BY DEF TypeOK, Becomes, Places
<1>2. CASE place = to /\ place # pc[t]
  <2>1. At(place)' = At(place) \cup {t} /\ t \notin At(place)
    BY <1>1, <1>2 DEF At
  <2>2. Cardinality(At(place)') = Cardinality(At(place)) + 1
    BY <2>1, AtFacts, FS_AddElement
  <2> QED BY <1>2, <2>2, AtFacts
<1>3. CASE place # to /\ place = pc[t]
  <2>1. At(place)' = At(place) \ {t} /\ t \in At(place)
    BY <1>1, <1>3 DEF At
  <2>2. Cardinality(At(place)') = Cardinality(At(place)) - 1
    BY <2>1, AtFacts, FS_RemoveElement
  <2> QED BY <1>3, <2>2, AtFacts
<1>4. CASE place = to <=> place = pc[t]
  <2>1. At(place)' = At(place)
    BY <1>1, <1>4 DEF At
  <2> QED BY <1>4, <2>1, AtFacts
<1> QED BY <1>2, <1>3, <1>4

Room == Limit + Cardinality(Handlers)
Counted == IF reset = day THEN count ELSE 0

\* Posts counted today and posts past the check share the limit and one place for each
\* other thread: a thread passes the check below the limit, and leaves its place when it is
\* counted.
InHand ==
    /\ reset <= day
    /\ Counted + Cardinality(At("posted")) + Cardinality(At("checked")) <= Room

\* What was published today, by the processes before this one and by this one.  Before the
\* first check of a day only those publish who passed it yesterday.
Backed ==
    LET before == (restarts - earlier) * Room + lost + overnight IN
    IF reset = day THEN today <= before + count + Cardinality(At("posted"))
                   ELSE today + Cardinality(At("checked")) <= before

QuotaInv == TypeOK /\ InHand /\ Backed

LEMMA Numbers ==
    ASSUME TypeOK
    PROVE  /\ day \in Nat /\ reset \in Nat /\ count \in Nat /\ Counted \in Nat
           /\ today \in Nat /\ lost \in Nat /\ overnight \in Nat
           /\ restarts \in Nat /\ earlier \in Nat /\ earlier <= restarts
           /\ Limit \in Nat /\ Room \in Nat /\ Cardinality(Handlers) \in Nat
           /\ (restarts - earlier) * Room \in Nat
           /\ \A place : Cardinality(At(place)) \in Nat
<1>1. /\ day \in Nat /\ reset \in Nat /\ count \in Nat /\ Counted \in Nat
      /\ today \in Nat /\ lost \in Nat
      /\ restarts \in Nat /\ earlier \in Nat /\ earlier <= restarts /\ Limit \in Nat
  BY LinkedInAssumption DEF TypeOK, Counted
<1>2. overnight \in Nat /\ Cardinality(Handlers) \in Nat /\ Room \in Nat
  BY <1>1, ThreadsFacts DEF TypeOK, Room
<1>3. restarts - earlier \in Nat
  BY <1>1
<1>4. (restarts - earlier) * Room \in Nat
  BY <1>2, <1>3
<1> QED BY <1>1, <1>2, <1>4, AtFacts

LEMMA InitQuota == Init => QuotaInv
<1> SUFFICES ASSUME Init PROVE InHand /\ Backed
  BY InitType DEF QuotaInv
<1>1. At("posted") = {} /\ At("checked") = {}
  BY DEF Init, At
<1>2. Cardinality(At("posted")) = 0 /\ Cardinality(At("checked")) = 0
  BY <1>1, FS_EmptySet
<1>3. TypeOK
  BY InitType
<1> QED BY <1>2, <1>3, Numbers DEF Init, InHand, Backed, Counted

\* Nothing that the quota is about has changed.
LEMMA QuotaKept ==
    ASSUME QuotaInv, TypeOK', UNCHANGED <<quota, world, period>>,
           /\ Cardinality(At("posted")') = Cardinality(At("posted"))
           /\ Cardinality(At("checked")') <= Cardinality(At("checked"))
    PROVE  QuotaInv'
<1> USE DEF quota, world, period
<1>1. Room' = Room /\ Counted' = Counted
  BY DEF Room, Counted
<1>2. Cardinality(At("posted")') \in Nat /\ Cardinality(At("checked")') \in Nat
  BY AtFacts
<1>3. InHand'
  BY <1>1, <1>2, Numbers DEF QuotaInv, InHand
<1>4. Backed'
  BY <1>1, <1>2, Numbers DEF QuotaInv, Backed
<1> QED BY <1>3, <1>4 DEF QuotaInv

LEMMA CheckQuota ==
    ASSUME QuotaInv, TypeOK', NEW t \in Threads, Check(t)
    PROVE  QuotaInv'
<1>1. /\ reset' = day /\ count' = Counted /\ Counted' = Counted
      /\ UNCHANGED <<batch, world, period>>
  BY DEF Check, Counted, period
<1>2. Room' = Room
  BY DEF Room
<1>3. CASE Exhausted(Counted) \/ ~LoggedIn
  <2>1. PICK to \in {"failed", "idle"} : Becomes(t, to) /\ pc[t] \in {"idle", "next"}
    BY <1>3 DEF Check, Counted, Raise
  <2>2. /\ Cardinality(At("posted")') = Cardinality(At("posted"))
        /\ Cardinality(At("checked")') = Cardinality(At("checked"))
    BY <2>1, MoveCounts, AtFacts DEF QuotaInv
  <2>3. InHand'
    BY <1>1, <1>2, <2>2, Numbers DEF QuotaInv, InHand, period
  <2>4. Backed'
    BY <1>1, <1>2, <2>2, Numbers DEF QuotaInv, Backed, Counted, period, world
  <2> QED BY <2>3, <2>4 DEF QuotaInv
<1>4. CASE ~Exhausted(Counted) /\ LoggedIn
  <2>1. Becomes(t, "checked") /\ pc[t] \in {"idle", "next"}
    BY <1>4 DEF Check, Counted
  <2>2. /\ Cardinality(At("posted")') = Cardinality(At("posted"))
        /\ Cardinality(At("checked")') = Cardinality(At("checked")) + 1
    BY <2>1, MoveCounts, AtFacts DEF QuotaInv
  <2>3. Cardinality(At("posted")) + Cardinality(At("checked")) <= Cardinality(Handlers)
    <3> DEFINE busy == At("posted") \cup At("checked")
    <3>1. busy \subseteq Threads \ {t} /\ At("posted") \cap At("checked") = {}
      BY <2>1 DEF At
    <3>2. /\ IsFiniteSet(Threads \ {t})
          /\ Cardinality(Threads \ {t}) = Cardinality(Handlers)
      <4>1. /\ IsFiniteSet(Threads \ {t})
            /\ Cardinality(Threads \ {t}) = Cardinality(Threads) - 1
        BY ThreadsFacts, FS_RemoveElement
      <4> QED BY <4>1, ThreadsFacts
    <3>3. Cardinality(busy) <= Cardinality(Handlers)
      BY <3>1, <3>2, FS_Subset
    <3>4. Cardinality(busy) =
            Cardinality(At("posted")) + Cardinality(At("checked")) - Cardinality({})
      <4> HIDE DEF busy
      <4>1. busy = At("posted") \cup At("checked")
        BY DEF busy
      <4> QED BY <3>1, <4>1, AtFacts, FS_Union
    <3>5. Cardinality({}) = 0
      BY FS_EmptySet
    <3> QED BY <3>3, <3>4, <3>5, AtFacts
  <2>4. Counted < Limit
    BY <1>4, Numbers DEF Exhausted, QuotaInv
  <2>5. InHand'
    BY <1>1, <1>2, <2>2, <2>3, <2>4, Numbers DEF QuotaInv, InHand, Room, period
  <2>6. Backed'
    BY <1>1, <1>2, <2>2, Numbers DEF QuotaInv, Backed, Counted, period, world
  <2> QED BY <2>5, <2>6 DEF QuotaInv
<1> QED BY <1>3, <1>4

LEMMA SendQuota ==
    ASSUME QuotaInv, TypeOK', NEW t \in Threads, Accept(t) \/ LoseAnswer(t) \/ Count(t)
    PROVE  QuotaInv'
<1>1. Room' = Room /\ UNCHANGED <<reset, day, restarts, earlier, overnight>>
  BY DEF Room, Accept, LoseAnswer, Count, quota, period
<1>2. CASE Accept(t)
  <2>1. /\ Cardinality(At("posted")') = Cardinality(At("posted")) + 1
        /\ Cardinality(At("checked")') = Cardinality(At("checked")) - 1
    BY <1>2, MoveCounts, AtFacts DEF QuotaInv, Accept
  <2>2. today' = today + 1 /\ UNCHANGED <<count, lost>>
    BY <1>2 DEF Accept, Publish, quota
  <2>3. InHand'
    BY <1>1, <2>1, <2>2, Numbers DEF QuotaInv, InHand, Counted
  <2>4. Backed'
    BY <1>1, <2>1, <2>2, Numbers DEF QuotaInv, Backed
  <2> QED BY <2>3, <2>4 DEF QuotaInv
<1>3. CASE LoseAnswer(t)
  <2>1. PICK to \in {"failed", "idle"} : Becomes(t, to) /\ pc[t] = "checked"
    BY <1>3 DEF LoseAnswer, Raise
  <2>2. /\ Cardinality(At("posted")') = Cardinality(At("posted"))
        /\ Cardinality(At("checked")') = Cardinality(At("checked")) - 1
    BY <2>1, MoveCounts, AtFacts DEF QuotaInv
  <2>3. today' = today + 1 /\ lost' = lost + 1 /\ count' = count
    BY <1>3 DEF LoseAnswer, Publish, quota
  <2>4. InHand'
    BY <1>1, <2>2, <2>3, Numbers DEF QuotaInv, InHand, Counted
  <2>5. Backed'
    BY <1>1, <2>2, <2>3, Numbers DEF QuotaInv, Backed
  <2> QED BY <2>4, <2>5 DEF QuotaInv
<1>4. CASE Count(t)
  <2>1. PICK to \in {"published", "idle"} : Becomes(t, to) /\ pc[t] = "posted"
    BY <1>4 DEF Count
  <2>2. /\ Cardinality(At("posted")') = Cardinality(At("posted")) - 1
        /\ Cardinality(At("checked")') = Cardinality(At("checked"))
    BY <2>1, MoveCounts, AtFacts DEF QuotaInv
  <2>3. count' = count + 1 /\ UNCHANGED <<today, lost>>
    BY <1>4 DEF Count, world
  <2>4. InHand'
    BY <1>1, <2>2, <2>3, Numbers DEF QuotaInv, InHand, Counted
  <2>5. Backed'
    BY <1>1, <2>2, <2>3, Numbers DEF QuotaInv, Backed
  <2> QED BY <2>4, <2>5 DEF QuotaInv
<1> QED BY <1>2, <1>3, <1>4

LEMMA StepQuota == QuotaInv /\ [Next]_vars => QuotaInv'
<1> SUFFICES ASSUME QuotaInv, [Next]_vars PROVE QuotaInv'
  OBVIOUS
<1>1. TypeOK'
  BY StepType DEF QuotaInv
<1>2. ASSUME NEW t \in Threads, Check(t) \/ Accept(t) \/ LoseAnswer(t) \/ Count(t)
      PROVE  QuotaInv'
  BY <1>1, <1>2, CheckQuota, SendQuota
<1>3. ASSUME NEW t \in Threads, Abandon(t) \/ Throttle(t) PROVE QuotaInv'
  <2>1. PICK to \in {"failed", "throttled", "idle"} : Becomes(t, to) /\ pc[t] = "checked"
    BY <1>3 DEF Abandon, Throttle, Raise
  <2>2. /\ Cardinality(At("posted")') = Cardinality(At("posted"))
        /\ Cardinality(At("checked")') <= Cardinality(At("checked"))
    BY <2>1, MoveCounts, AtFacts DEF QuotaInv
  <2> QED BY <1>1, <1>3, <2>2, QuotaKept DEF Abandon, Throttle
<1>4. CASE \/ \E p \in Posts : Schedule(p) \/ ComeDue(p)
           \/ Login \/ Expire \/ UNCHANGED vars
  <2>1. UNCHANGED <<quota, world, period, pc>>
    BY <1>4 DEF Schedule, ComeDue, Login, Expire, vars
  <2>2. At("posted")' = At("posted") /\ At("checked")' = At("checked")
    BY <2>1 DEF At
  <2> QED BY <1>1, <2>1, <2>2, AtFacts, QuotaKept
<1>5. CASE Poll \/ MarkCompleted \/ MarkRaises \/ MarkFailed \/ PollEnds \/ PollerDies
  <2>1. /\ UNCHANGED <<quota, world, period>> /\ pc[Poller] \notin {"posted", "checked"}
        /\ \E to \in {"next", "failed", "idle", "dead"} : Becomes(Poller, to)
    BY <1>5 DEF Poll, MarkCompleted, MarkRaises, MarkFailed, PollEnds, PollerDies
  <2>2. /\ Cardinality(At("posted")') = Cardinality(At("posted"))
        /\ Cardinality(At("checked")') = Cardinality(At("checked"))
    BY <2>1, MoveCounts, AtFacts, ThreadsFacts DEF QuotaInv
  <2> QED BY <1>1, <2>1, <2>2, AtFacts, QuotaKept
<1>6. CASE Midnight
  <2>1. /\ day' = day + 1 /\ reset' = reset /\ count' = count
        /\ today' = 0 /\ lost' = 0 /\ restarts' = restarts /\ earlier' = restarts
        /\ overnight' = Cardinality(At("checked"))
    BY <1>6 DEF Midnight, quota, At
  <2>2. Cardinality(At("posted")') = Cardinality(At("posted"))
        /\ Cardinality(At("checked")') = Cardinality(At("checked"))
    BY <1>6 DEF Midnight, At
  <2>3. reset' # day' /\ reset' <= day' /\ Room' = Room
    BY <2>1, Numbers DEF QuotaInv, InHand, Room
  <2>4. InHand'
    BY <2>2, <2>3, Numbers DEF QuotaInv, InHand, Counted
  <2>5. (restarts' - earlier') * Room' = 0
    BY <2>1, <2>3, Numbers DEF QuotaInv
  <2>6. Backed'
    BY <2>1, <2>2, <2>3, <2>5, Numbers DEF QuotaInv, Backed
  <2> QED BY <1>1, <2>4, <2>6 DEF QuotaInv
<1>7. CASE Restart
  <2>1. /\ reset' = day /\ day' = day /\ count' = 0 /\ restarts' = restarts + 1
        /\ UNCHANGED <<today, lost, overnight, earlier>>
    BY <1>7 DEF Restart, world
  <2>2. At("posted")' = {} /\ At("checked")' = {}
    BY <1>7 DEF Restart, At
  <2>3. Cardinality(At("posted")') = 0 /\ Cardinality(At("checked")') = 0
    BY <2>2, FS_EmptySet
  <2>4. Room' = Room /\ Counted' = 0
    BY <2>1 DEF Room, Counted
  <2>5. InHand'
    BY <2>1, <2>3, <2>4, Numbers DEF QuotaInv, InHand
  <2>6. (restarts' - earlier') * Room' = (restarts - earlier) * Room + Room
    BY <2>1, <2>4, Numbers DEF QuotaInv
  <2>7. today <= (restarts - earlier) * Room + lost + overnight + Room
    BY Numbers DEF QuotaInv, InHand, Backed, Counted
  <2>8. Backed'
    BY <2>1, <2>3, <2>6, <2>7, Numbers DEF QuotaInv, Backed
  <2> QED BY <1>1, <2>5, <2>8 DEF QuotaInv
<1> QED BY <1>2, <1>3, <1>4, <1>5, <1>6, <1>7 DEF Next

\* However the handlers and the poller interleave between check and count, a process
\* publishes in a day no more than the limit and one post for each other thread, but for
\* lost answers and posts checked the day before (linkedin_agent/service.py, _assert_quota).
THEOREM QuotaHolds == Spec => []QuotaBound
<1>1. QuotaInv => QuotaBound
  <2> SUFFICES ASSUME QuotaInv PROVE QuotaBound
    OBVIOUS
  <2>1. today <= (restarts - earlier) * Room + lost + overnight + Room
    BY Numbers DEF QuotaInv, InHand, Backed, Counted
  <2>2. (1 + restarts - earlier) * Room = (restarts - earlier) * Room + Room
    BY Numbers DEF QuotaInv
  <2> QED BY <2>1, <2>2, Numbers DEF QuotaInv, QuotaBound, Room
<1> QED BY <1>1, InitQuota, StepQuota, PTL DEF Spec
=============================================================================
