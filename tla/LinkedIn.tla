--------------------------- MODULE LinkedIn ---------------------------
(***************************************************************************)
(* The LinkedIn agent: posts sent by request handlers, which run in the    *)
(* threads of a pool, and by the poller of agents/linkedin_agent/          *)
(* scheduler.py, under the daily quota of service.py and with the table of *)
(* scheduled posts of storage.py.                                          *)
(*                                                                         *)
(* An action is the code between two calls that block: of the LinkedIn     *)
(* API, whose answer may be lost, and of the database, which may raise.    *)
(* The process may die between any two of them.                            *)
(***************************************************************************)
EXTENDS Integers, FiniteSets

CONSTANTS
    Handlers, Poller,   \* the threads that post
    Posts,              \* scheduled posts, numbered by run_at
    Limit,              \* li_daily_post_limit
    MaxDays, MaxLost, MaxRestarts   \* bounds of the model

ASSUME LinkedInAssumption ==
    /\ IsFiniteSet(Handlers) /\ Poller \notin Handlers
    /\ Posts \subseteq Nat /\ Limit \in Nat
    /\ MaxDays \in Nat /\ MaxLost \in Nat /\ MaxRestarts \in Nat

Threads == Handlers \cup {Poller}

VARIABLES
    day,            \* today
    reset, count,   \* _daily_reset, _daily_posts
    pc,             \* what each thread does
    due,            \* scheduled posts whose run_at is over
    status,         \* the scheduled posts' rows
    token,          \* the row of the token
    batch,          \* what publish_due() has still to publish, its current post first
    sent,           \* how often each scheduled post was published
    today,          \* posts published today
    lost, overnight,    \* of today: answers lost, posts that passed the quota yesterday
    restarts, earlier   \* new processes up to now, and up to yesterday
quota == <<reset, count>>
table == <<due, status, token>>
world == <<sent, today, lost>>
period == <<day, overnight, restarts, earlier>>
vars == <<quota, pc, table, batch, world, period>>

\* idle: no post in hand; next: in publish_due(), between two posts.
TypeOK ==
    /\ day \in 0..MaxDays /\ reset \in 0..MaxDays /\ count \in Nat
    /\ pc \in [Threads -> {"idle", "next", "checked", "posted", "published",
                           "throttled", "failed", "dead"}]
    /\ \A t \in Handlers : pc[t] \in {"idle", "checked", "posted"}
    /\ due \subseteq Posts
    /\ status \in [Posts -> {"none", "pending", "draft", "completed", "failed"}]
    /\ token \in {"none", "valid", "expired"}
    /\ batch \subseteq {p \in due : status[p] = "pending"}
    /\ sent \in [Posts -> Nat] /\ today \in Nat
    /\ lost \in 0..MaxLost /\ overnight \in 0..Cardinality(Threads)
    /\ restarts \in 0..MaxRestarts /\ earlier \in 0..restarts

Init ==
    /\ day = 0 /\ reset = 0 /\ count = 0
    /\ pc = [t \in Threads |-> "idle"]
    /\ due = {} /\ status = [p \in Posts |-> "none"] /\ token = "none" /\ batch = {}
    /\ sent = [p \in Posts |-> 0] /\ today = 0
    /\ lost = 0 /\ overnight = 0 /\ restarts = 0 /\ earlier = 0

Becomes(t, place) == pc' = [pc EXCEPT ![t] = place]

\* Where an exception takes a thread: a handler answers with an error,
\* publish_due() catches it.
Raise(t) == Becomes(t, IF t = Poller THEN "failed" ELSE "idle")

Current(p) == p \in batch /\ \A q \in batch : p <= q

-----------------------------------------------------------------------------
(* post_text and post_document *)

\* Seeded fault: `>` instead of `>=`.
ExhaustedLate(n) == n > Limit

Exhausted(n) == n >= Limit

\* get_tokens, and _load_tokens, which takes no expired one
HasToken == token # "none"
LoggedIn == HasToken /\ token # "expired"

\* _assert_quota, with the reset on the first post of a day, and the token.
Check(t) ==
    LET n == IF reset = day THEN count ELSE 0 IN
    /\ pc[t] = IF t = Poller THEN "next" ELSE "idle"
    /\ t = Poller => batch # {}
    /\ reset' = day /\ count' = n
    /\ IF Exhausted(n) \/ ~LoggedIn THEN Raise(t) ELSE Becomes(t, "checked")
    /\ UNCHANGED <<table, batch, world, period>>

\* No answer to userinfo, no such document, a token that LinkedIn takes for a bad one:
\* nothing is sent.
Abandon(t) ==
    /\ pc[t] = "checked"
    /\ Raise(t)
    /\ UNCHANGED <<quota, table, batch, world, period>>

\* What LinkedIn publishes.
Publish(t) ==
    /\ today' = today + 1
    /\ sent' = [p \in Posts |-> IF t = Poller /\ Current(p) THEN sent[p] + 1 ELSE sent[p]]

Accept(t) ==
    /\ pc[t] = "checked"
    /\ Publish(t)
    /\ Becomes(t, "posted")
    /\ UNCHANGED <<quota, table, batch, lost, period>>

LoseAnswer(t) ==
    /\ pc[t] = "checked" /\ lost < MaxLost
    /\ Publish(t)
    /\ lost' = lost + 1
    /\ Raise(t)
    /\ UNCHANGED <<quota, table, batch, period>>

\* HTTP 429, as any status from 400 on, raises.
Throttle(t) ==
    /\ pc[t] = "checked"
    /\ Becomes(t, IF t = Poller THEN "throttled" ELSE "idle")
    /\ UNCHANGED <<quota, table, batch, world, period>>

\* The post is counted when its answer is there.
Count(t) ==
    /\ pc[t] = "posted"
    /\ count' = count + 1
    /\ Becomes(t, IF t = Poller THEN "published" ELSE "idle")
    /\ UNCHANGED <<reset, table, batch, world, period>>

-----------------------------------------------------------------------------
(* The login *)

SaveToken == token' = "valid"

\* handle_callback: the token is saved once the code is exchanged, also when the request for
\* the owner that follows fails.  A refused code changes nothing.
Login ==
    /\ SaveToken
    /\ UNCHANGED <<quota, pc, due, status, batch, world, period>>

\* is_expired compares expires_at, an instant, with a naive UTC time taken for a local one:
\* early or late by the host's offset.
Expire ==
    /\ LoggedIn /\ token' = "expired"
    /\ UNCHANGED <<quota, pc, due, status, batch, world, period>>

-----------------------------------------------------------------------------
(* schedule_post, publish_due and the poller *)

\* The request's "state" is stored as it comes: only "pending" posts are published.
Schedule(p) ==
    /\ status[p] = "none"
    /\ \E state \in {"pending", "draft"} : status' = [status EXCEPT ![p] = state]
    /\ UNCHANGED <<quota, pc, due, token, batch, world, period>>

ComeDue(p) ==
    /\ p \notin due /\ \A q \in Posts : q < p => q \in due
    /\ due' = due \cup {p}
    /\ UNCHANGED <<quota, pc, status, token, batch, world, period>>

\* Seeded fault: due_posts() does not look at the status.
PollAll ==
    /\ pc[Poller] = "idle"
    /\ batch' = {p \in due : status[p] # "none"}
    /\ Becomes(Poller, "next")
    /\ UNCHANGED <<quota, table, world, period>>

\* due_posts(): the pending posts, read once.
Poll ==
    /\ pc[Poller] = "idle"
    /\ batch' = {p \in due : status[p] = "pending"}
    /\ Becomes(Poller, "next")
    /\ UNCHANGED <<quota, table, world, period>>

\* Seeded fault: a failed post is left pending, to be tried again.
KeepFailed(final) ==
    \E p \in batch :
        /\ Current(p)
        /\ status' = IF final = "failed" THEN status ELSE [status EXCEPT ![p] = final]
        /\ batch' = batch \ {p}

Mark(final) ==
    \E p \in batch :
        /\ Current(p)
        /\ status' = [status EXCEPT ![p] = final]
        /\ batch' = batch \ {p}

MarkCompleted ==
    /\ pc[Poller] = "published"
    /\ Mark("completed")
    /\ Becomes(Poller, "next")
    /\ UNCHANGED <<quota, due, token, world, period>>

\* mark_done raises, and the post is taken for a failed one.
MarkRaises ==
    /\ pc[Poller] = "published"
    /\ Becomes(Poller, "failed")
    /\ UNCHANGED <<quota, table, batch, world, period>>

MarkFailed ==
    /\ pc[Poller] \in {"failed", "throttled"}
    /\ Mark("failed")
    /\ Becomes(Poller, "next")
    /\ UNCHANGED <<quota, due, token, world, period>>

PollEnds ==
    /\ pc[Poller] = "next" /\ batch = {}
    /\ Becomes(Poller, "idle")
    /\ UNCHANGED <<quota, table, batch, world, period>>

\* The database raises in due_posts(), or in mark_done() of a failed post: the
\* poller's task ends.  start() will not revive it, _running being True.
PollerDies ==
    /\ pc[Poller] \in {"idle", "failed", "throttled"}
    /\ Becomes(Poller, "dead")
    /\ batch' = {}
    /\ UNCHANGED <<quota, table, world, period>>

-----------------------------------------------------------------------------
(* Time and the process *)

Midnight ==
    /\ day < MaxDays
    /\ day' = day + 1
    /\ today' = 0 /\ lost' = 0 /\ earlier' = restarts
    /\ overnight' = Cardinality({t \in Threads : pc[t] = "checked"})
    /\ UNCHANGED <<quota, pc, table, batch, sent, restarts>>

\* The process dies and is started again; the database is what is left.
Restart ==
    /\ restarts < MaxRestarts
    /\ restarts' = restarts + 1
    /\ reset' = day /\ count' = 0
    /\ pc' = [t \in Threads |-> "idle"] /\ batch' = {}
    /\ UNCHANGED <<table, world, day, overnight, earlier>>

PollerStep ==
    \/ Poll \/ Check(Poller) \/ Accept(Poller) \/ Count(Poller)
    \/ MarkCompleted \/ MarkFailed \/ PollEnds

Next ==
    \/ \E t \in Threads :
        Check(t) \/ Abandon(t) \/ Accept(t) \/ LoseAnswer(t) \/ Throttle(t) \/ Count(t)
    \/ \E p \in Posts : Schedule(p) \/ ComeDue(p)
    \/ Login \/ Expire
    \/ Poll \/ MarkCompleted \/ MarkRaises \/ MarkFailed \/ PollEnds \/ PollerDies
    \/ Midnight \/ Restart

Spec == Init /\ [][Next]_vars

\* The poller wakes up every minute, and each of its calls returns or raises.
FairSpec == Spec /\ WF_vars(PollerStep)

-----------------------------------------------------------------------------
(* Properties *)

\* The check of the quota and its count are apart.  A process publishes in a day no
\* more than the limit, and one post for each other thread that passed the check
\* with the last one; the posts whose answer was lost, and those that passed the
\* check the day before, come on top.
QuotaBound ==
    today <= (1 + restarts - earlier) * (Limit + Cardinality(Handlers)) + lost + overnight

\* A scheduled post is published twice only by a process that has replaced another:
\* not after a lost answer, a refusal, or an error of the database.  A post marked
\* completed was published.
SentOncePerProcess ==
    \A p \in Posts : sent[p] <= 1 + restarts /\ (status[p] = "completed" => sent[p] > 0)

\* A post that was marked is never published or marked again.
DoneIsFinal ==
    [][\A p \in Posts : status[p] \in {"completed", "failed"} =>
        status'[p] = status[p] /\ sent'[p] = sent[p]]_vars

\* A pending post that is due is published or marked failed, while the poller lives.
DueIsSettled ==
    \A p \in Posts :
        (p \in due /\ status[p] = "pending")
            ~> (status[p] \in {"completed", "failed"} \/ pc[Poller] = "dead")

\* "HTTP 429 - the agent automatically backs off with jitter": a post that was
\* throttled is not given up.
BacksOff ==
    [][pc[Poller] = "throttled" => ~(\E p \in batch : status'[p] = "failed")]_vars
=============================================================================
