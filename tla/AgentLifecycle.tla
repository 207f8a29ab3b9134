-------------------------- MODULE AgentLifecycle --------------------------
(***************************************************************************)
(* What ai/supervisor.py promises of each agent, without its lock, its     *)
(* task objects or its callers: an agent is driven by one loop at most, it *)
(* is ticked only while that loop is live, a loop that died is cleared by  *)
(* a stop and never by a start, and a closing loop is gone before the next *)
(* one exists.                                                             *)
(***************************************************************************)
CONSTANT Keys

VARIABLES phase, ticking

vars == <<phase, ticking>>

Phases == {"stopped", "live", "dead", "closing"}

Init ==
    /\ phase = [k \in Keys |-> "stopped"]
    /\ ticking = {}

Move(k, from, to) ==
    /\ phase[k] = from
    /\ phase' = [phase EXCEPT ![k] = to]

Start(k)  == Move(k, "stopped", "live") /\ UNCHANGED ticking
Tick(k)   == phase[k] = "live" /\ ticking' = ticking \cup {k} /\ UNCHANGED phase
EndTick(k) == ticking' = ticking \ {k} /\ UNCHANGED phase
\* A loop only dies of an exception of on_tick().
Die(k)    == k \in ticking /\ Move(k, "live", "dead") /\ ticking' = ticking \ {k}
Close(k)  == Move(k, "live", "closing") /\ ticking' = ticking \ {k}
Closed(k) == Move(k, "closing", "stopped") /\ UNCHANGED ticking
Clear(k)  == Move(k, "dead", "stopped") /\ UNCHANGED ticking

Next == \E k \in Keys :
    \/ Start(k) \/ Tick(k) \/ EndTick(k) \/ Die(k)
    \/ Close(k) \/ Closed(k) \/ Clear(k)

Spec == Init /\ [][Next]_vars
FairSpec == Spec /\ \A k \in Keys : WF_vars(Closed(k))
=============================================================================
