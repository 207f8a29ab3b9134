------------------------------ MODULE Console ------------------------------
(***************************************************************************)
(* What the operator's console (app/frontend, CyberConsoleDashboard.tsx)   *)
(* shows of the console backend (app/backend/main.py): the status of one   *)
(* agent and whether the gateway is online.  The backend pushes each       *)
(* change, and every second, from telemetry_loop, what it read of a random *)
(* agent; the console also shows what its own requests should bring about, *)
(* what they are answered, and what refresh() fetches.                     *)
(*                                                                         *)
(* broadcast() sends to one connection after the other: the send to this   *)
(* console comes any time after the broadcast began, in any order with     *)
(* those of other tasks, and not at all when the connection was made later *)
(* or is gone.  How connections are made and lost is module StatusSocket;  *)
(* here there is one, up or not.  An agent that begins idle differs only   *)
(* in that both its buttons are on; it is left out.                        *)
(***************************************************************************)
EXTENDS Naturals

CONSTANT Requests   \* starts and stops under way at once: a bound of the model

ASSUME ConsoleAssumption == Requests \cap {"telemetry", "restart", "restore"} = {}

Statuses == {"running", "stopped"}
Gateway == {"online", "offline"}
None == "none"
Senders == Requests \cup {"telemetry", "restart", "restore"}

VARIABLES
    status, gateway,    \* backend: the registry's agent, state['online']
    sends,              \* backend: what each task's broadcast still sends to this console
    request,            \* console: its starts and stops, asked, or set and being sent
    telemetry,          \* telemetry_loop: where it waits, and its copy of the agent
    restores,           \* backend: restarts that will still end in a _restore
    link,               \* the console's connection is up
    shown, shownGateway,\* console: the agent's status, None when not listed; gateway.online
    panel,              \* console: handleRestartGateway's progress
    refresh             \* console: the refresh() under way (one at a time: a bound of the
                        \* model), and what it was answered

vars == <<status, gateway, sends, request, telemetry, restores, link, shown,
          shownGateway, panel, refresh>>
server == <<status, gateway, telemetry, restores>>
view == <<shown, shownGateway, panel, refresh>>

Idle == [at |-> "idle", to |-> None]
Asleep == [at |-> "asleep", copy |-> None]
Past == [at |-> "agent", copy |-> None]
NoRefresh == [at |-> "none", status |-> None, gateway |-> None]
Asked == [NoRefresh EXCEPT !.at = "asked"]

TypeOK ==
    /\ status \in Statuses /\ shown \in Statuses \cup {None}
    /\ gateway \in Gateway /\ shownGateway \in Gateway
    /\ link \in BOOLEAN
    /\ sends \in [Senders -> Statuses \cup Gateway \cup {None}]
    /\ request \in [Requests -> {Idle} \cup [at : {"asked", "set"}, to : Statuses]]
    /\ telemetry \in {Asleep, Past} \cup [at : {"log"}, copy : Statuses]
    /\ restores \in Nat
    /\ panel \in {"ready", "asked", "waiting", "refreshing"}
    /\ refresh \in {NoRefresh, Asked}
                   \cup [at : {"answered"}, status : Statuses, gateway : Gateway]

\* INITIAL_AGENTS, connections and state of the backend.
Backend ==
    /\ status \in Statuses /\ gateway = "online"
    /\ sends = [s \in Senders |-> None] /\ link = FALSE

\* The dashboard is mounted: it refreshes and connects.
Init ==
    /\ Backend
    /\ request = [r \in Requests |-> Idle]
    /\ telemetry = Asleep /\ restores = 0
    /\ shown = None /\ shownGateway = "online" /\ panel = "ready" /\ refresh = Asked

-----------------------------------------------------------------------------
(* broadcast()                                                             *)

Sent(s) == sends[s] = None
Broadcast(s, value) == sends' = [sends EXCEPT ![s] = IF link THEN value ELSE None]

\* Only a listed agent is updated.
Show(value) == shown' = IF shown = None THEN None ELSE value

\* The send to this console, whose onEvent shows the value at once.
Send(s) ==
    /\ ~Sent(s)
    /\ sends' = [sends EXCEPT ![s] = None]
    /\ IF sends[s] \in Statuses THEN Show(sends[s]) /\ UNCHANGED shownGateway
                                ELSE shownGateway' = sends[s] /\ UNCHANGED shown
    /\ UNCHANGED <<server, request, link, panel, refresh>>

Connect ==
    /\ ~link /\ link' = TRUE
    /\ UNCHANGED <<server, sends, request, view>>

Drop ==
    /\ link /\ link' = FALSE
    /\ sends' = [s \in Senders |-> None]
    /\ UNCHANGED <<server, request, view>>

-----------------------------------------------------------------------------
(* Start and stop                                                          *)

\* The button of a listed agent is off while the gateway is shown offline or restarting, and
\* when the agent is shown in that status.  loadingAgent does not keep a second request
\* off: a click on another agent's button takes it away.
Enabled(to) == shown \notin {None, to} /\ shownGateway = "online" /\ panel = "ready"

\* handleStart or handleStop: startAgent or stopAgent is called, its outcome shown at once.
Click(r, to) ==
    /\ request[r] = Idle /\ Sent(r)
    /\ Enabled(to)
    /\ request' = [request EXCEPT ![r] = [at |-> "asked", to |-> to]]
    /\ shown' = to
    /\ UNCHANGED <<server, sends, link, shownGateway, panel, refresh>>

\* start_agent, stop_agent: the status is set and its broadcast begins.
SetStatus(by, to) ==
    /\ status' = to /\ Broadcast(by, to)
    /\ UNCHANGED <<gateway, telemetry, restores, link, view>>

Serve(r) ==
    /\ request[r].at = "asked"
    /\ request' = [request EXCEPT ![r].at = "set"]
    /\ SetStatus(r, request[r].to)

\* Another client's request.
ServeOther(r, to) ==
    request[r] = Idle /\ Sent(r) /\ SetStatus(r, to) /\ UNCHANGED request

\* The answer carries the status that was set.  It is written after the broadcast but comes
\* on a connection of its own, so that it may arrive first.
Answer(r) ==
    /\ request[r].at = "set"
    /\ request' = [request EXCEPT ![r] = Idle]
    /\ Show(request[r].to)
    /\ UNCHANGED <<server, sends, link, shownGateway, panel, refresh>>

\* parseResponse throws: the request or its answer is lost, or unlike what was expected.
Rejected(r) ==
    /\ request[r] # Idle
    /\ request' = [request EXCEPT ![r] = Idle]

\* Then the console refreshes, whatever the backend still does of it (ServeOther).
Fail(r) ==
    /\ Rejected(r)
    /\ refresh = NoRefresh /\ refresh' = Asked
    /\ UNCHANGED <<server, sends, link, shown, shownGateway, panel>>

-----------------------------------------------------------------------------
(* telemetry_loop()                                                        *)

Pause(next) ==
    /\ Sent("telemetry") /\ telemetry' = next
    /\ UNCHANGED <<status, gateway, request, restores, link, view>>

\* list_agents: what is taken is a copy, which later changes do not reach.
Copied == [at |-> "log", copy |-> status]

\* It copies the agents, takes one of them at random and broadcasts its heartbeat.
Pick ==
    /\ telemetry.at = "asleep"
    /\ Pause(Copied) /\ UNCHANGED sends

\* Another agent's heartbeat and status change nothing of what is shown of this one.
PickAnother ==
    /\ telemetry.at = "asleep"
    /\ Pause(Past) /\ UNCHANGED sends

\* Then the status that it copied.
TellAgent ==
    /\ telemetry.at = "log"
    /\ Pause(Past)
    /\ Broadcast("telemetry", telemetry.copy)

\* Seeded fault: the gateway is pushed only when it restarts.
TellGatewayNever == telemetry.at = "agent" /\ Pause(Asleep) /\ UNCHANGED sends

\* Then whether the gateway is online now, and it sleeps.
TellGateway ==
    /\ telemetry.at = "agent"
    /\ Pause(Asleep)
    /\ Broadcast("telemetry", gateway)

-----------------------------------------------------------------------------
(* Restarting the gateway                                                  *)

\* Seeded fault: every call restarts it.
GoOfflineAlways ==
    gateway' = "offline" /\ restores' = restores + 1 /\ Broadcast("restart", "offline")

\* gateway_restart: nothing when it is offline already.
GoOffline ==
    IF gateway = "online"
    THEN /\ gateway' = "offline" /\ restores' = restores + 1
         /\ Broadcast("restart", "offline")
    ELSE UNCHANGED <<gateway, restores, sends>>

\* Another client restarts it.
RestartOther ==
    /\ GoOffline
    /\ UNCHANGED <<status, request, telemetry, link, view>>

\* handleRestartGateway, to the answer that starts its wait of 1.5 seconds.
RestartClick ==
    /\ panel = "ready" /\ panel' = "asked"
    /\ shownGateway' = "offline"
    /\ UNCHANGED <<server, sends, request, link, shown, refresh>>

RestartServe ==
    /\ panel = "asked" /\ panel' = "waiting"
    /\ GoOffline
    /\ UNCHANGED <<status, request, telemetry, link, shown, shownGateway, refresh>>

\* The request or its answer is lost: what is shown stays.
RestartFails ==
    /\ panel \in {"asked", "waiting"} /\ panel' = "ready"
    /\ UNCHANGED <<server, sends, request, link, shown, shownGateway, refresh>>

\* The wait is over (it outlasts the broadcast): the buttons stay off until it has refreshed.
RestartDone ==
    /\ panel = "waiting" /\ panel' = "refreshing"
    /\ refresh = NoRefresh /\ refresh' = Asked
    /\ UNCHANGED <<server, sends, request, link, shown, shownGateway>>

\* The task the handler creates once it has broadcast sleeps 1.5 seconds, longer than an
\* earlier task's broadcast takes, and broadcasts in turn.
Restore ==
    /\ restores > 0 /\ Sent("restart") /\ Sent("restore")
    /\ gateway' = "online" /\ restores' = restores - 1
    /\ Broadcast("restore", "online")
    /\ UNCHANGED <<status, request, telemetry, link, view>>

-----------------------------------------------------------------------------
(* refresh()                                                               *)

RefreshClick ==
    /\ refresh = NoRefresh /\ panel = "ready"
    /\ refresh' = Asked
    /\ UNCHANGED <<server, sends, request, link, shown, shownGateway, panel>>

\* status_all
RefreshServe ==
    /\ refresh.at = "asked"
    /\ refresh' = [at |-> "answered", status |-> status, gateway |-> gateway]
    /\ UNCHANGED <<server, sends, request, link, shown, shownGateway, panel>>

RefreshEnds ==
    /\ refresh # NoRefresh /\ refresh' = NoRefresh
    /\ panel' = IF panel = "refreshing" THEN "ready" ELSE panel
    /\ UNCHANGED <<server, sends, request, link>>

RefreshArrives ==
    /\ refresh.at = "answered" /\ RefreshEnds
    /\ shown' = refresh.status /\ shownGateway' = refresh.gateway

RefreshFails == RefreshEnds /\ UNCHANGED <<shown, shownGateway>>

-----------------------------------------------------------------------------
\* What clients and the network do unasked.
Disturb ==
    \/ \E r \in Requests, to \in Statuses : Click(r, to) \/ ServeOther(r, to)
    \/ RestartOther \/ RestartClick \/ RefreshClick \/ Drop

Respond(r) == Serve(r) \/ Answer(r) \/ Fail(r)
RestartPanel == RestartServe \/ RestartDone \/ RestartFails
Refresh == RefreshServe \/ RefreshArrives \/ RefreshFails
TelemetryTask == Pick \/ PickAnother \/ TellAgent \/ TellGateway \/ Send("telemetry")
RestoreTask == Restore \/ Send("restart") \/ Send("restore")

Next ==
    \/ Disturb \/ Connect \/ TelemetryTask \/ RestoreTask
    \/ \E r \in Requests : Respond(r) \/ Send(r)
    \/ RestartPanel \/ Refresh

\* The backend's tasks go on, random.choice takes the agent again and again, and the socket
\* connects again (StatusSocket!NeverStranded).  Nothing is assumed of requests, refreshes
\* and what they send: they may hang.
Fairness ==
    WF_vars(TelemetryTask) /\ SF_vars(Pick) /\ WF_vars(RestoreTask) /\ WF_vars(Connect)

Spec == Init /\ [][Next]_vars /\ Fairness

-----------------------------------------------------------------------------
(* Properties                                                              *)

\* However restarts overlap, an offline gateway has exactly one end of a restart coming and
\* an online one has none: no restart is cut short by an earlier one (main.py:130-142).
OneRestorePending == restores = IF gateway = "offline" THEN 1 ELSE 0

\* Once nobody asks for anything any more and the connection holds, a console whose refresh ever
\* succeeded comes to show what the backend has, and keeps showing it: whatever was sent
\* late, answered late, lost or assumed before, telemetry_loop repairs (main.py:54-72,
\* CyberConsoleDashboard.tsx:41-156).
Current == gateway = "online" /\ link /\ shown \in {status, None} /\ shownGateway = gateway
ViewSettles == <>[][~Disturb]_vars => <>[]Current
=============================================================================
