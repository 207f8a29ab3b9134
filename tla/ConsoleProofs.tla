--------------------------- MODULE ConsoleProofs ---------------------------
(***************************************************************************)
(* Theorems about Console, for any set of requests, proved with TLAPS.     *)
(***************************************************************************)
EXTENDS Console, TLAPS

Values == Statuses \cup Gateway \cup {None}

LEMMA BroadcastType ==
    ASSUME TypeOK, NEW s \in Senders, NEW value \in Values, Broadcast(s, value)
    PROVE  sends' \in [Senders -> Values]
BY DEF TypeOK, Broadcast, Values

LEMMA GoOfflineType ==
    ASSUME TypeOK, GoOffline
    PROVE  /\ gateway' \in Gateway /\ restores' \in Nat
           /\ sends' \in [Senders -> Values]
<1>1. CASE gateway = "online"
  <2>1. "restart" \in Senders /\ "offline" \in Values
    BY DEF Senders, Values, Gateway
  <2>2. sends' \in [Senders -> Values]
    BY <1>1, <2>1, BroadcastType DEF GoOffline
  <2> QED BY <1>1, <2>2 DEF TypeOK, GoOffline, Gateway
<1>2. CASE gateway # "online"
  BY <1>2 DEF TypeOK, GoOffline, Values
<1> QED BY <1>1, <1>2

\* An action of a request is one of a sender.
LEMMA RequestsSend == Requests \subseteq Senders
BY DEF Senders

LEMMA SendType ==
    ASSUME TypeOK, NEW s \in Senders, Send(s)
    PROVE  TypeOK'
<1>1. sends' \in [Senders -> Values]
  BY DEF Send, TypeOK, Values
<1>2. shown' \in Statuses \cup {None} /\ shownGateway' \in Gateway
  BY DEF Send, Sent, TypeOK, Show
<1> QED BY <1>1, <1>2 DEF Send, TypeOK, Values, server, view

LEMMA RequestType ==
    ASSUME TypeOK, NEW r \in Requests, NEW to \in Statuses,
           Click(r, to) \/ ServeOther(r, to) \/ Serve(r) \/ Answer(r) \/ Fail(r)
    PROVE  TypeOK'
<1>1. CASE Click(r, to)
  BY <1>1 DEF Click, TypeOK, server, Statuses
<1>2. CASE ServeOther(r, to)
  <2>1. sends' \in [Senders -> Values]
    BY <1>2, RequestsSend, BroadcastType DEF ServeOther, SetStatus, Values
  <2> QED BY <1>2, <2>1 DEF ServeOther, SetStatus, TypeOK, view, Values
<1>3. CASE Serve(r)
  <2>1. request[r] \in [at : {"asked", "set"}, to : Statuses]
    BY <1>3 DEF Serve, TypeOK, Idle
  <2>2. sends' \in [Senders -> Values] /\ status' \in Statuses
    BY <1>3, <2>1, RequestsSend, BroadcastType DEF Serve, SetStatus, Values
  <2>3. request' \in [Requests -> {Idle} \cup [at : {"asked", "set"}, to : Statuses]]
    BY <1>3, <2>1 DEF Serve, TypeOK
  <2> QED BY <1>3, <2>2, <2>3 DEF Serve, SetStatus, TypeOK, view, Values
<1>4. CASE Answer(r)
  BY <1>4 DEF Answer, Show, TypeOK, server, Idle
<1>5. CASE Fail(r)
  BY <1>5 DEF Fail, Rejected, TypeOK, server, Idle, Asked, NoRefresh
<1> QED BY <1>1, <1>2, <1>3, <1>4, <1>5

LEMMA TelemetryType ==
    ASSUME TypeOK, TelemetryTask
    PROVE  TypeOK'
<1>0. "telemetry" \in Senders
  BY DEF Senders
<1>1. CASE Pick
  BY <1>1 DEF Pick, Pause, Copied, TypeOK, view
<1>2. CASE PickAnother
  BY <1>2 DEF PickAnother, Pause, TypeOK, view
<1>3. CASE TellAgent
  <2>1. telemetry.copy \in Values
    BY <1>3 DEF TellAgent, TypeOK, Values, Asleep, Past
  <2>2. sends' \in [Senders -> Values]
    BY <1>0, <1>3, <2>1, BroadcastType DEF TellAgent
  <2> QED BY <1>3, <2>2 DEF TellAgent, Pause, TypeOK, view, Values
<1>4. CASE TellGateway
  <2>1. sends' \in [Senders -> Values]
    BY <1>0, <1>4, BroadcastType DEF TellGateway, TypeOK, Values
  <2> QED BY <1>4, <2>1 DEF TellGateway, Pause, TypeOK, view, Values
<1>5. CASE Send("telemetry")
  BY <1>0, <1>5, SendType
<1> QED BY <1>1, <1>2, <1>3, <1>4, <1>5 DEF TelemetryTask

LEMMA RestartType ==
    ASSUME TypeOK, RestoreTask \/ RestartOther \/ RestartClick \/ RestartPanel
    PROVE  TypeOK'
<1>0. "restart" \in Senders /\ "restore" \in Senders
  BY DEF Senders
<1>1. CASE Restore
  <2>1. sends' \in [Senders -> Values]
    BY <1>0, <1>1, BroadcastType DEF Restore, Values, Gateway
  <2>2. gateway' \in Gateway /\ restores' \in Nat
    BY <1>1 DEF Restore, TypeOK, Gateway
  <2> QED BY <1>1, <2>1, <2>2 DEF Restore, TypeOK, view, Values
<1>2. CASE Send("restart") \/ Send("restore")
  BY <1>0, <1>2, SendType
<1>3. CASE RestartOther
  BY <1>3, GoOfflineType DEF RestartOther, TypeOK, view, Values
<1>4. CASE RestartClick
  BY <1>4 DEF RestartClick, TypeOK, server, Gateway
<1>5. CASE RestartServe
  BY <1>5, GoOfflineType DEF RestartServe, TypeOK, Values
<1>6. CASE RestartFails
  BY <1>6 DEF RestartFails, TypeOK, server
<1>7. CASE RestartDone
  BY <1>7 DEF RestartDone, TypeOK, server
<1> QED BY <1>1, <1>2, <1>3, <1>4, <1>5, <1>6, <1>7 DEF RestoreTask, RestartPanel

LEMMA RefreshType ==
    ASSUME TypeOK, Connect \/ Drop \/ RefreshClick \/ Refresh
    PROVE  TypeOK'
<1>1. CASE Connect
  BY <1>1 DEF Connect, TypeOK, server, view
<1>2. CASE Drop
  BY <1>2 DEF Drop, TypeOK, server, view
<1>3. CASE RefreshClick
  BY <1>3 DEF RefreshClick, TypeOK, server
<1>4. CASE RefreshServe
  BY <1>4 DEF RefreshServe, TypeOK, server
<1>5. CASE RefreshArrives
  <2>1. refresh \in [at : {"answered"}, status : Statuses, gateway : Gateway]
    BY <1>5 DEF RefreshArrives, TypeOK, NoRefresh, Asked
  <2> QED BY <1>5, <2>1 DEF RefreshArrives, RefreshEnds, TypeOK, server
<1>6. CASE RefreshFails
  BY <1>6 DEF RefreshFails, RefreshEnds, TypeOK, server
<1> QED BY <1>1, <1>2, <1>3, <1>4, <1>5, <1>6 DEF Refresh

LEMMA StepType ==
    ASSUME TypeOK, [Next]_vars
    PROVE  TypeOK'
<1>1. CASE UNCHANGED vars
  BY <1>1 DEF vars, TypeOK
<1>2. ASSUME NEW r \in Requests, NEW to \in Statuses, Click(r, to) \/ ServeOther(r, to)
      PROVE TypeOK'
  BY <1>2, RequestType
<1>3. ASSUME NEW r \in Requests, Respond(r)
      PROVE TypeOK'
  <2>1. PICK to \in Statuses : TRUE
    BY DEF Statuses
  <2> QED BY <1>3, <2>1, RequestType DEF Respond
<1>4. ASSUME NEW r \in Requests, Send(r)
      PROVE TypeOK'
  BY <1>4, RequestsSend, SendType
<1>5. CASE TelemetryTask \/ RestoreTask \/ RestartOther \/ RestartClick \/ RestartPanel
  BY <1>5, TelemetryType, RestartType
<1>6. CASE Connect \/ Drop \/ RefreshClick \/ Refresh
  BY <1>6, RefreshType
<1> QED BY <1>1, <1>2, <1>3, <1>4, <1>5, <1>6 DEF Next, Disturb

LEMMA InitType == Init => TypeOK
<1> SUFFICES ASSUME Init PROVE TypeOK
  OBVIOUS
<1>1. sends \in [Senders -> Statuses \cup Gateway \cup {None}] /\ link \in BOOLEAN
  BY DEF Init, Backend
<1>2. status \in Statuses /\ gateway \in Gateway
  BY DEF Init, Backend, Gateway
<1>3. shown \in Statuses \cup {None} /\ shownGateway \in Gateway
  BY DEF Init, Gateway
<1>4. request \in [Requests -> {Idle} \cup [at : {"asked", "set"}, to : Statuses]]
  BY DEF Init
<1> QED BY <1>1, <1>2, <1>3, <1>4 DEF Init, TypeOK

\* Every variable has its type; in particular a request, the telemetry's copy and an answer
\* hold a status whenever they are used.
THEOREM TypeCorrect == Spec => []TypeOK
BY InitType, StepType, PTL DEF Spec

\* What keeps the ends of restarts in step with the gateway.
LEMMA RestoreStep ==
    ASSUME TypeOK, OneRestorePending, [Next]_vars
    PROVE  OneRestorePending'
<1>1. CASE UNCHANGED <<gateway, restores>>
  BY <1>1 DEF OneRestorePending
<1>2. CASE GoOffline
  BY <1>1, <1>2 DEF GoOffline, OneRestorePending, TypeOK, Gateway
<1>3. CASE Restore
  BY <1>3 DEF Restore, OneRestorePending, TypeOK, Gateway
<1>4. GoOffline \/ Restore \/ UNCHANGED <<gateway, restores>>
  <2>1. CASE UNCHANGED vars
    BY <2>1 DEF vars
  <2>2. ASSUME NEW r \in Requests, NEW to \in Statuses, Click(r, to) \/ ServeOther(r, to)
        PROVE  UNCHANGED <<gateway, restores>>
    BY <2>2 DEF Click, ServeOther, SetStatus, server
  <2>3. ASSUME NEW r \in Requests, Respond(r)
        PROVE  UNCHANGED <<gateway, restores>>
    BY <2>3 DEF Respond, Serve, SetStatus, Answer, Fail, server
  <2>4. ASSUME NEW s, Send(s) PROVE UNCHANGED <<gateway, restores>>
    BY <2>4 DEF Send, server
  <2>5. CASE TelemetryTask
    BY <2>4, <2>5 DEF TelemetryTask, Pick, PickAnother, TellAgent, TellGateway, Pause
  <2>6. CASE RestartOther \/ RestartPanel \/ RestartClick
    BY <2>6 DEF RestartOther, RestartPanel, RestartServe, RestartDone, RestartFails,
                RestartClick, server
  <2>7. CASE Connect \/ Drop \/ RefreshClick \/ Refresh
    BY <2>7 DEF Connect, Drop, RefreshClick, Refresh, RefreshServe, RefreshArrives,
                RefreshFails, RefreshEnds, server
  <2> QED BY <2>1, <2>2, <2>3, <2>4, <2>5, <2>6, <2>7 DEF Next, Disturb, RestoreTask
<1> QED BY <1>1, <1>2, <1>3, <1>4

\* However restarts overlap, exactly one end is coming while the gateway is offline and none
\* while it is online (main.py:130-142).
THEOREM OneEndOfARestart == Spec => []OneRestorePending
<1>1. Init => OneRestorePending
  BY DEF Init, Backend, OneRestorePending
<1>2. TypeOK /\ OneRestorePending /\ [Next]_vars => OneRestorePending'
  BY RestoreStep
<1> QED BY <1>1, <1>2, TypeCorrect, PTL DEF Spec
=============================================================================
