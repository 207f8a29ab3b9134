--------------------------- MODULE StatusSocket ---------------------------
(***************************************************************************)
(* app/frontend/src/lib/ws.ts: the console's StatusWebSocket, which the    *)
(* dashboard component connects when it is mounted and disconnects when it *)
(* is unmounted.                                                           *)
(*                                                                         *)
(* JavaScript runs one callback at a time, so each callback is an action.  *)
(* Of the browser's WebSocket the module uses: close() acts later, through *)
(* the close event; a socket that fails, which close() makes of one that   *)
(* is still connecting, has an error event and then its close event in the *)
(* same task.                                                              *)
(***************************************************************************)
EXTENDS Naturals

CONSTANTS
    Sockets,     \* identities of WebSocket objects; a closed one is used again
    None,
    MaxTimers    \* bound on the reconnect timers that are pending together

ASSUME SocketsAssumption == None \notin Sockets /\ MaxTimers \in Nat

VARIABLES
    net,            \* the state of each WebSocket object
    socket,         \* this.socket
    closedByUser,   \* this.closedByUser
    timers,         \* pending setTimeout calls of scheduleReconnect()
    mounted,        \* the dashboard component is mounted
    overlap,        \* history: connect() ran while an older socket was not gone
    stray           \* history: the component was unmounted with a timer pending

vars == <<net, socket, closedByUser, timers, mounted, overlap, stray>>

\* "failing" and "closing": the close event is still to come, with an error
\* event before it or not.
NetStates == {"gone", "connecting", "open", "failing", "closing"}

TypeOK ==
    /\ net \in [Sockets -> NetStates]
    /\ socket \in Sockets \cup {None}
    /\ closedByUser \in BOOLEAN
    /\ timers \in 0..MaxTimers
    /\ mounted \in BOOLEAN
    /\ overlap \in BOOLEAN
    /\ stray \in BOOLEAN

Init ==
    /\ net = [s \in Sockets |-> "gone"]
    /\ socket = None
    /\ closedByUser = FALSE
    /\ timers = 0
    /\ mounted = FALSE
    /\ overlap = FALSE
    /\ stray = FALSE

Live == {s \in Sockets : net[s] \in {"connecting", "open"}}

\* The state of a WebSocket after close().
AfterClose(state) ==
    CASE state = "connecting" -> "failing"
      [] state = "open"       -> "closing"
      [] OTHER                -> state

\* connect() past its first line: a new socket.
Open ==
    /\ \E s \in Sockets :
        /\ net[s] = "gone"
        /\ net' = [net EXCEPT ![s] = "connecting"]
        /\ socket' = s
    /\ overlap' = (overlap \/ \E s \in Sockets : net[s] # "gone")
    /\ closedByUser' = FALSE

\* connect(): nothing when there is a socket.
Connect ==
    \/ socket = None /\ Open
    \/ socket # None /\ UNCHANGED <<net, socket, closedByUser, overlap>>

Mount ==
    /\ ~mounted
    /\ mounted' = TRUE
    /\ Connect
    /\ UNCHANGED <<timers, stray>>

\* Seeded fault: disconnect() forgets the socket without closing it.
UnmountForgets ==
    /\ mounted
    /\ mounted' = FALSE
    /\ closedByUser' = TRUE
    /\ socket' = None
    /\ stray' = (stray \/ timers > 0)
    /\ UNCHANGED <<net, timers, overlap>>

\* disconnect(): pending timers are left alone.
Unmount ==
    /\ mounted
    /\ mounted' = FALSE
    /\ closedByUser' = TRUE
    /\ socket' = None
    /\ net' = [s \in Sockets |-> IF s = socket THEN AfterClose(net[s]) ELSE net[s]]
    /\ stray' = (stray \/ timers > 0)
    /\ UNCHANGED <<timers, overlap>>

\* The timer of scheduleReconnect().
TimerFires ==
    /\ timers > 0
    /\ timers' = timers - 1
    /\ Connect
    /\ UNCHANGED <<mounted, stray>>

\* onopen; the attempts it resets only set the delay of the next timer.
Opened(s) ==
    /\ net[s] = "connecting"
    /\ net' = [net EXCEPT ![s] = "open"]
    /\ UNCHANGED <<socket, closedByUser, timers, mounted, overlap, stray>>

\* The server refuses or drops the connection.
Dropped(s) ==
    /\ \/ net[s] = "connecting" /\ net' = [net EXCEPT ![s] = "failing"]
       \/ net[s] = "open" /\ \E state \in {"failing", "closing"} :
              net' = [net EXCEPT ![s] = state]
    /\ UNCHANGED <<socket, closedByUser, timers, mounted, overlap, stray>>

\* Seeded fault: scheduleReconnect() only when it was the current socket that
\* closed, although the field is cleared in any case.
ScheduleIfCurrent(s) ==
    IF closedByUser \/ socket # s THEN UNCHANGED timers
    ELSE timers < MaxTimers /\ timers' = timers + 1

Schedule(s) ==
    IF closedByUser THEN UNCHANGED timers
    ELSE timers < MaxTimers /\ timers' = timers + 1

\* onerror, when s fails: the socket in the field is closed, whichever it is.
\* onclose: the field is cleared, whichever socket it holds.
Closed(s) ==
    /\ net[s] \in {"failing", "closing"}
    /\ net' = [t \in Sockets |->
                 IF t = s THEN "gone"
                 ELSE IF t = socket /\ net[s] = "failing" THEN AfterClose(net[t])
                 ELSE net[t]]
    /\ socket' = None
    /\ Schedule(s)
    /\ UNCHANGED <<closedByUser, mounted, overlap, stray>>

SocketStep(s) == Opened(s) \/ Dropped(s) \/ Closed(s)

Next ==
    \/ Mount \/ Unmount \/ TimerFires
    \/ \E s \in Sockets : SocketStep(s)

Spec == Init /\ [][Next]_vars

-----------------------------------------------------------------------------
\* A mounted dashboard never gives up: it holds a socket whose close event is
\* still to come, or a timer will connect again, whatever sockets of earlier
\* mounts fail or close meanwhile.
NeverStranded ==
    mounted => \/ socket # None /\ net[socket] # "gone"
               \/ timers > 0

\* There is one live connection at most, so that each event is delivered once,
\* and none once the dashboard is unmounted.  Both hold only as long as no
\* connect() overtakes the close event of an older socket, and the second only
\* when no timer was pending at an unmount: React's StrictMode, which unmounts
\* and mounts again at once, brings the first about.
SocketsMatchConsole ==
    ~overlap =>
        /\ \A s, t \in Live : s = t
        /\ ~mounted /\ ~stray => Live = {}
=============================================================================
