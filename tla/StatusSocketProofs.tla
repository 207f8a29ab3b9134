------------------------ MODULE StatusSocketProofs ------------------------
(***************************************************************************)
(* Proofs about StatusSocket, for any number of sockets and timers.        *)
(***************************************************************************)
EXTENDS StatusSocket, TLAPS

\* The field holds a socket only after connect(), which reset closedByUser,
\* and loses it in the close event at the latest.
FieldIsConnected ==
    socket # None => net[socket] # "gone" /\ ~closedByUser

\* Without an overlap one WebSocket exists at most, and a live one is in the
\* field, where disconnect() finds it.
NoOverlapOneSocket ==
    ~overlap =>
        /\ \A s, t \in Sockets : net[s] # "gone" /\ net[t] # "gone" => s = t
        /\ \A s \in Live : socket = s

\* After an unmount that left no timer, nothing calls connect() or schedules.
UnmountedIsQuiet ==
    ~mounted /\ ~stray =>
        /\ timers = 0
        /\ socket = None
        /\ closedByUser \/ \A s \in Sockets : net[s] = "gone"

IInv ==
    /\ TypeOK
    /\ FieldIsConnected
    /\ NeverStranded
    /\ NoOverlapOneSocket
    /\ UnmountedIsQuiet

\* The inductive invariant implies the property: an unmounted dashboard has no
\* socket in the field, and a live socket would be there.
LEMMA IInvImpliesSocketsMatch == IInv => SocketsMatchConsole
  BY SocketsAssumption DEF IInv, TypeOK, NoOverlapOneSocket, UnmountedIsQuiet, SocketsMatchConsole, Live

\* connect() keeps or establishes everything said of the field, for a caller
\* that is mounted or may be stray.
LEMMA ConnectEffect ==
    ASSUME TypeOK, FieldIsConnected, NoOverlapOneSocket, Connect
    PROVE  /\ net' \in [Sockets -> NetStates]
           /\ socket' \in Sockets
           /\ net'[socket'] # "gone"
           /\ closedByUser' = FALSE
           /\ overlap' \in BOOLEAN
           /\ NoOverlapOneSocket'
<1>1. CASE socket = None /\ Open
  <2>1. PICK s \in Sockets : /\ net[s] = "gone"
                             /\ net' = [net EXCEPT ![s] = "connecting"]
                             /\ socket' = s
    BY <1>1 DEF Open
  <2>2. net' \in [Sockets -> NetStates] /\ net'[s] = "connecting"
    BY <2>1 DEF TypeOK, NetStates
  <2>3. overlap' \in BOOLEAN /\ closedByUser' = FALSE
    BY <1>1 DEF Open, TypeOK
  <2>4. ~overlap' => \A t \in Sockets : net[t] = "gone"
    BY <1>1 DEF Open
  <2>5. NoOverlapOneSocket'
    BY <2>1, <2>4 DEF NoOverlapOneSocket, Live, TypeOK
  <2> QED BY <2>1, <2>2, <2>3, <2>5
<1>2. CASE socket # None /\ UNCHANGED <<net, socket, closedByUser, overlap>>
  BY <1>2 DEF TypeOK, FieldIsConnected, NoOverlapOneSocket, Live
<1> QED BY <1>1, <1>2 DEF Connect

\* The invariant holds initially and every callback preserves it.
THEOREM InductiveInvariant == Spec => []IInv
<1>1. Init => IInv
  <2> SUFFICES ASSUME Init PROVE IInv
    OBVIOUS
  <2>1. timers \in 0..MaxTimers
    BY SocketsAssumption DEF Init
  <2>2. net \in [Sockets -> NetStates]
    BY DEF Init, NetStates
  <2>3. TypeOK
    BY <2>1, <2>2 DEF Init, TypeOK
  <2>4. FieldIsConnected /\ NeverStranded
    BY DEF Init, FieldIsConnected, NeverStranded
  <2>5. NoOverlapOneSocket /\ UnmountedIsQuiet
    BY DEF Init, NoOverlapOneSocket, UnmountedIsQuiet, Live
  <2> QED BY <2>3, <2>4, <2>5 DEF IInv
<1>2. IInv /\ [Next]_vars => IInv'
  <2> SUFFICES ASSUME IInv, [Next]_vars PROVE IInv'
    OBVIOUS
  <2> USE SocketsAssumption DEF IInv
  <2>1. CASE Mount
    <3>1. /\ net' \in [Sockets -> NetStates] /\ socket' \in Sockets
          /\ net'[socket'] # "gone" /\ closedByUser' = FALSE
          /\ overlap' \in BOOLEAN /\ NoOverlapOneSocket'
      BY <2>1, ConnectEffect DEF Mount
    <3>2. mounted' = TRUE /\ UNCHANGED <<timers, stray>>
      BY <2>1 DEF Mount
    <3> QED BY <3>1, <3>2 DEF TypeOK, FieldIsConnected, NeverStranded, UnmountedIsQuiet
  <2>2. CASE Unmount
    <3>1. /\ mounted' = FALSE /\ closedByUser' = TRUE /\ socket' = None
          /\ stray' = (stray \/ timers > 0) /\ UNCHANGED <<timers, overlap>>
          /\ net' = [s \in Sockets |-> IF s = socket THEN AfterClose(net[s]) ELSE net[s]]
      BY <2>2 DEF Unmount
    <3>2. net' \in [Sockets -> NetStates]
      BY <3>1 DEF AfterClose, NetStates, TypeOK
    <3>3. TypeOK'
      BY <3>1, <3>2 DEF TypeOK
    <3>4. \A s \in Sockets : net'[s] # "gone" => net[s] # "gone"
      BY <3>1 DEF AfterClose, TypeOK, NetStates
    <3>5. \A s \in Sockets : net'[s] \in {"connecting", "open"} => s # socket /\ s \in Live
      BY <3>1 DEF AfterClose, TypeOK, NetStates, Live
    <3>6. NoOverlapOneSocket'
      BY <3>1, <3>4, <3>5 DEF NoOverlapOneSocket, Live
    <3>7. ~stray' => timers = 0
      <4>1. timers \in Nat
        BY DEF TypeOK
      <4>2. timers > 0 \/ timers = 0
        BY <4>1
      <4> QED BY <3>1, <4>2
    <3>8. FieldIsConnected' /\ NeverStranded' /\ UnmountedIsQuiet'
      BY <3>1, <3>7 DEF FieldIsConnected, NeverStranded, UnmountedIsQuiet
    <3> QED BY <3>3, <3>6, <3>8
  <2>3. CASE TimerFires
    <3>1. /\ net' \in [Sockets -> NetStates] /\ socket' \in Sockets
          /\ net'[socket'] # "gone" /\ closedByUser' = FALSE
          /\ overlap' \in BOOLEAN /\ NoOverlapOneSocket'
      BY <2>3, ConnectEffect DEF TimerFires
    <3>2. timers > 0 /\ timers' = timers - 1 /\ UNCHANGED <<mounted, stray>>
      BY <2>3 DEF TimerFires
    <3>3. timers' \in 0..MaxTimers
      BY <3>2 DEF TypeOK
    <3>4. TypeOK'
      BY <3>1, <3>2, <3>3 DEF TypeOK
    <3>5. FieldIsConnected' /\ NeverStranded'
      BY <3>1, <3>2 DEF FieldIsConnected, NeverStranded
    <3>6. UnmountedIsQuiet'
      BY <3>2 DEF UnmountedIsQuiet, TypeOK
    <3> QED BY <3>1, <3>4, <3>5, <3>6
  <2>4. ASSUME NEW s \in Sockets, Opened(s) PROVE IInv'
    <3>1. /\ net[s] = "connecting" /\ net' = [net EXCEPT ![s] = "open"]
          /\ UNCHANGED <<socket, closedByUser, timers, mounted, overlap, stray>>
      BY <2>4 DEF Opened
    <3> QED BY <3>1 DEF TypeOK, NetStates, FieldIsConnected, NeverStranded,
               NoOverlapOneSocket, UnmountedIsQuiet, Live
  <2>5. ASSUME NEW s \in Sockets, Dropped(s) PROVE IInv'
    <3>1. PICK state \in {"failing", "closing"} :
            /\ net[s] \in {"connecting", "open"} /\ net' = [net EXCEPT ![s] = state]
            /\ UNCHANGED <<socket, closedByUser, timers, mounted, overlap, stray>>
      BY <2>5 DEF Dropped
    <3>2. TypeOK'
      BY <3>1 DEF TypeOK, NetStates
    <3>3. \A t \in Sockets : net'[t] = "gone" <=> net[t] = "gone"
      BY <3>1 DEF TypeOK
    <3>4. Live' \subseteq Live
      BY <3>1 DEF TypeOK, Live
    <3> QED BY <3>1, <3>2, <3>3, <3>4 DEF TypeOK, FieldIsConnected, NeverStranded,
               NoOverlapOneSocket, UnmountedIsQuiet
  <2>6. ASSUME NEW s \in Sockets, Closed(s) PROVE IInv'
    <3>1. /\ net[s] \in {"failing", "closing"} /\ socket' = None /\ Schedule(s)
          /\ UNCHANGED <<closedByUser, mounted, overlap, stray>>
      BY <2>6 DEF Closed
    <3>2. /\ net' \in [Sockets -> NetStates]
          /\ \A t \in Sockets : net'[t] # "gone" => t # s /\ net[t] # "gone"
          /\ Live' \subseteq Live
      <4>1. net' = [t \in Sockets |->
                      IF t = s THEN "gone"
                      ELSE IF t = socket /\ net[s] = "failing" THEN AfterClose(net[t])
                      ELSE net[t]]
        BY <2>6 DEF Closed
      <4>2. \A t \in Sockets : net[t] \in NetStates
        BY DEF TypeOK
      <4>3. net'[s] = "gone"
        BY <4>1
      <4>4. ASSUME NEW t \in Sockets, t # s
            PROVE  net'[t] = net[t] \/ net'[t] = AfterClose(net[t])
        BY <4>1, <4>4
      <4>5. ASSUME NEW t \in Sockets
            PROVE  /\ AfterClose(net[t]) \in NetStates
                   /\ AfterClose(net[t]) = "gone" <=> net[t] = "gone"
                   /\ AfterClose(net[t]) \notin {"connecting", "open"}
        BY <4>2 DEF AfterClose, NetStates
      <4>6. \A t \in Sockets : net'[t] \in NetStates
        BY <4>2, <4>3, <4>4, <4>5 DEF NetStates
      <4>7. net' \in [Sockets -> NetStates]
        BY <4>1, <4>6
      <4>8. \A t \in Sockets : net'[t] # "gone" => t # s /\ net[t] # "gone"
        BY <4>3, <4>4, <4>5
      <4>9. Live' \subseteq Live
        BY <4>3, <4>4, <4>5 DEF Live
      <4> QED BY <4>7, <4>8, <4>9
    <3>3. timers' \in 0..MaxTimers /\ (closedByUser => timers' = timers)
          /\ (~closedByUser => timers' > 0)
      <4>1. CASE closedByUser
        BY <3>1, <4>1 DEF Schedule, TypeOK
      <4>2. CASE ~closedByUser
        <5>1. timers < MaxTimers /\ timers' = timers + 1
          BY <3>1, <4>2 DEF Schedule
        <5>2. timers' \in 0..MaxTimers /\ timers' > 0
          BY <5>1 DEF TypeOK
        <5> QED BY <4>2, <5>2
      <4> QED BY <4>1, <4>2
    <3>4. TypeOK'
      BY <3>1, <3>2, <3>3 DEF TypeOK
    <3>5. ~overlap => \A t \in Sockets : net'[t] = "gone"
      BY <3>1, <3>2 DEF NoOverlapOneSocket
    <3>6. NoOverlapOneSocket'
      BY <3>1, <3>5 DEF NoOverlapOneSocket, Live
    <3>7. mounted => ~closedByUser \/ timers > 0
      BY DEF NeverStranded, FieldIsConnected
    <3>8. FieldIsConnected' /\ NeverStranded'
      BY <3>1, <3>3, <3>7 DEF FieldIsConnected, NeverStranded
    <3>9. UnmountedIsQuiet'
      BY <3>1, <3>3 DEF UnmountedIsQuiet
    <3> QED BY <3>4, <3>6, <3>8, <3>9
  <2>7. CASE UNCHANGED vars
    BY <2>7 DEF vars, TypeOK, FieldIsConnected, NeverStranded, NoOverlapOneSocket,
       UnmountedIsQuiet, Live
  <2> QED BY <2>1, <2>2, <2>3, <2>4, <2>5, <2>6, <2>7 DEF Next, SocketStep
<1> QED BY <1>1, <1>2, PTL DEF Spec

\* Every reachable state is well typed; in particular the field never holds a
\* socket that does not exist.
THEOREM TypeCorrect == Spec => []TypeOK
  BY InductiveInvariant, PTL DEF IInv

\* A mounted console always has a socket or a timer that gets it one.
THEOREM AlwaysReconnecting == Spec => []NeverStranded
  BY InductiveInvariant, PTL DEF IInv

\* Second connections and connections of an unmounted console need an overlap
\* or a timer that outlived an unmount.
THEOREM LeaksHaveACause == Spec => []SocketsMatchConsole
  BY InductiveInvariant, IInvImpliesSocketsMatch, PTL
=============================================================================
