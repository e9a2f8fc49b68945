---------------------------- MODULE EngineProofs ----------------------------
(***************************************************************************)
(* Proofs about Engine, for every set of sockets, every retry limit and    *)
(* every application (of the kind a theorem names).                        *)
(***************************************************************************)
EXTENDS Engine, TLAPS

-----------------------------------------------------------------------------
(* What the helpers keep in their types.                                    *)

\* What the server sends is a frame the engine knows.
LEMMA RepliesAreFrames ==
  ASSUME NEW k \in DOMAIN Replies
  PROVE  Replies[k] \subseteq Frames
BY DEF Replies, Frames

\* Closing the current socket leaves every socket in a ready state, a closed one
\* closed, and opens none.
LEMMA WSCloseType ==
  ASSUME NEW rs \in [Sockets -> ReadyStates], ws \in Sockets \cup {NoSocket}
  PROVE  /\ WSClose(rs) \in [Sockets -> ReadyStates]
         /\ \A s \in Sockets : (WSClose(rs)[s] = "CLOSED") <=> (rs[s] = "CLOSED")
         /\ \A s \in Sockets : rs[s] \in {"OPEN", "CLOSING"}
                                 => WSClose(rs)[s] \in {"OPEN", "CLOSING"}
BY NoSocketAssumption DEF WSClose, ReadyStates

\* A step of the frame loop only shortens the loop.
LEMMA NextFrameType ==
  ASSUME TypeOK, ~Idle, NextFrame
  PROVE  /\ inBuffer' \in Seq(Frames)
         /\ decoder' \in Sockets \cup {NoSocket}
         /\ origin' \in Sockets \cup {NoSocket}
         /\ inBuffer' # <<>> => decoder' = decoder /\ origin' = origin
BY DEF TypeOK, Idle, NextFrame

-----------------------------------------------------------------------------
(* Type correctness.                                                        *)

\* disconnect() from well-typed ready states keeps the types of all it changes.
LEMMA DisconnectType ==
  ASSUME TypeOK, NEW rs \in [Sockets -> ReadyStates], NEW r \in Reasons,
         DisconnectFrom(rs, r)
  PROVE  /\ status' \in Status
         /\ lastDisconnectReason' \in Reasons \cup {"none"}
         /\ reconnectAttempts' \in 0 .. maxRetryCount
         /\ reconnectTimer' \in BOOLEAN
         /\ leakedTimers' \in 0 .. MaxLeakedTimers
         /\ ws' \in Sockets \cup {NoSocket}
         /\ noise' \in Sockets \cup {NoSocket}
         /\ handshakeComplete' \in BOOLEAN
         /\ transport' \in [Sockets -> {"none", "ready", "broken"}]
         /\ readyState' \in [Sockets -> ReadyStates]
BY WSCloseType DEF TypeOK, DisconnectFrom, Status, timers

\* connect() keeps the types of all it changes.
LEMMA ConnectType ==
  ASSUME TypeOK, NEW s \in Sockets, Connect(s),
         reconnectTimer' = FALSE, leakedTimers' \in 0 .. MaxLeakedTimers,
         revoked' \in BOOLEAN
  PROVE  TypeOK'
<1>1. toClient' \in [Sockets -> Seq(Frames)]
  BY DEF TypeOK, Connect
<1>2. /\ transport' \in [Sockets -> {"none", "ready", "broken"}]
      /\ readyState' \in [Sockets -> ReadyStates]
      /\ server' \in [Sockets -> {"idle", "greeted", "waiting", "login", "success", "refused"}]
  BY DEF TypeOK, Connect, ReadyStates
<1> QED
  BY <1>1, <1>2 DEF TypeOK, Connect, Status, loop

\* Every step keeps every variable in its type.
LEMMA TypeStep == TypeOK /\ [Next]_vars => TypeOK'
<1> SUFFICES ASSUME TypeOK, [Next]_vars PROVE TypeOK'
  OBVIOUS
<1>1. CASE UserConnect
  BY <1>1, ConnectType DEF UserConnect, TypeOK
<1>2. CASE UserDisconnect
  <2>1. PICK r \in Reasons : DisconnectFrom(readyState, r)
    BY <1>2, ApplicationAssumption DEF UserDisconnect, Disconnect
  <2> QED
    BY <1>2, <2>1, DisconnectType DEF UserDisconnect, TypeOK, loop
<1>3. CASE TimerFires
  BY <1>3, ConnectType DEF TimerFires, TypeOK
<1>4. CASE LeakedTimerFires
  <2>1. leakedTimers' \in 0 .. MaxLeakedTimers
    BY <1>4, BoundAssumption DEF LeakedTimerFires, TypeOK
  <2> QED
    BY <1>4, <2>1, ConnectType DEF LeakedTimerFires, TypeOK
<1>5. CASE HandshakeFrame
  <2>1. /\ inBuffer' \in Seq(Frames)
        /\ decoder' \in Sockets \cup {NoSocket}
        /\ origin' \in Sockets \cup {NoSocket}
    BY <1>5, NextFrameType DEF HandshakeFrame
  <2>2. CASE handshakeComplete
    BY <1>5, <2>1, <2>2 DEF HandshakeFrame, TypeOK, connection, timers, current
  <2>3. CASE ~handshakeComplete /\ frame = "hello" /\ origin = decoder /\ noise = decoder
    BY <1>5, <2>1, <2>3 DEF HandshakeFrame, TypeOK, connection, timers
  <2>4. CASE ~handshakeComplete /\ ~(frame = "hello" /\ origin = decoder /\ noise = decoder)
    <3>1. DisconnectFrom(readyState, "BadSession") /\ UNCHANGED server
      BY <1>5, <2>4 DEF HandshakeFrame, Disconnect
    <3>2. readyState \in [Sockets -> ReadyStates] /\ "BadSession" \in Reasons
      BY DEF TypeOK, Reasons
    <3>3. /\ status' \in Status
          /\ lastDisconnectReason' \in Reasons \cup {"none"}
          /\ reconnectAttempts' \in 0 .. maxRetryCount
          /\ reconnectTimer' \in BOOLEAN
          /\ leakedTimers' \in 0 .. MaxLeakedTimers
          /\ ws' \in Sockets \cup {NoSocket}
          /\ noise' \in Sockets \cup {NoSocket}
          /\ handshakeComplete' \in BOOLEAN
          /\ transport' \in [Sockets -> {"none", "ready", "broken"}]
          /\ readyState' \in [Sockets -> ReadyStates]
      BY <3>1, <3>2, DisconnectType
    <3> QED
      BY <1>5, <2>1, <3>1, <3>3 DEF HandshakeFrame, TypeOK
  <2> QED
    BY <2>2, <2>3, <2>4
<1>6. CASE UndecryptableFrame
  <2>1. inBuffer' \in Seq(Frames)
    BY <1>6 DEF UndecryptableFrame
  <2>2. transport' \in [Sockets -> {"none", "ready", "broken"}]
    BY <1>6 DEF UndecryptableFrame, TypeOK
  <2> QED
    BY <1>6, <2>1, <2>2
    DEF UndecryptableFrame, TypeOK, connection, timers, current, network
<1>7. CASE HandleSuccess
  <2>1. /\ inBuffer' \in Seq(Frames)
        /\ decoder' \in Sockets \cup {NoSocket}
        /\ origin' \in Sockets \cup {NoSocket}
    BY <1>7, NextFrameType DEF HandleSuccess, Receive
  <2>2. announcing' \subseteq Sockets
    BY <1>7 DEF HandleSuccess, TypeOK, CanSend, wsIsOpen
  <2>3. /\ status' \in Status
        /\ lastDisconnectReason' \in Reasons \cup {"none"}
        /\ reconnectAttempts' \in 0 .. maxRetryCount
    BY <1>7, RetryAssumption DEF HandleSuccess, TypeOK, SetOpen, Status, connection
  <2> QED
    BY <1>7, <2>1, <2>2, <2>3
    DEF HandleSuccess, TypeOK, timers, current, network
<1>8. CASE HandleFailure
  <2>1. PICK r \in Reasons : DisconnectFrom(readyState, r)
    BY <1>8 DEF HandleFailure, Disconnect, Reasons
  <2>2. ~Idle /\ NextFrame
    BY <1>8 DEF HandleFailure, Receive
  <2> QED
    BY <1>8, <2>1, <2>2, DisconnectType, NextFrameType DEF HandleFailure, TypeOK
<1>9. CASE HandleStreamError
  <2>1. PICK r \in Reasons : DisconnectFrom(readyState, r)
    BY <1>9 DEF HandleStreamError, Disconnect, Reasons
  <2>2. ~Idle /\ NextFrame
    BY <1>9 DEF HandleStreamError, Receive
  <2> QED
    BY <1>9, <2>1, <2>2, DisconnectType, NextFrameType DEF HandleStreamError, TypeOK
<1>10. ASSUME NEW s \in Sockets, SocketOpens(s) PROVE TypeOK'
  <2> DEFINE opened == [readyState EXCEPT ![s] = "OPEN"]
  <2>1. opened \in [Sockets -> ReadyStates]
    BY DEF TypeOK, ReadyStates
  <2>2. CASE noise # NoSocket /\ opened[ws] = "OPEN"
    BY <1>10, <2>1, <2>2
    DEF SocketOpens, TypeOK, connection, timers, current, loop
  <2>3. CASE ~(noise # NoSocket /\ opened[ws] = "OPEN")
    BY <1>10, <2>1, <2>3, DisconnectType DEF SocketOpens, TypeOK, loop, Reasons
  <2> QED
    BY <2>2, <2>3
<1>11. ASSUME NEW s \in Sockets, SocketCloses(s) PROVE TypeOK'
  <2>1. /\ status' \in Status
        /\ reconnectAttempts' \in 0 .. maxRetryCount
        /\ reconnectTimer' \in BOOLEAN
        /\ leakedTimers' \in 0 .. MaxLeakedTimers
    <3>1. CASE lastDisconnectReason \in Permanent \/ reconnectAttempts >= maxRetryCount
      BY <1>11, <3>1
      DEF SocketCloses, HandleClose, ScheduleReconnect, TypeOK, Status, timers
    <3>2. CASE ~(lastDisconnectReason \in Permanent \/ reconnectAttempts >= maxRetryCount)
      <4>1. /\ status' = "reconnecting"
            /\ reconnectAttempts' = reconnectAttempts + 1
            /\ reconnectTimer' = TRUE
            /\ reconnectTimer => leakedTimers < MaxLeakedTimers
            /\ leakedTimers' = IF reconnectTimer THEN leakedTimers + 1 ELSE leakedTimers
        BY <1>11, <3>2 DEF SocketCloses, HandleClose, ScheduleReconnect
      <4> QED
        BY <3>2, <4>1, RetryAssumption, BoundAssumption DEF TypeOK, Status
    <3> QED
      BY <3>1, <3>2
  <2> QED
    BY <1>11, <2>1
    DEF SocketCloses, HandleClose, TypeOK, ReadyStates, current, loop
<1>12. ASSUME NEW s \in Sockets, MessageArrives(s) PROVE TypeOK'
  <2>1. PICK n \in 1 .. Len(toClient[s]) :
          /\ toClient' = [toClient EXCEPT ![s] = SubSeq(@, n + 1, Len(@))]
          /\ IF noise = NoSocket
             THEN UNCHANGED loop
             ELSE /\ inBuffer' = SubSeq(toClient[s], 1, n)
                  /\ decoder' = noise
                  /\ origin' = s
    BY <1>12 DEF MessageArrives
  <2>2. toClient[s] \in Seq(Frames)
    BY DEF TypeOK
  <2>3. /\ SubSeq(toClient[s], 1, n) \in Seq(Frames)
        /\ SubSeq(toClient[s], n + 1, Len(toClient[s])) \in Seq(Frames)
    BY <2>2
  <2>4. toClient' \in [Sockets -> Seq(Frames)]
    BY <2>1, <2>3 DEF TypeOK
  <2>5. /\ inBuffer' \in Seq(Frames)
        /\ decoder' \in Sockets \cup {NoSocket}
        /\ origin' \in Sockets \cup {NoSocket}
    BY <2>1, <2>3 DEF TypeOK, loop
  <2> QED
    BY <1>12, <2>4, <2>5
    DEF MessageArrives, TypeOK, connection, timers, current
<1>13. ASSUME NEW s \in Sockets, PresenceSent(s) PROVE TypeOK'
  BY <1>13, RetryAssumption
  DEF PresenceSent, SetOpen, TypeOK, Status, timers, current, loop, network
<1>14. ASSUME NEW s \in Sockets, ServerSends(s) PROVE TypeOK'
  <2>1. PICK f \in Frames :
          /\ toClient' = [toClient EXCEPT ![s] = Append(@, f)]
          /\ server' = [server EXCEPT ![s] = ServerAfter(f)]
    BY <1>14, RepliesAreFrames DEF ServerSends
  <2>2. ServerAfter(f) \in {"success", "refused", "waiting"}
    BY DEF ServerAfter
  <2> QED
    BY <1>14, <2>1, <2>2
    DEF ServerSends, TypeOK, connection, timers, current, loop
<1>15. ASSUME NEW s \in Sockets, ListenerReconnects(s) PROVE TypeOK'
  <2>1. PICK f \in Sockets :
          /\ ws' = f
          /\ noise' = f
          /\ transport' = [transport EXCEPT ![f] = "none"]
          /\ readyState' = [readyState EXCEPT ![s] = "CLOSED", ![f] = "CONNECTING"]
          /\ toClient' = [toClient EXCEPT ![s] = <<>>, ![f] = <<>>]
          /\ server' = [server EXCEPT ![s] = "idle", ![f] = "idle"]
    BY <1>15 DEF ListenerReconnects
  <2>2. /\ status' \in Status
        /\ reconnectTimer' \in BOOLEAN
    BY <1>15 DEF ListenerReconnects, Status
  <2>3. reconnectAttempts' \in 0 .. maxRetryCount
    <3>1. \/ reconnectAttempts' = reconnectAttempts
          \/ /\ reconnectAttempts < maxRetryCount
             /\ reconnectAttempts' = reconnectAttempts + 1
      BY <1>15 DEF ListenerReconnects
    <3> QED
      BY <3>1, RetryAssumption DEF TypeOK
  <2>4. toClient' \in [Sockets -> Seq(Frames)]
    <3>1. <<>> \in Seq(Frames)
      OBVIOUS
    <3>2. toClient \in [Sockets -> Seq(Frames)]
      BY DEF TypeOK
    <3> QED
      BY <2>1, <3>1, <3>2, Zenon
  <2>5. /\ transport' \in [Sockets -> {"none", "ready", "broken"}]
        /\ readyState' \in [Sockets -> ReadyStates]
        /\ server' \in [Sockets -> {"idle", "greeted", "waiting", "login", "success", "refused"}]
    BY <2>1 DEF TypeOK, ReadyStates
  <2> QED
    BY <1>15, <2>1, <2>2, <2>3, <2>4, <2>5 DEF ListenerReconnects, TypeOK, loop
<1>16. CASE FailureReconnects
  <2>1. PICK f \in Sockets :
          /\ ws' = f
          /\ transport' = [transport EXCEPT ![f] = "none"]
          /\ readyState' = [readyState EXCEPT ![f] = "CLOSING"]
          /\ toClient' = [toClient EXCEPT ![f] = <<>>]
          /\ server' = [server EXCEPT ![f] = "idle"]
    BY <1>16 DEF FailureReconnects
  <2>2. /\ inBuffer' \in Seq(Frames)
        /\ decoder' \in Sockets \cup {NoSocket}
        /\ origin' \in Sockets \cup {NoSocket}
    BY <1>16, NextFrameType DEF FailureReconnects, Receive
  <2>3. toClient' \in [Sockets -> Seq(Frames)]
    BY <2>1 DEF TypeOK
  <2>4. /\ transport' \in [Sockets -> {"none", "ready", "broken"}]
        /\ readyState' \in [Sockets -> ReadyStates]
        /\ server' \in [Sockets -> {"idle", "greeted", "waiting", "login", "success", "refused"}]
    BY <2>1 DEF TypeOK, ReadyStates
  <2> QED
    BY <1>16, <2>1, <2>2, <2>3, <2>4 DEF FailureReconnects, TypeOK, Status, Reasons
<1>18. ASSUME NEW s \in Sockets, GivingUpReconnects(s) PROVE TypeOK'
  <2>1. PICK f \in Sockets, g \in Sockets :
          /\ ws' = f
          /\ noise' = f
          /\ transport' = [t \in Sockets |-> IF t \in {f, g} THEN "none" ELSE transport[t]]
          /\ readyState' = [t \in Sockets |-> IF t \in {f, g} THEN "CONNECTING"
                                              ELSE IF t = s THEN "CLOSED" ELSE readyState[t]]
          /\ toClient' = [t \in Sockets |-> IF t \in {f, g, s} THEN <<>> ELSE toClient[t]]
          /\ server' = [t \in Sockets |-> IF t \in {f, g, s} THEN "idle" ELSE server[t]]
    BY <1>18 DEF GivingUpReconnects
  <2>2. toClient' \in [Sockets -> Seq(Frames)]
    <3>1. <<>> \in Seq(Frames)
      OBVIOUS
    <3> QED
      BY <2>1, <3>1 DEF TypeOK
  <2>3. /\ transport' \in [Sockets -> {"none", "ready", "broken"}]
        /\ readyState' \in [Sockets -> ReadyStates]
        /\ server' \in [Sockets -> {"idle", "greeted", "waiting", "login", "success", "refused"}]
    BY <2>1 DEF TypeOK, ReadyStates
  <2> QED
    BY <1>18, <2>1, <2>2, <2>3 DEF GivingUpReconnects, TypeOK, loop, Status
<1>17. CASE UNCHANGED vars
  BY <1>17 DEF TypeOK, vars, connection, timers, current, loop, network
<1> QED
  BY <1>1, <1>2, <1>3, <1>4, <1>5, <1>6, <1>7, <1>8, <1>9, <1>10, <1>11, <1>12,
     <1>13, <1>14, <1>15, <1>16, <1>17, <1>18 DEF Next, FrameLoop

\* The initial state is well typed.
LEMMA InitType == Init => TypeOK
<1> SUFFICES ASSUME Init PROVE TypeOK
  OBVIOUS
<1>1. toClient \in [Sockets -> Seq(Frames)] /\ inBuffer \in Seq(Frames)
  BY DEF Init
<1>2. 0 \in 0 .. maxRetryCount /\ 0 \in 0 .. MaxLeakedTimers
  BY RetryAssumption, BoundAssumption
<1>3. /\ transport \in [Sockets -> {"none", "ready", "broken"}]
      /\ readyState \in [Sockets -> ReadyStates]
      /\ server \in [Sockets -> {"idle", "greeted", "waiting", "login", "success", "refused"}]
  BY DEF Init, ReadyStates
<1> QED
  BY <1>1, <1>2, <1>3 DEF Init, TypeOK, Status

\* Every variable stays in its type, whatever the application does.
THEOREM TypeCorrect == Spec => []TypeOK
BY InitType, TypeStep, PTL DEF Spec

-----------------------------------------------------------------------------
(* The reason for "closed", under any application.                          *)

\* A step keeps the reason for "closed", or leaves "closed".
LEMMA ReasonStep == ClosedForAReason /\ [Next]_vars => ClosedForAReason'
<1> SUFFICES ASSUME ClosedForAReason, [Next]_vars PROVE ClosedForAReason'
  OBVIOUS
<1>1. ASSUME NEW s \in Sockets, Connect(s) PROVE ClosedForAReason'
  BY <1>1 DEF Connect, ClosedForAReason
<1>2. ASSUME NEW rs, NEW r, DisconnectFrom(rs, r) PROVE ClosedForAReason'
  BY <1>2 DEF DisconnectFrom, ClosedForAReason
<1>3. ASSUME UNCHANGED <<connection, ws>> PROVE ClosedForAReason'
  BY <1>3 DEF ClosedForAReason, connection
<1>4. ASSUME SetOpen PROVE ClosedForAReason'
  BY <1>4 DEF SetOpen, ClosedForAReason
<1>5. CASE UserConnect \/ TimerFires \/ LeakedTimerFires
  BY <1>1, <1>5 DEF UserConnect, TimerFires, LeakedTimerFires
<1>6. CASE UserDisconnect \/ HandleFailure \/ HandleStreamError
  BY <1>2, <1>6 DEF UserDisconnect, HandleFailure, HandleStreamError, Disconnect
<1>7. CASE HandshakeFrame
  BY <1>2, <1>3, <1>7 DEF HandshakeFrame, Disconnect, current
<1>8. CASE UndecryptableFrame
  BY <1>3, <1>8 DEF UndecryptableFrame, current
<1>9. CASE HandleSuccess
  BY <1>3, <1>4, <1>9 DEF HandleSuccess, current
<1>10. CASE FailureReconnects
  BY <1>10 DEF FailureReconnects, ClosedForAReason
<1>11. ASSUME NEW s \in Sockets, SocketOpens(s) PROVE ClosedForAReason'
  BY <1>2, <1>3, <1>11 DEF SocketOpens, current
<1>12. ASSUME NEW s \in Sockets, SocketCloses(s) PROVE ClosedForAReason'
  BY <1>12 DEF SocketCloses, HandleClose, ScheduleReconnect, ClosedForAReason, current
<1>13. ASSUME NEW s \in Sockets, ListenerReconnects(s) \/ GivingUpReconnects(s)
       PROVE  ClosedForAReason'
  BY <1>13 DEF ListenerReconnects, GivingUpReconnects, ClosedForAReason
<1>14. ASSUME NEW s \in Sockets, MessageArrives(s) PROVE ClosedForAReason'
  BY <1>3, <1>14 DEF MessageArrives, current
<1>15. ASSUME NEW s \in Sockets, PresenceSent(s) PROVE ClosedForAReason'
  BY <1>4, <1>15 DEF PresenceSent
<1>16. ASSUME NEW s \in Sockets, ServerSends(s) PROVE ClosedForAReason'
  BY <1>3, <1>16 DEF ServerSends, current
<1>17. CASE UNCHANGED vars
  BY <1>3, <1>17 DEF vars, current
<1> QED
  BY <1>5, <1>6, <1>7, <1>8, <1>9, <1>10, <1>11, <1>12, <1>13, <1>14, <1>15, <1>16,
     <1>17 DEF Next, FrameLoop

\* Whatever the application calls, and wherever, the engine rests in "closed" with
\* a used connection only when the session is over or the retries are used up.
THEOREM ClosesForAReason == Spec => []ClosedForAReason
<1>1. Init => ClosedForAReason
  BY DEF Init, ClosedForAReason
<1> QED
  BY <1>1, ReasonStep, PTL DEF Spec

-----------------------------------------------------------------------------
(* An application that calls connect() only when the engine has no socket,  *)
(* and not from a listener that runs within the turn of the engine.         *)

ConnectsWhenDown == ConnectIn \subseteq {"closed", "reconnecting"} /\ ~ConnectsOnClosed

AllClosed == \A s \in Sockets : readyState[s] = "CLOSED"

Live(s) == s \in Sockets /\ readyState[s] # "CLOSED"

\* The engine has let go of its socket whenever connect() can be called: by the
\* application in "closed" and "reconnecting", by a timer that is running.
ConnectsFromRest ==
    /\ status \in {"closed", "reconnecting"} => AllClosed
    /\ reconnectTimer => AllClosed
    /\ leakedTimers = 0

\* The Noise handler, the presence node that is awaited and the running frame
\* loop all belong to the current socket, which has not closed under them.
BelongsToCurrent ==
    /\ noise \in {ws, NoSocket}
    /\ announcing # {} => announcing = {ws} /\ Live(ws) /\ handshakeComplete
    /\ ~Idle => decoder = ws /\ origin = ws /\ Live(ws)

\* The flag of the engine agrees with the keys of the current Noise handler.
FlagAgrees ==
    /\ NoDesync
    /\ ws # NoSocket /\ transport[ws] = "ready" => handshakeComplete

\* The inductive invariant.
IInv ==
    /\ TypeOK
    /\ SingleLiveSocket
    /\ ConnectsFromRest
    /\ BelongsToCurrent
    /\ FlagAgrees
    /\ OpenHasConnection

\* connect() from rest.
LEMMA ConnectInv ==
  ASSUME IInv, TypeOK', Idle, AllClosed, NEW s \in Sockets, Connect(s),
         reconnectTimer' = FALSE, leakedTimers' = 0
  PROVE  IInv'
<1>1. SingleLiveSocket' /\ ws' = s /\ noise' = s
  BY DEF SingleLiveSocket, AllClosed, Connect, TypeOK
<1>2. announcing' = {} /\ Idle'
  BY DEF IInv, BelongsToCurrent, AllClosed, Live, Connect, Idle, loop
<1>3. FlagAgrees'
  BY <1>1 DEF IInv, FlagAgrees, NoDesync, Connect, TypeOK
<1>4. status' = "connecting"
  BY DEF Connect
<1> QED
  BY <1>1, <1>2, <1>3, <1>4
  DEF IInv, ConnectsFromRest, BelongsToCurrent, OpenHasConnection

\* A step that closes no socket, and takes no name from the invariant, keeps what
\* the invariant says of sockets and timers.
LEMMA SocketsInv ==
  ASSUME IInv, ws' = ws, UNCHANGED timers,
         \A s \in Sockets : (readyState'[s] = "CLOSED") <=> (readyState[s] = "CLOSED"),
         status' \notin {"closed", "reconnecting"} \/ status' = status
  PROVE  /\ SingleLiveSocket'
         /\ ConnectsFromRest'
         /\ Live(ws) => Live(ws)'
BY DEF IInv, SingleLiveSocket, ConnectsFromRest, AllClosed, Live, timers

\* disconnect(), in any step that leaves the loop to its decoder.
LEMMA DisconnectInv ==
  ASSUME IInv, TypeOK', NEW rs \in [Sockets -> ReadyStates],
         \A s \in Sockets : (rs[s] = "CLOSED") <=> (readyState[s] = "CLOSED"),
         NEW r, DisconnectFrom(rs, r), announcing' = announcing,
         ~Idle' => ~Idle /\ decoder' = decoder /\ origin' = origin
  PROVE  IInv'
<1>1. ws \in Sockets \cup {NoSocket}
  BY DEF IInv, TypeOK
<1>2. \A s \in Sockets : (readyState'[s] = "CLOSED") <=> (readyState[s] = "CLOSED")
  BY <1>1, WSCloseType DEF DisconnectFrom
<1>3. /\ status' = "closing" /\ ws' = ws /\ noise' = NoSocket
      /\ UNCHANGED <<timers, handshakeComplete, transport>>
  BY DEF DisconnectFrom
<1>4. SingleLiveSocket' /\ ConnectsFromRest' /\ (Live(ws) => Live(ws)')
  BY <1>2, <1>3, SocketsInv
<1>5. BelongsToCurrent'
  BY <1>3, <1>4 DEF IInv, BelongsToCurrent
<1>6. FlagAgrees'
  BY <1>3 DEF IInv, FlagAgrees, NoDesync
<1> QED
  BY <1>3, <1>4, <1>5, <1>6 DEF IInv, OpenHasConnection

\* A step of the frame loop leaves the loop to its decoder.
LEMMA LoopInv ==
  ASSUME TypeOK, ~Idle, NextFrame
  PROVE  ~Idle' => ~Idle /\ decoder' = decoder /\ origin' = origin
BY NextFrameType DEF Idle

\* The one live socket is the current one.
LEMMA LiveIsCurrent ==
  ASSUME IInv, NEW s \in Sockets, readyState[s] # "CLOSED"
  PROVE  s = ws /\ ~reconnectTimer /\ status \notin {"closed", "reconnecting"}
BY DEF IInv, SingleLiveSocket, ConnectsFromRest, AllClosed

\* Every step of a disciplined application's engine keeps the invariant.
LEMMA InvStep == ConnectsWhenDown /\ IInv /\ [Next]_vars => IInv'
<1> SUFFICES ASSUME ConnectsWhenDown, IInv, [Next]_vars PROVE IInv'
  OBVIOUS
<1>0. TypeOK /\ TypeOK'
  BY TypeStep DEF IInv
<1>1. CASE UserConnect
  <2>1. AllClosed /\ leakedTimers = 0
    BY <1>1 DEF UserConnect, ConnectsWhenDown, IInv, ConnectsFromRest
  <2> QED
    BY <1>0, <1>1, <2>1, ConnectInv DEF UserConnect
<1>2. CASE UserDisconnect
  <2>1. PICK r \in Reasons : DisconnectFrom(readyState, r)
    BY <1>2, ApplicationAssumption DEF UserDisconnect, Disconnect
  <2>2. readyState \in [Sockets -> ReadyStates]
    BY <1>0 DEF TypeOK
  <2> QED
    BY <1>0, <1>2, <2>1, <2>2, DisconnectInv DEF UserDisconnect, loop, Idle
<1>3. CASE TimerFires
  <2>1. AllClosed /\ leakedTimers = 0
    BY <1>3 DEF TimerFires, IInv, ConnectsFromRest
  <2> QED
    BY <1>0, <1>3, <2>1, ConnectInv DEF TimerFires
<1>4. CASE LeakedTimerFires
  BY <1>4 DEF LeakedTimerFires, IInv, ConnectsFromRest
<1>5. CASE HandshakeFrame
  <2>1. ~Idle /\ NextFrame /\ announcing' = announcing
    BY <1>5 DEF HandshakeFrame
  <2>2. decoder = ws /\ origin = ws /\ Live(ws)
    BY <2>1 DEF IInv, BelongsToCurrent
  <2>3. ~Idle' => ~Idle /\ decoder' = decoder /\ origin' = origin
    BY <1>0, <2>1, LoopInv
  <2>4. CASE handshakeComplete
    <3>1. UNCHANGED <<connection, timers, current, transport, readyState, announcing>>
      BY <1>5, <2>4 DEF HandshakeFrame
    <3>2. SingleLiveSocket' /\ ConnectsFromRest' /\ (Live(ws) => Live(ws)')
      BY <3>1, SocketsInv DEF connection, current
    <3>3. BelongsToCurrent'
      BY <2>3, <3>1, <3>2 DEF IInv, BelongsToCurrent, current
    <3> QED
      BY <1>0, <3>1, <3>2, <3>3
      DEF IInv, FlagAgrees, NoDesync, OpenHasConnection, connection, current
  <2>5. CASE ~handshakeComplete /\ frame = "hello" /\ origin = decoder /\ noise = decoder
    <3>1. /\ transport' = [transport EXCEPT ![noise] = "ready"]
          /\ handshakeComplete' = TRUE
          /\ UNCHANGED <<connection, timers, ws, noise, readyState, announcing>>
      BY <1>5, <2>5 DEF HandshakeFrame
    <3>2. SingleLiveSocket' /\ ConnectsFromRest' /\ (Live(ws) => Live(ws)')
      BY <3>1, SocketsInv DEF connection
    <3>3. BelongsToCurrent'
      BY <2>3, <3>1, <3>2 DEF IInv, BelongsToCurrent
    <3>4. FlagAgrees'
      BY <1>0, <3>1 DEF IInv, FlagAgrees, NoDesync, TypeOK
    <3> QED
      BY <1>0, <3>1, <3>2, <3>3, <3>4 DEF IInv, OpenHasConnection, connection
  <2>6. CASE ~handshakeComplete /\ ~(frame = "hello" /\ origin = decoder /\ noise = decoder)
    <3>1. DisconnectFrom(readyState, "BadSession")
      BY <1>5, <2>6 DEF HandshakeFrame, Disconnect
    <3>2. readyState \in [Sockets -> ReadyStates]
      BY <1>0 DEF TypeOK
    <3> QED
      BY <1>0, <2>1, <2>3, <3>1, <3>2, DisconnectInv
  <2> QED
    BY <2>4, <2>5, <2>6
<1>6. CASE UndecryptableFrame
  <2>1. ~Idle /\ (transport[decoder] = "broken" \/ origin # decoder)
    BY <1>6 DEF UndecryptableFrame
  <2> QED
    BY <2>1 DEF IInv, BelongsToCurrent, FlagAgrees, NoDesync, Live
<1>7. CASE HandleSuccess
  <2>1. /\ ~Idle /\ NextFrame /\ transport[decoder] = "ready"
        /\ UNCHANGED <<timers, current, network, transport>>
    BY <1>7 DEF HandleSuccess, Receive
  <2>2. decoder = ws /\ origin = ws /\ Live(ws)
    BY <2>1 DEF IInv, BelongsToCurrent
  <2>3. ~Idle' => ~Idle /\ decoder' = decoder /\ origin' = origin
    BY <1>0, <2>1, LoopInv
  <2>4. handshakeComplete /\ ws # NoSocket
    BY <2>1, <2>2, NoSocketAssumption DEF IInv, FlagAgrees, Live
  <2>5. /\ announcing' \in {announcing, announcing \cup {ws}}
        /\ status' \in {status, "open"}
    BY <1>7 DEF HandleSuccess, SetOpen, connection
  <2>6. SingleLiveSocket' /\ ConnectsFromRest' /\ (Live(ws) => Live(ws)')
    BY <2>1, <2>5, SocketsInv DEF current, network
  <2>7. BelongsToCurrent'
    BY <2>1, <2>2, <2>3, <2>4, <2>5, <2>6 DEF IInv, BelongsToCurrent, current
  <2> QED
    BY <1>0, <2>1, <2>2, <2>4, <2>6, <2>7
    DEF IInv, FlagAgrees, NoDesync, OpenHasConnection, Live, current, network
<1>8. CASE HandleFailure
  <2>1. PICK r \in Reasons : DisconnectFrom(readyState, r)
    BY <1>8 DEF HandleFailure, Disconnect, Reasons
  <2>2. ~Idle /\ NextFrame /\ announcing' = announcing
    BY <1>8 DEF HandleFailure, Receive
  <2>3. readyState \in [Sockets -> ReadyStates]
    BY <1>0 DEF TypeOK
  <2> QED
    BY <1>0, <2>1, <2>2, <2>3, DisconnectInv, LoopInv
<1>9. CASE HandleStreamError
  <2>1. PICK r \in Reasons : DisconnectFrom(readyState, r)
    BY <1>9 DEF HandleStreamError, Disconnect, Reasons
  <2>2. ~Idle /\ NextFrame /\ announcing' = announcing
    BY <1>9 DEF HandleStreamError, Receive
  <2>3. readyState \in [Sockets -> ReadyStates]
    BY <1>0 DEF TypeOK
  <2> QED
    BY <1>0, <2>1, <2>2, <2>3, DisconnectInv, LoopInv
<1>10. ASSUME NEW s \in Sockets, SocketOpens(s) PROVE IInv'
  <2> DEFINE opened == [readyState EXCEPT ![s] = "OPEN"]
  <2>1. /\ opened \in [Sockets -> ReadyStates]
        /\ \A t \in Sockets : (opened[t] = "CLOSED") <=> (readyState[t] = "CLOSED")
    BY <1>0, <1>10 DEF SocketOpens, TypeOK, ReadyStates
  <2>2. CASE noise # NoSocket /\ opened[ws] = "OPEN"
    <3>1. readyState' = opened
          /\ UNCHANGED <<connection, timers, current, transport, announcing, loop>>
      BY <1>10, <2>2 DEF SocketOpens
    <3>2. SingleLiveSocket' /\ ConnectsFromRest' /\ (Live(ws) => Live(ws)')
      BY <2>1, <3>1, SocketsInv DEF connection, current
    <3>3. BelongsToCurrent'
      BY <3>1, <3>2 DEF IInv, BelongsToCurrent, current, loop, Idle
    <3>4. FlagAgrees' /\ OpenHasConnection'
      BY <1>0, <2>1, <3>1
      DEF IInv, FlagAgrees, NoDesync, OpenHasConnection, TypeOK, connection, current
    <3> QED
      BY <1>0, <3>2, <3>3, <3>4 DEF IInv
  <2>3. CASE ~(noise # NoSocket /\ opened[ws] = "OPEN")
    BY <1>0, <1>10, <2>1, <2>3, DisconnectInv DEF SocketOpens, loop, Idle
  <2> QED
    BY <2>2, <2>3
<1>11. ASSUME NEW s \in Sockets, SocketCloses(s) PROVE IInv'
  <2>1. s = ws /\ ~reconnectTimer
    BY <1>11, LiveIsCurrent DEF SocketCloses
  <2>2. /\ readyState' = [readyState EXCEPT ![s] = "CLOSED"]
        /\ announcing' = announcing \ {s}
        /\ UNCHANGED <<current, transport, loop>>
        /\ Idle
    BY <1>11 DEF SocketCloses, HandleClose
  <2>3. AllClosed'
    BY <1>0, <2>1, <2>2 DEF IInv, SingleLiveSocket, AllClosed, TypeOK
  <2>4. status' \in {"closed", "reconnecting"} /\ leakedTimers' = leakedTimers
    BY <1>11, <2>1 DEF SocketCloses, HandleClose, ScheduleReconnect, timers
  <2>5. announcing' = {}
    BY <2>1, <2>2 DEF IInv, BelongsToCurrent
  <2>6. SingleLiveSocket' /\ ConnectsFromRest'
    BY <2>3, <2>4 DEF IInv, SingleLiveSocket, ConnectsFromRest, AllClosed
  <2>7. BelongsToCurrent'
    BY <2>2, <2>5 DEF IInv, BelongsToCurrent, current, loop, Idle
  <2> QED
    BY <1>0, <2>2, <2>4, <2>6, <2>7
    DEF IInv, FlagAgrees, NoDesync, OpenHasConnection, current
<1>12. ASSUME NEW s \in Sockets, MessageArrives(s) PROVE IInv'
  <2>1. s = ws /\ Live(ws)
    BY <1>12, LiveIsCurrent DEF MessageArrives, Live
  <2>2. /\ UNCHANGED <<connection, timers, current, transport, readyState, announcing>>
        /\ Idle
        /\ IF noise = NoSocket
           THEN UNCHANGED loop
           ELSE decoder' = noise /\ origin' = s
    BY <1>12 DEF MessageArrives
  <2>3. SingleLiveSocket' /\ ConnectsFromRest' /\ (Live(ws) => Live(ws)')
    BY <2>2, SocketsInv DEF connection, current
  <2>4. BelongsToCurrent'
    BY <2>1, <2>2, <2>3 DEF IInv, BelongsToCurrent, current, loop, Idle
  <2> QED
    BY <1>0, <2>2, <2>3, <2>4
    DEF IInv, FlagAgrees, NoDesync, OpenHasConnection, connection, current
<1>13. ASSUME NEW s \in Sockets, PresenceSent(s) PROVE IInv'
  <2>1. /\ s \in announcing /\ announcing' = announcing \ {s} /\ status' = "open"
        /\ UNCHANGED <<timers, current, loop, network, transport>>
    BY <1>13 DEF PresenceSent, SetOpen
  <2>2. announcing' = {} /\ Live(ws) /\ handshakeComplete
    BY <2>1 DEF IInv, BelongsToCurrent
  <2>3. SingleLiveSocket' /\ ConnectsFromRest' /\ (Live(ws) => Live(ws)')
    BY <2>1, SocketsInv DEF current, network
  <2>4. BelongsToCurrent'
    BY <2>1, <2>2, <2>3 DEF IInv, BelongsToCurrent, current, loop, Idle
  <2> QED
    BY <1>0, <2>1, <2>2, <2>3, <2>4, NoSocketAssumption
    DEF IInv, FlagAgrees, NoDesync, OpenHasConnection, Live, current, network
<1>14. ASSUME NEW s \in Sockets, ServerSends(s) PROVE IInv'
  <2>1. UNCHANGED <<connection, timers, current, loop, readyState, transport, announcing>>
    BY <1>14 DEF ServerSends
  <2>2. SingleLiveSocket' /\ ConnectsFromRest' /\ (Live(ws) => Live(ws)')
    BY <2>1, SocketsInv DEF connection, current
  <2>3. BelongsToCurrent'
    BY <2>1, <2>2 DEF IInv, BelongsToCurrent, current, loop, Idle
  <2> QED
    BY <1>0, <2>1, <2>2, <2>3
    DEF IInv, FlagAgrees, NoDesync, OpenHasConnection, connection, current
<1>15. ASSUME NEW s \in Sockets, ListenerReconnects(s) \/ GivingUpReconnects(s) PROVE IInv'
  BY <1>15 DEF ListenerReconnects, GivingUpReconnects, ConnectsWhenDown
<1>16. CASE FailureReconnects
  BY <1>16 DEF FailureReconnects, ConnectsWhenDown
<1>17. CASE UNCHANGED vars
  <2>1. UNCHANGED <<connection, timers, current, loop, readyState, transport, announcing>>
    BY <1>17 DEF vars, network
  <2>2. SingleLiveSocket' /\ ConnectsFromRest' /\ (Live(ws) => Live(ws)')
    BY <2>1, SocketsInv DEF connection, current
  <2>3. BelongsToCurrent'
    BY <2>1, <2>2 DEF IInv, BelongsToCurrent, current, loop, Idle
  <2> QED
    BY <1>0, <2>1, <2>2, <2>3
    DEF IInv, FlagAgrees, NoDesync, OpenHasConnection, connection, current
<1> QED
  BY <1>1, <1>2, <1>3, <1>4, <1>5, <1>6, <1>7, <1>8, <1>9, <1>10, <1>11, <1>12,
     <1>13, <1>14, <1>15, <1>16, <1>17 DEF Next, FrameLoop

\* The invariant holds of every behaviour of a disciplined application's engine.
LEMMA Invariance ==
  ASSUME ConnectsWhenDown
  PROVE  Spec => []IInv
<1>1. Init => IInv
  <2> SUFFICES ASSUME Init PROVE IInv
    OBVIOUS
  <2>1. TypeOK
    BY InitType
  <2> QED
    BY <2>1
    DEF Init, IInv, SingleLiveSocket, ConnectsFromRest, AllClosed, BelongsToCurrent,
        Idle, FlagAgrees, NoDesync, OpenHasConnection
<1>2. IInv /\ [Next]_vars => IInv'
  BY InvStep
<1> QED
  BY <1>1, <1>2, PTL DEF Spec

\* An application that connects only when the engine is down never has two live
\* sockets, however connections fail, are refused, time out or are disconnected.
THEOREM OneSocket ==
  ASSUME ConnectsWhenDown
  PROVE  Spec => []SingleLiveSocket
<1>1. IInv => SingleLiveSocket
  BY DEF IInv
<1> QED
  BY <1>1, Invariance, PTL

\* No reconnect timer outlives the connection it was started for, and none is lost.
THEOREM TimersAreOwned ==
  ASSUME ConnectsWhenDown
  PROVE  Spec => []TimerOnlyWhenDown
<1>1. IInv => TimerOnlyWhenDown
  BY DEF IInv, ConnectsFromRest, TimerOnlyWhenDown, AllClosed
<1> QED
  BY <1>1, Invariance, PTL

\* No frame is decrypted with another connection's keys.
THEOREM CountersStayInStep ==
  ASSUME ConnectsWhenDown
  PROVE  Spec => []NoDesync
<1>1. IInv => NoDesync
  BY DEF IInv, FlagAgrees
<1> QED
  BY <1>1, Invariance, PTL

\* "open" is only ever reported over a connection that has finished its handshake.
THEOREM OpenIsConnected ==
  ASSUME ConnectsWhenDown
  PROVE  Spec => []OpenHasConnection
<1>1. IInv => OpenHasConnection
  BY DEF IInv
<1> QED
  BY <1>1, Invariance, PTL

\* The retries are given back only by a login whose handshake is done.
THEOREM BudgetIsEarned ==
  ASSUME ConnectsWhenDown
  PROVE  Spec => BudgetRestoredByLogin
<1> DEFINE Earned == reconnectAttempts' < reconnectAttempts => status' = "open" /\ handshakeComplete
<1>1. IInv /\ [Next]_vars => [Earned]_vars
  <2> SUFFICES ASSUME IInv, [Next]_vars PROVE Earned \/ UNCHANGED vars
    OBVIOUS
  <2>1. reconnectAttempts \in Nat
    BY RetryAssumption DEF IInv, TypeOK
  <2>2. ASSUME reconnectAttempts' \in {reconnectAttempts, reconnectAttempts + 1} PROVE Earned
    BY <2>1, <2>2
  <2>3. CASE UserConnect \/ TimerFires \/ LeakedTimerFires
    BY <2>2, <2>3 DEF UserConnect, TimerFires, LeakedTimerFires, Connect
  <2>4. CASE UserDisconnect \/ HandleFailure \/ HandleStreamError
    BY <2>2, <2>4
    DEF UserDisconnect, HandleFailure, HandleStreamError, Disconnect, DisconnectFrom
  <2>5. CASE HandshakeFrame \/ UndecryptableFrame \/ FailureReconnects
    BY <2>2, <2>5
    DEF HandshakeFrame, UndecryptableFrame, FailureReconnects, Disconnect, DisconnectFrom,
        connection
  <2>6. CASE HandleSuccess
    <3>1. handshakeComplete
      BY <2>6, NoSocketAssumption
      DEF HandleSuccess, Receive, IInv, BelongsToCurrent, FlagAgrees, Live
    <3> QED
      BY <2>2, <2>6, <3>1 DEF HandleSuccess, SetOpen, connection
  <2>7. ASSUME NEW s \in Sockets, SocketOpens(s) PROVE Earned
    BY <2>2, <2>7 DEF SocketOpens, DisconnectFrom, connection
  <2>8. ASSUME NEW s \in Sockets,
               SocketCloses(s) \/ ListenerReconnects(s) \/ GivingUpReconnects(s)
        PROVE  Earned
    BY <2>2, <2>8 DEF SocketCloses, HandleClose, ScheduleReconnect, ListenerReconnects,
                      GivingUpReconnects
  <2>9. ASSUME NEW s \in Sockets, MessageArrives(s) \/ ServerSends(s) PROVE Earned
    BY <2>2, <2>9 DEF MessageArrives, ServerSends, connection
  <2>10. ASSUME NEW s \in Sockets, PresenceSent(s) PROVE Earned
    BY <2>10 DEF PresenceSent, SetOpen, IInv, BelongsToCurrent
  <2> QED
    BY <2>3, <2>4, <2>5, <2>6, <2>7, <2>8, <2>9, <2>10 DEF Next, FrameLoop
<1> QED
  BY <1>1, Invariance, PTL DEF Spec, BudgetRestoredByLogin

-----------------------------------------------------------------------------
(* Refinement: what the user sees is a behaviour of Connection.             *)

Up == \E s \in Sockets : readyState[s] # "CLOSED"

\* The variables of Connection, as Engine has them.
seen == Client!vars

\* A step that changes neither what is reported nor whether there is a live socket
\* is not seen.
LEMMA Unseen ==
  ASSUME UNCHANGED <<connection, reconnectTimer>>,
         \A s \in Sockets : (readyState'[s] = "CLOSED") <=> (readyState[s] = "CLOSED")
  PROVE  UNCHANGED seen
BY DEF seen, Client!vars, connection

\* connect() from rest is Connect.
LEMMA ConnectIsSeen ==
  ASSUME TypeOK, AllClosed, NEW s \in Sockets, Connect(s), reconnectTimer' = FALSE
  PROVE  Client!Connect
<1>1. readyState'[s] = "CONNECTING"
  BY DEF Connect, TypeOK
<1>2. ~Up /\ Up'
  BY <1>1 DEF Up, AllClosed
<1> QED
  BY <1>2 DEF Client!Connect, Connect, Up

\* disconnect() is Disconnect: of a live socket, or by the user.
LEMMA DisconnectIsSeen ==
  ASSUME TypeOK, NEW rs \in [Sockets -> ReadyStates],
         \A s \in Sockets : (rs[s] = "CLOSED") <=> (readyState[s] = "CLOSED"),
         NEW r \in Reasons, DisconnectFrom(rs, r), Up \/ r \in UserReasons
  PROVE  Client!Next
<1>1. ws \in Sockets \cup {NoSocket}
  BY DEF TypeOK
<1>2. \A s \in Sockets : (readyState'[s] = "CLOSED") <=> (readyState[s] = "CLOSED")
  BY <1>1, WSCloseType DEF DisconnectFrom
<1>3. Up' = Up
  BY <1>2 DEF Up
<1>4. Client!Disconnect(r)
  BY <1>3 DEF Client!Disconnect, DisconnectFrom, Up, timers
<1> QED
  BY <1>4 DEF Client!Next

\* A login over a live socket is LoggedIn.
LEMMA LoginIsSeen ==
  ASSUME Up, SetOpen, UNCHANGED <<reconnectTimer, readyState>>
  PROVE  Client!LoggedIn
BY DEF Client!LoggedIn, SetOpen, Up

\* Every step of the engine is one of Connection's or not seen.
LEMMA ConnectionStep ==
  ASSUME ConnectsWhenDown, IInv, [Next]_vars
  PROVE  Client!Next \/ UNCHANGED seen
<1>0. TypeOK /\ readyState \in [Sockets -> ReadyStates]
  BY DEF IInv, TypeOK
<1>1. CASE UserConnect
  <2>1. PICK s \in Sockets : Connect(s)
    BY <1>1 DEF UserConnect
  <2>2. AllClosed /\ status \in ConnectIn /\ reconnectTimer' = FALSE
    BY <1>1 DEF UserConnect, ConnectsWhenDown, IInv, ConnectsFromRest
  <2>3. Client!UserConnects
    BY <1>0, <2>1, <2>2, ConnectIsSeen DEF Client!UserConnects
  <2> QED
    BY <2>3 DEF Client!Next
<1>2. CASE UserDisconnect
  <2>1. PICK r \in UserReasons : DisconnectFrom(readyState, r)
    BY <1>2 DEF UserDisconnect, Disconnect
  <2>2. r \in Reasons
    BY ApplicationAssumption
  <2> QED
    BY <1>0, <2>1, <2>2, DisconnectIsSeen
<1>3. CASE TimerFires
  <2>1. PICK s \in Sockets : Connect(s)
    BY <1>3 DEF TimerFires
  <2>2. AllClosed /\ reconnectTimer /\ reconnectTimer' = FALSE
    BY <1>3 DEF TimerFires, IInv, ConnectsFromRest
  <2>3. Client!Reconnects
    BY <1>0, <2>1, <2>2, ConnectIsSeen DEF Client!Reconnects
  <2> QED
    BY <2>3 DEF Client!Next
<1>4. CASE LeakedTimerFires
  BY <1>4 DEF LeakedTimerFires, IInv, ConnectsFromRest
<1>5. ASSUME ~Idle PROVE Up
  BY <1>5 DEF IInv, BelongsToCurrent, Live, Up
<1>6. CASE HandshakeFrame
  <2>1. Up
    BY <1>5, <1>6 DEF HandshakeFrame
  <2>2. CASE UNCHANGED <<connection, timers, readyState>>
    BY <2>2, Unseen DEF timers
  <2>3. CASE DisconnectFrom(readyState, "BadSession")
    BY <1>0, <2>1, <2>3, DisconnectIsSeen DEF Reasons
  <2> QED
    BY <1>6, <2>2, <2>3 DEF HandshakeFrame, Disconnect
<1>7. CASE UndecryptableFrame \/ \E s \in Sockets : MessageArrives(s) \/ ServerSends(s)
  BY <1>7, Unseen DEF UndecryptableFrame, MessageArrives, ServerSends, timers, network
<1>8. CASE HandleSuccess
  <2>1. UNCHANGED <<timers, readyState>> /\ Up
    BY <1>5, <1>8 DEF HandleSuccess, Receive, network
  <2>2. CASE SetOpen
    BY <2>1, <2>2, LoginIsSeen DEF Client!Next, timers
  <2>3. CASE UNCHANGED connection
    BY <2>1, <2>3, Unseen DEF timers
  <2> QED
    BY <1>8, <2>2, <2>3 DEF HandleSuccess
<1>9. CASE HandleFailure \/ HandleStreamError
  <2>1. PICK r \in Reasons : DisconnectFrom(readyState, r)
    BY <1>9 DEF HandleFailure, HandleStreamError, Disconnect, Reasons
  <2>2. Up
    BY <1>5, <1>9 DEF HandleFailure, HandleStreamError, Receive
  <2> QED
    BY <1>0, <2>1, <2>2, DisconnectIsSeen
<1>10. ASSUME NEW s \in Sockets, SocketOpens(s) PROVE Client!Next \/ UNCHANGED seen
  <2> DEFINE opened == [readyState EXCEPT ![s] = "OPEN"]
  <2>1. /\ opened \in [Sockets -> ReadyStates]
        /\ \A t \in Sockets : (opened[t] = "CLOSED") <=> (readyState[t] = "CLOSED")
        /\ Up
    BY <1>0, <1>10 DEF SocketOpens, ReadyStates, Up
  <2>2. CASE readyState' = opened /\ UNCHANGED <<connection, timers>>
    BY <2>1, <2>2, Unseen DEF timers
  <2>3. CASE DisconnectFrom(opened, "ConnectionClosed")
    BY <1>0, <2>1, <2>3, DisconnectIsSeen DEF Reasons
  <2> QED
    BY <1>10, <2>2, <2>3 DEF SocketOpens
<1>11. ASSUME NEW s \in Sockets, SocketCloses(s) PROVE Client!Next
  <2>1. s = ws /\ ~reconnectTimer
    BY <1>11, LiveIsCurrent DEF SocketCloses
  <2>2. Up /\ ~Up'
    BY <1>0, <1>11, <2>1 DEF SocketCloses, IInv, SingleLiveSocket, Up
  <2>3. UNCHANGED lastDisconnectReason
    BY <1>11 DEF SocketCloses, HandleClose
  <2>4. CASE lastDisconnectReason \in Permanent \/ reconnectAttempts >= maxRetryCount
    <3>1. status' = "closed" /\ UNCHANGED <<reconnectAttempts, reconnectTimer>>
      BY <1>11, <2>4 DEF SocketCloses, HandleClose, ScheduleReconnect, timers
    <3>2. Client!Closed
      BY <2>2, <2>3, <2>4, <3>1 DEF Client!Closed, Up
    <3> QED
      BY <3>2 DEF Client!Next
  <2>5. CASE ~(lastDisconnectReason \in Permanent \/ reconnectAttempts >= maxRetryCount)
    <3>1. /\ status' = "reconnecting"
          /\ reconnectAttempts' = reconnectAttempts + 1
          /\ reconnectTimer' = TRUE
      BY <1>11, <2>5 DEF SocketCloses, HandleClose, ScheduleReconnect
    <3>2. reconnectAttempts < maxRetryCount
      BY <2>5, RetryAssumption DEF IInv, TypeOK
    <3>3. Client!Lost
      BY <2>1, <2>2, <2>3, <2>5, <3>1, <3>2 DEF Client!Lost, Up
    <3> QED
      BY <3>3 DEF Client!Next
  <2> QED
    BY <2>4, <2>5
<1>12. ASSUME NEW s \in Sockets, PresenceSent(s) PROVE Client!Next
  <2>1. Up
    BY <1>12 DEF PresenceSent, IInv, BelongsToCurrent, Live, Up
  <2> QED
    BY <1>12, <2>1, LoginIsSeen DEF PresenceSent, Client!Next, timers, network
<1>13. CASE FailureReconnects \/ \E s \in Sockets : ListenerReconnects(s) \/ GivingUpReconnects(s)
  BY <1>13 DEF FailureReconnects, ListenerReconnects, GivingUpReconnects, ConnectsWhenDown
<1>14. CASE UNCHANGED vars
  BY <1>14, Unseen DEF vars, timers, network
<1> QED
  BY <1>1, <1>2, <1>3, <1>4, <1>6, <1>7, <1>8, <1>9, <1>10, <1>11, <1>12, <1>13, <1>14
  DEF Next, FrameLoop

\* With an application that connects only when the engine is down, what is seen of the
\* engine is the safety of Connection: one connection at a time, a retry for each loss
\* that is not final, and none given back but by a login.
THEOREM EngineIsConnection ==
  ASSUME ConnectsWhenDown
  PROVE  Spec => Client!Init /\ [][Client!Next]_seen
<1>1. Init => Client!Init
  BY DEF Init, Client!Init
<1>2. IInv /\ [Next]_vars => [Client!Next]_seen
  BY ConnectionStep
<1> QED
  BY <1>1, <1>2, Invariance, PTL DEF Spec

=============================================================================
