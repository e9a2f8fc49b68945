------------------------------- MODULE Engine -------------------------------
(***************************************************************************)
(* The connection lifecycle of the engine (src/src/socket/engine.ts) over  *)
(* its WebSocket wrapper (ws-client.ts) and its Noise handler              *)
(* (core/noise-handler.ts): connect, disconnect, the handshake, the frame  *)
(* loop, the connection-level nodes, handleClose and the backoff timer.    *)
(*                                                                         *)
(* The program is one Node.js thread: an action is one event-loop turn (a  *)
(* callback run up to its first await, or the rest of it after the await). *)
(* The frame loop is the exception: a WebSocket message may carry several  *)
(* frames, one action handles one frame, and no other action runs before   *)
(* the loop ends (Idle).                                                   *)
(*                                                                         *)
(* A WSClient and the Noise handler are created together by connect(); the *)
(* element of Sockets names both.  A socket that is CLOSED never acts       *)
(* again, so its name may be given to the next one.                        *)
(*                                                                         *)
(* An operator whose name ends in Mistake is a variant of the definition   *)
(* after it with a planted error; no specification uses it.  It shows that *)
(* the properties notice such an error.                                    *)
(***************************************************************************)
EXTENDS Naturals, Sequences

CONSTANTS
    Sockets,             \* names for WSClient objects
    NoSocket,            \* null
    maxRetryCount,       \* EngineConfig.maxRetryCount
    markOnlineOnConnect, \* EngineConfig.markOnlineOnConnect
    ConnectIn,           \* the statuses in which the application calls connect()
    DisconnectIn,        \* the statuses in which it calls disconnect()
    UserReasons,         \* the reasons it passes to disconnect()
    ConnectsOnClosed,    \* its listener of connection.update may call connect() on "closed"
    MaxInFlight,         \* bound: frames under way on one socket
    MaxLeakedTimers      \* bound: timers whose handle has been overwritten

Status == {"closed", "connecting", "open", "closing", "reconnecting"}

Reasons == {"ConnectionClosed", "ConnectionReplaced", "BadSession",
            "LoggedOut", "Unauthorized"}

ReadyStates == {"CONNECTING", "OPEN", "CLOSING", "CLOSED"}

\* The frames the lifecycle depends on.  "revoke" is a <failure> whose code is
\* in SESSION_REVOKE_CODES, "failure" any other, "replaced" a <stream:error>
\* with a <conflict> child, "streamError" any other.
Frames == {"hello", "badHello", "success", "revoke", "failure", "replaced",
           "streamError"}

ASSUME NoSocketAssumption == NoSocket \notin Sockets
ASSUME RetryAssumption    == maxRetryCount \in Nat
ASSUME OnlineAssumption   == markOnlineOnConnect \in BOOLEAN
ASSUME ApplicationAssumption == /\ ConnectIn \subseteq Status
                                /\ DisconnectIn \subseteq Status
                                /\ UserReasons \subseteq Reasons
                                /\ ConnectsOnClosed \in BOOLEAN
ASSUME BoundAssumption    == MaxInFlight \in Nat /\ MaxLeakedTimers \in Nat

VARIABLES
    status,               \* connectionState.status
    lastDisconnectReason, \* connectionState.lastDisconnectReason
    reconnectAttempts,
    reconnectTimer,       \* the timer that the variable refers to is running
    leakedTimers,         \* running timers that the variable has lost
    ws,                   \* the current WSClient
    noise,                \* the current Noise handler
    handshakeComplete,
    transport,            \* per Noise handler: no transport keys, keys, or keys whose
                          \* receive counter has left the server's behind
    readyState,           \* per socket
    toClient,             \* per socket: frames under way from the server
    announcing,           \* sockets on which handleSuccess awaits its presence node
    inBuffer,             \* the frames the running frame loop has still to handle
    decoder,              \* the Noise handler that runs the loop
    origin,               \* the socket the loop's frames came in on
    server,               \* per socket: how far the server's side has got
    revoked               \* history: the server has revoked the session and the
                          \* application has not called connect() since

connection == <<status, lastDisconnectReason, reconnectAttempts>>
timers     == <<reconnectTimer, leakedTimers>>
current    == <<ws, noise, handshakeComplete>>
loop       == <<inBuffer, decoder, origin>>
network    == <<readyState, toClient, server>>
vars == <<connection, timers, current, loop, network, transport, announcing, revoked>>

Permanent == {"LoggedOut", "Unauthorized"}

-----------------------------------------------------------------------------
Init ==
    /\ status = "closed"
    /\ lastDisconnectReason = "none"
    /\ reconnectAttempts = 0
    /\ reconnectTimer = FALSE
    /\ leakedTimers = 0
    /\ ws = NoSocket
    /\ noise = NoSocket
    /\ handshakeComplete = FALSE
    /\ transport = [s \in Sockets |-> "none"]
    /\ readyState = [s \in Sockets |-> "CLOSED"]
    /\ toClient = [s \in Sockets |-> <<>>]
    /\ announcing = {}
    /\ inBuffer = <<>>
    /\ decoder = NoSocket
    /\ origin = NoSocket
    /\ server = [s \in Sockets |-> "idle"]
    /\ revoked = FALSE

-----------------------------------------------------------------------------
(* The functions of the engine that the handlers share.                    *)

\* No frame loop is running: the event loop may run another callback.
Idle == inBuffer = <<>>

wsIsOpen == ws # NoSocket /\ readyState[ws] = "OPEN"

\* sendRaw() goes through: the guard at its head.
CanSend == wsIsOpen /\ noise # NoSocket

\* A name for a new WSClient: its last owner has had its 'close' event, which is
\* the last thing a socket does.
Fresh(s) == readyState[s] = "CLOSED"

\* connect(), the timers aside: a new socket and a new Noise handler.  The
\* previous socket, whatever its state, is only forgotten.
Connect(s) ==
    /\ Fresh(s)
    /\ status' = "connecting"
    /\ handshakeComplete' = FALSE
    /\ ws' = s
    /\ noise' = s
    /\ transport' = [transport EXCEPT ![s] = "none"]
    /\ readyState' = [readyState EXCEPT ![s] = "CONNECTING"]
    /\ toClient' = [toClient EXCEPT ![s] = <<>>]
    /\ server' = [server EXCEPT ![s] = "idle"]
    /\ UNCHANGED <<lastDisconnectReason, reconnectAttempts, announcing, loop>>

\* The guard on the ready state inverted: only a closed socket is closed.
WSCloseMistake(rs) == rs

\* WSClient.close(), from the ready states rs: the close handshake starts, or a
\* connection attempt is aborted; both end in a 'close' event of their own turn.
WSClose(rs) ==
    IF ws # NoSocket /\ rs[ws] \in {"CONNECTING", "OPEN"}
    THEN [rs EXCEPT ![ws] = "CLOSING"]
    ELSE rs

\* "closed" is reported before the socket has closed.
DisconnectFromMistake(rs, reason) ==
    /\ status' = "closed"
    /\ lastDisconnectReason' = reason
    /\ readyState' = WSClose(rs)
    /\ noise' = NoSocket
    /\ UNCHANGED <<reconnectAttempts, timers, ws, handshakeComplete, transport>>

\* disconnect(reason), from the ready states rs.  The timer is left running.
DisconnectFrom(rs, reason) ==
    /\ status' = "closing"
    /\ lastDisconnectReason' = reason
    /\ readyState' = WSClose(rs)
    /\ noise' = NoSocket
    /\ UNCHANGED <<reconnectAttempts, timers, ws, handshakeComplete, transport>>

Disconnect(reason) == DisconnectFrom(readyState, reason)

\* One attempt too many, and a fresh budget when the engine gives up.
ScheduleReconnectMistake ==
    /\ IF reconnectAttempts > maxRetryCount
       THEN status' = "closed" /\ reconnectAttempts' = 0 /\ UNCHANGED reconnectTimer
       ELSE /\ status' = "reconnecting"
            /\ reconnectAttempts' = reconnectAttempts + 1
            /\ reconnectTimer' = TRUE
    /\ UNCHANGED leakedTimers

\* The timer is not started.
ScheduleReconnectUnarmed ==
    IF reconnectAttempts >= maxRetryCount
    THEN status' = "closed" /\ UNCHANGED <<reconnectAttempts, timers>>
    ELSE /\ status' = "reconnecting"
         /\ reconnectAttempts' = reconnectAttempts + 1
         /\ UNCHANGED timers

\* scheduleReconnect(): the timer it starts takes the place of the handle of one
\* that may still be running.
ScheduleReconnect ==
    IF reconnectAttempts >= maxRetryCount
    THEN /\ status' = "closed"
         /\ UNCHANGED <<reconnectAttempts, timers>>
    ELSE /\ status' = "reconnecting"
         /\ reconnectAttempts' = reconnectAttempts + 1
         /\ reconnectTimer' = TRUE
         /\ reconnectTimer => leakedTimers < MaxLeakedTimers
         /\ leakedTimers' = IF reconnectTimer THEN leakedTimers + 1 ELSE leakedTimers

\* handleClose()
HandleClose ==
    /\ IF lastDisconnectReason \in Permanent
       THEN /\ status' = "closed"
            /\ UNCHANGED <<reconnectAttempts, timers>>
       ELSE ScheduleReconnect
    /\ UNCHANGED <<lastDisconnectReason, current, transport>>

\* The tail of handleSuccess() after its await.
SetOpen ==
    /\ status' = "open"
    /\ reconnectAttempts' = 0
    /\ UNCHANGED lastDisconnectReason

-----------------------------------------------------------------------------
(* The application and the timers.                                         *)

\* connect() does not clear the timer.
UserConnectMistake ==
    /\ Idle
    /\ status \in ConnectIn
    /\ \E s \in Sockets : Connect(s)
    /\ revoked' = FALSE
    /\ UNCHANGED timers

UserConnect ==
    /\ Idle
    /\ status \in ConnectIn
    /\ \E s \in Sockets : Connect(s)
    /\ reconnectTimer' = FALSE
    /\ revoked' = FALSE
    /\ UNCHANGED leakedTimers

UserDisconnect ==
    /\ Idle
    /\ status \in DisconnectIn
    /\ \E reason \in UserReasons : Disconnect(reason)
    /\ UNCHANGED <<loop, toClient, server, announcing, revoked>>

\* The timer of scheduleReconnect() fires: connect(), which drops its handle.
TimerFires ==
    /\ Idle
    /\ reconnectTimer
    /\ \E s \in Sockets : Connect(s)
    /\ reconnectTimer' = FALSE
    /\ UNCHANGED <<leakedTimers, revoked>>

\* A timer whose handle was lost fires: connect(), which also clears the timer
\* the variable refers to.
LeakedTimerFires ==
    /\ Idle
    /\ leakedTimers > 0
    /\ \E s \in Sockets : Connect(s)
    /\ leakedTimers' = leakedTimers - 1
    /\ reconnectTimer' = FALSE
    /\ UNCHANGED revoked

-----------------------------------------------------------------------------
(* The sockets.                                                            *)

\* 'open' of socket s: the handler sends s's ephemeral key over whatever socket
\* and Noise handler are current, and disconnects when it cannot.  A write that fails
\* later calls disconnect() then, as UserDisconnect may.
SocketOpens(s) ==
    /\ Idle
    /\ readyState[s] = "CONNECTING"
    /\ LET opened == [readyState EXCEPT ![s] = "OPEN"]
       IN  IF noise # NoSocket /\ opened[ws] = "OPEN"
           THEN /\ readyState' = opened
                /\ server' = IF ws = s THEN [server EXCEPT ![s] = "greeted"] ELSE server
                /\ UNCHANGED <<connection, timers, current, transport>>
           ELSE /\ DisconnectFrom(opened, "ConnectionClosed")
                /\ UNCHANGED server
    /\ UNCHANGED <<loop, toClient, announcing, revoked>>

\* The presence node's promise outlives the socket.
SocketClosesMistake(s) ==
    /\ Idle
    /\ readyState[s] # "CLOSED"
    /\ readyState' = [readyState EXCEPT ![s] = "CLOSED"]
    /\ toClient' = [toClient EXCEPT ![s] = <<>>]
    /\ server' = [server EXCEPT ![s] = "idle"]
    /\ HandleClose
    /\ UNCHANGED <<loop, announcing, revoked>>

\* 'close' of socket s, for any cause: the end of a close handshake, a failed
\* connection attempt, the server, the network.  handleClose() does not look at
\* which socket it is.
SocketCloses(s) ==
    /\ Idle
    /\ readyState[s] # "CLOSED"
    /\ readyState' = [readyState EXCEPT ![s] = "CLOSED"]
    /\ toClient' = [toClient EXCEPT ![s] = <<>>]
    /\ server' = [server EXCEPT ![s] = "idle"]
    /\ announcing' = announcing \ {s}
    /\ HandleClose
    /\ UNCHANGED <<loop, revoked>>

\* 'close' of socket s, and a listener calls connect() on the "closed" that
\* handleClose() reports: what handleClose() has decided about the lost
\* connection it then does to the new one.
ListenerReconnects(s) ==
    /\ Idle
    /\ ConnectsOnClosed
    /\ readyState[s] # "CLOSED"
    /\ \E f \in Sockets :
          /\ f = s \/ Fresh(f)
          /\ ws' = f
          /\ noise' = f
          /\ transport' = [transport EXCEPT ![f] = "none"]
          /\ readyState' = [readyState EXCEPT ![s] = "CLOSED", ![f] = "CONNECTING"]
          /\ toClient' = [toClient EXCEPT ![s] = <<>>, ![f] = <<>>]
          /\ server' = [server EXCEPT ![s] = "idle", ![f] = "idle"]
    /\ handshakeComplete' = FALSE
    /\ announcing' = announcing \ {s}
    /\ \/ /\ lastDisconnectReason \in Permanent
          /\ status' = "connecting"
          /\ reconnectTimer' = FALSE
          /\ UNCHANGED reconnectAttempts
       \/ /\ lastDisconnectReason \notin Permanent
          /\ reconnectAttempts >= maxRetryCount
          /\ status' = "closed"
          /\ reconnectTimer' = FALSE
          /\ UNCHANGED reconnectAttempts
       \/ /\ lastDisconnectReason \notin Permanent
          /\ reconnectAttempts < maxRetryCount
          /\ status' = "reconnecting"
          /\ reconnectTimer' = TRUE
          /\ reconnectAttempts' = reconnectAttempts + 1
    /\ revoked' = FALSE
    /\ UNCHANGED <<lastDisconnectReason, leakedTimers, loop>>

\* As before, but the retries are used up: scheduleReconnect() reports "closed" once more,
\* and the listener connects again, or only now; a first new socket is forgotten.
GivingUpReconnects(s) ==
    /\ Idle
    /\ ConnectsOnClosed
    /\ readyState[s] # "CLOSED"
    /\ lastDisconnectReason \notin Permanent
    /\ reconnectAttempts >= maxRetryCount
    /\ \E f, g \in {t \in Sockets : t = s \/ Fresh(t)} :
          /\ ws' = f
          /\ noise' = f
          /\ transport' = [t \in Sockets |-> IF t \in {f, g} THEN "none" ELSE transport[t]]
          /\ readyState' = [t \in Sockets |-> IF t \in {f, g} THEN "CONNECTING"
                                              ELSE IF t = s THEN "CLOSED" ELSE readyState[t]]
          /\ toClient' = [t \in Sockets |-> IF t \in {f, g, s} THEN <<>> ELSE toClient[t]]
          /\ server' = [t \in Sockets |-> IF t \in {f, g, s} THEN "idle" ELSE server[t]]
    /\ handshakeComplete' = FALSE
    /\ announcing' = announcing \ {s}
    /\ status' = "connecting"
    /\ reconnectTimer' = FALSE
    /\ revoked' = FALSE
    /\ UNCHANGED <<lastDisconnectReason, reconnectAttempts, leakedTimers, loop>>

\* 'message' of socket s, with the first n frames under way on it: they go to
\* the frame loop of the current Noise handler; without one the handler throws
\* and the message is lost.
MessageArrives(s) ==
    /\ Idle
    /\ readyState[s] \in {"OPEN", "CLOSING"}
    /\ \E n \in 1 .. Len(toClient[s]) :
          /\ toClient' = [toClient EXCEPT ![s] = SubSeq(@, n + 1, Len(@))]
          /\ IF noise = NoSocket
             THEN UNCHANGED loop
             ELSE /\ inBuffer' = SubSeq(toClient[s], 1, n)
                  /\ decoder' = noise
                  /\ origin' = s
    /\ UNCHANGED <<connection, timers, current, transport, readyState, server,
                   announcing, revoked>>

\* The write of the presence node that handleSuccess() awaits is done.
PresenceSent(s) ==
    /\ Idle
    /\ s \in announcing
    /\ announcing' = announcing \ {s}
    /\ SetOpen
    /\ UNCHANGED <<timers, current, loop, network, transport, revoked>>

-----------------------------------------------------------------------------
(* The frame loop, one frame at a time.                                    *)

frame == Head(inBuffer)

NextFrame ==
    /\ inBuffer' = Tail(inBuffer)
    /\ IF Tail(inBuffer) = <<>>
       THEN decoder' = NoSocket /\ origin' = NoSocket
       ELSE UNCHANGED <<decoder, origin>>

\* A frame before the transport keys exist: handleHandshakeFrame().  The hello of
\* the decoder's own server completes the handshake and sends the login node; a
\* bad one, or a frame of another socket, fails it.
HandshakeFrame ==
    /\ ~Idle
    /\ transport[decoder] = "none"
    /\ IF handshakeComplete
       THEN UNCHANGED <<connection, timers, current, transport, readyState, server>>
       ELSE IF frame = "hello" /\ origin = decoder /\ noise = decoder
       THEN /\ transport' = [transport EXCEPT ![noise] = "ready"]
            /\ handshakeComplete' = TRUE
            /\ server' = IF wsIsOpen THEN [server EXCEPT ![ws] = "login"] ELSE server
            /\ UNCHANGED <<connection, timers, ws, noise, readyState>>
       ELSE /\ Disconnect("BadSession")
            /\ UNCHANGED server
    /\ NextFrame
    /\ UNCHANGED <<toClient, announcing, revoked>>

\* TransportState.decrypt() rejects the frame, having counted it: the error ends
\* the loop, and no later frame of the server will have the counter it expects.
UndecryptableFrame ==
    /\ ~Idle
    /\ \/ transport[decoder] = "broken"
       \/ transport[decoder] = "ready" /\ origin # decoder
    /\ transport' = [transport EXCEPT ![decoder] = "broken"]
    /\ inBuffer' = <<>>
    /\ decoder' = NoSocket
    /\ origin' = NoSocket
    /\ UNCHANGED <<connection, timers, current, network, announcing, revoked>>

\* A node of the tag is next in the loop and its frame can be decrypted.
Receive(tag) ==
    /\ ~Idle
    /\ transport[decoder] = "ready"
    /\ origin = decoder
    /\ frame = tag
    /\ NextFrame

\* handleSuccess(), up to its await if it has one.  (No handler catches a send that is
\* rejected; that Node.js may end the process for it is left out.)
HandleSuccess ==
    /\ Receive("success")
    /\ IF markOnlineOnConnect
       THEN /\ announcing' = IF CanSend THEN announcing \cup {ws} ELSE announcing
            /\ UNCHANGED connection
       ELSE SetOpen /\ UNCHANGED announcing
    /\ UNCHANGED <<timers, current, network, transport, revoked>>

\* handleFailure(): a revoked session is 'closed' for its listeners, then 'closing'.
HandleFailure ==
    /\ \/ /\ Receive("revoke")
          /\ Disconnect("LoggedOut")
          /\ revoked' = TRUE
       \/ /\ Receive("failure")
          /\ Disconnect("ConnectionClosed")
          /\ UNCHANGED revoked
    /\ UNCHANGED <<toClient, server, announcing>>

\* handleFailure() of a revoked session, and a listener calls connect() on the
\* "closed" it reports: the disconnect() that follows is of the new socket.
FailureReconnects ==
    /\ ConnectsOnClosed
    /\ Receive("revoke")
    /\ \E f \in Sockets :
          /\ Fresh(f)
          /\ ws' = f
          /\ transport' = [transport EXCEPT ![f] = "none"]
          /\ readyState' = [readyState EXCEPT ![f] = "CLOSING"]
          /\ toClient' = [toClient EXCEPT ![f] = <<>>]
          /\ server' = [server EXCEPT ![f] = "idle"]
    /\ noise' = NoSocket
    /\ handshakeComplete' = FALSE
    /\ status' = "closing"
    /\ lastDisconnectReason' = "LoggedOut"
    /\ reconnectTimer' = FALSE
    /\ revoked' = FALSE
    /\ UNCHANGED <<reconnectAttempts, leakedTimers, announcing>>

\* handleStreamError()
HandleStreamError ==
    /\ \/ Receive("replaced")    /\ Disconnect("ConnectionReplaced")
       \/ Receive("streamError") /\ Disconnect("ConnectionClosed")
    /\ UNCHANGED <<toClient, server, announcing, revoked>>

FrameLoop == \/ HandshakeFrame \/ UndecryptableFrame
             \/ HandleSuccess \/ HandleFailure \/ FailureReconnects \/ HandleStreamError

-----------------------------------------------------------------------------
(* The server: it answers the client's hello, then the login, and ends a    *)
(* session with a failure, a stream error or both.                          *)

Replies ==
    [greeted |-> {"hello", "badHello"},
     login   |-> {"success", "revoke", "failure", "streamError"},
     success |-> {"revoke", "replaced", "streamError"},
     refused |-> {"streamError"}]

ServerAfter(f) ==
    CASE f = "success"                 -> "success"
      [] f \in {"revoke", "failure"}   -> "refused"
      [] OTHER                         -> "waiting"

ServerSends(s) ==
    /\ Idle
    /\ readyState[s] = "OPEN"
    /\ server[s] \in DOMAIN Replies
    /\ Len(toClient[s]) < MaxInFlight
    /\ \E f \in Replies[server[s]] :
          /\ toClient' = [toClient EXCEPT ![s] = Append(@, f)]
          /\ server' = [server EXCEPT ![s] = ServerAfter(f)]
    /\ UNCHANGED <<connection, timers, current, loop, readyState, transport,
                   announcing, revoked>>

-----------------------------------------------------------------------------
Next ==
    \/ UserConnect
    \/ UserDisconnect
    \/ TimerFires
    \/ LeakedTimerFires
    \/ FrameLoop
    \/ \E s \in Sockets :
          \/ SocketOpens(s)
          \/ SocketCloses(s)
          \/ ListenerReconnects(s)
          \/ GivingUpReconnects(s)
          \/ MessageArrives(s)
          \/ PresenceSent(s)
          \/ ServerSends(s)

Spec == Init /\ [][Next]_vars

AttemptEnds(s) ==
    SocketOpens(s) \/ (readyState[s] = "CONNECTING" /\ SocketCloses(s))

CloseHandshakeEnds(s) == readyState[s] = "CLOSING" /\ SocketCloses(s)

\* What Node.js and the ws library see to: timers fire, the frame loop runs to
\* its end, writes complete, a connection attempt opens or fails (its
\* handshakeTimeout is connectTimeoutMs), a close handshake ends (ws destroys the
\* socket of a peer that does not answer).  The server and the application owe
\* nothing.
Fairness ==
    /\ WF_vars(TimerFires)
    /\ WF_vars(LeakedTimerFires)
    /\ WF_vars(FrameLoop)
    /\ \A s \in Sockets :
          /\ WF_vars(PresenceSent(s))
          /\ WF_vars(AttemptEnds(s))
          /\ WF_vars(CloseHandshakeEnds(s))

FairSpec == Spec /\ Fairness

-----------------------------------------------------------------------------
TypeOK ==
    /\ status \in Status
    /\ lastDisconnectReason \in Reasons \cup {"none"}
    /\ reconnectAttempts \in 0 .. maxRetryCount
    /\ reconnectTimer \in BOOLEAN
    /\ leakedTimers \in 0 .. MaxLeakedTimers
    /\ ws \in Sockets \cup {NoSocket}
    /\ noise \in Sockets \cup {NoSocket}
    /\ handshakeComplete \in BOOLEAN
    /\ transport \in [Sockets -> {"none", "ready", "broken"}]
    /\ readyState \in [Sockets -> ReadyStates]
    /\ toClient \in [Sockets -> Seq(Frames)]
    /\ announcing \subseteq Sockets
    /\ inBuffer \in Seq(Frames)
    /\ decoder \in Sockets \cup {NoSocket}
    /\ origin \in Sockets \cup {NoSocket}
    /\ server \in [Sockets -> {"idle", "greeted", "waiting", "login", "success", "refused"}]
    /\ revoked \in BOOLEAN

-----------------------------------------------------------------------------
(* Safety of an application that calls connect() only in the statuses in     *)
(* which the engine has let go of its socket ("closed", "reconnecting").     *)

\* A socket that connect() has replaced is closed: no second live connection
\* stays behind whose callbacks act on the state of the new one.
SingleLiveSocket == \A s \in Sockets : s # ws => readyState[s] = "CLOSED"

\* A reconnect timer runs only while there is no live socket, and the engine
\* holds the handle of every timer it has started: connect() can clear it.
TimerOnlyWhenDown ==
    /\ leakedTimers = 0
    /\ reconnectTimer => \A s \in Sockets : readyState[s] = "CLOSED"

\* Every encrypted frame meets the Noise handler it was encrypted for: the
\* receive counter of a connection never runs ahead of the server's.
NoDesync == \A s \in Sockets : transport[s] # "broken"

\* The engine reports "open" only over a connection whose handshake is done and
\* whose socket has not closed.
OpenHasConnection ==
    status = "open" => /\ handshakeComplete
                       /\ ws # NoSocket /\ readyState[ws] # "CLOSED"

\* The engine rests in "closed" with a used connection only for a reason: the
\* session is permanently over or the retries are used up.
ClosedForAReason ==
    status = "closed" /\ ws # NoSocket =>
        \/ lastDisconnectReason \in Permanent
        \/ reconnectAttempts >= maxRetryCount

\* The retry budget is given back only by a login: reconnectAttempts goes down
\* only in a step that reports "open" over a finished handshake.
BudgetRestoredByLogin ==
    [][reconnectAttempts' < reconnectAttempts => status' = "open" /\ handshakeComplete]_vars

-----------------------------------------------------------------------------
(* Liveness, of the same application.                                        *)

\* disconnect() does not leave the engine in "closing" for ever, if there is a
\* socket to close.  (Without one nothing but connect() ends "closing".)
ClosingSettles ==
    status = "closing" /\ (\E s \in Sockets : readyState[s] # "CLOSED") ~> status # "closing"

\* The engine does not retry for ever against a server it cannot log in to.
NoEndlessRetry == []<>(status = "reconnecting") => []<>(status = "open")

-----------------------------------------------------------------------------
(* What the user of the engine sees.                                         *)

Client == INSTANCE Connection
          WITH reason   <- lastDisconnectReason,
               attempts <- reconnectAttempts,
               waiting  <- reconnectTimer,
               up       <- \E s \in Sockets : readyState[s] # "CLOSED"

\* The engine of such an application implements Connection: whatever the sockets, the
\* server and the frame loop do, the user sees one connection at a time, each loss takes
\* one retry, nothing but a login gives them back, and a reconnect that was announced is
\* carried out.
ImplementsConnection == Client!Spec

-----------------------------------------------------------------------------
(* What the comments of the code promise without a condition.                *)

\* engine.ts:27: "Permanent errors (logged out, unauthorized) do NOT reconnect."
\* Once the server has revoked the session the engine does not schedule a
\* reconnect of its own.
PermanentMeansNoReconnect == revoked => status # "reconnecting"

\* engine.ts:28: "Transient errors (lost connection, timeout) trigger backoff
\* reconnect."  The loss of a connection that nobody has disconnected, with
\* retries left, is followed by a reconnect.
TransientReconnects ==
    [][\A s \in Sockets :
          /\ s = ws /\ noise = s
          /\ readyState[s] # "CLOSED" /\ readyState'[s] = "CLOSED"
          /\ reconnectAttempts < maxRetryCount
          => status' = "reconnecting"]_vars

\* index.ts:86: isConnected tells "Whether the client is fully authenticated and
\* open"; it is status = "open".
OpenMeansUsable == status = "open" => CanSend

=============================================================================
