------------------------------ MODULE Connection ------------------------------
(***************************************************************************)
(* What the engine promises the user of the public API (connect(),         *)
(* disconnect(), 'connection.update' and isConnected in src/src/index.ts): *)
(* one connection at a time, which opens only by a login and closes once,  *)
(* and one reconnect for each loss that is not final, as long as there are *)
(* retries left.  Sockets, frames and keys are not seen.                   *)
(***************************************************************************)
EXTENDS Integers

CONSTANTS
    Reasons,       \* why a connection can be disconnected
    Permanent,     \* the reasons after which the engine does not reconnect
    UserReasons,   \* the reasons that the user gives
    ConnectIn,     \* the statuses in which the user calls connect()
    maxRetryCount

VARIABLES
    status,    \* connectionState.status
    reason,    \* connectionState.lastDisconnectReason
    attempts,  \* reconnects since the last login
    up,        \* there is a connection, or an attempt at one
    waiting    \* a reconnect has been scheduled

vars == <<status, reason, attempts, up, waiting>>

Init ==
    /\ status = "closed"
    /\ reason = "none"
    /\ attempts = 0
    /\ up = FALSE
    /\ waiting = FALSE

\* connect(), never over a connection that there is.
Connect ==
    /\ ~up
    /\ status' = "connecting"
    /\ up' = TRUE
    /\ waiting' = FALSE
    /\ UNCHANGED <<reason, attempts>>

UserConnects == status \in ConnectIn /\ Connect

Reconnects == waiting /\ Connect

\* A login, even one that completes after the user has called disconnect().
LoggedIn ==
    /\ up
    /\ status' = "open"
    /\ attempts' = 0
    /\ UNCHANGED <<reason, up, waiting>>

\* disconnect(): without a connection only the user calls it.
Disconnect(r) ==
    /\ up \/ r \in UserReasons
    /\ status' = "closing"
    /\ reason' = r
    /\ UNCHANGED <<attempts, up, waiting>>

\* The connection is lost, for any cause, and no reconnect will follow.
Closed ==
    /\ up
    /\ reason \in Permanent \/ attempts >= maxRetryCount
    /\ status' = "closed"
    /\ up' = FALSE
    /\ UNCHANGED <<reason, attempts, waiting>>

\* It is lost, and one is scheduled.
Lost ==
    /\ up
    /\ ~waiting
    /\ reason \notin Permanent
    /\ attempts < maxRetryCount
    /\ status' = "reconnecting"
    /\ attempts' = attempts + 1
    /\ up' = FALSE
    /\ waiting' = TRUE
    /\ UNCHANGED reason

Next == UserConnects \/ Reconnects \/ LoggedIn \/ (\E r \in Reasons : Disconnect(r)) \/ Closed \/ Lost

Ends == status = "closing" /\ (Closed \/ Lost)

\* A reconnect that is scheduled is carried out, and a connection that the
\* engine closes comes to its end.
Spec == Init /\ [][Next]_vars /\ WF_vars(Reconnects) /\ WF_vars(Ends)

===============================================================================
