-------------------------------- MODULE Query --------------------------------
(***************************************************************************)
(* Request and response over the event-driven socket: query() and          *)
(* waitForMessage() of src/src/socket/engine.ts on withTimeout() of        *)
(* src/src/utils/index.ts.                                                 *)
(*                                                                         *)
(* Every query has a tag of its own (generateTag), so the query names it.  *)
(* A caller awaits first the send and then the response; the promise of    *)
(* the response exists, and may settle, before the caller awaits it.       *)
(*                                                                         *)
(* An operator whose name ends in Mistake is a variant of the definition   *)
(* after it with a planted error; no specification uses it.                *)
(***************************************************************************)
CONSTANTS
    Queries,       \* calls of query()
    queryTimeoutMs \* its length does not matter here, but 0 turns the timeout off

ASSUME TimeoutAssumption == queryTimeoutMs \in {0, 60000}

VARIABLES
    connected,
    caller,         \* per query: "idle", "sending", "waiting", "answered" or "failed"
    promise,        \* per query: "none", "pending", "resolved" or "rejected"
    timers,         \* queries whose timer is running
    tagListeners,   \* queries listening for TAG:<tag>
    closeListeners, \* queries listening for 'close'
    toServer,       \* queries whose node is under way
    toClient,       \* queries whose response is under way
    received        \* history: queries whose response has come in

listeners == <<tagListeners, closeListeners>>
network   == <<toServer, toClient>>
vars == <<connected, caller, promise, timers, listeners, network, received>>

Init ==
    /\ connected = TRUE
    /\ caller = [q \in Queries |-> "idle"]
    /\ promise = [q \in Queries |-> "none"]
    /\ timers = {}
    /\ tagListeners = {}
    /\ closeListeners = {}
    /\ toServer = {}
    /\ toClient = {}
    /\ received = {}

-----------------------------------------------------------------------------
\* waitForMessage(): the listeners and the timer.
Wait(q) ==
    /\ promise' = [promise EXCEPT ![q] = "pending"]
    /\ tagListeners' = tagListeners \cup {q}
    /\ closeListeners' = closeListeners \cup {q}
    /\ timers' = IF queryTimeoutMs = 0 THEN timers ELSE timers \cup {q}

\* The listener is registered when the send is done.
StartMistake(q) ==
    /\ caller[q] = "idle"
    /\ promise' = [promise EXCEPT ![q] = "pending"]
    /\ timers' = IF queryTimeoutMs = 0 THEN timers ELSE timers \cup {q}
    /\ caller' = [caller EXCEPT ![q] = IF connected THEN "sending" ELSE "failed"]
    /\ toServer' = IF connected THEN toServer \cup {q} ELSE toServer
    /\ UNCHANGED <<connected, listeners, toClient, received>>

\* query(): it listens first and sends then.  Without a connection the send is
\* rejected at once, and the listeners and the timer stay.
Start(q) ==
    /\ caller[q] = "idle"
    /\ Wait(q)
    /\ caller' = [caller EXCEPT ![q] = IF connected THEN "sending" ELSE "failed"]
    /\ toServer' = IF connected THEN toServer \cup {q} ELSE toServer
    /\ UNCHANGED <<connected, toClient, received>>

\* The caller is given the state of the promise.
AwaitMistake(p) == p

\* The state of a caller that comes to await a promise p.
Await(p) == CASE p = "pending"  -> "waiting"
              [] p = "resolved" -> "answered"
              [] p = "rejected" -> "failed"

\* The send is done; the caller awaits the response.
Sent(q) ==
    /\ caller[q] = "sending"
    /\ connected
    /\ caller' = [caller EXCEPT ![q] = Await(promise[q])]
    /\ UNCHANGED <<connected, promise, timers, listeners, network, received>>

\* The promise q settles: a caller that awaits it goes on.
Settle(q, p) ==
    /\ promise' = [promise EXCEPT ![q] = p]
    /\ caller' = [caller EXCEPT ![q] = IF @ = "waiting" THEN Await(p) ELSE @]

\* handleFrame() emits TAG:<tag>: onMsg().  The listener of a promise that has
\* settled is still called, and does nothing; no listener is removed but 'close'.
Response(q) ==
    /\ q \in toClient
    /\ toClient' \in {toClient, toClient \ {q}}   \* the server may repeat itself
    /\ received' = received \cup {q}
    /\ IF q \in tagListeners
       THEN /\ closeListeners' = closeListeners \ {q}
            /\ IF promise[q] = "pending"
               THEN Settle(q, "resolved") /\ timers' = timers \ {q}
               ELSE UNCHANGED <<promise, caller, timers>>
       ELSE UNCHANGED <<promise, caller, timers, closeListeners>>
    /\ UNCHANGED <<connected, tagListeners, toServer>>

\* The timer only removes the listeners.
TimesOutMistake(q) ==
    /\ q \in timers
    /\ timers' = timers \ {q}
    /\ tagListeners' = tagListeners \ {q}
    /\ closeListeners' = closeListeners \ {q}
    /\ UNCHANGED <<connected, promise, caller, network, received>>

\* withTimeout()'s timer: cancel(), then reject.  (If the send has failed nobody
\* awaits the promise any more, and Node.js reports an unhandled rejection.)
TimesOut(q) ==
    /\ q \in timers
    /\ timers' = timers \ {q}
    /\ tagListeners' = tagListeners \ {q}
    /\ closeListeners' = closeListeners \ {q}
    /\ Settle(q, "rejected")
    /\ UNCHANGED <<connected, network, received>>

-----------------------------------------------------------------------------
ServerAnswers(q) ==
    /\ q \in toServer
    /\ toServer' = toServer \ {q}
    /\ toClient' = toClient \cup {q}
    /\ UNCHANGED <<connected, caller, promise, timers, listeners, received>>

\* The connection is lost: sends that are not done are rejected.  The engine
\* emits connection.update; nothing emits the 'close' that the queries listen for.
ConnectionLost ==
    /\ connected
    /\ connected' = FALSE
    /\ toServer' = {}
    /\ toClient' = {}
    /\ caller' = [q \in Queries |-> IF caller[q] = "sending" THEN "failed" ELSE caller[q]]
    /\ UNCHANGED <<promise, timers, listeners, received>>

Reconnected ==
    /\ ~connected
    /\ connected' = TRUE
    /\ UNCHANGED <<caller, promise, timers, listeners, network, received>>

Next ==
    \/ ConnectionLost \/ Reconnected
    \/ \E q \in Queries :
          \/ Start(q) \/ Sent(q) \/ Response(q) \/ TimesOut(q) \/ ServerAnswers(q)

Spec == Init /\ [][Next]_vars

\* Timers fire, and a write completes or fails: Node.js.  The server owes nothing.
Fairness == \A q \in Queries :
    /\ WF_vars(TimesOut(q))
    /\ WF_vars(Sent(q) \/ (caller[q] = "sending" /\ ConnectionLost))

FairSpec == Spec /\ Fairness

-----------------------------------------------------------------------------
TypeOK ==
    /\ connected \in BOOLEAN
    /\ caller \in [Queries -> {"idle", "sending", "waiting", "answered", "failed"}]
    /\ promise \in [Queries -> {"none", "pending", "resolved", "rejected"}]
    /\ \A s \in {timers, tagListeners, closeListeners, toServer, toClient,
                 received} : s \subseteq Queries

\* A response that comes in before the timeout settles its query, even if it
\* overtakes the completion of the send: the listener is there in time.
NoResponseMissed == \A q \in received : promise[q] # "pending"

\* A promise that can still settle has a listener to do it, and the timer: no
\* query forgets what it waits for (under a timeout).
PendingIsWatched ==
    \A q \in Queries : promise[q] = "pending" =>
        /\ q \in tagListeners \cap closeListeners
        /\ queryTimeoutMs # 0 => q \in timers

\* Every query comes to an end, whatever the server and the network do.
QueriesEnd == \A q \in Queries : caller[q] # "idle" ~> caller[q] \in {"answered", "failed"}

\* engine.ts:109: a query is rejected with "Connection closed while waiting for
\* response": no caller waits once the connection is gone.
ClosedConnectionRejects == \A q \in Queries : caller[q] = "waiting" => connected

=============================================================================
