------------------------------ MODULE PreKeys ------------------------------
(***************************************************************************)
(* The one-time pre-keys: generation and upload by registration and by     *)
(* uploadPreKeys (src/src/socket/engine.ts), the counters in the           *)
(* credentials, the key files and creds.json (src/src/auth/index.ts).      *)
(*                                                                         *)
(* A batch is one call of generatePreKeys(): INITIAL_PREKEYS keys with     *)
(* consecutive ids, all new.  It is named by its number, and so are its    *)
(* keys: store[i] = b says that the file pre-key-<i>.json holds the key    *)
(* that batch b generated for the id i.  A connection is reduced to the    *)
(* messages under way on it (module Engine has the rest).  The writes of   *)
(* key files may be late, but do not fail (module AuthStore has those that *)
(* do).                                                                    *)
(*                                                                         *)
(* An operator whose name ends in Mistake is a variant of the definition   *)
(* after it with a planted error; no specification uses it.                *)
(***************************************************************************)
EXTENDS Naturals, Sequences, FiniteSets, Functions

CONSTANTS
    INITIAL_PREKEYS, \* keys in a batch (SIGNAL_INITIAL_PREKEYS)
    MIN_PREKEYS,     \* SIGNAL_MIN_PREKEYS
    KnowsMe,         \* creds.me is set; the engine itself never sets it
    MaxBatches       \* bound: batches generated

ASSUME SizeAssumption == INITIAL_PREKEYS \in Nat \ {0} /\ MIN_PREKEYS \in Nat
ASSUME FlagAssumption == KnowsMe \in BOOLEAN
ASSUME BatchAssumption == MaxBatches \in Nat

Batches == 1 .. MaxBatches
KeyIds  == 1 .. INITIAL_PREKEYS * MaxBatches
None    == 0

VARIABLES
    nextPreKeyId, firstUnuploadedPreKeyId, registeredToServer, \* creds, in memory
    credsFile,  \* the counters and the flag in creds.json
    saving,     \* a creds.update has been emitted whose saveCreds() has not run
    store,      \* per id: the batch of the key in its file, or None
    writes,     \* per id: the writes that wait for the file's mutex
    connection, \* "down", "login", "confirmed" or "open"
    toServer,   \* batches under way to the server, first sent first
    toClient,   \* batches whose iq result is under way
    batch,      \* per batch: its job
    server,     \* per id: the batch of the key the server has last been given, or None
    stock,      \* the ids the server has not handed out yet
    disturbed,  \* history: a connection has been lost, a query timed out, or a crash
    overlapped  \* history: a batch has been started while another was at work

creds   == <<nextPreKeyId, firstUnuploadedPreKeyId, registeredToServer>>
disk    == <<credsFile, store>>
network == <<toServer, toClient>>
remote  == <<server, stock>>
history == <<disturbed, overlapped>>
vars == <<creds, disk, saving, writes, connection, network, batch, remote, history>>

\* A job is the call that generated the batch, with what it will do next:
\*   unused    -> sending  -> storing -> done -> saved   (sendRegistrationNode)
\*   unused    -> querying -> storing -> done -> saved   (uploadPreKeys)
\* or failed, when the send is rejected, the query times out or the process dies.
\* It is over with "done"; "saved" records that creds.json counts the keys.
Unused == [kind |-> "none", first |-> 0, pc |-> "unused"]

Ids(b) == batch[b].first .. batch[b].first + INITIAL_PREKEYS - 1

\* The job is going to change the key store.
Active(b) ==
    \/ batch[b].pc \in {"sending", "storing"}
    \/ batch[b].pc = "querying" /\ b \in Range(toServer) \cup Range(toClient)

Init ==
    /\ nextPreKeyId = 1
    /\ firstUnuploadedPreKeyId = 1
    /\ registeredToServer = FALSE
    /\ credsFile = [next |-> 1, first |-> 1, registered |-> FALSE]
    /\ saving = FALSE
    /\ store = [i \in KeyIds |-> None]
    /\ writes = [i \in KeyIds |-> <<>>]
    /\ connection = "down"
    /\ toServer = <<>>
    /\ toClient = <<>>
    /\ batch = [b \in Batches |-> Unused]
    /\ server = [i \in KeyIds |-> None]
    /\ stock = {}
    /\ disturbed = FALSE
    /\ overlapped = FALSE

-----------------------------------------------------------------------------
(* Starting a batch.                                                       *)

\* generatePreKeys(nextPreKeyId, INITIAL_PREKEYS), and the node that carries the
\* public keys is sent.  The counter is not advanced yet, and nothing waits for the
\* batch before: the application calls uploadPreKeys() when it likes, and a login
\* is confirmed before the registration's files are written.
Start(kind) ==
    /\ overlapped' = (overlapped \/ \E b \in Batches : Active(b))
    /\ \E b \in Batches :
          /\ batch[b] = Unused
          /\ \A a \in Batches : a < b => batch[a] # Unused
          /\ batch' = [batch EXCEPT ![b] =
                [kind |-> kind, first |-> nextPreKeyId,
                 pc |-> IF kind = "registration" THEN "sending" ELSE "querying"]]
          /\ toServer' = Append(toServer, b)

\* The handshake is complete: sendLoginNode().
Login ==
    /\ connection = "down"
    /\ connection' = "login"
    /\ IF registeredToServer /\ KnowsMe
       THEN UNCHANGED <<batch, toServer, overlapped>>
       ELSE Start("registration")
    /\ UNCHANGED <<creds, disk, saving, writes, toClient, remote, disturbed>>

\* client.uploadPreKeys()
UserUpload ==
    /\ connection # "down"
    /\ Start("upload")
    /\ UNCHANGED <<creds, disk, saving, writes, connection, toClient, remote, disturbed>>

\* The test of sendInitialQueries().
PreKeysNeeded == nextPreKeyId - firstUnuploadedPreKeyId < MIN_PREKEYS

\* The server has dealt with what it was sent and confirms the login: handleSuccess() up
\* to the await of the presence node.
LoginConfirmed ==
    /\ connection = "login"
    /\ toServer = <<>>
    /\ connection' = "confirmed"
    /\ registeredToServer' = TRUE
    /\ UNCHANGED <<nextPreKeyId, firstUnuploadedPreKeyId, disk, saving, writes,
                   network, batch, remote, history>>

\* The presence node is written: sendInitialQueries().
InitialQueries ==
    /\ connection = "confirmed"
    /\ connection' = "open"
    /\ IF PreKeysNeeded
       THEN Start("upload")
       ELSE UNCHANGED <<batch, toServer, overlapped>>
    /\ UNCHANGED <<creds, disk, saving, writes, toClient, remote, disturbed>>

-----------------------------------------------------------------------------
(* The rest of a batch's job.                                              *)

\* A file's mutex serves the last comer first.
StoreBatchMistake(b) ==
    /\ batch' = [batch EXCEPT ![b].pc = "storing"]
    /\ writes' = [i \in KeyIds |-> IF i \in Ids(b) THEN <<b>> \o writes[i] ELSE writes[i]]

\* keys.set(): one write per key, each behind its file's mutex.
StoreBatch(b) ==
    /\ batch' = [batch EXCEPT ![b].pc = "storing"]
    /\ writes' = [i \in KeyIds |-> IF i \in Ids(b) THEN Append(writes[i], b) ELSE writes[i]]

\* The write of the registration node is done (sendNode resolves).
RegistrationSent(b) ==
    /\ batch[b].pc = "sending"
    /\ connection # "down"
    /\ StoreBatch(b)
    /\ UNCHANGED <<creds, disk, saving, connection, network, remote, history>>

\* The iq result of an upload arrives (query resolves), unless its query is over.
\* The write of a node completes before the answer to a later one is read.
Response ==
    /\ toClient # <<>>
    /\ \A a \in Batches : batch[a].pc = "sending" => a > Head(toClient)
    /\ toClient' = Tail(toClient)
    /\ LET b == Head(toClient)
       IN  IF batch[b].pc = "querying"
           THEN StoreBatch(b)
           ELSE UNCHANGED <<batch, writes>>
    /\ UNCHANGED <<creds, disk, saving, connection, toServer, remote, history>>

\* withTimeout() rejects the query.
QueryTimesOut(b) ==
    /\ batch[b].pc = "querying"
    /\ batch' = [batch EXCEPT ![b].pc = "failed"]
    /\ disturbed' = TRUE
    /\ UNCHANGED <<creds, disk, saving, writes, connection, network, remote, overlapped>>

\* writeJSON() for one key file.
FileWritten(i) ==
    /\ writes[i] # <<>>
    /\ store' = [store EXCEPT ![i] = Head(writes[i])]
    /\ writes' = [writes EXCEPT ![i] = Tail(@)]
    /\ UNCHANGED <<creds, credsFile, saving, connection, network, batch, remote, history>>

Stored(b) == \A i \in Ids(b) : b \notin Range(writes[i])

\* The first counter is advanced to the last id used, the second past it.
BatchDoneMistake(b) ==
    /\ batch[b].pc = "storing"
    /\ Stored(b)
    /\ batch' = [batch EXCEPT ![b].pc = "done"]
    /\ nextPreKeyId' = batch[b].first + INITIAL_PREKEYS - 1
    /\ firstUnuploadedPreKeyId' = IF batch[b].kind = "registration"
                                  THEN nextPreKeyId' + 1 ELSE firstUnuploadedPreKeyId
    /\ saving' = TRUE
    /\ UNCHANGED <<registeredToServer, disk, writes, connection, network, remote, history>>

\* The credentials are updated without awaiting the writes of keys.set().
BatchDoneUnawaited(b) ==
    /\ batch[b].pc = "storing"
    /\ batch' = [batch EXCEPT ![b].pc = "done"]
    /\ nextPreKeyId' = nextPreKeyId + INITIAL_PREKEYS
    /\ firstUnuploadedPreKeyId' = IF batch[b].kind = "registration"
                                  THEN nextPreKeyId' ELSE firstUnuploadedPreKeyId
    /\ saving' = TRUE
    /\ UNCHANGED <<registeredToServer, disk, writes, connection, network, remote, history>>

\* keys.set() resolves: the counters advance and creds.update is emitted.  Only
\* a registration moves firstUnuploadedPreKeyId.
BatchDone(b) ==
    /\ batch[b].pc = "storing"
    /\ Stored(b)
    /\ batch' = [batch EXCEPT ![b].pc = "done"]
    /\ nextPreKeyId' = nextPreKeyId + INITIAL_PREKEYS
    /\ firstUnuploadedPreKeyId' = IF batch[b].kind = "registration"
                                  THEN nextPreKeyId' ELSE firstUnuploadedPreKeyId
    /\ saving' = TRUE
    /\ UNCHANGED <<registeredToServer, disk, writes, connection, network, remote, history>>

\* saveCreds(), called by the application's creds.update listener.
SaveCreds ==
    /\ saving
    /\ saving' = FALSE
    /\ credsFile' = [next |-> nextPreKeyId, first |-> firstUnuploadedPreKeyId,
                     registered |-> registeredToServer]
    /\ batch' = [b \in Batches |-> IF batch[b].pc = "done" THEN [batch[b] EXCEPT !.pc = "saved"]
                                   ELSE batch[b]]
    /\ UNCHANGED <<creds, store, writes, connection, network, remote, history>>

-----------------------------------------------------------------------------
(* The server and the environment.                                         *)

\* The server takes the keys of a registration or of an upload, and confirms
\* the upload.
ServerReceives ==
    /\ toServer # <<>>
    /\ LET b == Head(toServer)
       IN  /\ server' = [i \in KeyIds |-> IF i \in Ids(b) THEN b ELSE server[i]]
           /\ stock' = stock \cup Ids(b)
           /\ toServer' = Tail(toServer)
           /\ toClient' = IF batch[b].kind = "upload" THEN Append(toClient, b) ELSE toClient
    /\ UNCHANGED <<creds, disk, saving, writes, connection, batch, history>>

\* A peer starts a session with the user: one pre-key is used up.
HandOut(i) ==
    /\ i \in stock
    /\ stock' = stock \ {i}
    /\ UNCHANGED <<creds, disk, saving, writes, connection, network, batch, server, history>>

\* The connection is lost with what was under way on it; a send that has not
\* completed is rejected, a query goes on waiting.
ConnectionLost ==
    /\ connection # "down"
    /\ connection' = "down"
    /\ toServer' = <<>>
    /\ toClient' = <<>>
    /\ batch' = [b \in Batches |->
                   IF batch[b].pc = "sending" THEN [batch[b] EXCEPT !.pc = "failed"]
                   ELSE batch[b]]
    /\ disturbed' = TRUE
    /\ UNCHANGED <<creds, disk, saving, writes, remote, overlapped>>

\* The process dies and is started again from its files.  (The loss of a file
\* that is being written is the subject of the key store, not of this module.)
Crash ==
    /\ nextPreKeyId' = credsFile.next
    /\ firstUnuploadedPreKeyId' = credsFile.first
    /\ registeredToServer' = credsFile.registered
    /\ saving' = FALSE
    /\ writes' = [i \in KeyIds |-> <<>>]
    /\ connection' = "down"
    /\ toServer' = <<>>
    /\ toClient' = <<>>
    /\ batch' = [b \in Batches |->
                   IF batch[b].pc \in {"unused", "saved"} THEN batch[b]
                   ELSE [batch[b] EXCEPT !.pc = "failed"]]
    /\ disturbed' = TRUE
    /\ UNCHANGED <<disk, remote, overlapped>>

Next ==
    \/ Login \/ UserUpload \/ LoginConfirmed \/ InitialQueries
    \/ Response \/ SaveCreds \/ ServerReceives
    \/ ConnectionLost \/ Crash
    \/ \E b \in Batches : RegistrationSent(b) \/ QueryTimesOut(b) \/ BatchDone(b)
    \/ \E i \in KeyIds : FileWritten(i) \/ HandOut(i)

Spec == Init /\ [][Next]_vars

-----------------------------------------------------------------------------
Pcs == {"unused", "sending", "querying", "storing", "done", "saved", "failed"}

TypeOK ==
    /\ nextPreKeyId \in Nat \ {0}
    /\ firstUnuploadedPreKeyId \in 1 .. nextPreKeyId
    /\ registeredToServer \in BOOLEAN
    /\ credsFile \in [next : Nat \ {0}, first : Nat \ {0}, registered : BOOLEAN]
    /\ saving \in BOOLEAN
    /\ store \in [KeyIds -> Batches \cup {None}]
    /\ writes \in [KeyIds -> Seq(Batches)]
    /\ connection \in {"down", "login", "confirmed", "open"}
    /\ toServer \in Seq(Batches)
    /\ toClient \in Seq(Batches)
    /\ batch \in [Batches -> [kind : {"none", "registration", "upload"},
                              first : Nat, pc : Pcs]]
    /\ server \in [KeyIds -> Batches \cup {None}]
    /\ stock \subseteq KeyIds
    /\ {disturbed, overlapped} \subseteq BOOLEAN

-----------------------------------------------------------------------------
(* Properties.                                                             *)

\* Unless batches overlap, creds.json never counts a generated key whose file is
\* not written: a process that dies at any point and starts again does not skip
\* the id of a lost key.
CredsNeverAhead ==
    ~overlapped => \A b \in Batches : \A i \in Ids(b) :
                       batch[b] # Unused /\ i < credsFile.next => store[i] # None

\* Unless batches overlap, the keys of an upload that the server has confirmed and
\* creds.json counts are the same on both sides for ever, whatever is lost later.
\* (A crash before saveCreds() has run makes the next batch use the ids again.)
ConfirmedKeysAgree ==
    ~overlapped => \A b \in Batches : batch[b].kind = "upload" /\ batch[b].pc = "saved" =>
                       \A i \in Ids(b) : store[i] = b /\ server[i] = b

Quiet == toServer = <<>> /\ \A b \in Batches : ~Active(b)

\* As long as nothing is lost, the server and the key store agree on every key
\* once all jobs are done, even if overlapping jobs have used the same ids: the
\* nodes, the results and the writes of one file each keep their order.
OrderSavesOverlap ==
    Quiet /\ ~disturbed => \A i \in KeyIds : server[i] # None => store[i] = server[i]

\* types/index.ts:141: nextPreKeyId is the "Counter for generating new pre-keys":
\* no two batches contain the same id.
FreshIds ==
    \A a, b \in Batches : a # b /\ Unused \notin {batch[a], batch[b]} =>
        Ids(a) \cap Ids(b) = {}

\* auth/index.ts:20: "When stock falls below MIN_PREKEYS (5), replenish".  A login
\* that is confirmed while the server's stock is too low starts an upload.
StockReplenished ==
    [][connection = "confirmed" /\ connection' = "open" /\ Cardinality(stock) < MIN_PREKEYS
       => toServer' # <<>>]_vars

=============================================================================
