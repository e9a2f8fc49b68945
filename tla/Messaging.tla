------------------------------- MODULE Messaging -------------------------------
(***************************************************************************)
(* Sending and receiving messages: makeMessagingLayer() of                 *)
(* src/src/socket/messaging.ts, the node handlers of                       *)
(* src/src/socket/engine.ts that emit events, a connection that may be     *)
(* lost, and the store that is bound to the events.                        *)
(*                                                                         *)
(* sendMessage() awaits buildMessageContent(): the rest of it runs after   *)
(* the turn of the caller, those of several calls in their order.  The     *)
(* other operations hand their node to the socket before they return.  All *)
(* events are emitted on the engine's emitter itself, whose listeners run  *)
(* at once: nothing uses the event buffer that makeEngine() makes.         *)
(*                                                                         *)
(* An operator whose name ends in Mistake is a variant of the definition   *)
(* after it with a planted error; no specification uses it.                *)
(***************************************************************************)
EXTENDS Store

CONSTANTS
    Own,           \* messages that the client sends, each with an id of its own
    Chosen,        \* those whose id the caller gives in options.messageId; the ids of the
                   \* others are generated
    Contents,      \* the types of content it sends
    emitOwnEvents  \* of the configuration

ASSUME OwnAssumption == Own \subseteq Messages
ASSUME ChosenAssumption == Chosen \subseteq Own
ASSUME EmitAssumption == emitOwnEvents \in BOOLEAN

Theirs == Messages \ Own

VARIABLES
    connected,
    calls,      \* own message -> "idle", "building", "writing", "sent" or "failed"
    content,    \* own message -> what sendMessage() was given
    turn,       \* calls whose await of the content is over when the turn ends
    writes,     \* calls that await the end of a write
    wire,       \* nodes on the way to the server
    delivered,  \* messages, edits and deletions the server has received
    called,     \* history: the calls of sendMessage() in their order
    hasty       \* history: messages that were named too early to come before what names them

client  == <<calls, content, turn, writes, called, hasty>>
network == <<connected, wire, delivered>>
vars == <<storevars, client, network>>

None == "undefined"
NoKey == << >>

Init ==
    /\ StoreInit
    /\ connected = TRUE
    /\ calls = [m \in Own |-> "idle"]
    /\ content = [m \in Own |-> [type |-> None]]
    /\ turn = << >>
    /\ writes = << >>
    /\ wire = << >>
    /\ delivered = << >>
    /\ called = << >>
    /\ hasty = {}

-----------------------------------------------------------------------------
(* Sending.                                                                 *)

\* The keys that the application can name: results of sendMessage(), messages that it has
\* been told of, and at any time those with an id that it chooses itself.
Keys == {m \in Own : calls[m] = "sent"} \cup DOMAIN record \cup Chosen

\* The message that a content refers to.
RefOf(c) == IF c.type \in {"reaction", "delete", "edit"} THEN c.key ELSE NoKey

\* A key is named by a node that is written before the message, if its call is in such a state.
Named(k, states) == hasty \cup {m \in Own : m = k /\ calls[m] \in states}

MediaTypes == {"image", "video", "audio", "document", "sticker"}

\* buildMessageContent(): << >> if it throws.  The keys of media are "filled after upload",
\* for which there is no code.
BuildMessageContent(c) ==
    CASE c.type = "text" -> <<[kind |-> "text"]>>
      [] c.type = "reaction" -> <<[kind |-> "reaction", key |-> c.key]>>
      [] c.type \in {"delete", "edit"} -> <<[kind |-> "protocol", key |-> c.key]>>
      [] c.type \in MediaTypes -> <<[kind |-> "media"]>>
      [] OTHER -> << >>

Node(tag, type, id, ref) == [tag |-> tag, type |-> type, id |-> id, ref |-> ref]

BuildMessageNode(m, built) ==
    Node("message",
         CASE built.kind = "media" -> "media" [] built.kind = "reaction" -> "reaction" [] OTHER -> "text",
         m, IF "key" \in DOMAIN built THEN built.key ELSE NoKey)

\* sendNode(): it rejects if the socket is not open.
SendNode(node) == wire' = IF connected THEN Append(wire, node) ELSE wire

OwnEvent(m) == [content |-> content[m].type, status |-> "pending"]

ContentsOf(m) ==
    [type : Contents \cap ({"text", "unknown"} \cup MediaTypes)]
        \cup [type : Contents \ ({"text", "unknown"} \cup MediaTypes), key : {k \in Keys : k[1] = m[1]}]

\* The own event comes first.
SendMessageMistake(m, c) ==
    /\ calls[m] = "idle"
    /\ Event
    /\ calls' = [calls EXCEPT ![m] = "building"]
    /\ content' = [content EXCEPT ![m] = c]
    /\ turn' = Append(turn, m)
    /\ called' = Append(called, m)
    /\ hasty' = Named(RefOf(c), {"idle"})
    /\ MessagesUpsert(m, [content |-> c.type, status |-> "pending"])
    /\ UNCHANGED <<writes, network>>

\* sendMessage() or sendReaction(), up to the await of the content.
SendMessage(m, c) ==
    /\ calls[m] = "idle"
    /\ Event
    /\ calls' = [calls EXCEPT ![m] = "building"]
    /\ content' = [content EXCEPT ![m] = c]
    /\ turn' = Append(turn, m)
    /\ called' = Append(called, m)
    /\ hasty' = Named(RefOf(c), {"idle"})
    /\ UNCHANGED <<contents, dump, history, writes, network>>

\* Media take longer.
ResumesMistake(queue) ==
    Min({i \in DOMAIN queue : \/ content[queue[i]].type \notin MediaTypes
                             \/ \A j \in DOMAIN queue : content[queue[j]].type \in MediaTypes})

\* The continuations of awaits that are over run in the order of the calls.
Resumes(queue) == 1

\* sendMessage() after its first await.
ContentBuilt ==
    LET m == turn[Resumes(turn)]
        built == BuildMessageContent(content[m])
    IN  /\ turn # << >>
        /\ turn' = RemoveAt(turn, Resumes(turn))
        /\ IF built # << >> /\ connected
           THEN /\ SendNode(BuildMessageNode(m, built[1]))
                /\ writes' = Append(writes, m)
                /\ calls' = [calls EXCEPT ![m] = "writing"]
           ELSE /\ calls' = [calls EXCEPT ![m] = "failed"]
                /\ UNCHANGED <<wire, writes>>
        /\ UNCHANGED <<storevars, content, called, hasty, connected, delivered>>

TurnOver == turn = << >>

\* The write has ended: the own event, and the caller gets the message.
WriteDone ==
    LET m == Head(writes)
    IN  /\ TurnOver
        /\ writes # << >>
        /\ writes' = Tail(writes)
        /\ calls' = [calls EXCEPT ![m] = "sent"]
        /\ IF emitOwnEvents
           THEN MessagesUpsert(m, OwnEvent(m)) /\ UNCHANGED events
           ELSE UNCHANGED storevars
        /\ UNCHANGED <<content, turn, called, hasty, network>>

\* The operations whose node is handed over at once.
Command(node) ==
    /\ Event
    /\ SendNode(node)
    /\ UNCHANGED <<contents, dump, history, calls, content, turn, writes, called, connected, delivered>>

DeleteMessage(k) ==
    /\ k \in Keys
    /\ Command(Node("message", "revoke", NoKey, k))
    /\ hasty' = Named(k, {"idle", "building"})

EditMessage(k) ==
    /\ k \in Keys
    /\ Command(Node("message", "text", NoKey, k))
    /\ hasty' = Named(k, {"idle", "building"})

SendReadReceipt(k) == k \in Keys /\ Command(Node("receipt", "read", k, NoKey)) /\ UNCHANGED hasty
SendPresenceUpdate == Command(Node("chatstate", None, NoKey, NoKey)) /\ UNCHANGED hasty

-----------------------------------------------------------------------------
(* The connection.                                                          *)

ServerReceives ==
    /\ wire # << >>
    /\ wire' = Tail(wire)
    /\ delivered' = IF Head(wire).tag = "message" THEN Append(delivered, Head(wire)) ELSE delivered
    /\ UNCHANGED <<storevars, client, connected>>

\* Nobody tells those who await the end of a write.
ConnectionLostMistake ==
    /\ TurnOver
    /\ connected
    /\ connected' = FALSE
    /\ wire' = << >>
    /\ writes' = << >>
    /\ UNCHANGED <<storevars, calls, content, turn, called, hasty, delivered>>

\* What has not been received is lost, and writes that have not ended are rejected.
ConnectionLost ==
    /\ TurnOver
    /\ connected
    /\ connected' = FALSE
    /\ wire' = << >>
    /\ writes' = << >>
    /\ calls' = [m \in Own |-> IF calls[m] = "writing" THEN "failed" ELSE calls[m]]
    /\ UNCHANGED <<storevars, content, turn, called, hasty, delivered>>

Reconnected ==
    /\ ~connected
    /\ connected' = TRUE
    /\ UNCHANGED <<storevars, client, wire, delivered>>

-----------------------------------------------------------------------------
(* Receiving, and the other producers of events.                            *)

\* parseMessageNode(): an encrypted message has no body, but every message has the field.
ParseMessageNode(hasBody) == [content |-> IF hasBody THEN "conversation" ELSE "null"]

\* handleMessageNode(); the server may send a message again.
HandleMessageNode(m) ==
    /\ TurnOver
    /\ connected
    /\ Event
    /\ \E hasBody \in BOOLEAN : MessagesUpsert(m, ParseMessageNode(hasBody))
    /\ UNCHANGED <<client, network>>

Received == {delivered[i].id : i \in DOMAIN delivered}

\* handleReceiptNode() emits message-receipt.update, and the application marks the message.
HandleReceiptNode(m) ==
    /\ TurnOver
    /\ connected
    /\ m \in Received
    /\ Event
    /\ MessagesUpdate(m, [status |-> "read"])
    /\ UNCHANGED <<client, network>>

\* What the application has made of the content of a message.
Decrypted(m) ==
    /\ Event
    /\ MessagesUpdate(m, [content |-> "plain"])
    /\ UNCHANGED <<client, network>>

Chunks ==
    LET Old(m) == [key |-> m, fields |-> [content |-> "old"]]
        known == Theirs \cup (Received \cap Own)
    IN  {<<Old(m)>> : m \in known} \cup {<<Old(m), Old(n)>> : m \in known, n \in known}

\* The application emits the events of a history sync and of its own changes.
ApplicationEvent ==
    /\ Event
    /\ \/ \E keys \in SUBSET DOMAIN record : keys # {} /\ MessagesDelete(keys)
       \/ \E jid \in Jids :
             \/ ChatCleared(jid) \/ ChatsDelete(jid)
             \/ \E t \in ChatTimes : ChatsUpsert(jid, t) \/ ChatsUpdate(jid, t)
             \/ \E t \in ChatTimes, isLatest \in BOOLEAN, chunk \in Chunks :
                   jid = chunk[1].key[1] /\ HistorySet(chunk, jid, t, isLatest)
       \/ ToJSON \/ Clear
    /\ UNCHANGED <<client, network>>

\* The process ends, and what it was doing.
Restart ==
    /\ Event
    /\ FromJSON
    /\ connected' = FALSE
    /\ wire' = << >>
    /\ turn' = << >>
    /\ writes' = << >>
    /\ calls' = [m \in Own |-> IF calls[m] \in {"building", "writing"} THEN "failed" ELSE calls[m]]
    /\ UNCHANGED <<content, called, hasty, delivered>>

-----------------------------------------------------------------------------
Next ==
    \/ \E m \in Own : \E c \in ContentsOf(m) : SendMessage(m, c)
    \/ ContentBuilt \/ WriteDone
    \/ \E k \in Keys : DeleteMessage(k) \/ EditMessage(k) \/ SendReadReceipt(k)
    \/ SendPresenceUpdate
    \/ ServerReceives \/ ConnectionLost \/ Reconnected
    \/ \E m \in Theirs : HandleMessageNode(m) \/ Decrypted(m)
    \/ \E m \in Own : HandleReceiptNode(m)
    \/ ApplicationEvent \/ Restart

Spec == Init /\ [][Next]_vars

\* Node.js runs what is due, and a write ends or fails.
Fairness ==
    /\ WF_vars(ContentBuilt)
    /\ WF_vars(WriteDone \/ (writes # << >> /\ ConnectionLost))

FairSpec == Spec /\ Fairness

-----------------------------------------------------------------------------
\* What the server has or will get, in order.
Sent == delivered \o wire

IsOwnMessage(node) == node.tag = "message" /\ node.id \in Own

\* An edit, a deletion or a reaction never comes before the message that it is about,
\* although edits and deletions are written without the wait that sendMessage() begins with:
\* a generated id is named only when its message has been written.  A message whose id was
\* chosen by the caller comes first as well, unless an edit or a deletion was called before its
\* write, or a reaction before its call.
ReferencesFollow ==
    \A i, j \in DOMAIN Sent :
        i < j /\ IsOwnMessage(Sent[j]) /\ Sent[j].id \notin Chosen \cap hasty => Sent[i].ref # Sent[j].id

\* Messages come to the server in the order of the calls, also those of one turn and of
\* different contents, and whatever is lost with a connection.
InCallOrder ==
    \A i, j \in DOMAIN Sent : i < j /\ IsOwnMessage(Sent[i]) /\ IsOwnMessage(Sent[j]) =>
        \E k, l \in DOMAIN called : k < l /\ called[k] = Sent[i].id /\ called[l] = Sent[j].id

\* The store has an own message only if its call has succeeded or the server has it:
\* nothing is shown as sent that has been rejected.
OwnMessagesWereSent ==
    \A m \in Own \cap DOMAIN record : calls[m] = "sent" \/ m \in Received

\* Every sendMessage() comes to an end.
SendsEnd == \A m \in Own : calls[m] = "building" ~> calls[m] \in {"sent", "failed"}

\* messaging.ts:15: "Send the node and await server ACK", and then "Emit messages.upsert":
\* what the store has been told of an own message, the server has.
ServerHasOwnMessages == \A m \in Own : calls[m] = "sent" => m \in Received

\* messaging.ts:5: "several sequential steps that must happen in the right order", also when
\* the caller chooses the id and edits the message in the turn of its call.
ReferencesAlwaysFollow ==
    \A i, j \in DOMAIN Sent : i < j /\ IsOwnMessage(Sent[j]) => Sent[i].ref # Sent[j].id

\* A message that comes again does not undo what the application has made of it.
ContentIsKept ==
    [][\A m \in Theirs \cap DOMAIN record :
         record[m].content = "plain" /\ m \in DOMAIN record' => record'[m].content # "null"]_record

===============================================================================
