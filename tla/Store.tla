--------------------------------- MODULE Store ---------------------------------
(***************************************************************************)
(* The chats and their message lists in the in-memory store: the listeners *)
(* of bindStoreToEngine(), toJSON(), fromJSON() and clear() of             *)
(* src/src/store/index.ts.  Messaging has the producers of the events, and *)
(* Groups the listeners for groups; EventBuffer has those for contacts,    *)
(* which work as the ones for chats.                                       *)
(*                                                                         *)
(* What an event says of a message is a record with the fields that are in *)
(* the object (content, status); the id of a message and its timestamp     *)
(* never change.  Of a chat the store keeps the conversation timestamp, 0  *)
(* if there is none.  A dump is the text of toJSON(), made in the same turn. *)
(*                                                                         *)
(* An operator whose name ends in Mistake is a variant of the definition   *)
(* after it with a planted error; no specification uses it.                *)
(***************************************************************************)
EXTENDS Integers, Sequences, SequencesExt, FiniteSets, FiniteSetsExt

CONSTANTS
    Messages,     \* pairs of a remoteJid and an id
    Time,         \* message -> messageTimestamp, 0 if there is none
    ChatTimes,    \* conversation timestamps that an event about a chat may carry
    MaxEvents     \* bound: calls and events of the application, incoming messages, restarts

ASSUME PairAssumption == \A m \in Messages : m = <<m[1], m[2]>>
ASSUME TimeAssumption == Time \in [Messages -> Nat] /\ ChatTimes \subseteq Nat
ASSUME BoundsAssumption == MaxEvents \in Nat

Jids == {m[1] : m \in Messages}

VARIABLES
    messages,      \* jid -> sequence of [id, fields]
    chats,         \* jid -> conversationTimestamp, for the chats that there are
    dump,          \* the last toJSON(), with the history at that time
    record,        \* history: message -> fields, for those the store has been told of
    latest,        \* history: jid -> the newest timestamp the chat was told of since it was
                   \* last replaced
    events

contents == <<messages, chats>>
history  == <<record, latest>>
storevars == <<contents, dump, history, events>>

With(map, x, value) == [y \in DOMAIN map \cup {x} |-> IF y = x THEN value ELSE map[y]]

Without(map, S) == Restrict(map, DOMAIN map \ S)

\* { ...old, ...new }
Updated(old, new) ==
    [x \in DOMAIN old \cup DOMAIN new |-> IF x \in DOMAIN new THEN new[x] ELSE old[x]]

StoreInit ==
    /\ messages = [jid \in Jids |-> << >>]
    /\ chats = << >>
    /\ record = << >>
    /\ latest = << >>
    /\ dump = [messages |-> messages, chats |-> chats, record |-> record, latest |-> latest]
    /\ events = 0

Event ==
    /\ events < MaxEvents
    /\ events' = events + 1

-----------------------------------------------------------------------------
(* Messages.                                                                *)

\* findIndex(), from 1; 0 if there is none.
FindIndex(list, id) ==
    LET found == {i \in DOMAIN list : list[i].id = id}
    IN  IF found = {} THEN 0 ELSE Min(found)

\* Some positions in their order, and what a list has there.
InOrder(K) == CHOOSE p \in [1..Cardinality(K) -> K] : \A i, j \in DOMAIN p : i < j => p[i] < p[j]
Only(list, K) == [n \in 1..Cardinality(K) |-> list[InOrder(K)[n]]]

Merged(old, fields) == [old EXCEPT !.fields = Updated(@, fields)]

Upserted(list, id, fields) ==
    LET idx == FindIndex(list, id)
    IN  IF idx > 0 THEN [list EXCEPT ![idx] = Merged(@, fields)]
                   ELSE Append(list, [id |-> id, fields |-> fields])

\* The time of any message is taken.
NewerMistake(jid, t) == IF jid \in DOMAIN chats /\ t # 0 THEN With(chats, jid, t) ELSE chats

\* The chat's last message timestamp.
Newer(jid, t) == IF jid \in DOMAIN chats /\ t > chats[jid] THEN With(chats, jid, t) ELSE chats

MessagesUpsert(m, fields) ==
    /\ messages' = [messages EXCEPT ![m[1]] = Upserted(@, m[2], fields)]
    /\ chats' = Newer(m[1], Time[m])
    /\ record' = With(record, m, IF m \in DOMAIN record THEN Updated(record[m], fields) ELSE fields)
    /\ latest' = IF m[1] \in DOMAIN latest
                 THEN With(latest, m[1], Max({latest[m[1]], Time[m]})) ELSE latest
    /\ UNCHANGED dump

MessagesUpdate(m, fields) ==
    LET idx == FindIndex(messages[m[1]], m[2])
    IN  /\ messages' = IF idx = 0 THEN messages
                       ELSE [messages EXCEPT ![m[1]][idx] = Merged(@, fields)]
        /\ record' = IF m \in DOMAIN record
                     THEN [record EXCEPT ![m] = Updated(@, fields)] ELSE record
        /\ UNCHANGED <<chats, dump, latest>>

\* Each of several keys, of one chat or of several, takes one entry out.
MessagesDelete(keys) ==
    /\ messages' = [jid \in Jids |->
            LET list == messages[jid]
            IN  Only(list, DOMAIN list \ {FindIndex(list, m[2]) : m \in {k \in keys : k[1] = jid}})]
    /\ record' = Without(record, keys)
    /\ UNCHANGED <<chats, dump, latest>>

\* { jid, all: true }
ChatCleared(jid) ==
    /\ messages' = [messages EXCEPT ![jid] = << >>]
    /\ record' = Without(record, {m \in Messages : m[1] = jid})
    /\ UNCHANGED <<chats, dump, latest>>

-----------------------------------------------------------------------------
(* Chats.                                                                   *)

\* A chat with a timestamp, or with none (0), that leaves the old one.
ChatsUpsert(jid, t) ==
    /\ chats' = IF t # 0 \/ jid \notin DOMAIN chats THEN With(chats, jid, t) ELSE chats
    /\ latest' = IF t # 0 \/ jid \notin DOMAIN latest THEN With(latest, jid, t) ELSE latest
    /\ UNCHANGED <<messages, dump, record>>

ChatsUpdate(jid, t) ==
    /\ chats' = IF t # 0 /\ jid \in DOMAIN chats THEN With(chats, jid, t) ELSE chats
    /\ latest' = IF t # 0 /\ jid \in DOMAIN latest THEN With(latest, jid, t) ELSE latest
    /\ UNCHANGED <<messages, dump, record>>

ChatsDelete(jid) ==
    /\ chats' = Without(chats, {jid})
    /\ latest' = Without(latest, {jid})
    /\ UNCHANGED <<messages, dump, record>>

-----------------------------------------------------------------------------
(* History sync, dump and restart.                                          *)

\* What the list has already is not looked for.
NewInMistake(chunk, chat) ==
    {i \in DOMAIN chunk : /\ chunk[i].key[1] = chat
                          /\ \A j \in 1..(i - 1) : chunk[j].key # chunk[i].key}

\* The messages of a chunk that the list of their chat does not have yet.
NewIn(chunk, chat) ==
    {i \in DOMAIN chunk : /\ chunk[i].key[1] = chat
                          /\ FindIndex(messages[chat], chunk[i].key[2]) = 0
                          /\ \A j \in 1..(i - 1) : chunk[j].key # chunk[i].key}

\* A chat that is there is replaced only by the latest sync.
ChatFromHistory(map, jid, t, isLatest) ==
    IF jid \in DOMAIN map /\ ~isLatest THEN map ELSE With(map, jid, t)

Entries(chunk) == [i \in DOMAIN chunk |-> [id |-> chunk[i].key[2], fields |-> chunk[i].fields]]

\* The first that a chunk says of each message.
FirstTold(chunk) ==
    [m \in {chunk[i].key : i \in DOMAIN chunk} |->
        chunk[Min({i \in DOMAIN chunk : chunk[i].key = m})].fields]

\* messaging-history.set: the chunks of a sync overlap, and come between live events.
HistorySet(chunk, jid, t, isLatest) ==
    /\ messages' = [chat \in Jids |-> messages[chat] \o Only(Entries(chunk), NewIn(chunk, chat))]
    /\ chats' = ChatFromHistory(chats, jid, t, isLatest)
    /\ latest' = ChatFromHistory(latest, jid, t, isLatest)
    /\ record' = Updated(FirstTold(chunk), record)
    /\ UNCHANGED dump

ToJSON ==
    /\ dump' = [messages |-> messages, chats |-> chats, record |-> record, latest |-> latest]
    /\ UNCHANGED <<contents, history>>

\* The program starts again, with fromJSON() of the last dump.
FromJSON ==
    /\ messages' = dump.messages
    /\ chats' = dump.chats
    /\ record' = dump.record
    /\ latest' = dump.latest
    /\ UNCHANGED dump

Clear ==
    /\ messages' = [jid \in Jids |-> << >>]
    /\ chats' = << >>
    /\ record' = << >>
    /\ latest' = << >>
    /\ UNCHANGED dump

-----------------------------------------------------------------------------
\* The list of a chat holds each message it was told of and that was not deleted since
\* exactly once, with the fields that live events gave it last, and those of a history sync
\* only where no event has been: however live events, overlapping chunks of history and
\* restarts alternate.
EachMessageOnce ==
    \A jid \in Jids :
        /\ IsInjective([i \in DOMAIN messages[jid] |-> messages[jid][i].id])
        /\ {<<<<jid, e.id>>, e.fields>> : e \in ToSet(messages[jid])}
             = {<<m, record[m]>> : m \in {n \in DOMAIN record : n[1] = jid}}

\* A chat is never less recent than a live message that has come since the chat was last
\* replaced, whatever the order in which messages come, old ones from a time offline
\* included.
ChatIsAsRecent ==
    /\ DOMAIN chats = DOMAIN latest
    /\ \A jid \in DOMAIN chats : chats[jid] >= latest[jid]

===============================================================================
