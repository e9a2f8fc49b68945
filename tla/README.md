# Ex-Machina Proto in TLA+

A TLA+ development for `src/src/`, the TypeScript WhatsApp multi-device client: modules that
model its components, TLC configurations that check them on small instances, and TLAPS proofs of
what matters most for every value of the constants. The modules are translated from the code; where
the code and one of its comments disagree the model follows the code, and a run shows the
difference.

    tlc -config MCEngine.cfg MCEngine      model-check a configuration
    tlapm EngineProofs.tla                 check the proofs of a module

`PROJECT.json` is the machine-readable index: components, runs, the source lines behind each
definition, findings, hazards, theorems, and for each checked property a *mutant*, a variant of a
definition with a planted error (its name ends in `Mistake`, `Unarmed`, `Unawaited` or `Swapped`)
that makes the property fail.

## The system

One Node.js process: single-threaded, callbacks run to their first `await`, everything else
interleaves. "Turn" below means such a stretch of code.

| component | state | operations | interacts with |
|---|---|---|---|
| connection engine `socket/engine.ts` | status, last reason, retries, timer, current `ws` and `noise`, `handshakeComplete` | `connect`, `disconnect`, socket callbacks, node handlers, `handleClose`, `scheduleReconnect` | drives the WebSocket client and the Noise handler; its events go straight to the listeners of `ev` |
| query layer `engine.ts:91-168`, `utils/index.ts` | listeners `TAG:<id>`, timers, promises | `sendNode`, `waitForMessage`, `query`, `withTimeout` | engine (frames), every layer that asks the server |
| pre-keys `engine.ts:262-346,460-520`, `auth/index.ts:80-115` | three counters in the credentials, key files | `sendRegistrationNode`, `sendInitialQueries`, `uploadPreKeys` | query layer, auth store |
| Noise transport `core/noise-handler.ts` | transcript hash, salt, keys, three counters, byte buffer | handshake, `encodeFrame`, `processFrameBuffer` | engine, crypto, binary codec |
| WebSocket client `socket/ws-client.ts` | the `ws` socket, keepalive timer | `connect`, `send`, `close`, events | engine |
| event buffer `events/index.ts` | buffered upserts, updates, deletes; `flushing`, `flushScheduled` | `emit`, `flush`, `doFlush` | none in the code: `makeEngine` creates one (78) and uses it for nothing, so its producers and listeners are the application's |
| auth store `auth/index.ts` | credentials, one file per key, a mutex per file | `get`, `set`, `saveCreds`, load on start | pre-keys, app-state sync, application |
| app-state sync `proto/app-state.ts` | per collection: version, LT hash, index-to-value map | `applyPatch`, `encryptMutation`, `ltHashAdd/Remove` | key store, server's patches |
| in-memory store `store/index.ts` | maps of chats, contacts, messages, groups | listeners of `bindStoreToEngine`, `toJSON/fromJSON`, `clear` | any emitter: the engine's `ev` or an event buffer |
| binary codec, JIDs `binary/` | none | `encodeBinaryNode`, `decodeFramedBinaryNode`, `jidEncode`, `jidDecode` | Noise transport; every layer's nodes |
| messaging `socket/messaging.ts` | none: what it is about to do after an `await` | `sendMessage`, `sendReaction`, `deleteMessage`, `editMessage`, receipts, presence | engine (`sendNode`), store (own events) |
| groups `groups/index.ts` | none | eleven operations, each a query and a parser; `parseGroupNotification` | query layer; store (through the application) |
| crypto, media, logger, banner, config, types, public API | none worth a state | wrappers, pure I/O, delegation | |

What is hard here, and is what the properties are for (all of it is listed at its line under
"hazards" in `PROJECT.json`):

* callbacks of a socket act on the engine's *current* socket and Noise handler, so stale sockets,
  timers whose handle is lost and statuses set after an `await` can meet a newer connection;
* a reason, a counter or a flag is read before an `await` and used after it (pre-key ids,
  `handleSuccess`, `applyPatch`);
* crashes between the server, the key files and `creds.json`;
* answers that are late, duplicated or never come;
* frames cut up anywhere, and counters that both sides must advance alike;
* events regrouped by a flush, and listeners that emit, or call the engine, in the middle of it;
* nodes sent before the handshake has given the keys that are to encrypt them;
* messages written at once beside messages written after an `await`, and about them; own events, receipts, history and
  redelivered messages about the same message;
* an answer read before, and stored after, notifications of later changes.

What makes each component correct: *engine*: one live connection, only as many retries as
configured, no resting place without a reason, no status that lies about the connection; *queries*:
no answer missed, every call ends; *pre-keys*: both sides hold the same key for an id; *Noise*: both
sides derive the same keys and IVs, never use one twice, and the frames come out whole and in order, if
the application waits for the keys before it sends; *events*: nothing lost, nothing reordered to effect; *auth store*: reads are whole, writes take
effect in order and survive; *app state*: the hash is that of the records and gives divergence away;
*store*: each message once, no chat back in time, nothing shown as sent that was rejected; *messaging*:
messages in the order of the calls and before what refers to them, if that uses ids the client has generated;
*groups*: what an operation returns, and it shows a refusal only in some, is what the server did, and the
stored group becomes the server's.

## Modules

| module | models | actions and the code behind them |
|---|---|---|
| `Engine` | engine, WebSocket client | `UserConnect`, `UserDisconnect`, `TimerFires`, `LeakedTimerFires` (a timer whose handle `scheduleReconnect` overwrote); `SocketOpens`, `SocketCloses`, `MessageArrives` (the callbacks); `ListenerReconnects`, `GivingUpReconnects`, `FailureReconnects` (a listener of `connection.update` that calls `connect()` while `handleClose`, the second "closed" of `scheduleReconnect` or `handleFailure` is under way); the frame loop `HandshakeFrame`, `UndecryptableFrame`, `HandleSuccess`, `HandleFailure`, `HandleStreamError`; `PresenceSent` (the rest of `handleSuccess` after its `await`); `ServerSends` (environment) |
| `PreKeys` | registration, upload, key files, `creds.json` | `Login`, `LoginConfirmed`, `InitialQueries` (`handleSuccess` before and after its `await`), `UserUpload`, `RegistrationSent`, `Response`, `QueryTimesOut`, `FileWritten`, `BatchDone`, `SaveCreds`; `Crash`, `ConnectionLost`, `ServerReceives`, `HandOut` (environment) |
| `Query` | `query`, `waitForMessage`, `withTimeout` | `Start`, `Sent`, `Response`, `TimesOut`; `ServerAnswers`, `ConnectionLost`, `Reconnected` |
| `NoiseTransport` | one connection's tunnel | handshake of both sides, `ClientSends` (a node at any time while the socket is open, encrypted or not), reception of arbitrary pieces, one action per frame of the loop |
| `Connection` | what the public API promises: one connection at a time, one retry for each loss that is not final | abstract specification, implemented by `Engine` (`ImplementsConnection`, with the refinement `Client`): it sees the status, the reason, the retries, whether a socket lives and whether a reconnect is scheduled |
| `FrameChannel` | what the tunnel promises: a FIFO of frames | abstract specification, implemented by `NoiseTransport` (`ImplementsChannel`, with the refinement `Channel`) |
| `EventBuffer` | buffer and store listeners, beside a store without a buffer | `Upsert`, `Update`, `DeleteChat`, `DeleteMessage`, `DoFlush`, `EmitBatch`, `FlushCalled`, `FlushReturns` |
| `AuthStore` | multi-file auth state, `BufferJSON` | `SetKeys`, `GetKey`, `SaveCreds`, `ChangeCreds`, `Begin`, `End`, `OpenFails`, `WriteFails` of a request under its mutex (a write may fail before it has emptied its file, or after), `CrashAndRestart` |
| `BinaryCodec` | `encodeBinaryNode`, `decodeFramedBinaryNode`, JIDs | `Send`, `Deliver`; `Compress`, `Cut`, `ServerSendsFb` (environment). The codec itself is `EncodeNode` and `DecodeNode`, with one operator per writer and reader of the code; their recursion is that of functions: of the writers over strings and nodes, of the readers over the calls that are left, since each call takes a byte |
| `Store` | chats and message lists of the in-memory store | `MessagesUpsert`, `MessagesUpdate`, `MessagesDelete`, `ChatCleared`, `ChatsUpsert`, `ChatsUpdate`, `ChatsDelete`, `HistorySet` (listeners), `ToJSON`, `FromJSON`, `Clear`; it has no next-state relation of its own |
| `Messaging` | the messaging layer over `Store` | `SendMessage`, `ContentBuilt`, `WriteDone` (the turns of `sendMessage`), `DeleteMessage`, `EditMessage`, `SendReadReceipt`, `SendPresenceUpdate`; `HandleMessageNode`, `HandleReceiptNode` (engine); `Restart`; `ServerReceives`, `ConnectionLost`, `Reconnected`, `Decrypted`, `ApplicationEvent` (environment) |
| `GroupNodes` | nodes and parsers of the groups layer | one operator per parser, over `getBinaryNodeChild` and its like |
| `Groups` | the groups layer over `Query`, and the group in the store | `Call`, `Returns` (an operation), `NotificationArrives` (parser and store listener), the actions of `Query`; `Serves`, `OthersChange`, `Acknowledged`, `Redelivery` (the server) |
| `AppState` | one collection | `Call`, `ApplyMutation` (one turn of `applyPatch`), `Fails`; `ServerAppends`, `KeyShared` (environment) |
| `EngineProofs`, `PreKeysProofs`, `QueryProofs`, `FrameProofs`, `EventBufferProofs`, `AuthStoreProofs`, `AppStateProofs`, `MessagingProofs` | | theorems about the module of that name; `MessagingProofs` has those about `Store` too, `QueryProofs` those about `Groups`, and `FrameProofs` those about `NoiseTransport` and `BinaryCodec`: the way of a frame and what is in it |
| `MC*` | | instances for TLC that need definitions; the bounds are in the `.cfg` files, and modules that need none are instantiated by a `.cfg` alone |

Abstractions. Names, payloads and keys are model values or numbers; a key is what was mixed into it
and a ciphertext opens under what it was made with; the LT hash, which is XOR-linear, is the set of
fragments it contains an odd number of times; in `BinaryCodec` a string is a sequence of symbols, since
which form it takes depends on its characters, and a buffer is a block with a length, so that lengths up
to 2^31 are exact; a message is its id, and of its fields those that two events can disagree about; wording, logging and layout are left out. The server
and the network are environments that may do whatever the protocol allows, including nothing.

History variables (marked so in the modules) record what happened for a property to refer to
(`revoked`, `overlapped`, `disturbed`, `serial`, `intact`, `inOrder`, `direct`, `register`, `latest`, `called`, `early`, `hasty`, `since` ...); no
action reads them.

## Runs

Each run is one question. Twelve are listed in `PROJECT.json`.

| run | configuration | shows | bounds |
|---|---|---|---|
| `engine` | `MCEngine` | With an application that calls `connect()` only in "closed" and "reconnecting" (and `disconnect()` always): `SingleLiveSocket`, `TimerOnlyWhenDown`, `NoDesync`, `OpenHasConnection`, `BudgetRestoredByLogin`; and live: `ClosingSettles`, `NoEndlessRetry`, `ImplementsConnection` | 2 sockets, 2 retries, 2 frames in flight |
| `engine_any` | `MCEngineAlways` | Both calls in any status, and `connect()` from a listener in the middle of a handler, so with stale sockets, leaked timers and broken counters: `ClosedForAReason` | 2 sockets, 1 retry, 1 frame in flight, 1 leaked timer |
| `prekeys` | `PreKeys` | `CredsNeverAhead`, `ConfirmedKeysAgree`, `OrderSavesOverlap` under lost connections, timeouts, crashes and overlapping batches | 3 batches of 2 keys |
| `query` | `Query` | `NoResponseMissed`, `PendingIsWatched`, `QueriesEnd` | 3 queries, any number of reconnects |
| `noise` | `NoiseTransport` | `NothingRejected`, `UniqueIVs`, `ImplementsChannel` (liveness included) | 4 frames to the client; 2 nodes to the server, and 2 more before there are keys; 1 payload byte, all cuts |
| `events` | `MCEventBuffer` | `FlushIsComing`, `BufferIsTransparent`, `BufferDrains`, `FlushEmits` | 3 events over 4 kinds of item, 2 fields, 2 values |
| `auth` | `MCAuthStore` | `LastCallWins`, `SavedIsDurable`, `NoTornRead`, `CallsEnd` | 3 calls, 2 key files, 1 change of credentials, 1 failing write, 1 crash |
| `appstate` | `MCAppState` | `HashOfRecords`, `HashTellsDivergence`, `VersionMeansRecords` | 2 patches of up to 2 mutations, 2 indexes, 2 values, 2 keys, 1 failure |
| `codec` | `MCBinaryCodec` | `RoundTrip`, `TruncationRefused` | 384 strings in every place of a node; lengths 0, 1, 255, 256, 65535 ... 2^31-1; lists of up to 42; every cut |
| `groups` | `Groups` | `ResultsAreReal`, `StoreConverges` under lost connections, timeouts, refusals, late and repeated answers and notifications | 1 call of any operation, 1 other member, 1 text, 3 changes by others of 5 kinds |
| `messages` | `MCMessaging` | `EachMessageOnce`, `ChatIsAsRecent`, `ReferencesFollow`, `InCallOrder`, `OwnMessagesWereSent`, `SendsEnd` | 3 messages in 2 chats, 2 of them own, one with an id of the caller's choice; 4 contents; 4 calls, events and restarts in all |
| `auth_bytes` | `MCAuthStoreBytes` | violation of `BytesAreBytes` | |

`TypeOK` is checked with `engine`, and proved for `Engine` and `Query`. `PreKeys`, `NoiseTransport`,
`EventBuffer`, `AuthStore` and `AppState` have one too, which the same instances satisfy; the invariants of the
other modules say more of the same variables.

Why the bounds are enough. *Engine*: one current and one stale socket are the two roles the code can
tell apart, since a callback compares nothing; a socket's name is reused after its close, so the
number of connections in a behaviour is unbounded. Two retries give a first, a last and one too many
attempt; two frames in flight let a WebSocket message carry two frames, which is what a failure
followed by a stream error needs. *Pre-keys*: three batches give one that overlaps, one that reuses
an id after a crash and one after it; a batch of two has a first and a last key whose files are
written in either order. *Queries* interact only through the connection. *Noise*: four frames are
the handshake answer and three transport frames, so a piece can contain the end of one frame, a
whole one and the start of a third; the length prefix is cut at every byte. *Events*: three events
make an upsert, two updates of different fields and a flush between any two of them. (Four were
checked once: 1.1 million states, no error.) *Auth*: three calls put a waiting request behind a
waiting request behind a holder; calls are numbered in the order in which they are made, which loses
nothing as calls have no other identity. *App state*: two patches of two mutations let a second call
run between the mutations of the first, a repetition after a failure half way, and a removal or
replacement of each record.

*Codec*: a string takes one of seven forms, chosen by its symbols and its length, and the instance has each form
on both sides of every boundary (253 to 255 packed characters, 255 and 256 raw bytes in one- and two-byte
characters), all strings of up to two symbols, JIDs with every kind of user, device and server, and texts that
`parseInt` takes for numbers or not, with blanks and signs. Its lists
have up to 42 entries: a list is read by a recursive function, and one of 256, whose header has a width of its
own, would be deeper than TLC's stack; the headers of long lists are left to `CodecRoundTrip`, which covers
every list that a header can describe. The length of a string is counted by halves for the same reason, so that
the strings of 256 stay in the instance. *Groups*: an operation meets at most one answer, and three changes
allow adding, promoting and removing a member around it, with any of them redelivered; calls meet each other
only through the group, and two calls at once were checked with fewer kinds of change (415,000 states).
*Messages*: two calls of one turn, and what refers to one of them, before or after it is written, or comes from elsewhere; a chat with an own
and a received message and one with the same id in another; an instance with two own messages in one chat, of
920,000 states, was checked once and holds as well.

Deadlock is checked for `engine`, `engine_any`, `query`, `groups` and `appstate`. The others really stop: the
bound on batches, frames, events or calls ends every behaviour, and a behaviour of `BinaryCodec` is about
one frame, since the codec keeps nothing.

### Fairness

Only what Node.js and its libraries see to is assumed, never anything of the server, the network or
the application:

* `Engine`: timers fire; the frame loop, once entered, runs to its end; the write of the presence node
  completes or fails with its socket; a connection attempt opens or fails (`ws` is given
  `handshakeTimeout`, `ws-client.ts`); a close handshake ends (`ws` destroys the socket of a silent
  peer). All weak: each of these stays possible until it happens.
* `Query`: timers fire; a write completes or fails.
* `Messaging`: the continuations of a turn run; a write ends, or fails with its connection.
* `EventBuffer`: the microtask or timer of a scheduled flush runs; a flush goes on.
* `AuthStore`: the file system answers.
* `NoiseTransport`: bytes that are under way arrive and the loop goes on. TCP does not lose them; a
  connection that breaks ends the model's subject.

`NoEndlessRetry` says that reconnecting for ever implies being open again and again: without a
login the retries run out. It is not a fairness assumption about the server.

## Findings

One run ends in a counterexample, and shows a disagreement between the code and its own text.

`auth_bytes` (code bug, `auth/index.ts:125`). `JSON.stringify` calls a Buffer's own `toJSON()` before the
replacer, so the replacer never sees a Buffer; the reviver wants base64 and leaves
`{type: "Buffer", data: [...]}` alone. Keys made by the crypto module are Buffers and come back from disk as
plain objects after a restart.

### Further configurations

Most of these state, in the same modules, other sentences of the repository that the code does not keep; a
property without a line is an expectation that the modelling raised. Each ends in a short counterexample;
they are kept for reference beside the listed runs.

| configuration | property | what the code does |
|---|---|---|
| `MCBinaryCodecText` | `TextArrives` (`encoder.ts:131`) | a text with an at sign, and a colon followed by a digit, is sent as an `AD_JID`: "moved to 10:30, see you @ work" of an `editMessage()` is read back as "moved to 10:30@s.whatsapp.net"; blanks and a sign before the digit change nothing, since `parseInt` skips them (`jid.ts:86`). `RoundTrip` holds for the strings that `Portable` describes: no such text, no device number above 255, no device on other servers, none of the names that every object inherits |
| `NoiseTransportEarly` | `NodesAreEncrypted` (`engine.ts:128`) | `sendRaw` (133) asks for an open socket and not for keys: a node or a query of the application between the client hello and the server hello goes out in the clear, in the place of the client finish, and the server ends the connection |
| `MCMessagingClaims` (`-continue`) | `ServerHasOwnMessages` (`messaging.ts:15`) | the promise of `sendNode` is that of the write: nobody waits for the server's acknowledgement |
| | `ReferencesAlwaysFollow` (`messaging.ts:5`) | a caller that chooses the id (`options.messageId`, 58) can edit or delete the message in the turn of its call; `editMessage` writes at once, `sendMessage` after an `await`, so the edit goes out first |
| | `ContentIsKept` | a message that the server sends again is merged with `message: null` (`engine.ts:731`, `store/index.ts:241`) over what the application has made of it; the engine acknowledges no message, so the server has reason to |
| `GroupsFull` | `MetadataIsFull` (`groups/index.ts:46`) | an answer of type error resolves the query, and the parser makes a group `undefined@g.us` of it; a description that comes as bytes is dropped |
| `GroupsOvertaken` | `MetadataIsCurrent` (`groups/index.ts:306`) | notifications of the same WebSocket message are handled before the code that awaits the answer stores it, which undoes them |
| `MCEngineReentrant` | `TimerOnlyWhenDown` | a listener that calls `connect()` when it is told "closed" does so in the middle of `handleClose`, which then schedules a reconnect beside the new connection |
| `QueryClosed` | `ClosedConnectionRejects` (`engine.ts:109`) | `waitForMessage` listens for `close` on an emitter on which nothing emits it (114): a lost connection rejects no query |
| `MCEnginePermanent` | `PermanentMeansNoReconnect` (`engine.ts:27`) | any later `disconnect()` overwrites the reason (577) before the close event reads it: a stream error after the failure of a revoked session makes the engine reconnect |
| `MCEventBufferAnyOrder` | `ConsolidationKeepsEvents` (`events/index.ts:18`) | a second upsert in a flush window takes the place of the first (178); a chat deleted and created again ends deleted; a message deleted before the flush comes back. `BufferIsTransparent` is the part that holds |
| `MCEngineTransient` | `TransientReconnects` (`engine.ts:28`) | `connect()` does not reset the reason: after one logout a lost connection is taken for permanent |
| `MCEngineOpen` | `OpenMeansUsable` (`index.ts:86`) | "open" is set after an `await`, even if `disconnect()` was called in between |
| `PreKeysFresh` | `FreshIds` (`types/index.ts:141`) | batches that overlap, or follow a crash before `saveCreds()`, use the same ids for different keys |
| `PreKeysStock` | `StockReplenished` (`auth/index.ts:20`) | the test compares two local counters; an empty stock at the server is not noticed |
| `MCAppStateRotated` | `HashOfRecords` (`app-state.ts:70`) | after a key rotation the old fragment is undone with the new key's index MAC |
| `MCAppStateReplay` | `VersionMonotonic` (`app-state.ts:14`) | an old patch takes the version back |
| `NoiseTransportOverflow` | `UniqueIVs` (`noise-handler.ts:30`) | the counter wraps at its width (1 bit here, 32 in the code) |
| `NoiseTransportMalformed` | `MalformedEndsConnection` (`decoder.ts:17`) | a node that does not decode is logged and skipped |
| `MCAuthStoreCrash` | `IdentityIsPermanent` (`auth/index.ts:45`) | a crash while `creds.json` is written makes a new identity |

## Proofs

### Engine (`EngineProofs`)

For any set of sockets, any `maxRetryCount`, any statuses in which the application disconnects and any
bounds on frames and timers. `TypeCorrect` and `ClosesForAReason` need only the assumptions on the
constants: they hold for an application that calls `connect()` at any time and from its listeners. The others
(`OneSocket`, `TimersAreOwned`, `CountersStayInStep`, `OpenIsConnected`, `BudgetIsEarned`) also assume
`ConnectsWhenDown`: the application calls `connect()` only in "closed" and "reconnecting", and not from a
listener in the middle of a handler. `engine_any` is run without it, and its states break them; with the first
half alone `MCEngineReentrant` breaks `TimerOnlyWhenDown`: both halves are needed.

`ClosedForAReason` is inductive as it stands: whatever reports "closed" has just seen the reason, and whatever
takes the reason away reports another status.

None of the others is. `IInv` adds what they rest on:

* `ConnectsFromRest`: in "closed" and "reconnecting", and whenever a reconnection timer runs, every socket
  has closed, and no timer was left behind by a later one; that makes `connect()` safe;
* `BelongsToCurrent`: whatever is in progress (frames in the loop, the Noise handler, a presence write)
  belongs to the current socket;
* `FlagAgrees`: `handshakeComplete` says whether the current handler has its transport keys, and those
  keys were never put out of step with the server's (`NoDesync`);
* `SingleLiveSocket` and `OpenHasConnection` themselves.

The proof has one step per action and one below it per conjunct that the action can disturb.

`EngineIsConnection` is the safety part of the refinement of `Connection`, under the same assumption: initial
states map to initial states, and `ConnectionStep` takes every action to the step of `Connection` that the user
sees, or to a stutter. It is where the invariants meet: a new connection is made from rest
(`ConnectsFromRest`), whatever disconnects or reports a login does so over a live socket (`BelongsToCurrent`),
and the close of a socket is that of the only live one (`SingleLiveSocket`) while no timer runs, so that each loss
takes one retry. The fairness in `Connection` (a scheduled reconnect is carried out, a connection that is being
closed ends) is left to TLC with `ImplementsConnection`.

### Query (`QueryProofs`)

For any number of queries, with and without a timeout: `TypeCorrect`, `NothingMissed` and `PendingWatched`.
`NoResponseMissed` rests on `PendingIsWatched`, which keeps the listener, and on `IdleIsUnsent`: no response
comes in before its query is made, and a timer runs only while its promise is pending.

`GroupsUseQueries`: each behaviour of `Groups` is one of `Query`. The operations start only idle queries, and
whatever else the layer does leaves the queries alone; so the three theorems hold of it (`NoAnswerMissed`).

`ResultsReal` (`ResultsAreReal`), for any members, texts and number of calls, has two halves. The invariant of the
layer (`GInv`) says what a call that has not returned has: a request until it returns; no answer while the query
is on its way to the server, which takes it once (`ResponsesInOrder`); one from then on, that the parser reads as
what the server did. The other half is that the parsers do (`AnswersAreReal`, `ErrorsAreReal`). The server lists
the members in an order nobody knows, with up to three other children after them, each at a place of its own
(`Places`); so `filter()` keeps exactly the first ones, each once (`FoundFirst`), every participant is read back
with the role that was written (`ListedIsRead`, `ParticipantsAreRead`), and `find()` meets the others. `filter()` and
`find()` are in closed form in `GroupNodes`: the positions of the children with a tag (`With`), in their order.

A refusal resolves the query as any answer does, and what its caller gets differs. Creating, joining and the two
invite codes throw, and nothing else does: `getGroupMetadata` (60) returns a group `undefined@g.us`,
`updateParticipants` (132) an empty list instead of the people it was called with, and the setters and `leaveGroup`
return, so that nobody learns of the refusal. `ResultsAreReal` says this of each operation, beside what each returns
after a success.

`StoreFollows` (`StoreConverges`), for any members, texts, calls, changes and deliveries. Metadata may be newer than
the notifications that are still to come, which are then applied to it again, so that in between the store has a
group that the server never had: its parts are of different times. The invariant is therefore about each thing that
a change can set, the role of a person, a setting or a text: what the store has of it is what it was at the server
at some time that is not before the notifications handled (`Current`, `Follows`). "What it was after s changes" is
said of the log and the present group alone (`At`): it fits before the next change that sets it, or is what the
group has now; so the model needs no history of the group. This is kept

* by the server, whose next change fits what it sets (`ChangeIs`, `AtGrows`, `ServerInv`);
* by an answer, which has one time for all (`Snapshot`, `FollowsFrom`);
* by a notification (`FollowsNext`): a value of before the change becomes that which it gives, and a later one
  becomes that or stays. For a role that rests on the listener: "add" keeps who is there, "promote" and "demote"
  pass over who is not (`After`, `UpdatedHolds`). They would lower a superadmin, whom the server refuses to change;
  so the invariant also says that no change before named one (`Raises`, `NotSuper`);
* by a redelivery, which only weakens it (`FollowsBack`).

When all notifications have come, the only time left is now (`FollowsToEnd`). That the update of a list of
participants, in which each person is once (`Holds`), is an update of each person, and that each notification is
read as the change it tells of (`ChangeArrives`, `CreationArrives`), is proved from the code's parsers and listeners.

### App state (`AppStateProofs`)

For every log of patches, every order, repetition, overlap, skip and failure, assuming
`OneKeyPerIndex` (the records of an index are written with one key; `MCAppStateRotated` shows what
happens otherwise): `HashCorrect`, that the accumulated hash is the hash of the records held, and
`DivergenceDetected`, that it equals the hash of the server's records exactly when the records do. The
inductive invariant types the records, the running calls and the log, and contains `HashOfRecords`; the
lemmas say that adding or undoing a fragment is a symmetric difference, that at most one fragment per
index is in the hash (`RemoveFragment`, `AddFragment`), and that the hash is injective on maps of
records (`HashInjective`).

`VersionIsOfRecords` (`VersionMeansRecords`) needs no such condition. Its invariant, while the patches come in turn
and no key is missing, says what a patch that is being applied has done: the mutations before the present one
have left what they say; an index that none of the patch is about has its record of the version before; and one
that is still to come has that record or whatever an attempt that failed has left there. The server's records
of a version are defined by the last mutation of each index (`Recorded`), so no induction over a patch is needed.

### Pre-keys (`PreKeysProofs`)

For any size and number of batches. Three layers, each under the condition that its property names:

* `Base`, always: types, and the order of things. Batches start one by one; the last ones started are those
  still on the way to the server, the results come back in the order of the batches, and a result is that of
  an upload that the server has received. Everything else leans on it.
* `Apart`, as long as no batch was started beside another (`~overlapped`): at most one batch is at work; the
  ids it uses are not below the counter in `creds.json`; every id below it has its file, and with a confirmed
  batch the same key at the server and in the file. `CountedKeysHaveFiles` (`CredsNeverAhead`) and
  `BothSidesAgree` (`ConfirmedKeysAgree`) follow. That the ranges of two batches do not meet takes one lemma
  of arithmetic (`Multiples`), the only product in the model.
* `Ordered`, as long as nothing is lost (`~disturbed`), overlap or not: a file holds the key of the last batch
  that has stored the id, where no write is waiting, the queue of writes ends with that batch where some is,
  and the server holds the key of the last batch that it has received. When all is done the two are the same
  batch: `OrderIsEnough` (`OrderSavesOverlap`).

### Noise transport (`FrameProofs`)

For any number and length of frames and every way of cutting up the stream. `IInv` says where each side is in
the handshake, that what is under way from the client is exactly the frames the server has not taken
(`Queued`, as long as no node was sent before the keys), and that the bytes in the buffer and on the way are exactly the rest of the server's frames: the
buffer begins at the boundary of a frame, whichever pieces have come. `NeitherSideRejects` (`NothingRejected`)
follows, since both sides mix the same things into the same keys and count alike. The application may send a node
as soon as the socket is open; before the server hello it goes out without a key (`early`), and the server refuses it
in the place of the client's finish (`NodeIsNoFinish`). That is the only refusal there is: the property excepts the
server's with `early > 0`, and nothing of the client's. The other two theorems need no such exception.

`FramingIsChannel` is the safety part of the refinement of `FrameChannel`, step by step: initial states map to
initial states, and a step that takes a frame takes the next one that was sent, once. The fairness in
`FrameChannel` (every frame is taken in the end) is left to TLC with `ImplementsChannel`.

`NoIVTwice` needs the hypothesis that neither side makes more ciphertexts than the counter can tell apart;
`NoiseTransportOverflow` shows that it is needed, and 2^32 frames of one connection satisfy it. The number
2^CounterBits is called N there, since the provers know no exponentiation.

### Binary codec (`FrameProofs`)

For any nodes of any depth, any token tables, any strings and any length of the symbols in UTF-8, a frame that
arrives whole is decoded to its node (`CodecRoundTrip`), and one that lost its end is refused
(`CodecTruncationRefused`). `CodecInv` says that a frame under way is what was written for the node (`InTransit`),
compressed or not, or what a cut has left of it (`Broken`: the cells up to some place, or all of them with a last
block that is shorter).

What the two halves of the code agree on is one relation, `Reads`: where the cells of a writer stand, its reader
takes exactly those and returns what was written, or, if the string means something else to the receiver, takes
exactly those or fails; where they are broken, it fails. That it never takes fewer cells or more is what makes the
reader of the next piece start at the right place. `ReadsJoined` puts two readers one behind the other, `LoopReads`
any number; there is a lemma for every writer with its reader (numbers, lengths, lists, packed strings, the seven
forms of a string, attributes, content, nodes), up to `StringReads` and `NodeReads`.

The recursion: each recursive function is unfolded once (`StringFixpoint`, `NodeFixpoint`, `AgainAndAgain`: it is the
choice of a function with a property, and such a function exists), and followed by induction on the length of a
string, the depth of a node or the number of a turn, as the least counterexample of a set of numbers (`Least`,
`Ind`). A reader gets as many calls as the buffer has bytes, and `ReadersTakeStrings` and `ReadersTakeNodes` show
that this bound of the model never ends a reading.

The assumptions, beside the sizes: the indexes of tokens fit the bytes the code writes them in and the empty string
is no token (`TokensAssumption`, as in `constants.ts`); a string has fewer than 2^31 bytes (`StringsAssumption`, the
limit of V8); a node has attributes with different keys, being a JavaScript object, nodes within that are less deep,
and at most 65535 nodes within and 32766 attributes (`NodesAssumption`): more do not fit the two bytes that
`writeListStart` has for them, and the code does not check it. JIDs of another network have a device of two bytes and
portable strings (`FbJidsAssumption`). A symbol is what JavaScript tells apart and UTF-8 can write, and the blank one
stands for all that `parseInt` skips; a numeral is its value, which JavaScript rounds above 2^53, where no reader or
writer looks at it: it is no device of one byte.

### Event buffer (`EventBufferProofs`)

For any items, records and number of events. `ScheduleInv` (a flush is scheduled exactly while a `doFlush()`
waits, and waits as long as there is data or a caller of `flush()`) gives `NothingIsForgotten`, and, without a
delay, `FlushWaits`; with one it does not hold: `flush()` then returns before the timer.

`BufferChangesNothing` (`BufferIsTransparent`) is the abstraction argument of the component. `TransparentInv`
says that the batches still to be emitted, and after them one upsert, one update and one deletion of all that
is in the buffer, lead from the store to the store that has no buffer. A run of batches is a sequence of
intermediate stores whose existence is proved (`Runs`), so no induction over the batches is needed. The lemmas
are the laws that the buffer relies on: updates compose, an update goes into an upsert before it, a deletion
takes both with it. They hold as long as the events of each item come in the order in which a flush emits them
(`inOrder`); `MCEventBufferAnyOrder` shows what happens otherwise.

### Auth store (`AuthStoreProofs`)

For any files, values, calls, failing writes and crashes. `QueueInvariant`: one request at a time is under way
on a file, and the disk has what was last written as a whole except where a write is under way or has failed after it
had emptied the file; `ReadsAreWhole`
(`NoTornRead`) follows. `OrderOfCalls` (`LastCallWins`) adds what the last request in each queue that is not a
read will leave (`AskedOf`). `SavesAreDurable` (`SavedIsDurable`) adds that credentials in memory, those being
written and those on the disk are in the order of their age (`RecencyInv`), for a client that has not lost its
identity to a crash (`MCAuthStoreCrash` shows how it may).

### Messaging and the store (`MessagingProofs`)

For any messages, contents, timestamps and number of events, with connections and processes that are lost at
any time. `Inv` has three parts:

* `TurnInv` and `CalledInv`: what is due after an `await` is in the order of the calls, and refers only to
  messages that have been written, are due before it, or were named too early (`hasty`);
* `NodesInv` and `OrderInv`: what the server has or will get is about messages that have been written, and
  whose calls were made before those that are still due, or that were named too early; so the next node that is written keeps the order. A
  lost connection leaves some of the nodes in their order (`Thinned`), which keeps it too;
* `StoreInv`: the store *and its dump* have an own message only if its write ended or the server has it. The
  dump is why `OwnMessagesWereSent` is not inductive: a restart brings it back.

`CallsInOrder`, `ReferencesInOrder` and `StoreKnowsSent` follow. `ReferencesFollow` excepts the messages whose id the
caller has chosen and has used for an edit or a deletion before the write, or for a reaction before the call; that
these do come before their message is shown by `MCMessagingClaims`. Ids that the client generates are known to the
application only when `sendMessage` has returned. `ChatsDoNotGoBack` (`ChatIsAsRecent`) needs the
same of the dump (`RecentInv`).

`ListsAreOfRecords` (`EachMessageOnce`) rests on `ListedInv`, again of the store and of its dump: a list is a
sequence of entries of its chat's record, no two with the same id, and none of the record is missing. There is a
lemma for what each listener does to a list (`UpsertedListed`, `MergedListed`, `DeletedListed`, `HistoryListed`).
The loops of the listeners are in closed form in `Store`: `Only(list, K)` keeps the positions K in their order,
which are counted in `InOrderIs`; so no induction over the lists is needed.

Each inductive invariant was checked by TLC on the instance of its run (`CodecInv` on one with fewer strings), and
then proved. The assumptions
are the named ones of the modules: finite widths and bounds are natural numbers, a message is a pair, own
messages are messages, and the like.

### Model-checked only

* Everything under fairness (`ClosingSettles`, `NoEndlessRetry`, `QueriesEnd`,
  `BufferDrains`, `CallsEnd`, `SendsEnd`, the liveness of `Connection` and of `FrameChannel`): the prover does no liveness or `ENABLED`.

## Not modelled

* `handlePresenceNode`, whose event nothing in the repository listens to, and `handleNotificationNode`, which only
  writes a log line: that a notification reaches `parseGroupNotification`, and its result the store, is left to
  the application, and external in `Groups`. Contacts are assignments, and covered by `EventBuffer`.
* `upsertMessage` and `deleteMessages` of the store and `withRetry`, which nothing calls; the predicates on JIDs.
  `upsertMessage` is the only code that reads `maxMessages`: the lists are not bounded, although
  `store/index.ts:13` says that they are.
* Listeners that throw (Node.js ends the process for the unhandled rejection) or call `connect()` at other events
  than "closed"; keepalive pings, which change no state; QR pairing, `parseSyncAction`, the certificate check and
  `AuthStore`'s `clear()`, which are placeholders in the code.
* Sends that are rejected where nothing awaits or catches them (the presence, login and client finish nodes of
  `Engine`): Node.js may end the process for the unhandled rejection, and the model goes on. A client hello whose
  write fails late is a `disconnect()` at some time, which `UserDisconnect` covers.
* In `PreKeys`, writes of key files that fail, which are the subject of `AuthStore`; there, a read that fails for
  another reason than that there is no file. In `AppState`, patches without mutations and two calls for the same
  patch at once. In `BinaryCodec`, attribute values that are no strings and children that are no nodes, which the
  types exclude: the first would be counted in the header of the list and not written (`encoder.ts:64`). In `Groups`,
  the request nodes: a request is what the server reads of it.
* Media: each call encrypts or decrypts one file under a key of its own and makes one HTTP request; it keeps no
  state and meets nothing. With symbolic cryptography its properties would hold by the shape of a model. (The
  header of `media/index.ts` has a download verify `fileSha256`, line 22; `downloadMedia` is not given it, and
  verifies the MAC and, if the caller has it, `fileEncSha256`.)
* Crypto, logger, banner, configuration: wrappers, output and constants.
* `src/engine.js`, an older copy of the engine that nothing imports; the example; a binary archive.
