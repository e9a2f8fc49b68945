------------------------------ MODULE EventBuffer ------------------------------
(***************************************************************************)
(* The event buffer (makeEventBuffer() of src/src/events/index.ts) between *)
(* a producer of events and the store that bindStoreToEngine() of          *)
(* src/src/store/index.ts binds to them, next to a store that is given the *)
(* same events one by one.                                                 *)
(*                                                                         *)
(* Chats, contacts, messages and groups are items, with a record of fields *)
(* each; an event is about one item (one with several is several in one    *)
(* turn).  A listener may emit events itself, between the emissions of a   *)
(* flush.  Listeners do not throw.                                         *)
(*                                                                         *)
(* An operator whose name ends in Mistake is a variant of the definition   *)
(* after it with a planted error; no specification uses it.                *)
(***************************************************************************)
EXTENDS Integers, Sequences, FiniteSets

CONSTANTS
    Items,         \* pairs of a kind and an id
    Records,       \* what upserts and updates carry: functions from fields
    flushDelayMs,
    MaxEvents      \* bound: events emitted

Kinds == {"chats", "contacts", "messages", "groups"}

ASSUME ItemsAssumption == \A i \in Items : i[1] \in Kinds
ASSUME DelayAssumption == flushDelayMs \in Nat
ASSUME BoundsAssumption == MaxEvents \in Nat

VARIABLES
    upserts, updates, deletes,  \* buf: Items -> record, for some; a set of items
    flushing, flushScheduled,
    pending,    \* a doFlush() waits in the microtask queue or on a timer
    emissions,  \* the rest of the snapshot that doFlush() is emitting
    flushCall,  \* flush(): "none", "owed" (it has data to wait for) or "done"
    store,      \* the records of the store behind the buffer
    direct,     \* history: the records of a store without a buffer
    events,     \* events emitted so far
    inOrder     \* history: the events of each item have come in the order in which a
                \* flush emits them

buf    == <<upserts, updates, deletes>>
flush  == <<flushing, flushScheduled, pending, emissions>>
vars   == <<buf, flush, flushCall, store, direct, events, inOrder>>

Empty == [i \in {} |-> 0]

\* { ...a, ...b }
Merge(a, b) == [f \in DOMAIN a \cup DOMAIN b |-> IF f \in DOMAIN b THEN b[f] ELSE a[f]]
Put(map, i, r) == [j \in DOMAIN map \cup {i} |-> IF j = i THEN r ELSE map[j]]
Delete(map, S) == [j \in DOMAIN map \ S |-> map[j]]

Init ==
    /\ upserts = Empty
    /\ updates = Empty
    /\ deletes = {}
    /\ flushing = FALSE
    /\ flushScheduled = FALSE
    /\ pending = FALSE
    /\ emissions = << >>
    /\ flushCall = "none"
    /\ store = Empty
    /\ direct = Empty
    /\ events = 0
    /\ inOrder = TRUE

-----------------------------------------------------------------------------
(* The listeners of the store.                                              *)

\* Groups are replaced, everything else is merged into what is there.
Upserted(records, new) ==
    [i \in DOMAIN records \cup DOMAIN new |->
        IF i \notin DOMAIN new THEN records[i]
        ELSE IF i \in DOMAIN records /\ i[1] # "groups" THEN Merge(records[i], new[i])
        ELSE new[i]]

\* What is not there is not updated.
Updated(records, new) ==
    [i \in DOMAIN records |->
        IF i \in DOMAIN new THEN Merge(records[i], new[i]) ELSE records[i]]

Applied(records, e) ==
    CASE e.op = "upsert" -> Upserted(records, e.data)
      [] e.op = "update" -> Updated(records, e.data)
      [] e.op = "delete" -> Delete(records, e.data)

-----------------------------------------------------------------------------
(* The buffer.                                                              *)

ScheduleFlush ==
    /\ flushScheduled' = TRUE
    /\ pending' = (pending \/ ~flushScheduled)

Emitted(op, data) ==
    /\ events < MaxEvents
    /\ events' = events + 1
    /\ direct' = Applied(direct, [op |-> op, data |-> data])

\* An item is in the buffer, or in the part of a flush that is still to come.
Buffered(i) == i \in DOMAIN upserts \cup DOMAIN updates \cup deletes
Held(i) == Buffered(i) \/ \E n \in DOMAIN emissions :
    i \in IF emissions[n].op = "delete" THEN emissions[n].data ELSE DOMAIN emissions[n].data

\* An upsert takes the place of the one before it.
Upsert(i, r) ==
    /\ upserts' = Put(upserts, i, r)
    /\ ScheduleFlush
    /\ Emitted("upsert", Put(Empty, i, r))
    /\ inOrder' = (inOrder /\ i \notin DOMAIN updates \cup deletes
                            /\ (i \in DOMAIN upserts => i[1] = "groups"))
    /\ UNCHANGED <<updates, deletes, flushing, emissions, flushCall, store>>

\* An update is merged into the one before it.
Update(i, r) ==
    /\ updates' = Put(updates, i, IF i \in DOMAIN updates THEN Merge(updates[i], r) ELSE r)
    /\ ScheduleFlush
    /\ Emitted("update", Put(Empty, i, r))
    /\ UNCHANGED <<upserts, deletes, flushing, emissions, flushCall, store, inOrder>>

\* Deletions of messages go into the same set.
DeleteChatMistake(i) ==
    /\ i[1] \in {"chats", "messages"}
    /\ deletes' = deletes \cup {i}
    /\ ScheduleFlush
    /\ Emitted("delete", {i})
    /\ UNCHANGED <<upserts, updates, flushing, emissions, flushCall, store, inOrder>>

DeleteChat(i) ==
    /\ i[1] = "chats"
    /\ deletes' = deletes \cup {i}
    /\ ScheduleFlush
    /\ Emitted("delete", {i})
    /\ UNCHANGED <<upserts, updates, flushing, emissions, flushCall, store, inOrder>>

\* messages.delete is not buffered.
DeleteMessage(i) ==
    /\ i[1] = "messages"
    /\ Emitted("delete", {i})
    /\ store' = Delete(store, {i})
    /\ inOrder' = (inOrder /\ ~Held(i))
    /\ UNCHANGED <<buf, flush, flushCall>>

OfKind(map, k) == [i \in {j \in DOMAIN map : j[1] = k} |-> map[i]]

\* A batch without data is not emitted.
Batch(op, map) == IF DOMAIN map = {} THEN << >> ELSE <<[op |-> op, data |-> map]>>

SnapshotOf(k) == Batch("upsert", OfKind(upserts, k)) \o Batch("update", OfKind(updates, k))

SnapshotDeletes ==
    IF deletes = {} THEN << >> ELSE <<[op |-> "delete", data |-> deletes]>>

\* Deletions first.
SnapshotMistake ==
    SnapshotDeletes \o SnapshotOf("chats") \o SnapshotOf("contacts")
        \o SnapshotOf("messages") \o SnapshotOf("groups")

Snapshot ==
    SnapshotOf("chats") \o SnapshotDeletes \o SnapshotOf("contacts")
        \o SnapshotOf("messages") \o SnapshotOf("groups")

\* The next batch goes to the listeners; after the last one the flush is over.
EmitFirstOf(batches) ==
    /\ emissions' = IF batches = << >> THEN << >> ELSE Tail(batches)
    /\ flushing' = (Len(batches) > 1)
    /\ store' = IF batches = << >> THEN store ELSE Applied(store, Head(batches))

\* flushScheduled is not reset.
DoFlushMistake ==
    /\ pending
    /\ ~flushing
    /\ pending' = FALSE
    /\ EmitFirstOf(Snapshot)
    /\ upserts' = Empty /\ updates' = Empty /\ deletes' = {}
    /\ flushCall' = IF flushCall = "owed" THEN "done" ELSE flushCall
    /\ UNCHANGED <<flushScheduled, direct, events, inOrder>>

\* doFlush(), up to the end of its first emission.
DoFlush ==
    /\ pending
    /\ ~flushing
    /\ pending' = FALSE
    /\ flushScheduled' = FALSE
    /\ EmitFirstOf(Snapshot)
    /\ upserts' = Empty /\ updates' = Empty /\ deletes' = {}
    /\ flushCall' = IF flushCall = "owed" THEN "done" ELSE flushCall
    /\ UNCHANGED <<direct, events, inOrder>>

EmitBatch ==
    /\ flushing
    /\ EmitFirstOf(emissions)
    /\ UNCHANGED <<buf, flushScheduled, pending, flushCall, direct, events, inOrder>>

\* flush() does not wait where there is nothing to wait for.
FlushCalled ==
    /\ flushCall = "none"
    /\ flushCall' = IF \E i \in Items : Buffered(i) THEN "owed" ELSE "done"
    /\ ScheduleFlush
    /\ UNCHANGED <<buf, flushing, emissions, store, direct, events, inOrder>>

\* It waits for nothing.
FlushReturnsMistake ==
    /\ flushCall # "none"
    /\ ~flushing
    /\ flushCall' = "none"
    /\ UNCHANGED <<buf, flush, store, direct, events, inOrder>>

\* setImmediate: after the microtasks, which run before any other macrotask; a
\* timer may be later.
FlushReturns ==
    /\ flushCall # "none"
    /\ ~flushing
    /\ flushDelayMs = 0 => ~pending
    /\ flushCall' = "none"
    /\ UNCHANGED <<buf, flush, store, direct, events, inOrder>>

-----------------------------------------------------------------------------
Next ==
    \/ \E i \in Items :
          \/ \E r \in Records : Upsert(i, r) \/ Update(i, r)
          \/ DeleteChat(i) \/ DeleteMessage(i)
    \/ DoFlush \/ EmitBatch \/ FlushCalled \/ FlushReturns

Spec == Init /\ [][Next]_vars

\* Microtasks and timers run, and a flush goes on.
FairSpec == Spec /\ WF_vars(DoFlush) /\ WF_vars(EmitBatch)

-----------------------------------------------------------------------------
TypeOK ==
    /\ DOMAIN upserts \cup DOMAIN updates \cup deletes \cup DOMAIN store
         \cup DOMAIN direct \subseteq Items
    /\ \A i \in deletes : i[1] = "chats"
    /\ {flushing, flushScheduled, pending} \subseteq BOOLEAN
    /\ Len(emissions) <= 3 * Cardinality(Kinds)
    /\ flushCall \in {"none", "owed", "done"}
    /\ events \in 0 .. MaxEvents
    /\ inOrder \in BOOLEAN

Quiescent == emissions = << >> /\ \A i \in Items : ~Buffered(i)

\* No event is forgotten: a buffer with data has a flush coming, whichever turn the
\* data came in.
FlushIsComing == (\E i \in Items : Buffered(i)) => pending

\* The buffer changes when events are delivered, not what they do: as long as the
\* events of each item come in the order in which a flush emits them, the store has
\* what it would have had without the buffer whenever the buffer is empty.
BufferIsTransparent == Quiescent /\ inOrder => store = direct

\* events/index.ts:18: "Consumers get one consolidated event instead of N individual
\* ones.": the same for a producer that emits its events as they come.
ConsolidationKeepsEvents == Quiescent => store = direct

\* The buffer empties and its events get to the store.
BufferDrains == ~Quiescent ~> Quiescent

\* events/index.ts:81-84: after "await flush()" what was buffered is "batch-emitted".
FlushEmits == [][flushCall = "owed" => flushCall' # "none"]_flushCall

===============================================================================
