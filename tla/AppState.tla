------------------------------- MODULE AppState -------------------------------
(***************************************************************************)
(* One collection of the app-state sync (src/src/proto/app-state.ts): the  *)
(* server's log of patches, and a device that applies them with            *)
(* applyPatch(), which awaits the key store before each mutation.          *)
(*                                                                         *)
(* Abstractions.  The 128-byte hash is XOR-linear in its fragments, so it  *)
(* is the set of the fragments that it contains an odd number of times.    *)
(* HMAC and HKDF do not collide: a MAC is its key and its text.  An index  *)
(* or value is encrypted with the iv of its key, so that equal texts have  *)
(* equal blobs and hence equal MACs.                                       *)
(*                                                                         *)
(* The server keeps to the protocol: it sends no mutation without a key id *)
(* or a blob, which applyPatch() would skip as it skips one whose key it   *)
(* does not have, and no patch without mutations.  Nobody applies the same *)
(* patch in two calls at once.                                             *)
(***************************************************************************)
EXTENDS Integers, Sequences, SequencesExt, FiniteSetsExt

CONSTANTS
    Indexes, Values, Keys,
    KeysOf,         \* the keys that the records of an index are written with
    MaxPatches,     \* bound: the length of the server's log
    MaxMutations,   \* bound: the length of a patch
    MaxFailures     \* bound: calls of applyPatch() that throw

ASSUME KeysOfAssumption == KeysOf \in [Indexes -> SUBSET Keys]
ASSUME BoundsAssumption == {MaxPatches, MaxMutations, MaxFailures} \subseteq Nat

VARIABLES
    log,            \* the server's patches; a patch's version is its place
    records,        \* history: the last SET of every index after each patch
    keyStore,       \* the app-state-sync-keys that the device has
    version, hash, indexValueMap,   \* CollectionState
    calls,          \* version -> mutations done, for the running calls of applyPatch()
    failures,
    intact,         \* history: no mutation has been skipped for want of its key
    serial          \* history: every patch has been applied after the one before it,
                    \* and no call made before the last one returned

state  == <<version, hash, indexValueMap>>
server == <<log, records>>
vars   == <<server, keyStore, state, calls, failures, intact, serial>>

\* encryptMutation(): the MACs of the texts under the sub-keys of a key.
ValueMac(m) == [key |-> m.key, value |-> m.value]
IndexMac(m) == [key |-> m.key, index |-> m.index]

Sets     == {m \in [operation : {"SET"}, index : Indexes, value : Values, key : Keys] :
                m.key \in KeysOf[m.index]}
Removals == {m \in [operation : {"REMOVE"}, index : Indexes, key : Keys] :
                m.key \in KeysOf[m.index]}
Mutation == Sets \cup Removals

Empty == [i \in {} |-> 0]
Put(map, i, x) == [j \in DOMAIN map \cup {i} |-> IF j = i THEN x ELSE map[j]]
Delete(map, i) == [j \in DOMAIN map \ {i} |-> map[j]]

Init ==
    /\ log = << >>
    /\ records = << >>
    /\ keyStore = {}
    /\ version = 0
    /\ hash = {}                     \* initLtHash()
    /\ indexValueMap = Empty
    /\ calls = Empty
    /\ failures = 0
    /\ intact = TRUE
    /\ serial = TRUE

-----------------------------------------------------------------------------
\* The server.
Changes(patch, i) == {n \in DOMAIN patch : patch[n].index = i}
LastChange(patch, i) == patch[Max(Changes(patch, i))]

\* What a patch makes of the records: of each index, the last mutation counts.
Recorded(map, patch) ==
    [i \in {j \in Indexes : IF Changes(patch, j) = {} THEN j \in DOMAIN map
                            ELSE LastChange(patch, j).operation = "SET"} |->
        IF Changes(patch, i) = {} THEN map[i] ELSE LastChange(patch, i)]

ServerAppends(patch) ==
    /\ Len(log) < MaxPatches
    /\ log' = Append(log, patch)
    /\ records' = Append(records, Recorded(IF log = << >> THEN Empty ELSE Last(records), patch))
    /\ UNCHANGED <<keyStore, state, calls, failures, intact, serial>>

\* Another device shares a key.
KeyShared(k) ==
    /\ k \notin keyStore
    /\ keyStore' = keyStore \cup {k}
    /\ UNCHANGED <<server, state, calls, failures, intact, serial>>

-----------------------------------------------------------------------------
\* The arguments are swapped.
LtHashSwapped(h, valueMac, indexMac) ==
    LET fragment == <<indexMac, valueMac>>
    IN  IF fragment \in h THEN h \ {fragment} ELSE h \cup {fragment}

\* ltHashAdd(), and ltHashRemove(): XOR with a fragment.
LtHashAdd(h, valueMac, indexMac) ==
    LET fragment == <<valueMac, indexMac>>
    IN  IF fragment \in h THEN h \ {fragment} ELSE h \cup {fragment}

RemoveRecord(m) ==
    IF m.index \in DOMAIN indexValueMap
    THEN /\ hash' = LtHashAdd(hash, indexValueMap[m.index], IndexMac(m))
         /\ indexValueMap' = Delete(indexValueMap, m.index)
    ELSE UNCHANGED <<hash, indexValueMap>>

\* The old fragment is left in the hash.
SetRecordMistake(m) ==
    /\ hash' = LtHashAdd(hash, ValueMac(m), IndexMac(m))
    /\ indexValueMap' = Put(indexValueMap, m.index, ValueMac(m))

SetRecord(m) ==
    /\ hash' = LtHashAdd(IF m.index \in DOMAIN indexValueMap
                         THEN LtHashAdd(hash, indexValueMap[m.index], IndexMac(m))
                         ELSE hash,
                         ValueMac(m), IndexMac(m))
    /\ indexValueMap' = Put(indexValueMap, m.index, ValueMac(m))

\* The version is set before the mutations are done.
CallMistake(v) ==
    /\ v \in DOMAIN log \ DOMAIN calls
    /\ calls' = Put(calls, v, 0)
    /\ serial' = (serial /\ v = version + 1 /\ calls = Empty)
    /\ version' = v
    /\ UNCHANGED <<server, keyStore, hash, indexValueMap, failures, intact>>

\* The application calls applyPatch() with any patch, also with one that it has
\* applied and while other calls run.  The call awaits the first key.
Call(v) ==
    /\ v \in DOMAIN log \ DOMAIN calls
    /\ calls' = Put(calls, v, 0)
    /\ serial' = (serial /\ v = version + 1 /\ calls = Empty)
    /\ UNCHANGED <<server, keyStore, state, failures, intact>>

\* A call goes on with the next mutation; after the last one it sets the version,
\* whatever it has skipped and whatever the version was.
ApplyMutation(v) ==
    /\ v \in DOMAIN calls
    /\ LET m == log[v][calls[v] + 1]
       IN  IF m.key \in keyStore
           THEN /\ IF m.operation = "REMOVE" THEN RemoveRecord(m) ELSE SetRecord(m)
                /\ UNCHANGED intact
           ELSE /\ intact' = FALSE
                /\ UNCHANGED <<hash, indexValueMap>>
    /\ IF calls[v] + 1 = Len(log[v])
       THEN calls' = Delete(calls, v) /\ version' = v
       ELSE calls' = [calls EXCEPT ![v] = @ + 1] /\ UNCHANGED version
    /\ UNCHANGED <<server, keyStore, failures, serial>>

\* The key store or the decryption of a blob throws: the mutations done so far
\* stay, and the version does not change.
Fails(v) ==
    /\ v \in DOMAIN calls
    /\ failures < MaxFailures
    /\ failures' = failures + 1
    /\ calls' = Delete(calls, v)
    /\ UNCHANGED <<server, keyStore, state, intact, serial>>

Patches == UNION {[1..n -> Mutation] : n \in 1..MaxMutations}

Next ==
    \/ \E patch \in Patches : ServerAppends(patch)
    \/ \E k \in Keys : KeyShared(k)
    \/ \E v \in DOMAIN log : Call(v) \/ ApplyMutation(v) \/ Fails(v)

Spec == Init /\ [][Next]_vars

-----------------------------------------------------------------------------
ValueMacs == [key : Keys, value : Values]
IndexMacs == [key : Keys, index : Indexes]

TypeOK ==
    /\ log \in Seq(Patches)
    /\ \A v \in DOMAIN records : Range(records[v]) \subseteq Sets
    /\ keyStore \subseteq Keys
    /\ version \in 0..Len(log)
    /\ hash \subseteq ValueMacs \X IndexMacs
    /\ DOMAIN indexValueMap \subseteq Indexes
    /\ \A i \in DOMAIN indexValueMap : indexValueMap[i] \in ValueMacs
    /\ DOMAIN calls \subseteq DOMAIN log
    /\ \A v \in DOMAIN calls : calls[v] \in 0..Len(log[v]) - 1
    /\ failures \in 0..MaxFailures
    /\ {intact, serial} \subseteq BOOLEAN

\* The hash of a map of records: one fragment for each, under the key that wrote it.
HashOf(map) == {<<map[i], [key |-> map[i].key, index |-> i]>> : i \in DOMAIN map}

\* app-state.ts:67-71: the accumulated hash is the hash of the records held, after
\* any sequence of SETs and REMOVEs, repeated, skipped or abandoned half way, if each
\* index is written with one key (MCAppStateRotated shows that it does not hold if not).
HashOfRecords == hash = HashOf(indexValueMap)

\* app-state.ts:22-25: comparing hashes tells whether the device has the records
\* of its version, even when mutations have been skipped.
RecordsOf(v) == IF v = 0 THEN Empty ELSE [i \in DOMAIN records[v] |-> ValueMac(records[v][i])]

HashTellsDivergence ==
    hash = HashOf(RecordsOf(version)) <=> indexValueMap = RecordsOf(version)

\* When applyPatch() sets a version the device has the records of that version,
\* if the patches were applied one after the other and no key was missing: a patch
\* that failed half way may be applied again.
VersionMeansRecords ==
    [][version' # version /\ intact' /\ serial => indexValueMap' = RecordsOf(version)']_vars

\* app-state.ts:14: a collection's version is a "monotonic counter".
VersionMonotonic == [][version' >= version]_version

===============================================================================
