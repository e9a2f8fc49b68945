---------------------------- MODULE AppStateProofs ----------------------------
(***************************************************************************)
(* The hash of a collection is the hash of its records, for every log of   *)
(* patches, in whatever order, how often and by how many calls at a time   *)
(* they are applied, and whichever of their mutations are skipped or       *)
(* abandoned, as long as an index keeps its key; and patches that are      *)
(* applied in turn, however often one fails half way, make the records of  *)
(* their version.                                                          *)
(***************************************************************************)
EXTENDS AppState, TLAPS

\* No index is written with two keys.
OneKeyPerIndex == \A i \in Indexes : \A k, l \in KeysOf[i] : k = l

\* The device's records, each under a key of its index.
RecordsTyped ==
    /\ indexValueMap = [i \in DOMAIN indexValueMap |-> indexValueMap[i]]
    /\ \A i \in DOMAIN indexValueMap :
          i \in Indexes /\ indexValueMap[i] \in [key : KeysOf[i], value : Values]

\* A running call has a next mutation.
CallsTyped == \A v \in DOMAIN calls :
    v \in DOMAIN log /\ calls[v] \in Nat /\ calls[v] + 1 \in DOMAIN log[v]

LogTyped == log \in Seq(Patches)

IInv == RecordsTyped /\ CallsTyped /\ LogTyped /\ HashOfRecords

-----------------------------------------------------------------------------
\* A patch is a function from positions to mutations.
LEMMA PatchTyped ==
    ASSUME NEW p \in Patches
    PROVE  /\ \A n \in DOMAIN p : p[n] \in Mutation
           /\ p \in Seq(Mutation) /\ Len(p) >= 1 /\ DOMAIN p = 1..Len(p)
  <1>1. PICK n \in 1..MaxMutations : p \in [1..n -> Mutation]
    BY DEF Patches
  <1>2. n \in Nat /\ n >= 1
    BY BoundsAssumption, <1>1
  <1> QED BY <1>1, <1>2

\* What a mutation is, and that its key is one of its index.
LEMMA MutationTyped ==
    ASSUME NEW m \in Mutation
    PROVE  /\ m.index \in Indexes /\ m.key \in KeysOf[m.index]
           /\ m.operation # "REMOVE" => m.value \in Values
  BY DEF Mutation, Sets, Removals

\* Removing the old fragment of an index leaves the hash of the other records.
LEMMA RemoveFragment ==
    ASSUME OneKeyPerIndex, RecordsTyped, HashOfRecords,
           NEW i \in DOMAIN indexValueMap, NEW k \in KeysOf[i]
    PROVE  LtHashAdd(hash, indexValueMap[i], [key |-> k, index |-> i])
             = HashOf(Delete(indexValueMap, i))
  <1> DEFINE f == <<indexValueMap[i], [key |-> k, index |-> i]>>
  <1>1. i \in Indexes /\ indexValueMap[i].key = k
    BY DEF OneKeyPerIndex, RecordsTyped
  <1>2. f \in hash
    BY <1>1 DEF HashOfRecords, HashOf
  <1>3. LtHashAdd(hash, indexValueMap[i], [key |-> k, index |-> i]) = hash \ {f}
    BY <1>2 DEF LtHashAdd
  <1>4. hash \ {f} = HashOf(Delete(indexValueMap, i))
    <2> DEFINE map == Delete(indexValueMap, i)
               g(j) == <<indexValueMap[j], [key |-> indexValueMap[j].key, index |-> j]>>
    <2>1. DOMAIN map = DOMAIN indexValueMap \ {i} /\ \A j \in DOMAIN map : map[j] = indexValueMap[j]
      BY DEF Delete
    <2>2. HashOf(map) = {g(j) : j \in DOMAIN indexValueMap \ {i}}
      BY <2>1 DEF HashOf
    <2>3. hash = {g(j) : j \in DOMAIN indexValueMap}
      BY DEF HashOfRecords, HashOf
    <2>4. \A j \in DOMAIN indexValueMap : g(j) = f <=> j = i
      BY <1>1
    <2> HIDE DEF g, f, map
    <2>5. hash \ {f} = {g(j) : j \in DOMAIN indexValueMap \ {i}}
      BY <2>3, <2>4
    <2> QED BY <2>2, <2>5 DEF map
  <1> QED BY <1>3, <1>4

\* Adding the fragment of an index that has none gives the hash of the records
\* with the new one.
LEMMA AddFragment ==
    ASSUME NEW map, NEW i \in Indexes, i \notin DOMAIN map, NEW k, NEW v
    PROVE  LtHashAdd(HashOf(map), [key |-> k, value |-> v], [key |-> k, index |-> i])
             = HashOf(Put(map, i, [key |-> k, value |-> v]))
  <1> DEFINE mac == [key |-> k, value |-> v]
             f == <<mac, [key |-> k, index |-> i]>>
             new == Put(map, i, mac)
             g(j) == <<map[j], [key |-> map[j].key, index |-> j]>>
             h(j) == <<new[j], [key |-> new[j].key, index |-> j]>>
  <1>1. HashOf(map) = {g(j) : j \in DOMAIN map}
    BY DEF HashOf
  <1>2. \A j \in DOMAIN map : g(j) # f
    OBVIOUS
  <1>3. LtHashAdd(HashOf(map), mac, [key |-> k, index |-> i]) = HashOf(map) \cup {f}
    BY <1>1, <1>2 DEF LtHashAdd
  <1>4. /\ DOMAIN new = DOMAIN map \cup {i}
        /\ new[i] = mac
        /\ \A j \in DOMAIN map : new[j] = map[j]
    BY DEF Put
  <1>5. HashOf(new) = {h(j) : j \in DOMAIN map \cup {i}}
    BY <1>4 DEF HashOf
  <1>6. h(i) = f /\ \A j \in DOMAIN map : h(j) = g(j)
    BY <1>4
  <1> HIDE DEF h, g, f, new, mac
  <1>7. HashOf(map) \cup {f} = HashOf(new)
    BY <1>1, <1>5, <1>6
  <1> QED BY <1>3, <1>7 DEF mac, new

-----------------------------------------------------------------------------
LEMMA RemoveStep ==
    ASSUME OneKeyPerIndex, RecordsTyped, HashOfRecords,
           NEW m \in Mutation, RemoveRecord(m)
    PROVE  RecordsTyped' /\ HashOfRecords'
  <1>1. m.index \in Indexes /\ m.key \in KeysOf[m.index]
    BY MutationTyped
  <1>2. CASE m.index \in DOMAIN indexValueMap
    <2>1. /\ hash' = LtHashAdd(hash, indexValueMap[m.index], [key |-> m.key, index |-> m.index])
          /\ indexValueMap' = Delete(indexValueMap, m.index)
      BY <1>2 DEF RemoveRecord, IndexMac
    <2>2. hash' = HashOf(indexValueMap')
      BY <1>1, <1>2, <2>1, RemoveFragment
    <2> QED BY <2>1, <2>2 DEF RecordsTyped, HashOfRecords, HashOf, Delete
  <1>3. CASE m.index \notin DOMAIN indexValueMap
    BY <1>3 DEF RemoveRecord, RecordsTyped, HashOfRecords, HashOf
  <1> QED BY <1>2, <1>3

LEMMA SetStep ==
    ASSUME OneKeyPerIndex, RecordsTyped, HashOfRecords,
           NEW m \in Mutation, m.operation # "REMOVE", SetRecord(m)
    PROVE  RecordsTyped' /\ HashOfRecords'
  <1> DEFINE i == m.index
             others == Delete(indexValueMap, i)
             mac == [key |-> m.key, value |-> m.value]
             h == IF i \in DOMAIN indexValueMap
                  THEN LtHashAdd(hash, indexValueMap[i], IndexMac(m)) ELSE hash
  <1>1. i \in Indexes /\ m.key \in KeysOf[i] /\ m.value \in Values
    BY MutationTyped
  <1>2. /\ hash' = LtHashAdd(h, mac, [key |-> m.key, index |-> i])
        /\ indexValueMap' = Put(indexValueMap, i, mac)
    BY DEF SetRecord, ValueMac, IndexMac
  <1>3. h = HashOf(others)
    <2>1. CASE i \in DOMAIN indexValueMap
      BY <2>1, <1>1, RemoveFragment DEF IndexMac
    <2>2. CASE i \notin DOMAIN indexValueMap
      <3>1. DOMAIN others = DOMAIN indexValueMap
            /\ \A j \in DOMAIN indexValueMap : others[j] = indexValueMap[j]
        BY <2>2 DEF Delete
      <3> QED BY <2>2, <3>1 DEF HashOf, HashOfRecords
    <2> QED BY <2>1, <2>2
  <1>4. i \notin DOMAIN others
    BY DEF Delete
  <1>5. hash' = HashOf(Put(others, i, mac))
    BY <1>1, <1>2, <1>3, <1>4, AddFragment
  <1>6. Put(others, i, mac) = Put(indexValueMap, i, mac)
    BY DEF Put, Delete
  <1>7. RecordsTyped'
    BY <1>1, <1>2 DEF RecordsTyped, Put
  <1> QED BY <1>2, <1>5, <1>6, <1>7 DEF HashOfRecords, HashOf

LEMMA Initially == Init => IInv
  BY DEF Init, IInv, RecordsTyped, CallsTyped, LogTyped, HashOfRecords, HashOf, Empty

\* The running calls and the log, under no condition.
LEMMA CallsStep ==
    ASSUME CallsTyped, LogTyped, [Next]_vars
    PROVE  CallsTyped' /\ LogTyped'
  <1>1. ASSUME NEW p \in Patches, ServerAppends(p) PROVE CallsTyped' /\ LogTyped'
    <2>1. log' = Append(log, p) /\ UNCHANGED calls
      BY <1>1 DEF ServerAppends, state
    <2>2. LogTyped'
      BY <2>1 DEF LogTyped
    <2>3. \A v \in DOMAIN log : v \in DOMAIN log' /\ log'[v] = log[v]
      BY <2>1 DEF LogTyped
    <2> QED BY <2>1, <2>2, <2>3 DEF CallsTyped
  <1>2. ASSUME NEW v \in DOMAIN log, Call(v) PROVE CallsTyped' /\ LogTyped'
    <2>1. calls' = Put(calls, v, 0) /\ UNCHANGED log
      BY <1>2 DEF Call, server
    <2>2. log[v] \in Patches
      BY <1>2 DEF LogTyped
    <2>3. 0 + 1 \in DOMAIN log[v]
      BY <2>2, PatchTyped
    <2> QED BY <2>1, <2>3 DEF CallsTyped, LogTyped, Put
  <1>3. ASSUME NEW v \in DOMAIN log, ApplyMutation(v) PROVE CallsTyped' /\ LogTyped'
    <2>1. log[v] \in Patches /\ v \in DOMAIN calls /\ UNCHANGED log
      BY <1>3 DEF LogTyped, ApplyMutation, server
    <2>2. CASE calls[v] + 1 = Len(log[v])
      BY <1>3, <2>1, <2>2 DEF ApplyMutation, CallsTyped, LogTyped, Delete
    <2>3. CASE calls[v] + 1 # Len(log[v])
      <3>1. calls' = [calls EXCEPT ![v] = @ + 1]
        BY <1>3, <2>3 DEF ApplyMutation
      <3>2. calls[v] \in Nat /\ calls[v] + 1 + 1 \in DOMAIN log[v]
        BY <2>1, <2>3, PatchTyped DEF CallsTyped
      <3> QED BY <2>1, <3>1, <3>2 DEF CallsTyped, LogTyped
    <2> QED BY <2>2, <2>3
  <1>4. ASSUME NEW v \in DOMAIN log, Fails(v) PROVE CallsTyped' /\ LogTyped'
    BY <1>4 DEF Fails, Delete, server, CallsTyped, LogTyped
  <1>5. CASE (\E k \in Keys : KeyShared(k)) \/ UNCHANGED vars
    BY <1>5 DEF KeyShared, vars, server, CallsTyped, LogTyped
  <1> QED BY <1>1, <1>2, <1>3, <1>4, <1>5 DEF Next

LEMMA Invariance ==
    ASSUME OneKeyPerIndex, IInv, [Next]_vars
    PROVE  IInv'
  <1>1. CallsTyped' /\ LogTyped'
    BY CallsStep DEF IInv
  <1>2. ASSUME NEW v \in DOMAIN log, ApplyMutation(v) PROVE RecordsTyped' /\ HashOfRecords'
    <2> DEFINE m == log[v][calls[v] + 1]
    <2>1. log[v] \in Patches /\ v \in DOMAIN calls
      BY <1>2 DEF IInv, LogTyped, ApplyMutation
    <2>2. m \in Mutation
      BY <2>1, PatchTyped DEF IInv, CallsTyped
    <2>3. CASE m.key \in keyStore /\ m.operation = "REMOVE"
      <3>1. RemoveRecord(m)
        BY <1>2, <2>3 DEF ApplyMutation
      <3> QED BY <2>2, <3>1, RemoveStep DEF IInv
    <2>4. CASE m.key \in keyStore /\ m.operation # "REMOVE"
      <3>1. SetRecord(m)
        BY <1>2, <2>4 DEF ApplyMutation
      <3> QED BY <2>2, <2>4, <3>1, SetStep DEF IInv
    <2>5. CASE m.key \notin keyStore
      BY <1>2, <2>5 DEF ApplyMutation, IInv, RecordsTyped, HashOfRecords, HashOf
    <2> QED BY <2>3, <2>4, <2>5
  <1>3. CASE UNCHANGED <<hash, indexValueMap>>
    BY <1>1, <1>3 DEF IInv, RecordsTyped, HashOfRecords, HashOf
  <1>4. CASE \/ \E p \in Patches : ServerAppends(p)
             \/ \E k \in Keys : KeyShared(k)
             \/ \E v \in DOMAIN log : Call(v) \/ Fails(v)
             \/ UNCHANGED vars
    BY <1>3, <1>4 DEF ServerAppends, KeyShared, Call, Fails, vars, state
  <1> QED BY <1>1, <1>2, <1>3, <1>4 DEF Next, IInv

\* The accumulated hash is the hash of the records held (app-state.ts:67-71), for
\* every number of patches, mutations, failures and running calls, if no index is
\* ever written with two keys.
THEOREM HashCorrect == OneKeyPerIndex => (Spec => []HashOfRecords)
  <1> SUFFICES ASSUME OneKeyPerIndex PROVE Spec => []HashOfRecords
    OBVIOUS
  <1>1. Init => IInv
    BY Initially
  <1>2. IInv /\ [Next]_vars => IInv'
    BY Invariance
  <1>3. IInv => HashOfRecords
    BY DEF IInv
  <1> QED BY <1>1, <1>2, <1>3, PTL DEF Spec

-----------------------------------------------------------------------------
\* Different records have different hashes.
LEMMA HashInjective ==
    ASSUME NEW f, NEW g, f = [i \in DOMAIN f |-> f[i]], g = [i \in DOMAIN g |-> g[i]],
           HashOf(f) = HashOf(g)
    PROVE  f = g
  <1>1. \A i \in DOMAIN f : i \in DOMAIN g /\ g[i] = f[i]
    <2> SUFFICES ASSUME NEW i \in DOMAIN f PROVE i \in DOMAIN g /\ g[i] = f[i]
      OBVIOUS
    <2>1. <<f[i], [key |-> f[i].key, index |-> i]>> \in HashOf(g)
      BY DEF HashOf
    <2>2. PICK j \in DOMAIN g : <<f[i], [key |-> f[i].key, index |-> i]>>
                           = <<g[j], [key |-> g[j].key, index |-> j]>>
      BY <2>1 DEF HashOf
    <2> QED BY <2>2
  <1>2. \A i \in DOMAIN g : i \in DOMAIN f
    <2> SUFFICES ASSUME NEW i \in DOMAIN g PROVE i \in DOMAIN f
      OBVIOUS
    <2>1. <<g[i], [key |-> g[i].key, index |-> i]>> \in HashOf(f)
      BY DEF HashOf
    <2>2. PICK j \in DOMAIN f : <<g[i], [key |-> g[i].key, index |-> i]>>
                           = <<f[j], [key |-> f[j].key, index |-> j]>>
      BY <2>1 DEF HashOf
    <2> QED BY <2>2
  <1> QED BY <1>1, <1>2

LEMMA DivergenceTold ==
    ASSUME RecordsTyped, HashOfRecords
    PROVE  HashTellsDivergence
  <1> DEFINE g == RecordsOf(version)
  <1>1. indexValueMap = [i \in DOMAIN indexValueMap |-> indexValueMap[i]]
    BY DEF RecordsTyped
  <1>2. g = [i \in DOMAIN g |-> g[i]]
    BY DEF RecordsOf, Empty
  <1>3. hash = HashOf(indexValueMap)
    BY DEF HashOfRecords
  <1> HIDE DEF g
  <1>4. HashOf(indexValueMap) = HashOf(g) => indexValueMap = g
    BY <1>1, <1>2, HashInjective
  <1> QED BY <1>3, <1>4 DEF HashTellsDivergence, g

\* Comparing the hashes tells whether the device has the server's records of its
\* version (app-state.ts:22-25), under the same condition.
THEOREM DivergenceDetected == OneKeyPerIndex => (Spec => []HashTellsDivergence)
  <1> SUFFICES ASSUME OneKeyPerIndex PROVE Spec => []HashTellsDivergence
    OBVIOUS
  <1>1. Init => IInv
    BY Initially
  <1>2. IInv /\ [Next]_vars => IInv'
    BY Invariance
  <1>3. IInv => HashTellsDivergence
    BY DivergenceTold DEF IInv
  <1> QED BY <1>1, <1>2, <1>3, PTL DEF Spec

-----------------------------------------------------------------------------
(* The records of a version.                                                *)

\* The server's records after a version.
Rec(v) == IF v = 0 THEN Empty ELSE records[v]

MapTyped ==
    /\ indexValueMap = [i \in DOMAIN indexValueMap |-> indexValueMap[i]]
    /\ DOMAIN indexValueMap \subseteq Indexes

RecordsInv ==
    /\ \E S : records \in Seq(S)
    /\ Len(records) = Len(log)
    /\ \A v \in 1..Len(log) : records[v] = Recorded(Rec(v - 1), log[v])

\* The device has of i what the server has after version v, or what m makes of it.
Agrees(i, v) == /\ i \in DOMAIN indexValueMap <=> i \in DOMAIN Rec(v)
                /\ i \in DOMAIN indexValueMap => indexValueMap[i] = ValueMac(Rec(v)[i])
Has(i, m) == IF m.operation = "SET" THEN i \in DOMAIN indexValueMap /\ indexValueMap[i] = ValueMac(m)
                                    ELSE i \notin DOMAIN indexValueMap

\* Of the first k mutations of a patch the nth is the last of i.
LastOf(patch, k, i, n) ==
    n \in 1..k /\ patch[n].index = i /\ \A l \in 1..k : patch[l].index = i => l <= n

Touched(v, i) == \E n \in DOMAIN log[v] : log[v][n].index = i

\* The first k mutations of patch v have been applied to the records of the version before
\* it; of the indexes that are still to come an earlier attempt may have left anything.
Applied(v, k) ==
    \A i \in Indexes :
        \/ \E n \in 1..k : LastOf(log[v], k, i, n) /\ Has(i, log[v][n])
        \/ (\A n \in 1..k : log[v][n].index # i) /\ (Agrees(i, v - 1) \/ Touched(v, i))

TurnInv ==
    /\ version \in 0..Len(log)
    /\ \A v \in DOMAIN calls : v = version + 1 /\ Applied(v, calls[v])
    /\ DOMAIN calls = {} => \A i \in Indexes :
           Agrees(i, version) \/ (version < Len(log) /\ Touched(version + 1, i))

RInv == CallsTyped /\ LogTyped /\ MapTyped /\ RecordsInv /\ (intact /\ serial => TurnInv)

\* A mutation leaves the other indexes alone.
LEMMA MutationDone ==
    ASSUME MapTyped, NEW m \in Mutation,
           IF m.operation = "REMOVE" THEN RemoveRecord(m) ELSE SetRecord(m)
    PROVE  /\ MapTyped' /\ Has(m.index, m)'
           /\ \A i \in Indexes \ {m.index} :
                 /\ i \in DOMAIN indexValueMap' <=> i \in DOMAIN indexValueMap
                 /\ i \in DOMAIN indexValueMap => indexValueMap'[i] = indexValueMap[i]
  <1>1. m.index \in Indexes
    BY MutationTyped
  <1>2. m.operation \in {"SET", "REMOVE"}
    BY DEF Mutation, Sets, Removals
  <1>3. CASE m.operation = "REMOVE"
    <2>1. indexValueMap' = Delete(indexValueMap, m.index) \/ (m.index \notin DOMAIN indexValueMap /\ UNCHANGED indexValueMap)
      BY <1>3 DEF RemoveRecord
    <2> QED BY <1>1, <1>3, <2>1 DEF MapTyped, Has, Delete
  <1>4. CASE m.operation = "SET"
    <2>1. indexValueMap' = Put(indexValueMap, m.index, ValueMac(m))
      BY <1>4 DEF SetRecord
    <2> QED BY <1>1, <1>4, <2>1 DEF MapTyped, Has, Put
  <1> QED BY <1>2, <1>3, <1>4

\* One mutation more.
LEMMA AppliedStep ==
    ASSUME MapTyped, LogTyped, NEW v \in DOMAIN log, NEW k \in Nat, k + 1 \in DOMAIN log[v], Applied(v, k),
           NEW p, p = log[v], NEW m, m = p[k + 1],
           IF m.operation = "REMOVE" THEN RemoveRecord(m) ELSE SetRecord(m),
           UNCHANGED <<log, records>>
    PROVE  Applied(v, k + 1)' /\ MapTyped'
  <1>1. m \in Mutation
    BY PatchTyped DEF LogTyped
  <1>2. /\ MapTyped' /\ Has(m.index, m)'
        /\ \A i \in Indexes \ {m.index} :
              /\ i \in DOMAIN indexValueMap' <=> i \in DOMAIN indexValueMap
              /\ i \in DOMAIN indexValueMap => indexValueMap'[i] = indexValueMap[i]
    BY <1>1, MutationDone
  <1>3. log'[v] = p
    OBVIOUS
  <1>4. ASSUME NEW i \in Indexes
        PROVE  \/ \E n \in 1..k + 1 : LastOf(p, k + 1, i, n) /\ Has(i, p[n])'
               \/ (\A n \in 1..k + 1 : p[n].index # i) /\ (Agrees(i, v - 1)' \/ Touched(v, i)')
    <2>1. CASE i = m.index
      <3>1. LastOf(p, k + 1, i, k + 1) /\ k + 1 \in 1..k + 1
        BY <2>1 DEF LastOf
      <3> QED BY <1>2, <2>1, <3>1
    <2>2. CASE i # m.index
      <3>1. \A n \in 1..k + 1 : p[n].index = i => n \in 1..k
        BY <2>2
      <3>2. /\ \A x : Has(i, x) => Has(i, x)'
            /\ Agrees(i, v - 1) => Agrees(i, v - 1)'
            /\ Touched(v, i) => Touched(v, i)'
        BY <1>2, <2>2 DEF Has, Agrees, Rec, Touched
      <3>3. CASE \E n \in 1..k : LastOf(p, k, i, n) /\ Has(i, p[n])
        <4>1. PICK n \in 1..k : LastOf(p, k, i, n) /\ Has(i, p[n])
          BY <3>3
        <4>2. LastOf(p, k + 1, i, n) /\ n \in 1..k + 1
          BY <3>1, <4>1 DEF LastOf
        <4> QED BY <3>2, <4>1, <4>2
      <3>4. CASE (\A n \in 1..k : p[n].index # i) /\ (Agrees(i, v - 1) \/ Touched(v, i))
        BY <3>1, <3>2, <3>4
      <3> QED BY <3>3, <3>4 DEF Applied
    <2> QED BY <2>1, <2>2
  <1> QED BY <1>2, <1>3, <1>4 DEF Applied

LEMMA MaxIs ==
    ASSUME NEW S, S \subseteq Int, NEW n \in S, \A l \in S : n >= l
    PROVE  Max(S) = n
  <1>1. \A x \in S : (\A l \in S : x >= l) => x = n
    OBVIOUS
  <1> QED BY <1>1 DEF Max

\* A patch that has been applied to the end makes the records of its version.
LEMMA AllApplied ==
    ASSUME MapTyped, LogTyped, RecordsInv, NEW v \in 1..Len(log), Applied(v, Len(log[v]))
    PROVE  indexValueMap = RecordsOf(v) /\ \A i \in Indexes : Agrees(i, v)
  <1> DEFINE p == log[v]
             old == Rec(v - 1)
  <1>1. v # 0 /\ records[v] = Recorded(old, p) /\ Rec(v) = records[v]
    BY DEF RecordsInv, Rec
  <1>2. DOMAIN p = 1..Len(p) /\ Len(p) \in Nat
    BY PatchTyped DEF LogTyped
  <1>3. Applied(v, Len(p))
    OBVIOUS
  <1> HIDE DEF p, old
  <1>4. ASSUME NEW i \in Indexes PROVE Agrees(i, v)
    <2>1. CASE \E n \in 1..Len(p) : LastOf(p, Len(p), i, n) /\ Has(i, p[n])
      <3>1. PICK n \in 1..Len(p) : LastOf(p, Len(p), i, n) /\ Has(i, p[n])
        BY <2>1
      <3>2. n \in Changes(p, i) /\ \A l \in Changes(p, i) : n >= l
        BY <1>2, <3>1 DEF Changes, LastOf
      <3>3. Changes(p, i) \subseteq Int
        BY <1>2 DEF Changes
      <3>4. Max(Changes(p, i)) = n
        BY <3>2, <3>3, MaxIs
      <3>5. LastChange(p, i) = p[n] /\ Changes(p, i) # {}
        BY <3>2, <3>4 DEF LastChange
      <3>6. /\ i \in DOMAIN records[v] <=> p[n].operation = "SET"
            /\ i \in DOMAIN records[v] => records[v][i] = p[n]
        BY <1>1, <3>5 DEF Recorded
      <3> QED BY <1>1, <3>1, <3>6 DEF Has, Agrees
    <2>2. CASE \A n \in 1..Len(p) : p[n].index # i
      <3>1. Changes(p, i) = {}
        BY <1>2, <2>2 DEF Changes
      <3>2. /\ i \in DOMAIN records[v] <=> i \in DOMAIN old
            /\ i \in DOMAIN records[v] => records[v][i] = old[i]
        BY <1>1, <3>1 DEF Recorded
      <3>3. Agrees(i, v - 1)
        <4>1. ~Touched(v, i)
          BY <1>2, <2>2 DEF Touched, p
        <4> QED BY <1>3, <2>2, <4>1 DEF Applied, LastOf, p
      <3> QED BY <1>1, <3>2, <3>3 DEF Agrees, old
    <2> QED BY <1>3, <2>1, <2>2 DEF Applied, p
  <1>5. DOMAIN records[v] \subseteq Indexes
    BY <1>1 DEF Recorded
  <1>6. indexValueMap = RecordsOf(v)
    BY <1>1, <1>4, <1>5 DEF MapTyped, Agrees, RecordsOf
  <1> QED BY <1>4, <1>6

\* The same in the next state.
LEMMA AllAppliedNext ==
    ASSUME NEW v
    PROVE  (/\ MapTyped /\ LogTyped /\ RecordsInv /\ v \in 1..Len(log) /\ Applied(v, Len(log[v]))
            => indexValueMap = RecordsOf(v) /\ \A i \in Indexes : Agrees(i, v))'
  <1>1. /\ MapTyped /\ LogTyped /\ RecordsInv /\ v \in 1..Len(log) /\ Applied(v, Len(log[v]))
        => indexValueMap = RecordsOf(v) /\ \A i \in Indexes : Agrees(i, v)
    BY AllApplied
  <1> QED BY <1>1, PTL

\* What a step leaves alone: the device's records, and the server's of the versions so far.
LEMMA SameRecords ==
    ASSUME RecordsInv, LogTyped, UNCHANGED indexValueMap,
           \A v \in 1..Len(log) : v \in DOMAIN log' /\ log'[v] = log[v] /\ records'[v] = records[v]
    PROVE  /\ \A v \in DOMAIN log : v \in DOMAIN log' /\ log'[v] = log[v]
           /\ \A v \in 0..Len(log) : Rec(v)' = Rec(v)
           /\ \A i \in Indexes : /\ \A v \in 0..Len(log) : Agrees(i, v)' = Agrees(i, v)
                                 /\ \A v \in DOMAIN log : Touched(v, i)' = Touched(v, i)
           /\ \A v \in DOMAIN log, k \in Nat : Applied(v, k) => Applied(v, k)'
  <1>1. DOMAIN log = 1..Len(log) /\ Len(log) \in Nat /\ DOMAIN records = 1..Len(log)
    BY DEF LogTyped, RecordsInv
  <1>2. \A v \in 1..Len(log) : v \in DOMAIN log' /\ log'[v] = log[v] /\ records'[v] = records[v]
    OBVIOUS
  <1>3. \A v \in 0..Len(log) : Rec(v)' = Rec(v)
    BY <1>1, <1>2 DEF Rec
  <1>4. \A i \in Indexes : \A v \in 0..Len(log) : Agrees(i, v)' = Agrees(i, v)
    BY <1>3 DEF Agrees
  <1>5. \A i \in Indexes : \A v \in DOMAIN log : Touched(v, i)' = Touched(v, i)
    BY <1>1, <1>2 DEF Touched
  <1>6. ASSUME NEW v \in DOMAIN log, NEW k \in Nat, Applied(v, k) PROVE Applied(v, k)'
    <2>1. log'[v] = log[v] /\ v - 1 \in 0..Len(log)
      BY <1>1, <1>2
    <2>2. \A i \in Indexes : \A m : Has(i, m)' = Has(i, m)
      BY DEF Has
    <2>3. \A i \in Indexes : Agrees(i, v - 1)' = Agrees(i, v - 1) /\ Touched(v, i)' = Touched(v, i)
      BY <1>4, <1>5, <2>1
    <2> QED BY <1>6, <2>1, <2>2, <2>3 DEF Applied
  <1> QED BY <1>1, <1>2, <1>3, <1>4, <1>5, <1>6

LEMMA VersionStep ==
    ASSUME RInv, [Next]_vars
    PROVE  RInv' /\ (version' # version /\ intact' /\ serial => indexValueMap' = RecordsOf(version)')
  <1> USE DEF RInv
  <1>1. CallsTyped' /\ LogTyped'
    BY CallsStep
  <1>2. DOMAIN log = 1..Len(log) /\ Len(log) \in Nat
    BY DEF LogTyped
  <1>3. ASSUME NEW p \in Patches, ServerAppends(p)
        PROVE  RInv' /\ version' = version
    <2>1. /\ log' = Append(log, p)
          /\ records' = Append(records, Recorded(IF log = << >> THEN Empty ELSE Last(records), p))
          /\ UNCHANGED <<version, indexValueMap, calls, intact, serial>>
      BY <1>3 DEF ServerAppends, state
    <2>2. /\ Len(log') = Len(log) + 1 /\ log'[Len(log) + 1] = p
          /\ \A v \in 1..Len(log) : log'[v] = log[v]
      BY <1>2, <2>1 DEF LogTyped
    <2>3. PICK S : records \in Seq(S)
      BY DEF RecordsInv
    <2>4. /\ Len(records) = Len(log) /\ Len(records') = Len(log) + 1
          /\ records'[Len(log) + 1] = Recorded(IF log = << >> THEN Empty ELSE Last(records), p)
          /\ \A v \in 1..Len(log) : records'[v] = records[v]
      BY <1>2, <2>1, <2>3 DEF RecordsInv
    <2>5. (IF log = << >> THEN Empty ELSE Last(records)) = Rec(Len(log))
      <3>1. log = << >> <=> Len(log) = 0
        BY DEF LogTyped
      <3> QED BY <2>4, <3>1 DEF Rec, Last
    <2>6. \A v \in 0..Len(log) : Rec(v)' = Rec(v)
      BY <1>2, <2>4 DEF Rec
    <2>7. RecordsInv'
      <3>1. \E T : records' \in Seq(T)
        <4> DEFINE new == Recorded(IF log = << >> THEN Empty ELSE Last(records), p)
        <4>1. records \in Seq(S \cup {new})
          BY <2>3
        <4>2. records' \in Seq(S \cup {new})
          BY <2>1, <4>1
        <4> QED BY <4>2
      <3>2. ASSUME NEW v \in 1..Len(log') PROVE records'[v] = Recorded(Rec(v - 1)', log'[v])
        <4>1. Rec(v - 1)' = Rec(v - 1)
          BY <1>2, <2>2, <2>6
        <4>2. CASE v = Len(log) + 1
          BY <1>2, <2>2, <2>4, <2>5, <4>1, <4>2
        <4>3. CASE v \in 1..Len(log)
          BY <2>2, <2>4, <4>1, <4>3 DEF RecordsInv
        <4> QED BY <1>2, <2>2, <4>2, <4>3
      <3> QED BY <2>2, <2>4, <3>1, <3>2 DEF RecordsInv
    <2>8. ASSUME intact, serial PROVE TurnInv'
      <3>1. /\ \A v \in DOMAIN log : v \in DOMAIN log' /\ log'[v] = log[v]
            /\ \A i \in Indexes : /\ \A v \in 0..Len(log) : Agrees(i, v)' = Agrees(i, v)
                                  /\ \A v \in DOMAIN log : Touched(v, i)' = Touched(v, i)
            /\ \A v \in DOMAIN log, k \in Nat : Applied(v, k) => Applied(v, k)'
        <4>1. \A v \in 1..Len(log) : v \in DOMAIN log' /\ log'[v] = log[v] /\ records'[v] = records[v]
          BY <1>2, <2>1, <2>2, <2>4 DEF LogTyped
        <4> QED BY <2>1, <4>1, SameRecords
      <3>2. TurnInv /\ \A v \in DOMAIN calls : v \in DOMAIN log /\ calls[v] \in Nat
        BY <2>8 DEF CallsTyped
      <3>3. \A v \in DOMAIN calls : v = version + 1 /\ Applied(v, calls[v])'
        <4>1. \A v \in DOMAIN calls : v = version + 1 /\ v \in DOMAIN log /\ calls[v] \in Nat /\ Applied(v, calls[v])
          BY <3>2 DEF TurnInv
        <4> QED BY <2>1, <3>1, <4>1
      <3>4. DOMAIN calls = {} => \A i \in Indexes :
               Agrees(i, version)' \/ (version < Len(log) /\ Touched(version + 1, i)')
        <4>1. version \in 0..Len(log)
          BY <3>2 DEF TurnInv
        <4>2. DOMAIN calls = {} => \A i \in Indexes :
                 Agrees(i, version) \/ (version < Len(log) /\ Touched(version + 1, i))
          BY <3>2 DEF TurnInv
        <4>3. version < Len(log) => version + 1 \in DOMAIN log
          BY <1>2, <4>1
        <4> QED BY <2>1, <3>1, <4>1, <4>2, <4>3
      <3> QED BY <1>2, <2>1, <2>2, <3>2, <3>3, <3>4 DEF TurnInv
    <2> QED BY <1>1, <2>1, <2>7, <2>8 DEF MapTyped
  <1>4. ASSUME UNCHANGED <<log, records, indexValueMap, version>>, intact' => intact, serial' => serial,
               ASSUME intact, serial, TurnInv, intact', serial',
                      \A v \in DOMAIN log, k \in Nat : Applied(v, k) => Applied(v, k)'
               PROVE  /\ \A v \in DOMAIN calls' : v = version + 1 /\ Applied(v, calls'[v])
                      /\ DOMAIN calls' = {} => \A i \in Indexes :
                            Agrees(i, version) \/ (version < Len(log) /\ Touched(version + 1, i))
        PROVE  RInv' /\ version' = version
    <2>1. /\ \A i \in Indexes : /\ \A v \in 0..Len(log) : Agrees(i, v)' = Agrees(i, v)
                                /\ \A v \in DOMAIN log : Touched(v, i)' = Touched(v, i)
          /\ \A v \in DOMAIN log, k \in Nat : Applied(v, k) => Applied(v, k)'
      BY <1>2, <1>4, SameRecords
    <2>2. MapTyped' /\ RecordsInv'
      BY <1>4 DEF MapTyped, RecordsInv, Rec
    <2>3. ASSUME intact', serial' PROVE TurnInv'
      <3>1. TurnInv
        BY <1>4, <2>3
      <3>2. /\ \A v \in DOMAIN calls' : v = version + 1 /\ Applied(v, calls'[v])
            /\ DOMAIN calls' = {} => \A i \in Indexes :
                  Agrees(i, version) \/ (version < Len(log) /\ Touched(version + 1, i))
        BY <1>4, <2>1, <2>3, <3>1
      <3>3. \A v \in DOMAIN calls' : v \in DOMAIN log /\ calls'[v] \in Nat
        BY <1>1, <1>4 DEF CallsTyped
      <3> QED BY <1>2, <1>4, <2>1, <3>1, <3>2, <3>3 DEF TurnInv
    <2> QED BY <1>1, <1>4, <2>2, <2>3
  <1>5. ASSUME NEW v \in DOMAIN log, Call(v) PROVE RInv' /\ version' = version
    <2>1. /\ calls' = Put(calls, v, 0) /\ serial' = (serial /\ v = version + 1 /\ calls = Empty)
          /\ UNCHANGED <<log, records, indexValueMap, version, intact>>
      BY <1>5 DEF Call, server, state
    <2>2. ASSUME intact, serial, TurnInv, serial'
          PROVE  /\ DOMAIN calls' = {v} /\ \A w \in DOMAIN calls' : w = version + 1 /\ Applied(w, calls'[w])
      <3>1. v = version + 1 /\ DOMAIN calls = {}
        BY <2>1, <2>2 DEF Empty
      <3>2. DOMAIN calls' = {v} /\ calls'[v] = 0
        BY <2>1, <3>1 DEF Put
      <3>3. version \in Nat /\ v - 1 = version
        BY <1>2, <2>2, <3>1 DEF TurnInv
      <3>4. Applied(v, 0)
        BY <2>2, <3>1, <3>3 DEF TurnInv, Applied
      <3> QED BY <3>1, <3>2, <3>4
    <2> QED BY <1>4, <2>1, <2>2
  <1>6. ASSUME NEW v \in DOMAIN log, Fails(v) PROVE RInv' /\ version' = version
    <2>1. /\ v \in DOMAIN calls /\ calls' = Delete(calls, v)
          /\ UNCHANGED <<log, records, indexValueMap, version, intact, serial>>
      BY <1>6 DEF Fails, server, state
    <2>2. ASSUME TurnInv
          PROVE  /\ \A w \in DOMAIN calls' : FALSE
                 /\ \A i \in Indexes : Agrees(i, version) \/ (version < Len(log) /\ Touched(version + 1, i))
      <3>1. version \in Nat /\ v = version + 1 /\ Applied(v, calls[v]) /\ DOMAIN calls = {v}
        <4>1. version \in 0..Len(log) /\ \A w \in DOMAIN calls : w = version + 1 /\ Applied(w, calls[w])
          BY <2>2 DEF TurnInv
        <4> QED BY <1>2, <2>1, <4>1
      <3>2. DOMAIN log[v] = 1..Len(log[v]) /\ calls[v] \in 1..Len(log[v]) \cup {0} /\ Len(log[v]) \in Nat
        <4>1. log[v] \in Patches
          BY DEF LogTyped
        <4> QED BY <2>1, <4>1, PatchTyped DEF CallsTyped
      <3>3. \A i \in Indexes : Touched(v, i) \/ Agrees(i, v - 1)
        BY <3>1, <3>2 DEF Applied, LastOf, Touched
      <3>4. v - 1 = version /\ version < Len(log)
        BY <1>2, <3>1
      <3> QED BY <2>1, <3>1, <3>3, <3>4 DEF Delete
    <2> QED BY <1>4, <2>1, <2>2
  <1>7. CASE (\E k \in Keys : KeyShared(k)) \/ UNCHANGED vars
    <2>1. UNCHANGED <<log, records, indexValueMap, version, calls, intact, serial>>
      BY <1>7 DEF KeyShared, vars, server, state
    <2> QED BY <1>4, <2>1 DEF TurnInv
  <1>8. ASSUME NEW v \in DOMAIN log, ApplyMutation(v)
        PROVE  RInv' /\ (version' # version /\ intact' /\ serial => indexValueMap' = RecordsOf(version)')
    <2>1. /\ v \in DOMAIN calls /\ UNCHANGED <<log, records, serial>>
          /\ IF calls[v] + 1 = Len(log[v]) THEN calls' = Delete(calls, v) /\ version' = v
             ELSE calls' = [calls EXCEPT ![v] = @ + 1] /\ UNCHANGED version
      BY <1>8 DEF ApplyMutation, server
    <2>2. PICK m : m = log[v][calls[v] + 1]
      OBVIOUS
    <2>3. IF m.key \in keyStore
          THEN (IF m.operation = "REMOVE" THEN RemoveRecord(m) ELSE SetRecord(m)) /\ UNCHANGED intact
          ELSE intact' = FALSE /\ UNCHANGED <<hash, indexValueMap>>
      BY <1>8, <2>2 DEF ApplyMutation
    <2>4. log[v] \in Patches /\ calls[v] \in Nat /\ calls[v] + 1 \in DOMAIN log[v]
      BY <2>1 DEF LogTyped, CallsTyped
    <2>5. m \in Mutation
      BY <2>2, <2>4, PatchTyped
    <2>6. MapTyped' /\ RecordsInv'
      <3>1. MapTyped'
        BY <2>3, <2>5, MutationDone DEF MapTyped
      <3> QED BY <2>1, <3>1 DEF RecordsInv, Rec
    <2>7. ASSUME intact', serial
          PROVE  TurnInv' /\ (version' # version => indexValueMap' = RecordsOf(version)')
      <3>1. intact /\ (IF m.operation = "REMOVE" THEN RemoveRecord(m) ELSE SetRecord(m))
        BY <2>3, <2>7
      <3>2. TurnInv /\ v = version + 1 /\ Applied(v, calls[v]) /\ DOMAIN calls = {v} /\ version \in Nat
        BY SMTT(30), <1>2, <2>1, <2>7, <3>1 DEF TurnInv
      <3>3. PICK k \in Nat : k = calls[v]
        BY <2>4
      <3>4. Applied(v, k + 1)'
        BY <2>1, <2>2, <2>4, <3>1, <3>2, <3>3, AppliedStep
      <3>5. CASE k + 1 # Len(log[v])
        <4>1. calls' = [calls EXCEPT ![v] = k + 1] /\ version' = version
          BY <2>1, <3>3, <3>5
        <4>2. DOMAIN calls' = {v} /\ calls'[v] = k + 1
          BY <3>2, <4>1
        <4> QED BY <2>1, <3>2, <3>4, <4>1, <4>2 DEF TurnInv
      <3>6. CASE k + 1 = Len(log[v])
        <4>1. DOMAIN calls' = {} /\ version' = v
          BY <2>1, <3>2, <3>3, <3>6 DEF Delete
        <4>2. v \in 1..Len(log') /\ Applied(v, Len(log[v]))'
          BY <1>2, <2>1, <3>4, <3>6
        <4>3. indexValueMap' = RecordsOf(v)' /\ \A i \in Indexes : Agrees(i, v)'
          BY <1>1, <2>6, <4>2, AllAppliedNext
        <4> QED BY <1>2, <2>1, <4>1, <4>3 DEF TurnInv, Agrees, RecordsOf, Rec
      <3> QED BY <3>5, <3>6
    <2> QED BY <1>1, <2>1, <2>6, <2>7
  <1> QED BY <1>3, <1>5, <1>6, <1>7, <1>8 DEF Next

\* When applyPatch() sets a version, the device has the records of that version, for every
\* log, and however often a patch has failed half way and is applied again: as long as
\* patches are applied one after the other and no key is missing.
THEOREM VersionIsOfRecords == Spec => VersionMeansRecords
  <1>1. Init => RInv
    <2> SUFFICES ASSUME Init PROVE RInv
      OBVIOUS
    <2>1. log = << >> /\ records = << >> /\ version = 0 /\ indexValueMap = Empty /\ calls = Empty
      BY DEF Init
    <2>2. Len(log) = 0 /\ DOMAIN Empty = {} /\ Empty = [i \in DOMAIN Empty |-> Empty[i]]
      BY <2>1 DEF Empty
    <2>3. CallsTyped /\ LogTyped /\ MapTyped
      BY <2>1, <2>2 DEF CallsTyped, LogTyped, MapTyped
    <2>4. RecordsInv
      BY <2>1, <2>2 DEF RecordsInv
    <2>5. TurnInv
      BY <2>1, <2>2 DEF TurnInv, Agrees, Rec
    <2> QED BY <2>3, <2>4, <2>5 DEF RInv
  <1>2. RInv /\ [Next]_vars =>
            RInv' /\ (version' # version /\ intact' /\ serial => indexValueMap' = RecordsOf(version)')
    BY VersionStep
  <1>3. RInv /\ [Next]_vars =>
            [version' # version /\ intact' /\ serial => indexValueMap' = RecordsOf(version)']_vars
    BY <1>2
  <1> QED BY <1>1, <1>2, <1>3, PTL DEF Spec, VersionMeansRecords

===============================================================================
