--------------------------- MODULE EventBufferProofs ---------------------------
(***************************************************************************)
(* The event buffer for any items, records and number of events: data in   *)
(* the buffer has a flush coming, flush() waits for it, and a store behind *)
(* the buffer has in the end what a store without one has.                 *)
(***************************************************************************)
EXTENDS EventBuffer, SequenceTheorems, TLAPS

-----------------------------------------------------------------------------
(* The flush that is coming.                                                *)

\* A flush is scheduled exactly while a doFlush() waits, and it waits as long as there
\* is data or a caller of flush() who has been promised some.
ScheduleInv ==
    /\ {flushScheduled, pending} \subseteq BOOLEAN /\ flushScheduled = pending
    /\ FlushIsComing
    /\ flushCall = "owed" => pending

LEMMA Scheduled ==
    ASSUME ScheduleInv, ScheduleFlush
    PROVE  flushScheduled' = TRUE /\ pending' = TRUE
  BY DEF ScheduleInv, ScheduleFlush

LEMMA ScheduleStep == ASSUME ScheduleInv, [Next]_vars PROVE ScheduleInv'
  <1>1. CASE \E i \in Items : (\E r \in Records : Upsert(i, r) \/ Update(i, r)) \/ DeleteChat(i)
    <2>1. ScheduleFlush
      BY <1>1 DEF Upsert, Update, DeleteChat
    <2> QED BY <2>1, Scheduled DEF ScheduleInv, FlushIsComing
  <1>2. CASE FlushCalled
    <2>1. ScheduleFlush
      BY <1>2 DEF FlushCalled
    <2> QED BY <2>1, Scheduled DEF ScheduleInv, FlushIsComing
  <1>3. CASE DoFlush
    <2>1. \A i \in Items : ~Buffered(i)'
      BY <1>3 DEF DoFlush, Buffered, Empty
    <2> QED BY <1>3, <2>1 DEF DoFlush, ScheduleInv, FlushIsComing
  <1>4. CASE (\E i \in Items : DeleteMessage(i)) \/ EmitBatch \/ FlushReturns \/ UNCHANGED vars
    <2>1. UNCHANGED <<upserts, updates, deletes, flushScheduled, pending>>
          /\ (flushCall' = flushCall \/ flushCall' = "none")
      BY <1>4 DEF DeleteMessage, EmitBatch, FlushReturns, vars, buf, flush
    <2> QED BY <2>1 DEF ScheduleInv, FlushIsComing, Buffered
  <1> QED BY <1>1, <1>2, <1>3, <1>4 DEF Next

LEMMA ScheduleInvariant == Spec => []ScheduleInv
  <1>1. Init => ScheduleInv
    BY DEF Init, ScheduleInv, FlushIsComing, Buffered, Empty
  <1> QED BY <1>1, ScheduleStep, PTL DEF Spec

\* No event is forgotten: whenever there is data in the buffer, a doFlush() waits.
THEOREM NothingIsForgotten == Spec => []FlushIsComing
  <1>1. ScheduleInv => FlushIsComing
    BY DEF ScheduleInv
  <1> QED BY <1>1, ScheduleInvariant, PTL

\* events/index.ts:81-84: without a delay, flush() does not return before what was in
\* the buffer when it was called has been emitted.
THEOREM FlushWaits ==
    ASSUME flushDelayMs = 0
    PROVE  Spec => FlushEmits
  <1>1. ScheduleInv /\ [Next]_vars => [flushCall = "owed" => flushCall' # "none"]_flushCall
    <2> SUFFICES ASSUME ScheduleInv, [Next]_vars, flushCall = "owed", flushCall' = "none"
                 PROVE  FALSE
      BY Zenon
    <2>1. FlushReturns
      BY DEF Next, Upsert, Update, DeleteChat, DeleteMessage, DoFlush, EmitBatch, FlushCalled, vars
    <2> QED BY <2>1 DEF FlushReturns, ScheduleInv
  <1> QED BY <1>1, ScheduleInvariant, PTL DEF Spec, FlushEmits

-----------------------------------------------------------------------------
(* The store behind the buffer.                                             *)

Ops == {"upsert", "update", "delete"}

IsRecords(R) == R = [i \in DOMAIN R |-> R[i]]

\* The batches, one after the other, make result of records; between them the store has
\* been in the states st.
Runs(records, batches, result) ==
    \E st : /\ st[0] = records /\ st[Len(batches)] = result
            /\ \A n \in 1..Len(batches) : batches[n].op \in Ops /\ st[n] = Applied(st[n - 1], batches[n])

\* What a flush of the buffer makes of the records: one upsert of everything, one update
\* and one deletion.
Flushed(R) == Delete(Updated(Upserted(R, upserts), updates), deletes)

\* What is still to be emitted, and then what is in the buffer, make of the store what a
\* store without the buffer is already.
TransparentInv ==
    /\ DOMAIN upserts \subseteq Items /\ DOMAIN updates \subseteq Items
    /\ deletes \subseteq {i \in Items : i[1] = "chats"}
    /\ flushing = (emissions # << >>)
    /\ \E S : emissions \in Seq(S)
    /\ inOrder => /\ IsRecords(store)
                  /\ \E mid : Runs(store, emissions, mid) /\ direct = Flushed(mid)

-----------------------------------------------------------------------------
(* Runs of batches.                                                         *)

LEMMA RunsNone ==
    ASSUME NEW R
    PROVE  Runs(R, << >>, R) /\ \A Q : Runs(R, << >>, Q) => Q = R
  <1>1. Len(<< >>) = 0 /\ \A n \in 1..0 : FALSE
    OBVIOUS
  <1>2. Runs(R, << >>, R)
    <2> DEFINE st == [n \in {0} |-> R]
    <2>1. st[0] = R
      OBVIOUS
    <2> HIDE DEF st
    <2> QED BY <1>1, <2>1 DEF Runs
  <1>3. ASSUME NEW Q, Runs(R, << >>, Q)
        PROVE  Q = R
    BY <1>1, <1>3 DEF Runs
  <1> QED BY <1>2, <1>3

LEMMA RunsOne ==
    ASSUME NEW R, NEW e, e.op \in Ops
    PROVE  Runs(R, <<e>>, Applied(R, e))
  <1> DEFINE st == [n \in {0, 1} |-> IF n = 0 THEN R ELSE Applied(R, e)]
             q == <<e>>
  <1>1. st[0] = R /\ st[1] = Applied(R, e) /\ Len(q) = 1 /\ q[1] = e
    OBVIOUS
  <1> HIDE DEF st, q
  <1>2. \A n \in 1..Len(q) : n = 1 /\ n - 1 = 0
    BY <1>1
  <1>3. Runs(R, q, Applied(R, e))
    BY <1>1, <1>2 DEF Runs
  <1> QED BY <1>3 DEF q

LEMMA RunsConcat ==
    ASSUME NEW S, NEW s \in Seq(S), NEW t \in Seq(S), NEW P, NEW Q, NEW R, Runs(P, s, Q), Runs(Q, t, R)
    PROVE  Runs(P, s \o t, R)
  <1>1. PICK a : /\ a[0] = P /\ a[Len(s)] = Q
                 /\ \A n \in 1..Len(s) : s[n].op \in Ops /\ a[n] = Applied(a[n - 1], s[n])
    BY DEF Runs
  <1>2. PICK b : /\ b[0] = Q /\ b[Len(t)] = R
                 /\ \A n \in 1..Len(t) : t[n].op \in Ops /\ b[n] = Applied(b[n - 1], t[n])
    BY DEF Runs
  <1> DEFINE m == Len(s)
             l == Len(t)
             u == s \o t
             st == [n \in 0..m + l |-> IF n <= m THEN a[n] ELSE b[n - m]]
  <1>3. m \in Nat /\ l \in Nat /\ Len(u) = m + l
        /\ \A n \in 1..m + l : u[n] = IF n <= m THEN s[n] ELSE t[n - m]
    BY ConcatProperties
  <1> HIDE DEF m, l, u
  <1>4. \A n \in 0..m + l : st[n] = IF n <= m THEN a[n] ELSE b[n - m]
    OBVIOUS
  <1> HIDE DEF st
  <1>5. st[0] = P
    BY <1>1, <1>3, <1>4
  <1>6. st[m + l] = R
    <2>1. CASE l = 0
      <3>1. m + l = m /\ m \in 0..m + l /\ m <= m
        BY <1>3, <2>1
      <3>2. st[m] = a[m] /\ b[l] = b[0]
        BY <1>4, <2>1, <3>1
      <3>3. b[l] = R /\ b[0] = Q /\ a[m] = Q
        BY <1>1, <1>2 DEF l, m
      <3> QED BY <3>1, <3>2, <3>3, Zenon
    <2>2. CASE l # 0
      <3> DEFINE z == m + l
      <3>1. z \in 0..m + l /\ ~(z <= m) /\ z - m = l
        BY <1>3, <2>2
      <3> HIDE DEF z
      <3>2. st[z] = b[z - m]
        BY <1>4, <3>1
      <3> QED BY <1>2, <3>1, <3>2, Zenon DEF l, z
    <2> QED BY <2>1, <2>2
  <1>7. ASSUME NEW n \in 1..m + l
        PROVE  u[n].op \in Ops /\ st[n] = Applied(st[n - 1], u[n])
    <2>1. CASE n <= m
      <3>1. n \in 1..m /\ n \in 0..m + l /\ n - 1 \in 0..m + l /\ n - 1 <= m
        BY <1>3, <2>1
      <3>2. st[n] = a[n] /\ st[n - 1] = a[n - 1] /\ u[n] = s[n]
        BY <1>3, <1>4, <2>1, <3>1
      <3> QED BY <1>1, <3>1, <3>2 DEF m
    <2>2. CASE n = m + 1
      <3>1. /\ n - m = 1 /\ n - m - 1 = 0 /\ 1 \in 1..l /\ ~(n <= m) /\ n - 1 = m
            /\ n \in 0..m + l /\ m \in 0..m + l /\ m <= m
        BY <1>3, <2>2
      <3>2. st[n] = b[1] /\ st[m] = a[m] /\ u[n] = t[1]
        BY <1>3, <1>4, <3>1
      <3>3. t[1].op \in Ops /\ b[1] = Applied(b[1 - 1], t[1])
        BY <1>2, <3>1 DEF l
      <3>4. b[1 - 1] = a[m]
        BY <1>1, <1>2 DEF m
      <3> QED BY <3>1, <3>2, <3>3, <3>4
    <2>3. CASE n > m + 1
      <3>1. /\ n - m \in 1..l /\ ~(n <= m) /\ ~(n - 1 <= m) /\ n - 1 - m = n - m - 1
            /\ n \in 0..m + l /\ n - 1 \in 0..m + l
        BY <1>3, <2>3
      <3>2. st[n] = b[n - m] /\ st[n - 1] = b[n - m - 1] /\ u[n] = t[n - m]
        BY <1>3, <1>4, <3>1
      <3> QED BY <1>2, <3>1, <3>2 DEF l
    <2> QED BY <1>3, <2>1, <2>2, <2>3
  <1>8. Runs(P, u, R)
    BY <1>3, <1>5, <1>6, <1>7, ZenonT(40) DEF Runs
  <1> QED BY <1>8 DEF u

LEMMA RunsHead ==
    ASSUME NEW S, NEW s \in Seq(S), s # << >>, NEW P, NEW R, Runs(P, s, R)
    PROVE  Head(s).op \in Ops /\ Runs(Applied(P, Head(s)), Tail(s), R)
  <1>1. PICK a : /\ a[0] = P /\ a[Len(s)] = R
                 /\ \A n \in 1..Len(s) : s[n].op \in Ops /\ a[n] = Applied(a[n - 1], s[n])
    BY DEF Runs
  <1> DEFINE m == Len(s)
             t == Tail(s)
             st == [n \in 0..m - 1 |-> a[n + 1]]
  <1>2. /\ m \in Nat /\ m # 0 /\ Head(s) = s[1] /\ Len(t) = m - 1
        /\ \A n \in 1..m - 1 : t[n] = s[n + 1]
    BY HeadTailProperties, EmptySeq
  <1> HIDE DEF t
  <1>3. s[1].op \in Ops /\ a[1] = Applied(P, s[1])
    <2>1. 1 \in 1..Len(s)
      BY <1>2
    <2>2. a[1] = Applied(a[1 - 1], s[1]) /\ s[1].op \in Ops
      BY <1>1, <2>1
    <2>3. a[1 - 1] = P
      BY <1>1
    <2> QED BY <2>2, <2>3
  <1>4. st[0] = Applied(P, s[1]) /\ st[m - 1] = R
    <2>1. 0 \in 0..m - 1 /\ m - 1 \in 0..m - 1 /\ 0 + 1 = 1 /\ m - 1 + 1 = m
      BY <1>2
    <2>2. st[0] = a[0 + 1] /\ st[m - 1] = a[m - 1 + 1]
      BY <2>1
    <2> QED BY <1>1, <1>3, <2>1, <2>2
  <1>5. ASSUME NEW n \in 1..m - 1
        PROVE  t[n].op \in Ops /\ st[n] = Applied(st[n - 1], t[n])
    <2>1. n \in 0..m - 1 /\ n - 1 \in 0..m - 1 /\ n + 1 \in 1..m /\ n + 1 - 1 = n /\ n - 1 + 1 = n
      BY <1>2
    <2>2. st[n] = a[n + 1] /\ st[n - 1] = a[n - 1 + 1]
      BY <2>1
    <2>3. s[n + 1].op \in Ops /\ a[n + 1] = Applied(a[n + 1 - 1], s[n + 1])
      BY <1>1, <2>1
    <2> QED BY <1>2, <2>1, <2>2, <2>3
  <1> HIDE DEF st, m
  <1>6. Runs(Applied(P, s[1]), t, R)
    BY <1>2, <1>4, <1>5, SMTT(20) DEF Runs
  <1> QED BY <1>2, <1>3, <1>6 DEF t

LEMMA AppliedIsRecords ==
    ASSUME NEW R, NEW e, e.op \in Ops
    PROVE  IsRecords(Applied(R, e))
  <1>1. CASE e.op = "upsert"
    <2>1. Applied(R, e) = Upserted(R, e.data)
      BY <1>1 DEF Applied
    <2> QED BY <2>1 DEF Upserted, IsRecords
  <1>2. CASE e.op = "update"
    <2>1. Applied(R, e) = Updated(R, e.data)
      BY <1>2 DEF Applied
    <2> QED BY <2>1 DEF Updated, IsRecords
  <1>3. CASE e.op = "delete"
    <2>1. Applied(R, e) = Delete(R, e.data)
      BY <1>3 DEF Applied
    <2> QED BY <2>1 DEF Delete, IsRecords
  <1> QED BY <1>1, <1>2, <1>3 DEF Ops

LEMMA RunsIsRecords ==
    ASSUME NEW S, NEW s \in Seq(S), NEW R, NEW Q, IsRecords(R), Runs(R, s, Q)
    PROVE  IsRecords(Q)
  <1>1. PICK a : /\ a[0] = R /\ a[Len(s)] = Q
                 /\ \A n \in 1..Len(s) : s[n].op \in Ops /\ a[n] = Applied(a[n - 1], s[n])
    BY DEF Runs
  <1>2. Len(s) \in Nat
    OBVIOUS
  <1>3. CASE Len(s) = 0
    BY <1>1, <1>3
  <1>4. CASE Len(s) # 0
    <2>1. Len(s) \in 1..Len(s)
      BY <1>2, <1>4
    <2> QED BY <1>1, <2>1, AppliedIsRecords
  <1> QED BY <1>3, <1>4

\* Item i is in one of the batches.
Touches(e, i) == i \in IF e.op = "delete" THEN e.data ELSE DOMAIN e.data

\* A deletion can be brought forward over a batch that has not to do with the item.
LEMMA DeleteFirst ==
    ASSUME NEW R, NEW e, NEW i, e.op \in Ops, ~Touches(e, i)
    PROVE  Applied(Delete(R, {i}), e) = Delete(Applied(R, e), {i})
  <1>1. CASE e.op = "upsert"
    <2>1. \A P : Applied(P, e) = Upserted(P, e.data)
      BY <1>1 DEF Applied
    <2>2. i \notin DOMAIN e.data
      BY <1>1 DEF Touches
    <2> DEFINE d == e.data
               A == Upserted(Delete(R, {i}), d)
               B == Delete(Upserted(R, d), {i})
    <2> HIDE DEF d
    <2>3. DOMAIN A = DOMAIN B
      BY <2>2 DEF Upserted, Delete, d
    <2>4. \A j \in DOMAIN A : A[j] = B[j]
      BY <2>2 DEF Upserted, Delete, d
    <2>5. A = [j \in DOMAIN A |-> A[j]] /\ B = [j \in DOMAIN B |-> B[j]]
      BY DEF Upserted, Delete
    <2> HIDE DEF A, B
    <2>6. A = B
      BY <2>3, <2>4, <2>5
    <2> QED BY <2>1, <2>6 DEF A, B, d
  <1>2. CASE e.op = "update"
    <2>1. \A P : Applied(P, e) = Updated(P, e.data)
      BY <1>2 DEF Applied
    <2> DEFINE d == e.data
               A == Updated(Delete(R, {i}), d)
               B == Delete(Updated(R, d), {i})
    <2> HIDE DEF d
    <2>2. DOMAIN A = DOMAIN B
      BY DEF Updated, Delete
    <2>3. \A j \in DOMAIN A : A[j] = B[j]
      BY DEF Updated, Delete
    <2>4. A = [j \in DOMAIN A |-> A[j]] /\ B = [j \in DOMAIN B |-> B[j]]
      BY DEF Updated, Delete
    <2> HIDE DEF A, B
    <2>5. A = B
      BY <2>2, <2>3, <2>4
    <2> QED BY <2>1, <2>5 DEF A, B, d
  <1>3. CASE e.op = "delete"
    <2>1. \A P : Applied(P, e) = Delete(P, e.data)
      BY <1>3 DEF Applied
    <2> DEFINE d == e.data
               A == Delete(Delete(R, {i}), d)
               B == Delete(Delete(R, d), {i})
    <2> HIDE DEF d
    <2>2. DOMAIN A = DOMAIN B
      BY DEF Delete
    <2>3. \A j \in DOMAIN A : A[j] = B[j]
      BY DEF Delete
    <2>4. A = [j \in DOMAIN A |-> A[j]] /\ B = [j \in DOMAIN B |-> B[j]]
      BY DEF Delete
    <2> HIDE DEF A, B
    <2>5. A = B
      BY <2>2, <2>3, <2>4
    <2> QED BY <2>1, <2>5 DEF A, B, d
  <1> QED BY <1>1, <1>2, <1>3 DEF Ops

LEMMA RunsDelete ==
    ASSUME NEW S, NEW s \in Seq(S), NEW R, NEW Q, NEW i, Runs(R, s, Q),
           \A n \in 1..Len(s) : ~Touches(s[n], i)
    PROVE  Runs(Delete(R, {i}), s, Delete(Q, {i}))
  <1>1. PICK a : /\ a[0] = R /\ a[Len(s)] = Q
                 /\ \A n \in 1..Len(s) : s[n].op \in Ops /\ a[n] = Applied(a[n - 1], s[n])
    BY DEF Runs
  <1> DEFINE m == Len(s)
             st == [n \in 0..m |-> Delete(a[n], {i})]
  <1>2. m \in Nat
    OBVIOUS
  <1>3. \A n \in 0..m : st[n] = Delete(a[n], {i})
    OBVIOUS
  <1> HIDE DEF st
  <1>4. st[0] = Delete(R, {i}) /\ st[m] = Delete(Q, {i})
    <2>1. 0 \in 0..m /\ m \in 0..m
      BY <1>2
    <2> QED BY <1>1, <1>3, <2>1, Zenon
  <1>5. ASSUME NEW n \in 1..m
        PROVE  s[n].op \in Ops /\ st[n] = Applied(st[n - 1], s[n])
    <2>1. n \in 0..m /\ n - 1 \in 0..m
      BY <1>2
    <2>2. s[n].op \in Ops /\ a[n] = Applied(a[n - 1], s[n])
      BY <1>1
    <2>3. Applied(Delete(a[n - 1], {i}), s[n]) = Delete(Applied(a[n - 1], s[n]), {i})
      BY <2>2, DeleteFirst
    <2> QED BY <1>3, <2>1, <2>2, <2>3
  <1> QED BY <1>4, <1>5 DEF Runs

-----------------------------------------------------------------------------
(* What a flush does, kind by kind and all at once.                         *)

LEMMA SameRecords ==
    ASSUME NEW A, NEW B, IsRecords(A), IsRecords(B), DOMAIN A = DOMAIN B,
           \A i \in DOMAIN A : A[i] = B[i]
    PROVE  A = B
  BY DEF IsRecords

\* The updates of all items after their upserts.
Both(R) == Updated(Upserted(R, upserts), updates)

\* The same for the items of one kind.
OneKind(R, k) == Updated(Upserted(R, OfKind(upserts, k)), OfKind(updates, k))

\* S is R after the upserts and updates of the items of kind k.
KindIn(R, k, S) ==
    /\ IsRecords(S)
    /\ DOMAIN S = DOMAIN R \cup {i \in DOMAIN upserts : i[1] = k}
    /\ \A i \in DOMAIN R : i[1] # k => S[i] = R[i]
    /\ \A i \in DOMAIN R \cup DOMAIN upserts : i[1] = k => S[i] = Both(R)[i]
    /\ \A i \in DOMAIN R :
          i \notin DOMAIN upserts \cup DOMAIN updates => S[i] = R[i] /\ Both(R)[i] = R[i]

LEMMA OneKindIs ==
    ASSUME NEW R, NEW k
    PROVE  KindIn(R, k, OneKind(R, k))
  <1> DEFINE U == OfKind(upserts, k)
             V == OfKind(updates, k)
             X == Upserted(R, U)
             Y == Upserted(R, upserts)
             A == Updated(X, V)
             B == Updated(Y, updates)
  <1>1. /\ DOMAIN U = {i \in DOMAIN upserts : i[1] = k} /\ \A i \in DOMAIN U : U[i] = upserts[i]
        /\ DOMAIN V = {i \in DOMAIN updates : i[1] = k} /\ \A i \in DOMAIN V : V[i] = updates[i]
    BY DEF OfKind
  <1> HIDE DEF U, V
  <1>2. DOMAIN X = DOMAIN R \cup DOMAIN U /\ DOMAIN Y = DOMAIN R \cup DOMAIN upserts
    BY DEF Upserted
  <1>3. /\ \A i \in DOMAIN R : i[1] # k => X[i] = R[i]
        /\ \A i \in DOMAIN R \cup DOMAIN upserts : i[1] = k => X[i] = Y[i]
        /\ \A i \in DOMAIN R : i \notin DOMAIN upserts => X[i] = R[i] /\ Y[i] = R[i]
    BY <1>1 DEF Upserted
  <1> HIDE DEF X, Y
  <1>4. DOMAIN A = DOMAIN X /\ IsRecords(A)
    BY DEF Updated, IsRecords
  <1>5. \A i \in DOMAIN R : i[1] # k => A[i] = R[i]
    BY <1>1, <1>2, <1>3 DEF Updated
  <1>6. \A i \in DOMAIN R \cup DOMAIN upserts : i[1] = k => A[i] = B[i]
    BY <1>1, <1>2, <1>3 DEF Updated
  <1>7. \A i \in DOMAIN R : i \notin DOMAIN upserts \cup DOMAIN updates => A[i] = R[i] /\ B[i] = R[i]
    BY <1>1, <1>2, <1>3 DEF Updated
  <1>8. A = OneKind(R, k) /\ B = Both(R)
    BY DEF OneKind, Both, X, Y, U, V
  <1>9. DOMAIN A = DOMAIN R \cup {i \in DOMAIN upserts : i[1] = k}
    BY <1>1, <1>2, <1>4
  <1> HIDE DEF A, B
  <1> QED BY <1>4, <1>5, <1>6, <1>7, <1>8, <1>9, Zenon DEF KindIn

LEMMA BothIs ==
    /\ \A R : IsRecords(Both(R)) /\ DOMAIN Both(R) = DOMAIN R \cup DOMAIN upserts
    /\ \A P, R : \A i \in DOMAIN P \cap DOMAIN R : P[i] = R[i] => Both(P)[i] = Both(R)[i]
    /\ \A P, R : \A i \in DOMAIN upserts :
            i \notin DOMAIN P /\ i \notin DOMAIN R => Both(P)[i] = Both(R)[i]
  <1>1. \A R : IsRecords(Both(R)) /\ DOMAIN Both(R) = DOMAIN R \cup DOMAIN upserts
    BY DEF Both, Updated, Upserted, IsRecords
  <1>2. ASSUME NEW P, NEW R
        PROVE  /\ \A i \in DOMAIN P \cap DOMAIN R : P[i] = R[i] => Both(P)[i] = Both(R)[i]
               /\ \A i \in DOMAIN upserts :
                      i \notin DOMAIN P /\ i \notin DOMAIN R => Both(P)[i] = Both(R)[i]
    <2> DEFINE X == Upserted(P, upserts)
               Y == Upserted(R, upserts)
    <2>1. DOMAIN X = DOMAIN P \cup DOMAIN upserts /\ DOMAIN Y = DOMAIN R \cup DOMAIN upserts
      BY DEF Upserted
    <2>2. \A i \in DOMAIN P \cap DOMAIN R : P[i] = R[i] => X[i] = Y[i]
      BY DEF Upserted
    <2>3. \A i \in DOMAIN upserts : i \notin DOMAIN P /\ i \notin DOMAIN R => X[i] = Y[i]
      BY DEF Upserted
    <2> HIDE DEF X, Y
    <2>4. \A i \in DOMAIN X \cap DOMAIN Y : X[i] = Y[i] => Updated(X, updates)[i] = Updated(Y, updates)[i]
      BY DEF Updated
    <2>5. Updated(X, updates) = Both(P) /\ Updated(Y, updates) = Both(R)
      BY DEF Both, X, Y
    <2> QED BY <2>1, <2>2, <2>3, <2>4, <2>5
  <1> QED BY <1>1, <1>2

\* The five parts of a flush, in their order.
ByKind(R) ==
    OneKind(OneKind(OneKind(Delete(OneKind(R, "chats"), deletes), "contacts"), "messages"), "groups")

LEMMA ByKindIsFlushed ==
    ASSUME TransparentInv, NEW R
    PROVE  ByKind(R) = Flushed(R)
  <1> DEFINE r1 == OneKind(R, "chats")
             r2 == Delete(r1, deletes)
             r3 == OneKind(r2, "contacts")
             r4 == OneKind(r3, "messages")
             r5 == OneKind(r4, "groups")
             Q  == Both(R)
             F  == Delete(Q, deletes)
             Up(k) == {i \in DOMAIN upserts : i[1] = k}
  <1>1. /\ DOMAIN upserts \subseteq Items /\ DOMAIN updates \subseteq Items
        /\ \A i \in deletes : i[1] = "chats"
        /\ \A i \in Items : i[1] \in {"chats", "contacts", "messages", "groups"}
    BY ItemsAssumption DEF TransparentInv, Kinds
  <1> HIDE DEF r1, Q
  <1>2. IsRecords(r2) /\ DOMAIN r2 = DOMAIN r1 \ deletes /\ \A i \in DOMAIN r2 : r2[i] = r1[i]
    BY DEF Delete, IsRecords
  <1>3. IsRecords(F) /\ DOMAIN F = DOMAIN Q \ deletes /\ \A i \in DOMAIN F : F[i] = Q[i]
    BY DEF Delete, IsRecords
  <1> HIDE DEF r2, r3, r4, r5, F
  <1>0. /\ KindIn(R, "chats", r1) /\ KindIn(r2, "contacts", r3)
        /\ KindIn(r3, "messages", r4) /\ KindIn(r4, "groups", r5)
    BY OneKindIs, Zenon DEF r1, r3, r4, r5
  <1>4. /\ DOMAIN r1 = DOMAIN R \cup Up("chats") /\ DOMAIN r3 = DOMAIN r2 \cup Up("contacts")
        /\ DOMAIN r4 = DOMAIN r3 \cup Up("messages") /\ DOMAIN r5 = DOMAIN r4 \cup Up("groups")
        /\ DOMAIN Q = DOMAIN R \cup DOMAIN upserts
    BY <1>0, BothIs DEF KindIn, Q
  <1>5. DOMAIN upserts = Up("chats") \cup Up("contacts") \cup Up("messages") \cup Up("groups")
    BY <1>1
  <1>6. /\ Up("contacts") \cap deletes = {} /\ Up("messages") \cap deletes = {}
        /\ Up("groups") \cap deletes = {}
    BY <1>1
  <1>7. DOMAIN r5 = DOMAIN F
    BY <1>2, <1>3, <1>4, <1>5, <1>6
  <1>8. /\ \A i \in DOMAIN R : i[1] # "chats" => r1[i] = R[i]
        /\ \A i \in DOMAIN r2 : i[1] # "contacts" => r3[i] = r2[i]
        /\ \A i \in DOMAIN r3 : i[1] # "messages" => r4[i] = r3[i]
        /\ \A i \in DOMAIN r4 : i[1] # "groups" => r5[i] = r4[i]
    BY <1>0 DEF KindIn
  <1>9. /\ \A i \in DOMAIN R \cup DOMAIN upserts : i[1] = "chats" => r1[i] = Q[i]
        /\ \A i \in DOMAIN r2 \cup DOMAIN upserts : i[1] = "contacts" => r3[i] = Both(r2)[i]
        /\ \A i \in DOMAIN r3 \cup DOMAIN upserts : i[1] = "messages" => r4[i] = Both(r3)[i]
        /\ \A i \in DOMAIN r4 \cup DOMAIN upserts : i[1] = "groups" => r5[i] = Both(r4)[i]
    BY <1>0 DEF KindIn, Q
  <1>10. /\ \A P : \A i \in DOMAIN P \cap DOMAIN R : P[i] = R[i] => Both(P)[i] = Q[i]
         /\ \A P : \A i \in DOMAIN upserts : i \notin DOMAIN P /\ i \notin DOMAIN R => Both(P)[i] = Q[i]
    BY BothIs DEF Q
  <1>11. ASSUME NEW i \in DOMAIN r5
         PROVE  r5[i] = F[i]
    <2>1. i \in DOMAIN F /\ F[i] = Q[i] /\ i \notin deletes /\ i \in DOMAIN R \cup DOMAIN upserts
      BY <1>3, <1>4, <1>7
    <2>2. CASE i[1] = "chats"
      <3>1. i \in DOMAIN r2 /\ i \in DOMAIN r3 /\ i \in DOMAIN r4
        BY <1>2, <1>4, <2>1, <2>2
      <3> QED BY <1>2, <1>8, <1>9, <2>1, <2>2, <3>1
    <2>3. CASE i[1] = "contacts"
      <3>1. i \in DOMAIN r2 <=> i \in DOMAIN R
        BY <1>2, <1>4, <2>1, <2>3
      <3>2. i \in DOMAIN R => r2[i] = R[i]
        BY <1>2, <1>8, <2>3, <3>1
      <3>3. Both(r2)[i] = Q[i]
        BY <1>10, <2>1, <3>1, <3>2
      <3>4. i \in DOMAIN r3 /\ i \in DOMAIN r4 /\ r3[i] = Q[i]
        BY <1>4, <1>9, <2>1, <2>3, <3>1, <3>3
      <3> QED BY <1>8, <2>1, <2>3, <3>4
    <2>4. CASE i[1] = "messages"
      <3>1. /\ i \in DOMAIN r3 <=> i \in DOMAIN R
            /\ i \in DOMAIN r2 <=> i \in DOMAIN R
        BY <1>2, <1>4, <2>1, <2>4
      <3>2. i \in DOMAIN R => r3[i] = R[i]
        BY <1>2, <1>8, <2>4, <3>1
      <3>3. Both(r3)[i] = Q[i]
        BY <1>10, <2>1, <3>1, <3>2
      <3>4. i \in DOMAIN r4 /\ r4[i] = Q[i]
        BY <1>4, <1>9, <2>1, <2>4, <3>1, <3>3
      <3> QED BY <1>8, <2>1, <2>4, <3>4
    <2>5. CASE i[1] = "groups"
      <3>1. /\ i \in DOMAIN r4 <=> i \in DOMAIN R
            /\ i \in DOMAIN r3 <=> i \in DOMAIN R
            /\ i \in DOMAIN r2 <=> i \in DOMAIN R
        BY <1>2, <1>4, <2>1, <2>5
      <3>2. i \in DOMAIN R => r4[i] = R[i]
        BY <1>2, <1>8, <2>5, <3>1
      <3>3. Both(r4)[i] = Q[i]
        BY <1>10, <2>1, <3>1, <3>2
      <3> QED BY <1>9, <2>1, <2>5, <3>1, <3>3
    <2>6. CASE i \notin Items
      <3>1. i \in DOMAIN R /\ i \notin DOMAIN upserts /\ i \notin DOMAIN updates
        BY <1>1, <2>1, <2>6
      <3>2. i \in DOMAIN r1 /\ i \in DOMAIN r2 /\ i \in DOMAIN r3 /\ i \in DOMAIN r4
        BY <1>2, <1>4, <2>1, <3>1
      <3>3. r1[i] = R[i] /\ r3[i] = r2[i] /\ r4[i] = r3[i] /\ r5[i] = r4[i] /\ Q[i] = R[i]
        BY <1>0, <3>1, <3>2 DEF KindIn, Q
      <3> QED BY <1>2, <2>1, <3>2, <3>3
    <2>7. i \in Items => i[1] \in {"chats", "contacts", "messages", "groups"}
      BY <1>1
    <2> QED BY <2>2, <2>3, <2>4, <2>5, <2>6, <2>7
  <1>12. IsRecords(r5)
    BY <1>0 DEF KindIn
  <1>13. r5 = F
    BY <1>3, <1>7, <1>11, <1>12, SameRecords
  <1> QED BY <1>13, Zenon DEF ByKind, Flushed, Both, F, Q, r1, r2, r3, r4, r5

\* The batches that the buffer can be made into.
Batches == [op : Ops, data : {OfKind(upserts, k) : k \in Kinds} \cup {OfKind(updates, k) : k \in Kinds}
                               \cup {deletes}]

LEMMA BatchRuns ==
    ASSUME NEW R, IsRecords(R), NEW map
    PROVE  /\ Runs(R, Batch("upsert", map), Upserted(R, map))
           /\ Runs(R, Batch("update", map), Updated(R, map))
  <1>1. CASE DOMAIN map = {}
    <2>1. Upserted(R, map) = R /\ Updated(R, map) = R
      BY <1>1 DEF Upserted, Updated, IsRecords
    <2>2. Batch("upsert", map) = << >> /\ Batch("update", map) = << >>
      BY <1>1 DEF Batch
    <2> QED BY <2>1, <2>2, RunsNone
  <1>2. CASE DOMAIN map # {}
    <2> DEFINE u == [op |-> "upsert", data |-> map]
               v == [op |-> "update", data |-> map]
    <2>1. Batch("upsert", map) = <<u>> /\ Batch("update", map) = <<v>>
      BY <1>2 DEF Batch
    <2>2. u.op = "upsert" /\ u.data = map /\ v.op = "update" /\ v.data = map
      OBVIOUS
    <2> HIDE DEF u, v
    <2>3. u.op \in Ops /\ v.op \in Ops
      BY <2>2 DEF Ops
    <2>4. Applied(R, u) = Upserted(R, map) /\ Applied(R, v) = Updated(R, map)
      BY <2>2 DEF Applied
    <2>5. Runs(R, <<u>>, Applied(R, u)) /\ Runs(R, <<v>>, Applied(R, v))
      BY <2>3, RunsOne
    <2> QED BY <2>1, <2>4, <2>5
  <1> QED BY <1>1, <1>2

LEMMA DeletesRun ==
    ASSUME NEW R, IsRecords(R)
    PROVE  Runs(R, SnapshotDeletes, Delete(R, deletes)) /\ SnapshotDeletes \in Seq(Batches)
  <1>1. CASE deletes = {}
    <2>1. Delete(R, deletes) = R
      BY <1>1 DEF Delete, IsRecords
    <2>2. SnapshotDeletes = << >>
      BY <1>1 DEF SnapshotDeletes
    <2> QED BY <2>1, <2>2, RunsNone, EmptySeq
  <1>2. CASE deletes # {}
    <2> DEFINE e == [op |-> "delete", data |-> deletes]
    <2>1. SnapshotDeletes = <<e>>
      BY <1>2 DEF SnapshotDeletes
    <2>2. e.op = "delete" /\ e.data = deletes /\ e \in Batches
      BY DEF Batches, Ops
    <2> HIDE DEF e
    <2>3. e.op \in Ops /\ Applied(R, e) = Delete(R, deletes)
      BY <2>2 DEF Ops, Applied
    <2>4. Runs(R, <<e>>, Applied(R, e)) /\ <<e>> \in Seq(Batches)
      BY <2>2, <2>3, RunsOne
    <2> QED BY <2>1, <2>3, <2>4
  <1> QED BY <1>1, <1>2

LEMMA KindRuns ==
    ASSUME NEW R, IsRecords(R), NEW k \in Kinds
    PROVE  Runs(R, SnapshotOf(k), OneKind(R, k)) /\ SnapshotOf(k) \in Seq(Batches)
  <1> DEFINE U == OfKind(upserts, k)
             V == OfKind(updates, k)
  <1>1. Batch("upsert", U) \in Seq(Batches) /\ Batch("update", V) \in Seq(Batches)
    <2>1. [op |-> "upsert", data |-> U] \in Batches /\ [op |-> "update", data |-> V] \in Batches
      BY DEF Batches, Ops
    <2> HIDE DEF U, V
    <2>2. \A e \in Batches : <<e>> \in Seq(Batches)
      OBVIOUS
    <2>3. << >> \in Seq(Batches)
      OBVIOUS
    <2> QED BY <2>1, <2>2, <2>3 DEF Batch
  <1> HIDE DEF U, V
  <1>2. Runs(R, Batch("upsert", U), Upserted(R, U))
    BY BatchRuns
  <1>3. IsRecords(Upserted(R, U))
    BY DEF Upserted, IsRecords
  <1>4. Runs(Upserted(R, U), Batch("update", V), Updated(Upserted(R, U), V))
    BY <1>3, BatchRuns
  <1>5. Runs(R, Batch("upsert", U) \o Batch("update", V), Updated(Upserted(R, U), V))
    BY <1>1, <1>2, <1>4, RunsConcat
  <1>6. Batch("upsert", U) \o Batch("update", V) \in Seq(Batches)
    BY <1>1, ConcatProperties
  <1> QED BY <1>5, <1>6 DEF SnapshotOf, OneKind, U, V

\* Emitting the snapshot of the buffer has the effect of a flush.
LEMMA SnapshotRuns ==
    ASSUME TransparentInv, NEW R, IsRecords(R)
    PROVE  Runs(R, Snapshot, Flushed(R)) /\ Snapshot \in Seq(Batches)
  <1> DEFINE r1 == OneKind(R, "chats")
             r2 == Delete(r1, deletes)
             r3 == OneKind(r2, "contacts")
             r4 == OneKind(r3, "messages")
             r5 == OneKind(r4, "groups")
             s1 == SnapshotOf("chats")
             s2 == SnapshotDeletes
             s3 == SnapshotOf("contacts")
             s4 == SnapshotOf("messages")
             s5 == SnapshotOf("groups")
  <1>1. {"chats", "contacts", "messages", "groups"} \subseteq Kinds
    BY DEF Kinds
  <1>2. IsRecords(r1) /\ IsRecords(r2) /\ IsRecords(r3) /\ IsRecords(r4)
    <2>1. \A P, k : IsRecords(OneKind(P, k))
      BY DEF OneKind, Updated, IsRecords
    <2>2. \A P : IsRecords(Delete(P, deletes))
      BY DEF Delete, IsRecords
    <2> QED BY <2>1, <2>2
  <1> HIDE DEF r1, r2, r3, r4, r5
  <1>3. Runs(R, s1, r1) /\ s1 \in Seq(Batches)
    BY <1>1, KindRuns DEF r1
  <1>4. Runs(r1, s2, r2) /\ s2 \in Seq(Batches)
    BY <1>2, DeletesRun DEF r2
  <1>5. Runs(r2, s3, r3) /\ s3 \in Seq(Batches)
    BY <1>1, <1>2, KindRuns DEF r3
  <1>6. Runs(r3, s4, r4) /\ s4 \in Seq(Batches)
    BY <1>1, <1>2, KindRuns DEF r4
  <1>7. Runs(r4, s5, r5) /\ s5 \in Seq(Batches)
    BY <1>1, <1>2, KindRuns DEF r5
  <1> HIDE DEF s1, s2, s3, s4, s5
  <1>8. Runs(R, s1 \o s2, r2) /\ s1 \o s2 \in Seq(Batches)
    BY <1>3, <1>4, RunsConcat, ConcatProperties
  <1>9. Runs(R, s1 \o s2 \o s3, r3) /\ s1 \o s2 \o s3 \in Seq(Batches)
    BY <1>5, <1>8, RunsConcat, ConcatProperties
  <1>10. Runs(R, s1 \o s2 \o s3 \o s4, r4) /\ s1 \o s2 \o s3 \o s4 \in Seq(Batches)
    BY <1>6, <1>9, RunsConcat, ConcatProperties
  <1>11. Runs(R, s1 \o s2 \o s3 \o s4 \o s5, r5) /\ s1 \o s2 \o s3 \o s4 \o s5 \in Seq(Batches)
    BY <1>7, <1>10, RunsConcat, ConcatProperties
  <1>12. Snapshot = s1 \o s2 \o s3 \o s4 \o s5
    BY DEF Snapshot, s1, s2, s3, s4, s5
  <1>13. r5 = Flushed(R)
    BY ByKindIsFlushed, Zenon DEF ByKind, r1, r2, r3, r4, r5
  <1> QED BY <1>11, <1>12, <1>13

-----------------------------------------------------------------------------
(* What an event does to the records, and to a flush to come.               *)

LEMMA MergeAssociative ==
    ASSUME NEW x, NEW y, NEW z
    PROVE  Merge(Merge(x, y), z) = Merge(x, Merge(y, z))
  <1> DEFINE A == Merge(Merge(x, y), z)
             B == Merge(x, Merge(y, z))
  <1>1. IsRecords(A) /\ IsRecords(B) /\ DOMAIN A = DOMAIN B
    BY DEF Merge, IsRecords
  <1>2. \A j \in DOMAIN A : A[j] = B[j]
    BY DEF Merge
  <1> HIDE DEF A, B
  <1>3. A = B
    BY <1>1, <1>2, SameRecords
  <1> QED BY <1>3 DEF A, B

LEMMA SingleIs ==
    ASSUME NEW i, NEW r
    PROVE  DOMAIN Put(Empty, i, r) = {i} /\ Put(Empty, i, r)[i] = r
  BY DEF Put, Empty

\* An upsert that comes before the updates and deletions of the item, and that the
\* buffer does not put in the place of another, unless the store would do so too.
LEMMA UpsertEffect ==
    ASSUME NEW M, NEW i, NEW r, i \notin DOMAIN updates \cup deletes,
           i \in DOMAIN upserts => i[1] = "groups",
           upserts' = Put(upserts, i, r), UNCHANGED <<updates, deletes>>
    PROVE  Upserted(Flushed(M), Put(Empty, i, r)) = Flushed(M)'
  <1> DEFINE e == Put(Empty, i, r)
             P == Put(upserts, i, r)
             X == Upserted(M, upserts)
             Y == Upserted(M, P)
             F == Delete(Updated(X, updates), deletes)
             A == Upserted(F, e)
             B == Delete(Updated(Y, updates), deletes)
  <1>1. /\ DOMAIN P = DOMAIN upserts \cup {i} /\ P[i] = r
        /\ \A j \in DOMAIN upserts : j # i => P[j] = upserts[j]
        /\ DOMAIN e = {i} /\ e[i] = r
    <2>1. /\ DOMAIN P = DOMAIN upserts \cup {i} /\ P[i] = r
          /\ \A j \in DOMAIN upserts : j # i => P[j] = upserts[j]
      BY DEF Put
    <2> HIDE DEF P
    <2>2. DOMAIN e = {i} /\ e[i] = r
      BY SingleIs
    <2> HIDE DEF e
    <2> QED BY <2>1, <2>2
  <1> HIDE DEF e, P
  <1>2. DOMAIN X = DOMAIN M \cup DOMAIN upserts /\ DOMAIN Y = DOMAIN M \cup DOMAIN upserts \cup {i}
    BY <1>1 DEF Upserted
  <1>3. \A j \in DOMAIN X : j # i => X[j] = Y[j]
    BY <1>1 DEF Upserted
  <1>4. /\ i \notin DOMAIN X => Y[i] = r
        /\ i \in DOMAIN X /\ i[1] = "groups" => Y[i] = r
        /\ i \in DOMAIN X /\ i[1] # "groups" => X[i] = M[i] /\ Y[i] = Merge(M[i], r)
    BY <1>1, <1>2 DEF Upserted
  <1> HIDE DEF X, Y
  <1>5. /\ IsRecords(F) /\ DOMAIN F = DOMAIN X \ deletes
        /\ IsRecords(B) /\ DOMAIN B = DOMAIN Y \ deletes
    BY DEF Delete, Updated, IsRecords
  <1>6. /\ \A j \in DOMAIN F : j # i => F[j] = B[j]
        /\ i \in DOMAIN X => F[i] = X[i]
        /\ B[i] = Y[i]
    BY <1>2, <1>3 DEF Delete, Updated
  <1> HIDE DEF F, B
  <1>7. IsRecords(A) /\ DOMAIN A = DOMAIN B
    BY <1>1, <1>2, <1>5 DEF Upserted, IsRecords
  <1>8. /\ \A j \in DOMAIN F : j # i => A[j] = F[j]
        /\ A[i] = IF i \in DOMAIN F /\ i[1] # "groups" THEN Merge(F[i], r) ELSE r
    BY <1>1 DEF Upserted
  <1>9. ASSUME NEW j \in DOMAIN A
        PROVE  A[j] = B[j]
    <2>1. CASE j # i
      BY <1>1, <1>2, <1>5, <1>6, <1>7, <1>8, <2>1
    <2>2. CASE j = i
      BY <1>4, <1>5, <1>6, <1>8, <2>2
    <2> QED BY <2>1, <2>2
  <1> HIDE DEF A
  <1>10. A = B
    BY <1>5, <1>7, <1>9, SameRecords
  <1> QED BY <1>10 DEF Flushed, A, B, F, X, Y, P, e

\* An update always: it comes last in the buffer too, or before a deletion.
LEMMA UpdateEffect ==
    ASSUME NEW M, NEW i, NEW r,
           updates' = Put(updates, i, IF i \in DOMAIN updates THEN Merge(updates[i], r) ELSE r),
           UNCHANGED <<upserts, deletes>>
    PROVE  Updated(Flushed(M), Put(Empty, i, r)) = Flushed(M)'
  <1> DEFINE e == Put(Empty, i, r)
             n == IF i \in DOMAIN updates THEN Merge(updates[i], r) ELSE r
             P == Put(updates, i, n)
             X == Upserted(M, upserts)
             U == Updated(X, updates)
             V == Updated(X, P)
             F == Delete(U, deletes)
             A == Updated(F, e)
             B == Delete(V, deletes)
  <1> HIDE DEF n
  <1>1. /\ DOMAIN P = DOMAIN updates \cup {i} /\ P[i] = n
        /\ \A j \in DOMAIN updates : j # i => P[j] = updates[j]
        /\ DOMAIN e = {i} /\ e[i] = r
    <2>1. /\ DOMAIN P = DOMAIN updates \cup {i} /\ P[i] = n
          /\ \A j \in DOMAIN updates : j # i => P[j] = updates[j]
      BY DEF Put
    <2> HIDE DEF P
    <2>2. DOMAIN e = {i} /\ e[i] = r
      BY SingleIs
    <2> HIDE DEF e
    <2> QED BY <2>1, <2>2
  <1> HIDE DEF e, P, X
  <1>2. DOMAIN U = DOMAIN X /\ DOMAIN V = DOMAIN X
    BY DEF Updated
  <1>3. \A j \in DOMAIN X : j # i => U[j] = V[j]
    BY <1>1 DEF Updated
  <1>4. i \in DOMAIN X => Merge(U[i], r) = V[i]
    <2> SUFFICES ASSUME i \in DOMAIN X PROVE Merge(U[i], r) = V[i]
      OBVIOUS
    <2>1. V[i] = Merge(X[i], n)
      BY <1>1 DEF Updated
    <2>2. CASE i \in DOMAIN updates
      <3>1. U[i] = Merge(X[i], updates[i]) /\ n = Merge(updates[i], r)
        BY <2>2 DEF Updated, n
      <3> QED BY <2>1, <3>1, MergeAssociative
    <2>3. CASE i \notin DOMAIN updates
      <3>1. U[i] = X[i] /\ n = r
        BY <2>3 DEF Updated, n
      <3> QED BY <2>1, <3>1
    <2> QED BY <2>2, <2>3
  <1> HIDE DEF U, V
  <1>5. /\ IsRecords(F) /\ DOMAIN F = DOMAIN X \ deletes /\ \A j \in DOMAIN F : F[j] = U[j]
        /\ IsRecords(B) /\ DOMAIN B = DOMAIN X \ deletes /\ \A j \in DOMAIN B : B[j] = V[j]
    BY <1>2 DEF Delete, IsRecords
  <1> HIDE DEF F, B
  <1>6. IsRecords(A) /\ DOMAIN A = DOMAIN F
    BY DEF Updated, IsRecords
  <1>7. /\ \A j \in DOMAIN F : j # i => A[j] = F[j]
        /\ i \in DOMAIN F => A[i] = Merge(F[i], r)
    BY <1>1 DEF Updated
  <1> HIDE DEF A
  <1>8. ASSUME NEW j \in DOMAIN A
        PROVE  A[j] = B[j]
    <2>1. CASE j # i
      BY <1>3, <1>5, <1>6, <1>7, <2>1
    <2>2. CASE j = i
      BY <1>4, <1>5, <1>6, <1>7, <2>2
    <2> QED BY <2>1, <2>2
  <1>9. A = B
    BY <1>5, <1>6, <1>8, SameRecords
  <1>10. updates' = P
    BY DEF P, n
  <1> QED BY <1>9, <1>10 DEF Flushed, A, B, F, U, V, X, e

LEMMA DeleteEffect ==
    ASSUME NEW M, NEW i, deletes' = deletes \cup {i}, UNCHANGED <<upserts, updates>>
    PROVE  Delete(Flushed(M), {i}) = Flushed(M)'
  <1> DEFINE R == Updated(Upserted(M, upserts), updates)
             A == Delete(Delete(R, deletes), {i})
             B == Delete(R, deletes \cup {i})
  <1> HIDE DEF R
  <1>1. IsRecords(A) /\ IsRecords(B) /\ DOMAIN A = DOMAIN B
    BY DEF Delete, IsRecords
  <1>2. \A j \in DOMAIN A : A[j] = B[j]
    BY DEF Delete
  <1> HIDE DEF A, B
  <1>3. A = B
    BY <1>1, <1>2, SameRecords
  <1> QED BY <1>3 DEF Flushed, A, B, R

\* A deletion that is not buffered, of an item of which nothing is in the buffer.
LEMMA DirectDeleteEffect ==
    ASSUME NEW M, NEW i, i \notin DOMAIN upserts \cup DOMAIN updates \cup deletes
    PROVE  Delete(Flushed(M), {i}) = Flushed(Delete(M, {i}))
  <1> DEFINE N == Delete(M, {i})
             A == Delete(Flushed(M), {i})
             B == Flushed(N)
  <1>1. DOMAIN N = DOMAIN M \ {i} /\ \A j \in DOMAIN N : N[j] = M[j]
    BY DEF Delete
  <1> HIDE DEF N
  <1>2. /\ DOMAIN Both(M) = DOMAIN M \cup DOMAIN upserts
        /\ DOMAIN Both(N) = DOMAIN N \cup DOMAIN upserts
        /\ \A j \in DOMAIN Both(N) : Both(N)[j] = Both(M)[j]
    <2>1. DOMAIN Both(M) = DOMAIN M \cup DOMAIN upserts /\ DOMAIN Both(N) = DOMAIN N \cup DOMAIN upserts
      BY BothIs
    <2>2. ASSUME NEW j \in DOMAIN Both(N)
          PROVE  Both(N)[j] = Both(M)[j]
      <3>1. CASE j \in DOMAIN N
        BY <1>1, <3>1, BothIs
      <3>2. CASE j \notin DOMAIN N
        <4>1. j \in DOMAIN upserts /\ j \notin DOMAIN M
          BY <1>1, <2>1, <3>2
        <4> QED BY <3>2, <4>1, BothIs
      <3> QED BY <3>1, <3>2
    <2> QED BY <2>1, <2>2
  <1>3. Flushed(M) = Delete(Both(M), deletes) /\ B = Delete(Both(N), deletes)
    BY DEF Flushed, Both
  <1>4. IsRecords(A) /\ IsRecords(B) /\ DOMAIN A = DOMAIN B
    BY <1>1, <1>2, <1>3 DEF Delete, IsRecords
  <1>5. \A j \in DOMAIN A : A[j] = B[j]
    BY <1>1, <1>2, <1>3 DEF Delete
  <1> HIDE DEF A, B
  <1>6. A = B
    BY <1>4, <1>5, SameRecords
  <1> QED BY <1>6 DEF A, B, N

-----------------------------------------------------------------------------
(* The steps.                                                               *)

\* An event reaches the store without a buffer at once.
LEMMA DirectIs ==
    ASSUME NEW data
    PROVE  /\ Emitted("upsert", data) => direct' = Upserted(direct, data)
           /\ Emitted("update", data) => direct' = Updated(direct, data)
           /\ Emitted("delete", data) => direct' = Delete(direct, data)
  BY DEF Emitted, Applied

\* An event goes into the buffer.
LEMMA BufferedStep ==
    ASSUME TransparentInv, UNCHANGED <<flushing, emissions, store>>,
           DOMAIN upserts' \subseteq Items, DOMAIN updates' \subseteq Items,
           deletes' \subseteq {j \in Items : j[1] = "chats"}, inOrder' => inOrder,
           inOrder' => \A M : direct = Flushed(M) => direct' = Flushed(M)'
    PROVE  TransparentInv'
  <1>1. inOrder' => /\ IsRecords(store')
                    /\ (\E mid : Runs(store', emissions', mid) /\ direct' = Flushed(mid)')
    <2> SUFFICES ASSUME inOrder' PROVE /\ IsRecords(store')
                    /\ (\E mid : Runs(store', emissions', mid) /\ direct' = Flushed(mid)')
      OBVIOUS
    <2>1. IsRecords(store)
      BY DEF TransparentInv
    <2>2. PICK mid : Runs(store, emissions, mid) /\ direct = Flushed(mid)
      BY DEF TransparentInv
    <2>3. direct' = Flushed(mid)'
      BY <2>2
    <2>4. IsRecords(store') /\ Runs(store', emissions', mid)
      BY <2>1, <2>2
    <2> QED BY <2>3, <2>4
  <1>2. flushing' = (emissions' # << >>) /\ \E S : emissions' \in Seq(S)
    BY DEF TransparentInv
  <1> QED BY <1>1, <1>2 DEF TransparentInv

LEMMA ProducerStep ==
    ASSUME TransparentInv, NEW i \in Items,
           (\E r \in Records : Upsert(i, r) \/ Update(i, r)) \/ DeleteChat(i)
    PROVE  TransparentInv'
  <1>1. /\ DOMAIN upserts \subseteq Items /\ DOMAIN updates \subseteq Items
        /\ deletes \subseteq {j \in Items : j[1] = "chats"}
    BY DEF TransparentInv
  <1>2. ASSUME NEW r \in Records, Upsert(i, r)
        PROVE  TransparentInv'
    <2>1. /\ upserts' = Put(upserts, i, r) /\ direct' = Upserted(direct, Put(Empty, i, r))
          /\ UNCHANGED <<updates, deletes>> /\ UNCHANGED <<flushing, emissions, store>>
      BY <1>2, DirectIs DEF Upsert
    <2>2. inOrder' => inOrder /\ i \notin DOMAIN updates \cup deletes /\ (i \in DOMAIN upserts => i[1] = "groups")
      BY <1>2 DEF Upsert
    <2>3. inOrder' => \A M : direct = Flushed(M) => direct' = Flushed(M)'
      BY <2>1, <2>2, UpsertEffect
    <2>4. DOMAIN upserts' \subseteq Items /\ DOMAIN updates' \subseteq Items
          /\ deletes' \subseteq {j \in Items : j[1] = "chats"}
      BY <1>1, <2>1 DEF Put
    <2> QED BY <2>1, <2>2, <2>3, <2>4, BufferedStep
  <1>3. ASSUME NEW r \in Records, Update(i, r)
        PROVE  TransparentInv'
    <2>1. /\ updates' = Put(updates, i, IF i \in DOMAIN updates THEN Merge(updates[i], r) ELSE r)
          /\ direct' = Updated(direct, Put(Empty, i, r)) /\ inOrder' = inOrder
          /\ UNCHANGED <<upserts, deletes>> /\ UNCHANGED <<flushing, emissions, store>>
      BY <1>3, DirectIs DEF Update
    <2>2. \A M : direct = Flushed(M) => direct' = Flushed(M)'
      BY <2>1, UpdateEffect
    <2>3. DOMAIN upserts' \subseteq Items /\ DOMAIN updates' \subseteq Items
          /\ deletes' \subseteq {j \in Items : j[1] = "chats"}
      BY <1>1, <2>1 DEF Put
    <2> QED BY <2>1, <2>2, <2>3, BufferedStep
  <1>4. CASE DeleteChat(i)
    <2>1. /\ i[1] = "chats" /\ deletes' = deletes \cup {i} /\ direct' = Delete(direct, {i})
          /\ inOrder' = inOrder
          /\ UNCHANGED <<upserts, updates>> /\ UNCHANGED <<flushing, emissions, store>>
      BY <1>4, DirectIs DEF DeleteChat
    <2>2. \A M : direct = Flushed(M) => direct' = Flushed(M)'
      BY <2>1, DeleteEffect
    <2>3. DOMAIN upserts' \subseteq Items /\ DOMAIN updates' \subseteq Items
          /\ deletes' \subseteq {j \in Items : j[1] = "chats"}
      BY <1>1, <2>1
    <2> QED BY <2>1, <2>2, <2>3, BufferedStep
  <1> QED BY <1>2, <1>3, <1>4

LEMMA DeleteMessageStep ==
    ASSUME TransparentInv, NEW i \in Items, DeleteMessage(i)
    PROVE  TransparentInv'
  <1>1. /\ store' = Delete(store, {i}) /\ direct' = Delete(direct, {i})
        /\ inOrder' = (inOrder /\ ~Held(i))
        /\ UNCHANGED <<upserts, updates, deletes, flushing, emissions>>
    BY DirectIs DEF DeleteMessage, buf, flush
  <1>2. inOrder' => /\ IsRecords(store')
                    /\ (\E mid : Runs(store', emissions', mid) /\ direct' = Flushed(mid)')
    <2> SUFFICES ASSUME inOrder' PROVE /\ IsRecords(store')
                    /\ (\E mid : Runs(store', emissions', mid) /\ direct' = Flushed(mid)')
      OBVIOUS
    <2>1. inOrder /\ ~Held(i)
      BY <1>1
    <2>2. PICK S : emissions \in Seq(S)
      BY DEF TransparentInv
    <2>3. PICK mid : Runs(store, emissions, mid) /\ direct = Flushed(mid)
      BY <2>1 DEF TransparentInv
    <2>4. i \notin DOMAIN upserts \cup DOMAIN updates \cup deletes
          /\ \A n \in 1..Len(emissions) : ~Touches(emissions[n], i)
      BY <2>1, <2>2 DEF Held, Buffered, Touches
    <2>5. Runs(Delete(store, {i}), emissions, Delete(mid, {i}))
      BY <2>2, <2>3, <2>4, RunsDelete
    <2>6. Delete(Flushed(mid), {i}) = Flushed(Delete(mid, {i}))
      BY <2>4, DirectDeleteEffect
    <2> DEFINE N == Delete(mid, {i})
    <2> HIDE DEF N
    <2>7. Flushed(N)' = Flushed(N)
      BY <1>1 DEF Flushed
    <2>8. direct' = Flushed(N)'
      BY <1>1, <2>3, <2>6, <2>7 DEF N
    <2>9. Runs(store', emissions', N)
      BY <1>1, <2>5 DEF N
    <2>10. IsRecords(store')
      BY <1>1 DEF Delete, IsRecords
    <2> QED BY <2>8, <2>9, <2>10
  <1> QED BY <1>1, <1>2 DEF TransparentInv

\* The first of the batches is emitted.
LEMMA EmitStep ==
    ASSUME NEW S, NEW batches \in Seq(S), EmitFirstOf(batches), NEW M,
           IsRecords(store), Runs(store, batches, M)
    PROVE  IsRecords(store') /\ Runs(store', emissions', M)
  <1>1. CASE batches = << >>
    BY <1>1 DEF EmitFirstOf
  <1>2. CASE batches # << >>
    <2>1. store' = Applied(store, Head(batches)) /\ emissions' = Tail(batches)
      BY <1>2 DEF EmitFirstOf
    <2> QED BY <1>2, <2>1, RunsHead, AppliedIsRecords
  <1> QED BY <1>1, <1>2

LEMMA EmissionsStep ==
    ASSUME NEW S, NEW batches \in Seq(S), EmitFirstOf(batches)
    PROVE  flushing' = (emissions' # << >>) /\ \E T : emissions' \in Seq(T)
  <1>1. CASE batches = << >>
    BY <1>1 DEF EmitFirstOf
  <1>2. CASE batches # << >>
    <2>1. emissions' = Tail(batches) /\ flushing' = (Len(batches) > 1)
      BY <1>2 DEF EmitFirstOf
    <2>2. Tail(batches) \in Seq(S) /\ Len(Tail(batches)) = Len(batches) - 1 /\ Len(batches) \in Nat
          /\ Len(batches) # 0
      BY <1>2, HeadTailProperties, EmptySeq
    <2>3. Tail(batches) = << >> <=> Len(Tail(batches)) = 0
      BY <2>2, EmptySeq
    <2>4. Len(batches) > 1 <=> Tail(batches) # << >>
      BY <2>2, <2>3, SMTT(20)
    <2> QED BY <2>1, <2>2, <2>4
  <1> QED BY <1>1, <1>2

LEMMA DoFlushStep ==
    ASSUME TransparentInv, DoFlush
    PROVE  TransparentInv'
  <1>1. /\ ~flushing /\ EmitFirstOf(Snapshot) /\ inOrder' = inOrder /\ direct' = direct
        /\ upserts' = Empty /\ updates' = Empty /\ deletes' = {}
    BY DEF DoFlush
  <1>2. emissions = << >>
    BY <1>1 DEF TransparentInv
  <1>3. IsRecords(Empty)
    BY DEF IsRecords, Empty
  <1>4. Snapshot \in Seq(Batches)
    BY <1>3, SnapshotRuns
  <1>5. inOrder' => /\ IsRecords(store')
                    /\ (\E mid : Runs(store', emissions', mid) /\ direct' = Flushed(mid)')
    <2> SUFFICES ASSUME inOrder' PROVE /\ IsRecords(store')
                    /\ (\E mid : Runs(store', emissions', mid) /\ direct' = Flushed(mid)')
      OBVIOUS
    <2>1. IsRecords(store)
      BY <1>1 DEF TransparentInv
    <2>2. PICK mid : Runs(store, emissions, mid) /\ direct = Flushed(mid)
      BY <1>1 DEF TransparentInv
    <2>3. direct = Flushed(store)
      BY <1>2, <2>2, RunsNone
    <2>4. Runs(store, Snapshot, direct)
      BY <2>1, <2>3, SnapshotRuns
    <2>5. IsRecords(store') /\ Runs(store', emissions', direct)
      BY <1>1, <1>4, <2>1, <2>4, EmitStep
    <2>6. IsRecords(direct)
      BY <2>3 DEF Flushed, Delete, IsRecords
    <2> DEFINE M == direct
    <2>7. direct' = Delete(Updated(Upserted(M, Empty), Empty), {})
      <3> HIDE DEF M
      <3>1. Upserted(M, Empty) = M /\ Updated(M, Empty) = M /\ Delete(M, {}) = M
        BY <2>6 DEF Upserted, Updated, Delete, Empty, IsRecords, M
      <3> QED BY <1>1, <3>1 DEF M
    <2>8. PICK N : N = direct
      OBVIOUS
    <2>9. direct' = Flushed(N)'
      <3>1. direct' = Delete(Updated(Upserted(N, Empty), Empty), {})
        BY <2>7, <2>8
      <3> QED BY <1>1, <3>1 DEF Flushed
    <2>10. Runs(store', emissions', N)
      BY <2>5, <2>8
    <2> QED BY <2>5, <2>9, <2>10
  <1>6. flushing' = (emissions' # << >>) /\ \E T : emissions' \in Seq(T)
    BY <1>1, <1>4, EmissionsStep
  <1>7. DOMAIN Empty = {}
    BY DEF Empty
  <1> QED BY <1>1, <1>5, <1>6, <1>7 DEF TransparentInv

LEMMA EmitBatchStep ==
    ASSUME TransparentInv, EmitBatch
    PROVE  TransparentInv'
  <1>1. EmitFirstOf(emissions) /\ UNCHANGED <<upserts, updates, deletes, direct, inOrder>>
    BY DEF EmitBatch, buf
  <1>2. PICK S : emissions \in Seq(S)
    BY DEF TransparentInv
  <1>3. inOrder' => /\ IsRecords(store')
                    /\ (\E mid : Runs(store', emissions', mid) /\ direct' = Flushed(mid)')
    <2> SUFFICES ASSUME inOrder' PROVE /\ IsRecords(store')
                    /\ (\E mid : Runs(store', emissions', mid) /\ direct' = Flushed(mid)')
      OBVIOUS
    <2>1. IsRecords(store)
      BY <1>1 DEF TransparentInv
    <2>2. PICK mid : Runs(store, emissions, mid) /\ direct = Flushed(mid)
      BY <1>1 DEF TransparentInv
    <2>3. IsRecords(store') /\ Runs(store', emissions', mid)
      BY <1>1, <1>2, <2>1, <2>2, EmitStep
    <2>4. direct' = Flushed(mid)'
      BY <1>1, <2>2 DEF Flushed
    <2> QED BY <2>3, <2>4
  <1>4. flushing' = (emissions' # << >>) /\ \E T : emissions' \in Seq(T)
    BY <1>1, <1>2, EmissionsStep
  <1> QED BY <1>1, <1>3, <1>4 DEF TransparentInv

LEMMA TransparentStep == ASSUME TransparentInv, [Next]_vars PROVE TransparentInv'
  <1>1. CASE FlushCalled \/ FlushReturns \/ UNCHANGED vars
    <2>1. UNCHANGED <<upserts, updates, deletes, flushing, emissions, store, direct, inOrder>>
      BY <1>1 DEF FlushCalled, FlushReturns, vars, buf, flush
    <2> QED BY <2>1 DEF TransparentInv, Flushed
  <1> QED BY <1>1, ProducerStep, DeleteMessageStep, DoFlushStep, EmitBatchStep DEF Next

LEMMA TransparentInvariant == Spec => []TransparentInv
  <1>1. Init => TransparentInv
    <2> SUFFICES ASSUME Init PROVE TransparentInv
      OBVIOUS
    <2>1. /\ upserts = Empty /\ updates = Empty /\ deletes = {} /\ flushing = FALSE
          /\ emissions = << >> /\ store = Empty /\ direct = Empty
      BY DEF Init
    <2>2. DOMAIN Empty = {} /\ IsRecords(Empty)
      BY DEF Empty, IsRecords
    <2>3. Flushed(Empty) = Empty
      BY <2>1 DEF Flushed, Upserted, Updated, Delete, Empty
    <2>4. Runs(store, emissions, Empty)
      BY <2>1, RunsNone
    <2>5. << >> \in Seq({})
      OBVIOUS
    <2> QED BY <2>1, <2>2, <2>3, <2>4, <2>5 DEF TransparentInv
  <1> QED BY <1>1, TransparentStep, PTL DEF Spec

\* The buffer changes when events are delivered, not what they do: as long as the events
\* of each item come in the order in which a flush emits them, the store has what it
\* would have had without the buffer whenever there is nothing left to deliver.
THEOREM BufferChangesNothing == Spec => []BufferIsTransparent
  <1>1. TransparentInv => BufferIsTransparent
    <2> SUFFICES ASSUME TransparentInv, Quiescent, inOrder
                 PROVE  store = direct
      BY DEF BufferIsTransparent
    <2>1. emissions = << >> /\ DOMAIN upserts = {} /\ DOMAIN updates = {} /\ deletes = {}
      BY DEF TransparentInv, Quiescent, Buffered
    <2>2. PICK mid : Runs(store, emissions, mid) /\ direct = Flushed(mid)
      BY DEF TransparentInv
    <2>3. mid = store /\ IsRecords(store)
      BY <2>1, <2>2, RunsNone DEF TransparentInv
    <2>4. Flushed(store) = store
      <3>1. \A M : IsRecords(M) => Upserted(M, upserts) = M /\ Updated(M, updates) = M /\ Delete(M, deletes) = M
        BY <2>1 DEF Upserted, Updated, Delete, IsRecords
      <3> QED BY <2>3, <3>1 DEF Flushed
    <2> QED BY <2>2, <2>3, <2>4
  <1> QED BY <1>1, TransparentInvariant, PTL

=============================================================================
