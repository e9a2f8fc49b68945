----------------------------- MODULE QueryProofs -----------------------------
(***************************************************************************)
(* Proofs about Query, for every set of queries, with and without a        *)
(* timeout, and about its use by the groups layer: what the operations     *)
(* return, and what the store becomes.                                     *)
(***************************************************************************)
EXTENDS Groups, TLAPS, FiniteSetTheorems, SequenceTheorems

\* Nothing of a query exists, is under way or has come in before it is made, and
\* from then on its promise does; its timer runs only while the promise is pending.
IdleIsUnsent ==
    \A q \in Queries :
        /\ caller[q] = "idle" <=> promise[q] = "none"
        /\ q \in timers => promise[q] = "pending"
        /\ caller[q] = "idle" => q \notin toServer \cup toClient \cup received

\* The inductive invariant.
IInv == TypeOK /\ IdleIsUnsent /\ NoResponseMissed /\ PendingIsWatched

-----------------------------------------------------------------------------
(* The query layer.                                                         *)

\* A caller that awaits a promise is in one of three states.
LEMMA AwaitType ==
  ASSUME NEW p \in {"pending", "resolved", "rejected"}
  PROVE  Await(p) \in {"waiting", "answered", "failed"}
BY DEF Await

\* A step that touches no promise, nor what watches it, keeps what the invariant
\* says of promises.
LEMMA PromisesKept ==
  ASSUME NoResponseMissed, PendingIsWatched,
         UNCHANGED <<promise, timers, listeners, received>>
  PROVE  NoResponseMissed' /\ PendingIsWatched'
BY DEF NoResponseMissed, PendingIsWatched, listeners

\* The promise of q settles: the other promises keep what the invariant says of
\* them, as long as nothing is taken from them.
LEMMA SettleInv ==
  ASSUME IInv, NEW q \in Queries, promise[q] = "pending",
         NEW p \in {"resolved", "rejected"}, Settle(q, p)
  PROVE  /\ promise' \in [Queries -> {"none", "pending", "resolved", "rejected"}]
         /\ caller' \in [Queries -> {"idle", "sending", "waiting", "answered", "failed"}]
         /\ promise'[q] = p
         /\ \A r \in Queries : r # q => promise'[r] = promise[r]
         /\ \A r \in Queries : caller'[r] = "idle" <=> caller[r] = "idle"
BY AwaitType DEF Settle, IInv, TypeOK, IdleIsUnsent

\* Every step keeps the invariant.
LEMMA InvStep == IInv /\ [Next]_vars => IInv'
<1> SUFFICES ASSUME IInv, [Next]_vars PROVE IInv'
  OBVIOUS
<1>1. ASSUME NEW q \in Queries, Start(q) PROVE IInv'
  <2>1. TypeOK'
    BY <1>1 DEF Start, Wait, IInv, TypeOK
  <2>2. IdleIsUnsent' /\ NoResponseMissed'
    BY <1>1 DEF Start, Wait, IInv, TypeOK, IdleIsUnsent, NoResponseMissed
  <2>3. PendingIsWatched'
    BY <1>1 DEF Start, Wait, IInv, TypeOK, PendingIsWatched
  <2> QED
    BY <2>1, <2>2, <2>3 DEF IInv
<1>2. ASSUME NEW q \in Queries, Sent(q) PROVE IInv'
  <2>1. /\ UNCHANGED <<connected, promise, timers, listeners, network, received>>
        /\ caller[q] = "sending"
        /\ caller' = [caller EXCEPT ![q] = Await(promise[q])]
    BY <1>2 DEF Sent
  <2>2. Await(promise[q]) \in {"waiting", "answered", "failed"}
    BY <2>1, AwaitType DEF IInv, TypeOK, IdleIsUnsent
  <2>3. TypeOK' /\ IdleIsUnsent'
    BY <2>1, <2>2 DEF IInv, TypeOK, IdleIsUnsent, listeners, network
  <2> QED
    BY <2>1, <2>3, PromisesKept DEF IInv
<1>3. ASSUME NEW q \in Queries, Response(q) PROVE IInv'
  <2>1. /\ q \in toClient
        /\ toClient' \in {toClient, toClient \ {q}}
        /\ received' = received \cup {q}
        /\ UNCHANGED <<connected, tagListeners, toServer>>
    BY <1>3 DEF Response
  <2>2. promise[q] # "none"
    BY <2>1 DEF IInv, IdleIsUnsent
  <2>3. CASE promise[q] = "pending"
    <3>1. /\ Settle(q, "resolved")
          /\ timers' = timers \ {q}
          /\ closeListeners' = closeListeners \ {q}
      BY <1>3, <2>3 DEF Response, IInv, PendingIsWatched
    <3>2. /\ promise' \in [Queries -> {"none", "pending", "resolved", "rejected"}]
          /\ caller' \in [Queries -> {"idle", "sending", "waiting", "answered", "failed"}]
          /\ promise'[q] = "resolved"
          /\ \A r \in Queries : r # q => promise'[r] = promise[r]
          /\ \A r \in Queries : caller'[r] = "idle" <=> caller[r] = "idle"
      BY <2>3, <3>1, SettleInv
    <3>3. TypeOK'
      BY <2>1, <3>1, <3>2 DEF IInv, TypeOK
    <3>4. IdleIsUnsent'
      BY <2>1, <2>2, <2>3, <3>1, <3>2 DEF IInv, IdleIsUnsent
    <3>5. NoResponseMissed' /\ PendingIsWatched'
      BY <2>1, <3>1, <3>2 DEF IInv, TypeOK, NoResponseMissed, PendingIsWatched
    <3> QED
      BY <3>3, <3>4, <3>5 DEF IInv
  <2>4. CASE promise[q] # "pending"
    <3>1. /\ UNCHANGED <<promise, caller, timers>>
          /\ closeListeners' \in {closeListeners, closeListeners \ {q}}
      BY <1>3, <2>4 DEF Response
    <3>2. TypeOK' /\ IdleIsUnsent'
      BY <2>1, <2>2, <3>1 DEF IInv, TypeOK, IdleIsUnsent
    <3>3. NoResponseMissed' /\ PendingIsWatched'
      BY <2>1, <2>4, <3>1 DEF IInv, NoResponseMissed, PendingIsWatched
    <3> QED
      BY <3>2, <3>3 DEF IInv
  <2> QED
    BY <2>3, <2>4
<1>4. ASSUME NEW q \in Queries, TimesOut(q) PROVE IInv'
  <2>1. /\ q \in timers
        /\ timers' = timers \ {q}
        /\ tagListeners' = tagListeners \ {q}
        /\ closeListeners' = closeListeners \ {q}
        /\ Settle(q, "rejected")
        /\ UNCHANGED <<connected, network, received>>
    BY <1>4 DEF TimesOut
  <2>0. promise[q] = "pending"
    BY <2>1 DEF IInv, IdleIsUnsent
  <2>2. /\ promise' \in [Queries -> {"none", "pending", "resolved", "rejected"}]
        /\ caller' \in [Queries -> {"idle", "sending", "waiting", "answered", "failed"}]
        /\ promise'[q] = "rejected"
        /\ \A r \in Queries : r # q => promise'[r] = promise[r]
        /\ \A r \in Queries : caller'[r] = "idle" <=> caller[r] = "idle"
    BY <2>0, <2>1, SettleInv
  <2>3. TypeOK'
    BY <2>1, <2>2 DEF IInv, TypeOK, network
  <2>4. NoResponseMissed' /\ PendingIsWatched'
    BY <2>1, <2>2 DEF IInv, TypeOK, NoResponseMissed, PendingIsWatched
  <2> QED
    BY <2>0, <2>1, <2>2, <2>3, <2>4 DEF IInv, IdleIsUnsent, network
<1>5. ASSUME NEW q \in Queries, ServerAnswers(q) PROVE IInv'
  <2>1. TypeOK' /\ IdleIsUnsent'
    BY <1>5 DEF ServerAnswers, IInv, TypeOK, IdleIsUnsent, listeners
  <2> QED
    BY <1>5, <2>1, PromisesKept DEF ServerAnswers, IInv
<1>6. CASE ConnectionLost
  <2>1. TypeOK' /\ IdleIsUnsent'
    BY <1>6 DEF ConnectionLost, IInv, TypeOK, IdleIsUnsent, listeners
  <2> QED
    BY <1>6, <2>1, PromisesKept DEF ConnectionLost, IInv
<1>7. CASE Reconnected
  <2>1. TypeOK' /\ IdleIsUnsent'
    BY <1>7 DEF Reconnected, IInv, TypeOK, IdleIsUnsent, listeners, network
  <2> QED
    BY <1>7, <2>1, PromisesKept DEF Reconnected, IInv
<1>8. CASE UNCHANGED vars
  <2>1. TypeOK' /\ IdleIsUnsent'
    BY <1>8 DEF vars, IInv, TypeOK, IdleIsUnsent, listeners, network
  <2> QED
    BY <1>8, <2>1, PromisesKept DEF vars, IInv
<1> QED
  BY <1>1, <1>2, <1>3, <1>4, <1>5, <1>6, <1>7, <1>8 DEF Next

\* The invariant holds of every behaviour.
LEMMA Invariance == Spec => []IInv
<1>1. Init => IInv
  BY DEF Init, IInv, TypeOK, IdleIsUnsent, NoResponseMissed, PendingIsWatched
<1> QED
  BY <1>1, InvStep, PTL DEF Spec

-----------------------------------------------------------------------------
\* Every variable stays in its type.
THEOREM TypeCorrect == Spec => []TypeOK
<1>1. IInv => TypeOK
  BY DEF IInv
<1> QED
  BY <1>1, Invariance, PTL

\* query() misses no response, however early, late or often it comes.
THEOREM NothingMissed == Spec => []NoResponseMissed
<1>1. IInv => NoResponseMissed
  BY DEF IInv
<1> QED
  BY <1>1, Invariance, PTL

\* Whatever is pending still has what can settle it.
THEOREM PendingWatched == Spec => []PendingIsWatched
<1>1. IInv => PendingIsWatched
  BY DEF IInv
<1> QED
  BY <1>1, Invariance, PTL

-----------------------------------------------------------------------------
(* The groups layer is a user of the query layer.                           *)

\* Every step of the groups layer is one of the query layer, or leaves it as it is.
LEMMA GroupsStep == [GroupsNext]_allvars => [Next]_vars
  <1>1. ASSUME GroupsNext PROVE Next \/ UNCHANGED vars
    <2>1. CASE QueryStep
      BY <2>1 DEF QueryStep, Next
    <2>2. CASE Redelivery
      BY <2>2 DEF Redelivery, Next
    <2>3. CASE \E q \in Queries : Serves(q)
      BY <2>3 DEF Serves, Next
    <2>4. CASE \E r \in Requests, q \in Queries : Call(q, r)
      BY <2>4 DEF Call, Next
    <2>5. CASE \/ Acknowledged \/ NotificationArrives
               \/ \E r \in Requests, p \in Members : OthersChange(r, p)
               \/ \E q \in Queries : Returns(q)
      <3>1. Acknowledged => UNCHANGED vars
        BY DEF Acknowledged
      <3>2. NotificationArrives => UNCHANGED vars
        BY DEF NotificationArrives
      <3>3. \A r, p : OthersChange(r, p) => UNCHANGED vars
        BY DEF OthersChange
      <3>4. \A q : Returns(q) => UNCHANGED vars
        BY DEF Returns
      <3> QED BY <2>5, <3>1, <3>2, <3>3, <3>4
    <2> QED BY <1>1, <2>1, <2>2, <2>3, <2>4, <2>5 DEF GroupsNext
  <1>2. UNCHANGED allvars => UNCHANGED vars
    BY DEF allvars
  <1> QED BY <1>1, <1>2

\* The operations of the groups layer use the query layer as it wants to be used: each of
\* its behaviours, with whatever operations, notifications and other members, is one of the
\* query layer, whose theorems hold in it.
THEOREM GroupsUseQueries == GroupsSpec => Spec
  <1>1. GroupsInit => Init
    BY DEF GroupsInit
  <1> QED BY <1>1, GroupsStep, PTL DEF GroupsSpec, Spec

\* So no operation on a group misses an answer that has come in.
COROLLARY NoAnswerMissed == GroupsSpec => []NoResponseMissed
  BY GroupsUseQueries, NothingMissed, PTL

-----------------------------------------------------------------------------
(* Sequences: concatenation, the elements at some places, sets in an order. *)

\* A sequence of n elements.
IsSeq(c, n) == n \in Nat /\ c = [i \in 1..n |-> c[i]]

\* A sequence with nothing after it is itself.
LEMMA ConcatNone ==
  ASSUME NEW c, NEW n, IsSeq(c, n)
  PROVE  c \o << >> = c
<1> DEFINE S == {c[i] : i \in 1..n}
<1>1. c \in Seq(S)
  <2>1. c \in [1..n -> S]
    BY DEF IsSeq
  <2> QED BY <2>1 DEF IsSeq
<1> HIDE DEF S
<1> QED BY <1>1, ConcatEmptySeq

\* d is c, of n elements, with x after it.
Followed(d, c, n, x) ==
    /\ IsSeq(d, n + 1)
    /\ \A i \in 1..n : d[i] = c[i]
    /\ d[n + 1] = x

\* Appending one element follows a sequence with it.
LEMMA ConcatOne ==
  ASSUME NEW c, NEW n, IsSeq(c, n), NEW x
  PROVE  Followed(c \o <<x>>, c, n, x)
<1> DEFINE S == {c[i] : i \in 1..n} \cup {x}
<1>0. n \in Nat BY DEF IsSeq
<1>1. c \in Seq(S) /\ Len(c) = n
  <2>1. c \in [1..n -> S]
    BY DEF IsSeq
  <2> QED BY <1>0, <2>1
<1>2. <<x>> \in Seq(S) /\ Len(<<x>>) = 1 /\ <<x>>[1] = x
  <2>1. x \in S
    OBVIOUS
  <2> HIDE DEF S
  <2> QED BY <2>1
<1> HIDE DEF S
<1> DEFINE t == <<x>>
<1>3. t \in Seq(S) /\ Len(t) = 1 /\ t[1] = x
  BY <1>2
<1> HIDE DEF t
<1>4. /\ c \o t \in Seq(S)
      /\ Len(c \o t) = n + 1
      /\ \A i \in 1..n + 1 : (c \o t)[i] = IF i <= n THEN c[i] ELSE t[i - n]
  <2>1. /\ c \o t \in Seq(S)
        /\ Len(c \o t) = Len(c) + Len(t)
        /\ \A i \in 1 .. Len(c) + Len(t) : (c \o t)[i] =
              IF i <= Len(c) THEN c[i] ELSE t[i - Len(c)]
    BY <1>1, <1>3, ConcatProperties, Zenon
  <2> QED BY <1>1, <1>3, <2>1
<1>5. DOMAIN (c \o t) = 1..n + 1 /\ c \o t = [i \in 1..n+1 |-> (c \o t)[i]]
  BY <1>4, LenProperties
<1>6. /\ IsSeq(c \o t, n + 1)
      /\ \A i \in 1..n : (c \o t)[i] = c[i]
      /\ (c \o t)[n + 1] = x
  BY <1>0, <1>3, <1>4, <1>5 DEF IsSeq
<1> QED BY <1>6 DEF t, Followed

\* SetToSeq() lists every element of a finite set once.
LEMMA SetToSeqLists ==
  ASSUME NEW S, IsFiniteSet(S)
  PROVE  /\ IsSeq(SetToSeq(S), Cardinality(S))
         /\ {SetToSeq(S)[i] : i \in 1..Cardinality(S)} = S
         /\ \A i, j \in 1..Cardinality(S) : SetToSeq(S)[i] = SetToSeq(S)[j] => i = j
<1> DEFINE n == Cardinality(S)
           p == SetToSeq(S)
<1>1. n \in Nat /\ ExistsBijection(1..n, S)
  BY FS_CardinalityType
<1>2. \E f \in [1..n -> S] : IsInjective(f)
  BY <1>1 DEF ExistsBijection, Bijection, Injection, Surjection
<1>3. p \in [1..n -> S] /\ IsInjective(p)
  BY <1>2 DEF SetToSeq
<1>4. IsFiniteSet(1..n) /\ Cardinality(1..n) = n
  BY <1>1, FS_Interval
<1>5. p \in Injection(1..n, S)
  BY <1>3 DEF Injection
<1>6. p \in Surjection(1..n, S)
  BY <1>1, <1>4, <1>5, FS_Injection
<1>7. \A i, j \in 1..n : p[i] = p[j] => i = j
  BY <1>3 DEF IsInjective
<1> QED BY <1>1, <1>3, <1>6, <1>7 DEF Surjection, IsSeq

\* found is the first n of c, in the order p.
Rearranged(found, c, p, n) ==
    /\ p \in [1..n -> 1..n]
    /\ {p[i] : i \in 1..n} = 1..n
    /\ \A i, j \in 1..n : p[i] = p[j] => i = j
    /\ found = [i \in 1..n |-> c[p[i]]]

\* The positions in their order are each there once.
LEMMA InOrderIs ==
  ASSUME NEW n \in Nat, NEW K \in SUBSET (1..n)
  PROVE  /\ Cardinality(K) \in Nat
         /\ InOrder(K) \in [1..Cardinality(K) -> K]
         /\ \A i, j \in 1..Cardinality(K) : i < j => InOrder(K)[i] < InOrder(K)[j]
         /\ \A i, j \in 1..Cardinality(K) : InOrder(K)[i] = InOrder(K)[j] => i = j
         /\ \A k \in K : \E i \in 1..Cardinality(K) : InOrder(K)[i] = k
<1> DEFINE C == Cardinality(K)
           UpTo(k) == {j \in K : j <= k}
           rank == [k \in K |-> Cardinality(UpTo(k))]
<1>1. IsFiniteSet(K) /\ C \in Nat
  <2>1. IsFiniteSet(1..n)
    BY FS_Interval
  <2> QED BY <2>1, FS_Subset, FS_CardinalityType
<1>2. IsFiniteSet(1..C) /\ Cardinality(1..C) = C
  BY <1>1, FS_Interval
<1>3. ASSUME NEW k \in K PROVE IsFiniteSet(UpTo(k)) /\ rank[k] = Cardinality(UpTo(k)) /\ rank[k] \in 1..C
  <2>1. UpTo(k) \in SUBSET K
    OBVIOUS
  <2>2. IsFiniteSet(UpTo(k)) /\ Cardinality(UpTo(k)) <= C /\ Cardinality(UpTo(k)) \in Nat
    BY <1>1, <2>1, FS_Subset, FS_CardinalityType
  <2>3. k \in UpTo(k)
    OBVIOUS
  <2>4. Cardinality(UpTo(k)) # 0
    BY <2>2, <2>3, FS_EmptySet
  <2> QED BY <1>1, <2>2, <2>4
<1>4. ASSUME NEW k \in K, NEW l \in K, k < l PROVE rank[k] < rank[l]
  <2>1. UpTo(k) \in SUBSET UpTo(l)
    <3>1. \A j \in K : j <= k => j <= l
      BY <1>4
    <3> QED BY <3>1
  <2>3. l \in UpTo(l) /\ l \notin UpTo(k)
    BY <1>4
  <2>2. Cardinality(UpTo(k)) <= Cardinality(UpTo(l)) /\ Cardinality(UpTo(k)) # Cardinality(UpTo(l))
    BY <1>3, <2>1, <2>3, FS_Subset
  <2> QED BY <1>3, <2>2
<1> HIDE DEF rank, UpTo
<1>5. \A k, l \in K : rank[k] = rank[l] => k = l
  BY <1>3, <1>4
<1>6. rank \in Injection(K, 1..C)
  <2>1. DOMAIN rank = K /\ rank \in [K -> 1..C]
    BY <1>3 DEF rank
  <2> QED BY <1>5, <2>1 DEF Injection, IsInjective
<1>7. \A c \in 1..C : \E k \in K : rank[k] = c
  <2>1. rank \in Surjection(K, 1..C)
    BY <1>2, <1>6, FS_Injection
  <2> QED BY <2>1 DEF Surjection
<1> DEFINE Increasing(p) == \A i, j \in DOMAIN p : i < j => p[i] < p[j]
<1>8. \E p \in [1..C -> K] : Increasing(p)
  <2> DEFINE p == [c \in 1..C |-> CHOOSE k \in K : rank[k] = c]
  <2>1. \A c \in 1..C : p[c] \in K /\ rank[p[c]] = c
    BY <1>7
  <2>2. ASSUME NEW i \in 1..C, NEW j \in 1..C, i < j PROVE p[i] < p[j]
    <3> HIDE DEF p
    <3>1. p[i] \in 1..n /\ p[j] \in 1..n
      BY <2>1
    <3>2. p[i] # p[j]
      BY <2>1, <2>2
    <3>3. ~(p[j] < p[i])
      <4>1. p[j] < p[i] => rank[p[j]] < rank[p[i]]
        BY <1>4, <2>1
      <4> QED BY <2>1, <2>2, <4>1
    <3> QED BY <3>1, <3>2, <3>3
  <2>3. p \in [1..C -> K] /\ DOMAIN p = 1..C
    BY <2>1
  <2> QED BY <2>2, <2>3
<1>9. InOrder(K) = CHOOSE p \in [1..C -> K] : Increasing(p)
  BY DEF InOrder
<1>10. InOrder(K) \in [1..C -> K] /\ Increasing(InOrder(K))
  BY <1>8, <1>9
<1>11. \A i, j \in 1..C : i < j => InOrder(K)[i] < InOrder(K)[j]
  BY <1>10
<1> DEFINE q == InOrder(K)
<1>12. \A i, j \in 1..C : InOrder(K)[i] = InOrder(K)[j] => i = j
  <2> SUFFICES ASSUME NEW i \in 1..C, NEW j \in 1..C, i < j PROVE InOrder(K)[i] # InOrder(K)[j]
    BY <1>1
  <2>1. InOrder(K)[i] < InOrder(K)[j] /\ InOrder(K)[i] \in 1..n /\ InOrder(K)[j] \in 1..n
    BY <1>10, <1>11
  <2> QED BY <2>1
<1>13. InOrder(K) \in Surjection(1..C, K)
  <2>1. InOrder(K) \in Injection(1..C, K)
    BY <1>10, <1>12 DEF Injection, IsInjective
  <2> QED BY <1>1, <1>2, <2>1, FS_Injection
<1> QED BY <1>1, <1>10, <1>11, <1>12, <1>13 DEF Surjection

\* What filter() finds if the first n children of a node, and no others, have the tag: these.
LEMMA FoundFirst ==
  ASSUME NEW node, NEW tag, NEW n \in Nat,
         With(node, tag) = 1..n
  PROVE  \E p : Rearranged(GetChildren(node, tag), GetAllChildren(node), p, n)
<1> DEFINE p == InOrder(1..n)
<1>1. Cardinality(1..n) = n
  BY FS_Interval
<1>2. /\ p \in [1..n -> 1..n]
      /\ \A k \in 1..n : \E i \in 1..n : p[i] = k
      /\ \A i, j \in 1..n : p[i] = p[j] => i = j
  BY <1>1, InOrderIs
<1>3. GetChildren(node, tag) = [i \in 1..n |-> GetAllChildren(node)[p[i]]]
  BY <1>1 DEF GetChildren, Only
<1> HIDE DEF p
<1>4. {p[i] : i \in 1..n} = 1..n
  <2>1. (\A i \in 1..n : p[i] \in 1..n) /\ (\A k \in 1..n : \E i \in 1..n : p[i] = k)
    BY <1>2
  <2> QED BY <2>1, Zenon
<1>5. Rearranged(GetChildren(node, tag), GetAllChildren(node), p, n)
  BY <1>2, <1>3, <1>4, Zenon DEF Rearranged
<1> QED BY <1>5

-----------------------------------------------------------------------------
(* What the parsers read in what the server writes.                         *)

\* Roles of people.
AreRoles(members) ==
    /\ DOMAIN members \subseteq People
    /\ members = [p \in DOMAIN members |-> members[p]]
    /\ \A p \in DOMAIN members : members[p] \in Roles

\* Those with a role are finitely many.
LEMMA RolesOfFew ==
  ASSUME NEW members, AreRoles(members)
  PROVE  IsFiniteSet(DOMAIN members)
<1>1. IsFiniteSet(People)
  BY MembersAssumption, FS_AddElement DEF People
<1> QED BY <1>1, FS_Subset DEF AreRoles

\* Who has no role.
Gone == "gone"

\* The roles of all people.
RolesOf(members) == [p \in People |-> IF p \in DOMAIN members THEN members[p] ELSE Gone]

\* The list, of n elements, has those that have a role in st, each once and with the role.
Holds(list, n, st) ==
    /\ IsSeq(list, n)
    /\ \A i \in 1..n :
          /\ list[i].id \in People
          /\ st[list[i].id] # Gone
          /\ list[i] = Participant(list[i].id, st[list[i].id])
    /\ \A i, j \in 1..n : list[i].id = list[j].id => i = j
    /\ \A p \in People : st[p] # Gone => \E i \in 1..n : list[i].id = p

\* Such a list of the members of a group is, as a set, what SameGroup compares.
LEMMA HoldsSame ==
  ASSUME NEW members, AreRoles(members), NEW list, NEW n, Holds(list, n, RolesOf(members))
  PROVE  /\ Len(list) = Cardinality(DOMAIN members)
         /\ ToSet(list) = {Participant(p, members[p]) : p \in DOMAIN members}
<1> DEFINE ids == [i \in 1..n |-> list[i].id]
<1>1. IsSeq(list, n) /\ n \in Nat
  BY DEF Holds, IsSeq
<1>2. ASSUME NEW i \in 1..n
      PROVE  list[i].id \in DOMAIN members /\ list[i] = Participant(list[i].id, members[list[i].id])
  <2>1. /\ list[i].id \in People /\ RolesOf(members)[list[i].id] # Gone
        /\ list[i] = Participant(list[i].id, RolesOf(members)[list[i].id])
    BY DEF Holds
  <2> QED BY <2>1 DEF RolesOf
<1>3. \A p \in DOMAIN members : \E i \in 1..n : list[i].id = p
  <2> SUFFICES ASSUME NEW p \in DOMAIN members PROVE \E i \in 1..n : list[i].id = p
    OBVIOUS
  <2>1. p \in People /\ RolesOf(members)[p] # Gone
    BY DEF RolesOf, AreRoles, Roles, Gone
  <2> QED BY <2>1 DEF Holds
<1>4. \A i, j \in 1..n : list[i].id = list[j].id => i = j
  BY DEF Holds
<1>5. Len(list) = n /\ DOMAIN list = 1..n
  BY <1>1 DEF IsSeq
<1>6. ids \in Injection(1..n, DOMAIN members) /\ ids \in Surjection(1..n, DOMAIN members)
  BY <1>2, <1>3, <1>4 DEF Injection, Surjection, IsInjective
<1>7. ids \in Bijection(1..n, DOMAIN members)
  BY <1>6 DEF Bijection
<1>8. Cardinality(1..n) = n /\ IsFiniteSet(1..n)
  BY <1>1, FS_Interval
<1>9. Cardinality(DOMAIN members) = n
  <2>1. ExistsBijection(1..n, DOMAIN members)
    BY <1>7 DEF ExistsBijection
  <2> QED BY <1>8, <2>1, FS_Bijection
<1>10. ToSet(list) = {Participant(p, members[p]) : p \in DOMAIN members}
  <2>1. ToSet(list) = {list[i] : i \in 1..n}
    BY <1>5 DEF ToSet
  <2> QED BY <1>2, <1>3, <2>1
<1> QED BY <1>5, <1>9, <1>10

\* The node of one of them.
Listed(p, role) ==
    Node("participant",
         IF role = "member" THEN [jid |-> p] ELSE [jid |-> p, type |-> role], << >>)

\* What is read in it is the role.
LEMMA ListedIsRead ==
  ASSUME NEW p, NEW role \in Roles
  PROVE  /\ Listed(p, role).tag = "participant"
         /\ Participant(Listed(p, role).attrs.jid, Attr(Listed(p, role), "type", None))
              = Participant(p, role)
<1>1. CASE role = "member"
  <2>1. Listed(p, role) = [tag |-> "participant", attrs |-> [jid |-> p], kind |-> "nodes", content |-> << >>]
    BY <1>1 DEF Listed, Node
  <2>2. Attr(Listed(p, role), "type", None) = None
    BY <2>1 DEF Attr
  <2> QED BY <1>1, <2>1, <2>2 DEF Participant, None
<1>2. CASE role # "member"
  <2>1. Listed(p, role) = [tag |-> "participant", attrs |-> [jid |-> p, type |-> role], kind |-> "nodes", content |-> << >>]
    BY <1>2 DEF Listed, Node
  <2>2. Attr(Listed(p, role), "type", None) = role
    BY <2>1 DEF Attr
  <2> QED BY <2>1, <2>2
<1> QED BY <1>1, <1>2

\* nodes are those of all of them, in the order ps.
AllListed(nodes, members, ps, n) ==
    /\ IsSeq(ps, n)
    /\ {ps[i] : i \in 1..n} = DOMAIN members
    /\ \A i, j \in 1..n : ps[i] = ps[j] => i = j
    /\ IsSeq(nodes, n)
    /\ \A i \in 1..n : nodes[i] = Listed(ps[i], members[ps[i]])

\* The server lists them all.
LEMMA AllAreListed ==
  ASSUME NEW members, AreRoles(members)
  PROVE  \E ps : AllListed(ParticipantNodes(members), members, ps, Cardinality(DOMAIN members))
<1> DEFINE ps == SetToSeq(DOMAIN members)
           n == Cardinality(DOMAIN members)
<1>1. /\ IsSeq(ps, n) /\ {ps[i] : i \in 1..n} = DOMAIN members
      /\ \A i, j \in 1..n : ps[i] = ps[j] => i = j
  BY RolesOfFew, SetToSeqLists
<1>2. ParticipantNodes(members) = [i \in DOMAIN ps |-> Listed(ps[i], members[ps[i]])]
  BY DEF ParticipantNodes, Listed
<1> HIDE DEF ps, n
<1>3. DOMAIN ps = 1..n /\ n \in Nat
  BY <1>1 DEF IsSeq
<1>4. /\ IsSeq(ParticipantNodes(members), n)
      /\ \A i \in 1..n : ParticipantNodes(members)[i] = Listed(ps[i], members[ps[i]])
  BY <1>2, <1>3 DEF IsSeq
<1> QED BY <1>1, <1>4 DEF n, AllListed

\* So the participants are read from any node that has them first and then others.
LEMMA ParticipantsAreRead ==
  ASSUME NEW members, AreRoles(members), NEW node, NEW k,
         LET c == GetAllChildren(node)
             n == Cardinality(DOMAIN members)
         IN  /\ IsSeq(c, k)
             /\ n <= k
             /\ \A i \in 1..n : c[i] = ParticipantNodes(members)[i]
             /\ \A i \in n + 1 .. k : c[i].tag # "participant"
  PROVE  Holds(ParseParticipants(node), Cardinality(DOMAIN members), RolesOf(members))
<1> DEFINE n == Cardinality(DOMAIN members)
           c == GetAllChildren(node)
           found == GetChildren(node, "participant")
           read == ParseParticipants(node)
<1>1. PICK ps : AllListed(ParticipantNodes(members), members, ps, n)
  BY AllAreListed
<1>2. n \in Nat /\ k \in Nat /\ DOMAIN c = 1..k
  BY <1>1 DEF AllListed, IsSeq
<1>3. \A i \in 1..n : ps[i] \in DOMAIN members /\ members[ps[i]] \in Roles
  BY <1>1 DEF AllListed, AreRoles
<1>4. \A i \in 1..n : c[i] = Listed(ps[i], members[ps[i]]) /\ c[i].tag = "participant"
  BY <1>1, <1>3, ListedIsRead DEF AllListed
<1>5. With(node, "participant") = 1..n
  BY <1>2, <1>4 DEF With
<1>6. PICK p : Rearranged(found, c, p, n)
  BY <1>2, <1>5, FoundFirst
<1>7. read = [i \in 1..n |-> Participant(found[i].attrs.jid, Attr(found[i], "type", None))]
  BY <1>6 DEF Rearranged, ParseParticipants
<1>8. \A i \in 1..n : read[i] = Participant(ps[p[i]], members[ps[p[i]]])
  <2> SUFFICES ASSUME NEW i \in 1..n PROVE read[i] = Participant(ps[p[i]], members[ps[p[i]]])
    OBVIOUS
  <2>1. p[i] \in 1..n /\ found[i] = c[p[i]]
    BY <1>6 DEF Rearranged
  <2>2. found[i] = Listed(ps[p[i]], members[ps[p[i]]]) /\ members[ps[p[i]]] \in Roles
    BY <1>3, <1>4, <2>1
  <2>3. read[i] = Participant(found[i].attrs.jid, Attr(found[i], "type", None))
    BY <1>7
  <2> HIDE DEF found, read
  <2> QED BY <2>2, <2>3, ListedIsRead
<1>9. IsSeq(read, n)
  <2> HIDE DEF read, n, found
  <2> QED BY <1>2, <1>7 DEF IsSeq
<1>10. \A i \in 1..n : ps[p[i]] \in DOMAIN members
  BY <1>3, <1>6 DEF Rearranged
<1>11. \A x \in DOMAIN members : \E i \in 1..n : ps[p[i]] = x
  BY <1>1, <1>6 DEF AllListed, Rearranged
<1>12. \A i, j \in 1..n : ps[p[i]] = ps[p[j]] => i = j
  BY <1>1, <1>6 DEF AllListed, Rearranged
<1> HIDE DEF read, n, found, c
<1>13. \A i \in 1..n : read[i].id = ps[p[i]]
  <2>1. \A x, t : Participant(x, t).id = x
    BY DEF Participant
  <2> QED BY <1>8, <2>1
<1>14. \A x \in DOMAIN members : /\ x \in People /\ members[x] # Gone
                               /\ RolesOf(members)[x] = members[x]
  BY DEF AreRoles, RolesOf, Roles, Gone
<1>15. \A x \in People : RolesOf(members)[x] # Gone => x \in DOMAIN members
  BY DEF RolesOf
<1>16. Holds(read, n, RolesOf(members))
  BY <1>8, <1>9, <1>10, <1>11, <1>12, <1>13, <1>14, <1>15 DEF Holds
<1> QED BY <1>16 DEF n, read

-----------------------------------------------------------------------------
\* d is c, of n elements, with x after it if b holds.
Longer(n, b) == IF b THEN n + 1 ELSE n
Extended(d, c, n, b, x) ==
    /\ IsSeq(d, Longer(n, b))
    /\ \A i \in 1..n : d[i] = c[i]
    /\ b => d[Longer(n, b)] = x

\* Its length.
LEMMA LongerIs ==
  ASSUME NEW n \in Nat, NEW b \in BOOLEAN
  PROVE  /\ Longer(n, b) \in Nat
         /\ n <= Longer(n, b)
         /\ b => Longer(n, b) = n + 1
         /\ ~b => Longer(n, b) = n
<1>1. CASE b
  BY <1>1 DEF Longer
<1>2. CASE ~b
  BY <1>2 DEF Longer
<1> QED BY <1>1, <1>2

\* What is appended under a condition.
LEMMA ConcatIf ==
  ASSUME NEW c, NEW n, IsSeq(c, n), NEW b \in BOOLEAN, NEW x
  PROVE  Extended(c \o IF b THEN <<x>> ELSE << >>, c, n, b, x)
<1> DEFINE d == c \o IF b THEN <<x>> ELSE << >>
<1>1. CASE b
  <2>1. d = c \o <<x>> /\ Longer(n, b) = n + 1
    BY <1>1, LongerIs DEF IsSeq
  <2>2. Followed(d, c, n, x)
    BY <2>1, ConcatOne, Zenon
  <2> HIDE DEF d
  <2>3. Extended(d, c, n, b, x)
    BY <1>1, <2>1, <2>2 DEF Followed, Extended
  <2> QED BY <2>3 DEF d
<1>2. CASE ~b
  <2>1. d = c \o << >> /\ Longer(n, b) = n
    BY <1>2, LongerIs DEF IsSeq
  <2> HIDE DEF d
  <2>2. d = c
    BY <2>1, ConcatNone
  <2> QED BY <1>2, <2>1, <2>2 DEF d, Extended
<1> QED BY <1>1, <1>2

\* The children of the node of a group that are not participants.
LockedNode == Node("locked", NoAttrs, << >>)
AnnounceNode == Node("announce", NoAttrs, << >>)
DescriptionNode(text) == Node("description", NoAttrs, <<Received("body", text)>>)

\* The children of the node of a group g, k of them, are its n members and then those of its
\* properties that it has, each at a place of its own.
Places(g, c, n, k) ==
    LET k1 == Longer(n, g.locked)
        k2 == Longer(k1, g.announce)
    IN  /\ n \in Nat
        /\ k = Longer(k2, g.description # "")
        /\ IsSeq(c, k)
        /\ \A i \in 1..n : c[i] = ParticipantNodes(g.members)[i] /\ c[i].tag = "participant"
        /\ g.locked => c[k1] = LockedNode
        /\ g.announce => c[k2] = AnnounceNode
        /\ g.description # "" => c[k] = DescriptionNode(g.description)

\* The values of a group's members, and of a group.
MembersType == {m \in UNION {[S -> Roles] : S \in SUBSET People} : AreRoles(m)}

GroupType == [members : MembersType,
              locked : BOOLEAN, announce : BOOLEAN,
              subject : Texts \cup {""}, description : Texts \cup {""}, code : Nat]

\* The node of a group has these children.
LEMMA GroupIsPlaced ==
  ASSUME NEW g \in GroupType
  PROVE  /\ GroupNode(g).kind = "nodes"
         /\ GroupNode(g).attrs = [id |-> "group", subject |-> g.subject]
         /\ GroupNode(g).tag = "group"
         /\ \E k : Places(g, GroupNode(g).content, Cardinality(DOMAIN g.members), k)
<1> DEFINE n == Cardinality(DOMAIN g.members)
           P == ParticipantNodes(g.members)
           b3 == g.description # ""
           c1 == P \o IF g.locked THEN <<LockedNode>> ELSE << >>
           c2 == c1 \o IF g.announce THEN <<AnnounceNode>> ELSE << >>
           c3 == c2 \o IF b3 THEN <<DescriptionNode(g.description)>> ELSE << >>
           k1 == Longer(n, g.locked)
           k2 == Longer(k1, g.announce)
           k3 == Longer(k2, b3)
<1>1. /\ AreRoles(g.members) /\ g.locked \in BOOLEAN /\ g.announce \in BOOLEAN
      /\ b3 \in BOOLEAN
  BY DEF GroupType, MembersType
<1>2. PICK ps : AllListed(P, g.members, ps, n)
  BY <1>1, AllAreListed
<1>3. IsSeq(P, n) /\ n \in Nat
  BY <1>2 DEF AllListed, IsSeq
<1>4. \A i \in 1..n : P[i].tag = "participant"
  BY <1>1, <1>2, ListedIsRead DEF AllListed, AreRoles
<1>5. GroupNode(g) = [tag |-> "group", attrs |-> [id |-> "group", subject |-> g.subject],
                      kind |-> "nodes", content |-> c3]
  BY DEF GroupNode, Node, LockedNode, AnnounceNode, DescriptionNode
<1>6. Extended(c1, P, n, g.locked, LockedNode)
  BY <1>1, <1>3, ConcatIf
<1>7. Extended(c2, c1, k1, g.announce, AnnounceNode)
  <2>1. IsSeq(c1, k1)
    BY <1>6 DEF Extended
  <2> HIDE DEF c1, k1
  <2> QED BY <1>1, <2>1, ConcatIf
<1>8. Extended(c3, c2, k2, b3, DescriptionNode(g.description))
  <2>1. IsSeq(c2, k2)
    BY <1>7 DEF Extended
  <2> HIDE DEF c2, k2, b3
  <2> QED BY <1>1, <2>1, ConcatIf
<1>9. Places(g, c3, n, k3)
  <2> HIDE DEF c1, c2, c3, n, P
  <2>1. k1 \in Nat /\ n <= k1 /\ (g.locked => k1 = n + 1)
    BY <1>1, <1>3, LongerIs
  <2>2. k2 \in Nat /\ k1 <= k2 /\ (g.announce => k2 = k1 + 1)
    <3> HIDE DEF k1
    <3> QED BY <1>1, <2>1, LongerIs
  <2>3. k2 <= k3
    <3> HIDE DEF k2, b3
    <3> QED BY <1>1, <2>2, LongerIs
  <2>4. (\A i \in 1..n : c1[i] = P[i]) /\ (g.locked => c1[k1] = LockedNode)
    BY <1>6 DEF Extended
  <2>5. (\A i \in 1..k1 : c2[i] = c1[i]) /\ (g.announce => c2[k2] = AnnounceNode)
    BY <1>7 DEF Extended
  <2>6. (\A i \in 1..k2 : c3[i] = c2[i]) /\ (b3 => c3[k3] = DescriptionNode(g.description)) /\ IsSeq(c3, k3)
    BY <1>8 DEF Extended
  <2>7. /\ \A i \in 1..n : c3[i] = P[i]
        /\ g.locked => c3[k1] = LockedNode
        /\ g.announce => c3[k2] = AnnounceNode
    <3> HIDE DEF k1, k2, k3
    <3>1. \A i \in 1..k1 : c3[i] = c1[i]
      <4> SUFFICES ASSUME NEW i \in 1..k1 PROVE c3[i] = c1[i]
        OBVIOUS
      <4>1. i \in 1..k2
        BY <2>1, <2>2
      <4>2. c3[i] = c2[i]
        BY <2>6, <4>1
      <4> QED BY <2>5, <4>2
    <3>2. \A i \in 1..n : i \in 1..k1
      BY <1>3, <2>1
    <3>3. g.locked => k1 \in 1..k1
      BY <1>3, <2>1
    <3>4. g.announce => k2 \in 1..k2
      BY <2>1, <2>2
    <3>5. \A i \in 1..n : c3[i] = P[i]
      BY <2>4, <3>1, <3>2
    <3>6. g.locked => c3[k1] = LockedNode
      BY <2>4, <3>1, <3>3
    <3>7. g.announce => c3[k2] = AnnounceNode
      BY <2>5, <2>6, <3>4
    <3> QED BY <3>5, <3>6, <3>7
  <2> QED BY <1>3, <1>4, <2>6, <2>7 DEF Places, P
<1>10. Cardinality(DOMAIN g.members) = n
  OBVIOUS
<1> HIDE DEF c3, n, k3
<1>11. \E k : Places(g, c3, n, k)
  BY <1>9
<1>12. GroupNode(g).content = c3
  BY <1>5
<1> QED BY <1>5, <1>10, <1>11, <1>12

-----------------------------------------------------------------------------
\* What find() finds if one child has the tag.
LEMMA OneFound ==
  ASSUME NEW node, NEW tag, NEW i \in Nat, With(node, tag) = {i}
  PROVE  HasChild(node, tag) /\ GetChild(node, tag) = GetAllChildren(node)[i]
<1>1. Min({i}) = i
  BY DEF Min
<1> QED BY <1>1 DEF HasChild, GetChild

\* A child without siblings is found by its tag, and nothing by another.
LEMMA OnlyChild ==
  ASSUME NEW node, NEW x, node.kind = "nodes", node.content = <<x>>
  PROVE  /\ HasChild(node, x.tag) /\ GetChild(node, x.tag) = x
         /\ \A tag : tag # x.tag => ~HasChild(node, tag)
<1>1. GetAllChildren(node) = <<x>>
  BY DEF GetAllChildren
<1>2. With(node, x.tag) = {1}
  BY <1>1 DEF With
<1>3. \A tag : tag # x.tag => With(node, tag) = {}
  BY <1>1 DEF With
<1> QED BY <1>1, <1>2, <1>3, OneFound DEF HasChild

\* What is read in the node of a group is the group.
LEMMA GroupIsFound ==
  ASSUME NEW g \in GroupType
  PROVE  LET node == GroupNode(g)
         IN  /\ Holds(ParseParticipants(node), Cardinality(DOMAIN g.members), RolesOf(g.members))
             /\ HasChild(node, "locked") = g.locked
             /\ HasChild(node, "announce") = g.announce
             /\ HasChild(node, "description") = (g.description # "")
             /\ g.description # "" =>
                   GetChild(node, "description") = DescriptionNode(g.description)
<1> DEFINE node == GroupNode(g)
           c == GetAllChildren(node)
           n == Cardinality(DOMAIN g.members)
           k1 == Longer(n, g.locked)
           k2 == Longer(k1, g.announce)
           b3 == g.description # ""
<1>1. PICK k : Places(g, c, n, k)
  BY GroupIsPlaced DEF GetAllChildren
<1>2. /\ AreRoles(g.members) /\ g.locked \in BOOLEAN /\ g.announce \in BOOLEAN
      /\ b3 \in BOOLEAN
  BY DEF GroupType, MembersType
<1>3. n \in Nat /\ k = Longer(k2, b3) /\ IsSeq(c, k)
  BY <1>1 DEF Places
<1>4. k1 \in Nat /\ n <= k1 /\ (g.locked => k1 = n + 1) /\ (~g.locked => k1 = n)
  BY <1>2, <1>3, LongerIs
<1>5. k2 \in Nat /\ k1 <= k2 /\ (g.announce => k2 = k1 + 1) /\ (~g.announce => k2 = k1)
  <2> HIDE DEF k1
  <2> QED BY <1>2, <1>4, LongerIs
<1>6. k \in Nat /\ k2 <= k /\ (b3 => k = k2 + 1) /\ (~b3 => k = k2)
  <2> HIDE DEF k2, b3
  <2> QED BY <1>2, <1>3, <1>5, LongerIs
<1>7. /\ LockedNode.tag = "locked" /\ AnnounceNode.tag = "announce"
      /\ DescriptionNode(g.description).tag = "description"
  BY DEF LockedNode, AnnounceNode, DescriptionNode, Node
<1>8. /\ \A i \in 1..n : c[i].tag = "participant"
      /\ g.locked => c[k1].tag = "locked"
      /\ g.announce => c[k2].tag = "announce"
      /\ b3 => c[k].tag = "description" /\ c[k] = DescriptionNode(g.description)
  BY <1>1, <1>7 DEF Places
<1>9. DOMAIN c = 1..k
  BY <1>3 DEF IsSeq
<1>10. \A i \in 1..k : \/ i \in 1..n
                       \/ g.locked /\ i = k1
                       \/ g.announce /\ i = k2
                       \/ b3 /\ i = k
  <2> HIDE DEF k1, k2, b3, c, n
  <2> QED BY <1>2, <1>3, <1>4, <1>5, <1>6
<1>11. /\ With(node, "locked") = IF g.locked THEN {k1} ELSE {}
       /\ With(node, "announce") = IF g.announce THEN {k2} ELSE {}
       /\ With(node, "description") = IF b3 THEN {k} ELSE {}
       /\ \A i \in n + 1 .. k : c[i].tag # "participant"
       /\ n <= k
  <2>1. \A tag : With(node, tag) = {i \in 1..k : c[i].tag = tag}
    BY <1>9 DEF With
  <2> HIDE DEF k1, k2, b3, c, n, node
  <2>2. (g.locked => k1 \in 1..k) /\ (g.announce => k2 \in 1..k) /\ (b3 => k \in 1..k) /\ n <= k
    BY <1>3, <1>4, <1>5, <1>6
  <2>3. ASSUME NEW i \in 1..k
        PROVE  /\ c[i].tag = "locked" <=> g.locked /\ i = k1
               /\ c[i].tag = "announce" <=> g.announce /\ i = k2
               /\ c[i].tag = "description" <=> b3 /\ i = k
               /\ i \in n + 1 .. k => c[i].tag # "participant"
    <3>1. CASE i \in 1..n
      BY <1>3, <1>4, <1>5, <1>6, <1>8, <3>1
    <3>2. CASE g.locked /\ i = k1
      BY <1>3, <1>4, <1>5, <1>6, <1>8, <3>2
    <3>3. CASE g.announce /\ i = k2
      BY <1>3, <1>4, <1>5, <1>6, <1>8, <3>3
    <3>4. CASE b3 /\ i = k
      BY <1>3, <1>4, <1>5, <1>6, <1>8, <3>4
    <3> QED BY <1>10, <3>1, <3>2, <3>3, <3>4
  <2>4. \A i \in n + 1 .. k : i \in 1..k
    BY <1>3, <1>6
  <2>5. With(node, "locked") = IF g.locked THEN {k1} ELSE {}
    BY <2>1, <2>2, <2>3
  <2>6. With(node, "announce") = IF g.announce THEN {k2} ELSE {}
    BY <2>1, <2>2, <2>3
  <2>7. With(node, "description") = IF b3 THEN {k} ELSE {}
    BY <2>1, <2>2, <2>3
  <2> QED BY <2>2, <2>3, <2>4, <2>5, <2>6, <2>7
<1>12. HasChild(node, "locked") = g.locked /\ HasChild(node, "announce") = g.announce
  BY <1>2, <1>11 DEF HasChild
<1>13. /\ HasChild(node, "description") = b3
       /\ b3 => GetChild(node, "description") = DescriptionNode(g.description)
  <2>1. With(node, "description") = IF b3 THEN {k} ELSE {}
    BY <1>11
  <2>2. HasChild(node, "description") = b3
    BY <1>2, <2>1 DEF HasChild
  <2>3. ASSUME b3 PROVE GetChild(node, "description") = DescriptionNode(g.description)
    <3>1. GetChild(node, "description") = GetAllChildren(node)[k]
      BY <1>2, <1>6, <2>1, <2>3, OneFound
    <3> QED BY <1>6, <1>8, <2>3, <3>1
  <2> QED BY <2>2, <2>3
<1>14. \A i \in 1..n : c[i] = ParticipantNodes(g.members)[i]
  BY <1>1 DEF Places
<1>15. Holds(ParseParticipants(node), Cardinality(DOMAIN g.members), RolesOf(g.members))
  BY <1>2, <1>3, <1>11, <1>14, ParticipantsAreRead
<1> QED BY <1>12, <1>13, <1>15

-----------------------------------------------------------------------------
\* Requests with a code of any time.
RequestType ==
    UNION {GetGroupMetadata, CreateGroup, UpdateParticipants, UpdateGroupSubject,
           UpdateGroupDescription, SetGroupAnnounce, SetGroupRestrict, GetGroupInviteCode,
           RevokeGroupInviteCode, [op : {"accept"}, code : Nat \ {0}], LeaveGroup}

\* What ResultsAreReal says of one request, its answer, and the group that it has made.
IsReal(r, node, made) ==
    LET result == Outcome(r, node)
    IN  /\ result = << >> <=> made = << >> /\ r.op \in {"create", "invite", "revoke", "accept"}
        /\ r.op = "metadata" => (result[1].id = "group@g.us" <=> made # << >>)
        /\ r.op \in ParticipantActions =>
                {p.id : p \in ToSet(result[1])} = IF made = << >> THEN {} ELSE r.ids
        /\ made # << >> =>
             /\ r.op = "metadata" => SameGroup(made[1], result[1])
             /\ r.op = "create" =>
                    /\ result[1].gid = "group@g.us"
                    /\ ToSet(result[1].participants) =
                           {Participant(p, made[1].members[p]) : p \in DOMAIN made[1].members}
             /\ r.op \in {"invite", "revoke"} => result[1].code = made[1].code
             /\ r.op = "accept" => result[1].jid = "group@g.us" /\ me \in DOMAIN made[1].members

\* What is made of an answer to each of the requests.
LEMMA OutcomeOf ==
  ASSUME NEW r, NEW node
  PROVE  /\ r.op = "metadata" => Outcome(r, node) = <<ParseGroupMetadata(node)>>
         /\ r.op = "create" => Outcome(r, node) = ParseCreated(node)
         /\ r.op \in {"invite", "revoke"} => Outcome(r, node) = ParseInviteCode(node)
         /\ r.op = "accept" => Outcome(r, node) = ParseAccepted(node)
         /\ r.op \in ParticipantActions => Outcome(r, node) = <<ParseParticipants(node)>>
         /\ r.op \notin {"metadata", "create", "invite", "revoke", "accept"} \cup ParticipantActions =>
               Outcome(r, node) = <<None>>
<1>1. CASE r.op = "metadata"
  BY <1>1 DEF Outcome, ParticipantActions
<1>2. CASE r.op = "create"
  BY <1>2 DEF Outcome, ParticipantActions
<1>3. CASE r.op \in {"invite", "revoke"}
  BY <1>3 DEF Outcome, ParticipantActions
<1>4. CASE r.op = "accept"
  BY <1>4 DEF Outcome, ParticipantActions
<1>5. CASE r.op \in ParticipantActions
  BY <1>5 DEF Outcome, ParticipantActions
<1>6. CASE r.op \notin {"metadata", "create", "invite", "revoke", "accept"} \cup ParticipantActions
  BY <1>6 DEF Outcome
<1> QED BY <1>1, <1>2, <1>3, <1>4, <1>5, <1>6 DEF ParticipantActions

\* What answers each of these requests.
LEMMA AnswerOf ==
  ASSUME NEW r, NEW g
  PROVE  /\ AnswerNode(g, r).kind = "nodes"
         /\ r.op \in {"metadata", "create"} => AnswerNode(g, r).content = <<GroupNode(g)>>
         /\ r.op \in {"invite", "revoke"} =>
               AnswerNode(g, r).content = <<Node("invite", [code |-> g.code], << >>)>>
         /\ r.op = "accept" => AnswerNode(g, r).content = <<Node("group", [jid |-> "group@g.us"], << >>)>>
         /\ r.op \in ParticipantActions => AnswerNode(g, r).content = ParticipantNodes([p \in r.ids |-> "member"])
<1>1. CASE r.op \in {"metadata", "create"}
  BY <1>1 DEF AnswerNode, Node, ParticipantActions
<1>2. CASE r.op \in {"invite", "revoke"}
  BY <1>2 DEF AnswerNode, Node, ParticipantActions
<1>3. CASE r.op = "accept"
  BY <1>3 DEF AnswerNode, Node, ParticipantActions
<1>4. AnswerNode(g, r).kind = "nodes"
  BY DEF AnswerNode, Node
<1>5. CASE r.op \in ParticipantActions
  BY <1>5 DEF AnswerNode, Node, ParticipantActions
<1> QED BY <1>1, <1>2, <1>3, <1>4, <1>5 DEF ParticipantActions

\* What is read in an error is the metadata of no group.
LEMMA ErrorHasNoId == ParseGroupMetadata(ErrorNode).id # "group@g.us"
<1> DEFINE e == Node("error", NoAttrs, << >>)
<1>1. /\ ErrorNode.kind = "nodes" /\ ErrorNode.content = <<e>> /\ e.tag = "error"
      /\ ErrorNode.attrs = [type |-> "error"]
  BY DEF ErrorNode, Node
<1>2. ~HasChild(ErrorNode, "group")
  <2> HIDE DEF e
  <2> QED BY <1>1, OnlyChild
<1>3. Attr(ErrorNode, "id", None) = None
  <2>1. "id" \notin DOMAIN ErrorNode.attrs
    BY <1>1
  <2> QED BY <2>1 DEF Attr
<1> QED BY <1>2, <1>3 DEF ParseGroupMetadata, GroupJid, WithServer, None

\* Those whom a node names, before children of other kinds.
LEMMA NamedInNode ==
  ASSUME NEW ids \in SUBSET People, NEW node, NEW k,
         LET c == GetAllChildren(node)
             n == Cardinality(ids)
         IN  /\ IsSeq(c, k)
             /\ n <= k
             /\ \A i \in 1..n : c[i] = ParticipantNodes([p \in ids |-> "member"])[i]
             /\ \A i \in n + 1 .. k : c[i].tag # "participant"
  PROVE  {p.id : p \in ToSet(ParseParticipants(node))} = ids
<1> DEFINE members == [p \in ids |-> "member"]
           read == ParseParticipants(node)
<1>1. AreRoles(members) /\ DOMAIN members = ids
  BY DEF AreRoles, Roles
<1> HIDE DEF members
<1>2. Holds(ParseParticipants(node), Cardinality(DOMAIN members), RolesOf(members))
  BY <1>1, ParticipantsAreRead DEF members
<1> HIDE DEF read
<1>3. ToSet(read) = {Participant(p, members[p]) : p \in ids}
  BY <1>1, <1>2, HoldsSame DEF read
<1>4. \A p, t : Participant(p, t).id = p
  BY DEF Participant
<1> QED BY <1>3, <1>4 DEF read

\* What an error is taken for.
LEMMA ErrorsAreReal ==
  ASSUME NEW r
  PROVE  IsReal(r, ErrorNode, << >>)
<1> DEFINE e == Node("error", NoAttrs, << >>)
<1>1. ErrorNode.kind = "nodes" /\ ErrorNode.content = <<e>> /\ e.tag = "error"
  BY DEF ErrorNode, Node
<1>2. ~HasChild(ErrorNode, "group") /\ ~HasChild(ErrorNode, "invite")
  <2> HIDE DEF e
  <2> QED BY <1>1, OnlyChild
<1>3. ParseCreated(ErrorNode) = << >> /\ ParseInviteCode(ErrorNode) = << >> /\ ParseAccepted(ErrorNode) = << >>
  BY <1>2 DEF ParseCreated, ParseInviteCode, ParseAccepted
<1>4. r.op \in {"create", "invite", "revoke", "accept"} => Outcome(r, ErrorNode) = << >>
  BY <1>3, OutcomeOf
<1>5. {p.id : p \in ToSet(ParseParticipants(ErrorNode))} = {}
  <2>1. GetAllChildren(ErrorNode) = <<e>>
    BY <1>1 DEF GetAllChildren
  <2>2. {} \in SUBSET People /\ Cardinality({}) = 0
    BY FS_EmptySet
  <2> HIDE DEF e
  <2> DEFINE c == GetAllChildren(ErrorNode)
             n == Cardinality({})
  <2>3. IsSeq(c, 1)
    BY <2>1 DEF IsSeq
  <2>4. \A i \in n + 1 .. 1 : c[i].tag # "participant"
    <3>1. n + 1 = 1 /\ c[1].tag = "error"
      BY <1>1, <2>1, <2>2
    <3> QED BY <3>1
  <2>5. n <= 1 /\ \A i \in 1..n : FALSE
    BY <2>2
  <2> HIDE DEF c, n
  <2>6. \A i \in 1..n : c[i] = ParticipantNodes([p \in {} |-> "member"])[i]
    BY <2>5
  <2> QED BY <2>2, <2>3, <2>4, <2>5, <2>6, NamedInNode DEF c, n
<1>6. r.op \notin {"create", "invite", "revoke", "accept"} => Outcome(r, ErrorNode) # << >>
  <2>1. \A x : <<x>> # << >>
    OBVIOUS
  <2> QED BY <2>1, OutcomeOf
<1>7. r.op = "metadata" => Outcome(r, ErrorNode)[1].id # "group@g.us"
  <2> HIDE DEF e
  <2>1. r.op = "metadata" => Outcome(r, ErrorNode)[1] = ParseGroupMetadata(ErrorNode)
    BY OutcomeOf
  <2> QED BY <2>1, ErrorHasNoId
<1>8. r.op \in ParticipantActions => {p.id : p \in ToSet(Outcome(r, ErrorNode)[1])} = {}
  <2>1. r.op \in ParticipantActions => Outcome(r, ErrorNode)[1] = ParseParticipants(ErrorNode)
    BY OutcomeOf
  <2> QED BY <1>5, <2>1
<1> QED BY <1>4, <1>6, <1>7, <1>8 DEF IsReal

\* The metadata mine are those of the group g, with the participants as in st.
Fields == {"participants", "announce", "restrictedInviteOnly", "subject", "description"}
HasFields(mine) == mine = [f \in DOMAIN mine |-> mine[f]] /\ Fields \subseteq DOMAIN mine

Mirrors(g, mine) ==
    /\ HasFields(mine)
    /\ Holds(mine.participants, Cardinality(DOMAIN g.members), RolesOf(g.members))
    /\ mine.announce = g.announce
    /\ mine.restrictedInviteOnly = g.locked
    /\ SameText(g.subject, mine.subject)
    /\ SameText(g.description, mine.description)

\* What is read in a node that has the node of a group.
LEMMA MetadataIsRead ==
  ASSUME NEW g \in GroupType, NEW node,
         HasChild(node, "group"), GetChild(node, "group") = GroupNode(g)
  PROVE  ParseGroupMetadata(node).id = "group@g.us" /\ Mirrors(g, ParseGroupMetadata(node))
<1> DEFINE gn == GroupNode(g)
           mine == ParseGroupMetadata(node)
           text ==
              IF /\ HasChild(gn, "description")
                 /\ HasChild(GetChild(gn, "description"), "body")
              THEN TextOf(GetChild(GetChild(gn, "description"), "body"), None)
              ELSE None
<1>1. gn.attrs = [id |-> "group", subject |-> g.subject]
  BY GroupIsPlaced
<1>2. Attr(gn, "subject", "") = g.subject /\ Attr(gn, "id", None) = "group"
  <2> HIDE DEF gn
  <2> QED BY <1>1 DEF Attr
<1>3. (IF HasChild(node, "group") THEN GetChild(node, "group") ELSE node) = gn
  OBVIOUS
<1>4. mine = [id |-> "group@g.us", subject |-> g.subject, description |-> text,
              restrictedInviteOnly |-> HasChild(gn, "locked"), announce |-> HasChild(gn, "announce"),
              participants |-> ParseParticipants(gn)]
  <2> HIDE DEF gn
  <2>1. GroupJid("group") = "group@g.us"
    BY DEF GroupJid, WithServer, None
  <2> QED BY <1>2, <1>3, <2>1 DEF ParseGroupMetadata
<1>5. SameText(g.description, text)
  <2>1. SUFFICES ASSUME g.description \in StringTexts PROVE text = g.description
    BY DEF SameText
  <2>2. g.description # ""
    BY <2>1, TextsAssumption
  <2>3. HasChild(gn, "description") /\ GetChild(gn, "description") = DescriptionNode(g.description)
    BY <2>2, GroupIsFound
  <2> DEFINE body == Received("body", g.description)
  <2>4. body.tag = "body" /\ body.kind = "string" /\ body.content = g.description
    BY <2>1 DEF Received, TextNode
  <2>5. DescriptionNode(g.description).kind = "nodes" /\ DescriptionNode(g.description).content = <<body>>
    BY DEF DescriptionNode, Node
  <2>6. /\ HasChild(DescriptionNode(g.description), "body")
        /\ GetChild(DescriptionNode(g.description), "body") = body
    <3> HIDE DEF body
    <3> QED BY <2>4, <2>5, OnlyChild
  <2>7. TextOf(body, None) = g.description
    BY <2>4 DEF TextOf
  <2> HIDE DEF gn, body
  <2> QED BY <2>3, <2>6, <2>7
<1>6. /\ Holds(ParseParticipants(gn), Cardinality(DOMAIN g.members), RolesOf(g.members))
      /\ HasChild(gn, "locked") = g.locked
      /\ HasChild(gn, "announce") = g.announce
  BY GroupIsFound
<1> HIDE DEF mine, gn, text
<1>7. /\ HasFields(mine) /\ mine.id = "group@g.us"
      /\ mine.subject = g.subject /\ mine.description = text
      /\ mine.restrictedInviteOnly = HasChild(gn, "locked") /\ mine.announce = HasChild(gn, "announce")
      /\ mine.participants = ParseParticipants(gn)
  BY <1>4 DEF HasFields, Fields
<1>8. Mirrors(g, mine) /\ mine.id = "group@g.us"
  BY <1>5, <1>6, <1>7 DEF Mirrors, SameText
<1> QED BY <1>8 DEF mine

\* It is the same group.
LEMMA MirrorsSame ==
  ASSUME NEW g \in GroupType, NEW mine, Mirrors(g, mine)
  PROVE  SameGroup(g, mine)
<1>1. AreRoles(g.members)
  BY DEF GroupType, MembersType
<1>2. /\ Len(mine.participants) = Cardinality(DOMAIN g.members)
      /\ ToSet(mine.participants) = {Participant(p, g.members[p]) : p \in DOMAIN g.members}
  BY <1>1, HoldsSame DEF Mirrors
<1> QED BY <1>2 DEF Mirrors, SameGroup

\* The answer to a request that the server has done tells what it is.
LEMMA AnswersAreReal ==
  ASSUME NEW r \in RequestType, NEW g \in GroupType, r.op = "accept" => me \in DOMAIN g.members
  PROVE  IsReal(r, AnswerNode(g, r), <<g>>)
<1> DEFINE node == AnswerNode(g, r)
           gn == GroupNode(g)
<1>0. node.kind = "nodes"
  BY AnswerOf
<1>1. gn.tag = "group" /\ gn.attrs = [id |-> "group", subject |-> g.subject] /\ gn.kind = "nodes"
  BY GroupIsPlaced
<1>2. CASE r.op = "metadata"
  <2>1. node.content = <<gn>>
    BY <1>2, AnswerOf
  <2>2. HasChild(node, "group") /\ GetChild(node, "group") = gn
    <3> HIDE DEF node, gn
    <3> QED BY <1>0, <1>1, <2>1, OnlyChild
  <2> DEFINE mine == ParseGroupMetadata(node)
  <2>5. SameGroup(g, mine) /\ mine.id = "group@g.us"
    <3> HIDE DEF node
    <3> QED BY <2>2, MetadataIsRead, MirrorsSame
  <2>6. Outcome(r, node) = <<mine>>
    BY <1>2, OutcomeOf
  <2>7. IsReal(r, node, <<g>>)
    <3> HIDE DEF mine, node
    <3> QED BY <1>2, <2>5, <2>6 DEF IsReal, ParticipantActions
  <2> QED BY <2>7
<1>3. CASE r.op = "create"
  <2>1. node.content = <<gn>>
    BY <1>3, AnswerOf
  <2>2. HasChild(node, "group") /\ GetChild(node, "group") = gn
    <3> HIDE DEF node, gn
    <3> QED BY <1>0, <1>1, <2>1, OnlyChild
  <2>3. ParseCreated(node) = <<[gid |-> "group@g.us", participants |-> ParseParticipants(gn)]>>
    <3> HIDE DEF node, gn
    <3> QED BY <1>1, <2>2 DEF ParseCreated, WithServer, None
  <2>4. Outcome(r, node) = <<[gid |-> "group@g.us", participants |-> ParseParticipants(gn)]>>
    BY <1>3, <2>3, OutcomeOf
  <2>5. ToSet(ParseParticipants(gn)) = {Participant(p, g.members[p]) : p \in DOMAIN g.members}
    <3>1. AreRoles(g.members)
      BY DEF GroupType, MembersType
    <3>2. Holds(ParseParticipants(gn), Cardinality(DOMAIN g.members), RolesOf(g.members))
      BY GroupIsFound
    <3> HIDE DEF gn
    <3> QED BY <3>1, <3>2, HoldsSame
  <2>6. IsReal(r, node, <<g>>)
    <3> HIDE DEF node, gn
    <3> QED BY <1>3, <2>4, <2>5 DEF IsReal, ParticipantActions
  <2> QED BY <2>6
<1>4. CASE r.op \in {"invite", "revoke"}
  <2> DEFINE i == Node("invite", [code |-> g.code], << >>)
  <2>1. node.content = <<i>> /\ i.tag = "invite" /\ i.attrs = [code |-> g.code]
    BY <1>4, AnswerOf DEF Node
  <2>2. HasChild(node, "invite") /\ GetChild(node, "invite") = i
    <3> HIDE DEF node, i
    <3> QED BY <1>0, <2>1, OnlyChild
  <2>3. ParseInviteCode(node) = <<[code |-> g.code]>>
    <3> HIDE DEF node, i
    <3> QED BY <2>1, <2>2 DEF ParseInviteCode
  <2>4. Outcome(r, node) = <<[code |-> g.code]>>
    BY <1>4, <2>3, OutcomeOf
  <2>5. IsReal(r, node, <<g>>)
    <3> HIDE DEF node
    <3> QED BY <1>4, <2>4 DEF IsReal, ParticipantActions
  <2> QED BY <2>5
<1>5. CASE r.op = "accept"
  <2> DEFINE i == Node("group", [jid |-> "group@g.us"], << >>)
  <2>1. node.content = <<i>> /\ i.tag = "group" /\ i.attrs = [jid |-> "group@g.us"]
    BY <1>5, AnswerOf DEF Node
  <2>2. HasChild(node, "group") /\ GetChild(node, "group") = i
    <3> HIDE DEF node, i
    <3> QED BY <1>0, <2>1, OnlyChild
  <2>3. ParseAccepted(node) = <<[jid |-> "group@g.us"]>>
    <3> HIDE DEF node, i
    <3> QED BY <2>1, <2>2 DEF ParseAccepted
  <2>4. Outcome(r, node) = <<[jid |-> "group@g.us"]>>
    BY <1>5, <2>3, OutcomeOf
  <2>5. IsReal(r, node, <<g>>)
    <3> HIDE DEF node
    <3> QED BY <1>5, <2>4 DEF IsReal, ParticipantActions
  <2> QED BY <2>5
<1>6. CASE r.op \in ParticipantActions
  <2>1. r.ids \in SUBSET People
    <3>1. r \in UpdateParticipants
      <4>1. /\ r \notin GetGroupMetadata /\ r \notin GetGroupInviteCode
            /\ r \notin RevokeGroupInviteCode /\ r \notin LeaveGroup
        BY <1>6 DEF GetGroupMetadata, GetGroupInviteCode, RevokeGroupInviteCode, LeaveGroup, ParticipantActions
      <4>2. r \notin CreateGroup /\ r \notin [op : {"accept"}, code : Nat \ {0}]
        BY <1>6 DEF CreateGroup, ParticipantActions
      <4>3. /\ r \notin UpdateGroupSubject /\ r \notin UpdateGroupDescription
            /\ r \notin SetGroupAnnounce /\ r \notin SetGroupRestrict
        BY <1>6 DEF UpdateGroupSubject, UpdateGroupDescription, SetGroupAnnounce, SetGroupRestrict, ParticipantActions
      <4> QED BY <4>1, <4>2, <4>3 DEF RequestType
    <3> QED BY <3>1 DEF UpdateParticipants
  <2> DEFINE members == [p \in r.ids |-> "member"]
             n == Cardinality(r.ids)
  <2>2. GetAllChildren(node) = ParticipantNodes(members)
    BY <1>0, <1>6, AnswerOf DEF GetAllChildren
  <2>3. AreRoles(members) /\ DOMAIN members = r.ids
    BY <2>1 DEF AreRoles, Roles
  <2> HIDE DEF members, node, gn
  <2>4. IsSeq(ParticipantNodes(members), n) /\ n \in Nat
    BY <2>3, AllAreListed DEF AllListed, IsSeq
  <2>5. {p.id : p \in ToSet(ParseParticipants(node))} = r.ids
    <3>1. n <= n /\ \A i \in n + 1 .. n : FALSE
      BY <2>4
    <3> QED BY <2>1, <2>2, <2>4, <3>1, NamedInNode DEF members
  <2>6. Outcome(r, node) = <<ParseParticipants(node)>>
    BY <1>6, OutcomeOf
  <2> QED BY <1>6, <2>5, <2>6 DEF IsReal, ParticipantActions, node
<1>7. CASE r.op \notin {"metadata", "create", "invite", "revoke", "accept"} \cup ParticipantActions
  <2>1. Outcome(r, node) = <<None>>
    BY <1>7, OutcomeOf
  <2>2. r.op \notin {"metadata", "create", "invite", "revoke", "accept"} /\ r.op \notin ParticipantActions
    BY <1>7
  <2>3. <<g>> # << >> /\ <<None>> # << >>
    OBVIOUS
  <2> HIDE DEF node
  <2>4. IsReal(r, node, <<g>>)
    BY <2>1, <2>2, <2>3 DEF IsReal
  <2> QED BY <2>4 DEF node
<1> QED BY <1>2, <1>3, <1>4, <1>5, <1>6, <1>7

-----------------------------------------------------------------------------
(* The type of a group.                                                     *)

\* Roles of people are a value of a group's members.
LEMMA RolesAreMembers ==
  ASSUME NEW m, AreRoles(m)
  PROVE  m \in MembersType
<1>1. m \in [DOMAIN m -> Roles] /\ DOMAIN m \in SUBSET People
  BY DEF AreRoles
<1> QED BY <1>1 DEF MembersType

\* Giving and taking roles keeps the type.
LEMMA PutRoles ==
  ASSUME NEW m \in MembersType, NEW S \in SUBSET People, NEW v \in Roles
  PROVE  Put(m, S, v) \in MembersType
<1>1. AreRoles(m)
  BY DEF MembersType
<1>2. AreRoles(Put(m, S, v))
  BY <1>1 DEF AreRoles, Put
<1> QED BY <1>2, RolesAreMembers

\* So does taking people out.
LEMMA RestrictRoles ==
  ASSUME NEW m \in MembersType, NEW S
  PROVE  Restrict(m, DOMAIN m \ S) \in MembersType
<1>1. AreRoles(m)
  BY DEF MembersType
<1>2. AreRoles(Restrict(m, DOMAIN m \ S))
  BY <1>1 DEF AreRoles, Restrict
<1> QED BY <1>2, RolesAreMembers

\* A group of parts of the right types.
LEMMA GroupOf ==
  ASSUME NEW m \in MembersType, NEW l \in BOOLEAN, NEW a \in BOOLEAN, NEW s \in Texts \cup {""},
         NEW d \in Texts \cup {""}, NEW c \in Nat
  PROVE  [members |-> m, locked |-> l, announce |-> a, subject |-> s,
          description |-> d, code |-> c] \in GroupType
BY DEF GroupType, MembersType

\* No group has the type of one.
LEMMA NoGroupType == NoGroup \in GroupType
<1>1. << >> \in MembersType
  <2>1. AreRoles(<< >>)
    BY DEF AreRoles
  <2> QED BY <2>1, RolesAreMembers
<1>2. FALSE \in BOOLEAN /\ "" \in Texts \cup {""} /\ 0 \in Nat
  OBVIOUS
<1> QED BY <1>1, <1>2, GroupOf DEF NoGroup

\* A new group has it.
LEMMA NewGroupType ==
  ASSUME NEW ids \in SUBSET Members, NEW subject \in Texts
  PROVE  NewGroup(ids, subject) \in GroupType
<1> DEFINE m == [p \in ids \cup {me} |-> IF p = me THEN "superadmin" ELSE "member"]
<1>1. m \in MembersType
  <2>1. AreRoles(m)
    BY DEF AreRoles, People, Roles
  <2> QED BY <2>1, RolesAreMembers
<1>2. NewGroup(ids, subject) = [NoGroup EXCEPT !.members = m, !.subject = subject, !.code = 1]
  BY DEF NewGroup
<1> HIDE DEF m
<1>3. NewGroup(ids, subject) =
         [members |-> m, locked |-> FALSE, announce |-> FALSE,
          subject |-> subject, description |-> "", code |-> 1]
  BY <1>2 DEF NoGroup
<1>4. 1 \in Nat /\ subject \in Texts \cup {""} /\ "" \in Texts \cup {""} /\ FALSE \in BOOLEAN
  OBVIOUS
<1> QED BY <1>1, <1>3, <1>4, GroupOf

\* Every change makes a group of a group, and who accepts an invitation is in it.
LEMMA ChangedType ==
  ASSUME NEW g \in GroupType, NEW r \in RequestType, NEW p \in People
  PROVE  /\ Changed(g, r, p) \in GroupType
         /\ r.op = "accept" => p \in DOMAIN Changed(g, r, p).members
<1> DEFINE h == Changed(g, r, p)
<1>1. GroupType = [members : MembersType, locked : BOOLEAN, announce : BOOLEAN,
                   subject : Texts \cup {""}, description : Texts \cup {""}, code : Nat]
  BY DEF GroupType, MembersType
<1>2. g.members \in MembersType
  BY <1>1
<1>3. \A S \in SUBSET People, v \in Roles : [g EXCEPT !.members = Put(g.members, S, v)] \in GroupType
  BY <1>1, <1>2, PutRoles
<1>4. \A S : [g EXCEPT !.members = Restrict(g.members, DOMAIN g.members \ S)] \in GroupType
  BY <1>1, <1>2, RestrictRoles
<1>5. CASE r \in GetGroupMetadata \cup GetGroupInviteCode
  BY <1>5 DEF Changed, GetGroupMetadata, GetGroupInviteCode, Reads
<1>6. CASE r \in CreateGroup
  <2>1. r.op = "create" /\ r.ids \in SUBSET Members /\ r.text \in Texts
    BY <1>6 DEF CreateGroup
  <2>2. h = NewGroup(r.ids, r.text)
    BY <2>1 DEF Changed, Reads
  <2> HIDE DEF h
  <2>3. h \in GroupType
    BY <2>1, <2>2, NewGroupType
  <2> QED BY <2>1, <2>3 DEF h
<1>7. CASE r \in UpdateParticipants
  <2>1. r.op \in ParticipantActions /\ r.ids \in SUBSET People
    BY <1>7 DEF UpdateParticipants
  <2>2. CASE r.op \in {"add", "demote"}
    <3>1. h = [g EXCEPT !.members = Put(g.members, r.ids, "member")]
      BY <2>2 DEF Changed, Reads
    <3> QED BY <1>3, <2>1, <2>2, <3>1 DEF Roles
  <2>3. CASE r.op = "promote"
    <3>1. h = [g EXCEPT !.members = Put(g.members, r.ids, "admin")]
      BY <2>3 DEF Changed, Reads
    <3> QED BY <1>3, <2>1, <2>3, <3>1 DEF Roles
  <2>4. CASE r.op = "remove"
    <3>1. h = [g EXCEPT !.members = Restrict(g.members, DOMAIN g.members \ r.ids)]
      BY <2>4 DEF Changed, Reads
    <3> QED BY <1>4, <2>4, <3>1
  <2> QED BY <2>1, <2>2, <2>3, <2>4 DEF ParticipantActions
<1>8. CASE r \in UpdateGroupSubject
  <2>1. r.op = "subject" /\ r.text \in Texts
    BY <1>8 DEF UpdateGroupSubject
  <2>2. h = [g EXCEPT !.subject = r.text]
    BY <2>1 DEF Changed, Reads
  <2> QED BY <1>1, <2>1, <2>2
<1>9. CASE r \in UpdateGroupDescription
  <2>1. r.op = "description" /\ r.text \in Texts \cup {""}
    BY <1>9 DEF UpdateGroupDescription
  <2>2. h = [g EXCEPT !.description = r.text]
    BY <2>1 DEF Changed, Reads
  <2> QED BY <1>1, <2>1, <2>2
<1>10. CASE r \in SetGroupAnnounce
  <2>1. r.op \in {"announce", "not_announce"}
    BY <1>10 DEF SetGroupAnnounce
  <2>2. h = [g EXCEPT !.announce = (r.op = "announce")]
    BY <2>1 DEF Changed, Reads
  <2> QED BY <1>1, <2>1, <2>2
<1>11. CASE r \in SetGroupRestrict
  <2>1. r.op \in {"locked", "unlocked"}
    BY <1>11 DEF SetGroupRestrict
  <2>2. h = [g EXCEPT !.locked = (r.op = "locked")]
    BY <2>1 DEF Changed, Reads
  <2> QED BY <1>1, <2>1, <2>2
<1>12. CASE r \in RevokeGroupInviteCode
  <2>1. r.op = "revoke"
    BY <1>12 DEF RevokeGroupInviteCode
  <2>2. h = [g EXCEPT !.code = g.code + 1]
    BY <2>1 DEF Changed, Reads
  <2>3. g.code + 1 \in Nat
    <3>1. g.code \in Nat
      BY <1>1
    <3> QED BY <3>1
  <2> DEFINE c == g.code + 1
  <2>4. [g EXCEPT !.code = c] \in GroupType
    <3> HIDE DEF c
    <3>1. c \in Nat
      BY <2>3 DEF c
    <3> QED BY <1>1, <3>1
  <2> QED BY <2>1, <2>2, <2>4
<1>13. CASE r \in [op : {"accept"}, code : Nat \ {0}]
  <2>1. r.op = "accept"
    BY <1>13
  <2>2. h = [g EXCEPT !.members = Put(g.members, {p}, "member")]
    BY <2>1 DEF Changed, Reads
  <2>3. p \in DOMAIN Put(g.members, {p}, "member")
    BY DEF Put
  <2>4. h.members = Put(g.members, {p}, "member")
    BY <1>1, <2>2
  <2> HIDE DEF h
  <2>5. h \in GroupType /\ p \in DOMAIN h.members
    BY <1>3, <2>2, <2>3, <2>4 DEF Roles
  <2> QED BY <2>5 DEF h
<1>14. CASE r \in LeaveGroup
  <2>1. r.op = "leave"
    BY <1>14 DEF LeaveGroup
  <2>2. h = [g EXCEPT !.members = Restrict(g.members, DOMAIN g.members \ {p})]
    BY <2>1 DEF Changed, Reads
  <2> QED BY <1>4, <2>1, <2>2
<1> QED BY <1>5, <1>6, <1>7, <1>8, <1>9, <1>10, <1>11, <1>12, <1>13, <1>14 DEF RequestType

-----------------------------------------------------------------------------
(* The calls of operations, and what they return.                           *)

\* A query is answered by a response that has come in, and no query that is still on its
\* way to the server has one.
ResponsesInOrder ==
    /\ \A q \in Queries :
          /\ caller[q] = "answered" => promise[q] = "resolved"
          /\ promise[q] = "resolved" => q \in received
    /\ toServer \cap (toClient \cup received) = {}

\* Every step of the query layer keeps that order.
LEMMA ResponsesStep ==
  ASSUME IInv, ResponsesInOrder, [Next]_vars
  PROVE  ResponsesInOrder'
<1>0. /\ caller \in [Queries -> {"idle", "sending", "waiting", "answered", "failed"}]
      /\ promise \in [Queries -> {"none", "pending", "resolved", "rejected"}]
      /\ toServer \subseteq Queries /\ toClient \subseteq Queries /\ received \subseteq Queries
      /\ \A q \in Queries : q \in timers => promise[q] = "pending"
  BY DEF IInv, TypeOK, IdleIsUnsent
<1>1. ASSUME NEW q \in Queries, Start(q) PROVE ResponsesInOrder'
  <2>1. q \notin toClient \cup received /\ promise[q] = "none"
    BY <1>1 DEF Start, IInv, IdleIsUnsent
  <2> QED BY <1>0, <1>1, <2>1 DEF Start, Wait, ResponsesInOrder
<1>2. ASSUME NEW q \in Queries, Sent(q) PROVE ResponsesInOrder'
  <2>1. promise[q] \in {"pending", "resolved", "rejected"}
    BY <1>0, <1>2 DEF Sent, IInv, IdleIsUnsent
  <2>2. Await(promise[q]) = "answered" => promise[q] = "resolved"
    BY <2>1 DEF Await
  <2> QED BY <1>0, <1>2, <2>2 DEF Sent, network, ResponsesInOrder
<1>3. ASSUME NEW q \in Queries, Response(q) PROVE ResponsesInOrder'
  <2>1. /\ received' = received \cup {q} /\ toServer' = toServer
        /\ toClient' \subseteq toClient /\ q \in toClient
        /\ Settle(q, "resolved") \/ UNCHANGED <<promise, caller>>
    BY <1>3 DEF Response
  <2> QED BY <1>0, <2>1 DEF Settle, Await, ResponsesInOrder
<1>4. ASSUME NEW q \in Queries, TimesOut(q) PROVE ResponsesInOrder'
  <2>1. promise[q] = "pending" /\ caller[q] # "answered"
    BY <1>0, <1>4 DEF TimesOut, ResponsesInOrder
  <2> QED BY <1>0, <1>4, <2>1 DEF TimesOut, Settle, Await, network, ResponsesInOrder
<1>5. ASSUME NEW q \in Queries, ServerAnswers(q) PROVE ResponsesInOrder'
  BY <1>5 DEF ServerAnswers, ResponsesInOrder
<1>6. CASE ConnectionLost
  BY <1>0, <1>6 DEF ConnectionLost, ResponsesInOrder
<1>7. CASE Reconnected
  BY <1>7 DEF Reconnected, network, ResponsesInOrder
<1>8. CASE UNCHANGED vars
  BY <1>8 DEF vars, network, ResponsesInOrder
<1> QED BY <1>1, <1>2, <1>3, <1>4, <1>5, <1>6, <1>7, <1>8 DEF Next

\* A call that has not returned has a request; it has an answer when the server has taken it,
\* and the answer is real.
CallOK(q) ==
    /\ caller[q] = "idle" => request[q] = << >> /\ answer[q] = << >>
    /\ request[q] # << >> => Len(request[q]) = 1 /\ request[q][1] \in RequestType
    /\ q \in toServer => request[q] # << >> /\ answer[q] = << >>
    /\ request[q] # << >> =>
         /\ q \in toClient \cup received => answer[q] # << >>
         /\ answer[q] # << >> => IsReal(request[q][1], answer[q][1].node, answer[q][1].of)

\* So it is with all calls.
CallsOK ==
    /\ DOMAIN request = Queries /\ request = [q \in Queries |-> request[q]]
    /\ DOMAIN answer = Queries /\ answer = [q \in Queries |-> answer[q]]
    /\ \A q \in Queries : CallOK(q)

\* The inductive invariant of the groups layer.
GInv == IInv /\ ResponsesInOrder /\ group \in GroupType /\ CallsOK

\* A step of the query layer that starts no query and answers none keeps the calls.
LEMMA CallsKept ==
  ASSUME CallsOK, UNCHANGED calls, toServer' \subseteq toServer,
         toClient' \cup received' \subseteq toClient \cup received,
         \A q \in Queries : caller'[q] = "idle" => caller[q] = "idle"
  PROVE  CallsOK'
<1>1. request' = request /\ answer' = answer
  BY DEF calls
<1>2. ASSUME NEW q \in Queries PROVE CallOK(q)'
  BY <1>1 DEF CallOK, CallsOK
<1> QED BY <1>1, <1>2 DEF CallsOK

\* The requests that can be made at any time are of the type.
LEMMA RequestsAreTyped ==
  ASSUME group \in GroupType
  PROVE  Requests \subseteq RequestType
<1>1. group.code \in Nat
  BY DEF GroupType
<1>2. AcceptGroupInvite \subseteq [op : {"accept"}, code : Nat \ {0}]
  BY <1>1 DEF AcceptGroupInvite
<1> QED BY <1>2 DEF Requests, RequestType

\* What the server does makes a group.
LEMMA DoesType ==
  ASSUME group \in GroupType, NEW r \in RequestType, NEW p \in People, Does(r, p)
  PROVE  group' \in GroupType /\ (r.op = "accept" => p \in DOMAIN group'.members)
BY ChangedType DEF Does

\* Every step of the groups layer keeps the invariant.
LEMMA GInvStep == GInv /\ [GroupsNext]_allvars => GInv'
<1> SUFFICES ASSUME GInv, [GroupsNext]_allvars PROVE GInv'
  OBVIOUS
<1>1. [Next]_vars
  BY GroupsStep
<1>2. IInv' /\ ResponsesInOrder'
  BY <1>1, InvStep, ResponsesStep DEF GInv
<1>3. SUFFICES group' \in GroupType /\ CallsOK'
  BY <1>2 DEF GInv
<1>4. /\ caller \in [Queries -> {"idle", "sending", "waiting", "answered", "failed"}]
      /\ toServer \subseteq Queries /\ toClient \subseteq Queries /\ received \subseteq Queries
      /\ Requests \subseteq RequestType /\ group \in GroupType /\ CallsOK
  BY RequestsAreTyped DEF GInv, IInv, TypeOK
<1>5. CASE QueryStep
  <2>1. UNCHANGED <<group, calls>>
    BY <1>5 DEF QueryStep, gvars, server
  <2>2. /\ toServer' \subseteq toServer /\ toClient' \cup received' \subseteq toClient \cup received
        /\ \A q \in Queries : caller'[q] = "idle" => caller[q] = "idle"
    <3>1. CASE ConnectionLost
      BY <1>4, <3>1 DEF ConnectionLost
    <3>2. ASSUME NEW q \in Queries, Sent(q)
          PROVE  /\ UNCHANGED <<toServer, toClient, received>>
                 /\ \A k \in Queries : caller'[k] = "idle" => caller[k] = "idle"
      <4>1. Await(promise[q]) # "idle"
        BY <3>2, AwaitType DEF Sent, GInv, IInv, TypeOK, IdleIsUnsent
      <4> QED BY <1>4, <3>2, <4>1 DEF Sent, network
    <3>3. \A p \in {"resolved", "rejected"}, q \in Queries : Settle(q, p) =>
              \A k \in Queries : caller'[k] = "idle" => caller[k] = "idle"
      BY <1>4 DEF Settle, Await
    <3>4. ASSUME NEW q \in Queries, Response(q)
          PROVE  /\ toServer' = toServer /\ toClient' \cup received' \subseteq toClient \cup received
                 /\ \A k \in Queries : caller'[k] = "idle" => caller[k] = "idle"
      BY <3>3, <3>4 DEF Response
    <3>5. ASSUME NEW q \in Queries, TimesOut(q)
          PROVE  /\ UNCHANGED <<toServer, toClient, received>>
                 /\ \A k \in Queries : caller'[k] = "idle" => caller[k] = "idle"
      BY <3>3, <3>5 DEF TimesOut, network
    <3> QED BY <1>5, <3>1, <3>2, <3>4, <3>5 DEF QueryStep
  <2> QED BY <1>4, <2>1, <2>2, CallsKept
<1>6. CASE \/ Redelivery \/ Acknowledged \/ NotificationArrives \/ UNCHANGED allvars
  <2>1. UNCHANGED <<group, calls, caller, toServer, toClient, received>>
    <3>1. Redelivery => UNCHANGED <<group, calls, caller, toServer, toClient, received>>
      BY DEF Redelivery, Reconnected, network, server
    <3>2. Acknowledged => UNCHANGED <<group, calls, caller, toServer, toClient, received>>
      BY DEF Acknowledged, vars, network, server
    <3>3. NotificationArrives => UNCHANGED <<group, calls, caller, toServer, toClient, received>>
      BY DEF NotificationArrives, vars, network, server
    <3>4. UNCHANGED allvars => UNCHANGED <<group, calls, caller, toServer, toClient, received>>
      BY DEF allvars, gvars, vars, network, server
    <3> QED BY <1>6, <3>1, <3>2, <3>3, <3>4
  <2> QED BY <1>4, <2>1, CallsKept
<1>7. ASSUME NEW r \in Requests, NEW p \in Members, OthersChange(r, p) PROVE group' \in GroupType /\ CallsOK'
  <2>1. Does(r, p) /\ UNCHANGED <<vars, calls>> /\ p \in People
    BY <1>7 DEF OthersChange, People
  <2>2. UNCHANGED <<caller, toServer, toClient, received>>
    BY <2>1 DEF vars, network
  <2> QED BY <1>4, <2>1, <2>2, CallsKept, DoesType
<1>8. ASSUME NEW r \in Requests, NEW q \in Queries, Call(q, r) PROVE group' \in GroupType /\ CallsOK'
  <2>1. /\ caller[q] = "idle" /\ UNCHANGED <<toClient, received, answer, group>>
        /\ request' = [request EXCEPT ![q] = <<r>>]
        /\ toServer' \subseteq toServer \cup {q}
        /\ \A k \in Queries : k # q => caller'[k] = caller[k]
        /\ caller'[q] # "idle"
    BY <1>4, <1>8 DEF Call, Start, server
  <2>2. q \notin toServer \cup toClient \cup received
    BY <2>1 DEF GInv, IInv, IdleIsUnsent
  <2>3. DOMAIN request' = Queries /\ request' = [k \in Queries |-> request'[k]] /\ request'[q] = <<r>>
    BY <1>4, <2>1 DEF CallsOK
  <2>4. \A k \in Queries : CallOK(k)
    BY <1>4 DEF CallsOK
  <2>5. ASSUME NEW k \in Queries, k # q PROVE CallOK(k)'
    <3>1. request'[k] = request[k] /\ answer'[k] = answer[k]
      BY <1>4, <2>1, <2>5 DEF CallsOK
    <3> QED BY <2>1, <2>4, <2>5, <3>1 DEF CallOK
  <2>6. CallOK(q)'
    <3>1. answer'[q] = << >>
      BY <2>1, <2>4 DEF CallOK
    <3>2. r \in RequestType
      BY <1>4
    <3>3. <<r>> # << >> /\ Len(<<r>>) = 1 /\ <<r>>[1] = r
      OBVIOUS
    <3> QED BY <2>1, <2>2, <2>3, <3>1, <3>2, <3>3 DEF CallOK
  <2>7. DOMAIN answer' = Queries /\ answer' = [k \in Queries |-> answer'[k]]
    BY <1>4, <2>1 DEF CallsOK
  <2> QED BY <1>4, <2>1, <2>3, <2>5, <2>6, <2>7 DEF CallsOK
<1>9. ASSUME NEW q \in Queries, Serves(q) PROVE group' \in GroupType /\ CallsOK'
  <2> DEFINE r == request[q][1]
  <2>1. /\ q \in toServer /\ toServer' = toServer \ {q} /\ toClient' = toClient \cup {q}
        /\ UNCHANGED <<caller, received, request>>
    BY <1>9 DEF Serves, ServerAnswers
  <2>2. CallOK(q) /\ request[q] # << >> /\ r \in RequestType /\ caller[q] # "idle"
    BY <1>4, <2>1 DEF CallsOK, CallOK
  <2>3. PICK a : /\ answer' = [answer EXCEPT ![q] = <<a>>]
                 /\ IsReal(r, a.node, a.of)
                 /\ group' \in GroupType
    <3>1. CASE /\ Does(r, me)
               /\ answer' = [answer EXCEPT ![q] =
                    <<[node |-> AnswerNode(group', r), seen |-> Len(log'), of |-> <<group'>>]>>]
      <4> DEFINE b == [node |-> AnswerNode(group', r), seen |-> Len(log'), of |-> <<group'>>]
      <4>1. group' \in GroupType /\ (r.op = "accept" => me \in DOMAIN group'.members)
        <5>1. me \in People
          BY DEF People
        <5> HIDE DEF r
        <5> QED BY <1>4, <2>2, <3>1, <5>1, DoesType
      <4>2. IsReal(r, b.node, b.of)
        <5> HIDE DEF r
        <5> QED BY <2>2, <4>1, AnswersAreReal
      <4> HIDE DEF b
      <4> QED BY <3>1, <4>1, <4>2 DEF b
    <3>2. CASE /\ answer' = [answer EXCEPT ![q] = <<[node |-> ErrorNode, seen |-> Len(log), of |-> << >>]>>]
               /\ UNCHANGED server
      <4> DEFINE b == [node |-> ErrorNode, seen |-> Len(log), of |-> << >>]
      <4>1. IsReal(r, b.node, b.of)
        BY ErrorsAreReal
      <4>2. group' \in GroupType
        BY <1>4, <3>2 DEF server
      <4> HIDE DEF b
      <4> QED BY <3>2, <4>1, <4>2 DEF b
    <3> QED BY <1>9, <3>1, <3>2 DEF Serves
  <2>4. DOMAIN answer' = Queries /\ answer' = [k \in Queries |-> answer'[k]] /\ answer'[q] = <<a>>
    BY <1>4, <2>3 DEF CallsOK
  <2>5. \A k \in Queries : CallOK(k)
    BY <1>4 DEF CallsOK
  <2>6. ASSUME NEW k \in Queries, k # q PROVE CallOK(k)'
    <3>1. request'[k] = request[k] /\ answer'[k] = answer[k]
      BY <1>4, <2>1, <2>3, <2>6 DEF CallsOK
    <3> QED BY <2>1, <2>5, <2>6, <3>1 DEF CallOK
  <2>7. CallOK(q)'
    <3>1. <<a>> # << >> /\ <<a>>[1] = a
      OBVIOUS
    <3> QED BY <2>1, <2>2, <2>3, <2>4, <3>1 DEF CallOK
  <2>8. DOMAIN request' = Queries /\ request' = [k \in Queries |-> request'[k]]
    BY <1>4, <2>1 DEF CallsOK
  <2> QED BY <2>3, <2>4, <2>6, <2>7, <2>8 DEF CallsOK
<1>10. ASSUME NEW q \in Queries, Returns(q) PROVE group' \in GroupType /\ CallsOK'
  <2>1. /\ caller[q] = "answered" /\ UNCHANGED <<vars, server>>
        /\ request' = [request EXCEPT ![q] = << >>]
        /\ answer' = [answer EXCEPT ![q] = << >>]
    BY <1>10 DEF Returns
  <2>2. UNCHANGED <<group, caller, toServer, toClient, received>>
    BY <2>1 DEF vars, network, server
  <2>3. q \notin toServer
    BY <2>1 DEF GInv, ResponsesInOrder
  <2>4. /\ DOMAIN request' = Queries /\ request' = [k \in Queries |-> request'[k]] /\ request'[q] = << >>
        /\ DOMAIN answer' = Queries /\ answer' = [k \in Queries |-> answer'[k]] /\ answer'[q] = << >>
    BY <1>4, <2>1 DEF CallsOK
  <2>5. \A k \in Queries : CallOK(k)
    BY <1>4 DEF CallsOK
  <2>6. ASSUME NEW k \in Queries, k # q PROVE CallOK(k)'
    <3>1. request'[k] = request[k] /\ answer'[k] = answer[k]
      BY <1>4, <2>1, <2>6 DEF CallsOK
    <3> QED BY <2>2, <2>5, <2>6, <3>1 DEF CallOK
  <2>7. CallOK(q)'
    BY <2>1, <2>2, <2>3, <2>4 DEF CallOK
  <2> QED BY <1>4, <2>2, <2>4, <2>6, <2>7 DEF CallsOK
<1> QED BY <1>5, <1>6, <1>7, <1>8, <1>9, <1>10 DEF GroupsNext

\* It holds in the beginning.
LEMMA GInvInit == GroupsInit => GInv
<1> SUFFICES ASSUME GroupsInit PROVE GInv
  OBVIOUS
<1>1. IInv /\ ResponsesInOrder
  BY DEF GroupsInit, Init, IInv, TypeOK, IdleIsUnsent, NoResponseMissed, PendingIsWatched, ResponsesInOrder
<1>2. group \in GroupType
  <2>1. \A m \in Members, t \in Texts : NewGroup({m}, t) \in GroupType
    BY NewGroupType
  <2>2. group = NoGroup \/ \E m \in Members, t \in Texts : group = NewGroup({m}, t)
    BY DEF GroupsInit
  <2> QED BY <2>1, <2>2, NoGroupType
<1>3. CallsOK
  BY DEF GroupsInit, Init, CallsOK, CallOK
<1> QED BY <1>1, <1>2, <1>3 DEF GInv

\* The invariant holds of every behaviour of the groups layer.
LEMMA GInvariance == GroupsSpec => []GInv
BY GInvInit, GInvStep, PTL DEF GroupsSpec

\* What an operation of the groups layer returns is what the server has done or has.  Of a
\* refusal its caller learns by an error (create, accept, invite code), by metadata of another
\* group or an empty list of participants; the rest resolve as they do after a success.
THEOREM ResultsReal == GroupsSpec => []ResultsAreReal
<1>1. GInv => ResultsAreReal
  <2> SUFFICES ASSUME GInv, NEW q \in AboutToReturn
               PROVE  IsReal(request[q][1], answer[q][1].node, answer[q][1].of)
    BY DEF ResultsAreReal, IsReal, Returned
  <2>1. q \in Queries /\ caller[q] = "answered" /\ request[q] # << >>
    BY DEF AboutToReturn
  <2>2. q \in received
    BY <2>1 DEF GInv, ResponsesInOrder
  <2> QED BY <2>1, <2>2 DEF GInv, CallsOK, CallOK
<1> QED BY <1>1, GInvariance, PTL

-----------------------------------------------------------------------------
(* The log of changes, and what a value was after some of them.             *)

\* What a change of the group can set: the role of a person, a setting or a text.
Things == [kind : {"role"}, of : People]
          \cup [kind : {"locked", "announce", "subject", "description"}]

RoleIn(g, p) == IF p \in DOMAIN g.members THEN g.members[p] ELSE Gone

Value(g, x) ==
    CASE x.kind = "role"        -> RoleIn(g, x.of)
      [] x.kind = "locked"      -> g.locked
      [] x.kind = "announce"    -> g.announce
      [] x.kind = "subject"     -> g.subject
      [] x.kind = "description" -> g.description

\* The people to whom a change of the log other than "create" gives a role, and the role.
Concerned(e) ==
    CASE e.r.op \in ParticipantActions -> e.r.ids
      [] e.r.op \in {"accept", "leave"} -> {e.by}
      [] OTHER -> {}

GivenRole(op) ==
    CASE op \in {"add", "accept", "demote"} -> "member"
      [] op = "promote" -> "admin"
      [] op \in {"remove", "leave"} -> Gone

\* Whether the change e sets x, and to what.
Sets(e, x) ==
    \/ e.r.op = "create"
    \/ x.kind = "role" /\ x.of \in Concerned(e)
    \/ x.kind = "locked" /\ e.r.op \in {"locked", "unlocked"}
    \/ x.kind = "announce" /\ e.r.op \in {"announce", "not_announce"}
    \/ x.kind = "subject" /\ e.r.op = "subject"
    \/ x.kind = "description" /\ e.r.op = "description"

New(e, x) ==
    CASE e.r.op = "create" -> Value(NewGroup(e.r.ids, e.r.text), x)
      [] e.r.op # "create" /\ x.kind = "role" -> GivenRole(e.r.op)
      [] e.r.op # "create" /\ x.kind = "locked" -> e.r.op = "locked"
      [] e.r.op # "create" /\ x.kind = "announce" -> e.r.op = "announce"
      [] e.r.op # "create" /\ x.kind \in {"subject", "description"} -> e.r.text

\* The value that x must have before e.
Fits(e, x, v) ==
    x.kind = "role" =>
        /\ e.r.op \in {"add", "accept"} => v = Gone
        /\ e.r.op = "promote" => v = "member"
        /\ e.r.op = "demote" => v = "admin"

Raises(e, x) == e.r.op \in {"promote", "demote"} /\ x.kind = "role" /\ x.of \in e.r.ids

\* v may be the value of x after s changes of the log l that have made the group g: the
\* next change that sets x can follow, or there is none and v is the value in g.
At(l, g, s, x, v) ==
    /\ x.kind = "role" /\ v = "superadmin" => \A j \in 1..s : ~Raises(l[j], x)
    /\ \A j \in s + 1 .. Len(l) :
          Sets(l[j], x) /\ (\A k \in s + 1 .. j - 1 : ~Sets(l[k], x)) => Fits(l[j], x, v)
    /\ (\A j \in s + 1 .. Len(l) : ~Sets(l[j], x)) => v = Value(g, x)

ChangeType == [r : RequestType, by : People, told : BOOLEAN]

-----------------------------------------------------------------------------
\* A change in terms of what it sets.
LEMMA ChangedFields ==
  ASSUME NEW g \in GroupType, NEW r \in RequestType, NEW p \in People, r.op # "create",
         NEW e, e.r = r, e.by = p
  PROVE  LET h == Changed(g, r, p)
         IN  /\ h.locked = IF r.op \in {"locked", "unlocked"} THEN r.op = "locked" ELSE g.locked
             /\ h.announce = IF r.op \in {"announce", "not_announce"} THEN r.op = "announce" ELSE g.announce
             /\ h.subject = IF r.op = "subject" THEN r.text ELSE g.subject
             /\ h.description = IF r.op = "description" THEN r.text ELSE g.description
             /\ h.code = IF r.op = "revoke" THEN g.code + 1 ELSE g.code
             /\ \A k \in People : RoleIn(h, k) = IF k \in Concerned(e) THEN GivenRole(r.op) ELSE RoleIn(g, k)
<1> DEFINE h == Changed(g, r, p)
           Parts(m, l, a, s, d, c) ==
              /\ h.members = m /\ h.locked = l /\ h.announce = a /\ h.subject = s
              /\ h.description = d /\ h.code = c
           Same(m) == Parts(m, g.locked, g.announce, g.subject, g.description, g.code)
<1>0. g = [members |-> g.members, locked |-> g.locked, announce |-> g.announce,
           subject |-> g.subject, description |-> g.description, code |-> g.code]
  BY DEF GroupType
<1>1. CASE r \in GetGroupMetadata \cup GetGroupInviteCode
  <2>1. h = g /\ r.op \in Reads
    BY <1>1 DEF Changed, GetGroupMetadata, GetGroupInviteCode, Reads
  <2>2. Concerned(e) = {}
    BY <2>1 DEF Concerned, Reads, ParticipantActions
  <2> QED BY <2>1, <2>2 DEF Reads
<1>2. CASE r \in CreateGroup
  BY <1>2 DEF CreateGroup
<1>3. CASE r \in UpdateParticipants
  <2>1. r.op \in ParticipantActions
    BY <1>3 DEF UpdateParticipants
  <2>2. Concerned(e) = r.ids
    BY <2>1 DEF Concerned, ParticipantActions
  <2>3. CASE r.op \in {"add", "demote"}
    <3>1. Same(Put(g.members, r.ids, "member"))
      BY <1>0, <2>3 DEF Changed, Reads
    <3>2. GivenRole(r.op) = "member"
      BY <2>3 DEF GivenRole
    <3> HIDE DEF h
    <3> QED BY <2>2, <2>3, <3>1, <3>2 DEF Put, RoleIn, h
  <2>4. CASE r.op = "promote"
    <3>1. Same(Put(g.members, r.ids, "admin"))
      BY <1>0, <2>4 DEF Changed, Reads
    <3>2. GivenRole(r.op) = "admin"
      BY <2>4 DEF GivenRole
    <3> HIDE DEF h
    <3> QED BY <2>2, <2>4, <3>1, <3>2 DEF Put, RoleIn, h
  <2>5. CASE r.op = "remove"
    <3>1. Same(Restrict(g.members, DOMAIN g.members \ r.ids))
      BY <1>0, <2>5 DEF Changed, Reads
    <3>2. GivenRole(r.op) = Gone
      BY <2>5 DEF GivenRole
    <3> HIDE DEF h
    <3> QED BY <2>2, <2>5, <3>1, <3>2 DEF Restrict, RoleIn, h
  <2> QED BY <2>1, <2>3, <2>4, <2>5 DEF ParticipantActions
<1>4. CASE r \in UpdateGroupSubject
  <2>1. r.op = "subject"
    BY <1>4 DEF UpdateGroupSubject
  <2>2. Parts(g.members, g.locked, g.announce, r.text, g.description, g.code)
    BY <1>0, <2>1 DEF Changed, Reads
  <2>3. Concerned(e) = {}
    BY <2>1 DEF Concerned, ParticipantActions
  <2> HIDE DEF h
  <2> QED BY <2>1, <2>2, <2>3 DEF h, RoleIn
<1>5. CASE r \in UpdateGroupDescription
  <2>1. r.op = "description"
    BY <1>5 DEF UpdateGroupDescription
  <2>2. Parts(g.members, g.locked, g.announce, g.subject, r.text, g.code)
    BY <1>0, <2>1 DEF Changed, Reads
  <2>3. Concerned(e) = {}
    BY <2>1 DEF Concerned, ParticipantActions
  <2> HIDE DEF h
  <2> QED BY <2>1, <2>2, <2>3 DEF h, RoleIn
<1>6. CASE r \in SetGroupAnnounce
  <2>1. r.op \in {"announce", "not_announce"}
    BY <1>6 DEF SetGroupAnnounce
  <2>2. Parts(g.members, g.locked, r.op = "announce", g.subject, g.description, g.code)
    BY <1>0, <2>1 DEF Changed, Reads
  <2>3. Concerned(e) = {}
    BY <2>1 DEF Concerned, ParticipantActions
  <2> HIDE DEF h
  <2> QED BY <2>1, <2>2, <2>3 DEF h, RoleIn
<1>7. CASE r \in SetGroupRestrict
  <2>1. r.op \in {"locked", "unlocked"}
    BY <1>7 DEF SetGroupRestrict
  <2>2. Parts(g.members, r.op = "locked", g.announce, g.subject, g.description, g.code)
    BY <1>0, <2>1 DEF Changed, Reads
  <2>3. Concerned(e) = {}
    BY <2>1 DEF Concerned, ParticipantActions
  <2> HIDE DEF h
  <2> QED BY <2>1, <2>2, <2>3 DEF h, RoleIn
<1>8. CASE r \in RevokeGroupInviteCode
  <2>1. r.op = "revoke"
    BY <1>8 DEF RevokeGroupInviteCode
  <2>2. Parts(g.members, g.locked, g.announce, g.subject, g.description, g.code + 1)
    BY <1>0, <2>1 DEF Changed, Reads
  <2>3. Concerned(e) = {}
    BY <2>1 DEF Concerned, ParticipantActions
  <2> HIDE DEF h
  <2> QED BY <2>1, <2>2, <2>3 DEF h, RoleIn
<1>9. CASE r \in [op : {"accept"}, code : Nat \ {0}]
  <2>1. r.op = "accept"
    BY <1>9
  <2>2. Same(Put(g.members, {p}, "member"))
    BY <1>0, <2>1 DEF Changed, Reads
  <2>3. Concerned(e) = {p} /\ GivenRole(r.op) = "member"
    BY <2>1 DEF Concerned, ParticipantActions, GivenRole
  <2> HIDE DEF h
  <2> QED BY <2>1, <2>2, <2>3 DEF h, RoleIn, Put
<1>10. CASE r \in LeaveGroup
  <2>1. r.op = "leave"
    BY <1>10 DEF LeaveGroup
  <2>2. Same(Restrict(g.members, DOMAIN g.members \ {p}))
    BY <1>0, <2>1 DEF Changed, Reads
  <2>3. Concerned(e) = {p} /\ GivenRole(r.op) = Gone
    BY <2>1 DEF Concerned, ParticipantActions, GivenRole
  <2> HIDE DEF h
  <2> QED BY <2>1, <2>2, <2>3 DEF h, RoleIn, Restrict
<1> QED BY <1>1, <1>2, <1>3, <1>4, <1>5, <1>6, <1>7, <1>8, <1>9, <1>10 DEF RequestType

-----------------------------------------------------------------------------
\* A change that is not one of reads gives what it sets the new values, which fit the old
\* ones, and leaves the rest; only a new group makes a superadmin.
LEMMA ChangeIs ==
  ASSUME NEW g \in GroupType, NEW r \in RequestType, NEW p \in People, r.op \notin Reads,
         Allowed(g, r, p), NEW e, e.r = r, e.by = p, NEW x \in Things
  PROVE  /\ Sets(e, x) => /\ Value(Changed(g, r, p), x) = New(e, x)
                          /\ Fits(e, x, Value(g, x))
                          /\ r.op # "create" /\ x.kind = "role" => New(e, x) # "superadmin"
         /\ ~Sets(e, x) => Value(Changed(g, r, p), x) = Value(g, x)
<1> DEFINE h == Changed(g, r, p)
<1>1. CASE r.op = "create"
  <2>1. Sets(e, x)
    BY <1>1 DEF Sets
  <2>2. h = NewGroup(r.ids, r.text)
    BY <1>1 DEF Changed, Reads
  <2>3. New(e, x) = Value(NewGroup(r.ids, r.text), x)
    BY <1>1 DEF New
  <2>4. Fits(e, x, Value(g, x))
    BY <1>1 DEF Fits
  <2> QED BY <1>1, <2>1, <2>2, <2>3, <2>4
<1>2. CASE r.op # "create"
  <2>1. /\ h.locked = IF r.op \in {"locked", "unlocked"} THEN r.op = "locked" ELSE g.locked
        /\ h.announce = IF r.op \in {"announce", "not_announce"} THEN r.op = "announce" ELSE g.announce
        /\ h.subject = IF r.op = "subject" THEN r.text ELSE g.subject
        /\ h.description = IF r.op = "description" THEN r.text ELSE g.description
        /\ \A k \in People : RoleIn(h, k) = IF k \in Concerned(e) THEN GivenRole(r.op) ELSE RoleIn(g, k)
    BY <1>2, ChangedFields
  <2>2. CASE x.kind = "role"
    <3>1. x.of \in People
      BY <2>2 DEF Things
    <3>2. Sets(e, x) <=> x.of \in Concerned(e)
      BY <1>2, <2>2 DEF Sets
    <3>3. New(e, x) = GivenRole(r.op) /\ Value(h, x) = RoleIn(h, x.of) /\ Value(g, x) = RoleIn(g, x.of)
      BY <1>2, <2>2 DEF New, Value
    <3>4. ASSUME x.of \in Concerned(e)
          PROVE  Fits(e, x, Value(g, x)) /\ New(e, x) # "superadmin"
      <4>1. CASE r.op \in ParticipantActions
        <5>1. x.of \in r.ids
          BY <3>4, <4>1 DEF Concerned, ParticipantActions
        <5>2. CASE r.op = "add"
          <6>1. r.ids \cap DOMAIN g.members = {}
            BY <5>2 DEF Allowed
          <6>2. RoleIn(g, x.of) = Gone /\ GivenRole(r.op) = "member"
            BY <5>1, <5>2, <6>1 DEF RoleIn, GivenRole
          <6> QED BY <3>3, <5>2, <6>2 DEF Fits
        <5>3. CASE r.op = "remove"
          <6>1. GivenRole(r.op) = Gone
            BY <5>3 DEF GivenRole
          <6> QED BY <3>3, <5>3, <6>1 DEF Fits, Gone
        <5>4. CASE r.op = "promote"
          <6>1. r.ids \subseteq DOMAIN g.members /\ \A k \in r.ids : g.members[k] = "member"
            BY <5>4 DEF Allowed
          <6>2. RoleIn(g, x.of) = "member" /\ GivenRole(r.op) = "admin"
            BY <5>1, <5>4, <6>1 DEF RoleIn, GivenRole
          <6> QED BY <3>3, <5>4, <6>2 DEF Fits
        <5>5. CASE r.op = "demote"
          <6>1. r.ids \subseteq DOMAIN g.members /\ \A k \in r.ids : g.members[k] = "admin"
            BY <5>5 DEF Allowed
          <6>2. RoleIn(g, x.of) = "admin" /\ GivenRole(r.op) = "member"
            BY <5>1, <5>5, <6>1 DEF RoleIn, GivenRole
          <6> QED BY <3>3, <5>5, <6>2 DEF Fits
        <5> QED BY <4>1, <5>2, <5>3, <5>4, <5>5 DEF ParticipantActions
      <4>2. CASE r.op = "accept"
        <5>1. x.of = p
          BY <3>4, <4>2 DEF Concerned, ParticipantActions
        <5>2. p \notin DOMAIN g.members
          BY <4>2 DEF Allowed, In
        <5>3. RoleIn(g, x.of) = Gone /\ GivenRole(r.op) = "member"
          BY <4>2, <5>1, <5>2 DEF RoleIn, GivenRole
        <5> QED BY <3>3, <4>2, <5>3 DEF Fits
      <4>3. CASE r.op = "leave"
        <5>1. GivenRole(r.op) = Gone
          BY <4>3 DEF GivenRole
        <5> QED BY <3>3, <4>3, <5>1 DEF Fits, Gone
      <4>4. CASE r.op \notin ParticipantActions \cup {"accept", "leave"}
        BY <3>4, <4>4 DEF Concerned, ParticipantActions
      <4> QED BY <4>1, <4>2, <4>3, <4>4
    <3> QED BY <2>1, <3>1, <3>2, <3>3, <3>4
  <2>3. CASE x.kind # "role"
    <3>1. x.kind \in {"locked", "announce", "subject", "description"}
      BY <2>3 DEF Things
    <3>2. Fits(e, x, Value(g, x))
      BY <2>3 DEF Fits
    <3>3. CASE x.kind = "locked"
      <4>1. Sets(e, x) <=> r.op \in {"locked", "unlocked"}
        BY <1>2, <3>3 DEF Sets
      <4>2. New(e, x) = (r.op = "locked")
        BY <1>2, <3>3 DEF New
      <4>3. Value(h, x) = h.locked /\ Value(g, x) = g.locked
        BY <3>3 DEF Value
      <4> QED BY <2>1, <2>3, <3>2, <4>1, <4>2, <4>3
    <3>4. CASE x.kind = "announce"
      <4>1. Sets(e, x) <=> r.op \in {"announce", "not_announce"}
        BY <1>2, <3>4 DEF Sets
      <4>2. New(e, x) = (r.op = "announce")
        BY <1>2, <3>4 DEF New
      <4>3. Value(h, x) = h.announce /\ Value(g, x) = g.announce
        BY <3>4 DEF Value
      <4> QED BY <2>1, <2>3, <3>2, <4>1, <4>2, <4>3
    <3>5. CASE x.kind = "subject"
      <4>1. Sets(e, x) <=> r.op = "subject"
        BY <1>2, <3>5 DEF Sets
      <4>2. New(e, x) = r.text
        BY <1>2, <3>5 DEF New
      <4>3. Value(h, x) = h.subject /\ Value(g, x) = g.subject
        BY <3>5 DEF Value
      <4> QED BY <2>1, <2>3, <3>2, <4>1, <4>2, <4>3
    <3>6. CASE x.kind = "description"
      <4>1. Sets(e, x) <=> r.op = "description"
        BY <1>2, <3>6 DEF Sets
      <4>2. New(e, x) = r.text
        BY <1>2, <3>6 DEF New
      <4>3. Value(h, x) = h.description /\ Value(g, x) = g.description
        BY <3>6 DEF Value
      <4> QED BY <2>1, <2>3, <3>2, <4>1, <4>2, <4>3
    <3> QED BY <3>1, <3>3, <3>4, <3>5, <3>6
  <2> QED BY <2>2, <2>3
<1> QED BY <1>1, <1>2

\* Only a new group can be made of none, and it has an invite code, as whatever is made of
\* one that has.
LEMMA CodeIs ==
  ASSUME NEW g \in GroupType, NEW r \in RequestType, NEW p \in People, r.op \notin Reads,
         Allowed(g, r, p), g.code = 0 => DOMAIN g.members = {}
  PROVE  /\ Changed(g, r, p).code # 0
         /\ r.op = "create" <=> g.code = 0
<1>1. g.code \in Nat
  BY DEF GroupType
<1>2. CASE r.op = "create"
  <2>1. Changed(g, r, p) = NewGroup(r.ids, r.text)
    BY <1>2 DEF Changed, Reads
  <2>2. NewGroup(r.ids, r.text).code = 1
    BY DEF NewGroup, NoGroup
  <2>3. g.code = 0
    BY <1>2 DEF Allowed
  <2> QED BY <1>2, <2>1, <2>2, <2>3
<1>3. CASE r.op # "create"
  <2>1. g.code # 0
    <3>1. SUFFICES ASSUME g.code = 0 PROVE FALSE
      OBVIOUS
    <3>2. ~In(g, p)
      BY <3>1 DEF In
    <3>3. r.op = "accept"
      BY <1>3, <3>2 DEF Allowed
    <3>4. r.code = 0 /\ r.code \in Nat \ {0}
      <4>1. r.code = g.code
        BY <3>3 DEF Allowed
      <4>2. r.op = "accept" => r.code \in Nat \ {0}
        <5>1. /\ \A a \in CreateGroup : a.op # "accept"
              /\ \A a \in UpdateParticipants : a.op # "accept"
              /\ \A a \in UpdateGroupSubject \cup UpdateGroupDescription : a.op # "accept"
              /\ \A a \in SetGroupAnnounce \cup SetGroupRestrict : a.op # "accept"
              /\ \A a \in [op : {"accept"}, code : Nat \ {0}] : a.code \in Nat \ {0}
          BY DEF CreateGroup, UpdateParticipants, UpdateGroupSubject, UpdateGroupDescription,
                 SetGroupAnnounce, SetGroupRestrict, ParticipantActions
        <5>2. \A a \in GetGroupMetadata \cup GetGroupInviteCode \cup RevokeGroupInviteCode \cup LeaveGroup :
                 a.op # "accept"
          BY DEF GetGroupMetadata, GetGroupInviteCode, RevokeGroupInviteCode, LeaveGroup
        <5> QED BY <5>1, <5>2 DEF RequestType
      <4> QED BY <3>1, <3>3, <4>1, <4>2
    <3> QED BY <3>4
  <2>2. Changed(g, r, p).code = IF r.op = "revoke" THEN g.code + 1 ELSE g.code
    <3>1. PICK e : e = [r |-> r, by |-> p]
      OBVIOUS
    <3> QED BY <1>3, <3>1, ChangedFields
  <2> QED BY <1>1, <1>3, <2>1, <2>2
<1> QED BY <1>2, <1>3

-----------------------------------------------------------------------------
\* The change e of the log l, with which the group g becomes h.
Follow(l, g, e, h) ==
    \A x \in Things :
        /\ Sets(e, x) => Fits(e, x, Value(g, x)) /\ Value(h, x) = New(e, x)
        /\ ~Sets(e, x) => Value(h, x) = Value(g, x)
        /\ Sets(e, x) /\ e.r.op # "create" /\ x.kind = "role" => New(e, x) # "superadmin"

\* Where a log has grown by e.
LEMMA Grown ==
  ASSUME NEW S, NEW l \in Seq(S), NEW e \in S
  PROVE  /\ Append(l, e) \in Seq(S)
         /\ Len(l) \in Nat
         /\ Len(Append(l, e)) = Len(l) + 1
         /\ \A i \in 1..Len(l) : Append(l, e)[i] = l[i]
         /\ Append(l, e)[Len(l) + 1] = e
BY AppendProperties, LenProperties

\* What a value was after s changes does not change with more of them.
LEMMA AtGrows ==
  ASSUME NEW S, NEW l \in Seq(S), NEW e \in S, NEW g, NEW h, Follow(l, g, e, h),
         NEW s \in 0..Len(l), NEW x \in Things, NEW v, At(l, g, s, x, v)
  PROVE  At(Append(l, e), h, s, x, v)
<1> DEFINE k == Append(l, e)
           n == Len(l)
<1>1. /\ n \in Nat /\ Len(k) = n + 1
      /\ \A i \in 1..n : k[i] = l[i]
      /\ k[n + 1] = e
  BY Grown
<1> HIDE DEF k, n
<1>2. s \in 0..n
  BY DEF n
<1>3. /\ x.kind = "role" /\ v = "superadmin" => \A j \in 1..s : ~Raises(l[j], x)
      /\ \A j \in s + 1 .. n :
          Sets(l[j], x) /\ (\A i \in s + 1 .. j - 1 : ~Sets(l[i], x)) => Fits(l[j], x, v)
      /\ (\A j \in s + 1 .. n : ~Sets(l[j], x)) => v = Value(g, x)
  BY DEF At, n
<1>4. /\ Sets(e, x) => Fits(e, x, Value(g, x))
      /\ ~Sets(e, x) => Value(h, x) = Value(g, x)
  BY DEF Follow
<1>5. x.kind = "role" /\ v = "superadmin" => \A j \in 1..s : ~Raises(k[j], x)
  BY <1>1, <1>2, <1>3
<1>6. ASSUME NEW j \in s + 1 .. n + 1, Sets(k[j], x), \A i \in s + 1 .. j - 1 : ~Sets(k[i], x)
      PROVE  Fits(k[j], x, v)
  <2>1. CASE j <= n
    <3>1. k[j] = l[j] /\ j \in s + 1 .. n
      BY <1>1, <1>2, <1>6, <2>1
    <3>2. \A i \in s + 1 .. j - 1 : k[i] = l[i]
      BY <1>1, <1>2, <1>6, <2>1
    <3> QED BY <1>3, <1>6, <3>1, <3>2
  <2>2. CASE j = n + 1
    <3>1. \A i \in s + 1 .. n : ~Sets(l[i], x)
      BY <1>1, <1>2, <1>6, <2>2
    <3> QED BY <1>1, <1>3, <1>4, <1>6, <2>2, <3>1
  <2> QED BY <1>1, <1>2, <1>6, <2>1, <2>2
<1>7. ASSUME \A j \in s + 1 .. n + 1 : ~Sets(k[j], x)
      PROVE  v = Value(h, x)
  <2>1. \A j \in s + 1 .. n : ~Sets(l[j], x)
    BY <1>1, <1>2, <1>7
  <2>2. ~Sets(e, x)
    BY <1>1, <1>2, <1>7
  <2> QED BY <1>3, <1>4, <2>1, <2>2
<1>8. At(k, h, s, x, v)
  BY <1>1, <1>5, <1>6, <1>7 DEF At
<1> QED BY <1>8 DEF k

\* The value after all changes.
LEMMA AtEnd ==
  ASSUME NEW l, NEW g, NEW n \in Nat, Len(l) = n, NEW x, NEW v
  PROVE  At(l, g, n, x, v) <=>
            /\ x.kind = "role" /\ v = "superadmin" => \A j \in 1..n : ~Raises(l[j], x)
            /\ v = Value(g, x)
<1>1. n + 1 .. n = {}
  OBVIOUS
<1> QED BY <1>1 DEF At

\* The value after all changes follows from that before the last.
LEMMA AtNew ==
  ASSUME NEW S, NEW l \in Seq(S), NEW e \in S, NEW g, NEW h, Follow(l, g, e, h),
         e.r.op = "create" => Len(l) = 0,
         NEW x \in Things, At(l, g, Len(l), x, Value(g, x))
  PROVE  At(Append(l, e), h, Len(l) + 1, x, Value(h, x))
<1> DEFINE k == Append(l, e)
           n == Len(l)
<1>1. /\ n \in Nat /\ Len(k) = n + 1 /\ n + 1 \in Nat
      /\ \A i \in 1..n : k[i] = l[i]
      /\ k[n + 1] = e
  BY Grown
<1>2. x.kind = "role" /\ Value(g, x) = "superadmin" => \A j \in 1..n : ~Raises(l[j], x)
  BY <1>1, AtEnd
<1>3. e.r.op = "create" => n = 0
  OBVIOUS
<1> HIDE DEF k, n
<1>4. ASSUME x.kind = "role", Value(h, x) = "superadmin", NEW j \in 1..n + 1, Raises(k[j], x)
      PROVE  FALSE
  <2>1. Raises(e, x) => e.r.op # "create" /\ Sets(e, x)
    BY <1>4 DEF Raises, Sets, Concerned, ParticipantActions
  <2>2. ~Raises(e, x)
    BY <1>4, <2>1 DEF Follow
  <2>3. j \in 1..n /\ Raises(l[j], x)
    BY <1>1, <1>4, <2>2
  <2>4. n # 0
    BY <1>1, <2>3
  <2>5. ~Sets(e, x)
    BY <1>3, <1>4, <2>4 DEF Follow
  <2> QED BY <1>2, <1>4, <2>3, <2>5 DEF Follow
<1>5. At(k, h, n + 1, x, Value(h, x))
  BY <1>1, <1>4, AtEnd
<1> QED BY <1>5 DEF k, n

\* What the log says of the group.
ServerInv(l, g) ==
    /\ l \in Seq(ChangeType)
    /\ \A x \in Things : At(l, g, Len(l), x, Value(g, x))
    /\ \A i \in 1..Len(l) :
          /\ l[i].r.op \notin Reads
          /\ l[i].r.op = "create" => i = 1
          /\ \A x \in Things : Sets(l[i], x) => At(l, g, i, x, New(l[i], x))
    /\ g.code = 0 => Len(l) = 0 /\ DOMAIN g.members = {}

\* A change keeps that.
LEMMA ServerStep ==
  ASSUME NEW l, NEW g \in GroupType, ServerInv(l, g), NEW r \in RequestType, NEW p \in People,
         r.op \notin Reads, Allowed(g, r, p), NEW e \in ChangeType, e.r = r, e.by = p
  PROVE  /\ ServerInv(Append(l, e), Changed(g, r, p))
         /\ Follow(l, g, e, Changed(g, r, p))
<1> DEFINE h == Changed(g, r, p)
           k == Append(l, e)
           n == Len(l)
<1>1. l \in Seq(ChangeType) /\ k \in Seq(ChangeType)
      /\ n \in Nat /\ Len(k) = n + 1 /\ n + 1 \in Nat
      /\ (\A i \in 1..n : k[i] = l[i])
      /\ k[n + 1] = e
  BY Grown DEF ServerInv
<1>2. Follow(l, g, e, h)
  BY ChangeIs DEF Follow
<1>3. g.code = 0 => n = 0 /\ DOMAIN g.members = {}
  BY DEF ServerInv
<1>4. h.code # 0 /\ (r.op = "create" => n = 0)
  BY <1>3, CodeIs
<1>5. \A x \in Things : At(k, h, n + 1, x, Value(h, x))
  <2> TAKE x \in Things
  <2>1. At(l, g, Len(l), x, Value(g, x))
    BY DEF ServerInv
  <2>2. e.r.op = "create" => Len(l) = 0
    BY <1>4
  <2> HIDE DEF h
  <2> QED BY <1>1, <1>2, <2>1, <2>2, AtNew
<1>6. ASSUME NEW i \in 1..n + 1
      PROVE  /\ k[i].r.op \notin Reads
             /\ k[i].r.op = "create" => i = 1
             /\ \A x \in Things : Sets(k[i], x) => At(k, h, i, x, New(k[i], x))
  <2>1. CASE i \in 1..n
    <3>1. k[i] = l[i]
      BY <1>1, <2>1
    <3>2. /\ l[i].r.op \notin Reads
          /\ l[i].r.op = "create" => i = 1
          /\ \A x \in Things : Sets(l[i], x) => At(l, g, i, x, New(l[i], x))
      BY <2>1 DEF ServerInv
    <3>3. ASSUME NEW x \in Things, Sets(l[i], x) PROVE At(k, h, i, x, New(l[i], x))
      <4>1. At(l, g, i, x, New(l[i], x)) /\ i \in 0..Len(l)
        BY <1>1, <2>1, <3>2, <3>3
      <4> HIDE DEF h
      <4> QED BY <1>1, <1>2, <4>1, AtGrows
    <3> HIDE DEF h, k
    <3> QED BY <3>1, <3>2, <3>3
  <2>2. CASE i = n + 1
    <3>1. k[i] = e
      BY <1>1, <2>2
    <3>2. e.r.op = "create" => i = 1
      BY <1>4, <2>2
    <3>3. \A x \in Things : Sets(e, x) => Value(h, x) = New(e, x)
      BY <1>2 DEF Follow
    <3> HIDE DEF h, k
    <3> QED BY <1>5, <2>2, <3>1, <3>2, <3>3
  <2> QED BY <1>1, <2>1, <2>2
<1>7. ServerInv(k, h)
  <2> HIDE DEF h, k
  <2> QED BY <1>1, <1>4, <1>5, <1>6 DEF ServerInv
<1> QED BY <1>2, <1>7

-----------------------------------------------------------------------------
(* What the listeners of the store make of a list of participants.          *)

\* The roles that a list shows.
RolesType == [People -> Roles \cup {Gone}]

\* The role that one of the people of an update has in the list after it.
After(action, v) ==
    CASE action = "add" -> IF v = Gone THEN "member" ELSE v
      [] action = "remove" -> Gone
      [] action = "promote" -> IF v = Gone THEN Gone ELSE "admin"
      [] action = "demote" -> IF v = Gone THEN Gone ELSE "member"

Given(st, ids, action) == [p \in People |-> IF p \in ids THEN After(action, st[p]) ELSE st[p]]

\* The members of an update.
Named(ids) == RolesOf([p \in ids |-> "member"])

\* A list has those that it shows.
LEMMA HasIs ==
  ASSUME NEW list, NEW n, NEW st, Holds(list, n, st), NEW p \in People
  PROVE  Has(list, p) <=> st[p] # Gone
<1>1. DOMAIN list = 1..n
  BY DEF Holds, IsSeq
<1>2. (\A i \in 1..n : st[list[i].id] # Gone) /\ (st[p] # Gone => \E i \in 1..n : list[i].id = p)
  BY DEF Holds
<1> QED BY <1>1, <1>2 DEF Has

\* A list with the same roles.
LEMMA HoldsEqual ==
  ASSUME NEW list, NEW n, NEW s, NEW t, Holds(list, n, s), \A p \in People : s[p] = t[p]
  PROVE  Holds(list, n, t)
BY DEF Holds

\* Filtering a list by whom it is about.
LEMMA OnlyHolds ==
  ASSUME NEW list, NEW n, NEW st, Holds(list, n, st), NEW D,
         NEW K, K = {i \in DOMAIN list : list[i].id \notin D}
  PROVE  Holds(Only(list, K), Cardinality(K), [p \in People |-> IF p \in D THEN Gone ELSE st[p]])
<1> DEFINE C == Cardinality(K)
           order == InOrder(K)
           s == [p \in People |-> IF p \in D THEN Gone ELSE st[p]]
           part == Only(list, K)
<1>1. DOMAIN list = 1..n /\ n \in Nat
  BY DEF Holds, IsSeq
<1>2. K \in SUBSET (1..n)
  BY <1>1
<1>3. /\ C \in Nat
      /\ order \in [1..C -> K]
      /\ \A i, j \in 1..C : order[i] = order[j] => i = j
      /\ \A k \in K : \E i \in 1..C : order[i] = k
  BY <1>1, <1>2, InOrderIs
<1>4. part = [i \in 1..C |-> list[order[i]]]
  BY DEF Only
<1> HIDE DEF C, order, part
<1>5. \A i \in 1..C : part[i] = list[order[i]] /\ order[i] \in 1..n /\ list[order[i]].id \notin D
  BY <1>1, <1>3, <1>4
<1>6. IsSeq(part, C)
  BY <1>3, <1>4 DEF IsSeq
<1>7. ASSUME NEW i \in 1..C
      PROVE  /\ part[i].id \in People
             /\ s[part[i].id] # Gone
             /\ part[i] = Participant(part[i].id, s[part[i].id])
  <2>1. /\ list[order[i]].id \in People /\ st[list[order[i]].id] # Gone
        /\ list[order[i]] = Participant(list[order[i]].id, st[list[order[i]].id])
    BY <1>5 DEF Holds
  <2> QED BY <1>5, <2>1
<1>8. \A i, j \in 1..C : part[i].id = part[j].id => i = j
  <2> SUFFICES ASSUME NEW i \in 1..C, NEW j \in 1..C, part[i].id = part[j].id PROVE i = j
    OBVIOUS
  <2>1. order[i] = order[j]
    BY <1>5 DEF Holds
  <2> QED BY <1>3, <2>1
<1>9. \A p \in People : s[p] # Gone => \E i \in 1..C : part[i].id = p
  <2> SUFFICES ASSUME NEW p \in People, s[p] # Gone PROVE \E i \in 1..C : part[i].id = p
    OBVIOUS
  <2>1. p \notin D /\ st[p] # Gone
    OBVIOUS
  <2>2. PICK j \in 1..n : list[j].id = p
    BY <2>1 DEF Holds
  <2>3. j \in K
    BY <1>1, <2>1, <2>2
  <2>4. PICK i \in 1..C : order[i] = j
    BY <1>3, <2>3
  <2> QED BY <1>5, <2>2, <2>4
<1> HIDE DEF s
<1>10. Holds(part, C, s)
  BY <1>6, <1>7, <1>8, <1>9 DEF Holds
<1> QED BY <1>10 DEF part, C, s

\* c is a, of n elements, with the m elements of b after it.
Joined(c, a, n, b, m) ==
    /\ n + m \in Nat /\ IsSeq(c, n + m)
    /\ \A i \in 1..n : c[i] = a[i]
    /\ \A i \in 1..m : c[n + i] = b[i]

\* One list after another.
LEMMA Concatenated ==
  ASSUME NEW a, NEW n, IsSeq(a, n), NEW b, NEW m, IsSeq(b, m)
  PROVE  Joined(a \o b, a, n, b, m)
<1> DEFINE S == {a[i] : i \in 1..n} \cup {b[i] : i \in 1..m}
<1>1. n \in Nat /\ m \in Nat
  BY DEF IsSeq
<1>2. a \in Seq(S) /\ Len(a) = n
  <2>1. a \in [1..n -> S]
    BY DEF IsSeq
  <2> QED BY <1>1, <2>1
<1>3. b \in Seq(S) /\ Len(b) = m
  <2>1. b \in [1..m -> S]
    BY DEF IsSeq
  <2> QED BY <1>1, <2>1
<1> HIDE DEF S
<1>4. /\ a \o b \in Seq(S)
      /\ Len(a \o b) = Len(a) + Len(b)
      /\ \A i \in 1 .. Len(a) + Len(b) : (a \o b)[i] =
            IF i <= Len(a) THEN a[i] ELSE b[i - Len(a)]
  BY <1>2, <1>3, ConcatProperties, Zenon
<1> DEFINE c == a \o b
<1>8. Len(c) = n + m /\ c \in Seq(S)
  BY <1>2, <1>3, <1>4
<1>9. c = [i \in 1 .. n + m |-> c[i]] /\ n + m \in Nat
  <2> HIDE DEF c
  <2>1. DOMAIN c = 1 .. n + m
    BY <1>8, LenProperties
  <2> QED BY <1>1, <1>8, <2>1
<1>10. \A i \in 1 .. n + m : c[i] = IF i <= n THEN a[i] ELSE b[i - n]
  BY <1>2, <1>3, <1>4
<1> HIDE DEF c
<1>6. \A i \in 1..n : c[i] = a[i]
  BY <1>1, <1>10
<1>7. \A i \in 1..m : c[n + i] = b[i]
  BY <1>1, <1>10
<1>11. Joined(c, a, n, b, m)
  BY <1>6, <1>7, <1>9 DEF IsSeq, Joined
<1> QED BY <1>11 DEF c

\* If nobody is in both, it has those of both.
LEMMA ConcatHolds ==
  ASSUME NEW a, NEW n, NEW s, Holds(a, n, s), NEW b, NEW m, NEW t, Holds(b, m, t),
         \A p \in People : s[p] = Gone \/ t[p] = Gone
  PROVE  Holds(a \o b, n + m, [p \in People |-> IF s[p] = Gone THEN t[p] ELSE s[p]])
<1> DEFINE c == a \o b
           u == [p \in People |-> IF s[p] = Gone THEN t[p] ELSE s[p]]
<1>1. /\ n \in Nat /\ m \in Nat /\ n + m \in Nat /\ IsSeq(c, n + m)
      /\ \A i \in 1..n : c[i] = a[i]
      /\ \A i \in 1..m : c[n + i] = b[i]
  <2>1. IsSeq(a, n) /\ IsSeq(b, m)
    BY DEF Holds
  <2>2. n \in Nat /\ m \in Nat
    BY <2>1 DEF IsSeq
  <2>3. Joined(c, a, n, b, m)
    BY <2>1, Concatenated
  <2> HIDE DEF c
  <2> QED BY <2>2, <2>3 DEF Joined
<1> HIDE DEF c
<1>2. \A k \in 1 .. n + m : k \in 1..n \/ \E i \in 1..m : k = n + i
  <2> SUFFICES ASSUME NEW k \in 1 .. n + m, ~(k \in 1..n) PROVE k - n \in 1..m /\ k = n + (k - n)
    OBVIOUS
  <2> QED BY <1>1
<1>3. ASSUME NEW i \in 1..n
      PROVE  /\ c[i].id \in People /\ s[c[i].id] # Gone
             /\ c[i] = Participant(c[i].id, s[c[i].id])
  BY <1>1 DEF Holds
<1>4. ASSUME NEW i \in 1..m
      PROVE  /\ c[n + i].id \in People /\ t[c[n + i].id] # Gone
             /\ c[n + i] = Participant(c[n + i].id, t[c[n + i].id])
  <2>1. /\ b[i].id \in People /\ t[b[i].id] # Gone
        /\ b[i] = Participant(b[i].id, t[b[i].id])
    BY DEF Holds
  <2>2. c[n + i] = b[i]
    BY <1>1
  <2> QED BY <2>1, <2>2
<1>5. ASSUME NEW k \in 1 .. n + m
      PROVE  /\ c[k].id \in People
             /\ u[c[k].id] # Gone
             /\ c[k] = Participant(c[k].id, u[c[k].id])
  <2>1. CASE k \in 1..n
    BY <1>3, <2>1
  <2>2. CASE \E i \in 1..m : k = n + i
    <3>1. PICK i \in 1..m : k = n + i
      BY <2>2
    <3>2. s[c[k].id] = Gone
      BY <1>4, <3>1
    <3> QED BY <1>4, <3>1, <3>2
  <2> QED BY <1>2, <2>1, <2>2
<1>6. ASSUME NEW k \in 1 .. n + m, NEW l \in 1 .. n + m, c[k].id = c[l].id
      PROVE  k = l
  <2>1. CASE k \in 1..n /\ l \in 1..n
    BY <1>1, <1>6, <2>1 DEF Holds
  <2>2. ASSUME NEW i \in 1..m, NEW j \in 1..m, k = n + i, l = n + j PROVE k = l
    <3>1. c[k] = b[i] /\ c[l] = b[j]
      BY <1>1, <2>2
    <3>2. i = j
      BY <1>6, <3>1 DEF Holds
    <3> QED BY <2>2, <3>2
  <2>3. ASSUME NEW i \in 1..m, k = n + i, l \in 1..n PROVE FALSE
    BY <1>3, <1>4, <1>6, <2>3
  <2>4. ASSUME NEW j \in 1..m, l = n + j, k \in 1..n PROVE FALSE
    BY <1>3, <1>4, <1>6, <2>4
  <2> QED BY <1>2, <2>1, <2>2, <2>3, <2>4
<1>7. ASSUME NEW p \in People, u[p] # Gone
      PROVE  \E k \in 1 .. n + m : c[k].id = p
  <2>1. CASE s[p] # Gone
    <3>1. PICK i \in 1..n : a[i].id = p
      BY <2>1 DEF Holds
    <3>2. i \in 1 .. n + m /\ c[i].id = p
      BY <1>1, <3>1
    <3> QED BY <3>2
  <2>2. CASE t[p] # Gone
    <3>1. PICK i \in 1..m : b[i].id = p
      BY <2>2 DEF Holds
    <3>2. n + i \in 1 .. n + m /\ c[n + i].id = p
      BY <1>1, <3>1
    <3> QED BY <3>2
  <2> QED BY <1>7, <2>1, <2>2
<1> HIDE DEF u
<1>8. Holds(c, n + m, u)
  BY <1>1, <1>5, <1>6, <1>7 DEF Holds
<1> QED BY <1>8 DEF c, u

\* A participant of four fields, and replacing two of them.
Fields4(p, a, s, r) == [id |-> p, isAdmin |-> a, isSuperAdmin |-> s, admin |-> r]

Ranked(one, is, admin) == [one EXCEPT !.isAdmin = is, !.admin = admin]

LEMMA Replaced ==
  ASSUME NEW p, NEW a, NEW s, NEW r, NEW a2, NEW r2
  PROVE  Ranked(Fields4(p, a, s, r), a2, r2) = Fields4(p, a2, s, r2)
<1> DEFINE one == [id |-> p, isAdmin |-> a, isSuperAdmin |-> s, admin |-> r]
           two == [id |-> p, isAdmin |-> a2, isSuperAdmin |-> s, admin |-> r]
<1>1. [one EXCEPT !.isAdmin = a2] = two
  OBVIOUS
<1>2. [two EXCEPT !.admin = r2] = [id |-> p, isAdmin |-> a2, isSuperAdmin |-> s, admin |-> r2]
  OBVIOUS
<1>3. [one EXCEPT !.isAdmin = a2, !.admin = r2] = [[one EXCEPT !.isAdmin = a2] EXCEPT !.admin = r2]
  <2> HIDE DEF one
  <2> QED OBVIOUS
<1> QED BY <1>1, <1>2, <1>3 DEF Fields4, Ranked

\* Giving or taking the rights of an administrator, but not from a superadmin.
LEMMA WithAdminHolds ==
  ASSUME NEW list, NEW n, NEW st, Holds(list, n, st), NEW ps, NEW ids \in SUBSET People,
         \A p \in People : Has(ps, p) <=> p \in ids,
         NEW role \in {"member", "admin"}, NEW admin, admin = IF role = "admin" THEN "admin" ELSE None,
         \A p \in ids : st[p] # "superadmin"
  PROVE  Holds(WithAdmin(list, ps, admin), n,
               [p \in People |-> IF p \in ids /\ st[p] # Gone THEN role ELSE st[p]])
<1> DEFINE c == WithAdmin(list, ps, admin)
           u == [p \in People |-> IF p \in ids /\ st[p] # Gone THEN role ELSE st[p]]
<1>1. IsSeq(list, n) /\ DOMAIN list = 1..n
  BY DEF Holds, IsSeq
<1>2. c = [i \in 1..n |-> IF Has(ps, list[i].id) THEN Ranked(list[i], admin # None, admin) ELSE list[i]]
  BY <1>1 DEF WithAdmin, Ranked
<1> HIDE DEF c
<1>3. IsSeq(c, n)
  BY <1>1, <1>2 DEF IsSeq
<1>4. ASSUME NEW p, NEW t, t # "superadmin"
      PROVE  Ranked(Participant(p, t), admin # None, admin) = Participant(p, role)
  <2> DEFINE top == t = "superadmin"
             some == t \in {"admin", "superadmin"}
             was == IF some THEN t ELSE None
             is == admin # None
             made == role \in {"admin", "superadmin"}
             over == role = "superadmin"
  <2>1. Participant(p, t) = Fields4(p, some, top, was)
    BY DEF Participant, Fields4
  <2>2. Participant(p, role) = Fields4(p, made, over, IF made THEN role ELSE None)
    BY DEF Participant, Fields4
  <2>3. top = FALSE /\ over = FALSE
    BY <1>4
  <2>4. is = made /\ (IF made THEN role ELSE None) = admin
    <3>1. CASE role = "admin"
      BY <3>1 DEF None
    <3>2. CASE role = "member"
      BY <3>2
    <3> QED BY <3>1, <3>2
  <2> HIDE DEF top, some, was, is, made, over
  <2>5. Ranked(Participant(p, t), is, admin) = Fields4(p, is, top, admin)
    BY <2>1, Replaced
  <2>6. Ranked(Participant(p, t), is, admin) = Participant(p, role)
    <3>1. Participant(p, role) = Fields4(p, made, over, admin)
      BY <2>2, <2>4
    <3> QED BY <2>3, <2>4, <2>5, <3>1
  <2> QED BY <2>6 DEF is
<1>5. \A p, t : Participant(p, t).id = p
  BY DEF Participant
<1>6. role # Gone
  BY DEF Gone
<1>7. ASSUME NEW i \in 1..n
      PROVE  /\ c[i].id = list[i].id
             /\ c[i].id \in People
             /\ u[c[i].id] # Gone
             /\ c[i] = Participant(c[i].id, u[c[i].id])
  <2>1. /\ list[i].id \in People /\ st[list[i].id] # Gone
        /\ list[i] = Participant(list[i].id, st[list[i].id])
    BY DEF Holds
  <2>2. CASE list[i].id \in ids
    <3>1. c[i] = Ranked(list[i], admin # None, admin)
      BY <1>2, <2>1, <2>2
    <3>2. st[list[i].id] # "superadmin"
      BY <2>2
    <3>3. c[i] = Participant(list[i].id, role)
      BY <1>4, <2>1, <3>1, <3>2
    <3>4. c[i].id = list[i].id
      BY <1>5, <3>3
    <3>5. u[list[i].id] = role
      BY <2>1, <2>2
    <3> HIDE DEF u
    <3> QED BY <1>6, <2>1, <3>3, <3>4, <3>5
  <2>3. CASE list[i].id \notin ids
    <3>1. c[i] = list[i]
      BY <1>2, <2>1, <2>3
    <3>2. u[list[i].id] = st[list[i].id]
      BY <2>1, <2>3
    <3> HIDE DEF u
    <3> QED BY <2>1, <3>1, <3>2
  <2> QED BY <2>2, <2>3
<1>8. \A i, j \in 1..n : c[i].id = c[j].id => i = j
  BY <1>7 DEF Holds
<1>9. \A p \in People : u[p] # Gone => \E i \in 1..n : c[i].id = p
  <2> SUFFICES ASSUME NEW p \in People, u[p] # Gone PROVE \E i \in 1..n : c[i].id = p
    OBVIOUS
  <2>1. st[p] # Gone
    OBVIOUS
  <2>2. PICK i \in 1..n : list[i].id = p
    BY <2>1 DEF Holds
  <2> QED BY <1>7, <2>2
<1> HIDE DEF u
<1>10. Holds(c, n, u)
  BY <1>3, <1>7, <1>8, <1>9 DEF Holds
<1> QED BY <1>10 DEF c, u

\* So the store's listener gives the people of an update their new roles, and nobody else.
LEMMA UpdatedHolds ==
  ASSUME NEW list, NEW n, NEW st \in RolesType, Holds(list, n, st), NEW ids \in SUBSET People,
         NEW ps, NEW m, Holds(ps, m, Named(ids)), NEW action \in ParticipantActions,
         action \in {"promote", "demote"} => \A p \in ids : st[p] # "superadmin"
  PROVE  /\ \E k : Holds(Updated(list, action, ps), k, Given(st, ids, action))
         /\ Given(st, ids, action) \in RolesType
<1> DEFINE u == Given(st, ids, action)
<1>0. \A p \in People : Named(ids)[p] = IF p \in ids THEN "member" ELSE Gone
  BY DEF Named, RolesOf
<1>1. \A p \in People : Has(ps, p) <=> p \in ids
  <2> TAKE p \in People
  <2>1. Has(ps, p) <=> Named(ids)[p] # Gone
    BY HasIs
  <2> QED BY <1>0, <2>1 DEF Gone
<1>2. \A p \in People : Has(list, p) <=> st[p] # Gone
  BY HasIs
<1>3. /\ DOMAIN list = 1..n /\ DOMAIN ps = 1..m
      /\ \A i \in 1..n : list[i].id \in People
      /\ \A i \in 1..m : ps[i].id \in People
  BY DEF Holds, IsSeq
<1>4. \A p \in People : st[p] \in Roles \cup {Gone}
  BY DEF RolesType
<1>5. CASE action = "add"
  <2> DEFINE D == {p \in People : st[p] # Gone}
             K == {i \in DOMAIN ps : ~Has(list, ps[i].id)}
             t == [p \in People |-> IF p \in D THEN Gone ELSE Named(ids)[p]]
             w == [p \in People |-> IF st[p] = Gone THEN t[p] ELSE st[p]]
  <2>1. K = {i \in DOMAIN ps : ps[i].id \notin D}
    BY <1>2, <1>3
  <2>2. Holds(Only(ps, K), Cardinality(K), t)
    <3> HIDE DEF D, K
    <3> QED BY <2>1, OnlyHolds
  <2>3. \A p \in People : st[p] = Gone \/ t[p] = Gone
    OBVIOUS
  <2>4. Holds(list \o Only(ps, K), n + Cardinality(K), w)
    <3> HIDE DEF D, K, t
    <3> QED BY <2>2, <2>3, ConcatHolds
  <2>5. \A p \in People : w[p] = u[p]
    BY <1>0, <1>5 DEF Given, After
  <2>6. Holds(list \o Only(ps, K), n + Cardinality(K), u)
    <3> HIDE DEF K, w, u
    <3> QED BY <2>4, <2>5, HoldsEqual
  <2>7. Updated(list, action, ps) = list \o Only(ps, K)
    BY <1>5 DEF Updated
  <2>8. u \in RolesType
    BY <1>4, <1>5 DEF Given, After, RolesType, Roles
  <2> HIDE DEF K, u
  <2> QED BY <2>6, <2>7, <2>8 DEF u
<1>6. CASE action = "remove"
  <2> DEFINE K == {i \in DOMAIN list : ~Has(ps, list[i].id)}
             w == [p \in People |-> IF p \in ids THEN Gone ELSE st[p]]
  <2>1. K = {i \in DOMAIN list : list[i].id \notin ids}
    BY <1>1, <1>3
  <2>2. Holds(Only(list, K), Cardinality(K), w)
    <3> HIDE DEF K
    <3> QED BY <2>1, OnlyHolds
  <2>5. \A p \in People : w[p] = u[p]
    BY <1>6 DEF Given, After
  <2>6. Holds(Only(list, K), Cardinality(K), u)
    <3> HIDE DEF K, w, u
    <3> QED BY <2>2, <2>5, HoldsEqual
  <2>7. Updated(list, action, ps) = Only(list, K)
    BY <1>6 DEF Updated
  <2>8. u \in RolesType
    BY <1>4, <1>6 DEF Given, After, RolesType
  <2> HIDE DEF K, u
  <2> QED BY <2>6, <2>7, <2>8 DEF u
<1>7. CASE action \in {"promote", "demote"}
  <2> DEFINE role == IF action = "promote" THEN "admin" ELSE "member"
             admin == IF role = "admin" THEN "admin" ELSE None
             w == [p \in People |-> IF p \in ids /\ st[p] # Gone THEN role ELSE st[p]]
  <2>1. role \in {"member", "admin"}
    OBVIOUS
  <2>2. \A p \in ids : st[p] # "superadmin"
    BY <1>7
  <2>3. Holds(WithAdmin(list, ps, admin), n, w)
    <3> HIDE DEF role
    <3> QED BY <1>1, <2>1, <2>2, WithAdminHolds
  <2>4. Updated(list, action, ps) = WithAdmin(list, ps, admin)
    <3>1. CASE action = "promote"
      BY <3>1 DEF Updated
    <3>2. CASE action = "demote"
      BY <3>2 DEF Updated
    <3> QED BY <1>7, <3>1, <3>2
  <2>5. \A p \in People : w[p] = u[p]
    <3>1. CASE action = "promote"
      BY <3>1 DEF Given, After
    <3>2. CASE action = "demote"
      BY <3>2 DEF Given, After
    <3> QED BY <1>7, <3>1, <3>2
  <2>6. Holds(WithAdmin(list, ps, admin), n, u)
    <3> HIDE DEF w, u, admin
    <3> QED BY <2>3, <2>5, HoldsEqual
  <2>7. u \in RolesType
    <3>1. \A p \in People : w[p] \in Roles \cup {Gone}
      BY <1>4 DEF Roles
    <3> QED BY <2>5, <3>1 DEF Given, RolesType
  <2> HIDE DEF u, admin
  <2> QED BY <2>4, <2>6, <2>7 DEF u
<1> QED BY <1>5, <1>6, <1>7 DEF ParticipantActions

-----------------------------------------------------------------------------
\* What a request of an operation has.
LEMMA RequestIs ==
  ASSUME NEW r \in RequestType
  PROVE  /\ r.op \in {"metadata", "create", "subject", "description", "announce", "not_announce",
                      "locked", "unlocked", "invite", "revoke", "accept", "leave"} \cup ParticipantActions
         /\ r.op \in ParticipantActions => r.ids \in SUBSET People
         /\ r.op = "create" => r.ids \in SUBSET Members /\ r.text \in Texts
<1>1. /\ \A a \in CreateGroup : a.op = "create" /\ a.ids \in SUBSET Members /\ a.text \in Texts
      /\ \A a \in UpdateParticipants : a.op \in ParticipantActions /\ a.ids \in SUBSET People
      /\ \A a \in UpdateGroupSubject : a.op = "subject"
      /\ \A a \in UpdateGroupDescription : a.op = "description"
      /\ \A a \in SetGroupAnnounce : a.op \in {"announce", "not_announce"}
      /\ \A a \in SetGroupRestrict : a.op \in {"locked", "unlocked"}
      /\ \A a \in [op : {"accept"}, code : Nat \ {0}] : a.op = "accept"
  BY DEF CreateGroup, UpdateParticipants, UpdateGroupSubject, UpdateGroupDescription,
         SetGroupAnnounce, SetGroupRestrict
<1>2. /\ \A a \in GetGroupMetadata : a.op = "metadata"
      /\ \A a \in GetGroupInviteCode : a.op = "invite"
      /\ \A a \in RevokeGroupInviteCode : a.op = "revoke"
      /\ \A a \in LeaveGroup : a.op = "leave"
  BY DEF GetGroupMetadata, GetGroupInviteCode, RevokeGroupInviteCode, LeaveGroup
<1>3. "create" \notin ParticipantActions /\ "subject" \notin ParticipantActions
      /\ "description" \notin ParticipantActions /\ "announce" \notin ParticipantActions
      /\ "not_announce" \notin ParticipantActions /\ "locked" \notin ParticipantActions
      /\ "unlocked" \notin ParticipantActions /\ "accept" \notin ParticipantActions
      /\ "metadata" \notin ParticipantActions /\ "invite" \notin ParticipantActions
      /\ "revoke" \notin ParticipantActions /\ "leave" \notin ParticipantActions
  BY DEF ParticipantActions
<1> QED BY <1>1, <1>2, <1>3 DEF RequestType

-----------------------------------------------------------------------------
(* Metadata that follow the group.                                          *)

\* What the store has of x, if it has the metadata mine with the roles st, is v.
Agrees(x, v, mine, st) ==
    CASE x.kind = "role"        -> st[x.of] = v
      [] x.kind = "locked"      -> mine.restrictedInviteOnly = v
      [] x.kind = "announce"    -> mine.announce = v
      [] x.kind = "subject"     -> SameText(v, mine.subject)
      [] x.kind = "description" -> SameText(v, mine.description)

\* It is a value that x had after at least n changes.
Current(l, g, n, mine, st, x) ==
    \E s \in n .. Len(l) : \E v : At(l, g, s, x, v) /\ Agrees(x, v, mine, st)

\* So it is of all the store has, n being the next change to come.
FollowsWith(l, g, n, mine, st) ==
    /\ HasFields(mine)
    /\ st \in RolesType
    /\ \E k : Holds(mine.participants, k, st)
    /\ \A x \in Things : Current(l, g, n - 1, mine, st, x)

Follows(l, g, n, mine) == \E st : FollowsWith(l, g, n, mine, st)

\* It remains so when the group changes.
LEMMA FollowsGrows ==
  ASSUME NEW S, NEW l \in Seq(S), NEW e \in S, NEW g, NEW h, Follow(l, g, e, h),
         NEW n \in 1 .. Len(l) + 1, NEW mine, Follows(l, g, n, mine)
  PROVE  Follows(Append(l, e), h, n, mine)
<1>1. PICK st : FollowsWith(l, g, n, mine, st)
  BY DEF Follows
<1>2. Len(l) \in Nat /\ Len(Append(l, e)) = Len(l) + 1
  BY Grown
<1>3. ASSUME NEW x \in Things PROVE Current(Append(l, e), h, n - 1, mine, st, x)
  <2>1. PICK s \in n - 1 .. Len(l) : \E v : At(l, g, s, x, v) /\ Agrees(x, v, mine, st)
    BY <1>1 DEF FollowsWith, Current
  <2>2. PICK v : At(l, g, s, x, v) /\ Agrees(x, v, mine, st)
    BY <2>1
  <2>3. s \in 0 .. Len(l) /\ s \in n - 1 .. Len(Append(l, e))
    BY <1>2
  <2>4. At(Append(l, e), h, s, x, v)
    BY <2>2, <2>3, AtGrows
  <2> QED BY <2>2, <2>3, <2>4 DEF Current
<1>4. FollowsWith(Append(l, e), h, n, mine, st)
  BY <1>1, <1>3 DEF FollowsWith
<1> QED BY <1>4 DEF Follows

\* It remains so when changes are to come again.
LEMMA FollowsBack ==
  ASSUME NEW l, NEW g, NEW n \in Nat, NEW m \in 1..n, NEW mine, Follows(l, g, n, mine), Len(l) \in Nat
  PROVE  Follows(l, g, m, mine)
<1>1. PICK st : FollowsWith(l, g, n, mine, st)
  BY DEF Follows
<1>2. n - 1 .. Len(l) \subseteq m - 1 .. Len(l)
  OBVIOUS
<1>3. \A x \in Things : Current(l, g, m - 1, mine, st, x)
  BY <1>1, <1>2 DEF FollowsWith, Current
<1>4. FollowsWith(l, g, m, mine, st)
  BY <1>1, <1>3 DEF FollowsWith
<1> QED BY <1>4 DEF Follows

\* Roles of people as a function on all of them.
LEMMA RolesOfType ==
  ASSUME NEW g \in GroupType
  PROVE  /\ RolesOf(g.members) \in RolesType
         /\ \A p \in People : RolesOf(g.members)[p] = RoleIn(g, p)
<1>1. AreRoles(g.members)
  BY DEF GroupType, MembersType
<1> QED BY <1>1 DEF RolesOf, RolesType, RoleIn, AreRoles

\* What mirrors a group has its values.
LEMMA MirrorsAgree ==
  ASSUME NEW g \in GroupType, NEW mine, Mirrors(g, mine), NEW x \in Things
  PROVE  Agrees(x, Value(g, x), mine, RolesOf(g.members))
<1>1. CASE x.kind = "role"
  <2>1. x.of \in People
    BY <1>1 DEF Things
  <2> QED BY <1>1, <2>1, RolesOfType DEF Agrees, Value
<1>2. CASE x.kind \in {"locked", "announce", "subject", "description"}
  BY <1>2 DEF Agrees, Value, Mirrors
<1> QED BY <1>1, <1>2 DEF Things

\* Metadata of the group as it was after s changes follow it from there.
LEMMA FollowsFrom ==
  ASSUME NEW l, NEW g, NEW h \in GroupType, NEW mine, Mirrors(h, mine),
         Len(l) \in Nat, NEW s \in 0..Len(l), NEW n \in 1..s + 1,
         \A x \in Things : At(l, g, s, x, Value(h, x))
  PROVE  Follows(l, g, n, mine)
<1> DEFINE st == RolesOf(h.members)
<1>1. HasFields(mine) /\ \E k : Holds(mine.participants, k, st)
  BY DEF Mirrors
<1>2. st \in RolesType
  BY RolesOfType
<1>3. ASSUME NEW x \in Things PROVE Current(l, g, n - 1, mine, st, x)
  <2>1. Agrees(x, Value(h, x), mine, st)
    BY MirrorsAgree
  <2>2. At(l, g, s, x, Value(h, x))
    OBVIOUS
  <2>3. s \in n - 1 .. Len(l)
    OBVIOUS
  <2> HIDE DEF st
  <2> QED BY <2>1, <2>2, <2>3 DEF Current
<1> HIDE DEF st
<1>4. FollowsWith(l, g, n, mine, st)
  BY <1>1, <1>2, <1>3 DEF FollowsWith
<1> QED BY <1>4 DEF Follows

\* When all changes have come the store has the group.
LEMMA FollowsToEnd ==
  ASSUME NEW l, NEW g \in GroupType, NEW mine, NEW n \in Nat, Len(l) = n, Follows(l, g, n + 1, mine)
  PROVE  SameGroup(g, mine)
<1>1. PICK st : FollowsWith(l, g, n + 1, mine, st)
  BY DEF Follows
<1>2. \A x \in Things : Agrees(x, Value(g, x), mine, st)
  <2> TAKE x \in Things
  <2>1. Current(l, g, n + 1 - 1, mine, st, x)
    BY <1>1 DEF FollowsWith
  <2>2. PICK s \in n .. n : \E v : At(l, g, s, x, v) /\ Agrees(x, v, mine, st)
    BY <2>1 DEF Current
  <2>3. PICK v : At(l, g, n, x, v) /\ Agrees(x, v, mine, st)
    BY <2>2
  <2>4. v = Value(g, x)
    BY SMTT(30), <2>3, AtEnd
  <2> QED BY <2>3, <2>4
<1>3. \A p \in People : st[p] = RolesOf(g.members)[p]
  <2> TAKE p \in People
  <2> DEFINE x == [kind |-> "role", of |-> p]
  <2>1. x \in Things /\ x.kind = "role" /\ x.of = p
    BY DEF Things
  <2> HIDE DEF x
  <2>2. st[p] = RoleIn(g, p)
    BY <1>2, <2>1 DEF Agrees, Value
  <2> QED BY <2>2, RolesOfType
<1>4. PICK k : Holds(mine.participants, k, st)
  BY <1>1 DEF FollowsWith
<1>5. Holds(mine.participants, k, RolesOf(g.members))
  BY <1>3, <1>4, HoldsEqual
<1>6. AreRoles(g.members)
  BY DEF GroupType, MembersType
<1>7. /\ Len(mine.participants) = Cardinality(DOMAIN g.members)
      /\ ToSet(mine.participants) = {Participant(p, g.members[p]) : p \in DOMAIN g.members}
  BY <1>5, <1>6, HoldsSame
<1>8. mine.restrictedInviteOnly = g.locked
  <2>1. [kind |-> "locked"] \in Things
    BY DEF Things
  <2> QED BY <1>2, <2>1 DEF Agrees, Value
<1>9. mine.announce = g.announce
  <2>1. [kind |-> "announce"] \in Things
    BY DEF Things
  <2> QED BY <1>2, <2>1 DEF Agrees, Value
<1>10. SameText(g.subject, mine.subject)
  <2>1. [kind |-> "subject"] \in Things
    BY DEF Things
  <2> QED BY <1>2, <2>1 DEF Agrees, Value
<1>11. SameText(g.description, mine.description)
  <2>1. [kind |-> "description"] \in Things
    BY DEF Things
  <2> QED BY <1>2, <2>1 DEF Agrees, Value
<1> QED BY <1>7, <1>8, <1>9, <1>10, <1>11 DEF SameGroup

-----------------------------------------------------------------------------
\* The action of the update that tells of a change of participants.
ActionOf(op) ==
    CASE op \in ParticipantActions -> op
      [] op = "accept" -> "add"
      [] op = "leave"  -> "remove"

\* Metadata are brought up to date with the change e.
UpToDateWith(e, mine, st, mine2, st2) ==
    /\ HasFields(mine2)
    /\ st2 \in RolesType
    /\ \E k : Holds(mine2.participants, k, st2)
    /\ \A p \in People : st2[p] = IF p \in Concerned(e) THEN After(ActionOf(e.r.op), st[p]) ELSE st[p]
    /\ \A x \in Things : x.kind # "role" =>
          /\ Sets(e, x) => Agrees(x, New(e, x), mine2, st2)
          /\ ~Sets(e, x) => \A v : Agrees(x, v, mine, st) => Agrees(x, v, mine2, st2)

\* Nobody is raised or lowered whom the store has for a superadmin.
LEMMA NotSuper ==
  ASSUME NEW l, NEW g, NEW i \in Nat \ {0}, Len(l) \in Nat, i <= Len(l), NEW mine, NEW st,
         NEW x \in Things, Current(l, g, i - 1, mine, st, x), Raises(l[i], x)
  PROVE  st[x.of] # "superadmin"
<1>1. x.kind = "role" /\ l[i].r.op \in {"promote", "demote"} /\ x.of \in l[i].r.ids
  BY DEF Raises
<1>2. PICK s \in i - 1 .. Len(l) : \E v : At(l, g, s, x, v) /\ Agrees(x, v, mine, st)
  BY DEF Current
<1>3. PICK v : At(l, g, s, x, v) /\ Agrees(x, v, mine, st)
  BY <1>2
<1>4. st[x.of] = v
  BY <1>1, <1>3 DEF Agrees
<1>5. SUFFICES ASSUME v = "superadmin" PROVE FALSE
  BY <1>4
<1>6. \A j \in 1..s : ~Raises(l[j], x)
  BY <1>1, <1>3, <1>5 DEF At
<1>7. s = i - 1
  BY <1>6
<1>8. Sets(l[i], x)
  BY <1>1 DEF Sets, Concerned, ParticipantActions
<1>9. Fits(l[i], x, v)
  <2>1. i \in s + 1 .. Len(l) /\ s + 1 .. i - 1 = {}
    BY <1>7
  <2> QED BY <1>3, <1>8, <2>1 DEF At
<1> QED BY <1>1, <1>5, <1>9 DEF Fits

\* The metadata follow the group beyond a change that they are brought up to date with.
LEMMA FollowsNext ==
  ASSUME NEW l, NEW g, ServerInv(l, g), NEW i \in 1..Len(l), l[i].r.op # "create",
         NEW mine, NEW st, FollowsWith(l, g, i, mine, st),
         NEW mine2, NEW st2, UpToDateWith(l[i], mine, st, mine2, st2)
  PROVE  Follows(l, g, i + 1, mine2)
<1> DEFINE e == l[i]
<1>0. Len(l) \in Nat /\ e \in ChangeType
  BY DEF ServerInv
<1>1. ASSUME NEW x \in Things PROVE Current(l, g, i, mine2, st2, x)
  <2>1. PICK s \in i - 1 .. Len(l) : \E v : At(l, g, s, x, v) /\ Agrees(x, v, mine, st)
    BY DEF FollowsWith, Current
  <2>2. PICK v : At(l, g, s, x, v) /\ Agrees(x, v, mine, st)
    BY <2>1
  <2> HIDE DEF e
  <2>3. ASSUME s = i - 1, Sets(e, x) PROVE Fits(e, x, v)
    <3>1. i \in s + 1 .. Len(l) /\ s + 1 .. i - 1 = {}
      BY <1>0, <2>3
    <3> QED BY <2>2, <2>3, <3>1 DEF At, e
  <2>4. ASSUME Sets(e, x) PROVE At(l, g, i, x, New(e, x))
    BY <2>4 DEF ServerInv, e
  <2>5. ASSUME ~Sets(e, x)
        PROVE  \E t \in i .. Len(l) : At(l, g, t, x, v)
    <3>1. CASE s = i - 1
      <4>1. At(l, g, i, x, v)
        <5>1. ~Raises(e, x)
          BY <2>5 DEF Raises, Sets, Concerned, ParticipantActions
        <5>2. x.kind = "role" /\ v = "superadmin" => \A j \in 1..i : ~Raises(l[j], x)
          <6>1. x.kind = "role" /\ v = "superadmin" => \A j \in 1..s : ~Raises(l[j], x)
            BY <2>2 DEF At
          <6> QED BY <1>0, <3>1, <5>1, <6>1 DEF e
        <5>3. ASSUME NEW j \in i + 1 .. Len(l), Sets(l[j], x), \A k \in i + 1 .. j - 1 : ~Sets(l[k], x)
              PROVE  Fits(l[j], x, v)
          <6>1. j \in s + 1 .. Len(l)
            BY <1>0, <3>1
          <6>2. \A k \in s + 1 .. j - 1 : ~Sets(l[k], x)
            BY <1>0, <2>5, <3>1, <5>3 DEF e
          <6> QED BY <2>2, <5>3, <6>1, <6>2 DEF At
        <5>4. ASSUME \A j \in i + 1 .. Len(l) : ~Sets(l[j], x)
              PROVE  v = Value(g, x)
          <6>1. \A j \in s + 1 .. Len(l) : ~Sets(l[j], x)
            BY <1>0, <2>5, <3>1, <5>4 DEF e
          <6> QED BY <2>2, <6>1 DEF At
        <5> QED BY <5>2, <5>3, <5>4 DEF At
      <4> QED BY <1>0, <4>1
    <3>2. CASE s # i - 1
      BY <1>0, <2>2, <3>2
    <3> QED BY <3>1, <3>2
  <2>6. CASE x.kind = "role"
    <3> DEFINE p == x.of
               w == After(ActionOf(e.r.op), st[p])
    <3>1. p \in People /\ st[p] = v
      BY <2>2, <2>6 DEF Things, Agrees
    <3>2. Sets(e, x) <=> p \in Concerned(e)
      BY <2>6 DEF Sets, e
    <3>3. st2[p] = IF p \in Concerned(e) THEN w ELSE st[p]
      BY <3>1 DEF UpToDateWith, e
    <3>4. \A y : Agrees(x, y, mine2, st2) <=> st2[p] = y
      BY <2>6 DEF Agrees
    <3>5. CASE p \notin Concerned(e)
      BY <2>5, <3>1, <3>2, <3>3, <3>4, <3>5 DEF Current
    <3>6. CASE p \in Concerned(e)
      <4>1. e.r.op \in ParticipantActions \cup {"accept", "leave"}
        BY <3>6 DEF Concerned
      <4>2. New(e, x) = GivenRole(e.r.op)
        BY <2>6 DEF New, e
      <4>3. w \in {v, GivenRole(e.r.op)} /\ (Fits(e, x, v) => w = GivenRole(e.r.op))
        <5>1. CASE e.r.op \in {"add", "accept"}
          <6>1. w = IF v = Gone THEN "member" ELSE v
            BY <3>1, <5>1 DEF After, ActionOf, ParticipantActions
          <6>2. GivenRole(e.r.op) = "member"
            BY <5>1 DEF GivenRole
          <6> QED BY <2>6, <5>1, <6>1, <6>2 DEF Fits
        <5>2. CASE e.r.op \in {"remove", "leave"}
          <6>1. w = Gone
            BY <5>2 DEF After, ActionOf, ParticipantActions
          <6>2. GivenRole(e.r.op) = Gone
            BY <5>2 DEF GivenRole
          <6> QED BY <6>1, <6>2
        <5>3. CASE e.r.op = "promote"
          <6>1. w = IF v = Gone THEN Gone ELSE "admin"
            BY <3>1, <5>3 DEF After, ActionOf, ParticipantActions
          <6>2. GivenRole(e.r.op) = "admin"
            BY <5>3 DEF GivenRole
          <6> QED BY <2>6, <5>3, <6>1, <6>2 DEF Fits, Gone
        <5>4. CASE e.r.op = "demote"
          <6>1. w = IF v = Gone THEN Gone ELSE "member"
            BY <3>1, <5>4 DEF After, ActionOf, ParticipantActions
          <6>2. GivenRole(e.r.op) = "member"
            BY <5>4 DEF GivenRole
          <6> QED BY <2>6, <5>4, <6>1, <6>2 DEF Fits, Gone
        <5> QED BY <4>1, <5>1, <5>2, <5>3, <5>4 DEF ParticipantActions
      <4>4. CASE w = GivenRole(e.r.op)
        <5>1. At(l, g, i, x, w)
          BY <2>4, <3>2, <3>6, <4>2, <4>4
        <5>2. i \in i .. Len(l)
          BY <1>0
        <5> HIDE DEF w
        <5> QED BY <3>3, <3>4, <3>6, <5>1, <5>2 DEF Current
      <4>5. CASE w # GivenRole(e.r.op)
        <5>1. w = v /\ s # i - 1
          BY <2>3, <3>2, <3>6, <4>3, <4>5
        <5>2. s \in i .. Len(l)
          BY <1>0, <5>1
        <5> HIDE DEF w
        <5> QED BY <2>2, <3>3, <3>4, <3>6, <5>1, <5>2 DEF Current
      <4> QED BY <4>4, <4>5
    <3> QED BY <3>5, <3>6
  <2>7. CASE x.kind # "role"
    <3>1. /\ Sets(e, x) => Agrees(x, New(e, x), mine2, st2)
          /\ ~Sets(e, x) => \A y : Agrees(x, y, mine, st) => Agrees(x, y, mine2, st2)
      BY <2>7 DEF UpToDateWith, e
    <3>2. i \in i .. Len(l)
      BY <1>0
    <3>3. CASE Sets(e, x)
      BY <2>4, <3>1, <3>2, <3>3 DEF Current
    <3>4. CASE ~Sets(e, x)
      <4>1. Agrees(x, v, mine2, st2)
        BY <2>2, <3>1, <3>4
      <4> QED BY <2>5, <3>4, <4>1 DEF Current
    <3> QED BY <3>3, <3>4
  <2> QED BY <2>6, <2>7
<1>2. i + 1 - 1 = i
  OBVIOUS
<1>3. FollowsWith(l, g, i + 1, mine2, st2)
  BY <1>1, <1>2 DEF FollowsWith, UpToDateWith
<1> QED BY <1>3 DEF Follows

-----------------------------------------------------------------------------
(* What the handler makes of each notification.                             *)

\* What is read in a notification with one child.
LEMMA OneNotified ==
  ASSUME NEW node, NEW c, node.kind = "nodes", node.content = <<c>>, c.tag \in KnownTags
  PROVE  /\ c.tag \in ParticipantActions =>
              ParseGroupNotification(node) = <<[type |-> "participant-update", action |-> c.tag,
                                                participants |-> ParseParticipants(c)]>>
         /\ c.tag = "subject" =>
              ParseGroupNotification(node) = <<[type |-> "subject", subject |-> TextOf(c, "")]>>
         /\ c.tag = "description" =>
              ParseGroupNotification(node) = <<[type |-> "description", description |->
                    IF HasChild(c, "body") THEN TextOf(GetChild(c, "body"), "") ELSE ""]>>
         /\ c.tag = "invite" =>
              ParseGroupNotification(node) = <<[type |-> "invite", code |-> Attr(c, "code", "")]>>
         /\ c.tag \in Settings => ParseGroupNotification(node) = <<[type |-> c.tag]>>
<1> DEFINE K == {i \in DOMAIN GetAllChildren(node) : GetAllChildren(node)[i].tag \in KnownTags}
<1>1. GetAllChildren(node) = <<c>>
  BY DEF GetAllChildren
<1>2. K = {1}
  BY <1>1
<1>3. Min(K) = 1
  BY <1>2 DEF Min
<1>4. GetAllChildren(node)[Min(K)] = c /\ K # {}
  BY <1>1, <1>2, <1>3
<1> DEFINE read ==
             CASE c.tag \in ParticipantActions ->
                    [type |-> "participant-update", action |-> c.tag,
                     participants |-> ParseParticipants(c)]
               [] c.tag = "subject" ->
                    [type |-> "subject", subject |-> TextOf(c, "")]
               [] c.tag = "description" ->
                    [type |-> "description", description |->
                        IF HasChild(c, "body") THEN TextOf(GetChild(c, "body"), "") ELSE ""]
               [] c.tag = "create" ->
                    [type |-> "create", metadata |-> ParseGroupMetadata(node)]
               [] c.tag = "invite" ->
                    [type |-> "invite", code |-> Attr(c, "code", "")]
               [] c.tag \in Settings -> [type |-> c.tag]
<1>5. ParseGroupNotification(node) = <<read>>
  BY <1>4 DEF ParseGroupNotification
<1> HIDE DEF K
<1>6. CASE c.tag \in ParticipantActions
  <2>1. read = [type |-> "participant-update", action |-> c.tag, participants |-> ParseParticipants(c)]
    BY <1>6 DEF ParticipantActions, Settings
  <2>2. c.tag \notin {"subject", "description", "invite"} \cup Settings
    BY <1>6 DEF ParticipantActions, Settings
  <2> HIDE DEF read
  <2> QED BY <1>5, <2>1, <2>2
<1>7. CASE c.tag = "subject"
  <2>1. read = [type |-> "subject", subject |-> TextOf(c, "")]
    BY <1>7 DEF ParticipantActions, Settings
  <2>2. c.tag \notin {"description", "invite"} \cup Settings \cup ParticipantActions
    BY <1>7 DEF ParticipantActions, Settings
  <2> HIDE DEF read
  <2> QED BY <1>5, <2>1, <2>2
<1>8. CASE c.tag = "description"
  <2> DEFINE text == IF HasChild(c, "body") THEN TextOf(GetChild(c, "body"), "") ELSE ""
  <2>1. read = [type |-> "description", description |-> text]
    BY <1>8 DEF ParticipantActions, Settings
  <2>2. c.tag \notin {"subject", "invite"} \cup Settings \cup ParticipantActions
    BY <1>8 DEF ParticipantActions, Settings
  <2> HIDE DEF read
  <2> QED BY <1>5, <2>1, <2>2
<1>9. CASE c.tag = "invite"
  <2>1. read = [type |-> "invite", code |-> Attr(c, "code", "")]
    BY <1>9 DEF ParticipantActions, Settings
  <2>2. c.tag \notin {"subject", "description"} \cup Settings \cup ParticipantActions
    BY <1>9 DEF ParticipantActions, Settings
  <2> HIDE DEF read
  <2> QED BY <1>5, <2>1, <2>2
<1>10. CASE c.tag \in Settings
  <2>1. read = [type |-> c.tag]
    BY <1>10 DEF ParticipantActions, Settings
  <2>2. c.tag \notin {"subject", "description", "invite"} \cup ParticipantActions
    BY <1>10 DEF ParticipantActions, Settings
  <2> HIDE DEF read
  <2> QED BY <1>5, <2>1, <2>2
<1>11. CASE c.tag = "create"
  BY <1>11 DEF ParticipantActions, Settings
<1> QED BY <1>6, <1>7, <1>8, <1>9, <1>10, <1>11 DEF KnownTags

\* What the listeners of the store make of each.
LEMMA EmittedIs ==
  ASSUME NEW mine, HasFields(mine), known = <<mine>>, NEW n, Emitted(n)
  PROVE  /\ n.type = "participant-update" =>
              known' = <<[mine EXCEPT !.participants = Updated(mine.participants, n.action, n.participants)]>>
         /\ n.type = "subject" => known' = <<Spread(mine, [subject |-> n.subject])>>
         /\ n.type = "description" => known' = <<Spread(mine, [description |-> n.description])>>
         /\ n.type = "invite" => known' = <<Spread(mine, [inviteCode |-> n.code])>>
         /\ n.type \in {"locked", "unlocked"} =>
              known' = <<Spread(mine, [restrictedInviteOnly |-> n.type = "locked"])>>
         /\ n.type \in {"announce", "not_announce"} =>
              known' = <<Spread(mine, [announce |-> n.type = "announce"])>>
<1>1. DOMAIN known = {1} /\ known[1] = mine
  OBVIOUS
<1>2. ASSUME NEW u, GroupsUpdate(u) PROVE known' = <<Spread(mine, u)>>
  <2>1. known' = [i \in {1} |-> Spread(known[i], u)]
    BY <1>1, <1>2 DEF GroupsUpdate
  <2> QED BY <1>1, <2>1
<1>3. CASE n.type = "participant-update"
  <2>1. ParticipantsUpdate(n)
    BY <1>3 DEF Emitted
  <2> DEFINE new(one) == [one EXCEPT !.participants = Updated(one.participants, n.action, n.participants)]
  <2>2. known' = [i \in {1} |-> new(known[i])]
    BY <1>1, <2>1 DEF ParticipantsUpdate
  <2>3. known' = <<new(mine)>>
    <3> HIDE DEF new
    <3> QED BY <1>1, <2>2
  <2> QED BY <1>3, <2>3
<1>4. CASE n.type = "subject"
  <2>1. GroupsUpdate([subject |-> n.subject])
    BY <1>4 DEF Emitted
  <2> QED BY <1>2, <1>4, <2>1
<1>5. CASE n.type = "description"
  <2>1. GroupsUpdate([description |-> n.description])
    BY <1>5 DEF Emitted
  <2> QED BY <1>2, <1>5, <2>1
<1>6. CASE n.type = "invite"
  <2>1. GroupsUpdate([inviteCode |-> n.code])
    BY <1>6 DEF Emitted
  <2> QED BY <1>2, <1>6, <2>1
<1>7. CASE n.type \in {"locked", "unlocked"}
  <2>1. GroupsUpdate([restrictedInviteOnly |-> n.type = "locked"])
    BY <1>7 DEF Emitted
  <2> QED BY <1>2, <1>7, <2>1
<1>8. CASE n.type \in {"announce", "not_announce"}
  <2>1. GroupsUpdate([announce |-> n.type = "announce"])
    BY <1>8 DEF Emitted
  <2> QED BY <1>2, <1>8, <2>1
<1> QED BY <1>3, <1>4, <1>5, <1>6, <1>7, <1>8

\* Those whom a notification names.
LEMMA NamedAreRead ==
  ASSUME NEW ids \in SUBSET People, NEW tag
  PROVE  \E n : Holds(ParseParticipants(Node(tag, NoAttrs, ParticipantNodes([k \in ids |-> "member"]))),
                      n, Named(ids))
<1> DEFINE members == [k \in ids |-> "member"]
           c == Node(tag, NoAttrs, ParticipantNodes(members))
           n == Cardinality(DOMAIN members)
<1>1. AreRoles(members)
  BY DEF AreRoles, Roles
<1>2. GetAllChildren(c) = ParticipantNodes(members)
  BY DEF Node, GetAllChildren
<1>3. Named(ids) = RolesOf(members)
  BY DEF Named
<1> HIDE DEF members, c
<1>4. PICK ps : AllListed(ParticipantNodes(members), members, ps, n)
  BY <1>1, AllAreListed
<1>5. IsSeq(ParticipantNodes(members), n) /\ n \in Nat
  BY <1>4 DEF AllListed, IsSeq
<1>6. Holds(ParseParticipants(c), n, RolesOf(members))
  BY <1>1, <1>2, <1>5, ParticipantsAreRead
<1> QED BY <1>3, <1>6 DEF c, members

-----------------------------------------------------------------------------
\* The node that names the people of an update.
NamedNode(tag, ids) == Node(tag, NoAttrs, ParticipantNodes([k \in ids |-> "member"]))

\* One person as a set.
Alone(p) == {p}

\* The store gets the notification of the change e.
Handles(e) == Emitted(ParseGroupNotification(NotificationNode(e.r, e.by))[1])

\* An update of participants.
LEMMA PeopleUpdated ==
  ASSUME NEW e \in ChangeType, e.r.op \in ParticipantActions \cup {"accept", "leave"},
         NEW mine, HasFields(mine), NEW st \in RolesType, NEW n, Holds(mine.participants, n, st),
         e.r.op \in {"promote", "demote"} => \A p \in Concerned(e) : st[p] # "superadmin",
         known = <<mine>>, Handles(e)
  PROVE  \E mine2, st2 : known' = <<mine2>> /\ UpToDateWith(e, mine, st, mine2, st2)
<1> DEFINE ids == Concerned(e)
           action == ActionOf(e.r.op)
           c == NamedNode(action, ids)
           node == NotificationNode(e.r, e.by)
           ps == ParseParticipants(c)
           list == Updated(mine.participants, action, ps)
           mine2 == [mine EXCEPT !.participants = list]
           st2 == Given(st, ids, action)
<1>1. e.r \in RequestType /\ e.by \in People
  BY DEF ChangeType
<1>2. /\ ids \in SUBSET People
      /\ action \in ParticipantActions
      /\ action \in {"promote", "demote"} => e.r.op = action
      /\ node.kind = "nodes" /\ node.content = <<c>>
  <2>1. CASE e.r.op \in ParticipantActions
    <3>1. ids = e.r.ids /\ action = e.r.op
      BY <2>1 DEF Concerned, ActionOf, ParticipantActions
    <3>2. ids \in SUBSET People
      BY <1>1, <2>1, <3>1, RequestIs
    <3>3. node.kind = "nodes" /\ node.content = <<NamedNode(e.r.op, e.r.ids)>>
      BY <2>1 DEF NotificationNode, Node, NamedNode, Alone, ParticipantActions, Settings
    <3> HIDE DEF ids, action, node
    <3> QED BY <2>1, <3>1, <3>2, <3>3
  <2>2. CASE e.r.op = "accept"
    <3>1. ids = Alone(e.by) /\ action = "add"
      BY <2>2 DEF Concerned, ActionOf, ParticipantActions, Alone
    <3>3. node.kind = "nodes" /\ node.content = <<NamedNode("add", Alone(e.by))>>
      BY <2>2 DEF NotificationNode, Node, NamedNode, Alone, ParticipantActions, Settings
    <3> HIDE DEF ids, action, node
    <3>4. action \in ParticipantActions /\ (action \in {"promote", "demote"} => e.r.op = action)
      BY <3>1 DEF ParticipantActions
    <3>5. node.kind = "nodes" /\ node.content = <<c>>
      BY <3>1, <3>3
    <3>6. ids \in SUBSET People
      BY <1>1, <3>1 DEF Alone
    <3> QED BY <3>4, <3>5, <3>6
  <2>3. CASE e.r.op = "leave"
    <3>1. ids = Alone(e.by) /\ action = "remove"
      BY <2>3 DEF Concerned, ActionOf, ParticipantActions, Alone
    <3>3. node.kind = "nodes" /\ node.content = <<NamedNode("remove", Alone(e.by))>>
      BY <2>3 DEF NotificationNode, Node, NamedNode, Alone, ParticipantActions, Settings
    <3> HIDE DEF ids, action, node
    <3>4. action \in ParticipantActions /\ (action \in {"promote", "demote"} => e.r.op = action)
      BY <3>1 DEF ParticipantActions
    <3>5. node.kind = "nodes" /\ node.content = <<c>>
      BY <3>1, <3>3
    <3>6. ids \in SUBSET People
      BY <1>1, <3>1 DEF Alone
    <3> QED BY <3>4, <3>5, <3>6
  <2> QED BY <2>1, <2>2, <2>3
<1>3. c.tag = action
  BY DEF Node, NamedNode
<1>4. PICK m : Holds(ps, m, Named(ids))
  BY <1>2, NamedAreRead DEF NamedNode
<1> HIDE DEF ids, action, c, node
<1>5. ParseGroupNotification(node) =
         <<[type |-> "participant-update", action |-> action, participants |-> ps]>>
  <2>1. c.tag \in KnownTags
    BY <1>2, <1>3 DEF KnownTags
  <2> QED BY <1>2, <1>3, <2>1, OneNotified
<1>6. known' = <<mine2>>
  <2> DEFINE u == [type |-> "participant-update", action |-> action, participants |-> ps]
  <2>1. Emitted(u)
    BY <1>5 DEF Handles, node
  <2>2. u.type = "participant-update" /\ u.action = action /\ u.participants = ps
    OBVIOUS
  <2> HIDE DEF u, ps
  <2>3. known' = <<[mine EXCEPT !.participants = Updated(mine.participants, u.action, u.participants)]>>
    BY <2>1, <2>2, EmittedIs
  <2> QED BY <2>2, <2>3
<1>7. (\E k : Holds(list, k, st2)) /\ st2 \in RolesType
  <2>1. action \in {"promote", "demote"} => \A p \in ids : st[p] # "superadmin"
    BY <1>2 DEF ids
  <2> HIDE DEF ps
  <2> QED BY <1>2, <1>4, <2>1, UpdatedHolds
<1>8. \A p \in People : st2[p] = IF p \in Concerned(e) THEN After(ActionOf(e.r.op), st[p]) ELSE st[p]
  BY DEF Given, ids, action
<1>9. /\ HasFields(mine2)
      /\ mine2.participants = list
      /\ mine2.announce = mine.announce /\ mine2.restrictedInviteOnly = mine.restrictedInviteOnly
      /\ mine2.subject = mine.subject /\ mine2.description = mine.description
  <2> HIDE DEF list
  <2> QED BY DEF HasFields, Fields
<1> HIDE DEF mine2, list, st2
<1>10. ASSUME NEW x \in Things, x.kind # "role"
       PROVE  /\ ~Sets(e, x)
              /\ \A v : Agrees(x, v, mine, st) => Agrees(x, v, mine2, st2)
  <2>1. x.kind \in {"locked", "announce", "subject", "description"}
    BY <1>10 DEF Things
  <2>2. ~Sets(e, x)
    BY <2>1 DEF Sets, ParticipantActions
  <2> QED BY <1>9, <2>1, <2>2 DEF Agrees
<1>11. UpToDateWith(e, mine, st, mine2, st2)
  BY <1>7, <1>8, <1>9, <1>10 DEF UpToDateWith
<1> QED BY <1>6, <1>11

\* Overwriting some fields leaves the others.
LEMMA SpreadIs ==
  ASSUME NEW mine, HasFields(mine), NEW u
  PROVE  /\ HasFields(Spread(mine, u))
         /\ \A f \in DOMAIN u : Spread(mine, u)[f] = u[f]
         /\ \A f \in Fields \ DOMAIN u : Spread(mine, u)[f] = mine[f]
BY DEF HasFields, Spread

\* Metadata in which the values that a change sets are overwritten, and no roles.
LEMMA FieldsUpdated ==
  ASSUME NEW e \in ChangeType, Concerned(e) = {},
         NEW mine, HasFields(mine), NEW st \in RolesType, NEW n, Holds(mine.participants, n, st),
         NEW u, "participants" \notin DOMAIN u,
         \A x \in Things : Sets(e, x) => x.kind # "role" /\ Agrees(x, New(e, x), Spread(mine, u), st),
         \A x \in Things : ~Sets(e, x) =>
            /\ x.kind = "locked" => "restrictedInviteOnly" \notin DOMAIN u
            /\ x.kind # "role" /\ x.kind # "locked" => x.kind \notin DOMAIN u
  PROVE  UpToDateWith(e, mine, st, Spread(mine, u), st)
<1> DEFINE mine2 == Spread(mine, u)
<1>1. HasFields(mine2) /\ \A f \in Fields \ DOMAIN u : mine2[f] = mine[f]
  BY SpreadIs
<1> HIDE DEF mine2
<1>2. mine2.participants = mine.participants
  BY <1>1 DEF Fields
<1>3. ASSUME NEW x \in Things, x.kind # "role", ~Sets(e, x), NEW v, Agrees(x, v, mine, st)
      PROVE  Agrees(x, v, mine2, st)
  <2>1. CASE x.kind = "locked"
    <3>1. mine2.restrictedInviteOnly = mine.restrictedInviteOnly
      BY <1>1, <1>3, <2>1 DEF Fields
    <3> QED BY <1>3, <2>1, <3>1 DEF Agrees
  <2>2. CASE x.kind = "announce"
    <3>1. mine2.announce = mine.announce
      BY <1>1, <1>3, <2>2 DEF Fields
    <3> QED BY <1>3, <2>2, <3>1 DEF Agrees
  <2>3. CASE x.kind = "subject"
    <3>1. mine2.subject = mine.subject
      BY <1>1, <1>3, <2>3 DEF Fields
    <3> QED BY <1>3, <2>3, <3>1 DEF Agrees
  <2>4. CASE x.kind = "description"
    <3>1. mine2.description = mine.description
      BY <1>1, <1>3, <2>4 DEF Fields
    <3> QED BY <1>3, <2>4, <3>1 DEF Agrees
  <2> QED BY <1>3, <2>1, <2>2, <2>3, <2>4 DEF Things
<1>4. \A p \in People : st[p] = IF p \in Concerned(e) THEN After(ActionOf(e.r.op), st[p]) ELSE st[p]
  OBVIOUS
<1>5. \A x \in Things : Sets(e, x) => Agrees(x, New(e, x), mine2, st)
  BY DEF mine2
<1>6. \E k : Holds(mine2.participants, k, st)
  BY <1>2
<1>7. UpToDateWith(e, mine, st, mine2, st)
  BY <1>1, <1>3, <1>4, <1>5, <1>6 DEF UpToDateWith
<1> QED BY <1>7 DEF mine2

-----------------------------------------------------------------------------
\* A change of no participant.
LEMMA ConcernsNone ==
  ASSUME NEW e, e.r.op \notin ParticipantActions \cup {"accept", "leave"}
  PROVE  Concerned(e) = {}
BY DEF Concerned

\* An update of a setting.
LEMMA SettingUpdated ==
  ASSUME NEW e \in ChangeType, e.r.op \in Settings,
         NEW mine, HasFields(mine), NEW st \in RolesType, NEW n, Holds(mine.participants, n, st),
         known = <<mine>>, Handles(e)
  PROVE  \E mine2, st2 : known' = <<mine2>> /\ UpToDateWith(e, mine, st, mine2, st2)
<1> DEFINE op == e.r.op
           c == Node(op, NoAttrs, << >>)
           node == NotificationNode(e.r, e.by)
           u == [type |-> op]
<1>1. node.kind = "nodes" /\ node.content = <<c>>
  BY DEF NotificationNode, Node, ParticipantActions, Settings
<1>2. c.tag = op
  BY DEF Node
<1>3. ParseGroupNotification(node) = <<u>>
  <2>1. c.tag \in KnownTags /\ c.tag \in Settings
    BY <1>2 DEF KnownTags
  <2> HIDE DEF c, node
  <2>2. ParseGroupNotification(node) = <<[type |-> c.tag]>>
    BY <1>1, <2>1, OneNotified
  <2> QED BY <1>2, <2>2
<1>4. Emitted(u) /\ u.type = op
  BY <1>3 DEF Handles
<1>5. Concerned(e) = {}
  <2>1. op \notin ParticipantActions \cup {"accept", "leave"}
    BY DEF Settings, ParticipantActions
  <2> QED BY <2>1, ConcernsNone
<1> HIDE DEF node, c, u
<1>6. CASE op \in {"locked", "unlocked"}
  <2> DEFINE w == [restrictedInviteOnly |-> op = "locked"]
             mine2 == Spread(mine, w)
  <2>1. known' = <<mine2>>
    <3>1. known' = <<Spread(mine, [restrictedInviteOnly |-> u.type = "locked"])>>
      BY <1>4, <1>6, EmittedIs
    <3> QED BY <1>4, <3>1
  <2>2. DOMAIN w = {"restrictedInviteOnly"} /\ w.restrictedInviteOnly = (op = "locked")
    OBVIOUS
  <2> HIDE DEF w
  <2>3. mine2.restrictedInviteOnly = (op = "locked")
    <3>1. mine2["restrictedInviteOnly"] = w["restrictedInviteOnly"]
      BY <2>2, SpreadIs
    <3> QED BY <2>2, <3>1
  <2> HIDE DEF mine2
  <2>4. ASSUME NEW x \in Things
        PROVE  Sets(e, x) <=> x.kind = "locked"
    BY <1>5, <1>6 DEF Sets, Things
  <2>5. ASSUME NEW x \in Things, x.kind = "locked"
        PROVE  Agrees(x, New(e, x), mine2, st)
    <3>1. New(e, x) = (op = "locked")
      BY <1>6, <2>5 DEF New
    <3> QED BY <2>3, <2>5, <3>1 DEF Agrees
  <2>6. UpToDateWith(e, mine, st, mine2, st)
    <3>1. "participants" \notin DOMAIN w
      BY <2>2
    <3>2. \A x \in Things : Sets(e, x) => x.kind # "role" /\ Agrees(x, New(e, x), mine2, st)
      BY <2>4, <2>5
    <3>3. \A x \in Things : ~Sets(e, x) =>
             /\ x.kind = "locked" => "restrictedInviteOnly" \notin DOMAIN w
             /\ x.kind # "role" /\ x.kind # "locked" => x.kind \notin DOMAIN w
      BY <2>2, <2>4 DEF Things
    <3> QED BY <1>5, <3>1, <3>2, <3>3, FieldsUpdated DEF mine2
  <2> QED BY <2>1, <2>6
<1>7. CASE op \in {"announce", "not_announce"}
  <2> DEFINE w == [announce |-> op = "announce"]
             mine2 == Spread(mine, w)
  <2>1. known' = <<mine2>>
    <3>1. known' = <<Spread(mine, [announce |-> u.type = "announce"])>>
      BY <1>4, <1>7, EmittedIs
    <3> QED BY <1>4, <3>1
  <2>2. DOMAIN w = {"announce"} /\ w.announce = (op = "announce")
    OBVIOUS
  <2> HIDE DEF w
  <2>3. mine2.announce = (op = "announce")
    <3>1. mine2["announce"] = w["announce"]
      BY <2>2, SpreadIs
    <3> QED BY <2>2, <3>1
  <2> HIDE DEF mine2
  <2>4. ASSUME NEW x \in Things
        PROVE  Sets(e, x) <=> x.kind = "announce"
    BY <1>5, <1>7 DEF Sets, Things
  <2>5. ASSUME NEW x \in Things, x.kind = "announce"
        PROVE  Agrees(x, New(e, x), mine2, st)
    <3>1. New(e, x) = (op = "announce")
      BY <1>7, <2>5 DEF New
    <3> QED BY <2>3, <2>5, <3>1 DEF Agrees
  <2>6. UpToDateWith(e, mine, st, mine2, st)
    <3>1. "participants" \notin DOMAIN w
      BY <2>2
    <3>2. \A x \in Things : Sets(e, x) => x.kind # "role" /\ Agrees(x, New(e, x), mine2, st)
      BY <2>4, <2>5
    <3>3. \A x \in Things : ~Sets(e, x) =>
             /\ x.kind = "locked" => "restrictedInviteOnly" \notin DOMAIN w
             /\ x.kind # "role" /\ x.kind # "locked" => x.kind \notin DOMAIN w
      BY <2>2, <2>4 DEF Things
    <3> QED BY <1>5, <3>1, <3>2, <3>3, FieldsUpdated DEF mine2
  <2> QED BY <2>1, <2>6
<1> QED BY <1>6, <1>7 DEF Settings

\* A text that is read in a node of its own.
LEMMA TextIsRead ==
  ASSUME NEW tag, NEW text
  PROVE  /\ Received(tag, text).tag = tag
         /\ SameText(text, TextOf(Received(tag, text), ""))
BY DEF Received, TextNode, TextOf, SameText

\* An update of a text.
LEMMA TextUpdated ==
  ASSUME NEW e \in ChangeType, NEW kind \in {"subject", "description"}, e.r.op = kind,
         NEW mine, HasFields(mine), NEW st \in RolesType, NEW n, Holds(mine.participants, n, st),
         known = <<mine>>, Handles(e)
  PROVE  \E mine2, st2 : known' = <<mine2>> /\ UpToDateWith(e, mine, st, mine2, st2)
<1> DEFINE node == NotificationNode(e.r, e.by)
<1>1. Concerned(e) = {}
  <2>1. e.r.op \notin ParticipantActions \cup {"accept", "leave"}
    BY DEF ParticipantActions
  <2> QED BY <2>1, ConcernsNone
<1>2. \A x \in Things : Sets(e, x) <=> x.kind = kind
  BY <1>1 DEF Sets, Things
<1>3. \A x \in Things : x.kind = kind => New(e, x) = e.r.text
  BY DEF New
<1>4. CASE kind = "subject"
  <2> DEFINE c == Received("subject", e.r.text)
             u == [type |-> "subject", subject |-> TextOf(c, "")]
             w == [subject |-> TextOf(c, "")]
             mine2 == Spread(mine, w)
  <2>1. node.kind = "nodes" /\ node.content = <<c>>
    <3>1. e.r.op = "subject"
      BY <1>4
    <3> QED BY <3>1 DEF NotificationNode, Node, ParticipantActions, Settings
  <2>2. c.tag = "subject" /\ SameText(e.r.text, TextOf(c, ""))
    BY TextIsRead
  <2> HIDE DEF c
  <2>3. ParseGroupNotification(node) = <<u>>
    <3>1. c.tag \in KnownTags
      BY <2>2 DEF KnownTags
    <3> HIDE DEF node
    <3> QED BY <2>1, <2>2, <3>1, OneNotified
  <2>4. Emitted(u) /\ u.type = "subject" /\ u.subject = TextOf(c, "")
    <3>1. u.type = "subject" /\ u.subject = TextOf(c, "")
      OBVIOUS
    <3> HIDE DEF u
    <3>2. ParseGroupNotification(node)[1] = u
      BY <2>3
    <3> QED BY <3>1, <3>2 DEF Handles
  <2>5. known' = <<mine2>>
    <3> HIDE DEF u
    <3>1. known' = <<Spread(mine, [subject |-> u.subject])>>
      BY <2>4, EmittedIs
    <3> QED BY <2>4, <3>1
  <2>6. DOMAIN w = {"subject"} /\ w.subject = TextOf(c, "")
    OBVIOUS
  <2> HIDE DEF w, u
  <2>7. mine2.subject = TextOf(c, "")
    <3>0. "subject" \in DOMAIN w
      BY <2>6
    <3>1. mine2["subject"] = w["subject"]
      BY <3>0, SpreadIs
    <3> QED BY <2>6, <3>1
  <2> HIDE DEF mine2
  <2>8. UpToDateWith(e, mine, st, mine2, st)
    <3>1. "participants" \notin DOMAIN w
      BY <2>6
    <3>2. \A x \in Things : Sets(e, x) => x.kind # "role" /\ Agrees(x, New(e, x), mine2, st)
      BY <1>2, <1>3, <1>4, <2>2, <2>7 DEF Agrees
    <3>3. \A x \in Things : ~Sets(e, x) =>
             /\ x.kind = "locked" => "restrictedInviteOnly" \notin DOMAIN w
             /\ x.kind # "role" /\ x.kind # "locked" => x.kind \notin DOMAIN w
      BY <1>2, <1>4, <2>6 DEF Things
    <3> QED BY <1>1, <3>1, <3>2, <3>3, FieldsUpdated DEF mine2
  <2> QED BY <2>5, <2>8
<1>5. CASE kind = "description"
  <2> DEFINE b == Received("body", e.r.text)
             c == Node("description", NoAttrs, <<b>>)
             u == [type |-> "description", description |-> TextOf(b, "")]
             w == [description |-> TextOf(b, "")]
             mine2 == Spread(mine, w)
  <2>1. node.kind = "nodes" /\ node.content = <<c>>
    <3>1. e.r.op = "description"
      BY <1>5
    <3> QED BY <3>1 DEF NotificationNode, Node, ParticipantActions, Settings
  <2>2. b.tag = "body" /\ SameText(e.r.text, TextOf(b, ""))
    BY TextIsRead
  <2> HIDE DEF b
  <2>3. c.tag = "description" /\ c.kind = "nodes" /\ c.content = <<b>>
    BY DEF Node
  <2> HIDE DEF c
  <2>4. HasChild(c, "body") /\ GetChild(c, "body") = b
    BY <2>2, <2>3, OnlyChild
  <2>5. ParseGroupNotification(node) = <<u>>
    <3>1. c.tag \in KnownTags
      BY <2>3 DEF KnownTags
    <3>2. (IF HasChild(c, "body") THEN TextOf(GetChild(c, "body"), "") ELSE "") = TextOf(b, "")
      BY <2>4
    <3> DEFINE text == IF HasChild(c, "body") THEN TextOf(GetChild(c, "body"), "") ELSE ""
    <3>3. ParseGroupNotification(node) = <<[type |-> "description", description |-> text]>>
      <4> HIDE DEF node
      <4> QED BY <2>1, <2>3, <3>1, OneNotified
    <3> HIDE DEF text, node
    <3>4. text = TextOf(b, "")
      BY <3>2 DEF text
    <3> QED BY <3>3, <3>4
  <2>6. Emitted(u) /\ u.type = "description" /\ u.description = TextOf(b, "")
    <3>1. u.type = "description" /\ u.description = TextOf(b, "")
      OBVIOUS
    <3> HIDE DEF u
    <3>2. ParseGroupNotification(node)[1] = u
      BY <2>5
    <3> QED BY <3>1, <3>2 DEF Handles
  <2>7. known' = <<mine2>>
    <3> HIDE DEF u
    <3>1. known' = <<Spread(mine, [description |-> u.description])>>
      BY <2>6, EmittedIs
    <3> QED BY <2>6, <3>1
  <2>8. DOMAIN w = {"description"} /\ w.description = TextOf(b, "")
    OBVIOUS
  <2> HIDE DEF w, u
  <2>9. mine2.description = TextOf(b, "")
    <3>0. "description" \in DOMAIN w
      BY <2>8
    <3>1. mine2["description"] = w["description"]
      BY <3>0, SpreadIs
    <3> QED BY <2>8, <3>1
  <2> HIDE DEF mine2
  <2>10. UpToDateWith(e, mine, st, mine2, st)
    <3>1. "participants" \notin DOMAIN w
      BY <2>8
    <3>2. \A x \in Things : Sets(e, x) => x.kind # "role" /\ Agrees(x, New(e, x), mine2, st)
      BY <1>2, <1>3, <1>5, <2>2, <2>9 DEF Agrees
    <3>3. \A x \in Things : ~Sets(e, x) =>
             /\ x.kind = "locked" => "restrictedInviteOnly" \notin DOMAIN w
             /\ x.kind # "role" /\ x.kind # "locked" => x.kind \notin DOMAIN w
      BY <1>2, <1>5, <2>8 DEF Things
    <3> QED BY <1>1, <3>1, <3>2, <3>3, FieldsUpdated DEF mine2
  <2> QED BY <2>7, <2>10
<1> QED BY <1>4, <1>5

\* A new invite code, which is not kept under a name that anything reads.
LEMMA CodeUpdated ==
  ASSUME NEW e \in ChangeType, e.r.op = "revoke",
         NEW mine, HasFields(mine), NEW st \in RolesType, NEW n, Holds(mine.participants, n, st),
         known = <<mine>>, Handles(e)
  PROVE  \E mine2, st2 : known' = <<mine2>> /\ UpToDateWith(e, mine, st, mine2, st2)
<1> DEFINE node == NotificationNode(e.r, e.by)
           c == Node("invite", NoAttrs, << >>)
           u == [type |-> "invite", code |-> Attr(c, "code", "")]
           w == [inviteCode |-> Attr(c, "code", "")]
           mine2 == Spread(mine, w)
<1>1. Concerned(e) = {}
  <2>1. e.r.op \notin ParticipantActions \cup {"accept", "leave"}
    BY DEF ParticipantActions
  <2> QED BY <2>1, ConcernsNone
<1>2. \A x \in Things : ~Sets(e, x)
  BY <1>1 DEF Sets
<1>3. node.kind = "nodes" /\ node.content = <<c>>
  BY DEF NotificationNode, Node, ParticipantActions, Settings
<1>4. c.tag = "invite"
  BY DEF Node
<1> HIDE DEF c
<1>5. ParseGroupNotification(node) = <<u>>
  <2>1. c.tag \in KnownTags
    BY <1>4 DEF KnownTags
  <2> HIDE DEF node
  <2> QED BY <1>3, <1>4, <2>1, OneNotified
<1>6. Emitted(u) /\ u.type = "invite" /\ u.code = Attr(c, "code", "")
  <2>1. u.type = "invite" /\ u.code = Attr(c, "code", "")
    OBVIOUS
  <2> HIDE DEF u
  <2>2. ParseGroupNotification(node)[1] = u
    BY <1>5
  <2> QED BY <2>1, <2>2 DEF Handles
<1>7. known' = <<mine2>>
  <2> HIDE DEF u
  <2>1. known' = <<Spread(mine, [inviteCode |-> u.code])>>
    BY <1>6, EmittedIs
  <2> QED BY <1>6, <2>1
<1>8. DOMAIN w = {"inviteCode"}
  OBVIOUS
<1> HIDE DEF w, u
<1>9. "participants" \notin DOMAIN w
  BY <1>8
<1>10. \A x \in Things : ~Sets(e, x) =>
             /\ x.kind = "locked" => "restrictedInviteOnly" \notin DOMAIN w
             /\ x.kind # "role" /\ x.kind # "locked" => x.kind \notin DOMAIN w
  BY <1>8 DEF Things
<1>11. UpToDateWith(e, mine, st, mine2, st)
  <2> HIDE DEF node
  <2> QED BY <1>1, <1>2, <1>9, <1>10, FieldsUpdated
<1> QED BY <1>7, <1>11

\* So every notification but that of a new group brings the metadata up to date.
LEMMA ChangeArrives ==
  ASSUME NEW e \in ChangeType, e.r.op # "create", e.r.op \notin Reads,
         NEW mine, HasFields(mine), NEW st \in RolesType, NEW n, Holds(mine.participants, n, st),
         e.r.op \in {"promote", "demote"} => \A p \in Concerned(e) : st[p] # "superadmin",
         known = <<mine>>, Handles(e)
  PROVE  \E mine2, st2 : known' = <<mine2>> /\ UpToDateWith(e, mine, st, mine2, st2)
<1>1. e.r \in RequestType
  BY DEF ChangeType
<1>2. e.r.op \in {"subject", "description", "revoke", "accept", "leave"} \cup Settings \cup ParticipantActions
  BY <1>1, RequestIs DEF Reads, Settings
<1>3. CASE e.r.op \in ParticipantActions \cup {"accept", "leave"}
  BY <1>3, PeopleUpdated
<1>4. CASE e.r.op \in Settings
  BY <1>4, SettingUpdated
<1>5. CASE e.r.op \in {"subject", "description"}
  BY <1>5, TextUpdated
<1>6. CASE e.r.op = "revoke"
  BY <1>6, CodeUpdated
<1> QED BY <1>2, <1>3, <1>4, <1>5, <1>6

\* None of them is taken for that of a new group.
LEMMA TypeOfChange ==
  ASSUME NEW e \in ChangeType, e.r.op # "create", e.r.op \notin Reads
  PROVE  ParseGroupNotification(NotificationNode(e.r, e.by))[1].type # "create"
<1> DEFINE node == NotificationNode(e.r, e.by)
<1>1. e.r.op \in {"subject", "description", "revoke", "accept", "leave"} \cup Settings \cup ParticipantActions
  BY RequestIs DEF ChangeType, Reads, Settings
<1>2. \A tag, ids : NamedNode(tag, ids).tag = tag
  BY DEF NamedNode, Node
<1>3. \E c : node.content = <<c>> /\ c.tag \in KnownTags /\ c.tag # "create"
  <2>1. CASE e.r.op \in ParticipantActions
    <3>1. node.content = <<NamedNode(e.r.op, e.r.ids)>>
      BY <2>1 DEF NotificationNode, Node, NamedNode, Alone, ParticipantActions, Settings
    <3> QED BY <1>2, <2>1, <3>1 DEF KnownTags, ParticipantActions
  <2>2. CASE e.r.op = "accept"
    <3>1. node.content = <<NamedNode("add", Alone(e.by))>>
      BY <2>2 DEF NotificationNode, Node, NamedNode, Alone, ParticipantActions, Settings
    <3> QED BY <1>2, <3>1 DEF KnownTags, ParticipantActions
  <2>3. CASE e.r.op = "leave"
    <3>1. node.content = <<NamedNode("remove", Alone(e.by))>>
      BY <2>3 DEF NotificationNode, Node, NamedNode, Alone, ParticipantActions, Settings
    <3> QED BY <1>2, <3>1 DEF KnownTags, ParticipantActions
  <2>4. CASE e.r.op = "subject"
    <3> DEFINE c == Received("subject", e.r.text)
    <3>1. node.content = <<c>>
      BY <2>4 DEF NotificationNode, Node, ParticipantActions, Settings
    <3>2. c.tag = "subject"
      BY TextIsRead
    <3> HIDE DEF c, node
    <3> QED BY <3>1, <3>2 DEF KnownTags
  <2>5. CASE e.r.op = "description"
    <3> DEFINE c == Node("description", NoAttrs, <<Received("body", e.r.text)>>)
    <3>1. node.content = <<c>>
      BY <2>5 DEF NotificationNode, Node, ParticipantActions, Settings
    <3>2. c.tag = "description"
      BY DEF Node
    <3> HIDE DEF c, node
    <3> QED BY <3>1, <3>2 DEF KnownTags
  <2>6. CASE e.r.op = "revoke"
    <3> DEFINE c == Node("invite", NoAttrs, << >>)
    <3>1. node.content = <<c>>
      BY <2>6 DEF NotificationNode, Node, ParticipantActions, Settings
    <3>2. c.tag = "invite"
      BY DEF Node
    <3> HIDE DEF c, node
    <3> QED BY <3>1, <3>2 DEF KnownTags
  <2>7. CASE e.r.op \in Settings
    <3> DEFINE c == Node(e.r.op, NoAttrs, << >>)
    <3>1. node.content = <<c>>
      BY <2>7 DEF NotificationNode, Node, ParticipantActions, Settings
    <3>2. c.tag = e.r.op
      BY DEF Node
    <3> HIDE DEF c, node
    <3> QED BY <2>7, <3>1, <3>2 DEF KnownTags, Settings
  <2> QED BY <1>1, <2>1, <2>2, <2>3, <2>4, <2>5, <2>6, <2>7
<1>4. PICK c : node.content = <<c>> /\ c.tag \in KnownTags /\ c.tag # "create"
  BY <1>3
<1>5. node.kind = "nodes"
  BY DEF NotificationNode, Node, ParticipantActions, Settings
<1> HIDE DEF node
<1>6. ParseGroupNotification(node)[1].type \in {"participant-update", c.tag}
  <2>1. CASE c.tag \in ParticipantActions
    <3>1. ParseGroupNotification(node) = <<[type |-> "participant-update", action |-> c.tag,
                                            participants |-> ParseParticipants(c)]>>
      BY <1>4, <1>5, <2>1, OneNotified
    <3> QED BY <3>1
  <2>2. CASE c.tag = "subject"
    <3> DEFINE u == [type |-> "subject", subject |-> TextOf(c, "")]
    <3>1. ParseGroupNotification(node) = <<u>>
      BY <1>4, <1>5, <2>2, OneNotified
    <3>2. u.type = "subject"
      OBVIOUS
    <3> HIDE DEF u
    <3> QED BY <2>2, <3>1, <3>2
  <2>3. CASE c.tag = "description"
    <3> DEFINE text == IF HasChild(c, "body") THEN TextOf(GetChild(c, "body"), "") ELSE ""
    <3> DEFINE u == [type |-> "description", description |-> text]
    <3>1. ParseGroupNotification(node) = <<u>>
      BY <1>4, <1>5, <2>3, OneNotified
    <3>2. u.type = "description"
      OBVIOUS
    <3> HIDE DEF text, u
    <3> QED BY <2>3, <3>1, <3>2
  <2>4. CASE c.tag = "invite"
    <3> DEFINE u == [type |-> "invite", code |-> Attr(c, "code", "")]
    <3>1. ParseGroupNotification(node) = <<u>>
      BY <1>4, <1>5, <2>4, OneNotified
    <3>2. u.type = "invite"
      OBVIOUS
    <3> HIDE DEF u
    <3> QED BY <2>4, <3>1, <3>2
  <2>5. CASE c.tag \in Settings
    <3>1. ParseGroupNotification(node) = <<[type |-> c.tag]>>
      BY <1>4, <1>5, <2>5, OneNotified
    <3> QED BY <3>1
  <2> QED BY <1>4, <2>1, <2>2, <2>3, <2>4, <2>5 DEF KnownTags
<1> QED BY <1>4, <1>6 DEF node

\* That of a new group is its metadata.
LEMMA CreationArrives ==
  ASSUME NEW e \in ChangeType, e.r.op = "create", Handles(e)
  PROVE  /\ \E mine : known' = <<mine>> /\ Mirrors(NewGroup(e.r.ids, e.r.text), mine)
         /\ ParseGroupNotification(NotificationNode(e.r, e.by))[1].type = "create"
<1> DEFINE node == NotificationNode(e.r, e.by)
           g == NewGroup(e.r.ids, e.r.text)
           c == Node("create", NoAttrs, << >>)
           gn == GroupNode(g)
           mine == ParseGroupMetadata(node)
<1>1. e.r.ids \in SUBSET Members /\ e.r.text \in Texts
  BY RequestIs DEF ChangeType
<1>2. g \in GroupType
  BY <1>1, NewGroupType
<1>3. node.kind = "nodes" /\ node.content = <<c, gn>>
  BY DEF NotificationNode, Node, ParticipantActions, Settings
<1>4. c.tag = "create"
  BY DEF Node
<1>5. gn.tag = "group"
  BY <1>2, GroupIsPlaced
<1>6. GetAllChildren(node) = <<c, gn>>
  BY <1>3 DEF GetAllChildren
<1> HIDE DEF node, c, gn, g
<1>7. HasChild(node, "group") /\ GetChild(node, "group") = gn
  <2>1. With(node, "group") = {2}
    BY <1>4, <1>5, <1>6 DEF With
  <2>2. HasChild(node, "group") /\ GetChild(node, "group") = GetAllChildren(node)[2]
    BY <2>1, OneFound
  <2> QED BY <1>6, <2>2
<1>8. Mirrors(g, mine)
  BY <1>2, <1>7, MetadataIsRead DEF gn
<1>9. ParseGroupNotification(node) = <<[type |-> "create", metadata |-> mine]>>
  <2> DEFINE K == {i \in DOMAIN GetAllChildren(node) : GetAllChildren(node)[i].tag \in KnownTags}
  <2>1. K = {1}
    BY <1>4, <1>5, <1>6 DEF KnownTags, ParticipantActions, Settings
  <2>2. Min(K) = 1
    BY <2>1 DEF Min
  <2>3. GetAllChildren(node)[Min(K)] = c /\ K # {}
    BY <1>6, <2>1, <2>2
  <2> HIDE DEF mine
  <2> QED BY <1>4, <2>3 DEF ParseGroupNotification, ParticipantActions, Settings, mine
<1>10. known' = <<mine>>
  <2> DEFINE u == [type |-> "create", metadata |-> mine]
  <2>1. Emitted(u)
    BY <1>9 DEF Handles, node
  <2>2. u.type = "create" /\ u.metadata = mine
    OBVIOUS
  <2> HIDE DEF u, mine
  <2> QED BY <2>1, <2>2 DEF Emitted, GroupsUpsert
<1>11. ParseGroupNotification(node)[1].type = "create"
  <2> HIDE DEF mine
  <2> QED BY <1>9
<1> QED BY <1>8, <1>10, <1>11 DEF g, node

-----------------------------------------------------------------------------
(* The store follows the group: the inductive invariant, and each step.     *)

\* A set of places has a first one.
LEMMA FirstOf ==
  ASSUME NEW n \in Nat, NEW K \in SUBSET (1..n), K # {}
  PROVE  \E k \in K : \A j \in K : k <= j
<1> DEFINE p == InOrder(K)
           C == Cardinality(K)
<1>1. /\ C \in Nat /\ p \in [1..C -> K]
      /\ \A i, j \in 1..C : i < j => p[i] < p[j]
      /\ \A k \in K : \E i \in 1..C : p[i] = k
  BY InOrderIs
<1> HIDE DEF p, C
<1>2. 1 \in 1..C
  <2>1. PICK k \in K : TRUE
    OBVIOUS
  <2>2. PICK i \in 1..C : p[i] = k
    BY <1>1
  <2> QED BY <1>1, <2>2
<1>3. \A j \in K : p[1] <= j
  <2> TAKE j \in K
  <2>1. PICK i \in 1..C : p[i] = j
    BY <1>1
  <2>2. CASE i = 1
    <3>1. p[1] = j /\ j \in Nat
      BY <2>1, <2>2
    <3> QED BY <3>1
  <2>3. CASE i > 1
    <3>1. p[1] < p[i] /\ p[1] \in K
      BY <1>1, <1>2, <2>3
    <3>2. \A k \in K : k \in Nat
      OBVIOUS
    <3>3. p[1] \in Nat /\ j \in Nat
      BY <3>1, <3>2
    <3> QED BY <2>1, <3>1, <3>3
  <2>4. i \in Nat /\ i >= 1
    BY <1>1, <2>1
  <2> QED BY <2>2, <2>3, <2>4
<1> QED BY <1>1, <1>2, <1>3

\* An answer is a refusal, or tells of the group as it was after some changes.
Snapshot(l, g, a, r) ==
    \/ a.node = ErrorNode
    \/ \E h \in GroupType :
          /\ a.node = AnswerNode(h, r)
          /\ a.seen \in 0..Len(l)
          /\ \A x \in Things : At(l, g, a.seen, x, Value(h, x))

AnswersInv ==
    \A q \in Queries : answer[q] # << >> /\ request[q] # << >> =>
        Snapshot(log, group, answer[q][1], request[q][1])

\* While no notification is missing the stored metadata follow the group.
AllTold == \A i \in since .. Len(log) : log[i].told

StoreInv ==
    /\ acked \in Nat \ {0} /\ next \in Nat \ {0} /\ since \in Nat
    /\ acked <= next /\ next <= Len(log) + 1 /\ since <= next
    /\ since # Untracked /\ AllTold => \E mine : known = <<mine>> /\ Follows(log, group, next, mine)

\* The inductive invariant of the store's group.
HInv == GInv /\ ServerInv(log, group) /\ AnswersInv /\ StoreInv

\* The server makes a change, or none.
Grows ==
    \/ UNCHANGED server
    \/ \E e \in ChangeType : log' = Append(log, e) /\ Follow(log, group, e, group')

\* What it does keeps what the log says of the group.
LEMMA DoesStep ==
  ASSUME group \in GroupType, ServerInv(log, group), NEW r \in RequestType, NEW p \in People, Does(r, p)
  PROVE  ServerInv(log', group') /\ Grows
<1>1. Allowed(group, r, p) /\ group' = Changed(group, r, p)
  BY DEF Does
<1>2. CASE r.op \in Reads
  <2>1. log' = log
    BY <1>2 DEF Does
  <2>2. group' = group
    BY <1>1, <1>2 DEF Changed, Reads, ParticipantActions
  <2> QED BY <2>1, <2>2 DEF Grows, server
<1>3. CASE r.op \notin Reads
  <2> DEFINE e == [r |-> r, by |-> p, told |-> In(group, me) \/ In(group', me)]
  <2>1. log' = Append(log, e)
    BY <1>3 DEF Does
  <2>2. e \in ChangeType /\ e.r = r /\ e.by = p
    <3>1. (In(group, me) \/ In(group', me)) \in BOOLEAN
      OBVIOUS
    <3> QED BY <3>1 DEF ChangeType
  <2> HIDE DEF e
  <2>3. ServerInv(Append(log, e), Changed(group, r, p)) /\ Follow(log, group, e, Changed(group, r, p))
    BY <1>1, <1>3, <2>2, ServerStep
  <2> QED BY <1>1, <2>1, <2>2, <2>3 DEF Grows
<1> QED BY <1>2, <1>3

\* What a longer log has of a shorter one.
LEMMA LogGrows ==
  ASSUME ServerInv(log, group), Grows
  PROVE  /\ Len(log) \in Nat /\ Len(log') \in Nat /\ Len(log) <= Len(log')
         /\ \A i \in 1..Len(log) : log'[i] = log[i]
         /\ \A n \in 1 .. Len(log) + 1 : \A mine :
               Follows(log, group, n, mine) => Follows(log', group', n, mine)
         /\ \A a, r : Snapshot(log, group, a, r) => Snapshot(log', group', a, r)
<1>1. log \in Seq(ChangeType) /\ Len(log) \in Nat
  BY DEF ServerInv
<1>2. CASE UNCHANGED server
  BY <1>1, <1>2 DEF server
<1>3. ASSUME NEW e \in ChangeType, log' = Append(log, e), Follow(log, group, e, group')
      PROVE  /\ Len(log') \in Nat /\ Len(log) <= Len(log')
             /\ \A i \in 1..Len(log) : log'[i] = log[i]
             /\ \A n \in 1 .. Len(log) + 1 : \A mine :
                   Follows(log, group, n, mine) => Follows(log', group', n, mine)
             /\ \A a, r : Snapshot(log, group, a, r) => Snapshot(log', group', a, r)
  <2>1. /\ Len(log') \in Nat /\ Len(log') = Len(log) + 1
        /\ \A i \in 1..Len(log) : log'[i] = log[i]
    BY <1>1, <1>3, Grown
  <2>2. ASSUME NEW n \in 1 .. Len(log) + 1, NEW mine, Follows(log, group, n, mine)
        PROVE  Follows(log', group', n, mine)
    BY <1>1, <1>3, <2>2, FollowsGrows
  <2>3. ASSUME NEW a, NEW r, Snapshot(log, group, a, r)
        PROVE  Snapshot(log', group', a, r)
    <3>1. CASE a.node = ErrorNode
      BY <3>1 DEF Snapshot
    <3>2. ASSUME NEW h \in GroupType, a.node = AnswerNode(h, r), a.seen \in 0..Len(log),
                 \A x \in Things : At(log, group, a.seen, x, Value(h, x))
          PROVE  Snapshot(log', group', a, r)
      <4>1. \A x \in Things : At(log', group', a.seen, x, Value(h, x))
        BY <1>1, <1>3, <3>2, AtGrows
      <4>2. a.seen \in 0..Len(log')
        BY <1>1, <2>1, <3>2
      <4> QED BY <3>2, <4>1, <4>2 DEF Snapshot
    <3> QED BY <2>3, <3>1, <3>2 DEF Snapshot
  <2> QED BY <1>1, <2>1, <2>2, <2>3
<1> QED BY <1>1, <1>2, <1>3 DEF Grows

\* The store's group is as before while the server makes changes.
LEMMA StoreKept ==
  ASSUME ServerInv(log, group), StoreInv, Grows, UNCHANGED <<next, acked, stored>>
  PROVE  StoreInv'
<1>1. /\ Len(log) \in Nat /\ Len(log') \in Nat /\ Len(log) <= Len(log')
      /\ \A i \in 1..Len(log) : log'[i] = log[i]
      /\ \A n \in 1 .. Len(log) + 1 : \A mine :
               Follows(log, group, n, mine) => Follows(log', group', n, mine)
  BY LogGrows
<1>2. UNCHANGED <<next, acked, known, since>>
  BY DEF stored
<1>3. /\ acked \in Nat \ {0} /\ next \in Nat \ {0} /\ since \in Nat
      /\ acked <= next /\ next <= Len(log) + 1 /\ since <= next
  BY DEF StoreInv
<1>4. ASSUME since # Untracked, AllTold'
      PROVE  \E mine : known = <<mine>> /\ Follows(log', group', next, mine)
  <2>1. AllTold
    BY <1>1, <1>2, <1>3, <1>4 DEF AllTold, Untracked
  <2>2. PICK mine : known = <<mine>> /\ Follows(log, group, next, mine)
    BY <1>4, <2>1 DEF StoreInv
  <2>3. next \in 1 .. Len(log) + 1
    BY <1>1, <1>3
  <2> QED BY <1>1, <2>2, <2>3
<1> QED BY <1>1, <1>2, <1>3, <1>4 DEF StoreInv

\* An answer that is not new is as before.
LEMMA AnswersKept ==
  ASSUME ServerInv(log, group), AnswersInv, Grows,
         \A q \in Queries : answer'[q] # << >> /\ request'[q] # << >> =>
             \/ answer'[q] = answer[q] /\ request'[q] = request[q]
             \/ Snapshot(log', group', answer'[q][1], request'[q][1])
  PROVE  AnswersInv'
<1>1. \A a, r : Snapshot(log, group, a, r) => Snapshot(log', group', a, r)
  BY LogGrows
<1> QED BY <1>1 DEF AnswersInv

\* What the server does makes a snapshot.
LEMMA SnapshotMade ==
  ASSUME group' \in GroupType, ServerInv(log', group'), NEW r
  PROVE  Snapshot(log', group', [node |-> AnswerNode(group', r), seen |-> Len(log'), of |-> <<group'>>], r)
<1> DEFINE a == [node |-> AnswerNode(group', r), seen |-> Len(log'), of |-> <<group'>>]
<1>1. a.node = AnswerNode(group', r) /\ a.seen = Len(log')
  OBVIOUS
<1> HIDE DEF a
<1>2. Len(log') \in 0..Len(log')
  BY DEF ServerInv
<1>3. \A x \in Things : At(log', group', a.seen, x, Value(group', x))
  BY <1>1 DEF ServerInv
<1>4. Snapshot(log', group', a, r)
  BY <1>1, <1>2, <1>3 DEF Snapshot
<1> QED BY <1>4 DEF a

\* A notification comes.
LEMMA ArrivalKeeps ==
  ASSUME ServerInv(log, group), StoreInv, NotificationArrives
  PROVE  StoreInv'
<1> DEFINE i == FirstTold
           e == log[i]
<1>1. /\ ~UpToDate
      /\ next' = i + 1
      /\ Handles(e)
      /\ since' = IF ParseGroupNotification(NotificationNode(e.r, e.by))[1].type = "create" THEN i + 1 ELSE since
      /\ acked' = acked /\ log' = log /\ group' = group
  BY DEF NotificationArrives, Handles, server
<1>2. Len(log) \in Nat /\ log \in Seq(ChangeType)
  BY DEF ServerInv
<1>3. /\ acked \in Nat \ {0} /\ next \in Nat \ {0} /\ since \in Nat
      /\ acked <= next /\ next <= Len(log) + 1 /\ since <= next
  BY DEF StoreInv
<1>4. i \in Told /\ \A j \in Told : i <= j
  <2>1. Told # {} /\ Told \subseteq next .. Len(log)
    BY <1>1 DEF UpToDate, Told
  <2>2. \E j \in Told : \A k \in Told : j <= k
    <3>1. Told \in SUBSET (1..Len(log))
      BY <1>2, <1>3, <2>1
    <3> QED BY <1>2, <2>1, <3>1, FirstOf
  <2> QED BY <2>2 DEF FirstTold, Min
<1>5. i \in next .. Len(log) /\ i \in 1..Len(log) /\ e.told
  BY <1>2, <1>3, <1>4 DEF Told
<1>6. e \in ChangeType /\ e.r.op \notin Reads /\ (e.r.op = "create" => i = 1)
  BY <1>2, <1>5 DEF ServerInv
<1> HIDE DEF i, e
<1>7. CASE e.r.op = "create"
  <2>1. i = 1 /\ next = 1
    BY <1>3, <1>5, <1>6, <1>7
  <2>2. PICK mine : known' = <<mine>> /\ Mirrors(NewGroup(e.r.ids, e.r.text), mine)
    BY <1>1, <1>6, <1>7, CreationArrives
  <2>3. ParseGroupNotification(NotificationNode(e.r, e.by))[1].type = "create"
    BY <1>1, <1>6, <1>7, CreationArrives
  <2>4. NewGroup(e.r.ids, e.r.text) \in GroupType
    <3>1. e.r.ids \in SUBSET Members /\ e.r.text \in Texts
      BY <1>6, <1>7, RequestIs DEF ChangeType
    <3> QED BY <3>1, NewGroupType
  <2>5. \A x \in Things : At(log, group, 1, x, Value(NewGroup(e.r.ids, e.r.text), x))
    <3> TAKE x \in Things
    <3>1. Sets(e, x) /\ New(e, x) = Value(NewGroup(e.r.ids, e.r.text), x)
      BY <1>7 DEF Sets, New
    <3>2. At(log, group, i, x, New(e, x))
      BY <1>5, <3>1 DEF ServerInv, e
    <3> QED BY <2>1, <3>1, <3>2
  <2>6. Follows(log, group, 2, mine)
    <3>1. 1 \in 0..Len(log) /\ 2 \in 1..1 + 1
      BY <1>2, <1>5, <2>1
    <3> QED BY <1>2, <2>2, <2>4, <2>5, <3>1, FollowsFrom
  <2>7. next' = 2 /\ since' = 2
    BY <1>1, <2>1, <2>3
  <2> QED BY <1>1, <1>2, <1>3, <1>5, <2>1, <2>2, <2>6, <2>7 DEF StoreInv
<1>8. CASE e.r.op # "create"
  <2>1. ParseGroupNotification(NotificationNode(e.r, e.by))[1].type # "create"
    BY <1>6, <1>8, TypeOfChange
  <2>2. since' = since
    BY <1>1, <2>1
  <2>3. ASSUME since # Untracked, AllTold
        PROVE  \E mine : known' = <<mine>> /\ Follows(log, group, i + 1, mine)
    <3>1. PICK mine : known = <<mine>> /\ Follows(log, group, next, mine)
      BY <2>3 DEF StoreInv
    <3>2. next = i
      <4>1. next \in since .. Len(log) /\ next \in next .. Len(log)
        BY <1>2, <1>3, <1>5
      <4>2. next \in Told
        BY <2>3, <4>1 DEF AllTold, Told
      <4> QED BY <1>3, <1>4, <1>5, <4>2
    <3>3. PICK st : FollowsWith(log, group, i, mine, st)
      BY <3>1, <3>2 DEF Follows
    <3>4. HasFields(mine) /\ st \in RolesType
      BY <3>3 DEF FollowsWith
    <3>5. PICK n : Holds(mine.participants, n, st)
      BY <3>3 DEF FollowsWith
    <3>6. ASSUME e.r.op \in {"promote", "demote"}, NEW p \in Concerned(e)
          PROVE  st[p] # "superadmin"
      <4> DEFINE x == [kind |-> "role", of |-> p]
      <4>1. p \in e.r.ids /\ p \in People
        <5>1. Concerned(e) = e.r.ids
          BY <3>6 DEF Concerned, ParticipantActions
        <5>2. e.r.ids \in SUBSET People
          BY <1>6, <3>6, RequestIs DEF ChangeType, ParticipantActions
        <5> QED BY <5>1, <5>2
      <4>2. x \in Things /\ x.kind = "role" /\ x.of = p
        BY <4>1 DEF Things
      <4> HIDE DEF x
      <4>3. Raises(log[i], x)
        BY <3>6, <4>1, <4>2 DEF Raises, e
      <4>4. Current(log, group, i - 1, mine, st, x)
        BY <3>3, <4>2 DEF FollowsWith
      <4>5. i \in Nat \ {0} /\ i <= Len(log)
        BY <1>2, <1>5
      <4>6. st[x.of] # "superadmin"
        BY <1>2, <4>2, <4>3, <4>4, <4>5, NotSuper
      <4> QED BY <4>2, <4>6
    <3>7. PICK mine2, st2 : known' = <<mine2>> /\ UpToDateWith(e, mine, st, mine2, st2)
      BY <1>1, <1>6, <1>8, <3>1, <3>4, <3>5, <3>6, ChangeArrives
    <3>8. Follows(log, group, i + 1, mine2)
      BY <1>5, <1>8, <3>3, <3>7, FollowsNext DEF e
    <3> QED BY <3>7, <3>8
  <2>4. AllTold' => AllTold
    BY <1>1, <2>2 DEF AllTold
  <2> QED BY <1>1, <1>2, <1>3, <1>5, <2>2, <2>3, <2>4 DEF StoreInv
<1> QED BY <1>7, <1>8

-----------------------------------------------------------------------------
\* What is read in the answer to a request for metadata is the group.
LEMMA AnswerMirrors ==
  ASSUME NEW h \in GroupType, NEW r, r.op = "metadata"
  PROVE  Mirrors(h, ParseGroupMetadata(AnswerNode(h, r)))
<1> DEFINE node == AnswerNode(h, r)
           gn == GroupNode(h)
<1>1. node.kind = "nodes" /\ node.content = <<gn>>
  BY AnswerOf
<1>2. gn.tag = "group"
  BY GroupIsPlaced
<1> HIDE DEF node, gn
<1>3. HasChild(node, "group") /\ GetChild(node, "group") = gn
  BY <1>1, <1>2, OnlyChild
<1> QED BY <1>3, MetadataIsRead DEF node, gn

\* What an operation makes of the metadata that it asked for, and where the store is then.
LEMMA ReturnKeeps ==
  ASSUME HInv, NEW q \in Queries, Returns(q)
  PROVE  StoreInv'
<1> DEFINE r == request[q][1]
           a == answer[q][1]
           outcome == Outcome(r, a.node)
<1>1. /\ caller[q] = "answered" /\ request[q] # << >>
      /\ log' = log /\ group' = group /\ next' = next /\ acked' = acked
      /\ IF r.op = "metadata" /\ outcome[1].id = "group@g.us"
         THEN known' = outcome /\ since' = IF next <= a.seen + 1 THEN next ELSE Untracked
         ELSE UNCHANGED stored
  BY DEF Returns, server
<1>2. answer[q] # << >>
  <2>1. q \in received /\ CallOK(q)
    BY <1>1 DEF HInv, GInv, ResponsesInOrder, CallsOK
  <2> QED BY <1>1, <2>1 DEF CallOK
<1>3. Snapshot(log, group, a, r)
  BY <1>1, <1>2 DEF HInv, AnswersInv
<1>4. /\ acked \in Nat \ {0} /\ next \in Nat \ {0} /\ since \in Nat
      /\ acked <= next /\ next <= Len(log) + 1 /\ since <= next
      /\ Len(log) \in Nat
  BY DEF HInv, StoreInv, ServerInv
<1> HIDE DEF r, a
<1>5. CASE r.op = "metadata" /\ outcome[1].id = "group@g.us"
  <2>1. outcome = <<ParseGroupMetadata(a.node)>>
    BY <1>5, OutcomeOf
  <2> HIDE DEF outcome
  <2>2. ParseGroupMetadata(a.node).id = "group@g.us"
    BY <1>5, <2>1
  <2>3. a.node # ErrorNode
    BY <2>2, ErrorHasNoId
  <2>4. PICK h \in GroupType :
           /\ a.node = AnswerNode(h, r)
           /\ a.seen \in 0..Len(log)
           /\ \A x \in Things : At(log, group, a.seen, x, Value(h, x))
    BY <1>3, <2>3 DEF Snapshot
  <2>5. Mirrors(h, ParseGroupMetadata(a.node))
    BY <1>5, <2>4, AnswerMirrors
  <2> DEFINE mine == ParseGroupMetadata(a.node)
  <2>6. known' = <<mine>> /\ since' = IF next <= a.seen + 1 THEN next ELSE Untracked
    BY <1>1, <1>5, <2>1
  <2> HIDE DEF mine
  <2>7. ASSUME since' # Untracked
        PROVE  Follows(log, group, next, mine)
    <3>1. next \in 1 .. a.seen + 1
      BY <1>4, <2>4, <2>6, <2>7
    <3>2. Mirrors(h, mine)
      BY <2>5 DEF mine
    <3> QED BY <1>4, <2>4, <3>1, <3>2, FollowsFrom
  <2>8. since' \in Nat /\ since' <= next
    BY <1>4, <2>6 DEF Untracked
  <2> QED BY <1>1, <1>4, <2>6, <2>7, <2>8 DEF StoreInv
<1>6. CASE ~(r.op = "metadata" /\ outcome[1].id = "group@g.us")
  <2>1. known' = known /\ since' = since
    BY <1>1, <1>6 DEF stored
  <2> QED BY <1>1, <2>1 DEF HInv, StoreInv, AllTold
<1> QED BY <1>5, <1>6

\* A new connection.
LEMMA RedeliveryKeeps ==
  ASSUME ServerInv(log, group), StoreInv, Redelivery
  PROVE  StoreInv'
<1>1. /\ next' = acked /\ since' = Min({since, acked})
      /\ log' = log /\ group' = group /\ acked' = acked /\ known' = known
  BY DEF Redelivery, server
<1>2. /\ acked \in Nat \ {0} /\ next \in Nat \ {0} /\ since \in Nat
      /\ acked <= next /\ next <= Len(log) + 1 /\ since <= next
      /\ Len(log) \in Nat
  BY DEF StoreInv, ServerInv
<1>3. since' \in {since, acked} /\ since' <= since /\ since' <= acked
  <2>1. \E x \in {since, acked} : \A y \in {since, acked} : x <= y
    BY <1>2
  <2> QED BY <1>1, <2>1 DEF Min
<1>4. ASSUME since' # Untracked, AllTold'
      PROVE  \E mine : known = <<mine>> /\ Follows(log, group, acked, mine)
  <2>1. since # Untracked /\ AllTold
    <3>1. since' \in Nat /\ since' # 0
      BY <1>2, <1>3, <1>4 DEF Untracked
    <3>2. since # 0 /\ since .. Len(log) \subseteq since' .. Len(log)
      BY <1>2, <1>3, <3>1
    <3>3. \A i \in since' .. Len(log) : log[i].told
      BY <1>1, <1>4 DEF AllTold
    <3> QED BY <3>2, <3>3 DEF AllTold, Untracked
  <2>2. PICK mine : known = <<mine>> /\ Follows(log, group, next, mine)
    BY <2>1 DEF StoreInv
  <2>3. acked \in 1..next
    BY <1>2
  <2> QED BY <1>2, <2>2, <2>3, FollowsBack
<1> QED BY <1>1, <1>2, <1>3, <1>4 DEF StoreInv

\* Every step of the groups layer keeps the invariant.
LEMMA HInvStep == HInv /\ [GroupsNext]_allvars => HInv'
<1> SUFFICES ASSUME HInv, [GroupsNext]_allvars PROVE HInv'
  OBVIOUS
<1>1. GInv /\ ServerInv(log, group) /\ AnswersInv /\ StoreInv /\ CallsOK /\ group \in GroupType
  BY DEF HInv, GInv
<1>2. GInv' /\ group' \in GroupType
  BY <1>1, GInvStep DEF GInv
<1>3. SUFFICES ServerInv(log', group') /\ AnswersInv' /\ StoreInv'
  BY <1>2 DEF HInv
<1>4. Requests \subseteq RequestType
  BY <1>1, RequestsAreTyped
<1>5. ASSUME UNCHANGED server
      PROVE  ServerInv(log', group') /\ Grows
  BY <1>1, <1>5 DEF server, Grows
<1>6. ASSUME Grows, UNCHANGED calls PROVE AnswersInv'
  <2>1. answer' = answer /\ request' = request
    BY <1>6 DEF calls
  <2> QED BY <1>1, <1>6, <2>1, AnswersKept
<1>7. CASE QueryStep \/ UNCHANGED allvars
  <2>1. UNCHANGED <<server, calls>> /\ UNCHANGED <<next, acked, stored>>
    BY <1>7 DEF QueryStep, gvars, allvars
  <2> QED BY <1>1, <1>5, <1>6, <2>1, StoreKept
<1>8. CASE Acknowledged
  <2>1. UNCHANGED server /\ UNCHANGED calls /\ acked' = next /\ next' = next
        /\ known' = known /\ since' = since /\ log' = log /\ group' = group
    BY <1>8 DEF Acknowledged, server, stored
  <2>2. StoreInv'
    BY <1>1, <2>1 DEF StoreInv, AllTold
  <2> QED BY <1>5, <1>6, <2>1, <2>2
<1>9. CASE Redelivery
  <2>1. UNCHANGED server /\ UNCHANGED calls
    BY <1>9 DEF Redelivery
  <2> QED BY <1>1, <1>5, <1>6, <1>9, <2>1, RedeliveryKeeps
<1>10. CASE NotificationArrives
  <2>1. UNCHANGED server /\ UNCHANGED calls
    BY <1>10 DEF NotificationArrives
  <2> QED BY <1>1, <1>5, <1>6, <1>10, <2>1, ArrivalKeeps
<1>11. ASSUME NEW r \in Requests, NEW p \in Members, OthersChange(r, p)
       PROVE  ServerInv(log', group') /\ AnswersInv' /\ StoreInv'
  <2>1. Does(r, p) /\ UNCHANGED calls /\ UNCHANGED <<next, acked, stored>>
    BY <1>11 DEF OthersChange
  <2>2. ServerInv(log', group') /\ Grows
    BY <1>1, <1>4, <2>1, DoesStep DEF People
  <2> QED BY <1>1, <1>6, <2>1, <2>2, StoreKept
<1>12. ASSUME NEW r \in Requests, NEW q \in Queries, Call(q, r)
       PROVE  ServerInv(log', group') /\ AnswersInv' /\ StoreInv'
  <2>1. /\ UNCHANGED server /\ UNCHANGED <<next, acked, stored>>
        /\ answer' = answer /\ request' = [request EXCEPT ![q] = <<r>>] /\ caller[q] = "idle"
    BY <1>12 DEF Call, Start
  <2>2. answer[q] = << >>
    BY <1>1, <2>1 DEF CallsOK, CallOK
  <2>3. ASSUME NEW k \in Queries, answer'[k] # << >>
        PROVE  answer'[k] = answer[k] /\ request'[k] = request[k]
    BY <1>1, <2>1, <2>2, <2>3 DEF CallsOK
  <2>4. AnswersInv'
    BY <1>1, <1>5, <2>1, <2>3, AnswersKept
  <2> QED BY <1>1, <1>5, <2>1, <2>4, StoreKept
<1>13. ASSUME NEW q \in Queries, Serves(q)
       PROVE  ServerInv(log', group') /\ AnswersInv' /\ StoreInv'
  <2> DEFINE r == request[q][1]
  <2>1. q \in toServer /\ request' = request /\ UNCHANGED <<next, acked, stored>>
    BY <1>13 DEF Serves, ServerAnswers
  <2>2. r \in RequestType /\ me \in People
    BY <1>1, <2>1 DEF CallsOK, CallOK, People
  <2>3. PICK b : /\ answer' = [answer EXCEPT ![q] = <<b>>]
                 /\ ServerInv(log', group') /\ Grows
                 /\ Snapshot(log', group', b, r)
    <3>1. CASE /\ Does(r, me)
               /\ answer' = [answer EXCEPT ![q] =
                    <<[node |-> AnswerNode(group', r), seen |-> Len(log'), of |-> <<group'>>]>>]
      <4> DEFINE b == [node |-> AnswerNode(group', r), seen |-> Len(log'), of |-> <<group'>>]
      <4> HIDE DEF r
      <4>1. ServerInv(log', group') /\ Grows
        BY <1>1, <2>2, <3>1, DoesStep
      <4>2. Snapshot(log', group', b, r)
        BY <1>2, <4>1, SnapshotMade
      <4>3. answer' = [answer EXCEPT ![q] = <<b>>]
        BY <3>1
      <4> HIDE DEF b
      <4> QED BY <4>1, <4>2, <4>3
    <3>2. CASE /\ answer' = [answer EXCEPT ![q] = <<[node |-> ErrorNode, seen |-> Len(log), of |-> << >>]>>]
               /\ UNCHANGED server
      <4> DEFINE b == [node |-> ErrorNode, seen |-> Len(log), of |-> << >>]
      <4>1. b.node = ErrorNode
        OBVIOUS
      <4>2. answer' = [answer EXCEPT ![q] = <<b>>]
        BY <3>2
      <4> HIDE DEF b, r
      <4>3. Snapshot(log', group', b, r)
        BY <4>1 DEF Snapshot
      <4> QED BY <1>5, <3>2, <4>2, <4>3
    <3> QED BY <1>13, <3>1, <3>2 DEF Serves
  <2>4. <<b>>[1] = b
    OBVIOUS
  <2>5. ASSUME NEW k \in Queries
        PROVE  \/ answer'[k] = answer[k] /\ request'[k] = request[k]
               \/ Snapshot(log', group', answer'[k][1], request'[k][1])
    <3>1. CASE k = q
      <4>1. answer'[k] = <<b>>
        BY <1>1, <2>3, <3>1 DEF CallsOK
      <4> QED BY <2>1, <2>3, <2>4, <3>1, <4>1
    <3>2. CASE k # q
      BY <1>1, <2>1, <2>3, <3>2 DEF CallsOK
    <3> QED BY <3>1, <3>2
  <2>6. AnswersInv'
    BY <1>1, <2>3, <2>5, AnswersKept
  <2> QED BY <1>1, <2>1, <2>3, <2>6, StoreKept
<1>14. ASSUME NEW q \in Queries, Returns(q)
       PROVE  ServerInv(log', group') /\ AnswersInv' /\ StoreInv'
  <2>1. /\ UNCHANGED server
        /\ answer' = [answer EXCEPT ![q] = << >>] /\ request' = [request EXCEPT ![q] = << >>]
    BY <1>14 DEF Returns
  <2>2. ASSUME NEW k \in Queries, answer'[k] # << >>
        PROVE  answer'[k] = answer[k] /\ request'[k] = request[k]
    BY <1>1, <2>1, <2>2 DEF CallsOK
  <2>3. AnswersInv'
    BY <1>1, <1>5, <2>1, <2>2, AnswersKept
  <2>4. StoreInv'
    BY <1>14, ReturnKeeps
  <2> QED BY <1>5, <2>1, <2>3, <2>4
<1> QED BY <1>7, <1>8, <1>9, <1>10, <1>11, <1>12, <1>13, <1>14 DEF GroupsNext

\* The invariant holds of every behaviour of the groups layer.
LEMMA HInvariance == GroupsSpec => []HInv
<1>1. GroupsInit => HInv
  <2> SUFFICES ASSUME GroupsInit PROVE HInv
    OBVIOUS
  <2>1. GInv
    BY GInvInit
  <2>2. log = << >> /\ next = 1 /\ acked = 1 /\ since = Untracked
        /\ answer = [q \in Queries |-> << >>]
    BY DEF GroupsInit
  <2>3. group.code = 0 => DOMAIN group.members = {}
    <3>1. DOMAIN NoGroup.members = {}
      BY DEF NoGroup
    <3>2. ASSUME NEW m, NEW t PROVE NewGroup({m}, t).code = 1
      BY DEF NewGroup, NoGroup
    <3>3. group = NoGroup \/ \E m \in Members, t \in Texts : group = NewGroup({m}, t)
      BY DEF GroupsInit
    <3>4. CASE group = NoGroup
      BY <3>1, <3>4
    <3>5. CASE \E m \in Members, t \in Texts : group = NewGroup({m}, t)
      <4>1. PICK m \in Members, t \in Texts : group = NewGroup({m}, t)
        BY <3>5
      <4>2. group.code = 1
        BY <3>2, <4>1
      <4> QED BY <4>2
    <3> QED BY <3>3, <3>4, <3>5
  <2>4. log \in Seq(ChangeType) /\ Len(log) = 0
    BY <2>2
  <2>5. \A x \in Things : At(log, group, 0, x, Value(group, x))
    <3>1. \A j \in 1..0 : FALSE
      OBVIOUS
    <3>2. 0 \in Nat /\ Len(log) = 0
      BY <2>4
    <3> TAKE x \in Things
    <3>3. At(log, group, 0, x, Value(group, x)) <=>
            /\ x.kind = "role" /\ Value(group, x) = "superadmin" => \A j \in 1..0 : ~Raises(log[j], x)
            /\ Value(group, x) = Value(group, x)
      BY <3>2, AtEnd
    <3> QED BY <3>1, <3>3
  <2>6. ServerInv(log, group)
    BY <2>3, <2>4, <2>5 DEF ServerInv
  <2>7. AnswersInv
    BY <2>2 DEF AnswersInv
  <2>8. StoreInv
    BY <2>2, <2>4 DEF StoreInv, Untracked
  <2> QED BY <2>1, <2>6, <2>7, <2>8 DEF HInv
<1> QED BY <1>1, HInvStep, PTL DEF GroupsSpec

\* The store follows the group: when all notifications have come, in any number of
\* deliveries, it has what the server has, unless metadata was overtaken or changes are
\* missing that this client is not told of.
THEOREM StoreFollows == GroupsSpec => []StoreConverges
<1>1. HInv => StoreConverges
  <2> SUFFICES ASSUME HInv, since # Untracked, UpToDate, \A i \in since .. Len(log) : log[i].told
               PROVE  SameGroup(group, known[1])
    BY DEF StoreConverges
  <2>1. /\ next \in Nat /\ next <= Len(log) + 1 /\ since <= next /\ since \in Nat
        /\ Len(log) \in Nat /\ group \in GroupType
    BY DEF HInv, GInv, StoreInv, ServerInv
  <2>2. PICK mine : known = <<mine>> /\ Follows(log, group, next, mine)
    BY DEF HInv, StoreInv, AllTold
  <2>3. next = Len(log) + 1
    <3>1. SUFFICES ASSUME next <= Len(log) PROVE FALSE
      BY <2>1
    <3>2. next \in since .. Len(log) /\ next \in next .. Len(log)
      BY <2>1, <3>1
    <3>3. next \in Told
      BY <3>2 DEF Told
    <3> QED BY <3>3 DEF UpToDate
  <2>4. SameGroup(group, mine)
    BY <2>1, <2>2, <2>3, FollowsToEnd
  <2> QED BY <2>2, <2>4
<1> QED BY <1>1, HInvariance, PTL

===============================================================================
