---------------------------- MODULE MessagingProofs ----------------------------
(***************************************************************************)
(* Sending messages, for any messages, contents and number of events: what *)
(* the server gets is in the order of the calls, and a message comes       *)
(* before what refers to it; the store has no own message that was         *)
(* rejected and each message once; and no chat goes back in time.          *)
(***************************************************************************)
EXTENDS Messaging, SequenceTheorems, FiniteSetTheorems, TLAPS

CallStates == {"idle", "building", "writing", "sent", "failed"}

Nodes == [tag : {"message", "receipt", "chatstate"},
          type : {"text", "media", "reaction", "revoke", "read", None},
          id : Messages \cup {NoKey}, ref : Messages \cup {NoKey}]

Typed ==
    /\ calls \in [Own -> CallStates] /\ DOMAIN content = Own
    /\ turn \in Seq(Own) /\ writes \in Seq(Own) /\ called \in Seq(Own)
    /\ wire \in Seq(Nodes) /\ delivered \in Seq(Nodes)
    /\ DOMAIN record \subseteq Messages /\ DOMAIN dump.record \subseteq Messages
    /\ hasty \subseteq Chosen

\* The message has been written, or has failed.
Started(m) == calls[m] \in {"writing", "sent", "failed"}

\* A key that a node may carry.
Known(key) == key \in Messages \cup {NoKey} /\ (key \in Own => Started(key) \/ key \in hasty)

\* One message's call was made before that of the other.
Before(x, y) == \E k, l \in 1..Len(called) : k < l /\ called[k] = x /\ called[l] = y

\* What a call that is due refers to is a message that has been written, or one that is due
\* before it.
Follows(i) ==
    \/ Known(RefOf(content[turn[i]]))
    \/ \E j \in 1..Len(turn) : j < i /\ turn[j] = RefOf(content[turn[i]])

\* The continuations that are due are of calls in their order.
TurnInv ==
    \A i \in 1..Len(turn) :
        /\ calls[turn[i]] = "building" /\ Follows(i)
        /\ \A j \in 1..Len(turn) : i < j => Before(turn[i], turn[j]) /\ turn[i] # turn[j]

CalledInv ==
    /\ \A m \in Own : calls[m] # "idle" => \E k \in 1..Len(called) : called[k] = m
    /\ \A i \in 1..Len(writes) : calls[writes[i]] # "idle"
    /\ \A m \in Own : calls[m] = "building" => \E j \in 1..Len(turn) : turn[j] = m

\* A node is about messages that have been written, and comes before what is still to be.
NodesInv ==
    /\ \A i \in 1..Len(delivered) : delivered[i].tag = "message"
    /\ \A i \in 1..Len(Sent) :
          /\ Known(Sent[i].ref)
          /\ IsOwnMessage(Sent[i]) => /\ Started(Sent[i].id)
                                      /\ \A j \in 1..Len(turn) : Before(Sent[i].id, turn[j])

OrderInv ==
    \A i, j \in 1..Len(Sent) : i < j /\ IsOwnMessage(Sent[j]) =>
        /\ Sent[j].id \notin hasty => Sent[i].ref # Sent[j].id
        /\ IsOwnMessage(Sent[i]) => Before(Sent[i].id, Sent[j].id)

ClientInv == TurnInv /\ CalledInv /\ NodesInv /\ OrderInv

\* The store, and its dump, have an own message only if it was written or received.
StoreInv == \A m \in Own \cap (DOMAIN record \cup DOMAIN dump.record) : calls[m] = "sent" \/ m \in Received

Inv == Typed /\ ClientInv /\ StoreInv

-----------------------------------------------------------------------------
(* The nodes sent.                                                          *)

LEMMA NoKeyIsNone == NoKey \notin Messages
  BY PairAssumption DEF NoKey

LEMMA Joined ==
    ASSUME NEW d \in Seq(Nodes), NEW w \in Seq(Nodes)
    PROVE  /\ d \o w \in Seq(Nodes) /\ Len(d \o w) = Len(d) + Len(w)
           /\ Len(d) \in Nat /\ Len(w) \in Nat /\ DOMAIN (d \o w) = 1..Len(d \o w)
           /\ \A i \in 1..Len(d \o w) : (d \o w)[i] = IF i <= Len(d) THEN d[i] ELSE w[i - Len(d)]
  <1>1. /\ d \o w \in Seq(Nodes) /\ Len(d \o w) = Len(d) + Len(w)
        /\ \A i \in 1..(Len(d) + Len(w)) : (d \o w)[i] = IF i <= Len(d) THEN d[i] ELSE w[i - Len(d)]
    BY ConcatProperties
  <1>2. Len(d) \in Nat /\ Len(w) \in Nat /\ DOMAIN (d \o w) = 1..Len(d \o w)
    BY <1>1, LenProperties
  <1> QED BY <1>1, <1>2

LEMMA SentIs ==
    ASSUME Typed
    PROVE  /\ Sent \in Seq(Nodes) /\ Len(Sent) = Len(delivered) + Len(wire)
           /\ Len(delivered) \in Nat /\ Len(wire) \in Nat /\ DOMAIN Sent = 1..Len(Sent)
           /\ \A i \in 1..Len(Sent) :
                 Sent[i] = IF i <= Len(delivered) THEN delivered[i] ELSE wire[i - Len(delivered)]
  BY Joined DEF Typed, Sent

\* The same in the next state.
LEMMA SentIsNext ==
    ASSUME Typed'
    PROVE  /\ Sent' \in Seq(Nodes) /\ Len(Sent') = Len(delivered') + Len(wire')
           /\ Len(delivered') \in Nat /\ Len(wire') \in Nat
           /\ \A i \in 1..Len(Sent') :
                 Sent'[i] = IF i <= Len(delivered') THEN delivered'[i] ELSE wire'[i - Len(delivered')]
  BY Joined DEF Typed, Sent

LEMMA NodeTyped ==
    ASSUME NEW n \in Nodes
    PROVE  n.id \in Messages \cup {NoKey} /\ n.ref \in Messages \cup {NoKey}
  BY DEF Nodes

\* t has some of the elements of s, in their order.
Thinned(s, t) ==
    \E f \in [1..Len(t) -> 1..Len(s)] :
        \A i \in 1..Len(t) : t[i] = s[f[i]] /\ \A j \in 1..Len(t) : i < j => f[i] < f[j]

LEMMA SameSent ==
    ASSUME Typed, UNCHANGED <<wire, delivered>>
    PROVE  Thinned(Sent, Sent') /\ Sent' = Sent
  <1>1. Sent' = Sent /\ Len(Sent) \in Nat
    BY SentIs DEF Sent
  <1>2. Thinned(Sent, Sent)
    <2> DEFINE f == [i \in 1..Len(Sent) |-> i]
    <2>1. f \in [1..Len(Sent) -> 1..Len(Sent)]
      OBVIOUS
    <2>2. \A i \in 1..Len(Sent) : Sent[i] = Sent[f[i]] /\ \A j \in 1..Len(Sent) : i < j => f[i] < f[j]
      OBVIOUS
    <2> QED BY <2>1, <2>2 DEF Thinned
  <1> QED BY <1>1, <1>2

LEMMA LostSent ==
    ASSUME Typed, Typed', wire' = << >>, delivered' = delivered
    PROVE  Thinned(Sent, Sent')
  <1>1. Len(wire') = 0
    BY EmptySeq
  <1>2. Len(Sent') = Len(delivered) /\ \A i \in 1..Len(Sent') : Sent'[i] = delivered[i]
    <2>1. /\ Len(Sent') = Len(delivered') + Len(wire') /\ Len(delivered') \in Nat
          /\ \A i \in 1..Len(Sent') :
                Sent'[i] = IF i <= Len(delivered') THEN delivered'[i] ELSE wire'[i - Len(delivered')]
      BY SentIsNext
    <2> QED BY <1>1, <2>1
  <1> DEFINE f == [i \in 1..Len(Sent') |-> i]
  <1>3. f \in [1..Len(Sent') -> 1..Len(Sent)]
    BY <1>2, SentIs
  <1>4. \A i \in 1..Len(Sent') : Sent'[i] = Sent[f[i]] /\ \A j \in 1..Len(Sent') : i < j => f[i] < f[j]
    BY <1>2, SentIs
  <1> QED BY <1>3, <1>4 DEF Thinned

LEMMA ReceivedSent ==
    ASSUME Typed, ServerReceives
    PROVE  Typed' /\ Thinned(Sent, Sent')
  <1>1. /\ wire # << >> /\ wire' = Tail(wire)
        /\ delivered' = IF Head(wire).tag = "message" THEN Append(delivered, Head(wire)) ELSE delivered
        /\ UNCHANGED <<calls, content, turn, writes, called, hasty, record, dump>>
    BY DEF ServerReceives, client, storevars, history
  <1>2. /\ Head(wire) \in Nodes /\ Head(wire) = wire[1] /\ wire' \in Seq(Nodes)
        /\ Len(wire') = Len(wire) - 1 /\ Len(wire) \in Nat \ {0}
        /\ \A i \in 1..Len(wire') : wire'[i] = wire[i + 1]
    <2>1. Head(wire) \in Nodes /\ Tail(wire) \in Seq(Nodes) /\ Len(Tail(wire)) = Len(wire) - 1
          /\ \A i \in 1..Len(Tail(wire)) : Tail(wire)[i] = wire[i + 1]
      BY <1>1, HeadTailProperties DEF Typed
    <2>2. Len(wire) \in Nat \ {0} /\ Head(wire) = wire[1]
      BY <1>1, EmptySeq DEF Typed
    <2> QED BY <1>1, <2>1, <2>2
  <1>3. CASE Head(wire).tag = "message"
    <2>1. /\ delivered' \in Seq(Nodes) /\ Len(delivered') = Len(delivered) + 1
          /\ \A i \in 1..Len(delivered) : delivered'[i] = delivered[i]
          /\ delivered'[Len(delivered) + 1] = Head(wire)
      BY <1>1, <1>2, <1>3, AppendProperties DEF Typed
    <2>2. Typed'
      BY <1>1, <1>2, <2>1 DEF Typed
    <2>3. Len(Sent') = Len(Sent) /\ Len(Sent) \in Nat
      BY <1>2, <2>1, <2>2, SentIs, SentIsNext
    <2>4. \A i \in 1..Len(Sent) : Sent'[i] = Sent[i]
      <3> SUFFICES ASSUME NEW i \in 1..Len(Sent) PROVE Sent'[i] = Sent[i]
        OBVIOUS
      <3>0. Sent'[i] = IF i <= Len(delivered') THEN delivered'[i] ELSE wire'[i - Len(delivered')]
        BY <2>2, <2>3, SentIsNext
      <3>00. Sent[i] = IF i <= Len(delivered) THEN delivered[i] ELSE wire[i - Len(delivered)]
        BY SentIs
      <3>000. Len(delivered) \in Nat /\ Len(Sent) = Len(delivered) + Len(wire)
        BY SentIs
      <3>1. CASE i <= Len(delivered)
        BY <2>1, <3>0, <3>00, <3>000, <3>1
      <3>2. CASE i = Len(delivered) + 1
        BY <1>2, <2>1, <3>0, <3>00, <3>000, <3>2
      <3>3. CASE i > Len(delivered) + 1
        <4>1. i - Len(delivered) - 1 \in 1..Len(wire')
          BY <1>2, <3>000, <3>3
        <4> QED BY <1>2, <2>1, <3>0, <3>00, <3>000, <3>3, <4>1
      <3> QED BY <3>000, <3>1, <3>2, <3>3
    <2> DEFINE f == [i \in 1..Len(Sent') |-> i]
    <2>5. f \in [1..Len(Sent') -> 1..Len(Sent)]
      BY <2>3
    <2>6. \A i \in 1..Len(Sent') : Sent'[i] = Sent[f[i]] /\ \A j \in 1..Len(Sent') : i < j => f[i] < f[j]
      BY <2>3, <2>4
    <2> QED BY <2>2, <2>5, <2>6 DEF Thinned
  <1>4. CASE Head(wire).tag # "message"
    <2>1. delivered' = delivered /\ Typed'
      BY <1>1, <1>2, <1>4 DEF Typed
    <2>2. /\ Len(Sent') = Len(Sent) - 1 /\ Len(Sent) = Len(delivered) + Len(wire)
          /\ Len(delivered) \in Nat
          /\ \A i \in 1..Len(Sent) :
                Sent[i] = IF i <= Len(delivered) THEN delivered[i] ELSE wire[i - Len(delivered)]
          /\ \A i \in 1..Len(Sent') :
                Sent'[i] = IF i <= Len(delivered) THEN delivered[i] ELSE wire'[i - Len(delivered)]
      <3>1. /\ Len(Sent') = Len(delivered') + Len(wire')
            /\ \A i \in 1..Len(Sent') :
                  Sent'[i] = IF i <= Len(delivered') THEN delivered'[i] ELSE wire'[i - Len(delivered')]
        BY <2>1, SentIsNext
      <3> QED BY <1>2, <2>1, <3>1, SentIs
    <2> DEFINE f == [i \in 1..Len(Sent') |-> IF i <= Len(delivered) THEN i ELSE i + 1]
    <2>3. f \in [1..Len(Sent') -> 1..Len(Sent)]
      BY <1>2, <2>2
    <2>4. ASSUME NEW i \in 1..Len(Sent') PROVE Sent'[i] = Sent[f[i]]
      <3>1. CASE i <= Len(delivered)
        BY <1>2, <2>2, <3>1
      <3>2. CASE i > Len(delivered)
        <4>1. i - Len(delivered) \in 1..Len(wire') /\ i + 1 \in 1..Len(Sent)
              /\ i - Len(delivered) + 1 = i + 1 - Len(delivered) /\ f[i] = i + 1
          BY <1>2, <2>2, <3>2
        <4>2. Sent'[i] = wire'[i - Len(delivered)]
          BY <2>2, <3>2
        <4>3. Sent[i + 1] = wire[i + 1 - Len(delivered)]
          BY <2>2, <3>2, <4>1
        <4> QED BY <1>2, <4>1, <4>2, <4>3
      <3> QED BY <2>2, <3>1, <3>2
    <2>5. \A i, j \in 1..Len(Sent') : i < j => f[i] < f[j]
      BY <1>2, <2>2
    <2> QED BY <2>1, <2>3, <2>4, <2>5 DEF Thinned
  <1> QED BY <1>3, <1>4

LEMMA OneMoreSent ==
    ASSUME Typed, NEW n \in Nodes, wire' = Append(wire, n), delivered' = delivered
    PROVE  /\ wire' \in Seq(Nodes) /\ Len(Sent) \in Nat /\ Len(Sent') = Len(Sent) + 1
           /\ \A i \in 1..Len(Sent) : Sent'[i] = Sent[i]
           /\ Sent'[Len(Sent) + 1] = n
  <1>1. wire' = wire \o <<n>> /\ <<n>> \in Seq(Nodes) /\ wire' \in Seq(Nodes)
    BY AppendIsConcat, AppendProperties DEF Typed
  <1>2. Sent' = Sent \o <<n>>
    BY <1>1, ConcatAssociative DEF Typed, Sent
  <1>3. Sent' = Append(Sent, n)
    BY <1>2, SentIs, AppendIsConcat
  <1> QED BY <1>1, <1>3, SentIs, AppendProperties

-----------------------------------------------------------------------------
(* Messages are sent in the order of their calls.                           *)

LEMMA TypesOf ==
    ASSUME Typed
    PROVE  /\ Len(turn) \in Nat /\ Len(called) \in Nat
           /\ \A i \in 1..Len(turn) : turn[i] \in Own
           /\ \A i \in 1..Len(called) : called[i] \in Own
           /\ \A i \in 1..Len(writes) : writes[i] \in Own
           /\ \A i \in 1..Len(Sent) : Sent[i] \in Nodes /\ Sent[i].id \in Messages \cup {NoKey}
                                      /\ Sent[i].ref \in Messages \cup {NoKey}
  BY LenProperties, ElementOfSeq, SentIs, NodeTyped DEF Typed

\* Calls only proceed, and none of what is due has been done.
LEMMA CallsProceed ==
    ASSUME Typed, ClientInv, turn' = turn \/ turn' = << >>,
           writes' = writes \/ writes' = << >> \/ (writes # << >> /\ writes' = Tail(writes)),
           UNCHANGED <<content, called>>,
           \A i \in 1..Len(turn') : calls'[turn'[i]] = "building",
           \A m \in Own : (Started(m) => Started(m)') /\ (calls'[m] # "idle" <=> calls[m] # "idle"),
           hasty \subseteq hasty',
           \A m \in Own : calls'[m] = "building" => calls[m] = "building" /\ turn' = turn
    PROVE  /\ TurnInv' /\ CalledInv'
           /\ \A j \in 1..Len(turn') : \E i \in 1..Len(turn) : turn'[j] = turn[i]
  <1>1. \A x, y \in Own : Before(x, y)' <=> Before(x, y)
    BY DEF Before
  <1>2. \A i \in 1..Len(turn') : i \in 1..Len(turn) /\ turn'[i] = turn[i]
    BY EmptySeq
  <1>3. \A key : Known(key) => Known(key)'
    BY DEF Known
  <1>4. TurnInv'
    <2>1. ASSUME NEW i \in 1..Len(turn') PROVE Follows(i)'
      <3>1. turn' = turn /\ i \in 1..Len(turn)
        BY <1>2, EmptySeq
      <3>2. Follows(i)
        BY <3>1 DEF ClientInv, TurnInv
      <3>3. CASE Known(RefOf(content[turn[i]]))
        BY <1>3, <3>1, <3>3 DEF Follows, RefOf
      <3>4. CASE \E j \in 1..Len(turn) : j < i /\ turn[j] = RefOf(content[turn[i]])
        BY <3>1, <3>4 DEF Follows, RefOf
      <3> QED BY <3>2, <3>3, <3>4 DEF Follows
    <2>2. ASSUME NEW i \in 1..Len(turn'), NEW j \in 1..Len(turn'), i < j
          PROVE  Before(turn[i], turn[j])' /\ turn'[i] # turn'[j]
      BY <1>1, <1>2, <2>2, TypesOf DEF ClientInv, TurnInv
    <2> QED BY <2>1, <2>2 DEF TurnInv
  <1>5. \A i \in 1..Len(writes') : writes'[i] \in Own /\ calls[writes'[i]] # "idle"
    <2>1. CASE writes' = writes
      BY <2>1, TypesOf DEF ClientInv, CalledInv
    <2>2. CASE writes' = << >>
      BY <2>2, EmptySeq
    <2>3. CASE writes # << >> /\ writes' = Tail(writes)
      <3>1. \A i \in 1..Len(writes') : i + 1 \in 1..Len(writes) /\ writes'[i] = writes[i + 1]
        BY <2>3, HeadTailProperties, EmptySeq DEF Typed
      <3> QED BY <3>1, TypesOf DEF ClientInv, CalledInv
    <2> QED BY <2>1, <2>2, <2>3
  <1>6. CalledInv'
    <2>1. \A m \in Own : calls'[m] = "building" => \E j \in 1..Len(turn') : turn'[j] = m
      BY DEF ClientInv, CalledInv
    <2>2. \A m \in Own : calls'[m] # "idle" => \E k \in 1..Len(called') : called'[k] = m
      BY DEF ClientInv, CalledInv
    <2> QED BY <1>5, <2>1, <2>2 DEF CalledInv
  <1> QED BY <1>2, <1>4, <1>6

\* No node is sent; some may be lost.
LEMMA NothingSent ==
    ASSUME Typed, ClientInv, Thinned(Sent, Sent'), called' = called, TurnInv', CalledInv',
           \A i \in 1..Len(delivered') : delivered'[i].tag = "message",
           \A j \in 1..Len(turn') : \E i \in 1..Len(turn) : turn'[j] = turn[i],
           \A m \in Own : Started(m) => Started(m)',
           hasty \subseteq hasty'
    PROVE  ClientInv'
  <1>0. PICK f \in [1..Len(Sent') -> 1..Len(Sent)] :
            \A i \in 1..Len(Sent') : /\ Sent'[i] = Sent[f[i]]
                                     /\ \A j \in 1..Len(Sent') : i < j => f[i] < f[j]
    BY DEF Thinned
  <1>1. \A x, y : Before(x, y)' <=> Before(x, y)
    BY DEF Before
  <1>2. \A key : Known(key) => Known(key)'
    BY DEF Known
  <1>3. ASSUME NEW i \in 1..Len(Sent') PROVE f[i] \in 1..Len(Sent) /\ Sent'[i] = Sent[f[i]]
    BY <1>0
  <1>4. NodesInv'
    <2> SUFFICES ASSUME NEW i \in 1..Len(Sent')
                 PROVE  /\ Known(Sent[i].ref)'
                        /\ IsOwnMessage(Sent'[i]) => /\ Started(Sent[i].id)'
                                                     /\ \A j \in 1..Len(turn') : Before(Sent[i].id, turn[j])'
      BY DEF NodesInv, IsOwnMessage
    <2>1. Known(Sent[i].ref)'
      BY <1>2, <1>3 DEF ClientInv, NodesInv
    <2>2. ASSUME IsOwnMessage(Sent'[i])
          PROVE  /\ Started(Sent[i].id)'
                 /\ \A j \in 1..Len(turn') : Before(Sent[i].id, turn[j])'
      BY <1>1, <1>3, <2>2, TypesOf DEF ClientInv, NodesInv, IsOwnMessage
    <2> QED BY <2>1, <2>2
  <1>5. OrderInv'
    <2> SUFFICES ASSUME NEW i \in 1..Len(Sent'), NEW j \in 1..Len(Sent'), i < j, IsOwnMessage(Sent'[j])
                 PROVE  /\ Sent'[j].id \notin hasty' => Sent'[i].ref # Sent'[j].id
                        /\ IsOwnMessage(Sent'[i]) => Before(Sent[i].id, Sent[j].id)'
      BY DEF OrderInv, IsOwnMessage
    <2>1. f[i] < f[j]
      BY <1>0
    <2>2. /\ Sent[f[j]].id \notin hasty => Sent[f[i]].ref # Sent[f[j]].id
          /\ IsOwnMessage(Sent[f[i]]) => Before(Sent[f[i]].id, Sent[f[j]].id)
      BY <1>3, <2>1 DEF ClientInv, OrderInv
    <2> QED BY <1>1, <1>3, <2>2 DEF IsOwnMessage
  <1> QED BY <1>4, <1>5 DEF ClientInv

\* A node is handed to the socket.
LEMMA NodeSent ==
    ASSUME Typed, ClientInv, NEW n \in Nodes, wire' = Append(wire, n),
           UNCHANGED <<delivered, called>>, TurnInv', CalledInv', Known(n.ref)', hasty \subseteq hasty',
           \A m \in Own : Started(m) => Started(m)',
           \A j \in 1..Len(turn') : \E i \in 1..Len(turn) : turn'[j] = turn[i],
           IsOwnMessage(n) =>
              /\ ~Started(n.id) /\ calls'[n.id] \in {"writing", "sent", "failed"}
              /\ \A i \in 1..Len(Sent) : IsOwnMessage(Sent[i]) => Before(Sent[i].id, n.id)
              /\ \A j \in 1..Len(turn') : Before(n.id, turn'[j])
    PROVE  ClientInv'
  <1>0. /\ Len(Sent) \in Nat /\ Len(Sent') = Len(Sent) + 1
        /\ \A i \in 1..Len(Sent) : Sent'[i] = Sent[i]
        /\ Sent'[Len(Sent) + 1] = n
    BY OneMoreSent
  <1>1. \A x, y : Before(x, y)' <=> Before(x, y)
    BY DEF Before
  <1>2. \A key : Known(key) => Known(key)'
    BY DEF Known
  <1>3. \A i \in 1..Len(Sent') : i \in 1..Len(Sent) \/ i = Len(Sent) + 1
    BY <1>0
  <1>4. NodesInv'
    <2> SUFFICES ASSUME NEW i \in 1..Len(Sent')
                 PROVE  /\ Known(Sent[i].ref)'
                        /\ IsOwnMessage(Sent'[i]) => /\ Started(Sent[i].id)'
                                                     /\ \A j \in 1..Len(turn') : Before(Sent[i].id, turn[j])'
      BY DEF ClientInv, NodesInv, IsOwnMessage
    <2>1. CASE i \in 1..Len(Sent)
      <3>1. Sent'[i] = Sent[i]
        BY <1>0, <2>1
      <3>2. Known(Sent[i].ref)'
        BY <1>2, <2>1, <3>1 DEF ClientInv, NodesInv
      <3>3. ASSUME IsOwnMessage(Sent'[i])
            PROVE  /\ Started(Sent[i].id)'
                   /\ \A j \in 1..Len(turn') : Before(Sent[i].id, turn[j])'
        BY <1>1, <2>1, <3>1, <3>3 DEF ClientInv, NodesInv, IsOwnMessage
      <3> QED BY <3>2, <3>3
    <2>2. CASE i = Len(Sent) + 1
      <3>1. Sent'[i] = n
        BY <1>0, <2>2
      <3>2. Known(Sent[i].ref)'
        BY <3>1
      <3> QED BY <1>1, <3>1, <3>2 DEF Started
    <2> QED BY <1>3, <2>1, <2>2
  <1>5. OrderInv'
    <2> SUFFICES ASSUME NEW i \in 1..Len(Sent'), NEW j \in 1..Len(Sent'), i < j, IsOwnMessage(Sent'[j])
                 PROVE  /\ Sent'[j].id \notin hasty' => Sent'[i].ref # Sent'[j].id
                        /\ IsOwnMessage(Sent'[i]) => Before(Sent[i].id, Sent[j].id)'
      BY DEF OrderInv, IsOwnMessage
    <2>0. i \in 1..Len(Sent) /\ Sent'[i] = Sent[i]
      BY <1>0
    <2>1. CASE j \in 1..Len(Sent)
      <3>1. Sent'[j] = Sent[j]
        BY <1>0, <2>1
      <3> QED BY <1>1, <2>0, <2>1, <3>1 DEF ClientInv, OrderInv
    <2>2. CASE j = Len(Sent) + 1
      <3>1. Sent'[j] = n
        BY <1>0, <2>2
      <3>2. n.id \notin hasty' => Sent[i].ref # n.id
        BY <2>0, <3>1 DEF ClientInv, NodesInv, Known, IsOwnMessage
      <3> QED BY <1>1, <2>0, <3>1, <3>2
    <2> QED BY <1>3, <2>1, <2>2
  <1> QED BY <1>4, <1>5 DEF ClientInv

-----------------------------------------------------------------------------
(* What the application can name, and what it sends.                        *)

LEMMA KeysAreKnown ==
    ASSUME Inv, NEW k \in Keys
    PROVE  k \in Messages /\ (k \in Own => Started(k) \/ k \in Chosen)
  <1>1. k \in Messages
    BY OwnAssumption, ChosenAssumption DEF Keys, Inv, Typed
  <1>2. ASSUME k \in Own, k \notin Chosen PROVE Started(k)
    <2>1. calls[k] = "sent" \/ k \in Received
      BY <1>2 DEF Keys, Inv, StoreInv
    <2>2. CASE calls[k] = "sent"
      BY <2>2 DEF Started
    <2>3. CASE k \in Received
      <3>1. PICK i \in 1..Len(delivered) : delivered[i].id = k
        BY <2>3, LenProperties DEF Received, Inv, Typed
      <3>2. i \in 1..Len(Sent) /\ Sent[i] = delivered[i]
        BY SentIs DEF Inv
      <3>3. delivered[i].tag = "message"
        BY DEF Inv, ClientInv, NodesInv
      <3> QED BY <1>2, <3>1, <3>2, <3>3 DEF Inv, ClientInv, NodesInv, IsOwnMessage
    <2> QED BY <2>1, <2>2, <2>3
  <1> QED BY <1>1, <1>2

LEMMA NothingIsKnown == Known(NoKey)
  BY NoKeyIsNone, OwnAssumption DEF Known

\* Only a message with a chosen id can be named too early.
LEMMA OnlyChosenHasty ==
    ASSUME Inv, NEW k \in Keys \cup {NoKey}, NEW states \in SUBSET {"idle", "building"},
           hasty' = Named(k, states)
    PROVE  hasty \subseteq hasty' /\ hasty' \subseteq Chosen
  <1>1. hasty \subseteq hasty' /\ hasty \subseteq Chosen
    BY DEF Named, Inv, Typed
  <1>2. ASSUME NEW m \in Own, m = k, calls[m] \in states PROVE m \in Chosen
    <2>1. m \in Keys
      BY <1>2, NoKeyIsNone, OwnAssumption
    <2> QED BY <1>2, <2>1, KeysAreKnown DEF Started
  <1> QED BY <1>1, <1>2 DEF Named

LEMMA ContentsAreKeys == ASSUME NEW m \in Own, NEW c \in ContentsOf(m) PROVE RefOf(c) \in Keys \cup {NoKey}
  BY DEF ContentsOf, MediaTypes, RefOf

LEMMA BuiltNode ==
    ASSUME NEW m \in Own, NEW c, RefOf(c) \in Messages \cup {NoKey}, BuildMessageContent(c) # << >>
    PROVE  /\ BuildMessageNode(m, BuildMessageContent(c)[1]) \in Nodes
           /\ BuildMessageNode(m, BuildMessageContent(c)[1]).tag = "message"
           /\ BuildMessageNode(m, BuildMessageContent(c)[1]).id = m
           /\ BuildMessageNode(m, BuildMessageContent(c)[1]).ref = RefOf(c)
  <1> DEFINE built == BuildMessageContent(c)[1]
             n     == BuildMessageNode(m, built)
  <1>1. /\ n.tag = "message" /\ n.id = m
        /\ n.ref = IF "key" \in DOMAIN built THEN built.key ELSE NoKey
        /\ n = [tag |-> "message", type |-> n.type, id |-> m, ref |-> n.ref]
        /\ n.type \in {"media", "reaction", "text"}
    BY DEF BuildMessageNode, Node
  <1>2. n.ref = RefOf(c)
    <2>1. CASE c.type = "text"
      <3>1. built = [kind |-> "text"]
        BY <2>1 DEF BuildMessageContent, MediaTypes
      <3>2. "key" \notin DOMAIN built
        BY <3>1
      <3> QED BY <1>1, <2>1, <3>2 DEF RefOf
    <2>2. CASE c.type \in {"reaction", "delete", "edit"}
      <3>1. \E kind : built = [kind |-> kind, key |-> c.key]
        BY <2>2 DEF BuildMessageContent, MediaTypes
      <3>2. "key" \in DOMAIN built /\ built.key = c.key
        BY <3>1
      <3> QED BY <1>1, <2>2, <3>2 DEF RefOf
    <2>3. CASE c.type \in MediaTypes
      <3>1. built = [kind |-> "media"]
        BY <2>3 DEF BuildMessageContent, MediaTypes
      <3>2. "key" \notin DOMAIN built
        BY <3>1
      <3> QED BY <1>1, <2>3, <3>2 DEF RefOf, MediaTypes
    <2>4. CASE c.type \notin {"text", "reaction", "delete", "edit"} \cup MediaTypes
      BY <2>4 DEF BuildMessageContent
    <2> QED BY <2>1, <2>2, <2>3, <2>4
  <1> HIDE DEF n
  <1>3. n \in Nodes
    <2>1. m \in Messages \cup {NoKey} /\ n.ref \in Messages \cup {NoKey}
      BY <1>2, OwnAssumption
    <2> QED BY <1>1, <2>1 DEF Nodes
  <1> QED BY <1>1, <1>2, <1>3 DEF n

-----------------------------------------------------------------------------
(* The turns of sendMessage().                                              *)

\* Calls that go on.
LEMMA CallGoesOn ==
    ASSUME Typed, NEW m \in Own, NEW state \in CallStates, calls' = [calls EXCEPT ![m] = state]
    PROVE  /\ calls' \in [Own -> CallStates] /\ calls'[m] = state
           /\ \A n \in Own : n # m => calls'[n] = calls[n]
  BY DEF Typed

LEMMA SendMessageOrder ==
    ASSUME Inv, NEW m \in Own, NEW c \in ContentsOf(m), SendMessage(m, c)
    PROVE  Typed' /\ ClientInv'
  <1>1. /\ calls[m] = "idle" /\ calls' = [calls EXCEPT ![m] = "building"]
        /\ content' = [content EXCEPT ![m] = c] /\ turn' = Append(turn, m) /\ called' = Append(called, m)
        /\ hasty' = Named(RefOf(c), {"idle"}) /\ UNCHANGED <<writes, wire, delivered, record, dump>>
    BY DEF SendMessage, network, history
  <1>0. RefOf(c) \in Keys \cup {NoKey} /\ hasty \subseteq hasty' /\ hasty' \subseteq Chosen
    BY <1>1, ContentsAreKeys, OnlyChosenHasty
  <1>2. /\ calls' \in [Own -> CallStates] /\ calls'[m] = "building"
        /\ \A n \in Own : n # m => calls'[n] = calls[n]
    BY <1>1, CallGoesOn DEF Inv, CallStates
  <1>3. /\ turn' \in Seq(Own) /\ Len(turn') = Len(turn) + 1 /\ Len(turn) \in Nat
        /\ turn'[Len(turn) + 1] = m /\ \A i \in 1..Len(turn) : turn'[i] = turn[i] /\ turn[i] \in Own
        /\ called' \in Seq(Own) /\ Len(called') = Len(called) + 1 /\ Len(called) \in Nat
        /\ called'[Len(called) + 1] = m /\ \A i \in 1..Len(called) : called'[i] = called[i]
    BY <1>1, AppendProperties, TypesOf DEF Inv, Typed
  <1>4. Typed' /\ content'[m] = c /\ \A n \in Own : n # m => content'[n] = content[n]
    BY <1>0, <1>1, <1>2, <1>3 DEF Inv, Typed
  <1>5. \A x, y \in Own : Before(x, y) => Before(x, y)'
    BY <1>3 DEF Before
  <1>6. ASSUME NEW x \in Own, calls[x] # "idle" PROVE Before(x, m)'
    <2>1. PICK k \in 1..Len(called) : called[k] = x
      BY <1>6 DEF Inv, ClientInv, CalledInv
    <2>2. k \in 1..Len(called') /\ Len(called) + 1 \in 1..Len(called') /\ k < Len(called) + 1
      BY <1>3
    <2> QED BY <1>3, <2>1, <2>2 DEF Before
  <1>7. /\ \A x \in Own : Started(x) => Started(x)' /\ calls[x] # "idle"
        /\ \A key : Known(key) => Known(key)'
    BY <1>0, <1>1, <1>2 DEF Started, Known
  <1>8. \A i \in 1..Len(turn) : turn[i] # m /\ calls[turn[i]] = "building"
    BY <1>1 DEF Inv, ClientInv, TurnInv
  <1>9. \A i \in 1..Len(turn') : i \in 1..Len(turn) \/ i = Len(turn) + 1
    BY <1>3
  <1>10. TurnInv'
    <2> SUFFICES ASSUME NEW i \in 1..Len(turn')
                 PROVE  /\ calls'[turn'[i]] = "building" /\ Follows(i)'
                        /\ \A j \in 1..Len(turn') : i < j => Before(turn[i], turn[j])' /\ turn'[i] # turn'[j]
      BY DEF TurnInv
    <2>1. CASE i \in 1..Len(turn)
      <3>1. turn'[i] = turn[i] /\ turn[i] # m /\ turn[i] \in Own
        BY <1>3, <1>8, <2>1
      <3>2. calls'[turn'[i]] = "building" /\ content'[turn'[i]] = content[turn[i]]
        BY <1>2, <1>4, <1>8, <2>1, <3>1
      <3>3. Follows(i)'
        <4>1. Follows(i) /\ RefOf(content[turn[i]])' = RefOf(content[turn[i]])
          BY <2>1, <3>2 DEF Inv, ClientInv, TurnInv, RefOf
        <4>2. CASE Known(RefOf(content[turn[i]]))
          BY <1>7, <4>1, <4>2 DEF Follows
        <4>3. ASSUME NEW j \in 1..Len(turn), j < i, turn[j] = RefOf(content[turn[i]]) PROVE Follows(i)'
          <5>1. j \in 1..Len(turn') /\ turn'[j] = turn[j]
            BY <1>3
          <5> QED BY <4>1, <4>3, <5>1 DEF Follows
        <4> QED BY <4>1, <4>2, <4>3 DEF Follows
      <3>4. ASSUME NEW j \in 1..Len(turn'), i < j PROVE Before(turn[i], turn[j])' /\ turn'[i] # turn'[j]
        <4>1. CASE j \in 1..Len(turn)
          <5>1. turn'[j] = turn[j] /\ turn[j] \in Own
            BY <1>3, <4>1
          <5>2. Before(turn[i], turn[j]) /\ turn[i] # turn[j]
            BY <2>1, <3>4, <4>1 DEF Inv, ClientInv, TurnInv
          <5> QED BY <1>5, <3>1, <5>1, <5>2
        <4>2. CASE j = Len(turn) + 1
          BY <1>3, <1>6, <1>8, <2>1, <3>1, <4>2
        <4> QED BY <1>9, <4>1, <4>2
      <3> QED BY <3>2, <3>3, <3>4
    <2>2. CASE i = Len(turn) + 1
      <3>1. turn'[i] = m /\ \A j \in 1..Len(turn') : ~(i < j)
        BY <1>3, <2>2
      <3> DEFINE key == RefOf(c)
      <3>2. RefOf(content[turn[i]])' = key
        BY <1>4, <3>1 DEF RefOf
      <3>3. key \in Messages \cup {NoKey}
        BY <1>0, KeysAreKnown
      <3> HIDE DEF key
      <3>4. ASSUME key \notin Own PROVE Follows(i)'
        BY <3>2, <3>3, <3>4 DEF Follows, Known
      <3>5. ASSUME key \in Own, calls[key] = "idle" PROVE Follows(i)'
        <4>1. key \in hasty'
          BY <1>1, <3>5 DEF Named, key
        <4> QED BY <3>2, <3>3, <4>1 DEF Follows, Known
      <3>6. ASSUME key \in Own, calls[key] = "building" PROVE Follows(i)'
        <4>1. PICK j \in 1..Len(turn) : turn[j] = key
          BY <3>6 DEF Inv, ClientInv, CalledInv
        <4>2. j \in 1..Len(turn') /\ j < i /\ turn'[j] = key
          BY <1>3, <2>2, <4>1
        <4> QED BY <3>2, <4>2 DEF Follows
      <3>7. ASSUME key \in Own, Started(key) PROVE Follows(i)'
        BY <1>7, <3>2, <3>3, <3>7 DEF Follows, Known
      <3>8. Follows(i)'
        <4>1. key \in Own => calls[key] \in CallStates
          BY DEF Inv, Typed
        <4> QED BY <3>4, <3>5, <3>6, <3>7, <4>1 DEF CallStates, Started
      <3> QED BY <1>2, <3>1, <3>8
    <2> QED BY <1>9, <2>1, <2>2
  <1>11. CalledInv'
    <2>1. ASSUME NEW x \in Own, calls'[x] # "idle" PROVE \E k \in 1..Len(called') : called'[k] = x
      <3>1. CASE x = m
        BY <1>3, <3>1
      <3>2. CASE x # m
        <4>1. PICK k \in 1..Len(called) : called[k] = x
          BY <1>2, <2>1, <3>2 DEF Inv, ClientInv, CalledInv
        <4>2. k \in 1..Len(called') /\ called'[k] = x
          BY <1>3, <4>1
        <4> QED BY <4>2
      <3> QED BY <3>1, <3>2
    <2>2. \A i \in 1..Len(writes') : calls'[writes'[i]] # "idle"
      BY <1>1, <1>2, TypesOf DEF Inv, ClientInv, CalledInv
    <2>3. ASSUME NEW x \in Own, calls'[x] = "building" PROVE \E j \in 1..Len(turn') : turn'[j] = x
      <3>1. CASE x = m
        BY <1>3, <3>1
      <3>2. CASE x # m
        <4>1. PICK j \in 1..Len(turn) : turn[j] = x
          BY <1>2, <2>3, <3>2 DEF Inv, ClientInv, CalledInv
        <4>2. j \in 1..Len(turn') /\ turn'[j] = x
          BY <1>3, <4>1
        <4> QED BY <4>2
      <3> QED BY <3>1, <3>2
    <2> QED BY <2>1, <2>2, <2>3 DEF CalledInv
  <1>12. Sent' = Sent
    BY <1>1 DEF Sent
  <1>13. NodesInv'
    <2> SUFFICES ASSUME NEW i \in 1..Len(Sent)
                 PROVE  /\ Known(Sent[i].ref)'
                        /\ IsOwnMessage(Sent[i]) => /\ Started(Sent[i].id)'
                                                    /\ \A j \in 1..Len(turn') : Before(Sent[i].id, turn[j])'
      BY <1>1, <1>12 DEF Inv, ClientInv, NodesInv, IsOwnMessage
    <2>1. Known(Sent[i].ref)'
      BY <1>7, <1>12 DEF Inv, ClientInv, NodesInv
    <2>2. ASSUME IsOwnMessage(Sent[i]), NEW j \in 1..Len(turn')
          PROVE  Started(Sent[i].id)' /\ Before(Sent[i].id, turn[j])'
      <3>0. Sent[i].id \in Own /\ Started(Sent[i].id)
        BY <2>2 DEF Inv, ClientInv, NodesInv, IsOwnMessage
      <3>1. CASE j \in 1..Len(turn)
        <4>1. Before(Sent[i].id, turn[j]) /\ turn'[j] = turn[j] /\ turn[j] \in Own
          BY <1>3, <2>2, <3>1 DEF Inv, ClientInv, NodesInv
        <4> QED BY <1>5, <1>7, <1>12, <3>0, <4>1
      <3>2. CASE j = Len(turn) + 1
        BY <1>3, <1>6, <1>7, <1>12, <3>0, <3>2
      <3> QED BY <1>9, <3>1, <3>2
    <2>3. ASSUME IsOwnMessage(Sent[i]) PROVE Started(Sent[i].id)'
      BY <1>7, <1>12, <2>3 DEF Inv, ClientInv, NodesInv, IsOwnMessage
    <2> QED BY <2>1, <2>2, <2>3
  <1>14. OrderInv'
    BY <1>0, <1>5, <1>12, TypesOf DEF Inv, ClientInv, OrderInv, IsOwnMessage
  <1> QED BY <1>4, <1>10, <1>11, <1>13, <1>14 DEF ClientInv

LEMMA FirstRemoved ==
    ASSUME NEW s \in Seq(Own), s # << >>
    PROVE  /\ RemoveAt(s, 1) \in Seq(Own) /\ Len(RemoveAt(s, 1)) = Len(s) - 1 /\ Len(s) \in Nat \ {0}
           /\ s[1] \in Own
           /\ \A i \in 1..Len(RemoveAt(s, 1)) : RemoveAt(s, 1)[i] = s[i + 1]
  <1> DEFINE t == SubSeq(s, 2, Len(s))
  <1>1. Len(s) \in Nat \ {0} /\ \A i \in 1..Len(s) : s[i] \in Own
    BY EmptySeq, ElementOfSeq
  <1>2. /\ t \in Seq(Own) /\ Len(t) = IF 2 <= Len(s) THEN Len(s) - 2 + 1 ELSE 0
        /\ \A i \in 1..Len(s) - 2 + 1 : t[i] = s[2 + i - 1]
    <2>1. 2 \in Int /\ Len(s) \in Int /\ \A i \in 2..Len(s) : s[i] \in Own
      BY <1>1
    <2> QED BY <2>1, SubSeqProperties
  <1>3. SubSeq(s, 1, 1 - 1) = << >>
    <2>1. 1 - 1 = 0 /\ 1 \in Int /\ 0 \in Int /\ 0 < 1
      OBVIOUS
    <2> QED BY <2>1, SubSeqEmpty
  <1> HIDE DEF t
  <1>4. Len(t) = Len(s) - 1 /\ \A i \in 1..Len(t) : t[i] = s[i + 1]
    <2>1. Len(t) = Len(s) - 1 /\ Len(s) - 2 + 1 = Len(s) - 1
      <3>1. \A n \in Nat \ {0} : n - 2 + 1 = n - 1 /\ (~(2 <= n) => n - 1 = 0)
        OBVIOUS
      <3>2. Len(s) - 2 + 1 = Len(s) - 1 /\ (~(2 <= Len(s)) => Len(s) - 1 = 0)
        BY <1>1, <3>1
      <3>3. Len(t) = IF 2 <= Len(s) THEN Len(s) - 2 + 1 ELSE 0
        BY <1>2
      <3> QED BY <3>2, <3>3
    <2>2. ASSUME NEW i \in 1..Len(t) PROVE t[i] = s[i + 1]
      <3>1. i \in 1..Len(s) - 2 + 1 /\ 2 + i - 1 = i + 1
        BY <1>1, <2>1
      <3>2. t[i] = s[2 + i - 1]
        BY <1>2, <3>1
      <3> QED BY <3>1, <3>2
    <2> QED BY SMTT(30), <2>1, <2>2
  <1>5. RemoveAt(s, 1) = << >> \o t
    BY <1>3 DEF RemoveAt, t
  <1>6. RemoveAt(s, 1) = t
    BY <1>2, <1>5, ConcatEmptySeq
  <1> QED BY <1>1, <1>2, <1>4, <1>6

LEMMA ContentBuiltOrder ==
    ASSUME Inv, ContentBuilt
    PROVE  /\ Typed' /\ ClientInv' /\ UNCHANGED <<delivered, record, dump>>
           /\ \A m \in Own : calls[m] = "sent" => calls'[m] = "sent"
  <1>0. turn # << >> /\ turn' = RemoveAt(turn, 1) /\ turn[1] \in Own
    BY FirstRemoved DEF ContentBuilt, Resumes, Inv, Typed
  <1> SUFFICES ASSUME NEW m \in Own, m = turn[1]
               PROVE  /\ Typed' /\ ClientInv' /\ UNCHANGED <<delivered, record, dump>>
                      /\ \A x \in Own : calls[x] = "sent" => calls'[x] = "sent"
    BY <1>0
  <1>1. /\ \/ /\ BuildMessageContent(content[m]) # << >>
              /\ wire' = Append(wire, BuildMessageNode(m, BuildMessageContent(content[m])[1]))
              /\ writes' = Append(writes, m) /\ calls' = [calls EXCEPT ![m] = "writing"]
           \/ UNCHANGED <<wire, writes>> /\ calls' = [calls EXCEPT ![m] = "failed"]
        /\ UNCHANGED <<content, called, hasty, delivered, record, dump>>
    BY DEF ContentBuilt, Resumes, SendNode, storevars, history
  <1>2. /\ turn' \in Seq(Own) /\ Len(turn') = Len(turn) - 1 /\ Len(turn) \in Nat \ {0}
        /\ \A i \in 1..Len(turn') : turn'[i] = turn[i + 1] /\ i + 1 \in 1..Len(turn)
    <2>1. /\ turn' \in Seq(Own) /\ Len(turn') = Len(turn) - 1 /\ Len(turn) \in Nat \ {0}
          /\ \A i \in 1..Len(turn') : turn'[i] = turn[i + 1]
      BY <1>0, FirstRemoved DEF Inv, Typed
    <2>2. \A i \in 1..Len(turn') : i + 1 \in 1..Len(turn)
      BY <2>1
    <2> QED BY <2>1, <2>2
  <1>3. /\ calls[m] = "building" /\ Known(RefOf(content[m]))
        /\ \A i \in 1..Len(turn') : turn'[i] # m /\ Before(m, turn'[i])
    <2>1. 1 \in 1..Len(turn) /\ Follows(1) /\ \A j \in 1..Len(turn) : ~(j < 1)
      BY <1>2 DEF Inv, ClientInv, TurnInv
    <2>2. Known(RefOf(content[m]))
      BY <2>1 DEF Follows
    <2> QED BY SMTT(30), <1>2, <2>2 DEF Inv, ClientInv, TurnInv
  <1>4. /\ calls' \in [Own -> CallStates] /\ calls'[m] \in {"writing", "failed"}
        /\ \A x \in Own : x # m => calls'[x] = calls[x]
    BY <1>1, <1>2, CallGoesOn DEF Inv, CallStates
  <1>5. /\ \A x \in Own : Started(x) => Started(x)'
        /\ \A key : Known(key) => Known(key)'
        /\ ~Started(m)
    BY <1>1, <1>3, <1>4 DEF Started, Known
  <1>6. \A x, y : Before(x, y)' <=> Before(x, y)
    BY <1>1 DEF Before
  <1>7. TurnInv'
    <2> SUFFICES ASSUME NEW i \in 1..Len(turn')
                 PROVE  /\ calls'[turn'[i]] = "building" /\ Follows(i)'
                        /\ \A j \in 1..Len(turn') : i < j => Before(turn[i], turn[j])' /\ turn'[i] # turn'[j]
      BY DEF TurnInv
    <2>1. turn'[i] = turn[i + 1] /\ i + 1 \in 1..Len(turn) /\ turn'[i] # m /\ turn[i + 1] \in Own
      BY <1>2, <1>3, TypesOf DEF Inv
    <2>2. calls[turn[i + 1]] = "building" /\ Follows(i + 1)
      BY <2>1 DEF Inv, ClientInv, TurnInv
    <2>3. calls'[turn'[i]] = "building" /\ Follows(i)'
      <3> DEFINE key == RefOf(content[turn[i + 1]])
      <3>1. RefOf(content[turn[i]])' = key
        BY <1>1, <2>1 DEF RefOf
      <3> HIDE DEF key
      <3>2. ASSUME Known(key) PROVE Follows(i)'
        BY <1>5, <3>1, <3>2 DEF Follows
      <3>3. ASSUME NEW j \in 1..Len(turn), j < i + 1, turn[j] = key PROVE Follows(i)'
        <4>1. CASE j = 1
          <5>1. key = m /\ m \in Messages /\ Started(m)'
            BY <1>4, <3>3, <4>1, OwnAssumption DEF Started
          <5> QED BY <3>1, <5>1 DEF Follows, Known
        <4>2. CASE j # 1
          <5>1. j - 1 \in 1..Len(turn') /\ j - 1 < i /\ j - 1 + 1 = j
            BY <1>2, <3>3, <4>2
          <5>2. turn'[j - 1] = key
            BY <1>2, <3>3, <5>1
          <5> QED BY <3>1, <5>1, <5>2 DEF Follows
        <4> QED BY <4>1, <4>2
      <3>4. Follows(i)'
        BY <2>2, <3>2, <3>3 DEF Follows, key
      <3> QED BY <1>4, <2>1, <2>2, <3>4
    <2>4. ASSUME NEW j \in 1..Len(turn'), i < j PROVE Before(turn[i], turn[j])' /\ turn'[i] # turn'[j]
      <3>1. turn'[j] = turn[j + 1] /\ j + 1 \in 1..Len(turn) /\ i + 1 < j + 1
        BY <1>2, <2>4
      <3>2. Before(turn[i + 1], turn[j + 1]) /\ turn[i + 1] # turn[j + 1]
        BY <2>1, <3>1 DEF Inv, ClientInv, TurnInv
      <3> QED BY <1>6, <2>1, <3>1, <3>2
    <2> QED BY <2>3, <2>4
  <1>8. \A j \in 1..Len(turn') : \E i \in 1..Len(turn) : turn'[j] = turn[i]
    BY <1>2
  <1>9. /\ writes' \in Seq(Own)
        /\ \A i \in 1..Len(writes') : writes'[i] = m \/ (i \in 1..Len(writes) /\ writes'[i] = writes[i])
    <2>1. CASE writes' = writes
      BY <2>1 DEF Inv, Typed
    <2>2. CASE writes' = Append(writes, m)
      <3>1. /\ writes' \in Seq(Own) /\ Len(writes') = Len(writes) + 1 /\ Len(writes) \in Nat
            /\ writes'[Len(writes) + 1] = m /\ \A i \in 1..Len(writes) : writes'[i] = writes[i]
        BY <1>2, <2>2, AppendProperties, LenProperties DEF Inv, Typed
      <3> QED BY <3>1
    <2> QED BY <1>1, <2>1, <2>2
  <1>10. CalledInv'
    <2>1. \A x \in Own : calls'[x] # "idle" => calls[x] # "idle"
      BY <1>3, <1>4
    <2>2. \A x \in Own : calls'[x] # "idle" => \E k \in 1..Len(called') : called'[k] = x
      BY <1>1, <2>1 DEF Inv, ClientInv, CalledInv
    <2>3. ASSUME NEW i \in 1..Len(writes') PROVE calls'[writes'[i]] # "idle"
      BY <1>2, <1>4, <1>9, TypesOf DEF Inv, ClientInv, CalledInv
    <2>4. ASSUME NEW x \in Own, calls'[x] = "building" PROVE \E j \in 1..Len(turn') : turn'[j] = x
      <3>1. x # m /\ calls[x] = "building"
        BY <1>4, <2>4
      <3>2. PICK j \in 1..Len(turn) : turn[j] = x
        BY <3>1 DEF Inv, ClientInv, CalledInv
      <3>3. j - 1 \in 1..Len(turn') /\ j - 1 + 1 = j
        BY <1>2, <3>1, <3>2
      <3>4. turn'[j - 1] = x
        BY <1>2, <3>2, <3>3
      <3> QED BY <3>3, <3>4
    <2> QED BY <2>2, <2>3, <2>4 DEF CalledInv
  <1>11. \A x \in Own : calls[x] = "sent" => calls'[x] = "sent"
    BY <1>3, <1>4
  <1>12. CASE UNCHANGED wire
    <2>1. Typed'
      BY <1>1, <1>2, <1>4, <1>9, <1>12 DEF Inv, Typed
    <2>2. Thinned(Sent, Sent')
      BY <1>1, <1>12, SameSent DEF Inv
    <2>3. \A i \in 1..Len(delivered') : delivered'[i].tag = "message"
      BY <1>1 DEF Inv, ClientInv, NodesInv
    <2>4. ClientInv'
      BY <1>1, <1>5, <1>7, <1>8, <1>10, <2>2, <2>3, NothingSent DEF Inv
    <2> QED BY <1>1, <1>11, <2>1, <2>4
  <1>13. CASE /\ BuildMessageContent(content[m]) # << >>
              /\ wire' = Append(wire, BuildMessageNode(m, BuildMessageContent(content[m])[1]))
    <2>1. RefOf(content[m]) \in Messages \cup {NoKey}
      BY <1>3 DEF Known
    <2>2. PICK n \in Nodes : /\ n = BuildMessageNode(m, BuildMessageContent(content[m])[1])
                            /\ n.tag = "message" /\ n.id = m /\ n.ref = RefOf(content[m])
      BY <1>13, <2>1, BuiltNode
    <2>3. wire' \in Seq(Nodes)
      BY <1>13, <2>2, AppendProperties DEF Inv, Typed
    <2>4. Typed'
      BY <1>1, <1>2, <1>4, <1>9, <2>3 DEF Inv, Typed
    <2>5. \A i \in 1..Len(Sent) : IsOwnMessage(Sent[i]) => Before(Sent[i].id, m)
      BY <1>2 DEF Inv, ClientInv, NodesInv
    <2>6. ClientInv'
      BY <1>1, <1>3, <1>4, <1>5, <1>7, <1>8, <1>10, <1>13, <2>2, <2>5, NodeSent DEF Inv
    <2> QED BY <1>1, <1>11, <2>4, <2>6
  <1> QED BY <1>1, <1>12, <1>13

-----------------------------------------------------------------------------
(* The other steps of the client and of the connection.                     *)

LEMMA NodesOfCommands ==
    ASSUME NEW k \in Messages
    PROVE  /\ Node("message", "revoke", NoKey, k) \in Nodes
           /\ Node("message", "text", NoKey, k) \in Nodes
           /\ Node("receipt", "read", k, NoKey) \in Nodes
  BY DEF Nodes, Node

LEMMA CommandOrder ==
    ASSUME Inv, SendPresenceUpdate \/ \E k \in Keys : DeleteMessage(k) \/ EditMessage(k) \/ SendReadReceipt(k)
    PROVE  /\ Typed' /\ ClientInv' /\ UNCHANGED <<delivered, record, dump, calls>>
  <1>0. ASSUME NEW k \in Keys, hasty' = Named(k, {"idle", "building"}), calls' = calls
        PROVE  Known(k)' /\ hasty \subseteq hasty' /\ hasty' \subseteq Chosen
    <2>1. k \in Messages /\ (k \in Own => calls[k] \in CallStates)
      BY KeysAreKnown DEF Inv, Typed
    <2>2. k \in Own => Started(k)' \/ k \in hasty'
      BY <1>0, <2>1 DEF Started, Named, CallStates
    <2> QED BY <1>0, <2>1, <2>2, OnlyChosenHasty DEF Known
  <1>1. PICK n \in Nodes : /\ Command(n) /\ ~IsOwnMessage(n) /\ Known(n.ref)'
                          /\ hasty \subseteq hasty' /\ hasty' \subseteq Chosen
    <2>0. /\ Known(NoKey) /\ Known(NoKey)' /\ hasty \subseteq Chosen
          /\ \A n : Command(n) => calls' = calls
      BY NothingIsKnown, NoKeyIsNone, OwnAssumption DEF Known, Inv, Typed, Command
    <2>1. CASE SendPresenceUpdate
      <3> DEFINE n == Node("chatstate", None, NoKey, NoKey)
      <3>1. n \in Nodes /\ ~IsOwnMessage(n) /\ n.ref = NoKey
        BY DEF Nodes, Node, IsOwnMessage
      <3> QED BY <2>0, <2>1, <3>1 DEF SendPresenceUpdate
    <2>2. ASSUME NEW k \in Keys, DeleteMessage(k) \/ EditMessage(k) \/ SendReadReceipt(k)
          PROVE  \E n \in Nodes : /\ Command(n) /\ ~IsOwnMessage(n) /\ Known(n.ref)'
                                  /\ hasty \subseteq hasty' /\ hasty' \subseteq Chosen
      <3>1. k \in Messages
        BY KeysAreKnown
      <3>2. NoKey \notin Own
        BY NoKeyIsNone, OwnAssumption
      <3>3. CASE DeleteMessage(k)
        <4> DEFINE n == Node("message", "revoke", NoKey, k)
        <4>1. n \in Nodes /\ ~IsOwnMessage(n) /\ n.ref = k
          BY <3>1, <3>2, NodesOfCommands DEF Node, IsOwnMessage
        <4> QED BY <1>0, <2>0, <3>3, <4>1 DEF DeleteMessage
      <3>4. CASE EditMessage(k)
        <4> DEFINE n == Node("message", "text", NoKey, k)
        <4>1. n \in Nodes /\ ~IsOwnMessage(n) /\ n.ref = k
          BY <3>1, <3>2, NodesOfCommands DEF Node, IsOwnMessage
        <4> QED BY <1>0, <2>0, <3>4, <4>1 DEF EditMessage
      <3>5. CASE SendReadReceipt(k)
        <4> DEFINE n == Node("receipt", "read", k, NoKey)
        <4>1. n \in Nodes /\ ~IsOwnMessage(n) /\ n.ref = NoKey
          BY <3>1, NodesOfCommands DEF Node, IsOwnMessage
        <4> QED BY <2>0, <3>5, <4>1 DEF SendReadReceipt
      <3> QED BY <2>2, <3>3, <3>4, <3>5
    <2> QED BY <2>1, <2>2
  <1>2. /\ wire' = Append(wire, n) \/ wire' = wire
        /\ UNCHANGED <<calls, content, turn, writes, called, delivered, record, dump>>
    BY <1>1 DEF Command, SendNode, history
  <1>3. wire' \in Seq(Nodes)
    <2>1. Append(wire, n) \in Seq(Nodes) /\ wire \in Seq(Nodes)
      BY AppendProperties DEF Inv, Typed
    <2> QED BY <1>2, <2>1
  <1>4. Typed'
    BY <1>1, <1>2, <1>3 DEF Inv, Typed
  <1>5. /\ TurnInv' /\ CalledInv'
        /\ \A j \in 1..Len(turn') : \E i \in 1..Len(turn) : turn'[j] = turn[i]
        /\ \A m \in Own : Started(m) => Started(m)'
    <2>1. \A m \in Own : (Started(m) => Started(m)') /\ (calls'[m] # "idle" <=> calls[m] # "idle")
      BY <1>2 DEF Started
    <2>2. \A i \in 1..Len(turn') : calls'[turn'[i]] = "building"
      BY <1>2 DEF Inv, ClientInv, TurnInv
    <2> QED BY <1>1, <1>2, <2>1, <2>2, CallsProceed DEF Inv
  <1>6. CASE wire' = Append(wire, n)
    <2>1. ClientInv'
      BY <1>1, <1>2, <1>5, <1>6, NodeSent DEF Inv
    <2> QED BY <1>2, <1>4, <2>1
  <1>7. CASE wire' = wire
    <2>1. Thinned(Sent, Sent')
      BY <1>2, <1>7, SameSent DEF Inv
    <2>2. \A i \in 1..Len(delivered') : delivered'[i].tag = "message"
      BY <1>2 DEF Inv, ClientInv, NodesInv
    <2>3. ClientInv'
      BY <1>1, <1>2, <1>5, <2>1, <2>2, NothingSent DEF Inv
    <2> QED BY <1>2, <1>4, <2>3
  <1> QED BY <1>2, <1>6, <1>7

LEMMA WriteDoneOrder ==
    ASSUME Inv, Typed', WriteDone
    PROVE  ClientInv'
  <1>1. /\ turn = << >> /\ turn' = turn /\ writes # << >> /\ writes' = Tail(writes)
        /\ calls' = [calls EXCEPT ![Head(writes)] = "sent"]
        /\ UNCHANGED <<content, called, hasty, wire, delivered>>
    BY DEF WriteDone, TurnOver, network
  <1>2. Head(writes) \in Own /\ Head(writes) = writes[1] /\ 1 \in 1..Len(writes)
    BY <1>1, HeadTailProperties, EmptySeq DEF Inv, Typed
  <1>3. /\ calls'[Head(writes)] = "sent" /\ calls[Head(writes)] # "idle"
        /\ \A n \in Own : n # Head(writes) => calls'[n] = calls[n]
    <2>1. calls[Head(writes)] # "idle"
      BY <1>2 DEF Inv, ClientInv, CalledInv
    <2>2. calls \in [Own -> CallStates]
      BY DEF Inv, Typed
    <2> QED BY <1>1, <1>2, <2>1, <2>2
  <1>4. \A m \in Own : (Started(m) => Started(m)') /\ (calls'[m] # "idle" <=> calls[m] # "idle")
    BY <1>3 DEF Started
  <1>5. \A i \in 1..Len(turn') : FALSE
    BY <1>1, EmptySeq
  <1>6. /\ TurnInv' /\ CalledInv'
        /\ \A j \in 1..Len(turn') : \E i \in 1..Len(turn) : turn'[j] = turn[i]
    BY <1>1, <1>4, <1>5, CallsProceed DEF Inv
  <1>7. Thinned(Sent, Sent')
    BY <1>1, SameSent DEF Inv
  <1>8. \A i \in 1..Len(delivered') : delivered'[i].tag = "message"
    BY <1>1 DEF Inv, ClientInv, NodesInv
  <1> QED BY <1>1, <1>4, <1>6, <1>7, <1>8, NothingSent DEF Inv

\* The connection or the process is lost with what was under way.
LEMMA LossOrder ==
    ASSUME Inv, Typed', ConnectionLost \/ Restart
    PROVE  ClientInv' /\ \A m \in Own : calls[m] = "sent" => calls'[m] = "sent"
  <1>1. /\ turn' = << >> /\ wire' = << >> /\ writes' = << >> /\ UNCHANGED <<content, called, hasty, delivered>>
        /\ \/ turn' = turn /\ calls' = [m \in Own |-> IF calls[m] = "writing" THEN "failed" ELSE calls[m]]
           \/ calls' = [m \in Own |-> IF calls[m] \in {"building", "writing"} THEN "failed" ELSE calls[m]]
    BY DEF ConnectionLost, Restart, TurnOver
  <1>2. \A m \in Own : /\ (Started(m) => Started(m)') /\ (calls'[m] # "idle" <=> calls[m] # "idle")
                       /\ (calls[m] = "sent" => calls'[m] = "sent")
                       /\ (calls'[m] = "building" => calls[m] = "building" /\ turn' = turn)
    BY <1>1 DEF Started
  <1>3. \A i \in 1..Len(turn') : FALSE
    BY <1>1, EmptySeq
  <1>4. /\ TurnInv' /\ CalledInv'
        /\ \A j \in 1..Len(turn') : \E i \in 1..Len(turn) : turn'[j] = turn[i]
    BY <1>1, <1>2, <1>3, CallsProceed DEF Inv
  <1>5. Thinned(Sent, Sent')
    BY <1>1, LostSent DEF Inv
  <1>6. \A i \in 1..Len(delivered') : delivered'[i].tag = "message"
    BY <1>1 DEF Inv, ClientInv, NodesInv
  <1> QED BY <1>1, <1>2, <1>4, <1>5, <1>6, NothingSent DEF Inv

LEMMA ReceivedOrder ==
    ASSUME Inv, ServerReceives
    PROVE  Typed' /\ ClientInv' /\ UNCHANGED <<calls, record, dump>> /\ Received \subseteq Received'
  <1>1. /\ UNCHANGED <<calls, content, turn, writes, called, hasty, record, dump>>
        /\ wire # << >>
        /\ delivered' = IF Head(wire).tag = "message" THEN Append(delivered, Head(wire)) ELSE delivered
    BY DEF ServerReceives, client, storevars, history
  <1>2. Typed' /\ Thinned(Sent, Sent')
    BY ReceivedSent DEF Inv
  <1>3. \A m \in Own : (Started(m) => Started(m)') /\ (calls'[m] # "idle" <=> calls[m] # "idle")
    BY <1>1 DEF Started
  <1>4. \A i \in 1..Len(turn') : calls'[turn'[i]] = "building"
    BY <1>1 DEF Inv, ClientInv, TurnInv
  <1>5. /\ TurnInv' /\ CalledInv'
        /\ \A j \in 1..Len(turn') : \E i \in 1..Len(turn) : turn'[j] = turn[i]
    BY <1>1, <1>3, <1>4, CallsProceed DEF Inv
  <1>6. /\ \A i \in 1..Len(delivered') : delivered'[i].tag = "message"
        /\ \A i \in 1..Len(delivered) : i \in 1..Len(delivered') /\ delivered'[i] = delivered[i]
    <2>1. \A i \in 1..Len(delivered) : delivered[i].tag = "message"
      BY DEF Inv, ClientInv, NodesInv
    <2>2. CASE delivered' = delivered
      BY <2>1, <2>2
    <2>3. CASE Head(wire).tag = "message" /\ delivered' = Append(delivered, Head(wire))
      <3>1. /\ Len(delivered') = Len(delivered) + 1 /\ Len(delivered) \in Nat
            /\ \A i \in 1..Len(delivered) : delivered'[i] = delivered[i]
            /\ delivered'[Len(delivered) + 1] = Head(wire)
        BY <1>1, <2>3, HeadTailProperties, AppendProperties, LenProperties DEF Inv, Typed
      <3> QED BY <2>1, <2>3, <3>1
    <2> QED BY <1>1, <2>2, <2>3
  <1>7. Received \subseteq Received'
    <2>1. DOMAIN delivered = 1..Len(delivered) /\ DOMAIN delivered' = 1..Len(delivered')
      BY <1>2, LenProperties DEF Inv, Typed
    <2> QED BY <1>6, <2>1 DEF Received
  <1>8. ClientInv'
    BY <1>1, <1>2, <1>3, <1>5, <1>6, NothingSent DEF Inv
  <1> QED BY <1>1, <1>2, <1>7, <1>8

-----------------------------------------------------------------------------
(* What the store has.                                                      *)

LEMMA UpdatedDomain ==
    ASSUME NEW f, NEW g
    PROVE  DOMAIN Updated(f, g) = DOMAIN f \cup DOMAIN g
  BY DEF Updated

LEMMA WithDomain ==
    ASSUME NEW f, NEW x, NEW value
    PROVE  DOMAIN With(f, x, value) = DOMAIN f \cup {x}
  BY DEF With

LEMMA UpsertRecord ==
    ASSUME NEW m, NEW fields, MessagesUpsert(m, fields)
    PROVE  DOMAIN record' = DOMAIN record \cup {m} /\ dump' = dump
  <1>1. PICK value : record' = With(record, m, value) /\ dump' = dump
    <2> DEFINE value == IF m \in DOMAIN record THEN Updated(record[m], fields) ELSE fields
    <2>1. record' = With(record, m, value) /\ dump' = dump
      BY DEF MessagesUpsert
    <2> QED BY <2>1
  <1> QED BY <1>1, WithDomain

LEMMA UpdateRecord ==
    ASSUME NEW m, NEW fields, MessagesUpdate(m, fields)
    PROVE  DOMAIN record' = DOMAIN record /\ dump' = dump
  BY DEF MessagesUpdate

LEMMA HistoryRecord ==
    ASSUME NEW chunk \in Chunks, NEW jid, NEW t, NEW isLatest, HistorySet(chunk, jid, t, isLatest)
    PROVE  DOMAIN record' \subseteq DOMAIN record \cup Theirs \cup (Received \cap Own) /\ dump' = dump
  <1>1. DOMAIN record' = {chunk[i].key : i \in DOMAIN chunk} \cup DOMAIN record /\ dump' = dump
    <2>1. record' = Updated(FirstTold(chunk), record) /\ dump' = dump
      BY DEF HistorySet
    <2>2. DOMAIN FirstTold(chunk) = {chunk[i].key : i \in DOMAIN chunk}
      BY DEF FirstTold
    <2> QED BY <2>1, <2>2, UpdatedDomain
  <1>2. \A i \in DOMAIN chunk : chunk[i].key \in Theirs \cup (Received \cap Own)
    BY DEF Chunks
  <1> QED BY <1>1, <1>2

\* An event that comes from elsewhere tells the store of an own message only if the server
\* has it, or the store or its dump had it.
LEMMA EventRecord ==
    ASSUME ApplicationEvent \/ Restart \/ (\E m \in Theirs : HandleMessageNode(m) \/ Decrypted(m))
              \/ (\E m \in Own : HandleReceiptNode(m))
    PROVE  /\ DOMAIN record' \subseteq DOMAIN record \cup DOMAIN dump.record \cup Theirs \cup (Received \cap Own)
           /\ DOMAIN dump'.record \subseteq DOMAIN record \cup DOMAIN dump.record
  <1>1. CASE ApplicationEvent
    <2>1. CASE \E keys \in SUBSET DOMAIN record : MessagesDelete(keys)
      BY <2>1, Zenon DEF MessagesDelete, Without, Restrict
    <2>2. CASE \E jid \in Jids : ChatCleared(jid)
      BY <2>2 DEF ChatCleared, Without, Restrict
    <2>3. CASE \E jid \in Jids : ChatsDelete(jid) \/ \E t \in ChatTimes : ChatsUpsert(jid, t) \/ ChatsUpdate(jid, t)
      BY <2>3 DEF ChatsDelete, ChatsUpsert, ChatsUpdate
    <2>4. CASE \E jid \in Jids : \E t \in ChatTimes, isLatest \in BOOLEAN, chunk \in Chunks :
                  HistorySet(chunk, jid, t, isLatest)
      BY <2>4, HistoryRecord
    <2>5. CASE ToJSON
      BY <2>5 DEF ToJSON, history
    <2>6. CASE Clear
      BY <2>6 DEF Clear
    <2> QED BY <1>1, <2>1, <2>2, <2>3, <2>4, <2>5, <2>6 DEF ApplicationEvent
  <1>2. CASE Restart
    BY <1>2 DEF Restart, FromJSON
  <1>3. ASSUME NEW m \in Theirs, HandleMessageNode(m) \/ Decrypted(m)
        PROVE  DOMAIN record' \subseteq DOMAIN record \cup Theirs /\ dump' = dump
    <2>1. CASE HandleMessageNode(m)
      <3>1. PICK hasBody \in BOOLEAN : MessagesUpsert(m, ParseMessageNode(hasBody))
        BY <2>1 DEF HandleMessageNode
      <3>2. DOMAIN record' = DOMAIN record \cup {m} /\ dump' = dump
        BY <3>1, UpsertRecord
      <3> QED BY <3>2
    <2>2. CASE Decrypted(m)
      BY <2>2, UpdateRecord DEF Decrypted
    <2> QED BY <1>3, <2>1, <2>2
  <1>4. ASSUME NEW m \in Own, HandleReceiptNode(m) PROVE DOMAIN record' = DOMAIN record /\ dump' = dump
    BY <1>4, UpdateRecord DEF HandleReceiptNode
  <1> QED BY <1>1, <1>2, <1>3, <1>4

LEMMA StoreStep ==
    ASSUME Inv, UNCHANGED delivered \/ Received \subseteq Received',
           \A m \in Own : calls[m] = "sent" => calls'[m] = "sent",
           DOMAIN record' \subseteq DOMAIN record \cup DOMAIN dump.record \cup Theirs \cup (Received \cap Own)
                                    \cup {m \in Own : calls'[m] = "sent"},
           DOMAIN dump'.record \subseteq DOMAIN record \cup DOMAIN dump.record
    PROVE  StoreInv' /\ DOMAIN record' \subseteq Messages /\ DOMAIN dump'.record \subseteq Messages
  <1>1. Received \subseteq Received'
    BY DEF Received
  <1>2. ASSUME NEW m \in Own, m \in DOMAIN record' \cup DOMAIN dump'.record
        PROVE  calls'[m] = "sent" \/ m \in Received'
    BY <1>1, <1>2 DEF Inv, StoreInv, Theirs
  <1> QED BY <1>2, OwnAssumption DEF Inv, Typed, StoreInv, Theirs

LEMMA InvStep == ASSUME Inv, [Next]_vars PROVE Inv'
  <1>1. CASE \E m \in Own : \E c \in ContentsOf(m) : SendMessage(m, c)
    <2>1. PICK m \in Own : \E c \in ContentsOf(m) : SendMessage(m, c)
      BY <1>1
    <2>2. PICK c \in ContentsOf(m) : SendMessage(m, c)
      BY <2>1
    <2>3. Typed' /\ ClientInv'
      BY <2>2, SendMessageOrder
    <2>4. /\ calls[m] = "idle" /\ calls' = [calls EXCEPT ![m] = "building"]
          /\ UNCHANGED <<delivered, record, dump>>
      BY <2>2 DEF SendMessage, network, history
    <2>5. \A x \in Own : calls[x] = "sent" => calls'[x] = "sent"
      BY <2>4 DEF Inv, Typed
    <2>6. StoreInv'
      BY <2>4, <2>5, StoreStep
    <2> QED BY <2>3, <2>6 DEF Inv
  <1>2. CASE ContentBuilt
    BY <1>2, ContentBuiltOrder, StoreStep DEF Inv
  <1>3. CASE WriteDone
    <2>1. /\ writes # << >> /\ writes' = Tail(writes) /\ calls' = [calls EXCEPT ![Head(writes)] = "sent"]
          /\ UNCHANGED <<content, turn, called, hasty, wire, delivered>>
          /\ MessagesUpsert(Head(writes), OwnEvent(Head(writes))) \/ UNCHANGED <<record, dump>>
      BY <1>3 DEF WriteDone, network, storevars, history
    <2>2. Head(writes) \in Own /\ writes' \in Seq(Own)
      BY <2>1, HeadTailProperties DEF Inv, Typed
    <2>3. /\ calls' \in [Own -> CallStates] /\ calls'[Head(writes)] = "sent"
          /\ \A m \in Own : calls[m] = "sent" => calls'[m] = "sent"
      BY <2>1, <2>2 DEF Inv, Typed, CallStates
    <2>4. DOMAIN record' \subseteq DOMAIN record \cup {Head(writes)} /\ dump' = dump
      <3>1. CASE MessagesUpsert(Head(writes), OwnEvent(Head(writes)))
        BY <3>1, UpsertRecord
      <3>2. CASE UNCHANGED <<record, dump>>
        BY <3>2
      <3> QED BY <2>1, <3>1, <3>2
    <2>5. StoreInv' /\ DOMAIN record' \subseteq Messages /\ DOMAIN dump'.record \subseteq Messages
      BY <2>1, <2>2, <2>3, <2>4, StoreStep
    <2>6. Typed'
      BY <2>1, <2>2, <2>3, <2>5 DEF Inv, Typed
    <2> QED BY <1>3, <2>5, <2>6, WriteDoneOrder DEF Inv
  <1>4. CASE SendPresenceUpdate \/ \E k \in Keys : DeleteMessage(k) \/ EditMessage(k) \/ SendReadReceipt(k)
    <2>1. Typed' /\ ClientInv' /\ UNCHANGED <<delivered, record, dump, calls>>
      BY <1>4, CommandOrder
    <2>2. StoreInv'
      BY <2>1, StoreStep
    <2> QED BY <2>1, <2>2 DEF Inv
  <1>5. CASE ServerReceives
    <2>1. Typed' /\ ClientInv' /\ UNCHANGED <<calls, record, dump>> /\ Received \subseteq Received'
      BY <1>5, ReceivedOrder
    <2>2. StoreInv'
      BY <2>1, StoreStep
    <2> QED BY <2>1, <2>2 DEF Inv
  <1>6. CASE ConnectionLost \/ Restart
    <2>1. /\ turn' = << >> /\ wire' = << >> /\ writes' = << >> /\ UNCHANGED <<content, called, hasty, delivered>>
          /\ \/ calls' = [m \in Own |-> IF calls[m] = "writing" THEN "failed" ELSE calls[m]]
             \/ calls' = [m \in Own |-> IF calls[m] \in {"building", "writing"} THEN "failed" ELSE calls[m]]
      BY <1>6 DEF ConnectionLost, Restart, TurnOver
    <2>2. \A m \in Own : calls[m] = "sent" => calls'[m] = "sent"
      BY <2>1
    <2>3. calls' \in [Own -> CallStates]
      BY <2>1 DEF Inv, Typed, CallStates
    <2>4. /\ DOMAIN record' \subseteq DOMAIN record \cup DOMAIN dump.record \cup Theirs \cup (Received \cap Own)
          /\ DOMAIN dump'.record \subseteq DOMAIN record \cup DOMAIN dump.record
      <3>1. CASE ConnectionLost
        BY <3>1 DEF ConnectionLost, storevars, history
      <3>2. CASE Restart
        BY <3>2, EventRecord
      <3> QED BY <1>6, <3>1, <3>2
    <2>5. StoreInv' /\ DOMAIN record' \subseteq Messages /\ DOMAIN dump'.record \subseteq Messages
      BY <2>1, <2>2, <2>4, StoreStep
    <2>6. Typed'
      BY <2>1, <2>3, <2>5, EmptySeq DEF Inv, Typed
    <2> QED BY <1>6, <2>5, <2>6, LossOrder DEF Inv
  <1>7. CASE Reconnected \/ ApplicationEvent \/ (\E m \in Theirs : HandleMessageNode(m) \/ Decrypted(m))
              \/ (\E m \in Own : HandleReceiptNode(m)) \/ UNCHANGED vars
    <2>1. UNCHANGED <<calls, content, turn, writes, called, hasty, wire, delivered>>
      BY <1>7 DEF Reconnected, ApplicationEvent, HandleMessageNode, Decrypted, HandleReceiptNode,
                  vars, client, network
    <2>2. /\ DOMAIN record' \subseteq DOMAIN record \cup DOMAIN dump.record \cup Theirs \cup (Received \cap Own)
          /\ DOMAIN dump'.record \subseteq DOMAIN record \cup DOMAIN dump.record
      <3>1. CASE Reconnected \/ UNCHANGED vars
        BY <3>1 DEF Reconnected, vars, storevars, history
      <3>2. CASE ~(Reconnected \/ UNCHANGED vars)
        BY <1>7, <3>2, EventRecord
      <3> QED BY <3>1, <3>2
    <2>3. StoreInv' /\ DOMAIN record' \subseteq Messages /\ DOMAIN dump'.record \subseteq Messages
      BY <2>1, <2>2, StoreStep
    <2>4. Typed'
      BY <2>1, <2>3 DEF Inv, Typed
    <2>5. \A m \in Own : (Started(m) => Started(m)') /\ (calls'[m] # "idle" <=> calls[m] # "idle")
      BY <2>1 DEF Started
    <2>6. \A i \in 1..Len(turn') : calls'[turn'[i]] = "building"
      BY <2>1 DEF Inv, ClientInv, TurnInv
    <2>7. /\ TurnInv' /\ CalledInv'
          /\ \A j \in 1..Len(turn') : \E i \in 1..Len(turn) : turn'[j] = turn[i]
      BY <2>1, <2>5, <2>6, CallsProceed DEF Inv
    <2>8. Thinned(Sent, Sent')
      BY <2>1, SameSent DEF Inv
    <2>9. \A i \in 1..Len(delivered') : delivered'[i].tag = "message"
      BY <2>1 DEF Inv, ClientInv, NodesInv
    <2>10. ClientInv'
      BY <2>1, <2>5, <2>7, <2>8, <2>9, NothingSent DEF Inv
    <2> QED BY <2>3, <2>4, <2>10 DEF Inv
  <1> QED BY <1>1, <1>2, <1>3, <1>4, <1>5, <1>6, <1>7 DEF Next

LEMMA Invariant == Spec => []Inv
  <1>1. Init => Inv
    <2> SUFFICES ASSUME Init PROVE Inv
      OBVIOUS
    <2>1. /\ calls = [m \in Own |-> "idle"] /\ DOMAIN content = Own
          /\ turn = << >> /\ writes = << >> /\ wire = << >> /\ delivered = << >> /\ called = << >>
          /\ record = << >> /\ dump.record = << >> /\ hasty = {}
      BY DEF Init, StoreInit
    <2>2. DOMAIN << >> = {}
      OBVIOUS
    <2>3. Typed
      BY <2>1, <2>2, EmptySeq DEF Typed, CallStates
    <2>4. Len(Sent) = 0
      BY <2>1, <2>3, SentIs, EmptySeq
    <2>5. ClientInv
      BY <2>1, <2>4, EmptySeq DEF ClientInv, TurnInv, CalledInv, NodesInv, OrderInv
    <2>6. StoreInv
      BY <2>1, <2>2 DEF StoreInv
    <2> QED BY <2>3, <2>5, <2>6 DEF Inv
  <1> QED BY <1>1, InvStep, PTL DEF Spec

-----------------------------------------------------------------------------
(* What follows.                                                            *)

\* The store never has an own message that was rejected and that the server does not have,
\* also when it starts again from a dump: the event comes after the write.
THEOREM StoreKnowsSent == Spec => []OwnMessagesWereSent
  <1>1. Inv => OwnMessagesWereSent
    BY DEF Inv, StoreInv, OwnMessagesWereSent
  <1> QED BY <1>1, Invariant, PTL

\* What refers to a message comes to the server after it, although edits and deletions do not
\* wait: a generated id can be named only when its message was written.  A message with an id
\* that the caller chose may come later only if it was named before its own call, or by an edit
\* or a deletion before its write.
THEOREM ReferencesInOrder == Spec => []ReferencesFollow
  <1>1. Inv => ReferencesFollow
    <2> SUFFICES ASSUME Inv PROVE ReferencesFollow
      OBVIOUS
    <2>1. DOMAIN Sent = 1..Len(Sent) /\ hasty = Chosen \cap hasty
      BY SentIs DEF Inv, Typed
    <2> QED BY <2>1 DEF Inv, ClientInv, OrderInv, ReferencesFollow
  <1> QED BY <1>1, Invariant, PTL

\* The messages of one client come to the server in the order of the calls of sendMessage(),
\* whatever their contents and whatever is lost between them.
THEOREM CallsInOrder == Spec => []InCallOrder
  <1>1. ASSUME Inv PROVE InCallOrder
    <2>1. DOMAIN Sent = 1..Len(Sent) /\ DOMAIN called = 1..Len(called)
      BY <1>1, SentIs, LenProperties DEF Inv, Typed
    <2>2. OrderInv
      BY <1>1 DEF Inv, ClientInv
    <2>3. ASSUME NEW i \in DOMAIN Sent, NEW j \in DOMAIN Sent,
                 i < j, IsOwnMessage(Sent[i]), IsOwnMessage(Sent[j])
          PROVE  \E k, l \in DOMAIN called : k < l /\ called[k] = Sent[i].id /\ called[l] = Sent[j].id
      <3>1. Before(Sent[i].id, Sent[j].id)
        BY <2>1, <2>2, <2>3 DEF OrderInv
      <3> QED BY <2>1, <3>1 DEF Before
    <2> QED BY <2>3 DEF InCallOrder
  <1> QED BY <1>1, Invariant, PTL

-----------------------------------------------------------------------------
(* Chats.                                                                   *)

Recent(cs, ls) ==
    /\ DOMAIN cs = DOMAIN ls
    /\ \A jid \in DOMAIN cs : cs[jid] \in Nat /\ ls[jid] \in Nat /\ cs[jid] >= ls[jid]

\* The chats, and those of the dump, are as recent as what they were told of.
RecentInv == Recent(chats, latest) /\ Recent(dump.chats, dump.latest)

LEMMA WithRecent ==
    ASSUME NEW cs, NEW ls, Recent(cs, ls), NEW jid, NEW c \in Nat, NEW l \in Nat, c >= l
    PROVE  Recent(With(cs, jid, c), With(ls, jid, l))
  BY DEF Recent, With

LEMMA WithoutRecent ==
    ASSUME NEW cs, NEW ls, Recent(cs, ls), NEW S
    PROVE  Recent(Without(cs, S), Without(ls, S))
  BY DEF Recent, Without, Restrict

LEMMA MaxOfTwo ==
    ASSUME NEW a \in Nat, NEW b \in Nat
    PROVE  Max({a, b}) = IF a >= b THEN a ELSE b
  BY DEF Max

LEMMA UpsertRecent ==
    ASSUME NEW m \in Messages, NEW fields, MessagesUpsert(m, fields), RecentInv
    PROVE  RecentInv'
  <1> DEFINE jid == m[1]
             t == Time[m]
  <1>1. /\ chats' = Newer(jid, t)
        /\ latest' = IF jid \in DOMAIN latest THEN With(latest, jid, Max({latest[jid], t})) ELSE latest
        /\ dump' = dump
    BY DEF MessagesUpsert
  <1>2. t \in Nat
    BY TimeAssumption
  <1> HIDE DEF jid, t
  <1>3. Recent(chats, latest) /\ Recent(dump.chats, dump.latest)
    BY DEF RecentInv
  <1>4. CASE jid \notin DOMAIN chats
    <2>1. chats' = chats /\ latest' = latest
      BY <1>1, <1>3, <1>4 DEF Newer, Recent
    <2> QED BY <1>1, <1>3, <2>1 DEF RecentInv
  <1>5. CASE jid \in DOMAIN chats
    <2>1. chats[jid] \in Nat /\ latest[jid] \in Nat /\ chats[jid] >= latest[jid] /\ jid \in DOMAIN latest
      BY <1>3, <1>5 DEF Recent
    <2>2. latest' = With(latest, jid, IF latest[jid] >= t THEN latest[jid] ELSE t)
      BY <1>1, <1>2, <2>1, MaxOfTwo
    <2>3. CASE t > chats[jid]
      <3>1. chats' = With(chats, jid, t)
        BY <1>1, <1>5, <2>3 DEF Newer
      <3>2. latest' = With(latest, jid, t)
        BY <1>2, <2>1, <2>2, <2>3
      <3>3. Recent(chats', latest')
        BY <1>2, <1>3, <3>1, <3>2, WithRecent
      <3> QED BY <1>1, <1>3, <3>3 DEF RecentInv
    <2>4. CASE ~(t > chats[jid])
      <3>1. chats' = chats
        BY <1>1, <1>5, <2>4 DEF Newer
      <3>2. Recent(chats', latest')
        BY <1>2, <1>3, <2>1, <2>2, <2>4, <3>1 DEF Recent, With
      <3> QED BY <1>1, <1>3, <3>2 DEF RecentInv
    <2> QED BY <2>3, <2>4
  <1> QED BY <1>4, <1>5

\* What the application tells of a chat replaces both.
LEMMA ChatEventRecent ==
    ASSUME RecentInv, NEW jid, NEW t \in Nat, NEW isLatest, NEW chunk,
           ChatsUpsert(jid, t) \/ ChatsUpdate(jid, t) \/ ChatsDelete(jid) \/ HistorySet(chunk, jid, t, isLatest)
    PROVE  RecentInv'
  <1>1. Recent(chats, latest) /\ Recent(dump.chats, dump.latest) /\ DOMAIN chats = DOMAIN latest
    BY DEF RecentInv, Recent
  <1>2. dump' = dump
    BY DEF ChatsUpsert, ChatsUpdate, ChatsDelete, HistorySet
  <1>3. \/ chats' = With(chats, jid, t) /\ latest' = With(latest, jid, t)
        \/ chats' = chats /\ latest' = latest
        \/ chats' = Without(chats, {jid}) /\ latest' = Without(latest, {jid})
    <2>1. CASE ChatsUpsert(jid, t)
      BY <1>1, <2>1 DEF ChatsUpsert
    <2>2. CASE ChatsUpdate(jid, t)
      BY <1>1, <2>2 DEF ChatsUpdate
    <2>3. CASE ChatsDelete(jid)
      BY <2>3 DEF ChatsDelete
    <2>4. CASE HistorySet(chunk, jid, t, isLatest)
      <3>1. chats' = ChatFromHistory(chats, jid, t, isLatest) /\ latest' = ChatFromHistory(latest, jid, t, isLatest)
        BY <2>4 DEF HistorySet
      <3> QED BY <1>1, <3>1 DEF ChatFromHistory
    <2> QED BY <2>1, <2>2, <2>3, <2>4
  <1>4. Recent(With(chats, jid, t), With(latest, jid, t))
    BY <1>1, WithRecent
  <1>5. Recent(Without(chats, {jid}), Without(latest, {jid}))
    BY <1>1, WithoutRecent
  <1>6. Recent(chats', latest')
    BY <1>1, <1>3, <1>4, <1>5
  <1> QED BY <1>1, <1>2, <1>6 DEF RecentInv

\* A chat of the store is never less recent than the newest live message since the chat was
\* last replaced, whatever the order in which messages, histories, dumps and restarts come.
THEOREM ChatsDoNotGoBack == Spec => []ChatIsAsRecent
  <1>1. Init => RecentInv
    BY DEF Init, StoreInit, RecentInv, Recent
  <1>2. ASSUME Inv, RecentInv, [Next]_vars PROVE RecentInv'
    <2>1. CASE UNCHANGED <<chats, latest, dump>>
      BY <1>2, <2>1 DEF RecentInv
    <2>2. ASSUME NEW m \in Messages, NEW fields, MessagesUpsert(m, fields) PROVE RecentInv'
      BY <1>2, <2>2, UpsertRecent
    <2>3. CASE WriteDone
      <3>1. Head(writes) \in Messages
        BY <1>2, <2>3, HeadTailProperties, OwnAssumption DEF WriteDone, Inv, Typed
      <3>2. MessagesUpsert(Head(writes), OwnEvent(Head(writes))) \/ UNCHANGED <<chats, latest, dump>>
        BY <2>3 DEF WriteDone, storevars, contents, history
      <3> QED BY <2>1, <2>2, <3>1, <3>2
    <2>4. CASE \E m \in Theirs : HandleMessageNode(m)
      <3>1. PICK m \in Theirs, hasBody \in BOOLEAN : MessagesUpsert(m, ParseMessageNode(hasBody))
        BY <2>4 DEF HandleMessageNode
      <3>2. m \in Messages
        BY DEF Theirs
      <3> QED BY <2>2, <3>1, <3>2
    <2>5. CASE ApplicationEvent
      <3>1. \A t \in ChatTimes : t \in Nat
        BY TimeAssumption
      <3>2. CASE \E keys \in SUBSET DOMAIN record : MessagesDelete(keys)
        BY <2>1, <3>2, Zenon DEF MessagesDelete
      <3>3. CASE \E jid \in Jids : ChatCleared(jid)
        BY <2>1, <3>3 DEF ChatCleared
      <3>4. CASE \E jid \in Jids : ChatsDelete(jid)
        BY <1>2, <3>4, ChatEventRecent
      <3>5. CASE \E jid \in Jids : \E t \in ChatTimes : ChatsUpsert(jid, t) \/ ChatsUpdate(jid, t)
        BY <1>2, <3>1, <3>5, ChatEventRecent
      <3>6. CASE \E jid \in Jids : \E t \in ChatTimes, isLatest \in BOOLEAN, chunk \in Chunks :
                    HistorySet(chunk, jid, t, isLatest)
        BY <1>2, <3>1, <3>6, ChatEventRecent
      <3>7. CASE ToJSON
        BY <1>2, <3>7 DEF ToJSON, contents, history, RecentInv
      <3>8. CASE Clear
        BY <1>2, <3>8 DEF Clear, RecentInv, Recent
      <3> QED BY <2>5, <3>2, <3>3, <3>4, <3>5, <3>6, <3>7, <3>8 DEF ApplicationEvent
    <2>6. CASE Restart
      BY <1>2, <2>6 DEF Restart, FromJSON, RecentInv
    <2>7. CASE ContentBuilt \/ ServerReceives \/ ConnectionLost \/ Reconnected \/ SendPresenceUpdate
      BY <2>1, <2>7 DEF ContentBuilt, ServerReceives, ConnectionLost, Reconnected, SendPresenceUpdate,
                        Command, storevars, contents, history
    <2>8. CASE \E k \in Keys : DeleteMessage(k) \/ EditMessage(k) \/ SendReadReceipt(k)
      BY <2>1, <2>8 DEF DeleteMessage, EditMessage, SendReadReceipt, Command, contents, history
    <2>9. CASE \E m \in Own : \E c \in ContentsOf(m) : SendMessage(m, c)
      BY <2>1, <2>9 DEF SendMessage, contents, history
    <2>10. CASE (\E m \in Theirs : Decrypted(m)) \/ \E m \in Own : HandleReceiptNode(m)
      BY <2>1, <2>10 DEF Decrypted, HandleReceiptNode, MessagesUpdate
    <2>11. CASE UNCHANGED vars
      BY <2>1, <2>11 DEF vars, storevars, contents, history
    <2> QED BY <1>2, <2>3, <2>4, <2>5, <2>6, <2>7, <2>8, <2>9, <2>10, <2>11 DEF Next
  <1>3. RecentInv => ChatIsAsRecent
    BY DEF RecentInv, Recent, ChatIsAsRecent
  <1> QED BY <1>1, <1>2, <1>3, Invariant, PTL DEF Spec

-----------------------------------------------------------------------------
(* The lists of messages.                                                   *)

\* What the list of a chat has for the messages of a record.
EntriesOf(jid, rec) == {[id |-> m[2], fields |-> rec[m]] : m \in {n \in DOMAIN rec : n[1] = jid}}

Listed(jid, list, rec) ==
    /\ list \in Seq(EntriesOf(jid, rec))
    /\ \A i, j \in 1..Len(list) : list[i].id = list[j].id => i = j
    /\ \A m \in DOMAIN rec : m[1] = jid => \E i \in 1..Len(list) : list[i].id = m[2]

\* The lists have the messages of the record, and those of the dump the messages of its own.
ListedInv ==
    /\ DOMAIN messages = Jids /\ DOMAIN dump.messages = Jids
    /\ \A jid \in Jids : /\ Listed(jid, messages[jid], record)
                         /\ Listed(jid, dump.messages[jid], dump.record)

LEMMA SeqIs ==
    ASSUME NEW S, NEW n \in Nat, NEW list \in [1..n -> S]
    PROVE  list \in Seq(S) /\ Len(list) = n
  BY SeqDef, LenProperties

LEMMA EntryIs ==
    ASSUME NEW rec, DOMAIN rec \subseteq Messages, NEW jid, NEW list, Listed(jid, list, rec),
           NEW i \in 1..Len(list)
    PROVE  /\ <<jid, list[i].id>> \in DOMAIN rec
           /\ list[i] = [id |-> list[i].id, fields |-> rec[<<jid, list[i].id>>]]
  <1>1. list[i] \in EntriesOf(jid, rec)
    BY ElementOfSeq DEF Listed
  <1>2. PICK m \in DOMAIN rec : m[1] = jid /\ list[i] = [id |-> m[2], fields |-> rec[m]]
    BY <1>1 DEF EntriesOf
  <1>3. m = <<jid, list[i].id>>
    BY <1>2, PairAssumption
  <1> QED BY <1>2, <1>3

\* A list is not concerned by what changes in the record of another chat.
LEMMA SameListed ==
    ASSUME NEW rec, NEW new, NEW jid, NEW list, Listed(jid, list, rec),
           \A m : m[1] = jid => (m \in DOMAIN new <=> m \in DOMAIN rec),
           \A m \in DOMAIN rec : m[1] = jid => new[m] = rec[m]
    PROVE  Listed(jid, list, new)
  <1>1. EntriesOf(jid, new) = EntriesOf(jid, rec)
    BY DEF EntriesOf
  <1> QED BY <1>1 DEF Listed

LEMMA Found ==
    ASSUME NEW rec, DOMAIN rec \subseteq Messages, NEW list, NEW m \in Messages, Listed(m[1], list, rec)
    PROVE  /\ m \in DOMAIN rec => /\ FindIndex(list, m[2]) \in 1..Len(list)
                                  /\ list[FindIndex(list, m[2])].id = m[2]
           /\ m \notin DOMAIN rec => /\ FindIndex(list, m[2]) = 0
                                     /\ \A i \in 1..Len(list) : list[i].id # m[2]
  <1> DEFINE found == {i \in DOMAIN list : list[i].id = m[2]}
  <1>0. DOMAIN list = 1..Len(list) /\ FindIndex(list, m[2]) = IF found = {} THEN 0 ELSE Min(found)
    BY LenProperties DEF Listed, FindIndex
  <1>1. CASE m \in DOMAIN rec
    <2>1. PICK i \in 1..Len(list) : list[i].id = m[2]
      BY <1>1 DEF Listed
    <2>2. found = {i}
      BY <1>0, <2>1 DEF Listed
    <2>3. Min(found) = i
      BY <2>1, <2>2 DEF Min
    <2> QED BY <1>0, <1>1, <2>1, <2>2, <2>3
  <1>2. CASE m \notin DOMAIN rec
    <2>1. ASSUME NEW i \in 1..Len(list), list[i].id = m[2] PROVE FALSE
      <3>1. <<m[1], list[i].id>> \in DOMAIN rec
        BY EntryIs
      <3> QED BY <1>2, <2>1, <3>1, PairAssumption
    <2>2. found = {}
      BY <1>0, <2>1
    <2> QED BY <1>0, <1>2, <2>1, <2>2
  <1> QED BY <1>1, <1>2

\* An entry takes new fields, and the record with it.
LEMMA MergedListed ==
    ASSUME NEW rec, DOMAIN rec \subseteq Messages, NEW list, NEW m \in DOMAIN rec, Listed(m[1], list, rec),
           NEW fields, NEW new, DOMAIN new = DOMAIN rec, new[m] = Updated(rec[m], fields),
           \A n \in DOMAIN rec \ {m} : new[n] = rec[n]
    PROVE  Listed(m[1], [list EXCEPT ![FindIndex(list, m[2])] = Merged(@, fields)], new)
  <1> DEFINE k == FindIndex(list, m[2])
             now == [list EXCEPT ![k] = Merged(@, fields)]
  <1>0. m \in Messages
    OBVIOUS
  <1>1. k \in 1..Len(list) /\ list[k].id = m[2]
    BY <1>0, Found
  <1>2. Len(list) \in Nat /\ DOMAIN list = 1..Len(list)
    BY LenProperties DEF Listed
  <1> HIDE DEF k
  <1>3. list[k] = [id |-> m[2], fields |-> rec[m]]
    <2>1. m = <<m[1], list[k].id>>
      BY <1>0, <1>1, PairAssumption
    <2>2. list[k] = [id |-> list[k].id, fields |-> rec[<<m[1], list[k].id>>]]
      BY <1>1, EntryIs
    <2> QED BY <1>1, <2>1, <2>2
  <1>4. now[k] = [id |-> m[2], fields |-> new[m]]
    BY <1>1, <1>2, <1>3 DEF Merged
  <1>5. ASSUME NEW i \in 1..Len(list) PROVE now[i] \in EntriesOf(m[1], new) /\ now[i].id = list[i].id
    <2>1. CASE i = k
      BY <1>1, <1>4, <2>1 DEF EntriesOf
    <2>2. CASE i # k
      <3> DEFINE n == <<m[1], list[i].id>>
      <3>1. n \in DOMAIN rec /\ list[i] = [id |-> list[i].id, fields |-> rec[n]]
        BY EntryIs
      <3>2. n # m
        BY <1>1, <2>2, <3>1 DEF Listed
      <3>3. now[i] = [id |-> list[i].id, fields |-> new[n]] /\ now[i] = list[i]
        BY <1>2, <2>2, <3>1, <3>2
      <3> QED BY <3>1, <3>3 DEF EntriesOf
    <2> QED BY <2>1, <2>2
  <1>6. now = [i \in 1..Len(list) |-> now[i]]
    BY <1>2
  <1> HIDE DEF now
  <1>7. now \in [1..Len(list) -> EntriesOf(m[1], new)]
    BY <1>5, <1>6
  <1>8. now \in Seq(EntriesOf(m[1], new)) /\ Len(now) = Len(list)
    BY <1>2, <1>7, SeqIs
  <1>9. \A i, j \in 1..Len(now) : now[i].id = now[j].id => i = j
    BY <1>5, <1>8 DEF Listed
  <1>10. \A n \in DOMAIN new : n[1] = m[1] => \E i \in 1..Len(now) : now[i].id = n[2]
    BY <1>5, <1>8 DEF Listed
  <1>11. Listed(m[1], now, new)
    BY <1>8, <1>9, <1>10 DEF Listed
  <1> QED BY <1>11 DEF now, k

\* The positions in their order are each there once.
LEMMA InOrderIs ==
    ASSUME NEW n \in Nat, NEW K \in SUBSET (1..n)
    PROVE  /\ Cardinality(K) \in Nat
           /\ InOrder(K) \in [1..Cardinality(K) -> K]
           /\ \A i, j \in 1..Cardinality(K) : i < j => InOrder(K)[i] < InOrder(K)[j]
           /\ \A i, j \in 1..Cardinality(K) : InOrder(K)[i] = InOrder(K)[j] => i = j
           /\ \A k \in K : \E i \in 1..Cardinality(K) : InOrder(K)[i] = k
  <1> DEFINE C == Cardinality(K)
             UpTo(k) == {j \in K : j <= k}
             rank == [k \in K |-> Cardinality(UpTo(k))]
  <1>1. IsFiniteSet(K) /\ C \in Nat
    <2>1. IsFiniteSet(1..n)
      BY FS_Interval
    <2> QED BY <2>1, FS_Subset, FS_CardinalityType
  <1>2. IsFiniteSet(1..C) /\ Cardinality(1..C) = C
    BY <1>1, FS_Interval
  <1>3. ASSUME NEW k \in K PROVE IsFiniteSet(UpTo(k)) /\ rank[k] = Cardinality(UpTo(k)) /\ rank[k] \in 1..C
    <2>1. UpTo(k) \in SUBSET K
      OBVIOUS
    <2>2. IsFiniteSet(UpTo(k)) /\ Cardinality(UpTo(k)) <= C /\ Cardinality(UpTo(k)) \in Nat
      BY <1>1, <2>1, FS_Subset, FS_CardinalityType
    <2>3. k \in UpTo(k)
      OBVIOUS
    <2>4. Cardinality(UpTo(k)) # 0
      BY <2>2, <2>3, FS_EmptySet
    <2> QED BY <1>1, <2>2, <2>4
  <1>4. ASSUME NEW k \in K, NEW l \in K, k < l PROVE rank[k] < rank[l]
    <2>1. UpTo(k) \in SUBSET UpTo(l)
      <3>1. \A j \in K : j <= k => j <= l
        BY <1>4
      <3> QED BY <3>1
    <2>3. l \in UpTo(l) /\ l \notin UpTo(k)
      BY <1>4
    <2>2. Cardinality(UpTo(k)) <= Cardinality(UpTo(l)) /\ Cardinality(UpTo(k)) # Cardinality(UpTo(l))
      BY <1>3, <2>1, <2>3, FS_Subset
    <2> QED BY <1>3, <2>2
  <1> HIDE DEF rank, UpTo
  <1>5. \A k, l \in K : rank[k] = rank[l] => k = l
    BY <1>3, <1>4
  <1>6. rank \in Injection(K, 1..C)
    <2>1. DOMAIN rank = K /\ rank \in [K -> 1..C]
      BY <1>3 DEF rank
    <2> QED BY <1>5, <2>1 DEF Injection, IsInjective
  <1>7. \A c \in 1..C : \E k \in K : rank[k] = c
    <2>1. rank \in Surjection(K, 1..C)
      BY <1>2, <1>6, FS_Injection
    <2> QED BY <2>1 DEF Surjection
  <1> DEFINE Increasing(p) == \A i, j \in DOMAIN p : i < j => p[i] < p[j]
  <1>8. \E p \in [1..C -> K] : Increasing(p)
    <2> DEFINE p == [c \in 1..C |-> CHOOSE k \in K : rank[k] = c]
    <2>1. \A c \in 1..C : p[c] \in K /\ rank[p[c]] = c
      BY <1>7
    <2>2. ASSUME NEW i \in 1..C, NEW j \in 1..C, i < j PROVE p[i] < p[j]
      <3> HIDE DEF p
      <3>1. p[i] \in 1..n /\ p[j] \in 1..n
        BY <2>1
      <3>2. p[i] # p[j]
        BY <2>1, <2>2
      <3>3. ~(p[j] < p[i])
        <4>1. p[j] < p[i] => rank[p[j]] < rank[p[i]]
          BY <1>4, <2>1
        <4> QED BY <2>1, <2>2, <4>1
      <3> QED BY <3>1, <3>2, <3>3
    <2>3. p \in [1..C -> K] /\ DOMAIN p = 1..C
      BY <2>1
    <2> QED BY <2>2, <2>3
  <1>9. InOrder(K) = CHOOSE p \in [1..C -> K] : Increasing(p)
    BY DEF InOrder
  <1>10. InOrder(K) \in [1..C -> K] /\ Increasing(InOrder(K))
    BY <1>8, <1>9
  <1>11. \A i, j \in 1..C : i < j => InOrder(K)[i] < InOrder(K)[j]
    BY <1>10
  <1> DEFINE q == InOrder(K)
  <1>12. \A i, j \in 1..C : InOrder(K)[i] = InOrder(K)[j] => i = j
    <2> SUFFICES ASSUME NEW i \in 1..C, NEW j \in 1..C, i < j PROVE InOrder(K)[i] # InOrder(K)[j]
      BY <1>1
    <2>1. InOrder(K)[i] < InOrder(K)[j] /\ InOrder(K)[i] \in 1..n /\ InOrder(K)[j] \in 1..n
      BY <1>10, <1>11
    <2> QED BY <2>1
  <1>13. InOrder(K) \in Surjection(1..C, K)
    <2>1. InOrder(K) \in Injection(1..C, K)
      BY <1>10, <1>12 DEF Injection, IsInjective
    <2> QED BY <1>1, <1>2, <2>1, FS_Injection
  <1> QED BY <1>1, <1>10, <1>11, <1>12, <1>13 DEF Surjection

LEMMA OnlyIs ==
    ASSUME NEW S, NEW list \in Seq(S), NEW K \in SUBSET (1..Len(list))
    PROVE  /\ Only(list, K) \in Seq(S) /\ Len(Only(list, K)) = Cardinality(K) /\ Cardinality(K) \in Nat
           /\ \A i \in 1..Cardinality(K) : InOrder(K)[i] \in K /\ Only(list, K)[i] = list[InOrder(K)[i]]
           /\ \A i, j \in 1..Cardinality(K) : InOrder(K)[i] = InOrder(K)[j] => i = j
           /\ \A k \in K : \E i \in 1..Cardinality(K) : InOrder(K)[i] = k
  <1> DEFINE C == Cardinality(K)
             q == InOrder(K)
  <1>1. Len(list) \in Nat
    BY LenProperties
  <1>2. /\ C \in Nat /\ q \in [1..C -> K] /\ \A i, j \in 1..C : q[i] = q[j] => i = j
        /\ \A k \in K : \E i \in 1..C : q[i] = k
    BY <1>1, InOrderIs
  <1>3. Only(list, K) = [i \in 1..C |-> list[q[i]]]
    BY DEF Only
  <1> HIDE DEF C, q
  <1>4. \A i \in 1..C : q[i] \in K /\ list[q[i]] \in S
    BY <1>1, <1>2, ElementOfSeq
  <1>5. Only(list, K) \in [1..C -> S]
    BY <1>3, <1>4
  <1>6. Only(list, K) \in Seq(S) /\ Len(Only(list, K)) = C
    BY <1>2, <1>5, SeqIs
  <1> QED BY <1>2, <1>3, <1>4, <1>6 DEF C, q

\* A deletion takes the entries of its keys out, and no others.
LEMMA DeletedListed ==
    ASSUME NEW rec, DOMAIN rec \subseteq Messages, NEW jid, NEW list, Listed(jid, list, rec),
           NEW keys \in SUBSET Messages
    PROVE  Listed(jid, Only(list, DOMAIN list \ {FindIndex(list, m[2]) : m \in {k \in keys : k[1] = jid}}),
                  Without(rec, keys))
  <1> DEFINE gone == {FindIndex(list, m[2]) : m \in {k \in keys : k[1] = jid}}
             K == DOMAIN list \ gone
             now == Only(list, K)
             new == Without(rec, keys)
             C == Cardinality(K)
             q == InOrder(K)
  <1>1. DOMAIN list = 1..Len(list) /\ Len(list) \in Nat
    BY LenProperties DEF Listed
  <1>2. DOMAIN new = DOMAIN rec \ keys /\ \A m \in DOMAIN new : new[m] = rec[m]
    BY DEF Without, Restrict
  <1>3. ASSUME NEW i \in 1..Len(list) PROVE i \in gone <=> <<jid, list[i].id>> \in keys
    <2> DEFINE n == <<jid, list[i].id>>
    <2>1. ASSUME i \in gone PROVE n \in keys
      <3>1. PICK m \in keys : m[1] = jid /\ i = FindIndex(list, m[2])
        BY <2>1
      <3>2. m \in Messages /\ Listed(m[1], list, rec)
        BY <3>1
      <3>3. list[i].id = m[2]
        BY <3>1, <3>2, Found
      <3> QED BY <3>1, <3>2, <3>3, PairAssumption
    <2>2. ASSUME n \in keys PROVE i \in gone
      <3>1. n \in DOMAIN rec /\ n \in Messages /\ n[1] = jid /\ n[2] = list[i].id
        BY EntryIs
      <3>2. FindIndex(list, n[2]) \in 1..Len(list) /\ list[FindIndex(list, n[2])].id = n[2]
        BY <3>1, Found
      <3>3. FindIndex(list, n[2]) = i
        BY <3>1, <3>2 DEF Listed
      <3> QED BY <2>2, <3>1, <3>3
    <2> QED BY <2>1, <2>2
  <1> HIDE DEF gone, new
  <1>4. K \in SUBSET (1..Len(list))
    BY <1>1
  <1>5. \A i \in 1..Len(list) : i \in K <=> i \notin gone
    BY <1>1
  <1> HIDE DEF K
  <1>6. list \in Seq(EntriesOf(jid, rec))
    BY DEF Listed
  <1>7. /\ Len(now) = C /\ C \in Nat /\ now \in Seq(EntriesOf(jid, rec))
        /\ \A i \in 1..C : q[i] \in K /\ now[i] = list[q[i]]
        /\ \A i, j \in 1..C : q[i] = q[j] => i = j
        /\ \A k \in K : \E i \in 1..C : q[i] = k
    BY <1>4, <1>6, OnlyIs
  <1> HIDE DEF now, C, q
  <1>8. ASSUME NEW i \in 1..C PROVE now[i] \in EntriesOf(jid, new)
    <2>1. q[i] \in 1..Len(list) /\ <<jid, list[q[i]].id>> \notin keys
      BY <1>3, <1>4, <1>5, <1>7
    <2> DEFINE e == list[q[i]]
    <2>2. <<jid, e.id>> \in DOMAIN rec /\ e = [id |-> e.id, fields |-> rec[<<jid, e.id>>]]
      BY <2>1, EntryIs
    <2>3. <<jid, e.id>> \in DOMAIN new /\ new[<<jid, e.id>>] = rec[<<jid, e.id>>]
      BY <1>2, <2>1, <2>2
    <2> HIDE DEF e
    <2>4. e \in EntriesOf(jid, new)
      BY <2>2, <2>3 DEF EntriesOf
    <2> QED BY <1>7, <2>4 DEF e
  <1>9. now = [i \in 1..C |-> now[i]]
    BY <1>7, LenProperties
  <1>10. now \in [1..C -> EntriesOf(jid, new)]
    BY <1>8, <1>9
  <1>11. now \in Seq(EntriesOf(jid, new))
    BY <1>7, <1>10, SeqIs
  <1>12. ASSUME NEW i \in 1..Len(now), NEW j \in 1..Len(now), now[i].id = now[j].id PROVE i = j
    <2>1. q[i] \in 1..Len(list) /\ q[j] \in 1..Len(list) /\ list[q[i]].id = list[q[j]].id
      BY <1>4, <1>7, <1>12
    <2>2. q[i] = q[j]
      BY <2>1 DEF Listed
    <2> QED BY <1>7, <2>2
  <1>13. ASSUME NEW m \in DOMAIN new, m[1] = jid PROVE \E i \in 1..Len(now) : now[i].id = m[2]
    <2>1. PICK k \in 1..Len(list) : list[k].id = m[2]
      BY <1>2, <1>13 DEF Listed
    <2>2. <<jid, list[k].id>> = m
      BY <1>2, <1>13, <2>1, PairAssumption
    <2>3. k \in K
      BY <1>2, <1>3, <1>5, <2>2
    <2> QED BY <1>7, <2>1, <2>3
  <1>14. Listed(jid, now, new)
    BY <1>11, <1>12, <1>13 DEF Listed
  <1> QED BY <1>14 DEF now, new, K, gone

LEMMA UpsertedListed ==
    ASSUME NEW rec, DOMAIN rec \subseteq Messages, NEW list, NEW m \in Messages, Listed(m[1], list, rec),
           NEW fields
    PROVE  Listed(m[1], Upserted(list, m[2], fields),
                  With(rec, m, IF m \in DOMAIN rec THEN Updated(rec[m], fields) ELSE fields))
  <1> DEFINE value == IF m \in DOMAIN rec THEN Updated(rec[m], fields) ELSE fields
             new == With(rec, m, value)
             k == FindIndex(list, m[2])
  <1>1. DOMAIN new = DOMAIN rec \cup {m} /\ new[m] = value /\ \A n \in DOMAIN rec \ {m} : new[n] = rec[n]
    BY DEF With
  <1>2. Len(list) \in Nat /\ list \in Seq(EntriesOf(m[1], rec))
    BY LenProperties DEF Listed
  <1> HIDE DEF new
  <1>3. CASE m \in DOMAIN rec
    <2>1. k \in 1..Len(list)
      BY <1>3, Found
    <2>2. Upserted(list, m[2], fields) = [list EXCEPT ![k] = Merged(@, fields)]
      BY <1>2, <2>1 DEF Upserted
    <2>3. DOMAIN new = DOMAIN rec /\ new[m] = Updated(rec[m], fields)
      BY <1>1, <1>3
    <2>4. Listed(m[1], [list EXCEPT ![k] = Merged(@, fields)], new)
      BY <1>1, <1>3, <2>3, MergedListed
    <2> QED BY <2>2, <2>4 DEF new
  <1>4. CASE m \notin DOMAIN rec
    <2> DEFINE e == [id |-> m[2], fields |-> fields]
               now == Append(list, e)
               S == EntriesOf(m[1], new)
    <2>1. k = 0 /\ \A i \in 1..Len(list) : list[i].id # m[2]
      BY <1>4, Found
    <2>2. Upserted(list, m[2], fields) = now
      BY <2>1 DEF Upserted
    <2>3. e \in S /\ e.id = m[2]
      BY <1>1, <1>4 DEF EntriesOf
    <2>4. EntriesOf(m[1], rec) \subseteq S
      BY <1>1, <1>4 DEF EntriesOf
    <2> HIDE DEF e, S
    <2>5. list \in Seq(S)
      BY <1>2, <2>4, SeqMonotonic
    <2>6. /\ now \in Seq(S) /\ Len(now) = Len(list) + 1 /\ now[Len(list) + 1] = e
          /\ \A i \in 1..Len(list) : now[i] = list[i]
      BY <2>3, <2>5, AppendProperties
    <2> HIDE DEF now
    <2>7. ASSUME NEW i \in 1..Len(now), NEW j \in 1..Len(now), now[i].id = now[j].id PROVE i = j
      <3>1. CASE i \in 1..Len(list) /\ j \in 1..Len(list)
        BY <2>6, <2>7, <3>1 DEF Listed
      <3>2. CASE i = Len(list) + 1 /\ j = Len(list) + 1
        BY <3>2
      <3>3. CASE i = Len(list) + 1 /\ j \in 1..Len(list)
        BY <2>1, <2>3, <2>6, <2>7, <3>3
      <3>4. CASE j = Len(list) + 1 /\ i \in 1..Len(list)
        BY <2>1, <2>3, <2>6, <2>7, <3>4
      <3> QED BY <1>2, <2>6, <3>1, <3>2, <3>3, <3>4
    <2>8. ASSUME NEW n \in DOMAIN new, n[1] = m[1] PROVE \E i \in 1..Len(now) : now[i].id = n[2]
      <3>1. CASE n = m
        BY <1>2, <2>3, <2>6, <3>1
      <3>2. CASE n # m
        <4>1. PICK i \in 1..Len(list) : list[i].id = n[2]
          BY <1>1, <2>8, <3>2 DEF Listed
        <4> QED BY <1>2, <2>6, <4>1
      <3> QED BY <3>1, <3>2
    <2>9. Listed(m[1], now, new)
      BY <2>6, <2>7, <2>8 DEF Listed, S
    <2> QED BY <2>2, <2>9 DEF new
  <1> QED BY <1>3, <1>4

\* The first of the positions.
LEMMA FirstIs ==
    ASSUME NEW n \in Nat, NEW K \in SUBSET (1..n), K # {}
    PROVE  Min(K) \in K /\ \A k \in K : Min(K) <= k
  <1> DEFINE C == Cardinality(K)
             q == InOrder(K)
  <1>1. /\ C \in Nat /\ q \in [1..C -> K] /\ \A i, j \in 1..C : i < j => q[i] < q[j]
        /\ \A k \in K : \E i \in 1..C : q[i] = k
    BY InOrderIs
  <1> HIDE DEF C, q
  <1>2. 1 \in 1..C /\ q[1] \in K
    <2>1. PICK k \in K : TRUE
      OBVIOUS
    <2>2. PICK i \in 1..C : q[i] = k
      BY <1>1
    <2> QED BY <1>1, <2>2
  <1>3. ASSUME NEW k \in K PROVE q[1] <= k
    <2>1. PICK i \in 1..C : q[i] = k
      BY <1>1
    <2>2. i = 1 \/ 1 < i
      BY <1>1
    <2>3. q[1] \in 1..n /\ k \in 1..n
      BY <1>2
    <2> QED BY <1>1, <1>2, <2>1, <2>2, <2>3
  <1>4. \E x \in K : \A y \in K : x <= y
    BY <1>2, <1>3
  <1> QED BY <1>4, Zenon DEF Min

LEMMA NotFound ==
    ASSUME NEW rec, DOMAIN rec \subseteq Messages, NEW jid, NEW list, Listed(jid, list, rec),
           NEW m \in Messages, m[1] = jid
    PROVE  /\ FindIndex(list, m[2]) = 0 <=> m \notin DOMAIN rec
           /\ m \notin DOMAIN rec => \A i \in 1..Len(list) : list[i].id # m[2]
  <1>1. Len(list) \in Nat /\ Listed(m[1], list, rec)
    BY LenProperties DEF Listed
  <1> QED BY <1>1, Found

LEMMA SamePair ==
    ASSUME NEW m \in Messages, NEW n \in Messages, m[1] = n[1], m[2] = n[2]
    PROVE  m = n
  BY PairAssumption

\* A chunk of history adds what the list does not have, each message once, and leaves
\* the entries that it has.
LEMMA HistoryListed ==
    ASSUME NEW rec, DOMAIN rec \subseteq Messages, NEW jid, Listed(jid, messages[jid], rec),
           NEW n \in Nat, NEW chunk, DOMAIN chunk = 1..n, \A i \in 1..n : chunk[i].key \in Messages
    PROVE  Listed(jid, messages[jid] \o Only(Entries(chunk), NewIn(chunk, jid)),
                  Updated(FirstTold(chunk), rec))
  <1> DEFINE list == messages[jid]
             first == FirstTold(chunk)
             entries == Entries(chunk)
             new == Updated(first, rec)
             S == EntriesOf(jid, new)
             K == NewIn(chunk, jid)
             C == Cardinality(K)
             q == InOrder(K)
             tail == Only(entries, K)
             now == list \o tail
             N == Len(list)
  <1>1. \A i : i \in K <=> /\ i \in 1..n /\ chunk[i].key[1] = jid
                             /\ FindIndex(list, chunk[i].key[2]) = 0
                             /\ \A j \in 1..(i - 1) : chunk[j].key # chunk[i].key
    BY DEF NewIn
  <1>2. /\ DOMAIN first = {chunk[i].key : i \in 1..n}
         /\ \A m \in DOMAIN first : first[m] = chunk[Min({i \in 1..n : chunk[i].key = m})].fields
    BY DEF FirstTold
  <1>3. entries = [i \in 1..n |-> [id |-> chunk[i].key[2], fields |-> chunk[i].fields]]
    BY DEF Entries
  <1>4. Listed(jid, list, rec)
    OBVIOUS
  <1> HIDE DEF list, first, entries, K
  <1>5. /\ DOMAIN new = DOMAIN first \cup DOMAIN rec
        /\ \A m \in DOMAIN rec : new[m] = rec[m]
        /\ \A m \in DOMAIN first \ DOMAIN rec : new[m] = first[m]
    BY DEF Updated
  <1>6. N \in Nat /\ list \in Seq(EntriesOf(jid, rec))
    BY <1>4, LenProperties DEF Listed
  <1> HIDE DEF new
  <1>7. list \in Seq(S)
    <2>1. EntriesOf(jid, rec) \subseteq S
      BY <1>5 DEF EntriesOf
    <2> QED BY <1>6, <2>1, SeqMonotonic
  <1>8. ASSUME NEW i \in 1..n
        PROVE  LET k == Min({j \in 1..n : chunk[j].key = chunk[i].key})
               IN  /\ k \in 1..n /\ chunk[k].key = chunk[i].key /\ k <= i
                   /\ \A j \in 1..(k - 1) : chunk[j].key # chunk[i].key
    <2> DEFINE T == {j \in 1..n : chunk[j].key = chunk[i].key}
    <2>1. T \in SUBSET (1..n) /\ T # {} /\ i \in T
      OBVIOUS
    <2> HIDE DEF T
    <2>2. Min(T) \in T /\ \A j \in T : Min(T) <= j
      BY <2>1, FirstIs
    <2>3. Min(T) \in 1..n /\ chunk[Min(T)].key = chunk[i].key /\ Min(T) <= i
      BY <2>1, <2>2 DEF T
    <2>4. \A j \in 1..(Min(T) - 1) : j \in 1..n /\ j \notin T
      BY <2>2, <2>3
    <2>5. \A j \in 1..(Min(T) - 1) : chunk[j].key # chunk[i].key
      BY <2>4 DEF T
    <2> QED BY <2>3, <2>5 DEF T
  <1>9. ASSUME NEW i \in K
        PROVE  /\ i \in 1..n /\ chunk[i].key[1] = jid /\ chunk[i].key \in DOMAIN first \ DOMAIN rec
               /\ \A j \in 1..N : list[j].id # chunk[i].key[2]
               /\ new[chunk[i].key] = chunk[i].fields
    <2> DEFINE m == chunk[i].key
               k == Min({j \in 1..n : chunk[j].key = m})
    <2>1. i \in 1..n /\ m \in Messages /\ m[1] = jid /\ FindIndex(list, m[2]) = 0 /\ m \in DOMAIN first
      BY <1>1, <1>2
    <2> HIDE DEF m
    <2>2. m \notin DOMAIN rec
      BY <1>4, <2>1, NotFound
    <2>3. \A j \in 1..N : list[j].id # m[2]
      BY <1>4, <2>1, <2>2, NotFound
    <2>4. k = i
      <3>1. k \in 1..n /\ chunk[k].key = chunk[i].key /\ k <= i
        BY <1>8, <2>1 DEF m
      <3>2. ~(k \in 1..(i - 1))
        BY <1>1, <3>1
      <3> QED BY <2>1, <3>1, <3>2
    <2>5. new[m] = chunk[i].fields
      BY <1>2, <1>5, <2>1, <2>2, <2>4
    <2> QED BY <2>1, <2>2, <2>3, <2>5 DEF m
  <1>10. K \in SUBSET (1..n)
    BY <1>9
  <1>11. /\ C \in Nat /\ q \in [1..C -> K]
         /\ \A i, j \in 1..C : q[i] = q[j] => i = j
         /\ \A k \in K : \E i \in 1..C : q[i] = k
    BY <1>10, InOrderIs
  <1>12. tail = [i \in 1..C |-> entries[q[i]]]
    BY DEF Only
  <1> HIDE DEF tail, q, C
  <1>13. C \in Nat /\ Len(tail) = C
    <2>1. tail \in [1..C -> {entries[q[i]] : i \in 1..C}]
      BY <1>12
    <2> QED BY <1>11, <2>1, SeqIs
  <1>14. \A i \in 1..C : q[i] \in K /\ tail[i] = entries[q[i]]
    BY <1>11, <1>12
  <1>15. \A i, j \in 1..C : q[i] = q[j] => i = j
    BY <1>11
  <1>16. \A k \in K : \E i \in 1..C : q[i] = k
    BY <1>11
  <1>17. ASSUME NEW i \in 1..C
        PROVE  /\ q[i] \in K /\ tail[i] \in S /\ tail[i].id = chunk[q[i]].key[2]
               /\ \A j \in 1..N : list[j].id # tail[i].id
    <2> DEFINE m == chunk[q[i]].key
    <2>1. q[i] \in K /\ q[i] \in 1..n
      BY <1>9, <1>14
    <2>2. tail[i] = [id |-> m[2], fields |-> chunk[q[i]].fields]
      BY <1>3, <1>14, <2>1
    <2>3. /\ m \in DOMAIN new /\ m[1] = jid /\ new[m] = chunk[q[i]].fields
          /\ \A j \in 1..N : list[j].id # m[2]
      BY <1>5, <1>9, <2>1
    <2> HIDE DEF m
    <2>4. tail[i] \in S
      BY <2>2, <2>3 DEF EntriesOf
    <2> QED BY <2>1, <2>2, <2>3, <2>4 DEF m
  <1>18. tail \in Seq(S)
    <2>1. \A i \in 1..C : tail[i] \in S
      BY <1>17
    <2>2. tail \in [1..C -> S]
      BY <1>12, <2>1
    <2> QED BY <1>13, <2>2, SeqIs
  <1>19. /\ now \in Seq(S) /\ Len(now) = N + C
         /\ \A i \in 1..N : now[i] = list[i]
         /\ \A i \in 1..C : now[N + i] = tail[i]
    <2>1. /\ now \in Seq(S) /\ Len(now) = N + C
          /\ \A i \in 1..(N + C) : now[i] = IF i <= N THEN list[i] ELSE tail[i - N]
      BY <1>7, <1>13, <1>18, ConcatProperties
    <2> HIDE DEF now, N
    <2>2. ASSUME NEW i \in 1..C PROVE now[N + i] = tail[i]
      <3>1. N + i \in 1..(N + C) /\ ~(N + i <= N) /\ (N + i) - N = i
        BY <1>6, <1>13
      <3> QED BY <2>1, <3>1
    <2>3. ASSUME NEW i \in 1..N PROVE now[i] = list[i]
      <3>1. i \in 1..(N + C) /\ i <= N
        BY <1>6, <1>13
      <3> QED BY <2>1, <3>1
    <2> QED BY <2>1, <2>2, <2>3
  <1> HIDE DEF now, N
  <1>20. \A i \in 1..Len(now) : i \in 1..N \/ \E c \in 1..C : i = N + c
    <2> SUFFICES ASSUME NEW i \in 1..(N + C), i \notin 1..N PROVE \E c \in 1..C : i = N + c
      BY <1>19
    <2>1. i - N \in 1..C /\ i = N + (i - N)
      BY <1>6, <1>13
    <2> QED BY <2>1
  <1>21. ASSUME NEW i \in 1..C, NEW j \in 1..C, tail[i].id = tail[j].id PROVE i = j
    <2>1. /\ q[i] \in K /\ q[j] \in K /\ q[i] \in 1..n /\ q[j] \in 1..n
          /\ chunk[q[i]].key[1] = jid /\ chunk[q[j]].key[1] = jid
          /\ chunk[q[i]].key[2] = chunk[q[j]].key[2]
          /\ chunk[q[i]].key \in Messages /\ chunk[q[j]].key \in Messages
      BY <1>9, <1>17, <1>21
    <2>2. chunk[q[i]].key = chunk[q[j]].key
      BY <2>1, SamePair
    <2>3. ~(q[i] \in 1..(q[j] - 1)) /\ ~(q[j] \in 1..(q[i] - 1))
      BY <1>1, <2>1, <2>2
    <2>4. q[i] = q[j]
      BY <2>1, <2>3
    <2> QED BY <1>15, <2>4
  <1>22. ASSUME NEW i \in 1..Len(now), NEW j \in 1..Len(now), now[i].id = now[j].id PROVE i = j
    <2>1. CASE i \in 1..N /\ j \in 1..N
      BY <1>4, <1>19, <1>22, <2>1 DEF Listed, N
    <2>2. CASE i \in 1..N /\ j \notin 1..N
      <3>1. PICK c \in 1..C : j = N + c
        BY <1>20, <2>2
      <3>2. now[j] = tail[c] /\ now[i] = list[i]
        BY <1>19, <2>2, <3>1
      <3> QED BY <1>17, <1>22, <2>2, <3>2
    <2>3. CASE i \notin 1..N /\ j \in 1..N
      <3>1. PICK c \in 1..C : i = N + c
        BY <1>20, <2>3
      <3>2. now[i] = tail[c] /\ now[j] = list[j]
        BY <1>19, <2>3, <3>1
      <3> QED BY <1>17, <1>22, <2>3, <3>2
    <2>4. CASE i \notin 1..N /\ j \notin 1..N
      BY <1>19, <1>20, <1>21, <1>22, <2>4
    <2> QED BY <2>1, <2>2, <2>3, <2>4
  <1>23. ASSUME NEW m \in DOMAIN new, m[1] = jid PROVE \E i \in 1..Len(now) : now[i].id = m[2]
    <2>1. CASE m \in DOMAIN rec
      <3>1. PICK i \in 1..N : list[i].id = m[2]
        BY <1>4, <1>23, <2>1 DEF Listed, N
      <3>2. i \in 1..Len(now)
        BY <1>6, <1>13, <1>19
      <3> QED BY <1>19, <3>1, <3>2
    <2>2. CASE m \notin DOMAIN rec
      <3>1. PICK i \in 1..n : chunk[i].key = m
        BY <1>2, <1>5, <1>23, <2>2
      <3> DEFINE k == Min({j \in 1..n : chunk[j].key = chunk[i].key})
      <3>2. k \in 1..n /\ chunk[k].key = chunk[i].key /\ \A j \in 1..(k - 1) : chunk[j].key # chunk[i].key
        BY <1>8
      <3> HIDE DEF k
      <3>3. chunk[k].key = m /\ m \in Messages /\ \A j \in 1..(k - 1) : chunk[j].key # chunk[k].key
        BY <3>1, <3>2
      <3>4. FindIndex(list, m[2]) = 0
        BY <1>4, <1>23, <2>2, <3>3, NotFound
      <3>5. k \in K
        BY <1>1, <1>23, <3>2, <3>3, <3>4
      <3>6. PICK c \in 1..C : q[c] = k
        BY <1>16, <3>5
      <3>7. now[N + c].id = m[2] /\ N + c \in 1..Len(now)
        BY <1>6, <1>13, <1>17, <1>19, <3>3, <3>6
      <3> QED BY <3>7
    <2> QED BY <2>1, <2>2
  <1>24. Listed(jid, now, new)
    BY <1>19, <1>22, <1>23 DEF Listed
  <1> QED BY <1>24 DEF now, tail, new, list, first, entries, K

Recorded == DOMAIN record \subseteq Messages /\ DOMAIN dump.record \subseteq Messages

LEMMA JidIs == ASSUME NEW m \in Messages PROVE m[1] \in Jids
  BY DEF Jids

\* A change in the list and the record of one chat.
LEMMA OneListed ==
    ASSUME ListedInv, UNCHANGED dump, NEW m \in Messages, NEW list,
           messages' = [messages EXCEPT ![m[1]] = list],
           DOMAIN record' \cup {m} = DOMAIN record \cup {m},
           \A n \in DOMAIN record \ {m} : record'[n] = record[n],
           Listed(m[1], list, record')
    PROVE  ListedInv'
  <1>1. m[1] \in Jids /\ DOMAIN messages = Jids
    BY JidIs DEF ListedInv
  <1>2. ASSUME NEW jid \in Jids PROVE Listed(jid, messages'[jid], record')
    <2>1. CASE jid = m[1]
      BY <1>1, <2>1
    <2>2. CASE jid # m[1]
      <3>1. messages'[jid] = messages[jid] /\ Listed(jid, messages[jid], record)
        BY <1>1, <2>2 DEF ListedInv
      <3>2. Listed(jid, messages[jid], record')
        BY <2>2, <3>1, SameListed
      <3> QED BY <3>1, <3>2
    <2> QED BY <2>1, <2>2
  <1> QED BY <1>1, <1>2 DEF ListedInv

LEMMA UpsertKeepsListed ==
    ASSUME ListedInv, Recorded, NEW m \in Messages, NEW fields, MessagesUpsert(m, fields)
    PROVE  ListedInv'
  <1> DEFINE list == Upserted(messages[m[1]], m[2], fields)
             value == IF m \in DOMAIN record THEN Updated(record[m], fields) ELSE fields
  <1>1. /\ m[1] \in Jids /\ DOMAIN messages = Jids /\ Listed(m[1], messages[m[1]], record)
        /\ DOMAIN record \subseteq Messages
    BY JidIs DEF ListedInv, Recorded
  <1>2. /\ messages' = [messages EXCEPT ![m[1]] = list] /\ record' = With(record, m, value)
        /\ dump' = dump
    BY <1>1 DEF MessagesUpsert
  <1>3. Listed(m[1], list, With(record, m, value))
    BY <1>1, UpsertedListed
  <1> HIDE DEF list, value
  <1>4. DOMAIN record' = DOMAIN record \cup {m} /\ \A n \in DOMAIN record \ {m} : record'[n] = record[n]
    BY <1>2 DEF With
  <1> QED BY <1>2, <1>3, <1>4, OneListed

LEMMA UpdateKeepsListed ==
    ASSUME ListedInv, Recorded, NEW m \in Messages, NEW fields, MessagesUpdate(m, fields)
    PROVE  ListedInv'
  <1> DEFINE old == messages[m[1]]
             k == FindIndex(old, m[2])
             list == [old EXCEPT ![k] = Merged(@, fields)]
  <1>1. /\ m[1] \in Jids /\ DOMAIN messages = Jids /\ Listed(m[1], old, record) /\ dump' = dump
        /\ DOMAIN record \subseteq Messages
    BY JidIs DEF ListedInv, Recorded, MessagesUpdate
  <1>2. CASE m \in DOMAIN record
    <2>1. k # 0
      BY <1>1, <1>2, NotFound
    <2>2. messages' = [messages EXCEPT ![m[1]] = list]
      BY <1>1, <2>1 DEF MessagesUpdate
    <2>3. /\ DOMAIN record' = DOMAIN record /\ record'[m] = Updated(record[m], fields)
          /\ \A n \in DOMAIN record \ {m} : record'[n] = record[n]
      BY <1>2 DEF MessagesUpdate
    <2>4. Listed(m[1], list, record')
      BY <1>1, <1>2, <2>3, MergedListed
    <2> HIDE DEF list
    <2> QED BY <1>1, <2>2, <2>3, <2>4, OneListed
  <1>3. CASE m \notin DOMAIN record
    <2>1. k = 0
      BY <1>1, <1>3, NotFound
    <2>2. messages' = messages /\ record' = record
      BY <1>3, <2>1 DEF MessagesUpdate
    <2> QED BY <1>1, <2>2 DEF ListedInv
  <1> QED BY <1>2, <1>3

LEMMA DeleteKeepsListed ==
    ASSUME ListedInv, Recorded, NEW keys \in SUBSET Messages, MessagesDelete(keys)
    PROVE  ListedInv'
  <1>1. record' = Without(record, keys) /\ dump' = dump
    BY DEF MessagesDelete
  <1>2. DOMAIN messages' = Jids
    BY DEF MessagesDelete
  <1>3. ASSUME NEW jid \in Jids PROVE Listed(jid, messages'[jid], record')
    <2>1. Listed(jid, messages[jid], record)
      BY DEF ListedInv
    <2>2. messages'[jid] = LET list == messages[jid]
                           IN  Only(list, DOMAIN list \ {FindIndex(list, m[2]) : m \in {k \in keys : k[1] = jid}})
      BY DEF MessagesDelete
    <2> QED BY <1>1, <2>1, <2>2, DeletedListed DEF Recorded
  <1> QED BY <1>1, <1>2, <1>3 DEF ListedInv

LEMMA EmptyListed ==
    ASSUME NEW jid, NEW rec, \A m \in DOMAIN rec : m[1] # jid
    PROVE  Listed(jid, << >>, rec)
  BY EmptySeq DEF Listed

LEMMA ClearKeepsListed ==
    ASSUME ListedInv, NEW jid \in Jids, ChatCleared(jid), Recorded
    PROVE  ListedInv'
  <1>1. messages' = [messages EXCEPT ![jid] = << >>] /\ dump' = dump
    BY DEF ChatCleared
  <1>2. /\ DOMAIN record' = DOMAIN record \ {m \in Messages : m[1] = jid}
        /\ \A m \in DOMAIN record' : record'[m] = record[m]
    BY DEF ChatCleared, Without, Restrict
  <1>3. DOMAIN messages' = Jids /\ DOMAIN messages = Jids
    BY <1>1 DEF ListedInv
  <1>4. ASSUME NEW x \in Jids PROVE Listed(x, messages'[x], record')
    <2>1. CASE x = jid
      <3>1. messages'[x] = << >>
        BY <1>1, <1>3, <2>1
      <3>2. \A m \in DOMAIN record' : m[1] # x
        BY <1>2, <2>1 DEF Recorded
      <3> QED BY <3>1, <3>2, EmptyListed
    <2>2. CASE x # jid
      <3>1. messages'[x] = messages[x] /\ Listed(x, messages[x], record)
        BY <1>1, <1>3, <2>2 DEF ListedInv
      <3>2. Listed(x, messages[x], record')
        BY <1>2, <2>2, <3>1, SameListed
      <3> QED BY <3>1, <3>2
    <2> QED BY <2>1, <2>2
  <1> QED BY <1>1, <1>3, <1>4 DEF ListedInv

LEMMA HistoryKeepsListed ==
    ASSUME ListedInv, Recorded, NEW chunk \in Chunks, NEW jid, NEW t, NEW isLatest,
           HistorySet(chunk, jid, t, isLatest), Own \subseteq Messages
    PROVE  ListedInv'
  <1>1. PICK n \in Nat : DOMAIN chunk = 1..n /\ \A i \in 1..n : chunk[i].key \in Messages
    <2> DEFINE Old(m) == [key |-> m, fields |-> [content |-> "old"]]
    <2>1. PICK x \in Messages, y \in Messages : chunk = <<Old(x)>> \/ chunk = <<Old(x), Old(y)>>
      BY DEF Chunks, Theirs
    <2>2. Old(x).key = x /\ Old(y).key = y
      OBVIOUS
    <2> HIDE DEF Old
    <2>3. CASE chunk = <<Old(x)>>
      <3>1. DOMAIN chunk = 1..1 /\ \A i \in 1..1 : chunk[i].key \in Messages
        BY <2>2, <2>3
      <3> QED BY <3>1
    <2>4. CASE chunk = <<Old(x), Old(y)>>
      <3>1. DOMAIN chunk = 1..2 /\ \A i \in 1..2 : chunk[i].key \in Messages
        BY <2>2, <2>4
      <3> QED BY <3>1
    <2> QED BY <2>1, <2>3, <2>4
  <1>2. record' = Updated(FirstTold(chunk), record) /\ dump' = dump
    BY DEF HistorySet
  <1>3. messages' = [chat \in Jids |-> messages[chat] \o Only(Entries(chunk), NewIn(chunk, chat))]
    BY DEF HistorySet
  <1>4. ASSUME NEW x \in Jids PROVE Listed(x, messages'[x], record')
    <2>1. Listed(x, messages[x], record) /\ DOMAIN record \subseteq Messages
      BY DEF ListedInv, Recorded
    <2>2. messages'[x] = messages[x] \o Only(Entries(chunk), NewIn(chunk, x))
      BY <1>3
    <2>3. Listed(x, messages[x] \o Only(Entries(chunk), NewIn(chunk, x)), Updated(FirstTold(chunk), record))
      BY <1>1, <2>1, HistoryListed
    <2> QED BY <1>2, <2>2, <2>3
  <1> QED BY <1>2, <1>3, <1>4 DEF ListedInv

\* The list of a chat has each message that the store was told of and that was not deleted
\* exactly once, with what live events said of it last, for any number of messages: however
\* redeliveries, receipts, overlapping chunks of history, deletions and restarts come.
THEOREM ListsAreOfRecords == Spec => []EachMessageOnce
  <1>1. Init => ListedInv
    <2> SUFFICES ASSUME Init PROVE ListedInv
      OBVIOUS
    <2>1. /\ messages = [jid \in Jids |-> << >>] /\ record = << >>
          /\ dump.messages = messages /\ dump.record = << >>
      BY DEF Init, StoreInit
    <2>2. \A jid : Listed(jid, << >>, << >>)
      BY EmptyListed
    <2> QED BY <2>1, <2>2 DEF ListedInv
  <1>2. ASSUME Inv, ListedInv, [Next]_vars PROVE ListedInv'
    <2>0. Recorded /\ Own \subseteq Messages
      BY <1>2, OwnAssumption DEF Inv, Typed, Recorded
    <2>1. CASE UNCHANGED <<messages, record, dump>>
      BY <1>2, <2>1 DEF ListedInv
    <2>2. ASSUME NEW m \in Messages, NEW fields, MessagesUpsert(m, fields) \/ MessagesUpdate(m, fields)
          PROVE  ListedInv'
      BY <1>2, <2>0, <2>2, UpsertKeepsListed, UpdateKeepsListed
    <2>3. CASE WriteDone
      <3>1. Head(writes) \in Messages
        BY <1>2, <2>3, HeadTailProperties, OwnAssumption DEF WriteDone, Inv, Typed
      <3>2. MessagesUpsert(Head(writes), OwnEvent(Head(writes))) \/ UNCHANGED <<messages, record, dump>>
        BY <2>3 DEF WriteDone, storevars, contents, history
      <3> QED BY <2>1, <2>2, <3>1, <3>2
    <2>4. CASE \E m \in Theirs : HandleMessageNode(m)
      <3>1. PICK m \in Theirs, hasBody \in BOOLEAN : MessagesUpsert(m, ParseMessageNode(hasBody))
        BY <2>4 DEF HandleMessageNode
      <3>2. m \in Messages
        BY DEF Theirs
      <3> QED BY <2>2, <3>1, <3>2
    <2>5. CASE ApplicationEvent
      <3>1. CASE \E keys \in SUBSET DOMAIN record : MessagesDelete(keys)
        <4>1. PICK keys \in SUBSET DOMAIN record : MessagesDelete(keys)
          BY <3>1
        <4>2. keys \in SUBSET Messages
          BY <2>0 DEF Recorded
        <4> QED BY <1>2, <2>0, <4>1, <4>2, DeleteKeepsListed
      <3>2. CASE \E jid \in Jids : ChatCleared(jid)
        BY <1>2, <2>0, <3>2, ClearKeepsListed
      <3>3. CASE \E jid \in Jids : ChatsDelete(jid) \/ \E t \in ChatTimes : ChatsUpsert(jid, t) \/ ChatsUpdate(jid, t)
        BY <2>1, <3>3 DEF ChatsDelete, ChatsUpsert, ChatsUpdate
      <3>4. CASE \E jid \in Jids : \E t \in ChatTimes, isLatest \in BOOLEAN, chunk \in Chunks :
                    HistorySet(chunk, jid, t, isLatest)
        BY <1>2, <2>0, <3>4, HistoryKeepsListed
      <3>5. CASE ToJSON
        <4>1. /\ messages' = messages /\ record' = record
              /\ dump'.messages = messages /\ dump'.record = record
          BY <3>5 DEF ToJSON, contents, history
        <4> QED BY <1>2, <4>1 DEF ListedInv
      <3>6. CASE Clear
        <4>1. messages' = [jid \in Jids |-> << >>] /\ record' = << >> /\ dump' = dump
          BY <3>6 DEF Clear
        <4>2. \A jid : Listed(jid, << >>, << >>)
          BY EmptyListed
        <4> QED BY <1>2, <4>1, <4>2 DEF ListedInv
      <3> QED BY <2>5, <3>1, <3>2, <3>3, <3>4, <3>5, <3>6 DEF ApplicationEvent
    <2>6. CASE Restart
      BY <1>2, <2>6 DEF Restart, FromJSON, ListedInv
    <2>7. CASE ContentBuilt \/ ServerReceives \/ ConnectionLost \/ Reconnected \/ SendPresenceUpdate
      BY <2>1, <2>7 DEF ContentBuilt, ServerReceives, ConnectionLost, Reconnected, SendPresenceUpdate,
                        Command, storevars, contents, history
    <2>8. CASE \E k \in Keys : DeleteMessage(k) \/ EditMessage(k) \/ SendReadReceipt(k)
      BY <2>1, <2>8 DEF DeleteMessage, EditMessage, SendReadReceipt, Command, contents, history
    <2>9. CASE \E m \in Own : \E c \in ContentsOf(m) : SendMessage(m, c)
      BY <2>1, <2>9 DEF SendMessage, contents, history
    <2>10. CASE (\E m \in Theirs : Decrypted(m)) \/ \E m \in Own : HandleReceiptNode(m)
      <3>1. \A m \in Theirs \cup Own : m \in Messages
        BY <2>0 DEF Theirs
      <3> QED BY <2>2, <2>10, <3>1 DEF Decrypted, HandleReceiptNode
    <2>11. CASE UNCHANGED vars
      BY <2>1, <2>11 DEF vars, storevars, contents, history
    <2> QED BY <1>2, <2>3, <2>4, <2>5, <2>6, <2>7, <2>8, <2>9, <2>10, <2>11 DEF Next
  <1>3. Inv /\ ListedInv => EachMessageOnce
    <2> SUFFICES ASSUME Inv, ListedInv, NEW jid \in Jids
                 PROVE  /\ IsInjective([i \in DOMAIN messages[jid] |-> messages[jid][i].id])
                        /\ {<<<<jid, e.id>>, e.fields>> : e \in ToSet(messages[jid])}
                             = {<<m, record[m]>> : m \in {n \in DOMAIN record : n[1] = jid}}
      BY DEF EachMessageOnce
    <2> DEFINE list == messages[jid]
    <2>1. Listed(jid, list, record) /\ DOMAIN record \subseteq Messages
      BY DEF ListedInv, Inv, Typed
    <2>2. DOMAIN list = 1..Len(list)
      BY <2>1, LenProperties DEF Listed
    <2> HIDE DEF list
    <2>3. IsInjective([i \in DOMAIN list |-> list[i].id])
      BY <2>1, <2>2 DEF Listed, IsInjective
    <2>4. ASSUME NEW e \in ToSet(list)
          PROVE  \E m \in DOMAIN record : m[1] = jid /\ <<<<jid, e.id>>, e.fields>> = <<m, record[m]>>
      <3>1. PICK i \in 1..Len(list) : e = list[i]
        BY <2>2 DEF ToSet
      <3>2. <<jid, e.id>> \in DOMAIN record /\ e = [id |-> e.id, fields |-> record[<<jid, e.id>>]]
        BY <2>1, <3>1, EntryIs
      <3>3. e.fields = record[<<jid, e.id>>]
        BY <3>2
      <3> QED BY <3>2, <3>3
    <2>5. ASSUME NEW m \in DOMAIN record, m[1] = jid
          PROVE  \E e \in ToSet(list) : <<<<jid, e.id>>, e.fields>> = <<m, record[m]>>
      <3>1. PICK i \in 1..Len(list) : list[i].id = m[2]
        BY <2>1, <2>5 DEF Listed
      <3>2. <<jid, list[i].id>> = m
        BY <2>1, <2>5, <3>1, PairAssumption
      <3>3. list[i] = [id |-> list[i].id, fields |-> record[<<jid, list[i].id>>]]
        BY <2>1, EntryIs
      <3>4. list[i].fields = record[m] /\ list[i] \in ToSet(list)
        BY <2>2, <3>2, <3>3 DEF ToSet
      <3> QED BY <3>2, <3>4
    <2>6. {<<<<jid, e.id>>, e.fields>> : e \in ToSet(list)}
             = {<<m, record[m]>> : m \in {n \in DOMAIN record : n[1] = jid}}
      BY <2>4, <2>5
    <2> QED BY <2>3, <2>6 DEF list
  <1> QED BY <1>1, <1>2, <1>3, Invariant, PTL DEF Spec

=============================================================================
